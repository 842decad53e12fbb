---------------------------- MODULE MCFleetsJobs ----------------------------
(***************************************************************************)
(* Small instances of FleetsJobs for TLC.                                  *)
(***************************************************************************)
EXTENDS FleetsProperties, TLC

\* Every job lives in the same Code Engine region.
OneRegion == [j \in Jobs |-> "us-east"]

=============================================================================
