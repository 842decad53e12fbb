------------------------------ MODULE MCRayJobs ------------------------------
(***************************************************************************)
(* Small instances of RayJobs for TLC.                                     *)
(***************************************************************************)
EXTENDS RayJobs

Two == {1, 2}
=============================================================================
