---------------------------- MODULE MCJobWrapper ----------------------------
(***************************************************************************)
(* A small instance of JobWrapper for TLC.                                 *)
(***************************************************************************)
EXTENDS JobWrapper

SomeLines == <<"[PUBLIC]", "[PUBLIC]", "", "[PUBLIC]", "[PRIVATE]">>
=============================================================================
