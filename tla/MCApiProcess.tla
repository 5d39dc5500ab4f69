---------------------------- MODULE MCApiProcess ----------------------------
(***************************************************************************)
(* An instance of ApiProcess for TLC.                                      *)
(***************************************************************************)
EXTENDS ApiProcess

CONSTANTS p1, p2

TwoProcesses == {p1, p2}
=============================================================================
