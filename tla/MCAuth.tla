------------------------------- MODULE MCAuth --------------------------------
(***************************************************************************)
(* The processes are interchangeable. For TLC.                             *)
(***************************************************************************)
EXTENDS Auth, TLC

AnyProc == Permutations(Procs)

=============================================================================
