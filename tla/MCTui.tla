------------------------------- MODULE MCTui -------------------------------
(***************************************************************************)
(* Symmetry for Tui: runs of a kind are interchangeable.                   *)
(***************************************************************************)
EXTENDS Tui, TLC

AnyRun == Permutations(Pipes) \cup Permutations(Pubs)

=============================================================================
