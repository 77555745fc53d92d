---------------------------- MODULE MCScheduler -----------------------------
(***************************************************************************)
(* Values for the constants of Scheduler.                                  *)
(***************************************************************************)
EXTENDS Scheduler, TLC

(* Two named days, and one the code takes for Sunday.                      *)
ThreeSlots ==
  {[day |-> "monday", time |-> 0], [day |-> "friday", time |-> 1],
   [day |-> "sundays", time |-> 1]}

(* Runs are interchangeable.                                              *)
AnyRun == Permutations(Runs)

=============================================================================
