--------------------------- MODULE AtomicRegister ---------------------------
(***************************************************************************)
(* What a file that is replaced as a whole promises: one version after     *)
(* another, each as it was written, and never anything in between.         *)
(***************************************************************************)
CONSTANTS
  Versions,   \* what is ever written
  Before      \* what the file holds at first

VARIABLE value

Init == value = Before

Replace(v) == value' = v

Next == \E v \in Versions : Replace(v)

Spec == Init /\ [][Next]_value

=============================================================================
