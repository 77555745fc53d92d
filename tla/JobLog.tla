------------------------------- MODULE JobLog -------------------------------
(***************************************************************************)
(* internal/joblog: the directory of job logs.                             *)
(*                                                                         *)
(* A command that keeps a log (the interface, ppw watch, pipeline and      *)
(* publish) opens a file under an active name and, at its end, renames it  *)
(* to a name with its outcome and the time. A sweep removes finished logs  *)
(* by that name. Time is left out: a finished log has any age at a sweep.  *)
(***************************************************************************)
CONSTANTS
  Jobs,      \* commands that keep a log
  Kept       \* outcomes whose logs are kept for ever

Outcomes == {"success", "failed"}

ASSUME JobLogAssumption == Kept \subseteq Outcomes

Names == {"active", "removed"} \cup Outcomes

VARIABLE log    \* the name of each job's log

(* A second Close does nothing.                                            *)
Close(j, success) ==
  /\ log[j] = "active"
  /\ log' = [log EXCEPT ![j] = IF success THEN "success" ELSE "failed"]

(* Mutant of Expired: every log goes by its age.                           *)
ExpiredByAge(j) == log[j] # "removed"

Expired(j) == log[j] \in Outcomes \ Kept

(* One pass. A log that is too young, cannot be removed or is gone is left *)
(* out.                                                                    *)
Sweep ==
  \E removed \in SUBSET {j \in Jobs : Expired(j)} :
    log' = [j \in Jobs |-> IF j \in removed THEN "removed" ELSE log[j]]

=============================================================================
