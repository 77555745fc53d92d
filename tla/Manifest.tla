------------------------------ MODULE Manifest ------------------------------
(***************************************************************************)
(* The state machine of a post's manifest.json (internal/manifest): the    *)
(* pipeline states, the transitions Transition accepts, and the failure    *)
(* metadata that routes a failed post back to the stage that failed.       *)
(*                                                                         *)
(* A manifest is a record. The operators below read and update the fields  *)
(*   state    - where the post is in the pipeline                          *)
(*   failure  - the dead-letter entry, or NoFailure                        *)
(*   approved - review.decision = "approved"                               *)
(*   postID   - publishing.instagram_post_id, NoId when empty              *)
(* and leave every other field of the record alone, so the modules that    *)
(* use them add the fields their component needs.                          *)
(***************************************************************************)
EXTENDS Integers

States == {"scanned", "validated", "enriched", "pending_review", "approved",
           "rejected", "publishing", "published", "scheduled", "archived",
           "error"}

FailureStages == {"scan", "validate", "enrich", "publish", "archive",
                  "syndicate"}

(* Media and container ids are numbers; the empty string and the id the    *)
(* dry-run client hands out are told apart from every real one.            *)
NoId == 0
DryRunId == -1

(* "archived" has no entry in the code's map: nothing leaves it.           *)
validTransitions ==
  [s \in States |->
     CASE s = "scanned"        -> {"validated", "error"}
       [] s = "validated"      -> {"pending_review", "error"}
       [] s = "enriched"       -> {"pending_review", "error"}
       [] s = "pending_review" -> {"approved", "rejected", "validated"}
       [] s = "approved"       -> {"publishing", "scheduled", "error"}
       [] s = "rejected"       -> {"pending_review"}
       [] s = "publishing"     -> {"published", "error"}
       [] s = "scheduled"      -> {"publishing", "approved", "error"}
       [] s = "published"      -> {"archived", "error"}
       [] s = "archived"       -> {}
       [] s = "error"          -> {"scanned", "validated", "approved",
                                   "published"}]

CanTransition(m, to) == to \in validTransitions[m.state]

Transition(m, to) == [m EXCEPT !.state = to]

Failure == [stage : FailureStages, retry : States]

NoFailure == [stage |-> "none", retry |-> "none"]

RetryStateForFailureStage ==
  [g \in FailureStages |->
     CASE g \in {"scan", "validate"}     -> "scanned"
       [] g = "enrich"                   -> "validated"
       [] g = "publish"                  -> "approved"
       [] g \in {"archive", "syndicate"} -> "published"]

(* Mutant of RecordFailure: the retry state is not filled in.              *)
RecordFailureWithoutRetryState(m, stage, retryFrom) ==
  [m EXCEPT !.failure = [stage |-> stage, retry |-> "none"],
            !.state   = IF CanTransition(m, "error") THEN "error" ELSE @]

(* The failure is recorded even where the transition to "error" is not     *)
(* allowed; the state then stays what it was.                              *)
RecordFailure(m, stage, retryFrom) ==
  [m EXCEPT !.failure = [stage |-> stage, retry |-> retryFrom],
            !.state   = IF CanTransition(m, "error") THEN "error" ELSE @]

(* A manifest written before failure metadata existed has state "error"    *)
(* and no failure: the stage is inferred from what the post has reached.   *)
EffectiveFailureStage(m) ==
  CASE m.failure # NoFailure                                     -> m.failure.stage
    [] m.failure = NoFailure /\ m.approved                       -> "publish"
    [] m.failure = NoFailure /\ ~m.approved /\ m.postID # NoId   -> "archive"
    [] OTHER                                                     -> "scan"

EffectiveRetryState(m) ==
  IF m.failure # NoFailure THEN m.failure.retry
  ELSE RetryStateForFailureStage[EffectiveFailureStage(m)]

CanPrepareRetry(m) ==
  /\ m.state = "error"
  /\ CanTransition(m, EffectiveRetryState(m))

PrepareRetry(m) ==
  [m EXCEPT !.state = EffectiveRetryState(m), !.failure = NoFailure]

=============================================================================
