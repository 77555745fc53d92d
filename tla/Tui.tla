-------------------------------- MODULE Tui --------------------------------
(***************************************************************************)
(* internal/tui: the panels of the unified interface over one post, the    *)
(* background runs its keys and the watcher start, and beside it another   *)
(* program, ppw review, with the ppw enrich it tells its user to run.      *)
(*                                                                         *)
(* The panels hold manifests read at the last reload. A key acts on what   *)
(* is in memory and writes it to manifest.json, whatever runs have written *)
(* there since; runs report to the interface, which then reloads. ppw      *)
(* review does the same with a manifest that it never reads again.         *)
(* Runs are cut where they rewrite the manifest: the modules Pipeline,     *)
(* Publisher and Archiver show what happens in between. Every scan of the  *)
(* directory makes a post of its own, named by a number: images, caption   *)
(* and location that somebody has to look at. What a run has published is  *)
(* left to the module Publisher: the post id in the file decides only how  *)
(* a failure without metadata is retried, and no run leaves one.           *)
(* Faults names what may happen besides:                                   *)
(*   "scan" - the directory cannot be scanned, holds no image or takes no  *)
(*            manifest                                                     *)
(*   "quit" - the program ends and is started again                        *)
(*   "write" - rewriting manifest.json fails, the old file stays           *)
(*   "review" - ppw review is used at the same time                        *)
(*   "beside" - a dialog of the interface may be open beside ppw review    *)
(***************************************************************************)
EXTENDS Manifest

CONSTANTS
  Pipes,     \* pipeline runs, of the watcher or of the interface
  Pubs,      \* publish and archive runs
  Faults,    \* see above
  MaxScans   \* bound: how often the directory is scanned

ASSUME ConstantsAssumption ==
  /\ Pipes \cap Pubs = {}
  /\ Faults \subseteq {"scan", "quit", "write", "review", "beside"}
  /\ MaxScans \in Nat

Runs == Pipes \cup Pubs

ManifestRecord ==
  [state : States \cup {"gone"}, failure : Failure \cup {NoFailure},
   approved : BOOLEAN, scan : Nat]

(* There is no manifest.json.                                              *)
Gone == [state |-> "gone", failure |-> NoFailure, approved |-> FALSE, scan |-> 0]

PanelOf(m) ==
  CASE m.state = "pending_review"             -> "pending"
    [] m.state = "error"                      -> "dead"
    [] m.state \in {"approved", "scheduled"}  -> "queue"
    [] OTHER                                  -> "none"

VARIABLES
  manifest,  \* the file
  panel,     \* the panel that lists the post
  entry,     \* the manifest it lists, in memory
  editing,   \* the manifest open in the caption editor, or Gone
  dialog,    \* the dialog that is open, or "none"
  review,    \* the manifest in ppw review, or Gone
  pc, mem,   \* next step and manifest of each run
  scans,     \* scans so far
  approvals, \* history: scans the interface, or ppw review, had in memory
             \* when the user approved the post
  live       \* scans that are posted to the feed

overlays == <<editing, dialog>>
tuiVars == <<panel, entry, overlays, review>>
runVars == <<pc, mem>>
vars == <<manifest, tuiVars, runVars, scans, approvals, live>>

Dialogs == {"none", "approve", "reject", "publishAll"}

(* The panels are read again: a post that none of them lists is forgotten. *)
Listed(m) == IF PanelOf(m) = "none" THEN Gone ELSE m

Show(m) == panel' = PanelOf(m) /\ entry' = Listed(m)

Init ==
  /\ manifest = Gone
  /\ panel = "none" /\ entry = Gone /\ editing = Gone /\ review = Gone
  /\ dialog = "none"
  /\ pc = [r \in Runs |-> "idle"]
  /\ mem = [r \in Runs |-> Gone]
  /\ scans = 0
  /\ approvals = {} /\ live = {}

Go(r, label) == pc' = [pc EXCEPT ![r] = label]

(* m.Write: keys do not look at the error, or tell the user.               *)
Write(m) ==
  \/ manifest' = m
  \/ "write" \in Faults /\ UNCHANGED manifest

StartOne(kind, label) ==
  \E r \in kind : pc[r] = "idle" /\ Go(r, label) /\ UNCHANGED mem

-----------------------------------------------------------------------------
(* Keys. The editor and the dialogs take all of them.                      *)

Key(p) == panel = p /\ editing = Gone /\ dialog = "none"

(* Bound: the user does not leave a dialog open to use ppw review.         *)
OneAtATime(otherClosed) == "beside" \in Faults \/ otherClosed

OpenDialog ==
  /\ OneAtATime(review = Gone)
  /\ \/ Key("pending") /\ dialog' \in {"approve", "reject"}
     \/ Key("queue") /\ dialog' = "publishAll"
  /\ UNCHANGED <<manifest, panel, entry, editing, review, runVars, scans, approvals,
                 live>>

(* Esc; or the answer is yes, but a reload has taken the post off the list *)
(* the dialog is about.                                                    *)
CloseDialog ==
  /\ dialog # "none"
  /\ dialog' = "none"
  /\ UNCHANGED <<manifest, panel, entry, editing, review, runVars, scans, approvals,
                 live>>

(* The answer is yes, and the dialog closes. It is about what the panel    *)
(* holds by now: a message may have reloaded it behind the dialog.         *)
Answer(d, p) == dialog = d /\ panel = p /\ dialog' = "none"

(* Mutant of Approve: what the file says by now is approved.               *)
ApproveFile ==
  /\ Answer("approve", "pending")
  /\ manifest.state = "pending_review"
  /\ manifest' = [manifest EXCEPT !.approved = TRUE, !.state = "approved"]
  /\ Show(manifest')
  /\ approvals' = approvals \cup {entry.scan}
  /\ StartOne(Pubs, "read") \/ UNCHANGED runVars
  /\ UNCHANGED <<editing, review, scans, live>>

(* approvePost; "now" goes on to publish even if the approval failed.      *)
Approve ==
  /\ Answer("approve", "pending")
  /\ LET m == [entry EXCEPT !.approved = TRUE]
     IN  IF CanTransition(m, "approved")
           THEN Write(Transition(m, "approved")) /\ Show(manifest')
           ELSE entry' = m /\ UNCHANGED <<manifest, panel>>
  /\ approvals' = approvals \cup {entry.scan}
  /\ StartOne(Pubs, "read") \/ UNCHANGED runVars
  /\ UNCHANGED <<editing, review, scans, live>>

Reject ==
  /\ Answer("reject", "pending")
  /\ LET m == [entry EXCEPT !.approved = FALSE]
     IN  IF CanTransition(m, "rejected")
           THEN Write(Transition(m, "rejected")) /\ Show(manifest')
           ELSE entry' = m /\ UNCHANGED <<manifest, panel>>
  /\ UNCHANGED <<editing, review, runVars, scans, approvals, live>>

(* The posts of the queue are published, those of the list as it is now.   *)
publishAllQueued ==
  /\ Answer("publishAll", "queue")
  /\ StartOne(Pubs, "read")
  /\ UNCHANGED <<manifest, panel, entry, editing, review, scans, approvals, live>>

toggleStory ==
  /\ Key("pending")
  /\ Write(entry)
  /\ UNCHANGED <<tuiVars, runVars, scans, approvals, live>>

OpenEditor ==
  /\ Key("pending")
  /\ editing' = entry
  /\ UNCHANGED <<manifest, panel, entry, dialog, review, runVars, scans, approvals,
                 live>>

CloseEditor ==
  /\ editing # Gone
  /\ manifest' \in {editing, manifest}
  /\ editing' = Gone
  /\ UNCHANGED <<panel, entry, dialog, review, runVars, scans, approvals, live>>

reEnrich ==
  /\ Key("pending")
  /\ CanTransition(entry, "validated")
  /\ entry' = Transition(entry, "validated")
  /\ \/ manifest' = entry' /\ StartOne(Pipes, "scan")
     \/ "write" \in Faults /\ UNCHANGED <<manifest, runVars>>
  /\ UNCHANGED <<panel, overlays, review, scans, approvals, live>>

dequeuePost ==
  /\ Key("queue")
  /\ Write([entry EXCEPT !.state = "pending_review", !.approved = FALSE])
  /\ Show(manifest')
  /\ UNCHANGED <<overlays, review, runVars, scans, approvals, live>>

publishSelected ==
  /\ Key("queue")
  /\ StartOne(Pubs, "read")
  /\ UNCHANGED <<manifest, tuiVars, scans, approvals, live>>

(* preparePostForRetry has no effect on a post that is, in memory, already *)
(* prepared: that one is published.                                        *)
RetryPrepared ==
  /\ Key("dead")
  /\ entry.state # "error"
  /\ StartOne(Pubs, "read")
  /\ UNCHANGED <<manifest, tuiVars, scans, approvals, live>>

retryDeadLetterPost ==
  /\ Key("dead")
  /\ CanPrepareRetry(entry)
  /\ LET stage == EffectiveFailureStage(entry)
     IN  /\ entry' = PrepareRetry(entry)
         /\ IF stage \in {"publish", "syndicate"} /\ ~entry.approved
              THEN UNCHANGED <<manifest, runVars>>
              ELSE \/ /\ manifest' = entry'
                      /\ CASE stage \in {"publish", "syndicate"} -> StartOne(Pubs, "read")
                           [] stage = "archive"                  -> StartOne(Pubs, "archive")
                           [] OTHER                              -> StartOne(Pipes, "scan")
                   \/ "write" \in Faults /\ UNCHANGED <<manifest, runVars>>
  /\ UNCHANGED <<panel, overlays, review, scans, approvals, live>>

(* A message of a run: reload, and archive what was published.             *)
Update(r) ==
  /\ pc[r] \in {"report", "reportPublished"}
  /\ Show(manifest)
  /\ Go(r, IF pc[r] = "reportPublished" THEN "archive" ELSE "idle")
  /\ UNCHANGED <<manifest, overlays, review, mem, scans, approvals, live>>

(* The interface is left and started again: its runs and its memory are    *)
(* gone, commands go on.                                                   *)
Restart ==
  /\ "quit" \in Faults
  /\ pc' = [r \in Runs |-> IF pc[r] = "command" THEN "command" ELSE "idle"]
  /\ mem' = [r \in Runs |-> IF pc[r] = "command" THEN mem[r] ELSE Gone]
  /\ editing' = Gone /\ dialog' = "none"
  /\ Show(manifest)
  /\ UNCHANGED <<manifest, review, scans, approvals, live>>

-----------------------------------------------------------------------------
(* ppw review. A post it has decided about leaves its list.                *)

ReviewVars == <<panel, entry, overlays, runVars, scans, live>>

StartReview ==
  /\ "review" \in Faults
  /\ review = Gone /\ OneAtATime(dialog = "none")
  /\ manifest.state = "pending_review"
  /\ review' = manifest
  /\ UNCHANGED <<ReviewVars, manifest, approvals>>

Decide(approved, state) ==
  LET m == [review EXCEPT !.approved = approved] IN
  /\ review # Gone
  /\ IF CanTransition(m, state)
       THEN Write(Transition(m, state)) /\ review' = Gone
       ELSE review' = m /\ UNCHANGED manifest
  /\ approvals' = IF approved THEN approvals \cup {review.scan} ELSE approvals
  /\ UNCHANGED ReviewVars

(* The story or the caption is changed.                                    *)
ReviewEdit ==
  /\ review # Gone
  /\ Write(review)
  /\ UNCHANGED <<ReviewVars, review, approvals>>

(* The state is set without asking whether it may be.                      *)
ReviewReEnrich ==
  /\ review # Gone
  /\ Write([review EXCEPT !.state = "validated"])
  /\ review' = Gone
  /\ UNCHANGED <<ReviewVars, approvals>>

LeaveReview ==
  /\ review # Gone
  /\ review' = Gone
  /\ UNCHANGED <<ReviewVars, manifest, approvals>>

ReviewKey ==
  \/ StartReview \/ Decide(TRUE, "approved") \/ Decide(FALSE, "rejected")
  \/ ReviewEdit \/ ReviewReEnrich \/ LeaveReview

-----------------------------------------------------------------------------
(* Pipeline runs.                                                          *)

(* The watcher sees a new directory, or an image of a failed post change;  *)
(* the run starts after the debounce, when the post may have moved on.     *)
WatcherArms(r) ==
  /\ pc[r] = "idle"
  /\ manifest.state \in {"gone", "error"}
  /\ Go(r, "scan")
  /\ UNCHANGED <<manifest, tuiVars, mem, scans, approvals, live>>

Over == {"idle", "report", "reportPublished"}

Forget(r, label) == mem' = [mem EXCEPT ![r] = Gone] /\ Go(r, label)

(* A run writes its manifest and goes on, or is over and forgets it.       *)
Put(r, m, label) ==
  /\ manifest' = m
  /\ mem' = [mem EXCEPT ![r] = IF label \in Over THEN Gone ELSE m]
  /\ Go(r, label)

(* A run that cannot write is over. A pipeline run that fails sends a      *)
(* message that reloads nothing.                                           *)
Save(r, m, label) ==
  \/ Put(r, m, label)
  \/ /\ "write" \in Faults
     /\ Forget(r, IF r \in Pipes THEN "idle" ELSE "report")
     /\ UNCHANGED manifest

Scanned(n) == [state |-> "scanned", failure |-> NoFailure, approved |-> FALSE, scan |-> n]

Scan(r) ==
  /\ pc[r] = "scan"
  /\ \/ /\ scans < MaxScans
        /\ scans' = scans + 1
        /\ Put(r, Scanned(scans'), "validate")
     \/ "scan" \in Faults /\ Go(r, "idle") /\ UNCHANGED <<manifest, mem, scans>>
  /\ UNCHANGED <<tuiVars, approvals, live>>

Validate(r) ==
  /\ pc[r] = "validate"
  /\ \/ Save(r, Transition(mem[r], "validated"), "enrich")
     \/ Save(r, RecordFailure(mem[r], "validate", "scanned"), "idle")
  /\ UNCHANGED <<tuiVars, scans, approvals, live>>

(* Bound: one ppw enrich at a time.                                        *)
NoCommand == \A r \in Pipes : pc[r] # "command"

(* ppw enrich reads the file. It reports to nobody.                        *)
EnrichCommand(r) ==
  /\ pc[r] = "idle" /\ NoCommand
  /\ manifest.state = "validated"
  /\ mem' = [mem EXCEPT ![r] = manifest]
  /\ Go(r, "command")
  /\ UNCHANGED <<manifest, tuiVars, scans, approvals, live>>

Enrich(r) ==
  /\ pc[r] \in {"enrich", "command"}
  /\ Save(r, Transition(mem[r], "pending_review"),
          IF pc[r] = "enrich" THEN "report" ELSE "idle")
  /\ UNCHANGED <<tuiVars, scans, approvals, live>>

-----------------------------------------------------------------------------
(* Publish and archive runs.                                               *)

(* runPublish reads the file; Publish prepares a retry itself if need be.  *)
ReadPost(r) ==
  /\ pc[r] = "read"
  /\ LET retry == CanPrepareRetry(manifest) /\ manifest.approved
         read  == IF retry THEN PrepareRetry(manifest) ELSE manifest
     IN  Save(r, read, IF read.state \in {"approved", "publishing"} /\ read.approved
                         THEN "enter" ELSE "report")
  /\ UNCHANGED <<tuiVars, scans, approvals, live>>

(* The token is refused: nothing is recorded.                              *)
TokenRefused(r) ==
  /\ pc[r] = "enter"
  /\ Forget(r, "report")
  /\ UNCHANGED <<manifest, tuiVars, scans, approvals, live>>

EnterPublishing(r) ==
  /\ pc[r] = "enter"
  /\ IF mem[r].state = "approved"
       THEN Save(r, Transition(mem[r], "publishing"), "post")
       ELSE Go(r, "post") /\ UNCHANGED <<manifest, mem>>
  /\ UNCHANGED <<tuiVars, scans, approvals, live>>

Post(r) ==
  /\ pc[r] = "post"
  /\ live' = live \cup {mem[r].scan}
  /\ Put(r, mem[r], "finish")
  /\ UNCHANGED <<tuiVars, scans, approvals>>

(* The post goes live but the reply of Instagram is lost, or cannot be     *)
(* written and counts as a failure.                                        *)
PublishReplyLost(r) ==
  /\ pc[r] = "post"
  /\ live' = live \cup {mem[r].scan}
  /\ Save(r, RecordFailure(mem[r], "publish", "approved"), "report")
  /\ UNCHANGED <<tuiVars, scans, approvals>>

FinishPublishing(r) ==
  /\ pc[r] = "finish"
  /\ Save(r, Transition(mem[r], "published"), "reportPublished")
  /\ UNCHANGED <<tuiVars, scans, approvals, live>>

(* Mutant of PublishFails: failures count as failures of syndication.      *)
PublishFailsAsSyndication(r) ==
  /\ pc[r] \in {"enter", "post", "finish"}
  /\ Save(r, RecordFailure(mem[r], "syndicate", RetryStateForFailureStage["syndicate"]),
          "report")
  /\ UNCHANGED <<tuiVars, scans, approvals, live>>

(* After the post a strict syndication failure is the one that counts.     *)
PublishFails(r) ==
  /\ pc[r] \in {"enter", "post", "finish"}
  /\ LET stage == IF pc[r] = "finish" THEN "syndicate" ELSE "publish"
     IN  Save(r, RecordFailure(mem[r], stage, RetryStateForFailureStage[stage]),
              "report")
  /\ UNCHANGED <<tuiVars, scans, approvals, live>>

(* Archive: refused unless the post is published.                          *)
Archive(r) ==
  /\ pc[r] = "archive"
  /\ IF manifest.state # "published"
       THEN UNCHANGED <<manifest, mem>> /\ Go(r, "report")
       ELSE \/ Save(r, Gone, "report")
            \/ Save(r, RecordFailure(manifest, "archive", "published"), "report")
  /\ UNCHANGED <<tuiVars, scans, approvals, live>>

PipelineStep(r) ==
  WatcherArms(r) \/ Scan(r) \/ Validate(r) \/ EnrichCommand(r) \/ Enrich(r)

PublishStep(r) ==
  \/ ReadPost(r) \/ TokenRefused(r) \/ EnterPublishing(r) \/ Post(r)
  \/ PublishReplyLost(r) \/ FinishPublishing(r) \/ PublishFails(r) \/ Archive(r)

KeyPress ==
  \/ OpenDialog \/ CloseDialog \/ Approve \/ Reject \/ publishAllQueued
  \/ toggleStory \/ OpenEditor \/ CloseEditor
  \/ reEnrich \/ dequeuePost \/ publishSelected
  \/ RetryPrepared \/ retryDeadLetterPost

Next ==
  \/ KeyPress \/ ReviewKey \/ Restart
  \/ \E r \in Runs : Update(r)
  \/ \E r \in Pipes : PipelineStep(r)
  \/ \E r \in Pubs : PublishStep(r)

Spec == Init /\ [][Next]_vars

-----------------------------------------------------------------------------
Labels == {"idle", "scan", "validate", "enrich", "command", "report", "reportPublished",
           "read", "enter", "post", "finish", "archive"}

(* Every variable has its type.                                            *)
TypeOK ==
  /\ manifest \in ManifestRecord
  /\ panel \in {"pending", "dead", "queue", "none"}
  /\ entry \in ManifestRecord /\ editing \in ManifestRecord
  /\ review \in ManifestRecord
  /\ dialog \in Dialogs
  /\ pc \in [Runs -> Labels]
  /\ mem \in [Runs -> ManifestRecord]
  /\ scans \in Nat /\ approvals \subseteq Nat /\ live \subseteq Nat

(* Nothing goes live but what a panel, or ppw review, held when the user   *)
(* approved it, however stale: if a run has scanned and captioned the post *)
(* again in the meantime, an approval of the old one does not count for    *)
(* what the file says by then (app.go:494-573, 701-821;                    *)
(* publisher.go:133-140). What the panel held need not be what the user    *)
(* saw: a message may reload it behind the dialog (190-196, 935-938).      *)
OnlyApprovedContentGoesLive == live \subseteq approvals

(* A post that is recorded as published, or as failed after that, is live: *)
(* no retry from a stale entry of the dead letter panel and no overlapping *)
(* run declares a post published that is not (app.go:750-821,              *)
(* manifest.go:300-400).                                                   *)
PublishedPostsAreLive ==
  (\/ manifest.state = "published"
   \/ manifest.state = "error" /\ EffectiveRetryState(manifest) = "published")
    => manifest.scan \in live

-----------------------------------------------------------------------------
(* A claim of the code.                                                    *)

(* app.go:629: re-enriching runs the pipeline at once, "so the post        *)
(* returns to pending_review without disappearing indefinitely in          *)
(* validated state". No post is left there with no run at work on it.      *)
NoPostIsLeftValidated ==
  manifest.state = "validated" => \E r \in Runs : pc[r] # "idle"

=============================================================================
