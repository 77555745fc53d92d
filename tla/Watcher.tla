------------------------------ MODULE Watcher ------------------------------
(***************************************************************************)
(* internal/watcher over one post directory: file system events, the       *)
(* debounce timer of the directory, the map of directories already seen,   *)
(* and the pipeline runs the timers and the dead letter panel start.       *)
(*                                                                         *)
(* Each timer is a goroutine that is armed, may be stopped while it is     *)
(* armed, and once fired runs handleProcess and the pipeline to the end:   *)
(* a later event arms another one, so runs may overlap. Time is left out:  *)
(* a timer fires any time after it was armed, whatever the debounce.       *)
(* Pipeline.Run is cut at its rewrites of manifest.json (see Pipeline).    *)
(***************************************************************************)
EXTENDS Integers, Sequences, SequencesExt

CONSTANTS
  Timers,       \* identities of timers; a timer that is off may be reused
  Panel,        \* the pipeline run the dead letter panel starts
  NoTimer,
  MaxChanges,   \* bound: how often the content of the directory changes
  MaxSessions   \* bound: how often the program is started

ASSUME ConstantsAssumption ==
  /\ Panel \notin Timers /\ NoTimer \notin Timers
  /\ MaxChanges \in Nat /\ MaxSessions \in Nat

Workers == Timers \cup {Panel}

(* "good" images pass validation, "bad" ones do not; "absent" is a         *)
(* directory that does not exist.                                          *)
Contents == {"empty", "good", "bad"}

(* manifest.json: none, a state of the pipeline, or "approved" for all     *)
(* that comes after the review.                                            *)
Records == {"none", "scanned", "validated", "pending_review", "error", "approved"}

Nowhere == [folder |-> "absent", record |-> "none", watched |-> FALSE, session |-> 0]

ExportedElsewhere == [Nowhere EXCEPT !.folder = "good"]

Phases == {"off", "armed", "look", "scan", "validate", "enrich"}

VARIABLES
  folder,    \* what the directory holds
  record,    \* what manifest.json says
  away,      \* the directory moved out of the watch root, or Nowhere
  events,    \* fsnotify's events, oldest first: "dir" or "image"
  up,        \* the watcher runs
  known,     \* w.watchedDir[dir]
  watched,   \* events of the directory that is there are delivered
  seen,      \* w.seen[dir]
  brought,   \* it came with a manifest from before this session
  entry,     \* timers[dir], or NoTimer
  phase,     \* where each timer or run is
  force,     \* the timer was armed for an errored post
  found,     \* what the run's scan found
  changes,   \* changes of the directory so far
  sessions   \* starts of the program so far

disk == <<folder, record, away>>
watcherVars == <<up, known, watched, seen, brought, sessions>>
timerVars == <<entry, phase, force, found>>
vars == <<disk, events, watcherVars, timerVars, changes>>

Init ==
  /\ folder \in Contents \cup {"absent"}
  /\ record \in IF folder = "absent" THEN {"none"}
                ELSE {"none", "error", "approved"}
  /\ away \in IF folder = "absent" THEN {Nowhere, ExportedElsewhere} ELSE {Nowhere}
  /\ events = <<>>
  /\ up = FALSE /\ known = FALSE /\ watched = FALSE /\ seen = FALSE
  /\ brought = FALSE
  /\ entry = NoTimer
  /\ phase = [w \in Workers |-> "off"]
  /\ force = [t \in Timers |-> FALSE]
  /\ found = [w \in Workers |-> "empty"]
  /\ changes = 0 /\ sessions = 0

-----------------------------------------------------------------------------
(* The user and the rest of the program.                                   *)

(* A directory appears in the watch root.                                  *)
Appear(content) ==
  /\ folder = "absent"
  /\ folder' = content
  /\ events' = IF up THEN Append(events, "dir") ELSE events

Change == changes < MaxChanges /\ changes' = changes + 1

MakeFolder ==
  /\ Change
  /\ Appear("empty")
  /\ UNCHANGED <<record, away, watcherVars, timerVars>>

(* Images are added, replaced or removed.                                  *)
ChangeImages ==
  /\ Change
  /\ folder # "absent"
  /\ folder' \in Contents \ (IF folder = "empty" THEN {"empty"} ELSE {})
  /\ events' = IF up /\ watched THEN Append(events, "image") ELSE events
  /\ UNCHANGED <<record, away, watcherVars, timerVars>>

(* The directory is archived or deleted, or moved to another place. The    *)
(* watch ends with it, or goes with it.                                    *)
RemoveFolder ==
  /\ Change
  /\ folder # "absent"
  /\ folder' = "absent" /\ record' = "none" /\ watched' = FALSE
  /\ \/ UNCHANGED away
     \/ \E kept \in {FALSE, watched} :
          away' = [folder |-> folder, record |-> record,
                   watched |-> kept, session |-> sessions]
  /\ UNCHANGED <<events, up, known, seen, brought, sessions, timerVars>>

MoveBack ==
  /\ Change
  /\ away # Nowhere
  /\ Appear(away.folder)
  /\ away' = Nowhere
  /\ record' = away.record
  /\ watched' = (up /\ away.watched /\ away.session = sessions)
  /\ brought' = (brought \/ (up /\ away.record # "none" /\ away.session # sessions))
  /\ UNCHANGED <<up, known, seen, sessions, timerVars>>

Review ==
  /\ record = "pending_review"
  /\ record' = "approved"
  /\ UNCHANGED <<folder, away, events, watcherVars, timerVars, changes>>

(* Mutant of RetryFromPanel: the recorded retry state is missing.          *)
RetryFromPanelToNoState ==
  /\ up
  /\ record = "error" /\ phase[Panel] = "off"
  /\ record' = ""
  /\ phase' = [phase EXCEPT ![Panel] = "scan"]
  /\ UNCHANGED <<folder, away, events, watcherVars, entry, force, found, changes>>

(* retryDeadLetterPost of a post that failed in the pipeline.              *)
RetryFromPanel ==
  /\ up
  /\ record = "error" /\ phase[Panel] = "off"
  /\ record' = "scanned"
  /\ phase' = [phase EXCEPT ![Panel] = "scan"]
  /\ UNCHANGED <<folder, away, events, watcherVars, entry, force, found, changes>>

(* The program ends with every timer and run in it.                        *)
Stop ==
  /\ up
  /\ up' = FALSE /\ known' = FALSE /\ watched' = FALSE /\ seen' = FALSE
  /\ brought' = FALSE
  /\ events' = <<>>
  /\ entry' = NoTimer
  /\ phase' = [w \in Workers |-> "off"]
  /\ UNCHANGED <<disk, force, found, changes, sessions>>

-----------------------------------------------------------------------------
(* Watch.                                                                  *)

(* scanExisting: a directory without manifest is watched, not processed.   *)
Start ==
  /\ ~up
  /\ sessions < MaxSessions
  /\ up' = TRUE
  /\ sessions' = sessions + 1
  /\ known' = (folder # "absent") /\ watched' = (folder # "absent")
  /\ seen' = (record # "none")
  /\ UNCHANGED <<disk, events, brought, timerVars, changes>>

(* The timer of the map is stopped, which has no effect once it has fired. *)
scheduleProcess(forced) ==
  \E t \in Timers :
    LET stopped == {u \in {entry} \cap Timers : phase[u] = "armed"}
    IN  /\ phase[t] = "off" \/ t \in stopped
        /\ phase' = [w \in Workers |-> CASE w = t         -> "armed"
                                         [] w \in stopped \ {t} -> "off"
                                         [] OTHER         -> phase[w]]
        /\ force' = [force EXCEPT ![t] = forced]
        /\ entry' = t
        /\ UNCHANGED found

Receive(event) ==
  /\ up /\ events # <<>>
  /\ Head(events) = event
  /\ events' = Tail(events)
  /\ UNCHANGED <<disk, changes>>

(* addWatch does nothing for a name it has watched before. If the          *)
(* directory has gone again the event means nothing.                       *)
FolderCreated ==
  /\ Receive("dir")
  /\ IF folder = "absent" THEN UNCHANGED <<known, watched, timerVars>>
     ELSE /\ known' = TRUE
          /\ watched' = (watched \/ ~known)
          /\ scheduleProcess(FALSE)
  /\ UNCHANGED <<up, seen, brought, sessions>>

(* Only an errored post is processed again when its images change.         *)
ImageChanged ==
  /\ Receive("image")
  /\ IF record = "error" THEN scheduleProcess(TRUE) ELSE UNCHANGED timerVars
  /\ UNCHANGED watcherVars

-----------------------------------------------------------------------------
(* handleProcess and the pipeline.                                         *)

(* When a timer's handler returns the map's entry goes, even if it is the  *)
(* entry of a timer armed in the meantime. The panel's run has none.       *)
Finish(w) ==
  /\ phase' = [phase EXCEPT ![w] = "off"]
  /\ entry' = IF w = Panel THEN entry ELSE NoTimer

GoTo(w, p) == phase' = [phase EXCEPT ![w] = p] /\ UNCHANGED entry

NoImages == folder \in {"absent", "empty"}

Skipped(t) == seen /\ ~force[t]

(* Mutants of Fire: a forced retry of a seen directory is skipped, too;    *)
(* the directory is never marked as seen; it is marked before the check.   *)
FireIgnoringForce(t) ==
  /\ phase[t] = "armed"
  /\ IF seen THEN Finish(t) /\ UNCHANGED seen ELSE GoTo(t, "look") /\ seen' = TRUE
  /\ UNCHANGED <<disk, events, up, known, watched, brought, sessions, force, found,
                 changes>>

FireUnmarked(t) ==
  /\ phase[t] = "armed"
  /\ IF Skipped(t) THEN Finish(t) ELSE GoTo(t, "look")
  /\ UNCHANGED <<disk, events, watcherVars, force, found, changes>>

FireMarkedFirst(t) ==
  /\ phase[t] = "armed"
  /\ seen' = TRUE
  /\ IF force[t] THEN GoTo(t, "look") ELSE Finish(t)
  /\ UNCHANGED <<disk, events, up, known, watched, brought, sessions, force, found,
                 changes>>

Fire(t) ==
  /\ phase[t] = "armed"
  /\ IF Skipped(t) THEN Finish(t) /\ UNCHANGED seen
                   ELSE GoTo(t, "look") /\ seen' = TRUE
  /\ UNCHANGED <<disk, events, up, known, watched, brought, sessions, force, found,
                 changes>>

(* A directory without images is ignored, and stays seen.                  *)
Look(t) ==
  /\ phase[t] = "look"
  /\ IF NoImages THEN Finish(t) ELSE GoTo(t, "scan")
  /\ UNCHANGED <<disk, events, watcherVars, force, found, changes>>

(* manifest.Write makes the directory if it has gone.                      *)
Write(state) ==
  /\ record' = state
  /\ IF folder = "absent" THEN Appear("empty") ELSE UNCHANGED <<folder, events>>

Scan(w) ==
  /\ phase[w] = "scan"
  /\ IF NoImages THEN Finish(w) /\ UNCHANGED <<folder, record, events, found>>
     ELSE /\ Write("scanned")
          /\ found' = [found EXCEPT ![w] = folder]
          /\ GoTo(w, "validate")
  /\ UNCHANGED <<away, watcherVars, force, changes>>

Validate(w) ==
  /\ phase[w] = "validate"
  /\ IF found[w] = "good" THEN Write("validated") /\ GoTo(w, "enrich")
                          ELSE Write("error") /\ Finish(w)
  /\ UNCHANGED <<away, watcherVars, force, found, changes>>

Enrich(w) ==
  /\ phase[w] = "enrich"
  /\ Write("pending_review")
  /\ Finish(w)
  /\ UNCHANGED <<away, watcherVars, force, found, changes>>

Run(w) == Scan(w) \/ Validate(w) \/ Enrich(w)

Next ==
  \/ MakeFolder \/ ChangeImages \/ RemoveFolder \/ MoveBack \/ Review \/ RetryFromPanel
  \/ Start \/ Stop \/ FolderCreated \/ ImageChanged
  \/ \E t \in Timers : Fire(t) \/ Look(t)
  \/ \E w \in Workers : Run(w)

Spec == Init /\ [][Next]_vars

(* The watcher's loop takes the events that come, timers fire and runs go  *)
(* on; nobody has to change, review or retry anything, or to restart.      *)
Fairness ==
  /\ WF_vars(FolderCreated \/ ImageChanged)
  /\ \A t \in Timers : WF_vars(Fire(t) \/ Look(t))
  /\ \A w \in Workers : WF_vars(Run(w))

FairSpec == Spec /\ Fairness

-----------------------------------------------------------------------------
(* Every variable has its type.                                            *)
TypeOK ==
  /\ folder \in Contents \cup {"absent"}
  /\ record \in Records
  /\ events \in Seq({"dir", "image"})
  /\ away \in [folder : Contents \cup {"absent"}, record : Records,
               watched : BOOLEAN, session : Nat]
  /\ up \in BOOLEAN /\ known \in BOOLEAN /\ watched \in BOOLEAN
  /\ seen \in BOOLEAN /\ brought \in BOOLEAN
  /\ entry \in Timers \cup {NoTimer}
  /\ phase \in [Workers -> Phases]
  /\ force \in [Timers -> BOOLEAN]
  /\ found \in [Workers -> Contents]
  /\ changes \in Nat /\ sessions \in Nat

(* The watcher takes no post for new that has a manifest: however often    *)
(* its directory is changed, moved or made again, and whatever timers are  *)
(* stopped, forgotten or overlap, a run not started for an error does not  *)
(* scan over what was reviewed. The one exception is a directory brought   *)
(* in with a manifest this session has not seen (watcher.go:103-109,       *)
(* 157-170, 198-204).                                                      *)
NewPostsHaveNoManifest ==
  \A t \in Timers :
    phase[t] = "scan" /\ ~force[t] => record = "none" \/ brought

Working == \E w \in Workers : phase[w] \in {"scan", "validate", "enrich"}

(* If the last thing that happens to a failed post is a change of an       *)
(* image, while no run is working on it, the post is scanned again,        *)
(* whichever timers are armed, stopped or replaced, unless the program     *)
(* ends or the images go (watcher.go:113-126, 175-204).                    *)
FixedPostIsScannedAgain ==
  (record = "error" /\ ~Working /\ events # <<>> /\ Last(events) = "image")
    ~> (record # "error" \/ ~up \/ NoImages)

(* A new directory whose timer is armed and that gets its images before it *)
(* fires is scanned, unless the program ends or the images go              *)
(* (watcher.go:103-110, 196-229).                                          *)
NewPostIsScanned ==
  (record = "none" /\ ~seen /\ ~NoImages /\ \E t \in Timers : phase[t] = "armed")
    ~> (record # "none" \/ ~up \/ NoImages)

=============================================================================
