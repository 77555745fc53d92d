------------------------------ MODULE Archiver ------------------------------
(***************************************************************************)
(* internal/archiver: Archive moves the images of a published post to the  *)
(* archive, then everything else, writes the archived manifest and a line  *)
(* of the publish log, and removes the post's directory.                   *)
(*                                                                         *)
(* A run is started by the TUI after a publish, by a retry of the dead     *)
(* letter panel, or by ppw archive. Each file operation is a step, so a    *)
(* crash can leave any prefix of them behind. File contents are reduced to *)
(* whose they are; images are numbered in the order of the manifest.       *)
(* Faults names what may happen besides the steps of the code:             *)
(*   "crash"  - a run dies between two steps                               *)
(*   "rename" - os.Rename fails (another filesystem), the file is copied   *)
(*   "io"     - any other file operation fails                             *)
(*   "write"  - rewriting a manifest fails, the old file stays             *)
(***************************************************************************)
EXTENDS Manifest, FiniteSets

CONSTANTS
  Runs,        \* processes that may archive the post
  ImageCount,  \* len(m.Images)
  Others,      \* other names in the post's directory: files and directories
  Subdirs,     \* those of Others that are directories
  Reused,      \* the archive may hold an earlier post with the same id
  Faults,      \* see above
  MaxStarts    \* bound: how many runs are ever started

FaultKinds == {"crash", "rename", "io", "write"}

ASSUME ConstantsAssumption ==
  /\ ImageCount \in Nat \ {0}
  /\ Others \cap Int = {}
  /\ Subdirs \subseteq Others
  /\ Reused \in BOOLEAN
  /\ Faults \subseteq FaultKinds
  /\ MaxStarts \in Nat

Images == 1..ImageCount
Names == Images \cup Others

(* The parts of manifest.json archiving depends on.                        *)
ManifestRecord ==
  [state : States, failure : Failure \cup {NoFailure},
   approved : BOOLEAN, postID : Nat]

Post(s) == [state |-> s, failure |-> NoFailure, approved |-> TRUE, postID |-> 1]

(* There is no manifest.json in the post's directory.                      *)
Gone == [Post("published") EXCEPT !.state = "gone"]

(* "idle": not started, or at its end; "dead": killed; "hidden": at its    *)
(* end with a failure that the manifest does not show as an error.         *)
Ended == {"idle", "dead", "hidden"}

(* The original is open for a copy. "aliased": the open file has since     *)
(* been renamed into the archive; "hollow": and was emptied there.         *)
Opened == {"opened", "aliased", "hollow"}

(* "torn": another run has emptied, replaced or removed the copy; "empty": *)
(* the copy was opened with nothing left in the original to copy.          *)
Copying == {"copy", "torn", "empty"}

Labels == Ended \cup Opened \cup Copying \cup
  {"begin", "move", "copied", "write", "log", "confirm", "remove", "rmdir", "fail"}

VARIABLES
  source,    \* names in the post's directory
  archive,   \* name -> whose content the archive has under it
  manifest,  \* manifest.json in the post's directory, or Gone
  archived,  \* the archive holds manifest.json with state "archived"
  logged,    \* lines of the publish log about the post
  torn,      \* history: images whose copy a run emptied, replaced or removed
             \* when another run had it in hand, or the original was gone
  mem, pc, idx,  \* each run's manifest, next step, position in m.Images
  starts     \* runs started so far

runVars == <<mem, pc, idx, starts>>
fileVars == <<source, archive, manifest, archived, logged, torn>>
vars == <<fileVars, runVars>>

Contents == {"none", "partial", "mine", "earlier"}

Init ==
  /\ source = Names
  /\ archive \in [Names -> IF Reused THEN {"none", "earlier"} ELSE {"none"}]
  /\ manifest \in {Post("published"), Post("publishing")}
  /\ archived = FALSE
  /\ logged = 0 /\ torn = {}
  /\ mem = [r \in Runs |-> manifest]
  /\ pc = [r \in Runs |-> "idle"]
  /\ idx = [r \in Runs |-> 1]
  /\ starts = 0

-----------------------------------------------------------------------------
GoTo(r, label) == pc' = [pc EXCEPT ![r] = label]

(* manifest.Read succeeds and Archive is called with the result.           *)
Start(r) ==
  /\ pc[r] \in Ended
  /\ manifest # Gone
  /\ starts < MaxStarts
  /\ starts' = starts + 1
  /\ mem' = [mem EXCEPT ![r] = manifest]
  /\ idx' = [idx EXCEPT ![r] = 1]
  /\ GoTo(r, "begin")
  /\ UNCHANGED fileVars

Crash(r) ==
  /\ "crash" \in Faults
  /\ pc[r] \notin Ended
  /\ GoTo(r, "dead")
  /\ UNCHANGED <<fileVars, mem, idx, starts>>

(* The dead letter panel restores a post that failed here to "published";  *)
(* the run that follows is a Start.                                        *)
RetryFromDeadLetter ==
  /\ CanPrepareRetry(manifest)
  /\ manifest' = PrepareRetry(manifest)
  /\ UNCHANGED <<source, archive, archived, logged, torn, runVars>>

Refuse(r) ==
  /\ pc[r] = "begin"
  /\ mem[r].state # "published"
  /\ GoTo(r, "idle")
  /\ UNCHANGED <<fileVars, mem, idx, starts>>

MakeDir(r) ==
  /\ pc[r] = "begin"
  /\ mem[r].state = "published"
  /\ \/ GoTo(r, "move")
     \/ "io" \in Faults /\ GoTo(r, "fail")
  /\ UNCHANGED <<fileVars, mem, idx, starts>>

-----------------------------------------------------------------------------
(* moveFile for each image: rename, or copy, verify and delete.            *)

AtImage(r) == pc[r] = "move" /\ idx[r] <= ImageCount

(* What becomes of a run that has the image in hand when another run       *)
(* renames it into the archive, empties the copy, or removes the copy.     *)
Renamed == [l \in Labels |-> CASE l = "opened" -> "aliased"
                               [] l = "copy"   -> "torn"
                               [] OTHER        -> l]
Emptied == [l \in Labels |-> CASE l = "aliased" -> "hollow"
                               [] l = "copy"    -> "torn"
                               [] OTHER         -> l]
Removed == [l \in Labels |-> CASE l = "aliased" -> "opened"
                               [] l = "copy"    -> "torn"
                               [] OTHER         -> l]

(* Run r goes to label, and what it does to the image has this effect on   *)
(* the other runs that are at it.                                          *)
Disturb(r, label, effect) ==
  LET same == {q \in Runs \ {r} : idx[q] = idx[r]} IN
  /\ pc' = [q \in Runs |-> CASE q = r      -> label
                             [] q \in same -> effect[pc[q]]
                             [] OTHER      -> pc[q]]
  /\ torn' = IF \/ \E q \in same : pc[q] \in Copying \cup {"copied"}
                \/ idx[r] \notin source
               THEN torn \cup {idx[r]} ELSE torn

NextImage(r) == idx' = [idx EXCEPT ![r] = @ + 1]

(* Whatever has this name in the archive is replaced.                      *)
RenameImage(r) ==
  /\ AtImage(r)
  /\ idx[r] \in source
  /\ source' = source \ {idx[r]}
  /\ archive' = [archive EXCEPT ![idx[r]] = "mine"]
  /\ NextImage(r) /\ Disturb(r, "move", Renamed)
  /\ UNCHANGED <<manifest, archived, logged, mem, starts>>

OpenSource(r) ==
  /\ AtImage(r)
  /\ "rename" \in Faults
  /\ idx[r] \in source
  /\ GoTo(r, "opened")
  /\ UNCHANGED <<fileVars, mem, idx, starts>>

(* The destination is emptied whatever has happened since. A file that was *)
(* deleted while it was open can still be copied; one that was renamed     *)
(* into the archive is the destination itself.                             *)
OpenCopy(r) ==
  /\ pc[r] \in Opened
  /\ archive' = [archive EXCEPT ![idx[r]] = "partial"]
  /\ Disturb(r, IF pc[r] = "opened" THEN "copy" ELSE "empty", Emptied)
  /\ UNCHANGED <<source, manifest, archived, logged, mem, idx, starts>>

(* The sizes agree. A torn copy may have the right size and a hole.        *)
FinishCopy(r) ==
  /\ pc[r] \in {"copy", "torn"}
  /\ archive[idx[r]] # "none"
  /\ archive' = IF pc[r] = "copy" THEN [archive EXCEPT ![idx[r]] = "mine"] ELSE archive
  /\ GoTo(r, "copied")
  /\ UNCHANGED <<source, manifest, archived, logged, torn, mem, idx, starts>>

(* Mutant of FailCopy: the sizes are not compared.                         *)
FailCopyUnnoticed(r) ==
  /\ pc[r] = "copy"
  /\ "io" \in Faults
  /\ GoTo(r, "copied")
  /\ UNCHANGED <<fileVars, mem, idx, starts>>

(* A copy that fails or has the wrong size is removed; one that cannot be  *)
(* inspected stays, whole or not.                                          *)
FailCopy(r) ==
  /\ pc[r] \in Copying
  /\ "io" \in Faults \/ pc[r] \in {"torn", "empty"}
  /\ \/ archive' = [archive EXCEPT ![idx[r]] = "none"] /\ Disturb(r, "fail", Removed)
     \/ /\ \/ UNCHANGED archive
           \/ pc[r] = "copy" /\ archive' = [archive EXCEPT ![idx[r]] = "mine"]
        /\ GoTo(r, "fail") /\ UNCHANGED torn
  /\ UNCHANGED <<source, manifest, archived, logged, mem, idx, starts>>

DeleteOriginal(r) ==
  /\ pc[r] = "copied"
  /\ idx[r] \in source
  /\ source' = source \ {idx[r]}
  /\ NextImage(r) /\ GoTo(r, "move")
  /\ UNCHANGED <<archive, manifest, archived, logged, torn, mem, starts>>

DeleteFails(r) ==
  /\ pc[r] = "copied"
  /\ idx[r] \notin source \/ "io" \in Faults
  /\ GoTo(r, "fail")
  /\ UNCHANGED <<fileVars, mem, idx, starts>>

(* Mutant of MoveFails: a move that fails is skipped.                      *)
MoveFailureSkipped(r) ==
  /\ \/ AtImage(r) /\ (idx[r] \notin source \/ "io" \in Faults)
     \/ pc[r] \in Opened /\ "io" \in Faults
  /\ NextImage(r) /\ GoTo(r, "move")
  /\ UNCHANGED <<fileVars, mem, starts>>

(* The image is not there, or one of the two files cannot be opened.       *)
MoveFails(r) ==
  /\ \/ AtImage(r) /\ (idx[r] \notin source \/ "io" \in Faults)
     \/ pc[r] \in Opened /\ "io" \in Faults
  /\ GoTo(r, "fail")
  /\ UNCHANGED <<fileVars, mem, idx, starts>>

(* moveRemainingFiles: directories and names the archive already has are   *)
(* left behind; a file that cannot be moved is only a warning.             *)
Movable == {f \in (source \cap Others) \ Subdirs : archive[f] = "none"}

MoveOthers(r) ==
  /\ pc[r] = "move"
  /\ idx[r] > ImageCount
  /\ \E moved \in IF "io" \in Faults THEN SUBSET Movable ELSE {Movable} :
       /\ source' = source \ moved
       /\ archive' = [f \in Names |-> IF f \in moved THEN "mine"
                                                     ELSE archive[f]]
  /\ GoTo(r, "write")
  /\ UNCHANGED <<manifest, archived, logged, torn, mem, idx, starts>>

-----------------------------------------------------------------------------
(* The archived manifest, the log entry, and the end of the directory.     *)

(* A failing write leaves the run with a manifest in state "archived".     *)
WriteArchived(r) ==
  /\ pc[r] = "write"
  /\ CanTransition(mem[r], "archived")
  /\ mem' = [mem EXCEPT ![r] = Transition(mem[r], "archived")]
  /\ \/ archived' = TRUE /\ GoTo(r, "log")
     \/ "write" \in Faults /\ UNCHANGED archived /\ GoTo(r, "fail")
  /\ UNCHANGED <<source, archive, manifest, logged, torn, idx, starts>>

(* A failing append is only a warning.                                     *)
AppendLog(r) ==
  /\ pc[r] = "log"
  /\ \/ logged' = logged + 1 /\ GoTo(r, "confirm")
     \/ "io" \in Faults /\ UNCHANGED logged /\ GoTo(r, "remove")
  /\ UNCHANGED <<source, archive, manifest, archived, torn, mem, idx, starts>>

(* The archived manifest is written again with log_entry_written.          *)
ConfirmLog(r) ==
  /\ pc[r] = "confirm"
  /\ GoTo(r, "remove")
  /\ UNCHANGED <<fileVars, mem, idx, starts>>

RemoveManifest(r) ==
  /\ pc[r] = "remove"
  /\ manifest' \in {Gone} \cup IF "io" \in Faults THEN {manifest} ELSE {}
  /\ GoTo(r, "rmdir")
  /\ UNCHANGED <<source, archive, archived, logged, torn, mem, idx, starts>>

(* os.Remove of an empty directory, else os.RemoveAll.                     *)
RemoveDir(r) ==
  /\ pc[r] = "rmdir"
  /\ \/ source' = {} /\ manifest' = Gone
     \/ /\ "io" \in Faults
        /\ source' \in SUBSET source
        /\ manifest' \in {manifest, Gone}
  /\ GoTo(r, "idle")
  /\ UNCHANGED <<archive, archived, logged, torn, mem, idx, starts>>

(* Mutant of RecordArchiveFailure: the failure is logged but not written.  *)
RecordArchiveFailureUnsaved(r) ==
  /\ pc[r] = "fail"
  /\ GoTo(r, "idle")
  /\ UNCHANGED <<fileVars, mem, idx, starts>>

(* Write creates the directory again if another run has removed it. There  *)
(* is no transition from "archived" to "error": a run that failed to write *)
(* the archived manifest records its failure under the state "archived".   *)
RecordArchiveFailure(r) ==
  /\ pc[r] = "fail"
  /\ LET m == RecordFailure(mem[r], "archive", "published") IN
       /\ mem' = [mem EXCEPT ![r] = m]
       /\ \/ manifest' = m
             /\ GoTo(r, IF m.state = "error" THEN "idle" ELSE "hidden")
          \/ "write" \in Faults /\ UNCHANGED manifest /\ GoTo(r, "hidden")
  /\ UNCHANGED <<source, archive, archived, logged, torn, idx, starts>>

-----------------------------------------------------------------------------
MoveStep(r) ==
  \/ RenameImage(r) \/ OpenSource(r) \/ OpenCopy(r) \/ FinishCopy(r)
  \/ FailCopy(r) \/ DeleteOriginal(r) \/ DeleteFails(r) \/ MoveFails(r)
  \/ MoveOthers(r)

EndStep(r) ==
  \/ WriteArchived(r) \/ AppendLog(r) \/ ConfirmLog(r) \/ RemoveManifest(r)
  \/ RemoveDir(r) \/ RecordArchiveFailure(r)

Archive(r) == Refuse(r) \/ MakeDir(r) \/ MoveStep(r) \/ EndStep(r)

Next ==
  \/ RetryFromDeadLetter
  \/ \E r \in Runs : Start(r) \/ Archive(r) \/ Crash(r)

Spec == Init /\ [][Next]_vars

(* A run that is neither dead nor waiting goes on.                         *)
FairSpec == Spec /\ \A r \in Runs : WF_vars(Archive(r))

-----------------------------------------------------------------------------
(* Every variable has its type: what archiving reads and rewrites stays a  *)
(* manifest (archiver.go:68-153).                                          *)
TypeOK ==
  /\ source \subseteq Names
  /\ archive \in [Names -> Contents]
  /\ manifest \in ManifestRecord \cup {Gone}
  /\ archived \in BOOLEAN
  /\ logged \in Nat /\ torn \subseteq Nat
  /\ mem \in [Runs -> ManifestRecord]
  /\ pc \in [Runs -> Labels]
  /\ idx \in [Runs -> Nat \ {0}]
  /\ starts \in Nat

(* A photograph is never lost: a crash, an error or another run between    *)
(* any two file operations leaves each image whole in the post's directory *)
(* or whole in the archive (archiver.go:260-308, 244-256). The exception   *)
(* is an image that two runs move at once, one of them by a copy: the one  *)
(* that opened the original (271) may empty the copy (282) when the other  *)
(* is not through with it, or has already deleted the original.            *)
ImagesAreKept == \A i \in Images \ torn : i \in source \/ archive[i] = "mine"

(* The post's manifest only goes away, and the log only speaks of the      *)
(* post, once the archive has the final manifest and every image, those    *)
(* excepted; also when two runs work on the post (archiver.go:118-139).    *)
RemovedOnlyWhenArchived ==
  manifest = Gone \/ logged > 0
    => archived /\ \A i \in Images \ torn : archive[i] = "mine"

(* However often a run crashes, fails, is retried or overlaps another, the *)
(* publish log gets at most one line about the post, because only one run  *)
(* can get past the last image (archiver.go:95-101, 125).                  *)
LoggedOnce == logged <= 1

(* A run that is started on a published post, and is not killed or failed  *)
(* by a write, leaves the post archived, or failed in a way the dead       *)
(* letter panel can show (archiver.go:72-75, 145-153).                     *)
ArchiveSettles ==
  \A r \in Runs :
    pc[r] = "move" ~>
      \/ pc[r] \in {"dead", "hidden"}
      \/ pc[r] = "idle" /\ (archived \/ manifest.state = "error")

=============================================================================
