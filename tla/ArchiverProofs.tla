--------------------------- MODULE ArchiverProofs ---------------------------
(***************************************************************************)
(* Proofs about Archiver for any set of runs, any number of images and any *)
(* other files. Three facts carry them: an image leaves the directory in   *)
(* one step of one run, so only one run can ever move the first image; a   *)
(* run gets past image i only by moving it; and while a run copies an      *)
(* image that no other run has in hand, the original stays.                *)
(***************************************************************************)
EXTENDS Archiver, TLAPS

AfterImages == {"write", "log", "confirm", "remove", "rmdir"}

(* The manifest operators keep a manifest a manifest.                      *)
LEMMA ManifestType ==
  ASSUME NEW m \in ManifestRecord
  PROVE  /\ \A s \in States : Transition(m, s) \in ManifestRecord
         /\ RecordFailure(m, "archive", "published") \in ManifestRecord
         /\ CanPrepareRetry(m) => PrepareRetry(m) \in ManifestRecord
<1>1. \A s \in States : Transition(m, s) \in ManifestRecord
  BY DEF Transition, ManifestRecord
<1>2. [stage |-> "archive", retry |-> "published"] \in Failure
  BY DEF Failure, FailureStages, States
<1>3. RecordFailure(m, "archive", "published") \in ManifestRecord
  <2>1. "error" \in States
    BY DEF States
  <2> QED
    BY <1>2, <2>1 DEF RecordFailure, ManifestRecord
<1>4. ASSUME CanPrepareRetry(m)
      PROVE  PrepareRetry(m) \in ManifestRecord
  <2>1. validTransitions[m.state] \subseteq States
    BY DEF ManifestRecord, validTransitions, States
  <2>2. EffectiveRetryState(m) \in States
    BY <1>4, <2>1 DEF CanPrepareRetry, CanTransition
  <2> QED
    BY <2>2 DEF PrepareRetry, ManifestRecord
<1> QED
  BY <1>1, <1>3, <1>4

LEMMA PostType ==
  /\ \A s \in States : Post(s) \in ManifestRecord
  /\ Gone.state = "gone"
  /\ Gone \notin ManifestRecord
  /\ ~CanPrepareRetry(Gone)
BY DEF Post, Gone, ManifestRecord, States, CanPrepareRetry

(* What one run does to an image changes what another holds of it: a copy  *)
(* is torn, an open original is renamed, emptied or removed.               *)
Effects == {Renamed, Emptied, Removed}

LEMMA EffectFacts ==
  ASSUME NEW effect \in Effects, NEW l \in Labels
  PROVE  /\ effect[l] \in Labels
         /\ \/ effect[l] = l
            \/ l = "copy" /\ effect[l] = "torn"
            \/ l \in Opened /\ effect[l] \in Opened
         /\ l = "copy" => effect[l] = "torn"
<1>1. {"torn", "aliased", "hollow", "opened"} \subseteq Labels
  BY DEF Labels, Copying, Opened
<1> USE <1>1 DEF Opened
<1>2. CASE effect = Renamed
  BY <1>2 DEF Renamed
<1>3. CASE effect = Emptied
  BY <1>3 DEF Emptied
<1>4. CASE effect = Removed
  BY <1>4 DEF Removed
<1> QED
  BY <1>2, <1>3, <1>4 DEF Effects

(* Run r goes to label, and the others stay where they are, but for those. *)
Moves(r, label) ==
  /\ pc' \in [Runs -> Labels]
  /\ pc'[r] = label
  /\ \A q \in Runs \ {r} :
       \/ pc'[q] = pc[q]
       \/ pc[q] = "copy" /\ pc'[q] = "torn"
       \/ pc[q] \in Opened /\ pc'[q] \in Opened

LEMMA GoToMoves ==
  ASSUME TypeOK, NEW r \in Runs, NEW label \in Labels, GoTo(r, label)
  PROVE  Moves(r, label)
<1>1. pc \in [Runs -> Labels] /\ pc' = [pc EXCEPT ![r] = label]
  BY DEF TypeOK, GoTo
<1>2. /\ pc' \in [Runs -> Labels] /\ pc'[r] = label
      /\ \A q \in Runs \ {r} : pc'[q] = pc[q]
  BY <1>1
<1> QED
  BY <1>2 DEF Moves

LEMMA DisturbMoves ==
  ASSUME TypeOK, NEW r \in Runs, NEW label \in Labels, NEW effect \in Effects,
         Disturb(r, label, effect)
  PROVE  Moves(r, label) /\ torn' \subseteq Nat
<1> DEFINE same == {q \in Runs \ {r} : idx[q] = idx[r]}
<1>1. pc' = [q \in Runs |-> CASE q = r      -> label
                             [] q \in same -> effect[pc[q]]
                             [] OTHER      -> pc[q]]
  BY DEF Disturb
<1>2. pc'[r] = label
  BY <1>1
<1>3. ASSUME NEW q \in Runs \ {r}
      PROVE  pc'[q] = IF q \in same THEN effect[pc[q]] ELSE pc[q]
  BY <1>1
<1>4. \A q \in Runs : pc[q] \in Labels
  BY DEF TypeOK
<1>5. \A q \in Runs : pc'[q] \in Labels
  BY <1>2, <1>3, <1>4, EffectFacts
<1>6. pc' \in [Runs -> Labels]
  BY <1>1, <1>5
<1>7. Moves(r, label)
  <2>1. ASSUME NEW q \in Runs \ {r}
        PROVE  \/ pc'[q] = pc[q]
               \/ pc[q] = "copy" /\ pc'[q] = "torn"
               \/ pc[q] \in Opened /\ pc'[q] \in Opened
    BY <1>3, <1>4, EffectFacts
  <2> QED
    BY <1>2, <1>6, <2>1 DEF Moves
<1>8. torn' = torn \cup {idx[r]} \/ torn' = torn
  BY DEF Disturb
<1>9. torn' \subseteq Nat
  <2>1. idx[r] \in Nat /\ torn \subseteq Nat
    BY DEF TypeOK
  <2> QED
    BY <1>8, <2>1
<1> QED
  BY <1>7, <1>9

LEMMA InitType == Init => TypeOK
<1> SUFFICES ASSUME Init
             PROVE  TypeOK
  OBVIOUS
<1>1. manifest \in ManifestRecord
  BY PostType DEF Init, States
<1>2. mem \in [Runs -> ManifestRecord]
  BY <1>1 DEF Init
<1>3. archive \in [Names -> Contents]
  BY DEF Init, Contents
<1>4. pc \in [Runs -> Labels] /\ idx \in [Runs -> Nat \ {0}]
  BY DEF Init, Labels, Ended
<1> QED
  BY <1>1, <1>2, <1>3, <1>4 DEF Init, TypeOK

LEMMA TypeStep == TypeOK /\ [Next]_vars => TypeOK'
<1> SUFFICES ASSUME TypeOK, [Next]_vars
             PROVE  TypeOK'
  OBVIOUS
<1> USE DEF TypeOK
<1>1. CASE RetryFromDeadLetter
  <2>1. manifest' \in ManifestRecord
    BY <1>1, PostType, ManifestType DEF RetryFromDeadLetter
  <2> QED
    BY <1>1, <2>1 DEF RetryFromDeadLetter, runVars
<1>2. ASSUME NEW r \in Runs, Start(r)
      PROVE  TypeOK'
  <2>1. mem' \in [Runs -> ManifestRecord] /\ pc' \in [Runs -> Labels]
    BY <1>2 DEF Start, GoTo, Labels, Ended
  <2> QED
    BY <1>2, <2>1 DEF Start, fileVars
<1>3. ASSUME NEW r \in Runs, Crash(r)
      PROVE  TypeOK'
  BY <1>3 DEF Crash, GoTo, Labels, Ended, fileVars
<1>4. ASSUME NEW r \in Runs, Refuse(r) \/ MakeDir(r)
      PROVE  TypeOK'
  BY <1>4 DEF Refuse, MakeDir, GoTo, Labels, Ended, fileVars
<1>5. ASSUME NEW r \in Runs, MoveStep(r)
      PROVE  TypeOK'
  <2>0. idx[r] + 1 \in Nat \ {0}
    OBVIOUS
  <2>1. CASE RenameImage(r)
    <3>1. "move" \in Labels
      BY DEF Labels
    <3>2. pc' \in [Runs -> Labels] /\ torn' \subseteq Nat
      BY <2>1, <3>1, DisturbMoves DEF RenameImage, Moves, Effects
    <3> QED
      BY <2>0, <2>1, <3>2 DEF RenameImage, NextImage, Contents
  <2>2. CASE OpenSource(r) \/ OpenCopy(r)
    <3>1. "opened" \in Labels /\ "copy" \in Labels /\ "empty" \in Labels
      BY DEF Labels, Copying, Opened
    <3>2. CASE OpenSource(r)
      BY <3>1, <3>2 DEF OpenSource, GoTo, fileVars
    <3>3. CASE OpenCopy(r)
      <4>1. pc' \in [Runs -> Labels] /\ torn' \subseteq Nat
        BY <3>1, <3>3, DisturbMoves DEF OpenCopy, Moves, Effects
      <4> QED
        BY <3>3, <4>1 DEF OpenCopy, Contents
    <3> QED
      BY <2>2, <3>2, <3>3
  <2>3. CASE FinishCopy(r)
    BY <2>3 DEF FinishCopy, GoTo, Labels, Ended, Contents
  <2>4. CASE FailCopy(r)
    <3>1. "fail" \in Labels
      BY DEF Labels
    <3>2. pc' \in [Runs -> Labels] /\ torn' \subseteq Nat
      BY <2>4, <3>1, DisturbMoves, GoToMoves DEF FailCopy, Moves, Effects
    <3>3. archive' \in [Names -> Contents]
      BY <2>4 DEF FailCopy, Contents
    <3> QED
      BY <2>4, <3>2, <3>3 DEF FailCopy
  <2>5. CASE DeleteOriginal(r)
    BY <2>0, <2>5 DEF DeleteOriginal, NextImage, GoTo, Labels, Ended
  <2>6. CASE DeleteFails(r) \/ MoveFails(r)
    BY <2>6 DEF DeleteFails, MoveFails, GoTo, Labels, Ended, fileVars
  <2>7. CASE MoveOthers(r)
    BY <2>7 DEF MoveOthers, GoTo, Labels, Ended, Contents
  <2> QED
    BY <1>5, <2>1, <2>2, <2>3, <2>4, <2>5, <2>6, <2>7 DEF MoveStep
<1>6. ASSUME NEW r \in Runs, EndStep(r)
      PROVE  TypeOK'
  <2>1. CASE WriteArchived(r)
    <3>1. Transition(mem[r], "archived") \in ManifestRecord
      BY ManifestType DEF States
    <3>2. mem' \in [Runs -> ManifestRecord] /\ pc' \in [Runs -> Labels]
      BY <2>1, <3>1 DEF WriteArchived, GoTo, Labels, Ended
    <3> QED
      BY <2>1, <3>2 DEF WriteArchived
  <2>2. CASE AppendLog(r)
    BY <2>2 DEF AppendLog, GoTo, Labels, Ended
  <2>3. CASE ConfirmLog(r)
    BY <2>3 DEF ConfirmLog, GoTo, Labels, Ended, fileVars
  <2>4. CASE RemoveManifest(r)
    BY <2>4 DEF RemoveManifest, GoTo, Labels, Ended
  <2>5. CASE RemoveDir(r)
    BY <2>5 DEF RemoveDir, GoTo, Labels, Ended
  <2>6. CASE RecordArchiveFailure(r)
    <3>1. RecordFailure(mem[r], "archive", "published") \in ManifestRecord
      BY ManifestType
    <3>2. mem' \in [Runs -> ManifestRecord] /\ pc' \in [Runs -> Labels]
      BY <2>6, <3>1 DEF RecordArchiveFailure, GoTo, Labels, Ended
    <3> QED
      BY <2>6, <3>1, <3>2 DEF RecordArchiveFailure
  <2> QED
    BY <1>6, <2>1, <2>2, <2>3, <2>4, <2>5, <2>6 DEF EndStep
<1>7. CASE UNCHANGED vars
  BY <1>7 DEF vars, runVars, fileVars
<1> QED
  BY <1>1, <1>2, <1>3, <1>4, <1>5, <1>6, <1>7 DEF Next, Archive

(* Files, manifests and counters keep their types for any set of runs and  *)
(* any files in the post's directory.                                      *)
THEOREM TypeCorrect == Spec => []TypeOK
<1>1. Init => TypeOK
  BY InitType
<1>2. TypeOK /\ [Next]_vars => TypeOK'
  BY TypeStep
<1> QED
  BY <1>1, <1>2, PTL DEF Spec

-----------------------------------------------------------------------------
(* One line of the publish log.                                            *)

AtCopy == Copying \cup {"copied"}
AtImages == {"move"} \cup Opened \cup AtCopy

(* Only one run has moved the first image, and until it writes its line    *)
(* there is none.                                                          *)
OneMover ==
  /\ logged <= 1
  /\ \A r \in Runs : idx[r] > 1 => 1 \notin source
  /\ \A q, r \in Runs : idx[q] > 1 /\ idx[r] > 1 => q = r
  /\ \A r \in Runs : pc[r] \in AfterImages => idx[r] > 1
  /\ \A r \in Runs : pc[r] = "begin" => idx[r] = 1
  /\ \A r \in Runs :
       idx[r] > 1 /\ pc[r] \in AtImages \cup {"write", "log"} => logged = 0
  /\ logged > 0 => 1 \notin source

LEMMA OneMoverInit == Init => OneMover
BY DEF Init, OneMover, AfterImages, AtImages, AtCopy, Copying, Opened

(* A step that neither logs nor moves an image, and does not let its run   *)
(* get further than it is, keeps OneMover.                                 *)
LEMMA OneMoverFrame ==
  ASSUME TypeOK, OneMover, NEW r \in Runs, NEW label,
         GoTo(r, label) \/ \E effect \in Effects : Disturb(r, label, effect),
         idx' = idx, logged' = logged, source' \subseteq source,
         \/ label \in {"idle", "dead", "hidden", "fail"}
         \/ label = "move" /\ (idx[r] > 1 => logged = 0)
         \/ label \in AtImages /\ pc[r] \in AtImages
         \/ label = "write" /\ idx[r] > 1 /\ pc[r] = "move"
         \/ label = "log" /\ pc[r] = "write"
         \/ label \in {"remove", "rmdir"} /\ pc[r] \in AfterImages
  PROVE  OneMover'
<1>1. Moves(r, label)
  <2>1. label \in Labels
    BY DEF Labels, Ended, Copying, AfterImages, AtImages, AtCopy
  <2> QED
    BY <2>1, GoToMoves, DisturbMoves
<1> USE DEF AfterImages, AtImages, AtCopy, Copying, Opened
<1>2. \A q \in Runs : pc'[q] \in AfterImages => idx'[q] > 1
  BY <1>1 DEF Moves, OneMover
<1>3. \A q \in Runs :
        idx'[q] > 1 /\ pc'[q] \in AtImages \cup {"write", "log"} => logged' = 0
  BY <1>1 DEF Moves, OneMover
<1>4. \A q \in Runs : pc'[q] = "begin" => idx'[q] = 1
  BY <1>1 DEF Moves, OneMover
<1> QED
  BY <1>2, <1>3, <1>4 DEF OneMover

(* The run that moves an image is the only one that has moved the first.   *)
LEMMA OneMoverMove ==
  ASSUME TypeOK, OneMover, NEW r \in Runs, idx[r] \in source,
         pc[r] \in {"move", "copied"}, NextImage(r),
         GoTo(r, "move") \/ \E effect \in Effects : Disturb(r, "move", effect),
         source' = source \ {idx[r]}, logged' = logged
  PROVE  OneMover'
<1>0. idx[r] \in Nat \ {0} /\ logged \in Nat
  BY DEF TypeOK
<1>1. \A q \in Runs : idx'[q] = IF q = r THEN idx[r] + 1 ELSE idx[q]
  BY DEF NextImage, TypeOK
<1>2. Moves(r, "move")
  <2>1. "move" \in Labels
    BY DEF Labels
  <2> QED
    BY <2>1, GoToMoves, DisturbMoves
<1>3. logged = 0
  BY <1>0 DEF OneMover, AtImages, AtCopy
<1>4. 1 \notin source'
  BY <1>0 DEF OneMover
<1>5. \A q \in Runs \ {r} : ~(idx[q] > 1)
  BY <1>0 DEF OneMover
<1>6. \A p, q \in Runs : idx'[p] > 1 /\ idx'[q] > 1 => p = q
  BY <1>1, <1>5
<1>7. \A q \in Runs : pc'[q] \in AfterImages => idx'[q] > 1
  BY <1>1, <1>2 DEF Moves, OneMover, AfterImages, Opened
<1>8. logged' = 0
  BY <1>3
<1>9. \A q \in Runs : pc'[q] = "begin" => idx'[q] = 1
  BY <1>1, <1>2 DEF Moves, OneMover, Opened
<1> QED
  BY <1>4, <1>6, <1>7, <1>8, <1>9 DEF OneMover

LEMMA OneMoverMoveStep ==
  ASSUME TypeOK, OneMover, NEW r \in Runs, MoveStep(r)
  PROVE  OneMover'
<1>1. CASE RenameImage(r)
  BY <1>1, OneMoverMove DEF RenameImage, AtImage, Effects
<1>2. CASE OpenSource(r) \/ OpenCopy(r)
  BY <1>2, OneMoverFrame DEF OpenSource, OpenCopy, AtImage, AtImages, AtCopy, Copying,
                             Opened, Effects, fileVars
<1>3. CASE FinishCopy(r)
  BY <1>3, OneMoverFrame DEF FinishCopy, AtImages, AtCopy, Copying
<1>4. CASE FailCopy(r)
  BY <1>4, OneMoverFrame DEF FailCopy, Effects
<1>5. CASE DeleteOriginal(r)
  BY <1>5, OneMoverMove DEF DeleteOriginal
<1>6. CASE DeleteFails(r)
  BY <1>6, OneMoverFrame DEF DeleteFails, fileVars
<1>7. CASE MoveFails(r)
  BY <1>7, OneMoverFrame DEF MoveFails, fileVars
<1>8. CASE MoveOthers(r)
  <2>1. idx[r] > 1
    BY <1>8, ConstantsAssumption DEF MoveOthers, TypeOK
  <2>2. source' \subseteq source
    BY <1>8 DEF MoveOthers
  <2>3. GoTo(r, "write") /\ idx' = idx /\ logged' = logged /\ pc[r] = "move"
    BY <1>8 DEF MoveOthers
  <2> QED
    BY <2>1, <2>2, <2>3, OneMoverFrame
<1> QED
  BY <1>1, <1>2, <1>3, <1>4, <1>5, <1>6, <1>7, <1>8 DEF MoveStep

LEMMA OneMoverEndStep ==
  ASSUME TypeOK, OneMover, NEW r \in Runs, EndStep(r)
  PROVE  OneMover'
<1>1. CASE WriteArchived(r)
  BY <1>1, OneMoverFrame DEF WriteArchived
<1>2. CASE AppendLog(r)
  <2>1. CASE logged' = logged /\ GoTo(r, "remove")
    BY <1>2, <2>1, OneMoverFrame DEF AppendLog, AfterImages
  <2>2. CASE logged' = logged + 1 /\ GoTo(r, "confirm")
    <3>1. idx[r] > 1 /\ logged = 0 /\ 1 \notin source
      BY <1>2 DEF AppendLog, OneMover, AfterImages
    <3>2. \A q \in Runs : pc'[q] = IF q = r THEN "confirm" ELSE pc[q]
      BY <2>2 DEF GoTo, TypeOK
    <3>3. logged' = 1 /\ idx' = idx /\ source' = source
      BY <1>2, <2>2, <3>1 DEF AppendLog
    <3>4. \A q \in Runs : pc'[q] \in AfterImages => idx'[q] > 1
      BY <3>1, <3>2, <3>3 DEF OneMover
    <3>5. \A q \in Runs \ {r} : ~(idx'[q] > 1)
      BY <3>1, <3>3 DEF OneMover
    <3>6. \A q \in Runs :
            ~(idx'[q] > 1 /\ pc'[q] \in AtImages \cup {"write", "log"})
      BY <3>2, <3>5 DEF AtImages, AtCopy, Copying, Opened
    <3>7. \A q \in Runs : pc'[q] = "begin" => idx'[q] = 1
      BY <3>2, <3>3 DEF OneMover
    <3> QED
      BY <3>1, <3>3, <3>4, <3>6, <3>7 DEF OneMover
  <2> QED
    BY <1>2, <2>1, <2>2 DEF AppendLog
<1>3. CASE ConfirmLog(r)
  BY <1>3, OneMoverFrame DEF ConfirmLog, fileVars, AfterImages
<1>4. CASE RemoveManifest(r)
  BY <1>4, OneMoverFrame DEF RemoveManifest, AfterImages
<1>5. CASE RemoveDir(r)
  BY <1>5, OneMoverFrame DEF RemoveDir
<1>6. CASE RecordArchiveFailure(r)
  BY <1>6, OneMoverFrame DEF RecordArchiveFailure
<1> QED
  BY <1>1, <1>2, <1>3, <1>4, <1>5, <1>6 DEF EndStep

LEMMA OneMoverStep == TypeOK /\ OneMover /\ [Next]_vars => OneMover'
<1> SUFFICES ASSUME TypeOK, OneMover, [Next]_vars
             PROVE  OneMover'
  OBVIOUS
<1>1. CASE RetryFromDeadLetter
  BY <1>1 DEF RetryFromDeadLetter, runVars, OneMover
<1>2. ASSUME NEW r \in Runs, Start(r)
      PROVE  OneMover'
  <2>1. \A q \in Runs : idx'[q] = IF q = r THEN 1 ELSE idx[q]
    BY <1>2 DEF Start, TypeOK
  <2>2. \A q \in Runs : pc'[q] = IF q = r THEN "begin" ELSE pc[q]
    BY <1>2 DEF Start, GoTo, TypeOK
  <2>3. logged' = logged /\ source' = source
    BY <1>2 DEF Start, fileVars
  <2> QED
    BY <2>1, <2>2, <2>3 DEF OneMover, AfterImages, AtImages, AtCopy, Copying, Opened
<1>3. ASSUME NEW r \in Runs, Crash(r)
      PROVE  OneMover'
  BY <1>3, OneMoverFrame DEF Crash, fileVars
<1>4. ASSUME NEW r \in Runs, Refuse(r)
      PROVE  OneMover'
  BY <1>4, OneMoverFrame DEF Refuse, fileVars
<1>5. ASSUME NEW r \in Runs, MakeDir(r)
      PROVE  OneMover'
  BY <1>5, OneMoverFrame DEF MakeDir, fileVars, OneMover
<1>6. ASSUME NEW r \in Runs, MoveStep(r) \/ EndStep(r)
      PROVE  OneMover'
  BY <1>6, OneMoverMoveStep, OneMoverEndStep
<1>7. CASE UNCHANGED vars
  BY <1>7 DEF vars, runVars, fileVars, OneMover
<1> QED
  BY <1>1, <1>2, <1>3, <1>4, <1>5, <1>6, <1>7 DEF Next, Archive

(* Whatever crashes, fails, is retried or overlaps, the publish log gets   *)
(* at most one line about the post (archiver.go:95-101, 125).              *)
THEOREM PostIsLoggedOnce == Spec => []LoggedOnce
<1>1. Init => TypeOK /\ OneMover
  BY InitType, OneMoverInit
<1>2. TypeOK /\ OneMover /\ [Next]_vars => TypeOK' /\ OneMover'
  BY TypeStep, OneMoverStep
<1>3. OneMover => LoggedOnce
  BY DEF OneMover, LoggedOnce
<1> QED
  BY <1>1, <1>2, <1>3, PTL DEF Spec

-----------------------------------------------------------------------------
(* What the archive holds when the directory goes away.                    *)

(* A run has moved every image it is past, is past the images only when    *)
(* none is left, and what comes after happens in the order of the code.    *)
MovedInOrder ==
  /\ \A r \in Runs, i \in Images : i < idx[r] => i \notin source
  /\ \A r \in Runs : pc[r] \in Opened \cup AtCopy => idx[r] \in Images
  /\ \A r \in Runs : pc[r] \in AfterImages => idx[r] > ImageCount
  /\ \A r \in Runs : pc[r] \in AfterImages \ {"write"} => archived
  /\ archived => \A i \in Images : i \notin source
  /\ manifest = Gone \/ logged > 0 => archived

(* What Disturb does: a run that copied the same image has a torn copy,    *)
(* and nobody comes to have one in hand.                                   *)
Disturbed(r, label) ==
  /\ pc'[r] = label /\ torn \subseteq torn'
  /\ torn' = torn \/ torn' = torn \cup {idx[r]}
  /\ idx[r] \notin source => idx[r] \in torn'
  /\ \A q \in Runs \ {r} :
       /\ pc[q] \in AtCopy /\ idx[q] = idx[r] => idx[r] \in torn'
       /\ pc'[q] = "torn" => pc[q] = "torn" \/ (pc[q] = "copy" /\ idx[q] = idx[r])
       /\ pc'[q] # "torn" /\ (pc[q] \in AtCopy \/ pc'[q] \in AtCopy) => pc'[q] = pc[q]

LEMMA DisturbFacts ==
  ASSUME TypeOK, NEW r \in Runs, NEW label \in Labels, NEW effect \in Effects,
         Disturb(r, label, effect)
  PROVE  Disturbed(r, label)
<1> DEFINE same == {q \in Runs \ {r} : idx[q] = idx[r]}
<1>1. /\ pc' = [q \in Runs |-> CASE q = r      -> label
                                [] q \in same -> effect[pc[q]]
                                [] OTHER      -> pc[q]]
      /\ torn' = IF \/ \E q \in same : pc[q] \in Copying \cup {"copied"}
                    \/ idx[r] \notin source
                   THEN torn \cup {idx[r]} ELSE torn
  BY DEF Disturb
<1>2. pc'[r] = label
  BY <1>1
<1>3. \A q \in Runs \ {r} :
        pc'[q] = IF q \in same THEN effect[pc[q]] ELSE pc[q]
  BY <1>1
<1>4. \A q \in Runs \ {r} : pc[q] \in AtCopy /\ idx[q] = idx[r] => idx[r] \in torn'
  BY <1>1 DEF AtCopy
<1>5. \A q \in Runs : pc[q] \in Labels
  BY DEF TypeOK
<1>6. \A q \in Runs \ {r} :
        /\ pc'[q] = "torn" => pc[q] = "torn" \/ (pc[q] = "copy" /\ idx[q] = idx[r])
        /\ pc'[q] # "torn" /\ (pc[q] \in AtCopy \/ pc'[q] \in AtCopy) => pc'[q] = pc[q]
  BY <1>3, <1>5, EffectFacts DEF AtCopy, Copying, Opened
<1>7. torn \subseteq torn' /\ (torn' = torn \/ torn' = torn \cup {idx[r]})
      /\ (idx[r] \notin source => idx[r] \in torn')
  BY <1>1
<1> QED
  BY <1>2, <1>4, <1>6, <1>7 DEF Disturbed

(* What an image is moved by: one file operation of one run.               *)
TakesImage(r) ==
  /\ idx[r] \in Images /\ idx[r] \in source
  /\ source' = source \ {idx[r]}
  /\ NextImage(r)
  /\ GoTo(r, "move") \/ \E effect \in Effects : Disturb(r, "move", effect)
  /\ UNCHANGED <<manifest, archived, logged>>

LEMMA MovedInOrderInit == Init => MovedInOrder
<1> SUFFICES ASSUME Init
             PROVE  MovedInOrder
  OBVIOUS
<1>1. manifest # Gone
  BY PostType DEF Init, States
<1>2. Images \subseteq Nat \ {0}
  BY ConstantsAssumption DEF Images
<1>3. \A r \in Runs : pc[r] = "idle" /\ idx[r] = 1
  BY DEF Init
<1>4. logged = 0 /\ archived = FALSE
  BY DEF Init
<1>5. \A i \in Images : ~(i < 1)
  BY <1>2
<1> QED
  BY <1>1, <1>3, <1>4, <1>5 DEF MovedInOrder, AfterImages, AtCopy, Copying, Opened

(* A step that moves no image, keeps what is archived, and moves its run   *)
(* no further than it has a right to.                                      *)
LEMMA MovedInOrderFrame ==
  ASSUME TypeOK, MovedInOrder, NEW r \in Runs, NEW label,
         GoTo(r, label) \/ \E effect \in Effects : Disturb(r, label, effect),
         idx' = idx, source' \subseteq source,
         archived => archived', logged' = logged \/ archived,
         manifest' # Gone \/ archived,
         archived' => archived \/ pc[r] = "write",
         \/ label \in {"idle", "dead", "hidden", "fail", "move"}
         \/ label \in Opened \cup AtCopy /\ idx[r] \in Images
         \/ label = "write" /\ idx[r] > ImageCount
         \/ label = "log" /\ archived' /\ pc[r] = "write"
         \/ label \in AfterImages \ {"write"} /\ archived /\ pc[r] \in AfterImages
  PROVE  MovedInOrder'
<1>0. Moves(r, label)
  <2>1. label \in Labels
    BY DEF Labels, Ended, Copying, AfterImages, AtCopy
  <2> QED
    BY <2>1, GoToMoves, DisturbMoves
<1>1. \A q \in Runs : pc'[q] \in Opened \cup AtCopy => idx'[q] \in Images
  BY <1>0 DEF Moves, MovedInOrder, AfterImages, AtCopy, Copying, Opened
<1>2. \A q \in Runs : pc'[q] \in AfterImages => idx'[q] > ImageCount
  BY <1>0 DEF Moves, MovedInOrder, AfterImages, AtCopy, Copying, Opened
<1>3. \A q \in Runs : pc'[q] \in AfterImages \ {"write"} => archived'
  BY <1>0 DEF Moves, MovedInOrder, AfterImages, AtCopy, Copying, Opened
<1>4. archived' => \A i \in Images : i \notin source'
  <2>1. ASSUME pc[r] = "write", NEW i \in Images
        PROVE  i \notin source
    BY <2>1, ConstantsAssumption DEF MovedInOrder, AfterImages, Images, TypeOK
  <2> QED
    BY <2>1 DEF MovedInOrder
<1>5. manifest' = Gone \/ logged' > 0 => archived'
  BY DEF MovedInOrder
<1>6. \A q \in Runs, i \in Images : i < idx'[q] => i \notin source'
  BY DEF MovedInOrder
<1> QED
  BY <1>1, <1>2, <1>3, <1>4, <1>5, <1>6 DEF MovedInOrder

(* A step that takes an image: nothing is archived yet.                    *)
LEMMA MovedInOrderTakes ==
  ASSUME TypeOK, MovedInOrder, NEW r \in Runs, TakesImage(r)
  PROVE  MovedInOrder'
<1>1. \A q \in Runs : idx'[q] = IF q = r THEN idx[r] + 1 ELSE idx[q]
  BY DEF TakesImage, NextImage, TypeOK
<1>2. Moves(r, "move")
  <2>1. "move" \in Labels
    BY DEF Labels
  <2> QED
    BY <2>1, GoToMoves, DisturbMoves DEF TakesImage
<1>3. Images \subseteq Nat /\ idx[r] \in Images /\ idx[r] \in source
      /\ source' = source \ {idx[r]}
  BY ConstantsAssumption DEF Images, TakesImage
<1>4. ~archived /\ UNCHANGED <<archived, manifest, logged>>
  BY <1>3 DEF MovedInOrder, TakesImage
<1>5. ASSUME NEW q \in Runs, NEW i \in Images, i < idx'[q]
      PROVE  i \notin source'
  <2>1. CASE q = r
    <3>1. i < idx[r] \/ i = idx[r]
      BY <1>1, <1>3, <1>5, <2>1 DEF TypeOK
    <3> QED
      BY <1>3, <3>1 DEF MovedInOrder
  <2>2. CASE q # r
    BY <1>1, <1>3, <1>5, <2>2 DEF MovedInOrder
  <2> QED
    BY <2>1, <2>2
<1>7. \A q \in Runs : pc'[q] \in Opened \cup AtCopy => idx'[q] \in Images
  BY <1>1, <1>2 DEF Moves, MovedInOrder, AtCopy, Copying, Opened
<1>8. \A q \in Runs : pc'[q] \in AfterImages => idx'[q] > ImageCount
  BY <1>1, <1>2 DEF Moves, MovedInOrder, AfterImages, Opened
<1>9. \A q \in Runs : pc'[q] \in AfterImages \ {"write"} => archived'
  BY <1>2, <1>4 DEF Moves, MovedInOrder, AfterImages, Opened
<1>10. manifest' = Gone \/ logged' > 0 => archived'
  BY <1>4 DEF MovedInOrder
<1> QED
  BY <1>4, <1>5, <1>7, <1>8, <1>9, <1>10 DEF MovedInOrder

(* The two ways to take an image.                                          *)
LEMMA TakesAnImage ==
  ASSUME TypeOK, MovedInOrder, NEW r \in Runs, RenameImage(r) \/ DeleteOriginal(r)
  PROVE  TakesImage(r)
<1>1. CASE RenameImage(r)
  BY <1>1, ConstantsAssumption DEF RenameImage, AtImage, TakesImage, Images, Effects, TypeOK
<1>2. CASE DeleteOriginal(r)
  BY <1>2 DEF DeleteOriginal, TakesImage, MovedInOrder, AtCopy
<1> QED
  BY <1>1, <1>2

LEMMA MovedInOrderMoveStep ==
  ASSUME TypeOK, MovedInOrder, NEW r \in Runs, MoveStep(r)
  PROVE  MovedInOrder'
<1>0. manifest # Gone \/ archived
  BY DEF MovedInOrder
<1>1. CASE RenameImage(r) \/ DeleteOriginal(r)
  BY <1>1, TakesAnImage, MovedInOrderTakes
<1>2. CASE OpenSource(r) \/ OpenCopy(r)
  <2>1. idx[r] \in Images
    BY <1>2, ConstantsAssumption DEF OpenSource, OpenCopy, AtImage, Images, TypeOK,
                                     MovedInOrder
  <2> QED
    BY <1>0, <1>2, <2>1, MovedInOrderFrame
       DEF OpenSource, OpenCopy, AtCopy, Copying, Opened, Effects, fileVars
<1>3. CASE FinishCopy(r)
  BY <1>0, <1>3, MovedInOrderFrame DEF FinishCopy, AtCopy, Copying, MovedInOrder
<1>4. CASE FailCopy(r)
  BY <1>0, <1>4, MovedInOrderFrame DEF FailCopy, Effects
<1>5. CASE DeleteFails(r) \/ MoveFails(r)
  BY <1>0, <1>5, MovedInOrderFrame DEF DeleteFails, MoveFails, fileVars
<1>6. CASE MoveOthers(r)
  <2>1. source' \subseteq source
    BY <1>6 DEF MoveOthers
  <2>2. /\ GoTo(r, "write") /\ idx[r] > ImageCount
        /\ UNCHANGED <<idx, manifest, archived, logged>>
    BY <1>6 DEF MoveOthers
  <2> QED
    BY <1>0, <2>1, <2>2, MovedInOrderFrame
<1> QED
  BY <1>1, <1>2, <1>3, <1>4, <1>5, <1>6 DEF MoveStep

LEMMA MovedInOrderEndStep ==
  ASSUME TypeOK, MovedInOrder, NEW r \in Runs, EndStep(r)
  PROVE  MovedInOrder'
<1>0. manifest # Gone \/ archived
  BY DEF MovedInOrder
<1>1. CASE WriteArchived(r)
  BY <1>0, <1>1, MovedInOrderFrame DEF WriteArchived
<1>2. CASE AppendLog(r) \/ ConfirmLog(r) \/ RemoveManifest(r)
  <2>1. archived /\ pc[r] \in AfterImages
    BY <1>2 DEF AppendLog, ConfirmLog, RemoveManifest, MovedInOrder, AfterImages
  <2>2. PICK label \in {"confirm", "remove", "rmdir"} : GoTo(r, label)
    BY <1>2 DEF AppendLog, ConfirmLog, RemoveManifest
  <2>3. UNCHANGED <<idx, source, archived>>
    BY <1>2 DEF AppendLog, ConfirmLog, RemoveManifest, fileVars
  <2>4. label \in AfterImages \ {"write"}
    BY <2>2 DEF AfterImages
  <2> QED
    BY <2>1, <2>2, <2>3, <2>4, MovedInOrderFrame
<1>3. CASE RemoveDir(r)
  <2>1. archived
    BY <1>3 DEF RemoveDir, MovedInOrder, AfterImages
  <2> QED
    BY <1>3, <2>1, MovedInOrderFrame DEF RemoveDir
<1>4. CASE RecordArchiveFailure(r)
  <2>1. RecordFailure(mem[r], "archive", "published") # Gone
    BY PostType, ManifestType DEF TypeOK
  <2>2. manifest' # Gone \/ archived
    BY <1>0, <1>4, <2>1 DEF RecordArchiveFailure
  <2> QED
    BY <1>4, <2>2, MovedInOrderFrame DEF RecordArchiveFailure
<1> QED
  BY <1>1, <1>2, <1>3, <1>4 DEF EndStep

LEMMA MovedInOrderStep == TypeOK /\ MovedInOrder /\ [Next]_vars => MovedInOrder'
<1> SUFFICES ASSUME TypeOK, MovedInOrder, [Next]_vars
             PROVE  MovedInOrder'
  OBVIOUS
<1>1. CASE RetryFromDeadLetter
  <2>1. manifest' # Gone
    BY <1>1, PostType, ManifestType DEF RetryFromDeadLetter, TypeOK
  <2> QED
    BY <1>1, <2>1 DEF RetryFromDeadLetter, runVars, MovedInOrder
<1>2. ASSUME NEW r \in Runs, Start(r)
      PROVE  MovedInOrder'
  <2>1. \A q \in Runs : idx'[q] = IF q = r THEN 1 ELSE idx[q]
    BY <1>2 DEF Start, TypeOK
  <2>2. \A q \in Runs : pc'[q] = IF q = r THEN "begin" ELSE pc[q]
    BY <1>2 DEF Start, GoTo, TypeOK
  <2>3. \A i \in Images : ~(i < 1)
    BY ConstantsAssumption DEF Images
  <2>4. UNCHANGED fileVars
    BY <1>2 DEF Start
  <2> QED
    BY <2>1, <2>2, <2>3, <2>4 DEF MovedInOrder, AfterImages, AtCopy, Copying, Opened,
                                  fileVars
<1>3. ASSUME NEW r \in Runs, Crash(r) \/ Refuse(r) \/ MakeDir(r)
      PROVE  MovedInOrder'
  <2>1. UNCHANGED <<fileVars, idx>>
    BY <1>3 DEF Crash, Refuse, MakeDir
  <2>2. PICK label \in {"idle", "dead", "move", "fail"} : GoTo(r, label)
    BY <1>3 DEF Crash, Refuse, MakeDir
  <2>3. manifest' = Gone => archived
    BY <2>1 DEF fileVars, MovedInOrder
  <2> QED
    BY <2>1, <2>2, <2>3, MovedInOrderFrame DEF fileVars
<1>4. ASSUME NEW r \in Runs, MoveStep(r) \/ EndStep(r)
      PROVE  MovedInOrder'
  BY <1>4, MovedInOrderMoveStep, MovedInOrderEndStep
<1>5. CASE UNCHANGED vars
  BY <1>5 DEF vars, runVars, fileVars, MovedInOrder
<1> QED
  BY <1>1, <1>2, <1>3, <1>4, <1>5 DEF Next, Archive

-----------------------------------------------------------------------------
(* Where the photographs are.                                              *)

(* But for the images that two runs had in hand at once: one that is not   *)
(* in the directory is whole in the archive, one that is being copied is   *)
(* still in the directory, and one that was copied is whole.               *)
KeptInv ==
  /\ \A i \in Images \ torn : i \notin source => archive[i] = "mine"
  /\ \A r \in Runs : pc[r] = "torn" => idx[r] \in torn
  /\ \A r \in Runs :
       (pc[r] \in AtCopy /\ idx[r] \notin torn) =>
         idx[r] \in source /\ (pc[r] = "copied" => archive[idx[r]] = "mine")
  /\ \A q, r \in Runs :
       (q # r /\ pc[q] \in AtCopy /\ pc[r] \in AtCopy /\ idx[q] = idx[r])
         => idx[r] \in torn

LEMMA KeptInit == Init => KeptInv
<1> SUFFICES ASSUME Init PROVE KeptInv
  OBVIOUS
<1>1. \A i \in Images : i \in source
  BY DEF Init, Names
<1>2. \A r \in Runs : pc[r] = "idle"
  BY DEF Init
<1> QED
  BY <1>1, <1>2 DEF KeptInv, AtCopy, Copying

(* A step away from the copies that leaves the images where they are.      *)
LEMMA KeptFrame ==
  ASSUME TypeOK, MovedInOrder, KeptInv, NEW r \in Runs, NEW label \in Labels \ AtCopy,
         GoTo(r, label), UNCHANGED <<torn, idx>>,
         \A i \in Images : (i \in source <=> i \in source') /\ archive'[i] = archive[i]
  PROVE  KeptInv'
<1>1. \A q \in Runs : pc'[q] = IF q = r THEN label ELSE pc[q]
  BY DEF GoTo, TypeOK
<1>2. \A q \in Runs : pc'[q] \in AtCopy => pc'[q] = pc[q] /\ idx[q] \in Images
  BY <1>1 DEF MovedInOrder
<1>3. \A q \in Runs : pc'[q] = "torn" => pc[q] = "torn"
  BY <1>1 DEF AtCopy, Copying
<1> QED
  BY <1>2, <1>3 DEF KeptInv

(* The image goes to the archive in one step, or is there in whole.        *)
LEMMA KeptRename ==
  ASSUME TypeOK, MovedInOrder, KeptInv, NEW r \in Runs, RenameImage(r)
  PROVE  KeptInv'
<1> DEFINE i == idx[r]
<1>1. /\ source' = source \ {i} /\ archive' = [archive EXCEPT ![i] = "mine"]
      /\ NextImage(r) /\ Disturb(r, "move", Renamed) /\ i \in source /\ i \in Names
  BY DEF RenameImage, TypeOK
<1>2. \A q \in Runs \ {r} : idx'[q] = idx[q]
  BY <1>1 DEF NextImage, TypeOK
<1>3. /\ pc'[r] = "move" /\ torn \subseteq torn'
      /\ torn' = torn \/ torn' = torn \cup {i}
      /\ i \notin source => i \in torn'
      /\ \A q \in Runs \ {r} :
           /\ pc[q] \in AtCopy /\ idx[q] = i => i \in torn'
           /\ pc'[q] = "torn" => pc[q] = "torn" \/ (pc[q] = "copy" /\ idx[q] = i)
           /\ pc'[q] # "torn" /\ (pc[q] \in AtCopy \/ pc'[q] \in AtCopy) => pc'[q] = pc[q]
  <2>1. "move" \in Labels /\ Renamed \in Effects
    BY DEF Labels, Effects
  <2> QED
    BY <1>1, <2>1, DisturbFacts DEF Disturbed
<1>4. \A j \in Names : archive'[j] = IF j = i THEN "mine" ELSE archive[j]
  BY <1>1 DEF TypeOK
<1> HIDE DEF i
<1>5. \A q \in Runs : pc'[q] \in AtCopy => q # r /\ pc[q] \in AtCopy
  BY <1>3 DEF AtCopy, Copying
<1>6. \A j \in Images \ torn' : j \notin source' => archive'[j] = "mine"
  BY <1>1, <1>3, <1>4 DEF KeptInv, Names
<1>7. \A q \in Runs : pc'[q] = "torn" => idx'[q] \in torn'
  BY <1>2, <1>3, <1>5 DEF KeptInv, AtCopy, Copying
<1>8. ASSUME NEW q \in Runs, pc'[q] \in AtCopy, idx'[q] \notin torn'
      PROVE  idx'[q] \in source' /\ (pc'[q] = "copied" => archive'[idx'[q]] = "mine")
  <2>1. q # r /\ pc[q] \in AtCopy /\ idx'[q] = idx[q] /\ pc'[q] = pc[q]
    BY <1>2, <1>3, <1>5, <1>7, <1>8
  <2>2. idx[q] \notin torn /\ idx[q] # i
    BY <1>3, <1>8, <2>1
  <2>3. idx[q] \in source /\ (pc[q] = "copied" => archive[idx[q]] = "mine")
    BY <2>1, <2>2 DEF KeptInv
  <2> QED
    BY <1>1, <1>4, <2>1, <2>2, <2>3 DEF TypeOK
<1>9. \A p, q \in Runs :
        (p # q /\ pc'[p] \in AtCopy /\ pc'[q] \in AtCopy /\ idx'[p] = idx'[q])
          => idx'[q] \in torn'
  BY <1>2, <1>3, <1>5 DEF KeptInv
<1> QED
  BY <1>6, <1>7, <1>8, <1>9 DEF KeptInv

LEMMA KeptDelete ==
  ASSUME TypeOK, MovedInOrder, KeptInv, NEW r \in Runs, DeleteOriginal(r)
  PROVE  KeptInv'
<1> DEFINE i == idx[r]
<1>1. /\ source' = source \ {i} /\ archive' = archive /\ torn' = torn
      /\ NextImage(r) /\ GoTo(r, "move") /\ pc[r] = "copied"
  BY DEF DeleteOriginal
<1>2. /\ \A q \in Runs \ {r} : idx'[q] = idx[q] /\ pc'[q] = pc[q]
      /\ pc'[r] = "move"
  BY <1>1 DEF NextImage, GoTo, TypeOK
<1>3. i \notin torn => archive[i] = "mine"
  BY <1>1 DEF KeptInv, AtCopy
<1>4. \A q \in Runs : pc'[q] \in AtCopy => q # r /\ pc[q] \in AtCopy
  BY <1>2 DEF AtCopy, Copying
<1>5. \A q \in Runs \ {r} : pc[q] \in AtCopy /\ idx[q] = i => i \in torn
  BY <1>1 DEF KeptInv, AtCopy
<1> HIDE DEF i
<1>6. \A j \in Images \ torn' : j \notin source' => archive'[j] = "mine"
  BY <1>1, <1>3 DEF KeptInv
<1>7. \A q \in Runs : pc'[q] = "torn" => idx'[q] \in torn'
  BY <1>1, <1>2 DEF KeptInv
<1>8. ASSUME NEW q \in Runs, pc'[q] \in AtCopy, idx'[q] \notin torn'
      PROVE  idx'[q] \in source' /\ (pc'[q] = "copied" => archive'[idx'[q]] = "mine")
  <2>1. q # r /\ pc[q] \in AtCopy /\ idx'[q] = idx[q] /\ pc'[q] = pc[q]
    BY <1>2, <1>4, <1>8
  <2>2. idx[q] \notin torn /\ idx[q] # i
    BY <1>1, <1>5, <1>8, <2>1
  <2> QED
    BY <1>1, <2>1, <2>2 DEF KeptInv
<1>9. \A p, q \in Runs :
        (p # q /\ pc'[p] \in AtCopy /\ pc'[q] \in AtCopy /\ idx'[p] = idx'[q])
          => idx'[q] \in torn'
  BY <1>1, <1>2, <1>4 DEF KeptInv
<1> QED
  BY <1>6, <1>7, <1>8, <1>9 DEF KeptInv

(* A copy begins: the original is there, or the image is torn, and whoever *)
(* was copying the same image has a torn one.                              *)
LEMMA KeptOpen ==
  ASSUME TypeOK, MovedInOrder, KeptInv, NEW r \in Runs, OpenCopy(r)
  PROVE  KeptInv'
<1> DEFINE i == idx[r]
<1>1. /\ source' = source /\ archive' = [archive EXCEPT ![i] = "partial"]
      /\ idx' = idx /\ i \in Names
  BY DEF OpenCopy, MovedInOrder, Names
<1>2. /\ pc'[r] \in {"copy", "empty"} /\ torn \subseteq torn'
      /\ torn' = torn \/ torn' = torn \cup {i}
      /\ i \notin source => i \in torn'
      /\ \A q \in Runs \ {r} :
           /\ pc[q] \in AtCopy /\ idx[q] = i => i \in torn'
           /\ pc'[q] = "torn" => pc[q] = "torn" \/ (pc[q] = "copy" /\ idx[q] = i)
           /\ pc'[q] # "torn" /\ (pc[q] \in AtCopy \/ pc'[q] \in AtCopy) => pc'[q] = pc[q]
  <2>1. PICK label \in {"copy", "empty"} : Disturb(r, label, Emptied)
    BY DEF OpenCopy
  <2>2. label \in Labels /\ Emptied \in Effects
    BY DEF Labels, Copying, Effects
  <2> QED
    BY <2>1, <2>2, DisturbFacts DEF Disturbed
<1>3. \A j \in Names : archive'[j] = IF j = i THEN "partial" ELSE archive[j]
  BY <1>1 DEF TypeOK
<1>4. \A q \in Runs \ {r} : pc'[q] \in AtCopy => pc[q] \in AtCopy
  BY <1>2 DEF AtCopy, Copying
<1> HIDE DEF i
<1>5. \A j \in Images \ torn' : j \notin source' => archive'[j] = "mine"
  BY <1>1, <1>2, <1>3 DEF KeptInv, Names
<1>6. \A q \in Runs : pc'[q] = "torn" => idx'[q] \in torn'
  BY <1>1, <1>2 DEF KeptInv, AtCopy, Copying, i
<1>7. ASSUME NEW q \in Runs, pc'[q] \in AtCopy, idx'[q] \notin torn'
      PROVE  idx'[q] \in source' /\ (pc'[q] = "copied" => archive'[idx'[q]] = "mine")
  <2>1. CASE q = r
    BY <1>1, <1>2, <1>7, <2>1 DEF i
  <2>2. CASE q # r
    <3>1. pc[q] \in AtCopy /\ idx[q] \notin torn /\ idx[q] # i /\ pc'[q] = pc[q]
      BY <1>1, <1>2, <1>4, <1>6, <1>7, <2>2
    <3>2. idx[q] \in source /\ (pc[q] = "copied" => archive[idx[q]] = "mine")
      BY <3>1 DEF KeptInv
    <3> QED
      BY <1>1, <1>3, <3>1, <3>2 DEF TypeOK
  <2> QED
    BY <2>1, <2>2
<1>8. \A p, q \in Runs :
        (p # q /\ pc'[p] \in AtCopy /\ pc'[q] \in AtCopy /\ idx'[p] = idx'[q])
          => idx'[q] \in torn'
  BY <1>1, <1>2, <1>4 DEF KeptInv, i
<1> QED
  BY <1>5, <1>6, <1>7, <1>8 DEF KeptInv

(* A copy that was not torn is whole at its end.                           *)
LEMMA KeptFinish ==
  ASSUME TypeOK, MovedInOrder, KeptInv, NEW r \in Runs, FinishCopy(r)
  PROVE  KeptInv'
<1> DEFINE i == idx[r]
<1>1. /\ UNCHANGED <<source, torn, idx>> /\ GoTo(r, "copied") /\ pc[r] \in AtCopy
      /\ archive' = IF pc[r] = "copy" THEN [archive EXCEPT ![i] = "mine"] ELSE archive
      /\ pc[r] \in {"copy", "torn"}
  BY DEF FinishCopy, AtCopy, Copying
<1>2. \A q \in Runs : pc'[q] = IF q = r THEN "copied" ELSE pc[q]
  BY <1>1 DEF GoTo, TypeOK
<1>3. i \in Names
  BY <1>1 DEF MovedInOrder, Names
<1>4. /\ \A j \in Names : archive'[j] = "mine" \/ archive'[j] = archive[j]
      /\ i \notin torn => archive'[i] = "mine"
  BY <1>1, <1>3 DEF TypeOK, KeptInv
<1> HIDE DEF i
<1>5. \A q \in Runs : pc'[q] \in AtCopy => pc[q] \in AtCopy
  BY <1>1, <1>2
<1>6. \A q \in Runs : pc'[q] = "torn" => pc[q] = "torn"
  BY <1>2
<1>7. ASSUME NEW q \in Runs, pc'[q] \in AtCopy, idx[q] \notin torn
      PROVE  idx[q] \in source /\ (pc'[q] = "copied" => archive'[idx[q]] = "mine")
  <2>1. idx[q] \in source /\ (pc[q] = "copied" => archive[idx[q]] = "mine")
    BY <1>5, <1>7 DEF KeptInv
  <2>2. idx[q] \in Names
    BY <2>1 DEF TypeOK
  <2> QED
    BY <1>2, <1>4, <1>7, <2>1, <2>2 DEF i
<1>8. \A j \in Images \ torn : j \notin source => archive'[j] = "mine"
  BY <1>4 DEF KeptInv, Names
<1> QED
  BY <1>1, <1>5, <1>6, <1>7, <1>8 DEF KeptInv

(* What a failed copy takes away is not the only one.                      *)
LEMMA KeptFail ==
  ASSUME TypeOK, MovedInOrder, KeptInv, NEW r \in Runs, FailCopy(r)
  PROVE  KeptInv'
<1> DEFINE i == idx[r]
<1>1. UNCHANGED <<source, idx>> /\ pc[r] \in AtCopy
  BY DEF FailCopy, AtCopy, Copying
<1>2. i \in Names
  BY <1>1 DEF MovedInOrder, Names
<1>3. i \notin torn => i \in source
  BY <1>1 DEF KeptInv
<1>4. "fail" \in Labels /\ Removed \in Effects
  BY DEF Labels, Effects
<1>5. CASE archive' = [archive EXCEPT ![i] = "none"] /\ Disturb(r, "fail", Removed)
  <2>1. /\ pc'[r] = "fail" /\ torn \subseteq torn'
        /\ torn' = torn \/ torn' = torn \cup {i}
        /\ \A q \in Runs \ {r} :
             /\ pc[q] \in AtCopy /\ idx[q] = i => i \in torn'
             /\ pc'[q] = "torn" => pc[q] = "torn" \/ (pc[q] = "copy" /\ idx[q] = i)
             /\ pc'[q] # "torn" /\ pc'[q] \in AtCopy => pc'[q] = pc[q]
    BY <1>4, <1>5, DisturbFacts DEF Disturbed
  <2>2. \A j \in Names : archive'[j] = IF j = i THEN "none" ELSE archive[j]
    BY <1>2, <1>5 DEF TypeOK
  <2> HIDE DEF i
  <2>3. \A q \in Runs : pc'[q] \in AtCopy => q # r /\ pc[q] \in AtCopy
    BY <2>1 DEF AtCopy, Copying
  <2>4. \A j \in Images \ torn' : j \notin source' => archive'[j] = "mine"
    BY <1>1, <1>3, <2>1, <2>2 DEF KeptInv, Names
  <2>5. \A q \in Runs : pc'[q] = "torn" => idx'[q] \in torn'
    BY <1>1, <2>1, <2>3 DEF KeptInv, AtCopy, Copying
  <2>6. ASSUME NEW q \in Runs, pc'[q] \in AtCopy, idx'[q] \notin torn'
        PROVE  idx'[q] \in source' /\ (pc'[q] = "copied" => archive'[idx'[q]] = "mine")
    <3>1. /\ pc[q] \in AtCopy /\ idx[q] \notin torn /\ idx[q] # i
          /\ pc'[q] = pc[q] /\ idx'[q] = idx[q]
      BY <1>1, <2>1, <2>3, <2>5, <2>6
    <3>2. idx[q] \in source /\ (pc[q] = "copied" => archive[idx[q]] = "mine")
      BY <3>1 DEF KeptInv
    <3> QED
      BY <1>1, <2>2, <3>1, <3>2 DEF TypeOK
  <2>7. \A p, q \in Runs :
          (p # q /\ pc'[p] \in AtCopy /\ pc'[q] \in AtCopy /\ idx'[p] = idx'[q])
            => idx'[q] \in torn'
    BY <1>1, <2>1, <2>3 DEF KeptInv
  <2> QED
    BY <2>4, <2>5, <2>6, <2>7 DEF KeptInv
<1>6. CASE /\ archive' = archive \/ archive' = [archive EXCEPT ![i] = "mine"]
           /\ GoTo(r, "fail") /\ UNCHANGED torn
  <2>1. \A q \in Runs : pc'[q] = IF q = r THEN "fail" ELSE pc[q]
    BY <1>6 DEF GoTo, TypeOK
  <2>2. \A j \in Names : archive'[j] = "mine" \/ archive'[j] = archive[j]
    BY <1>2, <1>6 DEF TypeOK
  <2>3. \A q \in Runs : pc'[q] \in AtCopy => pc'[q] = pc[q]
    BY <2>1 DEF AtCopy, Copying
  <2>4. \A q \in Runs : pc'[q] = "torn" => pc[q] = "torn"
    BY <2>1
  <2>5. ASSUME NEW q \in Runs, pc'[q] \in AtCopy, idx[q] \notin torn
        PROVE  idx[q] \in source /\ (pc'[q] = "copied" => archive'[idx[q]] = "mine")
    <3>1. idx[q] \in source /\ (pc[q] = "copied" => archive[idx[q]] = "mine")
      BY <2>3, <2>5 DEF KeptInv
    <3> QED
      BY <2>2, <2>3, <2>5, <3>1 DEF TypeOK
  <2>6. \A j \in Images \ torn : j \notin source => archive'[j] = "mine"
    BY <2>2 DEF KeptInv, Names
  <2> QED
    BY <1>1, <1>6, <2>3, <2>4, <2>5, <2>6 DEF KeptInv
<1> QED
  BY <1>5, <1>6 DEF FailCopy

LEMMA KeptMoveStep ==
  ASSUME TypeOK, MovedInOrder, KeptInv, NEW r \in Runs, MoveStep(r)
  PROVE  KeptInv'
<1>1. CASE OpenSource(r) \/ DeleteFails(r) \/ MoveFails(r)
  <2>1. {"opened", "fail"} \subseteq Labels \ AtCopy
    BY DEF Labels, AtCopy, Copying, Opened
  <2> QED
    BY <1>1, <2>1, KeptFrame DEF OpenSource, DeleteFails, MoveFails, fileVars
<1>2. CASE MoveOthers(r)
  <2>1. PICK moved \in SUBSET Movable :
          /\ source' = source \ moved
          /\ archive' = [f \in Names |-> IF f \in moved THEN "mine"
                                                        ELSE archive[f]]
    BY <1>2 DEF MoveOthers
  <2>2. \A i \in Images : i \notin moved
    BY <2>1, ConstantsAssumption DEF Movable, Images
  <2>3. \A i \in Images : (i \in source <=> i \in source') /\ archive'[i] = archive[i]
    BY <2>1, <2>2 DEF Names
  <2>4. "write" \in Labels \ AtCopy
    BY DEF Labels, AtCopy, Copying
  <2> QED
    BY <1>2, <2>3, <2>4, KeptFrame DEF MoveOthers
<1> QED
  BY <1>1, <1>2, KeptRename, KeptOpen, KeptFinish, KeptFail, KeptDelete DEF MoveStep

LEMMA KeptEndStep ==
  ASSUME TypeOK, MovedInOrder, KeptInv, NEW r \in Runs, EndStep(r)
  PROVE  KeptInv'
<1>1. UNCHANGED <<archive, torn, idx>>
  BY DEF EndStep, WriteArchived, AppendLog, ConfirmLog, RemoveManifest, RemoveDir,
         RecordArchiveFailure, fileVars
<1>2. \E label \in Labels \ AtCopy : GoTo(r, label)
  BY DEF EndStep, WriteArchived, AppendLog, ConfirmLog, RemoveManifest, RemoveDir,
         RecordArchiveFailure, Labels, Ended, AtCopy, Copying
<1>3. \A i \in Images : i \in source <=> i \in source'
  <2>1. CASE RemoveDir(r)
    <3>1. archived /\ source' \subseteq source
      BY <2>1 DEF RemoveDir, MovedInOrder, AfterImages
    <3> QED
      BY <3>1 DEF MovedInOrder
  <2>2. CASE ~RemoveDir(r)
    BY <2>2 DEF EndStep, WriteArchived, AppendLog, ConfirmLog, RemoveManifest,
                RecordArchiveFailure, fileVars
  <2> QED
    BY <2>1, <2>2
<1> QED
  BY <1>1, <1>2, <1>3, KeptFrame

LEMMA KeptStep == TypeOK /\ MovedInOrder /\ KeptInv /\ [Next]_vars => KeptInv'
<1> SUFFICES ASSUME TypeOK, MovedInOrder, KeptInv, [Next]_vars
             PROVE  KeptInv'
  OBVIOUS
<1>1. CASE RetryFromDeadLetter \/ UNCHANGED vars
  BY <1>1 DEF RetryFromDeadLetter, vars, runVars, fileVars, KeptInv
<1>2. ASSUME NEW r \in Runs, Start(r)
      PROVE  KeptInv'
  <2>1. \A q \in Runs \ {r} : idx'[q] = idx[q] /\ pc'[q] = pc[q]
    BY <1>2 DEF Start, GoTo, TypeOK
  <2>2. pc'[r] = "begin" /\ UNCHANGED <<source, archive, torn>>
    BY <1>2 DEF Start, GoTo, TypeOK, fileVars
  <2>3. \A q \in Runs : pc'[q] \in AtCopy => q # r
    BY <2>2 DEF AtCopy, Copying
  <2>4. \A q \in Runs : pc'[q] = "torn" => q # r
    BY <2>2
  <2> QED
    BY <2>1, <2>2, <2>3, <2>4 DEF KeptInv
<1>3. ASSUME NEW r \in Runs, Crash(r) \/ Refuse(r) \/ MakeDir(r)
      PROVE  KeptInv'
  <2>1. UNCHANGED <<source, archive, torn, idx>>
    BY <1>3 DEF Crash, Refuse, MakeDir, fileVars
  <2>2. \E label \in Labels \ AtCopy : GoTo(r, label)
    BY <1>3 DEF Crash, Refuse, MakeDir, Labels, Ended, AtCopy, Copying
  <2> QED
    BY <2>1, <2>2, KeptFrame
<1>4. ASSUME NEW r \in Runs, MoveStep(r) \/ EndStep(r)
      PROVE  KeptInv'
  BY <1>4, KeptMoveStep, KeptEndStep
<1> QED
  BY <1>1, <1>2, <1>3, <1>4 DEF Next, Archive

(* A photograph is never in neither place, whatever crashes, fails, is     *)
(* retried or overlaps, on one filesystem or two; but for those that one   *)
(* run copied while another moved them (archiver.go:244-308).              *)
THEOREM PhotographsAreKept == Spec => []ImagesAreKept
<1>1. Init => MovedInOrder /\ KeptInv
  BY MovedInOrderInit, KeptInit
<1>2. TypeOK /\ MovedInOrder /\ KeptInv /\ [Next]_vars => MovedInOrder' /\ KeptInv'
  BY MovedInOrderStep, KeptStep
<1>3. KeptInv => ImagesAreKept
  BY DEF KeptInv, ImagesAreKept
<1> QED
  BY <1>1, <1>2, <1>3, TypeCorrect, PTL DEF Spec

(* The post's manifest only goes away, and the log only speaks of the      *)
(* post, once the archive has the final manifest and every image, with the *)
(* same exception (archiver.go:94-139).                                    *)
THEOREM RemovedAfterArchived == Spec => []RemovedOnlyWhenArchived
<1>1. Init => MovedInOrder /\ KeptInv
  BY MovedInOrderInit, KeptInit
<1>2. TypeOK /\ MovedInOrder /\ KeptInv /\ [Next]_vars => MovedInOrder' /\ KeptInv'
  BY MovedInOrderStep, KeptStep
<1>3. MovedInOrder /\ KeptInv => RemovedOnlyWhenArchived
  BY DEF MovedInOrder, KeptInv, RemovedOnlyWhenArchived
<1> QED
  BY <1>1, <1>2, <1>3, TypeCorrect, PTL DEF Spec

-----------------------------------------------------------------------------
(* The archive is on the filesystem of the inbox: no rename fails.         *)
SameFilesystem == "rename" \notin Faults

NothingIsCopied == torn = {} /\ \A r \in Runs : pc[r] \notin Opened \cup AtCopy

(* On one filesystem nothing is copied, so there is no exception: nobody   *)
(* can tear a copy, and no image is ever in neither place                  *)
(* (archiver.go:244-256).                                                  *)
THEOREM ArchivingLosesNoImage ==
  ASSUME SameFilesystem
  PROVE  Spec => [](torn = {} /\ \A i \in Images : i \in source \/ archive[i] = "mine")
<1>1. Init => NothingIsCopied
  BY DEF Init, NothingIsCopied, AtCopy, Copying, Opened
<1>2. TypeOK /\ NothingIsCopied /\ [Next]_vars => NothingIsCopied'
  <2> SUFFICES ASSUME TypeOK, NothingIsCopied, [Next]_vars
               PROVE  NothingIsCopied'
    OBVIOUS
  <2>1. ASSUME NEW r \in Runs, RenameImage(r) PROVE NothingIsCopied'
    <3>1. "move" \in Labels /\ Renamed \in Effects
      BY DEF Labels, Effects
    <3>2. Moves(r, "move")
      BY <2>1, <3>1, DisturbMoves DEF RenameImage
    <3>3. torn' = {}
      BY <2>1 DEF RenameImage, Disturb, NothingIsCopied, AtCopy
    <3> QED
      BY <3>2, <3>3 DEF Moves, NothingIsCopied, AtCopy, Copying, Opened
  <2>2. ASSUME NEW r \in Runs,
               \/ OpenSource(r) \/ OpenCopy(r) \/ FinishCopy(r) \/ FailCopy(r)
               \/ DeleteOriginal(r) \/ DeleteFails(r)
        PROVE  FALSE
    BY <2>2 DEF SameFilesystem, NothingIsCopied, AtCopy, Copying, OpenSource, OpenCopy,
                FinishCopy, FailCopy, DeleteOriginal, DeleteFails
  <2>3. ASSUME NEW r \in Runs, NEW label, label \notin Opened \cup AtCopy,
               GoTo(r, label), torn' = torn
        PROVE  NothingIsCopied'
    BY <2>3 DEF GoTo, TypeOK, NothingIsCopied
  <2>4. ASSUME NEW r \in Runs,
               \/ Start(r) \/ Crash(r) \/ Refuse(r) \/ MakeDir(r)
               \/ MoveFails(r) \/ MoveOthers(r) \/ EndStep(r)
        PROVE  NothingIsCopied'
    <3>1. torn' = torn
      BY <2>4 DEF Start, Crash, Refuse, MakeDir, MoveFails, MoveOthers, EndStep,
                  WriteArchived, AppendLog, ConfirmLog, RemoveManifest, RemoveDir,
                  RecordArchiveFailure, fileVars
    <3>2. \E label : label \notin Opened \cup AtCopy /\ GoTo(r, label)
      BY <2>4 DEF Start, Crash, Refuse, MakeDir, MoveFails, MoveOthers, EndStep,
                  WriteArchived, AppendLog, ConfirmLog, RemoveManifest, RemoveDir,
                  RecordArchiveFailure, AtCopy, Copying, Opened
    <3> QED
      BY <2>3, <3>1, <3>2
  <2>5. CASE RetryFromDeadLetter \/ UNCHANGED vars
    BY <2>5 DEF RetryFromDeadLetter, vars, runVars, fileVars, NothingIsCopied
  <2> QED
    BY <2>1, <2>2, <2>4, <2>5 DEF Next, Archive, MoveStep
<1>3. NothingIsCopied /\ ImagesAreKept
        => torn = {} /\ \A i \in Images : i \in source \/ archive[i] = "mine"
  BY DEF NothingIsCopied, ImagesAreKept
<1> QED
  BY <1>1, <1>2, <1>3, TypeCorrect, PhotographsAreKept, PTL DEF Spec

-----------------------------------------------------------------------------
(* There is one run at a time: nobody starts a second one on the post      *)
(* while the first is at work (it may be killed, and another started).     *)
OneRun == \A q, r \in Runs : q = r

OriginalsStay ==
  /\ torn = {}
  /\ \A r \in Runs :
       pc[r] \in Opened \cup AtCopy =>
         idx[r] \in source /\ pc[r] \in {"opened", "copy", "copied"}

(* A run that has the post to itself, through any crashes, failures and    *)
(* retries, tears no copy and loses no image, without exception, on one    *)
(* filesystem or two (archiver.go:244-308).                                *)
THEOREM RunsAloneLoseNoImage ==
  ASSUME OneRun
  PROVE  Spec => [](torn = {} /\ \A i \in Images : i \in source \/ archive[i] = "mine")
<1>1. Init => OriginalsStay
  BY DEF Init, OriginalsStay, AtCopy, Copying, Opened
<1>2. TypeOK /\ OriginalsStay /\ [Next]_vars => OriginalsStay'
  <2> SUFFICES ASSUME TypeOK, OriginalsStay, [Next]_vars
               PROVE  OriginalsStay'
    OBVIOUS
  <2>1. ASSUME NEW r \in Runs, torn' = {},
               \/ pc'[r] \notin Opened \cup AtCopy
               \/ pc'[r] \in {"opened", "copy", "copied"} /\ idx'[r] \in source'
        PROVE  OriginalsStay'
    BY <2>1 DEF OneRun, OriginalsStay
  <2>2. ASSUME NEW r \in Runs, NEW label, NEW effect, Disturb(r, label, effect),
               idx[r] \in source
        PROVE  torn' = {} /\ pc'[r] = label
    BY <2>2 DEF Disturb, OneRun, OriginalsStay
  <2>3. ASSUME NEW r \in Runs, NEW label, GoTo(r, label)
        PROVE  pc'[r] = label
    BY <2>3 DEF GoTo, TypeOK
  <2>4. ASSUME NEW r \in Runs, RenameImage(r) PROVE OriginalsStay'
    BY <2>1, <2>2, <2>4 DEF RenameImage, AtCopy, Copying, Opened
  <2>5. ASSUME NEW r \in Runs, OpenSource(r) PROVE OriginalsStay'
    BY <2>1, <2>3, <2>5 DEF OpenSource, fileVars, OriginalsStay
  <2>6. ASSUME NEW r \in Runs, OpenCopy(r) PROVE OriginalsStay'
    <3>1. idx[r] \in source /\ pc[r] = "opened"
      BY <2>6 DEF OpenCopy, OriginalsStay, Opened, AtCopy, Copying
    <3>2. Disturb(r, "copy", Emptied) /\ source' = source /\ idx' = idx
      BY <2>6, <3>1 DEF OpenCopy
    <3> QED
      BY <2>1, <2>2, <3>1, <3>2
  <2>7. ASSUME NEW r \in Runs, FinishCopy(r) PROVE OriginalsStay'
    <3>1. idx[r] \in source
      BY <2>7 DEF FinishCopy, OriginalsStay, AtCopy, Copying
    <3> QED
      BY <2>1, <2>3, <2>7, <3>1 DEF FinishCopy, OriginalsStay
  <2>8. ASSUME NEW r \in Runs, FailCopy(r) PROVE OriginalsStay'
    <3>1. idx[r] \in source
      BY <2>8 DEF FailCopy, OriginalsStay, AtCopy
    <3>2. torn' = {} /\ pc'[r] = "fail"
      BY <2>2, <2>3, <2>8, <3>1 DEF FailCopy, OriginalsStay
    <3> QED
      BY <2>1, <3>2 DEF AtCopy, Copying, Opened
  <2>9. ASSUME NEW r \in Runs,
               \/ Start(r) \/ Crash(r) \/ Refuse(r) \/ MakeDir(r)
               \/ DeleteOriginal(r) \/ DeleteFails(r) \/ MoveFails(r)
               \/ MoveOthers(r) \/ EndStep(r)
        PROVE  OriginalsStay'
    <3>1. torn' = {}
      BY <2>9 DEF Start, Crash, Refuse, MakeDir, DeleteOriginal, DeleteFails, MoveFails,
                  MoveOthers, EndStep, WriteArchived, AppendLog, ConfirmLog,
                  RemoveManifest, RemoveDir, RecordArchiveFailure, fileVars, OriginalsStay
    <3>2. \E label : label \notin Opened \cup AtCopy /\ GoTo(r, label)
      BY <2>9 DEF Start, Crash, Refuse, MakeDir, DeleteOriginal, DeleteFails, MoveFails,
                  MoveOthers, EndStep, WriteArchived, AppendLog, ConfirmLog,
                  RemoveManifest, RemoveDir, RecordArchiveFailure, AtCopy, Copying, Opened
    <3> QED
      BY <2>1, <2>3, <3>1, <3>2
  <2>10. CASE RetryFromDeadLetter \/ UNCHANGED vars
    BY <2>10 DEF RetryFromDeadLetter, vars, runVars, fileVars, OriginalsStay
  <2> QED
    BY <2>4, <2>5, <2>6, <2>7, <2>8, <2>9, <2>10 DEF Next, Archive, MoveStep
<1>3. OriginalsStay /\ ImagesAreKept
        => torn = {} /\ \A i \in Images : i \in source \/ archive[i] = "mine"
  BY DEF OriginalsStay, ImagesAreKept
<1> QED
  BY <1>1, <1>2, <1>3, TypeCorrect, PhotographsAreKept, PTL DEF Spec

=============================================================================
