------------------------------ MODULE TuiProofs ------------------------------
(***************************************************************************)
(* Proofs about Tui for any number of background runs and scans: whatever  *)
(* is in a manifest, in the file or in some memory however stale, is true  *)
(* of the user's approvals and of the feed, and every step keeps it so.    *)
(***************************************************************************)
EXTENDS Tui, TLAPS

(* What a copy of the manifest must never get wrong, given the scans rv    *)
(* that were approved and the scans lv that are live.                      *)
Good(m, rv, lv) ==
  /\ m.approved => m.scan \in rv
  /\ m.state = "published" => m.scan \in lv
  /\ m.state = "error" => m.failure # NoFailure
  /\ m.state = "error" /\ m.failure.retry = "published" => m.scan \in lv

(* A run that is about to publish has read an approval; one that is about  *)
(* to finish has posted.                                                   *)
RunGood(m, label, lv) ==
  /\ label \in {"enter", "post"} => m.approved
  /\ label = "finish" => m.scan \in lv

FileInv == Good(manifest, approvals, live) /\ live \subseteq approvals

ScreenInv ==
  /\ Good(entry, approvals, live) /\ Good(editing, approvals, live)
  /\ Good(review, approvals, live)

RunInv == \A r \in Runs :
  Good(mem[r], approvals, live) /\ RunGood(mem[r], pc[r], live)

TuiInv == FileInv /\ ScreenInv /\ RunInv

-----------------------------------------------------------------------------
(* The operators of Manifest.                                              *)

LEMMA RetryStates ==
  /\ \A g \in FailureStages : RetryStateForFailureStage[g] \in States
  /\ RetryStateForFailureStage["publish"] = "approved"
BY DEF FailureStages, States, RetryStateForFailureStage

LEMMA GoneIsGood ==
  ASSUME NEW rv, NEW lv
  PROVE  Gone \in ManifestRecord /\ Good(Gone, rv, lv)
BY DEF Gone, NoFailure, ManifestRecord, Good

LEMMA FreshScan ==
  ASSUME NEW n \in Nat, NEW rv, NEW lv
  PROVE  Scanned(n) \in ManifestRecord /\ Good(Scanned(n), rv, lv)
BY DEF Scanned, ManifestRecord, States, Good

LEMMA GoodGrows ==
  ASSUME NEW m, NEW rv, NEW lv, Good(m, rv, lv), NEW rv2, NEW lv2,
         rv \subseteq rv2, lv \subseteq lv2
  PROVE  Good(m, rv2, lv2)
BY DEF Good

(* One field at a time.                                                    *)
LEMMA Updates ==
  ASSUME NEW m \in ManifestRecord
  PROVE  /\ \A s \in States : [m EXCEPT !.state = s] \in ManifestRecord
         /\ \A f \in Failure \cup {NoFailure} :
              [m EXCEPT !.failure = f] \in ManifestRecord
         /\ \A b \in BOOLEAN : [m EXCEPT !.approved = b] \in ManifestRecord
BY DEF ManifestRecord

LEMMA TransitionGood ==
  ASSUME NEW m \in ManifestRecord, NEW rv, NEW lv, Good(m, rv, lv),
         NEW s \in States, s # "error", s = "published" => m.scan \in lv
  PROVE  /\ Transition(m, s) \in ManifestRecord
         /\ Good(Transition(m, s), rv, lv)
         /\ Transition(m, s).approved = m.approved
         /\ Transition(m, s).scan = m.scan
BY DEF Transition, ManifestRecord, Good

LEMMA RecordFailureGood ==
  ASSUME NEW m \in ManifestRecord, NEW rv, NEW lv, Good(m, rv, lv),
         NEW g \in FailureStages, NEW s \in States, s = "published" => m.scan \in lv
  PROVE  /\ RecordFailure(m, g, s) \in ManifestRecord
         /\ Good(RecordFailure(m, g, s), rv, lv)
<1> DEFINE f == [stage |-> g, retry |-> s]
           a == [m EXCEPT !.failure = f]
           t == IF CanTransition(m, "error") THEN "error" ELSE m.state
           b == [a EXCEPT !.state = t]
<1>1. f \in Failure /\ f # NoFailure /\ f.retry = s
  BY DEF Failure, NoFailure, FailureStages
<1>2. a \in ManifestRecord /\ a.failure = f /\ a.state = m.state
      /\ a.approved = m.approved /\ a.scan = m.scan
  BY <1>1 DEF ManifestRecord
<1>3. b = RecordFailure(m, g, s)
  BY <1>2 DEF RecordFailure
<1>4. t \in States \cup {"gone"} /\ t \in {"error", m.state}
  BY DEF ManifestRecord, States
<1> HIDE DEF a, f, t
<1>5. b \in ManifestRecord /\ b.failure = f /\ b.state = t
      /\ b.approved = m.approved /\ b.scan = m.scan
  BY <1>2, <1>4 DEF ManifestRecord
<1> QED
  BY <1>1, <1>3, <1>4, <1>5 DEF Good

LEMMA PrepareRetryGood ==
  ASSUME NEW m \in ManifestRecord, NEW rv, NEW lv, Good(m, rv, lv),
         CanPrepareRetry(m)
  PROVE  /\ PrepareRetry(m) \in ManifestRecord
         /\ Good(PrepareRetry(m), rv, lv)
<1> DEFINE s == EffectiveRetryState(m)
           a == [m EXCEPT !.state = s]
           b == [a EXCEPT !.failure = NoFailure]
<1>1. m.failure # NoFailure /\ s = m.failure.retry
  BY DEF CanPrepareRetry, Good, EffectiveRetryState
<1>2. s \in States /\ s # "error" /\ (s = "published" => m.scan \in lv)
  <2>1. s \in States
    BY <1>1 DEF ManifestRecord, Failure
  <2>2. s # "error"
    BY DEF CanPrepareRetry, CanTransition, validTransitions, States
  <2> QED
    BY <1>1, <2>1, <2>2 DEF CanPrepareRetry, Good
<1> HIDE DEF s
<1>3. a \in ManifestRecord /\ a.state = s /\ a.approved = m.approved /\ a.scan = m.scan
  BY <1>2 DEF ManifestRecord
<1>4. b = PrepareRetry(m)
  BY <1>3 DEF PrepareRetry, s
<1> HIDE DEF a
<1>5. b \in ManifestRecord /\ b.state = s /\ b.approved = m.approved /\ b.scan = m.scan
  BY <1>3 DEF ManifestRecord
<1> QED
  BY <1>2, <1>4, <1>5 DEF Good

(* An approval of a scan that counts as approved.                          *)
LEMMA ApprovalGood ==
  ASSUME NEW m \in ManifestRecord, NEW rv, NEW lv, Good(m, rv, lv),
         NEW b \in BOOLEAN, b => m.scan \in rv
  PROVE  /\ [m EXCEPT !.approved = b] \in ManifestRecord
         /\ Good([m EXCEPT !.approved = b], rv, lv)
         /\ [m EXCEPT !.approved = b].scan = m.scan
BY DEF ManifestRecord, Good

-----------------------------------------------------------------------------
(* Steps of a run.                                                         *)

LEMMA InitGood == Init => TypeOK /\ TuiInv
<1> SUFFICES ASSUME Init PROVE TypeOK /\ TuiInv
  OBVIOUS
<1>1. Gone \in ManifestRecord /\ Good(Gone, approvals, live)
  BY GoneIsGood
<1> QED
  BY <1>1 DEF Init, TypeOK, Labels, Dialogs, TuiInv, FileInv, ScreenInv, RunInv, RunGood

(* A run that goes on with a good copy, whatever it does with the file.    *)
LEMMA RunStep ==
  ASSUME TypeOK, TuiInv, NEW r \in Runs, NEW label \in Labels,
         NEW m \in ManifestRecord,
         pc' = [pc EXCEPT ![r] = label], mem' = [mem EXCEPT ![r] = m],
         manifest' \in ManifestRecord, scans' \in Nat,
         UNCHANGED <<tuiVars, approvals>>,
         live \subseteq live', live' \subseteq approvals, live' \subseteq Nat,
         Good(manifest', approvals, live'), Good(m, approvals, live'),
         RunGood(m, label, live')
  PROVE  TypeOK' /\ TuiInv'
<1>1. TypeOK'
  BY DEF TypeOK, tuiVars, overlays
<1>2. FileInv' /\ ScreenInv'
  BY GoodGrows DEF TuiInv, FileInv, ScreenInv, tuiVars, overlays
<1>3. ASSUME NEW q \in Runs
      PROVE  Good(mem'[q], approvals', live') /\ RunGood(mem'[q], pc'[q], live')
  <2>1. CASE q = r
    BY <2>1 DEF TypeOK
  <2>2. CASE q # r
    <3>1. mem'[q] = mem[q] /\ pc'[q] = pc[q]
      BY <2>2 DEF TypeOK
    <3>2. Good(mem[q], approvals, live) /\ RunGood(mem[q], pc[q], live)
      BY DEF TuiInv, RunInv
    <3>3. RunGood(mem[q], pc[q], live')
      BY <3>2 DEF RunGood
    <3> QED
      BY <3>1, <3>2, <3>3, GoodGrows
  <2> QED
    BY <2>1, <2>2
<1> QED
  BY <1>1, <1>2, <1>3 DEF TuiInv, RunInv

(* A run that writes its copy.                                             *)
LEMMA PutStep ==
  ASSUME TypeOK, TuiInv, NEW r \in Runs, NEW label \in Labels,
         NEW m \in ManifestRecord, Put(r, m, label), scans' \in Nat,
         UNCHANGED <<tuiVars, approvals>>,
         live \subseteq live', live' \subseteq approvals, live' \subseteq Nat,
         Good(m, approvals, live'), RunGood(m, label, live')
  PROVE  TypeOK' /\ TuiInv'
<1>1. CASE label \in Over
  <2>1. Gone \in ManifestRecord /\ Good(Gone, approvals, live')
    BY GoneIsGood
  <2>2. RunGood(Gone, label, live')
    BY <1>1 DEF Over, RunGood
  <2> QED
    BY <1>1, <2>1, <2>2, RunStep DEF Put, Go
<1>2. CASE label \notin Over
  BY <1>2, RunStep DEF Put, Go
<1> QED
  BY <1>1, <1>2

LEMMA ForgetStep ==
  ASSUME TypeOK, TuiInv, NEW r \in Runs, NEW label \in {"idle", "report"},
         Forget(r, label), scans' \in Nat, UNCHANGED <<manifest, tuiVars, approvals>>,
         live \subseteq live', live' \subseteq approvals, live' \subseteq Nat
  PROVE  TypeOK' /\ TuiInv'
<1>1. Gone \in ManifestRecord /\ Good(Gone, approvals, live')
  BY GoneIsGood
<1>2. RunGood(Gone, label, live') /\ label \in Labels
  BY DEF RunGood, Labels
<1>3. manifest' \in ManifestRecord /\ Good(manifest', approvals, live')
  BY GoodGrows DEF TypeOK, TuiInv, FileInv
<1> QED
  BY <1>1, <1>2, <1>3, RunStep DEF Forget, Go

(* A run that writes its copy, or cannot.                                  *)
LEMMA SaveStep ==
  ASSUME TypeOK, TuiInv, NEW r \in Runs, NEW label \in Labels,
         NEW m \in ManifestRecord, Save(r, m, label), scans' \in Nat,
         UNCHANGED <<tuiVars, approvals>>,
         live \subseteq live', live' \subseteq approvals, live' \subseteq Nat,
         Good(m, approvals, live'), RunGood(m, label, live')
  PROVE  TypeOK' /\ TuiInv'
<1>1. CASE Put(r, m, label)
  BY <1>1, PutStep
<1>2. CASE Forget(r, IF r \in Pipes THEN "idle" ELSE "report") /\ UNCHANGED manifest
  BY <1>2, ForgetStep
<1> QED
  BY <1>1, <1>2 DEF Save

(* A run that only moves on keeps its copy, or forgets it.                 *)
LEMMA GoStep ==
  ASSUME TypeOK, TuiInv, NEW r \in Runs, NEW label \in Labels, Go(r, label),
         UNCHANGED <<manifest, mem, scans, tuiVars, approvals, live>>,
         RunGood(mem[r], label, live)
  PROVE  TypeOK' /\ TuiInv'
<1>1. mem' = [mem EXCEPT ![r] = mem[r]] /\ mem[r] \in ManifestRecord
  BY DEF TypeOK
<1>2. Good(mem[r], approvals, live) /\ Good(manifest, approvals, live)
      /\ live \subseteq approvals
  BY DEF TuiInv, RunInv, FileInv
<1>3. manifest \in ManifestRecord /\ scans \in Nat /\ live \subseteq Nat
  BY DEF TypeOK
<1>4. /\ manifest' = manifest /\ scans' = scans /\ live' = live
      /\ UNCHANGED <<tuiVars, approvals>>
  OBVIOUS
<1>5. /\ live \subseteq live' /\ live' \subseteq approvals /\ live' \subseteq Nat
      /\ manifest' \in ManifestRecord /\ scans' \in Nat
  BY <1>2, <1>3, <1>4
<1>6. Good(manifest', approvals, live') /\ Good(mem[r], approvals, live')
      /\ RunGood(mem[r], label, live')
  BY <1>2, <1>4
<1>7. pc' = [pc EXCEPT ![r] = label]
  BY DEF Go
<1> QED
  BY <1>1, <1>4, <1>5, <1>6, <1>7, RunStep

LEMMA PipelineKeeps ==
  ASSUME TypeOK, TuiInv, NEW r \in Runs, PipelineStep(r)
  PROVE  TypeOK' /\ TuiInv'
<1>0. /\ mem[r] \in ManifestRecord /\ Good(mem[r], approvals, live)
      /\ live \subseteq approvals /\ live \subseteq Nat /\ scans \in Nat
  BY DEF TypeOK, TuiInv, RunInv, FileInv
<1>1. CASE WatcherArms(r)
  BY <1>1, GoStep DEF WatcherArms, Labels, RunGood, runVars
<1>2. CASE Scan(r)
  <2>1. ASSUME Put(r, Scanned(scans'), "validate"), scans' = scans + 1
        PROVE  TypeOK' /\ TuiInv'
    <3>1. scans' \in Nat
      BY <1>0, <2>1
    <3>2. Scanned(scans') \in ManifestRecord /\ Good(Scanned(scans'), approvals, live)
      BY <3>1, FreshScan
    <3>3. RunGood(Scanned(scans'), "validate", live) /\ "validate" \in Labels
      BY DEF RunGood, Labels
    <3>4. UNCHANGED <<tuiVars, approvals, live>>
      BY <1>2 DEF Scan
    <3> QED
      BY <1>0, <2>1, <3>1, <3>2, <3>3, <3>4, PutStep
  <2>2. ASSUME Go(r, "idle"), UNCHANGED <<manifest, mem, scans>>
        PROVE  TypeOK' /\ TuiInv'
    BY <1>2, <2>2, GoStep DEF Scan, Labels, RunGood
  <2> QED
    BY <1>2, <2>1, <2>2 DEF Scan
<1>3. CASE Validate(r)
  <2>1. /\ Transition(mem[r], "validated") \in ManifestRecord
        /\ Good(Transition(mem[r], "validated"), approvals, live)
    BY <1>0, TransitionGood DEF States
  <2>2. /\ RecordFailure(mem[r], "validate", "scanned") \in ManifestRecord
        /\ Good(RecordFailure(mem[r], "validate", "scanned"), approvals, live)
    BY <1>0, RecordFailureGood DEF States, FailureStages
  <2> QED
    BY <1>0, <1>3, <2>1, <2>2, SaveStep DEF Validate, Labels, RunGood
<1>5. CASE EnrichCommand(r)
  <2>1. manifest \in ManifestRecord /\ Good(manifest, approvals, live)
    BY DEF TypeOK, TuiInv, FileInv
  <2>2. RunGood(manifest, "command", live) /\ "command" \in Labels
    BY DEF RunGood, Labels
  <2>3. /\ mem' = [mem EXCEPT ![r] = manifest] /\ pc' = [pc EXCEPT ![r] = "command"]
        /\ UNCHANGED <<tuiVars, approvals>>
        /\ manifest' = manifest /\ scans' = scans /\ live' = live
    BY <1>5 DEF EnrichCommand, Go
  <2> QED
    BY <1>0, <2>1, <2>2, <2>3, RunStep
<1>4. CASE Enrich(r)
  <2>1. /\ Transition(mem[r], "pending_review") \in ManifestRecord
        /\ Good(Transition(mem[r], "pending_review"), approvals, live)
    BY <1>0, TransitionGood DEF States
  <2>2. PICK label \in {"report", "idle"} :
          Save(r, Transition(mem[r], "pending_review"), label)
    BY <1>4 DEF Enrich
  <2> QED
    BY <1>0, <1>4, <2>1, <2>2, SaveStep DEF Enrich, Labels, RunGood
<1> QED
  BY <1>1, <1>2, <1>3, <1>4, <1>5 DEF PipelineStep

LEMMA ReadPostKeeps ==
  ASSUME TypeOK, TuiInv, NEW r \in Runs, ReadPost(r)
  PROVE  TypeOK' /\ TuiInv'
<1> DEFINE retry == CanPrepareRetry(manifest) /\ manifest.approved
           read  == IF retry THEN PrepareRetry(manifest) ELSE manifest
           label == IF read.state \in {"approved", "publishing"} /\ read.approved
                      THEN "enter" ELSE "report"
<1>1. /\ manifest \in ManifestRecord /\ Good(manifest, approvals, live)
      /\ live \subseteq approvals /\ live \subseteq Nat /\ scans \in Nat
  BY DEF TypeOK, TuiInv, FileInv
<1>2. read \in ManifestRecord /\ Good(read, approvals, live)
  BY <1>1, PrepareRetryGood
<1>3. Save(r, read, label) /\ UNCHANGED <<tuiVars, scans, approvals, live>>
  BY DEF ReadPost
<1> HIDE DEF read
<1>4. label \in Labels /\ RunGood(read, label, live)
  BY DEF Labels, RunGood
<1> HIDE DEF label
<1> QED
  BY <1>1, <1>2, <1>3, <1>4, SaveStep

LEMMA PublishKeeps ==
  ASSUME TypeOK, TuiInv, NEW r \in Runs, PublishStep(r)
  PROVE  TypeOK' /\ TuiInv'
<1>0. /\ mem[r] \in ManifestRecord /\ Good(mem[r], approvals, live)
      /\ RunGood(mem[r], pc[r], live) /\ mem[r].scan \in Nat
      /\ live \subseteq approvals /\ live \subseteq Nat /\ scans \in Nat
  BY DEF TypeOK, TuiInv, RunInv, FileInv, ManifestRecord
<1>1. CASE ReadPost(r)
  BY <1>1, ReadPostKeeps
<1>2. CASE TokenRefused(r)
  BY <1>0, <1>2, ForgetStep DEF TokenRefused
<1>3. CASE EnterPublishing(r)
  <2>1. mem[r].approved
    BY <1>0, <1>3 DEF EnterPublishing, RunGood
  <2>2. /\ Transition(mem[r], "publishing") \in ManifestRecord
        /\ Good(Transition(mem[r], "publishing"), approvals, live)
        /\ Transition(mem[r], "publishing").approved = mem[r].approved
    BY <1>0, TransitionGood DEF States
  <2>3. RunGood(Transition(mem[r], "publishing"), "post", live)
        /\ RunGood(mem[r], "post", live) /\ "post" \in Labels
    BY <2>1, <2>2 DEF RunGood, Labels
  <2>4. UNCHANGED <<tuiVars, scans, approvals, live>>
    BY <1>3 DEF EnterPublishing
  <2>5. CASE Save(r, Transition(mem[r], "publishing"), "post")
    BY <1>0, <2>2, <2>3, <2>4, <2>5, SaveStep
  <2>6. CASE Go(r, "post") /\ UNCHANGED <<manifest, mem>>
    BY <2>3, <2>4, <2>6, GoStep
  <2> QED
    BY <1>3, <2>5, <2>6 DEF EnterPublishing
<1>4. ASSUME live' = live \cup {mem[r].scan}, pc[r] = "post"
      PROVE  /\ live \subseteq live' /\ live' \subseteq approvals
             /\ live' \subseteq Nat /\ mem[r].scan \in live'
             /\ Good(mem[r], approvals, live')
  <2>1. mem[r].scan \in approvals
    BY <1>0, <1>4 DEF RunGood, Good
  <2>2. live \subseteq live' /\ live' \subseteq approvals
        /\ live' \subseteq Nat /\ mem[r].scan \in live'
    BY <1>0, <1>4, <2>1
  <2> QED
    BY <1>0, <2>2, GoodGrows
<1>5. CASE Post(r)
  <2>1. /\ live \subseteq live' /\ live' \subseteq approvals
        /\ live' \subseteq Nat /\ mem[r].scan \in live'
        /\ Good(mem[r], approvals, live')
    BY <1>4, <1>5 DEF Post
  <2>2. RunGood(mem[r], "finish", live') /\ "finish" \in Labels
    BY <2>1 DEF RunGood, Labels
  <2>3. Put(r, mem[r], "finish") /\ UNCHANGED <<tuiVars, scans, approvals>>
    BY <1>5 DEF Post
  <2> QED
    BY <1>0, <2>1, <2>2, <2>3, PutStep
<1>6. CASE PublishReplyLost(r)
  <2>1. /\ live \subseteq live' /\ live' \subseteq approvals
        /\ live' \subseteq Nat /\ Good(mem[r], approvals, live')
    BY <1>4, <1>6 DEF PublishReplyLost
  <2>2. /\ RecordFailure(mem[r], "publish", "approved") \in ManifestRecord
        /\ Good(RecordFailure(mem[r], "publish", "approved"), approvals, live')
    BY <1>0, <2>1, RecordFailureGood DEF States, FailureStages
  <2> QED
    BY <1>0, <1>6, <2>1, <2>2, SaveStep DEF PublishReplyLost, Labels, RunGood
<1>7. CASE FinishPublishing(r)
  <2>1. mem[r].scan \in live
    BY <1>0, <1>7 DEF FinishPublishing, RunGood
  <2>2. /\ Transition(mem[r], "published") \in ManifestRecord
        /\ Good(Transition(mem[r], "published"), approvals, live)
    BY <1>0, <2>1, TransitionGood DEF States
  <2> QED
    BY <1>0, <1>7, <2>2, SaveStep DEF FinishPublishing, Labels, RunGood
<1>8. CASE PublishFails(r)
  <2> DEFINE stage == IF pc[r] = "finish" THEN "syndicate" ELSE "publish"
  <2>1. stage \in FailureStages /\ RetryStateForFailureStage[stage] \in States
    BY RetryStates DEF FailureStages
  <2>2. RetryStateForFailureStage[stage] = "published" => mem[r].scan \in live
    BY <1>0, RetryStates DEF RunGood
  <2>3. Save(r, RecordFailure(mem[r], stage, RetryStateForFailureStage[stage]), "report")
        /\ UNCHANGED <<tuiVars, scans, approvals, live>>
    BY <1>8 DEF PublishFails
  <2> HIDE DEF stage
  <2>4. /\ RecordFailure(mem[r], stage, RetryStateForFailureStage[stage]) \in ManifestRecord
        /\ Good(RecordFailure(mem[r], stage, RetryStateForFailureStage[stage]),
                approvals, live)
    BY <1>0, <2>1, <2>2, RecordFailureGood
  <2> QED
    BY <1>0, <2>3, <2>4, SaveStep DEF Labels, RunGood
<1>9. CASE Archive(r)
  <2>1. manifest \in ManifestRecord /\ Good(manifest, approvals, live)
    BY DEF TypeOK, TuiInv, FileInv
  <2>2. Gone \in ManifestRecord /\ Good(Gone, approvals, live)
    BY GoneIsGood
  <2>3. \A m : RunGood(m, "report", live) /\ "report" \in Labels
    BY DEF RunGood, Labels
  <2>4. UNCHANGED <<tuiVars, scans, approvals, live>>
    BY <1>9 DEF Archive
  <2>5. CASE UNCHANGED <<manifest, mem>> /\ Go(r, "report")
    BY <2>3, <2>4, <2>5, GoStep
  <2>6. CASE Save(r, Gone, "report")
    BY <1>0, <2>2, <2>3, <2>4, <2>6, SaveStep
  <2>7. CASE /\ manifest.state = "published"
             /\ Save(r, RecordFailure(manifest, "archive", "published"), "report")
    <3>1. /\ RecordFailure(manifest, "archive", "published") \in ManifestRecord
          /\ Good(RecordFailure(manifest, "archive", "published"), approvals, live)
      <4>1. manifest.scan \in live
        BY <2>1, <2>7 DEF Good
      <4> QED
        BY <2>1, <4>1, RecordFailureGood DEF States, FailureStages
    <3> QED
      BY <1>0, <2>3, <2>4, <2>7, <3>1, SaveStep
  <2> QED
    BY <1>9, <2>5, <2>6, <2>7 DEF Archive
<1> QED
  BY <1>1, <1>2, <1>3, <1>5, <1>6, <1>7, <1>8, <1>9 DEF PublishStep

-----------------------------------------------------------------------------
(* Keys and messages.                                                      *)

(* The screen and the file get good copies; at most one run moves on.      *)
OneGoes ==
  \E q \in Runs : \E label \in {"idle", "read", "scan", "archive"} :
    Go(q, label) /\ UNCHANGED mem

LEMMA StartOneGoes ==
  ASSUME NEW kind \in {Pipes, Pubs}, NEW label \in {"read", "scan", "archive"},
         StartOne(kind, label)
  PROVE  OneGoes
BY DEF StartOne, OneGoes, Runs

LEMMA PanelType ==
  ASSUME NEW m
  PROVE  PanelOf(m) \in {"pending", "dead", "queue", "none"}
BY DEF PanelOf

LEMMA ListedGood ==
  ASSUME NEW m \in ManifestRecord, NEW rv, NEW lv, Good(m, rv, lv)
  PROVE  Listed(m) \in ManifestRecord /\ Good(Listed(m), rv, lv)
BY GoneIsGood DEF Listed

LEMMA ScreenStep ==
  ASSUME TypeOK, TuiInv,
         manifest' \in ManifestRecord, Good(manifest', approvals', live),
         entry' \in ManifestRecord, Good(entry', approvals', live),
         editing' \in ManifestRecord, Good(editing', approvals', live),
         review' \in ManifestRecord, Good(review', approvals', live),
         panel' \in {"pending", "dead", "queue", "none"}, dialog' \in Dialogs,
         approvals \subseteq approvals', approvals' \subseteq Nat,
         UNCHANGED <<scans, live>>,
         UNCHANGED runVars \/ OneGoes
  PROVE  TypeOK' /\ TuiInv'
<1>1. mem' = mem
  BY DEF runVars, OneGoes
<1>2. /\ pc' \in [Runs -> Labels]
      /\ \A r \in Runs : pc'[r] = pc[r] \/ pc'[r] \in {"idle", "read", "scan", "archive"}
  BY DEF runVars, OneGoes, Go, TypeOK, Labels
<1>3. TypeOK'
  BY <1>1, <1>2 DEF TypeOK
<1>4. FileInv'
  BY DEF TuiInv, FileInv
<1>5. ScreenInv'
  BY DEF ScreenInv
<1>6. ASSUME NEW r \in Runs
      PROVE  Good(mem'[r], approvals', live') /\ RunGood(mem'[r], pc'[r], live')
  <2>1. Good(mem[r], approvals, live) /\ RunGood(mem[r], pc[r], live)
    BY DEF TuiInv, RunInv
  <2>2. Good(mem[r], approvals', live')
    BY <2>1, GoodGrows
  <2>3. RunGood(mem[r], pc'[r], live')
    BY <1>2, <2>1 DEF RunGood
  <2> QED
    BY <1>1, <2>2, <2>3
<1> QED
  BY <1>3, <1>4, <1>5, <1>6 DEF TuiInv, RunInv

(* What the screen shows of a post is good before and after a review.      *)
LEMMA Review ==
  ASSUME TypeOK, TuiInv
  PROVE  /\ entry \in ManifestRecord /\ Good(entry, approvals, live)
         /\ manifest \in ManifestRecord /\ Good(manifest, approvals, live)
         /\ editing \in ManifestRecord /\ Good(editing, approvals, live)
         /\ review \in ManifestRecord /\ Good(review, approvals, live)
         /\ panel \in {"pending", "dead", "queue", "none"} /\ dialog \in Dialogs
         /\ approvals \subseteq Nat /\ entry.scan \in Nat
         /\ mem \in [Runs -> ManifestRecord]
BY DEF TypeOK, TuiInv, FileInv, ScreenInv, ManifestRecord

LEMMA ApproveKeeps ==
  ASSUME TypeOK, TuiInv, Approve
  PROVE  TypeOK' /\ TuiInv'
<1> DEFINE m == [entry EXCEPT !.approved = TRUE]
           rv == approvals \cup {entry.scan}
<1>1. approvals \subseteq rv /\ rv \subseteq Nat /\ entry.scan \in rv /\ approvals' = rv
  BY Review DEF Approve
<1> HIDE DEF rv
<1>2. /\ Good(entry, rv, live) /\ Good(manifest, rv, live) /\ Good(editing, rv, live)
      /\ Good(review, rv, live)
  BY <1>1, Review, GoodGrows
<1>3. m \in ManifestRecord /\ Good(m, rv, live)
  BY <1>1, <1>2, Review, ApprovalGood
<1>4. /\ \/ Write(Transition(m, "approved")) /\ Show(manifest')
         \/ entry' = m /\ UNCHANGED <<manifest, panel>>
      /\ UNCHANGED <<editing, review, scans, live>> /\ dialog' \in Dialogs
      /\ StartOne(Pubs, "read") \/ UNCHANGED runVars
  BY Zenon DEF Approve, Answer, Dialogs
<1> HIDE DEF m
<1>5. Transition(m, "approved") \in ManifestRecord
      /\ Good(Transition(m, "approved"), rv, live)
  BY <1>3, TransitionGood DEF States
<1>6. UNCHANGED runVars \/ OneGoes
  BY <1>4, StartOneGoes
<1>7. CASE Write(Transition(m, "approved")) /\ Show(manifest')
  <2>1. manifest' \in ManifestRecord /\ Good(manifest', rv, live)
    BY <1>2, <1>5, <1>7, Review DEF Write
  <2> QED
    BY <1>1, <1>2, <1>4, <1>6, <1>7, <2>1, Review, PanelType, ListedGood, ScreenStep DEF Show
<1>8. CASE entry' = m /\ UNCHANGED <<manifest, panel>>
  BY <1>1, <1>2, <1>3, <1>4, <1>6, <1>8, Review, ScreenStep
<1> QED
  BY <1>4, <1>7, <1>8

LEMMA RejectKeeps ==
  ASSUME TypeOK, TuiInv, Reject
  PROVE  TypeOK' /\ TuiInv'
<1> DEFINE m == [entry EXCEPT !.approved = FALSE]
<1>1. m \in ManifestRecord /\ Good(m, approvals, live)
  BY Review, ApprovalGood
<1>2. /\ \/ Write(Transition(m, "rejected")) /\ Show(manifest')
         \/ entry' = m /\ UNCHANGED <<manifest, panel>>
      /\ UNCHANGED <<editing, review, runVars, scans, approvals, live>>
      /\ dialog' \in Dialogs
  BY Zenon DEF Reject, Answer, Dialogs
<1> HIDE DEF m
<1>3. Transition(m, "rejected") \in ManifestRecord
      /\ Good(Transition(m, "rejected"), approvals, live)
  BY <1>1, TransitionGood DEF States
<1>4. CASE Write(Transition(m, "rejected")) /\ Show(manifest')
  <2>1. manifest' \in ManifestRecord /\ Good(manifest', approvals, live)
    BY <1>3, <1>4, Review DEF Write
  <2> QED
    BY <1>2, <1>4, <2>1, Review, PanelType, ListedGood, ScreenStep DEF Show
<1>5. CASE entry' = m /\ UNCHANGED <<manifest, panel>>
  BY <1>1, <1>2, <1>5, Review, ScreenStep
<1> QED
  BY <1>2, <1>4, <1>5

LEMMA DequeueKeeps ==
  ASSUME TypeOK, TuiInv, dequeuePost
  PROVE  TypeOK' /\ TuiInv'
<1> DEFINE t == Transition(entry, "pending_review")
           m == [t EXCEPT !.approved = FALSE]
<1>1. t \in ManifestRecord /\ Good(t, approvals, live)
  BY Review, TransitionGood DEF States
<1>2. m = [entry EXCEPT !.state = "pending_review", !.approved = FALSE]
  BY Review DEF Transition, ManifestRecord
<1> HIDE DEF t
<1>3. m \in ManifestRecord /\ Good(m, approvals, live)
  BY <1>1, ApprovalGood
<1> HIDE DEF m
<1>4. Write(m) /\ Show(manifest')
      /\ UNCHANGED <<editing, dialog, review, runVars, scans, approvals, live>>
  BY <1>2 DEF dequeuePost, overlays
<1>5. manifest' \in ManifestRecord /\ Good(manifest', approvals, live)
  BY <1>3, <1>4, Review DEF Write
<1> QED
  BY <1>4, <1>5, Review, PanelType, ListedGood, ScreenStep DEF Show

LEMMA ReEnrichKeeps ==
  ASSUME TypeOK, TuiInv, reEnrich
  PROVE  TypeOK' /\ TuiInv'
<1>1. /\ Transition(entry, "validated") \in ManifestRecord
      /\ Good(Transition(entry, "validated"), approvals, live)
  BY Review, TransitionGood DEF States
<1>2. UNCHANGED runVars \/ OneGoes
  BY StartOneGoes DEF reEnrich
<1>3. /\ entry' = Transition(entry, "validated") /\ manifest' \in {manifest, entry'}
      /\ UNCHANGED <<panel, editing, dialog, review, scans, approvals, live>>
  BY DEF reEnrich, overlays
<1> QED
  BY <1>1, <1>2, <1>3, Review, ScreenStep

LEMMA RetryKeeps ==
  ASSUME TypeOK, TuiInv, retryDeadLetterPost
  PROVE  TypeOK' /\ TuiInv'
<1>1. PrepareRetry(entry) \in ManifestRecord /\ Good(PrepareRetry(entry), approvals, live)
  BY Review, PrepareRetryGood DEF retryDeadLetterPost
<1>2. entry' = PrepareRetry(entry) /\ manifest' \in {manifest, entry'}
  BY DEF retryDeadLetterPost
<1>3. UNCHANGED runVars \/ StartOne(Pubs, "read") \/ StartOne(Pubs, "archive")
      \/ StartOne(Pipes, "scan")
  BY DEF retryDeadLetterPost
<1>4. UNCHANGED <<panel, editing, dialog, review, scans, approvals, live>>
  BY DEF retryDeadLetterPost, overlays
<1>5. UNCHANGED runVars \/ OneGoes
  BY <1>3, StartOneGoes
<1> QED
  BY <1>1, <1>2, <1>4, <1>5, Review, ScreenStep

LEMMA DialogKeeps ==
  ASSUME TypeOK, TuiInv, OpenDialog \/ CloseDialog \/ publishAllQueued
  PROVE  TypeOK' /\ TuiInv'
<1>1. UNCHANGED <<manifest, panel, entry, editing, review, scans, approvals, live>>
  BY DEF OpenDialog, CloseDialog, publishAllQueued
<1>2. dialog' \in Dialogs
  BY DEF OpenDialog, CloseDialog, publishAllQueued, Answer, Dialogs
<1>3. UNCHANGED runVars \/ OneGoes
  BY StartOneGoes DEF OpenDialog, CloseDialog, publishAllQueued
<1> QED
  BY <1>1, <1>2, <1>3, Review, ScreenStep

LEMMA KeyKeeps ==
  ASSUME TypeOK, TuiInv, KeyPress
  PROVE  TypeOK' /\ TuiInv'
<1>1. CASE Approve
  BY <1>1, ApproveKeeps
<1>2. CASE Reject
  BY <1>2, RejectKeeps
<1>3. CASE toggleStory
  BY <1>3, Review, ScreenStep DEF toggleStory, Write, tuiVars, overlays
<1>4. CASE OpenEditor
  BY <1>4, Review, ScreenStep DEF OpenEditor
<1>5. CASE CloseEditor
  BY <1>5, Review, GoneIsGood, ScreenStep DEF CloseEditor
<1>6. CASE reEnrich
  BY <1>6, ReEnrichKeeps
<1>7. CASE dequeuePost
  BY <1>7, DequeueKeeps
<1>8. CASE publishSelected
  BY <1>8, Review, StartOneGoes, ScreenStep DEF publishSelected, tuiVars, overlays
<1>9. CASE RetryPrepared
  BY <1>9, Review, StartOneGoes, ScreenStep DEF RetryPrepared, tuiVars, overlays
<1>10. CASE retryDeadLetterPost
  BY <1>10, RetryKeeps
<1>11. CASE OpenDialog \/ CloseDialog \/ publishAllQueued
  BY <1>11, DialogKeeps
<1> QED
  BY <1>1, <1>2, <1>3, <1>4, <1>5, <1>6, <1>7, <1>8, <1>9, <1>10, <1>11
  DEF KeyPress

(* ppw review writes copies that are as good as those of the panels.       *)
LEMMA ReviewStep ==
  ASSUME TypeOK, TuiInv, UNCHANGED ReviewVars,
         manifest' \in ManifestRecord, Good(manifest', approvals', live),
         review' \in ManifestRecord, Good(review', approvals', live),
         approvals \subseteq approvals', approvals' \subseteq Nat
  PROVE  TypeOK' /\ TuiInv'
<1>1. /\ panel' = panel /\ entry' = entry /\ editing' = editing /\ dialog' = dialog
      /\ UNCHANGED runVars /\ UNCHANGED <<scans, live>>
  BY DEF ReviewVars, overlays
<1>2. Good(entry', approvals', live) /\ Good(editing', approvals', live)
  BY <1>1, Review, GoodGrows
<1> QED
  BY <1>1, <1>2, Review, ScreenStep

LEMMA DecideKeeps ==
  ASSUME TypeOK, TuiInv, NEW approved \in BOOLEAN,
         NEW state \in {"approved", "rejected"}, Decide(approved, state)
  PROVE  TypeOK' /\ TuiInv'
<1> DEFINE m == [review EXCEPT !.approved = approved]
<1>1. approvals \subseteq approvals' /\ approvals' \subseteq Nat
      /\ (approved => review.scan \in approvals')
  BY Review DEF Decide, ManifestRecord
<1>2. Good(review, approvals', live) /\ Good(manifest, approvals', live)
  BY <1>1, Review, GoodGrows
<1>3. m \in ManifestRecord /\ Good(m, approvals', live)
  BY <1>1, <1>2, Review, ApprovalGood
<1>4. /\ \/ Write(Transition(m, state)) /\ review' = Gone
         \/ review' = m /\ UNCHANGED manifest
      /\ UNCHANGED ReviewVars
  BY Zenon DEF Decide
<1> HIDE DEF m
<1>5. Transition(m, state) \in ManifestRecord /\ Good(Transition(m, state), approvals', live)
  BY <1>3, TransitionGood DEF States
<1>6. Gone \in ManifestRecord /\ Good(Gone, approvals', live)
  BY GoneIsGood
<1> QED
  BY <1>1, <1>2, <1>3, <1>4, <1>5, <1>6, Review, ReviewStep DEF Write

LEMMA ReviewKeeps ==
  ASSUME TypeOK, TuiInv, ReviewKey
  PROVE  TypeOK' /\ TuiInv'
<1>1. Gone \in ManifestRecord /\ Good(Gone, approvals, live)
  BY GoneIsGood
<1>2. CASE StartReview
  BY <1>2, Review, ReviewStep DEF StartReview
<1>3. CASE Decide(TRUE, "approved") \/ Decide(FALSE, "rejected")
  BY <1>3, DecideKeeps
<1>4. CASE ReviewEdit
  BY <1>4, Review, ReviewStep DEF ReviewEdit, Write
<1>5. CASE ReviewReEnrich
  <2>1. /\ Transition(review, "validated") \in ManifestRecord
        /\ Good(Transition(review, "validated"), approvals, live)
    BY Review, TransitionGood DEF States
  <2> QED
    BY <1>1, <1>5, <2>1, Review, ReviewStep DEF ReviewReEnrich, Write, Transition
<1>6. CASE LeaveReview
  <2>1. /\ UNCHANGED ReviewVars /\ manifest' = manifest
        /\ review' = Gone /\ approvals' = approvals
    BY <1>6 DEF LeaveReview
  <2> QED
    BY <1>1, <2>1, Review, ReviewStep
<1> QED
  BY <1>2, <1>3, <1>4, <1>5, <1>6 DEF ReviewKey

LEMMA UpdateKeeps ==
  ASSUME TypeOK, TuiInv, NEW r \in Runs, Update(r)
  PROVE  TypeOK' /\ TuiInv'
<1>1. OneGoes
  BY DEF Update, OneGoes
<1>2. /\ entry' = Listed(manifest) /\ panel' = PanelOf(manifest) /\ manifest' = manifest
      /\ UNCHANGED <<editing, dialog, review, scans, approvals, live>>
  BY DEF Update, Show, overlays
<1> QED
  BY <1>1, <1>2, Review, PanelType, ListedGood, ScreenStep

LEMMA RestartKeeps ==
  ASSUME TypeOK, TuiInv, Restart
  PROVE  TypeOK' /\ TuiInv'
<1>0. Listed(manifest) \in ManifestRecord /\ Good(Listed(manifest), approvals, live)
  BY Review, ListedGood
<1>1. Gone \in ManifestRecord /\ Good(Gone, approvals, live)
  BY GoneIsGood
<1>2. TypeOK'
  BY <1>1, <1>0, PanelType DEF Restart, Show, TypeOK, Labels, Dialogs
<1>3. FileInv' /\ ScreenInv'
  BY <1>1, <1>0 DEF Restart, Show, TuiInv, FileInv, ScreenInv
<1>4. RunInv'
  <2> SUFFICES ASSUME NEW r \in Runs
               PROVE  Good(mem'[r], approvals', live') /\ RunGood(mem'[r], pc'[r], live')
    BY DEF RunInv
  <2>1. approvals' = approvals /\ live' = live
    BY DEF Restart
  <2>2. Good(mem[r], approvals, live) /\ RunGood(mem[r], pc[r], live)
    BY DEF TuiInv, RunInv
  <2>3. CASE pc[r] = "command"
    <3>1. pc'[r] = pc[r] /\ mem'[r] = mem[r]
      BY <2>3 DEF Restart
    <3> QED
      BY <3>1, <2>1, <2>2
  <2>4. CASE pc[r] # "command"
    <3>1. pc'[r] = "idle" /\ mem'[r] = Gone
      BY <2>4 DEF Restart
    <3> QED
      BY <3>1, <2>1, <1>1 DEF RunGood
  <2> QED
    BY <2>3, <2>4
<1> QED
  BY <1>2, <1>3, <1>4 DEF TuiInv

LEMMA StutterKeeps ==
  ASSUME TypeOK, TuiInv, UNCHANGED vars
  PROVE  TypeOK' /\ TuiInv'
BY DEF vars, tuiVars, overlays, runVars, TypeOK, TuiInv, FileInv, ScreenInv, RunInv

LEMMA NextKeeps ==
  ASSUME TypeOK, TuiInv, [Next]_vars
  PROVE  TypeOK' /\ TuiInv'
<1>1. CASE KeyPress
  BY <1>1, KeyKeeps
<1>2. CASE Restart
  BY <1>2, RestartKeeps
<1>3. CASE \E r \in Runs : Update(r)
  BY <1>3, UpdateKeeps
<1>4. CASE \E r \in Pipes : PipelineStep(r)
  BY <1>4, PipelineKeeps DEF Runs
<1>5. CASE \E r \in Pubs : PublishStep(r)
  BY <1>5, PublishKeeps DEF Runs
<1>6. CASE UNCHANGED vars
  BY <1>6, StutterKeeps
<1>7. CASE ReviewKey
  BY <1>7, ReviewKeeps
<1> QED
  BY <1>1, <1>2, <1>3, <1>4, <1>5, <1>6, <1>7 DEF Next

-----------------------------------------------------------------------------
THEOREM InvariantHolds == Spec => [](TypeOK /\ TuiInv)
<1>1. TypeOK /\ TuiInv /\ [Next]_vars => (TypeOK /\ TuiInv)'
  BY NextKeeps
<1> QED
  BY InitGood, <1>1, PTL DEF Spec

(* Every variable has its type, for any number of runs and scans.          *)
THEOREM TypeCorrect == Spec => []TypeOK
BY InvariantHolds, PTL

(* However stale the copies that are written back, and however many runs   *)
(* overlap, nothing is posted but a scan that a panel, or ppw review, held *)
(* when the user approved it. What the user had seen of it by then is not  *)
(* said: a message may reload the panel behind the dialog                  *)
(* (app.go:190-196, 494-573, 935-938; publisher.go:133-140).               *)
THEOREM ApprovedContentGoesLive == Spec => []OnlyApprovedContentGoesLive
<1>1. TuiInv => OnlyApprovedContentGoesLive
  BY DEF TuiInv, FileInv, OnlyApprovedContentGoesLive
<1> QED
  BY InvariantHolds, <1>1, PTL

(* A manifest that says published, or failed after publishing, is right    *)
(* (app.go:750-821, manifest.go:300-400).                                  *)
THEOREM PublishedIsLive == Spec => []PublishedPostsAreLive
<1>1. TuiInv => PublishedPostsAreLive
  BY DEF TuiInv, FileInv, Good, EffectiveRetryState, PublishedPostsAreLive
<1> QED
  BY InvariantHolds, <1>1, PTL

=============================================================================
