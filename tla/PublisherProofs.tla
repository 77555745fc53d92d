-------------------------- MODULE PublisherProofs ---------------------------
(***************************************************************************)
(* Proofs about Publisher for any set of runs, any numbers of images, any  *)
(* options and any faults: type correctness; that a recorded carousel      *)
(* container has all its children and a post the manifest calls published  *)
(* is on the feed; that dry runs send nothing. With one run at a time: a   *)
(* published post is final and leaves no image in the bucket, the abstract *)
(* life cycle is implemented, and without crashes, lost replies and failed *)
(* rewrites nothing is posted twice, and a post in "publishing" has a run. *)
(*                                                                         *)
(* The safety arguments use that a run writes only its own copy of the     *)
(* manifest, and the file only with that copy: OwnCopy below. What is left *)
(* to show of each action is a fact about the one copy it writes.          *)
(***************************************************************************)
EXTENDS PublisherProperties, FiniteSetTheorems, TLAPS

(* The two tables of manifest.go stay within the pipeline states.          *)
LEMMA StatesType ==
  /\ \A s \in States : validTransitions[s] \subseteq States
  /\ \A g \in FailureStages : RetryStateForFailureStage[g] \in States
BY DEF States, FailureStages, validTransitions, RetryStateForFailureStage

(* An update of one field keeps a manifest a manifest.                     *)
LEMMA FieldTypes ==
  ASSUME NEW m \in ManifestRecord
  PROVE  /\ \A s \in States : [m EXCEPT !.state = s] \in ManifestRecord
         /\ \A f \in Failure \cup {NoFailure} :
              [m EXCEPT !.failure = f] \in ManifestRecord
         /\ \A u \in {"none", "real", "dry"} :
              [m EXCEPT !.urls = u] \in ManifestRecord
         /\ \A b \in BOOLEAN : [m EXCEPT !.cleaned = b] \in ManifestRecord
         /\ \A n \in Nat : [m EXCEPT !.children = n] \in ManifestRecord
         /\ \A i \in Int : [m EXCEPT !.parent = i] \in ManifestRecord
         /\ \A i \in Int : [m EXCEPT !.postID = i] \in ManifestRecord
         /\ \A b \in BOOLEAN : [m EXCEPT !.permalink = b] \in ManifestRecord
         /\ \A t \in Targets, v \in SyndicationStatus :
              [m EXCEPT !.synd[t] = v] \in ManifestRecord
<1>1. \A s \in States : [m EXCEPT !.state = s] \in ManifestRecord
  BY DEF ManifestRecord
<1>2. \A f \in Failure \cup {NoFailure} :
        [m EXCEPT !.failure = f] \in ManifestRecord
  BY DEF ManifestRecord
<1>3. \A u \in {"none", "real", "dry"} : [m EXCEPT !.urls = u] \in ManifestRecord
  BY DEF ManifestRecord
<1>4. \A b \in BOOLEAN : [m EXCEPT !.cleaned = b] \in ManifestRecord
  BY DEF ManifestRecord
<1>5. \A n \in Nat : [m EXCEPT !.children = n] \in ManifestRecord
  BY DEF ManifestRecord
<1>6. \A i \in Int : [m EXCEPT !.parent = i] \in ManifestRecord
  BY DEF ManifestRecord
<1>7. \A i \in Int : [m EXCEPT !.postID = i] \in ManifestRecord
  BY DEF ManifestRecord
<1>8. \A b \in BOOLEAN : [m EXCEPT !.permalink = b] \in ManifestRecord
  BY DEF ManifestRecord
<1>9. \A t \in Targets, v \in SyndicationStatus :
        [m EXCEPT !.synd[t] = v] \in ManifestRecord
  BY DEF ManifestRecord
<1> QED
  BY <1>1, <1>2, <1>3, <1>4, <1>5, <1>6, <1>7, <1>8, <1>9

(* Forgetting the artifacts of a failed attempt keeps a manifest one.      *)
LEMMA ResetType ==
  ASSUME NEW m \in ManifestRecord
  PROVE  resetPublishArtifactsForRetry(m) \in ManifestRecord
<1> DEFINE a == [m EXCEPT !.urls = "none"]
           b == [a EXCEPT !.cleaned = FALSE]
           c == [b EXCEPT !.children = 0]
           d == [c EXCEPT !.parent = NoId]
           e == [d EXCEPT !.postID = NoId]
           f == [e EXCEPT !.permalink = FALSE]
<1>0. NoId \in Int
  BY DEF NoId
<1>1. a \in ManifestRecord
  BY FieldTypes
<1>2. b \in ManifestRecord
  BY <1>1, FieldTypes
<1>3. c \in ManifestRecord
  BY <1>2, FieldTypes
<1>4. d \in ManifestRecord
  BY <1>0, <1>3, FieldTypes
<1>5. e \in ManifestRecord
  BY <1>0, <1>4, FieldTypes
<1>6. f \in ManifestRecord
  BY <1>5, FieldTypes
<1> QED
  BY <1>6 DEF resetPublishArtifactsForRetry

(* The manifest operators map manifests to manifests.                      *)
LEMMA ManifestType ==
  ASSUME NEW m \in ManifestRecord
  PROVE  /\ \A s \in States : Transition(m, s) \in ManifestRecord
         /\ \A g \in FailureStages :
              RecordFailure(m, g, RetryStateForFailureStage[g])
                \in ManifestRecord
         /\ CanPrepareRetry(m) => RetriedManifest(m) \in ManifestRecord
<1>1. \A s \in States : Transition(m, s) \in ManifestRecord
  BY FieldTypes DEF Transition
<1>2. ASSUME NEW g \in FailureStages
      PROVE  RecordFailure(m, g, RetryStateForFailureStage[g])
               \in ManifestRecord
  <2>1. [stage |-> g, retry |-> RetryStateForFailureStage[g]] \in Failure
    BY StatesType DEF Failure
  <2>2. "error" \in States
    BY DEF States
  <2> QED
    BY <2>1, <2>2 DEF RecordFailure, ManifestRecord
<1>3. ASSUME CanPrepareRetry(m)
      PROVE  RetriedManifest(m) \in ManifestRecord
  <2>1. EffectiveRetryState(m) \in States
    BY <1>3, StatesType DEF CanPrepareRetry, CanTransition, ManifestRecord
  <2>2. PrepareRetry(m) \in ManifestRecord
    BY <2>1 DEF PrepareRetry, ManifestRecord
  <2> QED
    BY <2>2, ResetType DEF RetriedManifest
<1> QED
  BY <1>1, <1>2, <1>3

(* Rewriting the file with a manifest keeps the types.                     *)
LEMMA SaveType ==
  ASSUME TypeOK, NEW r \in Runs, NEW m \in ManifestRecord,
         NEW written \in Labels, NEW failed \in Labels,
         Save(r, m, written, failed)
  PROVE  /\ disk' \in ManifestRecord
         /\ mem' \in [Runs -> ManifestRecord]
         /\ pc' \in [Runs -> Labels]
BY DEF TypeOK, Save, SetMem, GoTo

(* A step keeps the types when it keeps them in the variables of a run.    *)
LEMMA GoToType ==
  ASSUME TypeOK, NEW r \in Runs, NEW label \in Labels, GoTo(r, label)
  PROVE  pc' \in [Runs -> Labels]
BY DEF TypeOK, GoTo

LEMMA SetMemType ==
  ASSUME TypeOK, NEW r \in Runs, NEW m \in ManifestRecord, SetMem(r, m)
  PROVE  mem' \in [Runs -> ManifestRecord]
BY DEF TypeOK, SetMem

LEMMA SurvivorsType ==
  ASSUME TypeOK, NEW r \in Runs, NEW keys, NEW left \in Survivors(r, keys)
  PROVE  left \subseteq objects
BY DEF TypeOK, Survivors
-----------------------------------------------------------------------------
LEMMA EnterType ==
  ASSUME TypeOK, NEW r \in Runs, Enter(r)
  PROVE  TypeOK'
<1>1. CASE RetryFromError(r)
  <2>1. RetriedManifest(mem[r]) \in ManifestRecord
    BY <1>1, ManifestType DEF RetryFromError, RetryDue, TypeOK
  <2>2. disk' \in ManifestRecord /\ mem' \in [Runs -> ManifestRecord] /\ pc' \in [Runs -> Labels]
    BY <1>1, <2>1, SaveType DEF RetryFromError, Labels
  <2> QED
    BY <1>1, <2>2 DEF RetryFromError, TypeOK, worldVars
<1>2. CASE Refuse(r)
  BY <1>2, GoToType DEF Refuse, TypeOK, Labels, worldVars
<1>3. CASE RejectTooMany(r)
  BY <1>3, GoToType DEF RejectTooMany, TypeOK, Labels, worldVars
<1>4. CASE VerifyToken(r)
  BY <1>4, GoToType DEF VerifyToken, TypeOK, Labels, worldVars
<1> QED
  BY <1>1, <1>2, <1>3, <1>4 DEF Enter

LEMMA UploadType ==
  ASSUME TypeOK, NEW r \in Runs, UploadStep(r)
  PROVE  TypeOK'
<1>1. CASE SkipUpload(r)
  BY <1>1, GoToType DEF SkipUpload, TypeOK, Labels, worldVars
<1>2. CASE UploadImage(r)
  <2>1. idx[r] + 1 \in Nat /\ idx' \in [Runs -> Nat]
    BY <1>2 DEF UploadImage, TypeOK
  <2>2. objects' \subseteq Nat
    BY <1>2, <2>1 DEF UploadImage, TypeOK
  <2> QED
    BY <1>2, <2>1, <2>2 DEF UploadImage, TypeOK
<1>3. CASE PrepareFails(r)
  BY <1>3, GoToType DEF PrepareFails, TypeOK, Labels, worldVars
<1>4. CASE UploadFails(r)
  <2>0. idx[r] + 1 \in Nat
    BY DEF TypeOK
  <2>1. objects' \subseteq Nat
    <3>1. PICK left \in Survivors(r, 1..idx[r]) :
            objects' \in {left, left \cup {idx[r] + 1}}
      BY <1>4 DEF UploadFails
    <3>2. left \subseteq Nat
      BY SurvivorsType DEF TypeOK
    <3> QED
      BY <2>0, <3>1, <3>2
  <2>2. pc' \in [Runs -> Labels]
    BY <1>4, GoToType DEF UploadFails, Labels
  <2> QED
    BY <1>4, <2>1, <2>2 DEF UploadFails, TypeOK
<1>5. CASE RecordUpload(r)
  BY <1>5, SaveType, FieldTypes DEF RecordUpload, TypeOK, Labels, worldVars
<1>6. CASE PreflightFails(r)
  BY <1>6, GoToType DEF PreflightFails, TypeOK, Labels, worldVars
<1>7. CASE EnterPublishing(r)
  <2>1. Transition(mem[r], "publishing") \in ManifestRecord
    BY ManifestType DEF TypeOK, States
  <2>2. AfterPreflight(r) \in Labels
    BY DEF AfterPreflight, Labels
  <2>3. disk' \in ManifestRecord /\ mem' \in [Runs -> ManifestRecord] /\ pc' \in [Runs -> Labels]
    BY <1>7, <2>1, <2>2, SaveType DEF EnterPublishing, Labels
  <2> QED
    BY <1>7, <2>3 DEF EnterPublishing, TypeOK, worldVars
<1>8. CASE ResumePublishing(r)
  BY <1>8, GoToType DEF ResumePublishing, AfterPreflight, TypeOK, Labels, worldVars
<1> QED
  BY <1>1, <1>2, <1>3, <1>4, <1>5, <1>6, <1>7, <1>8 DEF UploadStep

LEMMA InstagramType ==
  ASSUME TypeOK, NEW r \in Runs, InstagramStep(r)
  PROVE  TypeOK'
<1>0. mem[r] \in ManifestRecord /\ mem[r].children + 1 \in Nat
  BY DEF TypeOK, ManifestRecord
<1>1. CASE InstagramError(r)
  BY <1>1, GoToType DEF InstagramError, TypeOK, Labels, worldVars
<1>2. CASE CreateChild(r)
  <2> DEFINE m == [mem[r] EXCEPT !.children = mem[r].children + 1]
  <2>1. m \in ManifestRecord
    BY <1>0, FieldTypes
  <2>2. Save(r, m, "children", "fail")
    BY <1>2 DEF CreateChild
  <2> HIDE DEF m
  <2> QED
    BY <1>2, <2>1, <2>2, SaveType DEF CreateChild, TypeOK, Labels, worldVars
<1>3. CASE ChildrenReady(r)
  BY <1>3, GoToType DEF ChildrenReady, TypeOK, Labels, worldVars
<1>4. CASE SkipParent(r)
  BY <1>4, GoToType DEF SkipParent, TypeOK, Labels, worldVars
<1>5. CASE CreateParent(r)
  <2> DEFINE m == [mem[r] EXCEPT !.parent = containers + 1]
  <2>0. containers + 1 \in Nat /\ containers + 1 \in Int
    BY DEF TypeOK
  <2>1. m \in ManifestRecord /\ containers' \in Nat
    BY <1>0, <1>5, <2>0, FieldTypes DEF CreateParent
  <2>2. Save(r, m, "pollParent", "fail")
    BY <1>5 DEF CreateParent
  <2> HIDE DEF m
  <2> QED
    BY <1>5, <2>1, <2>2, SaveType DEF CreateParent, TypeOK, Labels
<1>6. CASE ResumeParent(r)
  BY <1>6, GoToType DEF ResumeParent, TypeOK, Labels, worldVars
<1>7. CASE ParentReady(r)
  BY <1>7, GoToType DEF ParentReady, TypeOK, Labels, worldVars
<1>8. CASE Publish(r)
  <2>1. mem[r].parent \in Int /\ DryRunId \in Int
    BY <1>0 DEF ManifestRecord, DryRunId
  <2> DEFINE id == IF opts[r].dry THEN DryRunId ELSE mem[r].parent
  <2>2. id \in Int /\ feed' \subseteq Int
    BY <1>8, <2>1 DEF Publish, TypeOK
  <2>3. [mem[r] EXCEPT !.postID = id] \in ManifestRecord
    BY <1>0, <2>2, FieldTypes
  <2>4. mem' \in [Runs -> ManifestRecord]
    BY <1>8, <2>3, SetMemType DEF Publish
  <2>5. pc' \in [Runs -> Labels]
    BY <1>8, GoToType DEF Publish, Labels
  <2> QED
    BY <1>8, <2>2, <2>4, <2>5 DEF Publish, TypeOK
<1>9. CASE PublishReplyLost(r)
  <2>1. mem[r].parent \in Int
    BY <1>0 DEF ManifestRecord
  <2> QED
    BY <1>9, <2>1, GoToType DEF PublishReplyLost, TypeOK, Labels
<1>10. CASE RecordPost(r)
  <2>1. PICK link \in {mem[r].permalink, TRUE} :
          Save(r, [mem[r] EXCEPT !.permalink = link], "story", "fail")
    BY <1>10 DEF RecordPost
  <2>2. [mem[r] EXCEPT !.permalink = link] \in ManifestRecord
    <3>1. link \in BOOLEAN
      BY <1>0 DEF ManifestRecord
    <3> QED
      BY <1>0, <3>1, FieldTypes
  <2>3. disk' \in ManifestRecord /\ mem' \in [Runs -> ManifestRecord]
          /\ pc' \in [Runs -> Labels]
    BY <2>1, <2>2, SaveType DEF Labels
  <2> QED
    BY <1>10, <2>3 DEF RecordPost, TypeOK, worldVars
<1> QED
  BY <1>1, <1>2, <1>3, <1>4, <1>5, <1>6, <1>7, <1>8, <1>9, <1>10
     DEF InstagramStep

LEMMA ShareType ==
  ASSUME TypeOK, NEW r \in Runs, ShareStep(r)
  PROVE  TypeOK'
<1>0. mem[r] \in ManifestRecord
  BY DEF TypeOK
<1>1. AfterStory(r) \in Labels
  BY DEF AfterStory, Labels
<1>2. CASE NoStory(r)
  BY <1>1, <1>2, GoToType DEF NoStory, TypeOK, worldVars
<1>3. CASE PostStory(r)
  <2>1. disk' \in ManifestRecord /\ mem' \in [Runs -> ManifestRecord]
          /\ pc' \in [Runs -> Labels]
    BY <1>0, <1>1, <1>3, SaveType DEF PostStory
  <2> QED
    BY <1>3, <2>1 DEF PostStory, TypeOK
<1>4. CASE RecordShares(r)
  <2>1. PICK w \in {"fail", "cleanup"}, f \in {"fail", "cleanup"} :
          Save(r, mem[r], w, f)
    BY <1>4 DEF RecordShares
  <2>2. disk' \in ManifestRecord /\ mem' \in [Runs -> ManifestRecord]
          /\ pc' \in [Runs -> Labels]
    BY <1>0, <2>1, SaveType DEF Labels
  <2> QED
    BY <1>4, <2>2 DEF RecordShares, TypeOK, worldVars
<1>5. ASSUME NEW t \in Targets, NEW status \in SyndicationStatus,
             SetTarget(r, t, status)
      PROVE  mem' \in [Runs -> ManifestRecord] /\ pc' \in [Runs -> Labels]
  <2>1. [mem[r] EXCEPT !.synd[t] = status] \in ManifestRecord
    BY <1>0, FieldTypes
  <2>2. AfterTarget(t) \in Labels
    BY DEF AfterTarget, Labels
  <2> QED
    BY <1>5, <2>1, <2>2, SetMemType, GoToType DEF SetTarget
<1>6. ASSUME NEW t \in Targets, SkipTarget(r, t)
      PROVE  TypeOK'
  <2>1. AfterTarget(t) \in Labels
    BY DEF AfterTarget, Labels
  <2>2. mem' \in [Runs -> ManifestRecord] /\ pc' \in [Runs -> Labels]
    BY <1>0, <1>5, <1>6, <2>1, SetMemType, GoToType
       DEF SkipTarget, SyndicationStatus
  <2> QED
    BY <1>6, <2>2 DEF SkipTarget, TypeOK, worldVars
<1>7. ASSUME NEW t \in Targets, ShareFails(r, t)
      PROVE  TypeOK'
  <2>1. mem' \in [Runs -> ManifestRecord] /\ pc' \in [Runs -> Labels]
    BY <1>5, <1>7 DEF ShareFails, SyndicationStatus
  <2> QED
    BY <1>7, <2>1 DEF ShareFails, TypeOK, worldVars
<1>8. ASSUME NEW t \in Targets, Share(r, t)
      PROVE  TypeOK'
  <2>1. mem' \in [Runs -> ManifestRecord] /\ pc' \in [Runs -> Labels]
    BY <1>5, <1>8 DEF Share, SyndicationStatus
  <2>2. shares' \in [Targets -> Nat]
    BY <1>8 DEF Share, TypeOK
  <2> QED
    BY <1>8, <2>1, <2>2 DEF Share, TypeOK
<1> QED
  BY <1>2, <1>3, <1>4, <1>6, <1>7, <1>8 DEF ShareStep

LEMMA EndType ==
  ASSUME TypeOK, NEW r \in Runs, EndStep(r)
  PROVE  TypeOK'
<1>0. mem[r] \in ManifestRecord
  BY DEF TypeOK
<1>1. ASSUME NEW label \in Labels, DeleteImages(r, label)
      PROVE  TypeOK'
  <2>1. [mem[r] EXCEPT !.cleaned = TRUE] \in ManifestRecord
    BY <1>0, FieldTypes
  <2>2. mem' \in [Runs -> ManifestRecord] /\ pc' \in [Runs -> Labels]
    BY <1>1, <2>1, SetMemType, GoToType DEF DeleteImages
  <2>3. objects' \subseteq Nat
    BY <1>1, SurvivorsType DEF DeleteImages, TypeOK
  <2> QED
    BY <1>1, <2>2, <2>3 DEF DeleteImages, TypeOK
<1>2. ASSUME NEW m \in ManifestRecord, NEW label \in Labels,
             Save(r, m, label, label),
             UNCHANGED <<idx, stage, opts, starts, worldVars>>
      PROVE  TypeOK'
  <2>1. disk' \in ManifestRecord /\ mem' \in [Runs -> ManifestRecord]
          /\ pc' \in [Runs -> Labels]
    BY <1>2, SaveType
  <2> QED
    BY <1>2, <2>1 DEF TypeOK, worldVars
<1>3. CASE SkipCleanup(r)
  BY <1>3, GoToType DEF SkipCleanup, TypeOK, Labels, worldVars
<1>4. CASE Cleanup(r)
  BY <1>1, <1>4 DEF Cleanup, Labels
<1>5. CASE RecordCleanup(r)
  BY <1>0, <1>2, <1>5 DEF RecordCleanup, Labels
<1>6. CASE Finish(r)
  <2>1. Transition(mem[r], "published") \in ManifestRecord
    BY <1>0, ManifestType DEF States
  <2> QED
    BY <1>2, <1>6, <2>1 DEF Finish, Labels
<1>7. CASE FailCleanup(r)
  BY <1>1, <1>7 DEF FailCleanup, Labels
<1>8. CASE RecordFailCleanup(r)
  BY <1>0, <1>2, <1>8 DEF RecordFailCleanup, Labels
<1>9. CASE FailWithoutCleanup(r)
  BY <1>9, GoToType DEF FailWithoutCleanup, TypeOK, Labels, worldVars
<1>10. CASE SetError(r)
  <2>1. stage[r] \in FailureStages
    BY DEF TypeOK, FailureStages
  <2>2. RecordFailure(mem[r], stage[r], RetryStateForFailureStage[stage[r]])
          \in ManifestRecord
    BY <1>0, <2>1, ManifestType
  <2> QED
    BY <1>2, <1>10, <2>2 DEF SetError, Labels
<1> QED
  BY <1>3, <1>4, <1>5, <1>6, <1>7, <1>8, <1>9, <1>10 DEF EndStep

LEMMA InitType == Init => TypeOK
<1>1. ASSUME NEW n \in ImageCounts, NEW s \in States, NEW b \in BOOLEAN
      PROVE  NewManifest(n, s, b) \in ManifestRecord
  BY ConstantsAssumption
     DEF NewManifest, ManifestRecord, NoId, SyndicationStatus
<1>2. [stage |-> "enrich", retry |-> "validated"] \in Failure
  BY DEF Failure, FailureStages, States
<1>3. InitialManifests \subseteq ManifestRecord
  <2> SUFFICES ASSUME NEW m \in InitialManifests
               PROVE  m \in ManifestRecord
    OBVIOUS
  <2>1. PICK n \in ImageCounts :
          m \in {NewManifest(n, "approved", TRUE),
                NewManifest(n, "scheduled", TRUE),
                NewManifest(n, "pending_review", FALSE),
                NewManifest(n, "error", TRUE),
                [NewManifest(n, "error", FALSE) EXCEPT
                   !.failure = [stage |-> "enrich", retry |-> "validated"]]}
    BY DEF InitialManifests
  <2>2. NewManifest(n, "error", FALSE) \in ManifestRecord
    BY <1>1 DEF States
  <2>3. [NewManifest(n, "error", FALSE) EXCEPT
           !.failure = [stage |-> "enrich", retry |-> "validated"]]
          \in ManifestRecord
    BY <1>2, <2>2, FieldTypes
  <2> QED
    BY <1>1, <2>1, <2>3 DEF States
<1>4. ASSUME Init
      PROVE  TypeOK
  <2>1. disk \in ManifestRecord
    BY <1>3, <1>4 DEF Init
  <2>2. mem \in [Runs -> ManifestRecord] /\ pc \in [Runs -> Labels]
    BY <1>4, <2>1 DEF Init, Labels
  <2>3. idx \in [Runs -> Nat] /\ stage \in [Runs -> {"publish", "syndicate"}]
    BY <1>4 DEF Init
  <2>4. shares \in [Targets -> Nat]
    BY <1>4 DEF Init
  <2> QED
    BY <1>4, <2>1, <2>2, <2>3, <2>4 DEF Init, TypeOK
<1> QED
  BY <1>4

LEMMA TypeStep == TypeOK /\ [Next]_vars => TypeOK'
<1> SUFFICES ASSUME TypeOK, [Next]_vars
             PROVE  TypeOK'
  OBVIOUS
<1>1. ASSUME NEW r \in Runs, Start(r)
      PROVE  TypeOK'
  <2>1. mem' \in [Runs -> ManifestRecord] /\ pc' \in [Runs -> Labels]
    BY <1>1, SetMemType, GoToType DEF Start, TypeOK, Labels
  <2>2. idx' \in [Runs -> Nat] /\ stage' \in [Runs -> {"publish", "syndicate"}]
    BY <1>1 DEF Start, TypeOK
  <2>3. opts' \in [Runs -> OptionSets] /\ starts' \in Nat
    BY <1>1 DEF Start, TypeOK
  <2> QED
    BY <1>1, <2>1, <2>2, <2>3 DEF Start, TypeOK, worldVars
<1>2. ASSUME NEW r \in Runs, Run(r)
      PROVE  TypeOK'
  BY <1>2, EnterType, UploadType, InstagramType, ShareType, EndType DEF Run
<1>3. ASSUME NEW r \in Runs, Crash(r)
      PROVE  TypeOK'
  BY <1>3, GoToType DEF Crash, TypeOK, Labels, worldVars
<1>4. CASE UNCHANGED vars
  BY <1>4 DEF TypeOK, vars, runVars, worldVars
<1> QED
  BY <1>1, <1>2, <1>3, <1>4 DEF Next

(* Every copy of the manifest stays a manifest and every counter and id    *)
(* keeps its type, for any set of runs, options and faults.                *)
THEOREM TypeCorrect == Spec => []TypeOK
<1>1. Init => TypeOK
  BY InitType
<1>2. TypeOK /\ [Next]_vars => TypeOK'
  BY TypeStep
<1> QED
  BY <1>1, <1>2, PTL DEF Spec

-----------------------------------------------------------------------------
(* What a step of a run does to the copies of the manifest.                *)

(* Run r moves to label with m as its copy; the file is kept or becomes m. *)
OwnCopy(r, m, label) ==
  /\ mem' = [mem EXCEPT ![r] = m]
  /\ disk' \in {disk, m}
  /\ pc' = [pc EXCEPT ![r] = label]

(* A rewrite of the file, successful or not, only moves r to one of the    *)
(* two labels.                                                             *)
LEMMA SaveIsOwnCopy ==
  ASSUME NEW r \in Runs, NEW m, NEW written, NEW failed,
         Save(r, m, written, failed)
  PROVE  \E label \in {written, failed} : OwnCopy(r, m, label)
BY DEF Save, SetMem, GoTo, OwnCopy

(* A step that only moves the run on keeps its copy.                       *)
LEMMA GoToIsOwnCopy ==
  ASSUME TypeOK, NEW r \in Runs, NEW label, GoTo(r, label),
         UNCHANGED <<disk, mem>>
  PROVE  OwnCopy(r, mem[r], label)
BY DEF TypeOK, GoTo, OwnCopy

(* No manifest starts with a container, a post, or a publish failure.      *)
LEMMA FreshManifest ==
  ASSUME NEW m \in InitialManifests
  PROVE  /\ m.parent = NoId
         /\ m.state # "published"
         /\ m.failure.stage \in {"none", "enrich"}
         /\ m.failure.retry # "published"
<1>1. PICK n \in ImageCounts :
        m \in {NewManifest(n, "approved", TRUE),
              NewManifest(n, "scheduled", TRUE),
              NewManifest(n, "pending_review", FALSE),
              NewManifest(n, "error", TRUE),
              [NewManifest(n, "error", FALSE) EXCEPT
                 !.failure = [stage |-> "enrich", retry |-> "validated"]]}
  BY DEF InitialManifests
<1> QED
  BY <1>1 DEF NewManifest, NoFailure

-----------------------------------------------------------------------------
(* Complete carousels.                                                     *)

Complete(m) == m.images > 1 /\ m.parent # NoId => m.children = m.images

(* Before a real run creates the container, it has created all children.   *)
ChildrenFirst(m, label, dry) ==
  label = "parent" /\ ~dry /\ m.images > 1 => m.children = m.images

CarouselInv ==
  /\ Complete(disk)
  /\ \A r \in Runs : /\ Complete(mem[r])
                     /\ ChildrenFirst(mem[r], pc[r], opts[r].dry)

(* A step that writes a complete copy keeps the invariant.                 *)
LEMMA CarouselStep ==
  ASSUME TypeOK, CarouselInv, NEW r \in Runs, NEW m, NEW label,
         OwnCopy(r, m, label), Complete(m),
         ChildrenFirst(m, label, opts[r].dry), opts' = opts
  PROVE  CarouselInv'
<1>1. Complete(disk')
  BY DEF CarouselInv, OwnCopy
<1>2. ASSUME NEW q \in Runs
      PROVE  /\ Complete(mem'[q])
             /\ ChildrenFirst(mem'[q], pc'[q], opts'[q].dry)
  BY DEF CarouselInv, OwnCopy, TypeOK
<1> QED
  BY <1>1, <1>2 DEF CarouselInv, Complete, ChildrenFirst

(* Steps that leave images, children and container of the copy alone, and  *)
(* do not move on to the creation of the container.                        *)
LEMMA CarouselFrame ==
  ASSUME TypeOK, CarouselInv, NEW r \in Runs, NEW m, NEW label,
         OwnCopy(r, m, label), opts' = opts, label # "parent",
         m.images = mem[r].images, m.children = mem[r].children,
         m.parent = mem[r].parent
  PROVE  CarouselInv'
<1>1. Complete(m)
  BY DEF CarouselInv, Complete
<1> QED
  BY <1>1, CarouselStep DEF ChildrenFirst

LEMMA CarouselEnter ==
  ASSUME TypeOK, CarouselInv, NEW r \in Runs, Enter(r)
  PROVE  CarouselInv'
<1>1. CASE RetryFromError(r)
  <2> DEFINE m == RetriedManifest(mem[r])
  <2>1. \/ m = PrepareRetry(mem[r])
        \/ m = resetPublishArtifactsForRetry(PrepareRetry(mem[r]))
    BY DEF RetriedManifest
  <2>2. mem[r] \in ManifestRecord
    BY DEF TypeOK
  <2>3. PrepareRetry(mem[r]).images = mem[r].images
          /\ PrepareRetry(mem[r]).children = mem[r].children
          /\ PrepareRetry(mem[r]).parent = mem[r].parent
    BY <2>2 DEF PrepareRetry, ManifestRecord
  <2>4. resetPublishArtifactsForRetry(PrepareRetry(mem[r])).parent = NoId
    BY <2>2 DEF PrepareRetry, resetPublishArtifactsForRetry, ManifestRecord
  <2>5. Complete(m)
    BY <2>1, <2>3, <2>4 DEF Complete, CarouselInv
  <2>6. PICK label \in {"retried", "idle"} : OwnCopy(r, m, label)
    BY <1>1, SaveIsOwnCopy DEF RetryFromError
  <2> QED
    BY <1>1, <2>5, <2>6, CarouselStep DEF RetryFromError, ChildrenFirst
<1>2. CASE Refuse(r)
  BY <1>2, GoToIsOwnCopy, CarouselFrame DEF Refuse, worldVars
<1>3. CASE RejectTooMany(r)
  BY <1>3, GoToIsOwnCopy, CarouselFrame DEF RejectTooMany, worldVars
<1>4. CASE VerifyToken(r)
  BY <1>4, GoToIsOwnCopy, CarouselFrame DEF VerifyToken, worldVars
<1> QED
  BY <1>1, <1>2, <1>3, <1>4 DEF Enter

LEMMA CarouselUpload ==
  ASSUME TypeOK, CarouselInv, NEW r \in Runs, UploadStep(r)
  PROVE  CarouselInv'
<1>0. mem[r] \in ManifestRecord
  BY DEF TypeOK
<1>1. CASE SkipUpload(r)
  BY <1>1, GoToIsOwnCopy, CarouselFrame DEF SkipUpload, worldVars
<1>2. CASE UploadImage(r)
  BY <1>2 DEF UploadImage, CarouselInv
<1>3. CASE PrepareFails(r)
  BY <1>3, GoToIsOwnCopy, CarouselFrame DEF PrepareFails, worldVars
<1>4. CASE UploadFails(r)
  BY <1>4, GoToIsOwnCopy, CarouselFrame DEF UploadFails, worldVars
<1>5. CASE RecordUpload(r)
  <2> DEFINE m == [mem[r] EXCEPT !.urls =
                     IF opts[r].dry THEN "dry" ELSE "real"]
  <2>1. PICK label \in {"preflight", "fail"} : OwnCopy(r, m, label)
    BY <1>5, SaveIsOwnCopy DEF RecordUpload
  <2>2. m.images = mem[r].images /\ m.children = mem[r].children
          /\ m.parent = mem[r].parent
    BY <1>0 DEF ManifestRecord
  <2> QED
    BY <1>5, <2>1, <2>2, CarouselFrame DEF RecordUpload
<1>6. CASE PreflightFails(r)
  BY <1>6, GoToIsOwnCopy, CarouselFrame DEF PreflightFails, worldVars
<1>7. CASE EnterPublishing(r)
  <2> DEFINE m == Transition(mem[r], "publishing")
  <2>1. PICK label \in {AfterPreflight(r), "idle"} : OwnCopy(r, m, label)
    BY <1>7, SaveIsOwnCopy DEF EnterPublishing
  <2>2. m.images = mem[r].images /\ m.children = mem[r].children
          /\ m.parent = mem[r].parent
    BY <1>0 DEF ManifestRecord, Transition
  <2>3. Complete(m)
    BY <2>2 DEF Complete, CarouselInv
  <2>4. ChildrenFirst(m, label, opts[r].dry)
    BY <2>2 DEF ChildrenFirst, AfterPreflight
  <2> QED
    BY <1>7, <2>1, <2>3, <2>4, CarouselStep DEF EnterPublishing
<1>8. CASE ResumePublishing(r)
  <2>1. OwnCopy(r, mem[r], AfterPreflight(r))
    BY <1>8, GoToIsOwnCopy DEF ResumePublishing
  <2>2. ChildrenFirst(mem[r], AfterPreflight(r), opts[r].dry)
    BY DEF ChildrenFirst, AfterPreflight
  <2>3. Complete(mem[r])
    BY DEF CarouselInv
  <2> QED
    BY <1>8, <2>1, <2>2, <2>3, CarouselStep DEF ResumePublishing
<1> QED
  BY <1>1, <1>2, <1>3, <1>4, <1>5, <1>6, <1>7, <1>8 DEF UploadStep

LEMMA CarouselInstagram ==
  ASSUME TypeOK, CarouselInv, NEW r \in Runs, InstagramStep(r)
  PROVE  CarouselInv'
<1>0. mem[r] \in ManifestRecord
  BY DEF TypeOK
<1>1. CASE InstagramError(r)
  BY <1>1, GoToIsOwnCopy, CarouselFrame DEF InstagramError, worldVars
<1>2. CASE CreateChild(r)
  <2> DEFINE m == [mem[r] EXCEPT !.children = @ + 1]
  <2>1. PICK label \in {"children", "fail"} : OwnCopy(r, m, label)
    BY <1>2, SaveIsOwnCopy DEF CreateChild
  <2>2. m.images = mem[r].images /\ m.parent = mem[r].parent
    BY <1>0 DEF ManifestRecord
  <2>3. mem[r].children # mem[r].images
    BY <1>0, <1>2 DEF CreateChild, ManifestRecord
  <2>4. Complete(m)
    BY <2>2, <2>3 DEF Complete, CarouselInv
  <2> QED
    BY <1>2, <2>1, <2>4, CarouselStep DEF CreateChild, ChildrenFirst
<1>3. CASE ChildrenReady(r)
  <2>1. OwnCopy(r, mem[r], "parent")
    BY <1>3, GoToIsOwnCopy DEF ChildrenReady
  <2>2. ChildrenFirst(mem[r], "parent", opts[r].dry)
    BY <1>3 DEF ChildrenReady, ChildrenFirst
  <2>3. Complete(mem[r])
    BY DEF CarouselInv
  <2> QED
    BY <1>3, <2>1, <2>2, <2>3, CarouselStep DEF ChildrenReady
<1>4. CASE SkipParent(r)
  BY <1>4, GoToIsOwnCopy, CarouselFrame DEF SkipParent, worldVars
<1>5. CASE CreateParent(r)
  <2> DEFINE m == [mem[r] EXCEPT !.parent = containers + 1]
  <2>1. PICK label \in {"pollParent", "fail"} : OwnCopy(r, m, label)
    BY <1>5, SaveIsOwnCopy DEF CreateParent
  <2>2. m.images = mem[r].images /\ m.children = mem[r].children
    BY <1>0 DEF ManifestRecord
  <2>3. ChildrenFirst(mem[r], "parent", FALSE)
    BY <1>5 DEF CreateParent, CarouselInv, ChildrenFirst
  <2>4. Complete(m)
    BY <2>2, <2>3 DEF Complete, ChildrenFirst
  <2> QED
    BY <1>5, <2>1, <2>4, CarouselStep DEF CreateParent, ChildrenFirst
<1>6. CASE ResumeParent(r)
  BY <1>6, GoToIsOwnCopy, CarouselFrame DEF ResumeParent, worldVars
<1>7. CASE ParentReady(r)
  BY <1>7, GoToIsOwnCopy, CarouselFrame DEF ParentReady, worldVars
<1>8. CASE Publish(r)
  <2> DEFINE m == [mem[r] EXCEPT !.postID = IF opts[r].dry THEN DryRunId
                                            ELSE mem[r].parent]
  <2>1. OwnCopy(r, m, "recordPost")
    BY <1>8 DEF Publish, SetMem, GoTo, OwnCopy
  <2>2. m.images = mem[r].images /\ m.children = mem[r].children
          /\ m.parent = mem[r].parent
    BY <1>0 DEF ManifestRecord
  <2> QED
    BY <1>8, <2>1, <2>2, CarouselFrame DEF Publish
<1>9. CASE PublishReplyLost(r)
  BY <1>9, GoToIsOwnCopy, CarouselFrame DEF PublishReplyLost, worldVars
<1>10. CASE RecordPost(r)
  <2>1. PICK link \in {mem[r].permalink, TRUE} :
          Save(r, [mem[r] EXCEPT !.permalink = link], "story", "fail")
    BY <1>10 DEF RecordPost
  <2> DEFINE m == [mem[r] EXCEPT !.permalink = link]
  <2>2. PICK label \in {"story", "fail"} : OwnCopy(r, m, label)
    BY <2>1, SaveIsOwnCopy
  <2>3. m.images = mem[r].images /\ m.children = mem[r].children
          /\ m.parent = mem[r].parent
    BY <1>0 DEF ManifestRecord
  <2> QED
    BY <1>10, <2>2, <2>3, CarouselFrame DEF RecordPost
<1> QED
  BY <1>1, <1>2, <1>3, <1>4, <1>5, <1>6, <1>7, <1>8, <1>9, <1>10
     DEF InstagramStep

LEMMA CarouselShare ==
  ASSUME TypeOK, CarouselInv, NEW r \in Runs, ShareStep(r)
  PROVE  CarouselInv'
<1>0. mem[r] \in ManifestRecord
  BY DEF TypeOK
<1>1. AfterStory(r) # "parent"
  BY DEF AfterStory
<1>2. CASE NoStory(r)
  BY <1>1, <1>2, GoToIsOwnCopy, CarouselFrame DEF NoStory, worldVars
<1>3. CASE PostStory(r)
  BY <1>1, <1>3, SaveIsOwnCopy, CarouselFrame DEF PostStory
<1>4. CASE RecordShares(r)
  <2>1. PICK w \in {"fail", "cleanup"}, f \in {"fail", "cleanup"} :
          Save(r, mem[r], w, f)
    BY <1>4 DEF RecordShares
  <2> QED
    BY <1>4, <2>1, SaveIsOwnCopy, CarouselFrame DEF RecordShares
<1>5. ASSUME NEW t \in Targets, NEW status, SetTarget(r, t, status),
             UNCHANGED <<disk, opts>>
      PROVE  CarouselInv'
  <2> DEFINE m == [mem[r] EXCEPT !.synd[t] = status]
  <2>1. OwnCopy(r, m, AfterTarget(t)) /\ AfterTarget(t) # "parent"
    BY <1>5 DEF SetTarget, SetMem, GoTo, OwnCopy, AfterTarget
  <2>2. m.images = mem[r].images /\ m.children = mem[r].children
          /\ m.parent = mem[r].parent
    BY <1>0 DEF ManifestRecord
  <2> QED
    BY <1>5, <2>1, <2>2, CarouselFrame
<1>6. ASSUME NEW t \in Targets, SkipTarget(r, t)
      PROVE  CarouselInv'
  <2>1. CASE SetMem(r, mem[r]) /\ GoTo(r, AfterTarget(t))
    <3>1. OwnCopy(r, mem[r], AfterTarget(t)) /\ AfterTarget(t) # "parent"
      BY <1>6, <2>1 DEF SkipTarget, SetMem, GoTo, OwnCopy, AfterTarget
    <3> QED
      BY <1>6, <3>1, CarouselFrame DEF SkipTarget
  <2> QED
    BY <1>5, <1>6, <2>1 DEF SkipTarget
<1>7. ASSUME NEW t \in Targets, ShareFails(r, t)
      PROVE  CarouselInv'
  BY <1>5, <1>7 DEF ShareFails
<1>8. ASSUME NEW t \in Targets, Share(r, t)
      PROVE  CarouselInv'
  BY <1>5, <1>8 DEF Share
<1> QED
  BY <1>2, <1>3, <1>4, <1>6, <1>7, <1>8 DEF ShareStep

LEMMA CarouselEnd ==
  ASSUME TypeOK, CarouselInv, NEW r \in Runs, EndStep(r)
  PROVE  CarouselInv'
<1>0. mem[r] \in ManifestRecord
  BY DEF TypeOK
<1>1. ASSUME NEW m, NEW label, OwnCopy(r, m, label), label # "parent",
             opts' = opts,
             \/ m = mem[r]
             \/ m = [mem[r] EXCEPT !.cleaned = TRUE]
             \/ m = Transition(mem[r], "published")
             \/ m = RecordFailure(mem[r], stage[r],
                                  RetryStateForFailureStage[stage[r]])
      PROVE  CarouselInv'
  <2>1. m.images = mem[r].images /\ m.children = mem[r].children
          /\ m.parent = mem[r].parent
    BY <1>0, <1>1 DEF Transition, RecordFailure, ManifestRecord
  <2> QED
    BY <1>1, <2>1, CarouselFrame
<1>2. CASE SkipCleanup(r)
  BY <1>2, GoToIsOwnCopy, CarouselFrame DEF SkipCleanup, worldVars
<1>3. ASSUME NEW label, DeleteImages(r, label), label # "parent"
      PROVE  CarouselInv'
  BY <1>1, <1>3 DEF DeleteImages, SetMem, GoTo, OwnCopy
<1>4. CASE Cleanup(r)
  BY <1>3, <1>4 DEF Cleanup
<1>5. CASE RecordCleanup(r)
  BY <1>1, <1>5, SaveIsOwnCopy DEF RecordCleanup
<1>6. CASE Finish(r)
  BY <1>1, <1>6, SaveIsOwnCopy DEF Finish
<1>7. CASE FailCleanup(r)
  BY <1>3, <1>7 DEF FailCleanup
<1>8. CASE RecordFailCleanup(r)
  BY <1>1, <1>8, SaveIsOwnCopy DEF RecordFailCleanup
<1>9. CASE FailWithoutCleanup(r)
  BY <1>9, GoToIsOwnCopy, CarouselFrame DEF FailWithoutCleanup, worldVars
<1>10. CASE SetError(r)
  BY <1>1, <1>10, SaveIsOwnCopy DEF SetError
<1> QED
  BY <1>2, <1>4, <1>5, <1>6, <1>7, <1>8, <1>9, <1>10 DEF EndStep

LEMMA CarouselInvStep == TypeOK /\ CarouselInv /\ [Next]_vars => CarouselInv'
<1> SUFFICES ASSUME TypeOK, CarouselInv, [Next]_vars
             PROVE  CarouselInv'
  OBVIOUS
<1>1. ASSUME NEW r \in Runs, Start(r)
      PROVE  CarouselInv'
  <2>1. Complete(disk) /\ disk' = disk
    BY <1>1 DEF Start, CarouselInv
  <2>2. ASSUME NEW q \in Runs
        PROVE  /\ Complete(mem'[q])
               /\ ChildrenFirst(mem'[q], pc'[q], opts'[q].dry)
    <3>1. mem' = [mem EXCEPT ![r] = disk] /\ pc' = [pc EXCEPT ![r] = "begin"]
      BY <1>1 DEF Start, SetMem, GoTo
    <3>2. q # r => opts'[q] = opts[q]
      BY <1>1 DEF Start, TypeOK
    <3> QED
      BY <2>1, <3>1, <3>2 DEF TypeOK, CarouselInv, ChildrenFirst
  <2> QED
    BY <2>1, <2>2 DEF CarouselInv, Complete, ChildrenFirst
<1>2. ASSUME NEW r \in Runs, Run(r)
      PROVE  CarouselInv'
  BY <1>2, CarouselEnter, CarouselUpload, CarouselInstagram, CarouselShare,
     CarouselEnd DEF Run
<1>3. ASSUME NEW r \in Runs, Crash(r)
      PROVE  CarouselInv'
  BY <1>3, GoToIsOwnCopy, CarouselFrame DEF Crash
<1>4. CASE UNCHANGED vars
  BY <1>4 DEF CarouselInv, Complete, ChildrenFirst, vars, runVars, worldVars
<1> QED
  BY <1>1, <1>2, <1>3, <1>4 DEF Next

LEMMA CarouselInvInit == Init => CarouselInv
<1> SUFFICES ASSUME Init
             PROVE  CarouselInv
  OBVIOUS
<1>1. disk.parent = NoId
  BY FreshManifest DEF Init
<1>2. Complete(disk)
  BY <1>1 DEF Complete
<1> QED
  BY <1>2 DEF Init, CarouselInv, ChildrenFirst

(* A recorded carousel container means every child container was created   *)
(* and recorded first, for any number of images, whatever crashes, fails   *)
(* or overlaps (publisher.go:799-890).                                     *)
THEOREM CarouselsAreComplete == Spec => []RecordedCarouselIsComplete
<1>1. Init => CarouselInv
  BY CarouselInvInit
<1>2. TypeOK /\ CarouselInv /\ [Next]_vars => CarouselInv'
  BY CarouselInvStep
<1>3. CarouselInv => RecordedCarouselIsComplete
  BY DEF CarouselInv, Complete, RecordedCarouselIsComplete
<1> QED
  BY <1>1, <1>2, <1>3, TypeCorrect, PTL DEF Spec

-----------------------------------------------------------------------------
(* Published posts.                                                        *)

AfterPost == {"recordPost", "story", "facebook", "threads", "recordShares",
              "cleanup", "recordCleanup", "finish"}

Failing == {"fail", "recordFailCleanup", "setError"}

(* A manifest that is, or on retry will be, "published" names a post of f. *)
Recorded(m, f) ==
  /\ m.state = "published" => m.postID \in f
  /\ m.failure.stage = "syndicate" => m.postID \in f
  /\ m.failure.retry = "published" => m.postID \in f
  /\ m.failure.stage = "publish" => m.failure.retry = "approved"

(* A run past media_publish, or failing at syndication, has a post of f.   *)
RunLive(m, label, g, f) ==
  /\ label \in AfterPost => m.postID \in f
  /\ g = "syndicate" /\ label # "idle" => label \in Failing /\ m.postID \in f

LiveInv ==
  /\ Recorded(disk, feed)
  /\ \A r \in Runs : /\ Recorded(mem[r], feed)
                     /\ RunLive(mem[r], pc[r], stage[r], feed)

(* No run is a dry run: a dry run ends by writing "published" over a post  *)
(* it never made (publisher.go:276).                                       *)
NoDryRuns == \A o \in OptionSets : ~o.dry

(* Nothing is ever removed from the feed, so what was recorded stays so.   *)
LEMMA RecordedGrows ==
  ASSUME NEW m, NEW f, NEW g, f \subseteq g
  PROVE  /\ Recorded(m, f) => Recorded(m, g)
         /\ \A label, s : RunLive(m, label, s, f) => RunLive(m, label, s, g)
BY DEF Recorded, RunLive

LEMMA LiveStep ==
  ASSUME TypeOK, LiveInv, NEW r \in Runs, NEW m, NEW label,
         OwnCopy(r, m, label), feed \subseteq feed', Recorded(m, feed'),
         RunLive(m, label, stage'[r], feed'),
         \A q \in Runs \ {r} : stage'[q] = stage[q]
  PROVE  LiveInv'
<1>1. Recorded(disk', feed')
  BY RecordedGrows DEF LiveInv, OwnCopy
<1>2. ASSUME NEW q \in Runs
      PROVE  /\ Recorded(mem'[q], feed')
             /\ RunLive(mem'[q], pc'[q], stage'[q], feed')
  <2>1. CASE q = r
    BY <2>1 DEF OwnCopy, TypeOK
  <2>2. CASE q # r
    <3>1. mem'[q] = mem[q] /\ pc'[q] = pc[q] /\ stage'[q] = stage[q]
      BY <2>2 DEF OwnCopy, TypeOK
    <3> QED
      BY <3>1, RecordedGrows DEF LiveInv
  <2> QED
    BY <2>1, <2>2
<1> QED
  BY <1>1, <1>2 DEF LiveInv, Recorded, RunLive

(* Steps that keep state, failure and post id of the copy, and do not take *)
(* the run from before media_publish to after it.                          *)
LEMMA LiveFrame ==
  ASSUME TypeOK, LiveInv, NEW r \in Runs, NEW m, NEW label,
         OwnCopy(r, m, label), feed' = feed, stage' = stage,
         m.state = mem[r].state, m.failure = mem[r].failure,
         m.postID = mem[r].postID,
         \/ label = "idle"
         \/ pc[r] \in Failing /\ label \in Failing
         \/ /\ pc[r] \notin Failing \cup {"idle"}
            /\ label \in AfterPost => pc[r] \in AfterPost
  PROVE  LiveInv'
<1>1. Recorded(m, feed)
  BY DEF LiveInv, Recorded
<1>2. RunLive(m, label, stage[r], feed)
  BY DEF LiveInv, RunLive, AfterPost, Failing
<1> QED
  BY <1>1, <1>2, LiveStep

LEMMA LiveEnter ==
  ASSUME TypeOK, LiveInv, NEW r \in Runs, Enter(r)
  PROVE  LiveInv'
<1>1. CASE RetryFromError(r)
  <2> DEFINE m == RetriedManifest(mem[r])
             p == PrepareRetry(mem[r])
  <2>0. mem[r] \in ManifestRecord /\ mem[r].approved
    BY <1>1 DEF RetryFromError, RetryDue, TypeOK
  <2>1. /\ p.state = EffectiveRetryState(mem[r])
        /\ p.failure = NoFailure
        /\ p.postID = mem[r].postID
    BY <2>0 DEF PrepareRetry, ManifestRecord
  <2>2. p \in ManifestRecord
    BY <1>1, <2>0, StatesType
       DEF RetryFromError, RetryDue, CanPrepareRetry, CanTransition,
           PrepareRetry, ManifestRecord
  <2>3. resetPublishArtifactsForRetry(p).state = p.state
          /\ resetPublishArtifactsForRetry(p).failure = p.failure
    BY <2>2 DEF resetPublishArtifactsForRetry, ManifestRecord
  <2>4. ASSUME EffectiveFailureStage(mem[r]) = "publish"
        PROVE  Recorded(m, feed)
    <3>1. EffectiveRetryState(mem[r]) = "approved"
      BY <2>4 DEF EffectiveRetryState, EffectiveFailureStage, LiveInv,
                  Recorded, RetryStateForFailureStage, FailureStages
    <3>2. m.state = "approved" /\ m.failure = NoFailure
      BY <2>1, <2>3, <2>4, <3>1 DEF RetriedManifest
    <3> HIDE DEF m
    <3> QED
      BY <3>2 DEF Recorded, NoFailure
  <2>5. ASSUME EffectiveFailureStage(mem[r]) # "publish"
        PROVE  Recorded(m, feed)
    <3>1. mem[r].failure # NoFailure
      BY <2>0, <2>5 DEF EffectiveFailureStage
    <3>2. EffectiveRetryState(mem[r]) = mem[r].failure.retry
      BY <3>1 DEF EffectiveRetryState
    <3>3. m = p
      BY <2>5 DEF RetriedManifest
    <3>4. p.state = "published" => p.postID \in feed
      BY <2>1, <3>2 DEF LiveInv, Recorded
    <3> HIDE DEF m, p
    <3> QED
      BY <2>1, <3>3, <3>4 DEF Recorded, NoFailure
  <2>6. Recorded(m, feed)
    BY <2>4, <2>5
  <2>7. PICK label \in {"retried", "idle"} : OwnCopy(r, m, label)
    BY <1>1, SaveIsOwnCopy DEF RetryFromError
  <2>8. stage[r] # "syndicate"
    BY <1>1 DEF RetryFromError, RetryDue, LiveInv, RunLive, Failing
  <2> HIDE DEF m
  <2>9. feed' = feed /\ stage' = stage
    BY <1>1 DEF RetryFromError, worldVars
  <2>10. RunLive(m, label, stage[r], feed)
    BY <2>7, <2>8 DEF RunLive, AfterPost
  <2> QED
    BY <2>6, <2>7, <2>9, <2>10, LiveStep
<1>2. CASE Refuse(r)
  BY <1>2, GoToIsOwnCopy, LiveFrame
     DEF Refuse, worldVars, AfterPost, Failing
<1>3. CASE RejectTooMany(r)
  BY <1>3, GoToIsOwnCopy, LiveFrame
     DEF RejectTooMany, AtChecks, worldVars, AfterPost, Failing
<1>4. CASE VerifyToken(r)
  BY <1>4, GoToIsOwnCopy, LiveFrame
     DEF VerifyToken, AtChecks, worldVars, AfterPost, Failing
<1> QED
  BY <1>1, <1>2, <1>3, <1>4 DEF Enter

LEMMA LiveUpload ==
  ASSUME TypeOK, LiveInv, NEW r \in Runs, UploadStep(r)
  PROVE  LiveInv'
<1>0. mem[r] \in ManifestRecord
  BY DEF TypeOK
<1>1. CASE SkipUpload(r)
  BY <1>1, GoToIsOwnCopy, LiveFrame
     DEF SkipUpload, worldVars, AfterPost, Failing
<1>2. CASE UploadImage(r)
  BY <1>2 DEF UploadImage, LiveInv
<1>3. CASE PrepareFails(r)
  BY <1>3, GoToIsOwnCopy, LiveFrame
     DEF PrepareFails, UploadLoop, worldVars, AfterPost, Failing
<1>4. CASE UploadFails(r)
  BY <1>4, GoToIsOwnCopy, LiveFrame
     DEF UploadFails, UploadLoop, worldVars, AfterPost, Failing
<1>5. CASE RecordUpload(r)
  <2> DEFINE m == [mem[r] EXCEPT !.urls =
                     IF opts[r].dry THEN "dry" ELSE "real"]
  <2>1. PICK label \in {"preflight", "fail"} : OwnCopy(r, m, label)
    BY <1>5, SaveIsOwnCopy DEF RecordUpload
  <2>2. m.state = mem[r].state /\ m.failure = mem[r].failure
          /\ m.postID = mem[r].postID
    BY <1>0 DEF ManifestRecord
  <2> HIDE DEF m
  <2> QED
    BY <1>5, <2>1, <2>2, LiveFrame
       DEF RecordUpload, worldVars, AfterPost, Failing
<1>6. CASE PreflightFails(r)
  BY <1>6, GoToIsOwnCopy, LiveFrame
     DEF PreflightFails, worldVars, AfterPost, Failing
<1>7. CASE EnterPublishing(r)
  <2> DEFINE m == Transition(mem[r], "publishing")
  <2>1. PICK label \in {AfterPreflight(r), "idle"} : OwnCopy(r, m, label)
    BY <1>7, SaveIsOwnCopy DEF EnterPublishing
  <2>2. m.state = "publishing" /\ m.failure = mem[r].failure
          /\ m.postID = mem[r].postID
    BY <1>0 DEF ManifestRecord, Transition
  <2>3. Recorded(m, feed)
    BY <2>2 DEF Recorded, LiveInv
  <2>4. stage[r] # "syndicate"
    BY <1>7 DEF EnterPublishing, LiveInv, RunLive, Failing
  <2>5. RunLive(m, label, stage[r], feed)
    BY <2>4 DEF RunLive, AfterPost, AfterPreflight
  <2> HIDE DEF m
  <2> QED
    BY <1>7, <2>1, <2>3, <2>5, LiveStep DEF EnterPublishing, worldVars
<1>8. CASE ResumePublishing(r)
  BY <1>8, GoToIsOwnCopy, LiveFrame
     DEF ResumePublishing, AfterPreflight, worldVars, AfterPost, Failing
<1> QED
  BY <1>1, <1>2, <1>3, <1>4, <1>5, <1>6, <1>7, <1>8 DEF UploadStep

LEMMA LiveInstagram ==
  ASSUME NoDryRuns, TypeOK, LiveInv, NEW r \in Runs, InstagramStep(r)
  PROVE  LiveInv'
<1>0. mem[r] \in ManifestRecord /\ ~opts[r].dry
  BY DEF TypeOK, NoDryRuns
<1>1. CASE InstagramError(r)
  BY <1>1, GoToIsOwnCopy, LiveFrame
     DEF InstagramError, worldVars, AfterPost, Failing
<1>2. CASE CreateChild(r)
  <2> DEFINE m == [mem[r] EXCEPT !.children = @ + 1]
  <2>1. PICK label \in {"children", "fail"} : OwnCopy(r, m, label)
    BY <1>2, SaveIsOwnCopy DEF CreateChild
  <2>2. m.state = mem[r].state /\ m.failure = mem[r].failure
          /\ m.postID = mem[r].postID
    BY <1>0 DEF ManifestRecord
  <2> HIDE DEF m
  <2> QED
    BY <1>2, <2>1, <2>2, LiveFrame
       DEF CreateChild, worldVars, AfterPost, Failing
<1>3. CASE ChildrenReady(r)
  BY <1>3, GoToIsOwnCopy, LiveFrame
     DEF ChildrenReady, worldVars, AfterPost, Failing
<1>4. CASE SkipParent(r)
  BY <1>0, <1>4 DEF SkipParent
<1>5. CASE CreateParent(r)
  <2> DEFINE m == [mem[r] EXCEPT !.parent = containers + 1]
  <2>1. PICK label \in {"pollParent", "fail"} : OwnCopy(r, m, label)
    BY <1>5, SaveIsOwnCopy DEF CreateParent
  <2>2. m.state = mem[r].state /\ m.failure = mem[r].failure
          /\ m.postID = mem[r].postID
    BY <1>0 DEF ManifestRecord
  <2> HIDE DEF m
  <2> QED
    BY <1>5, <2>1, <2>2, LiveFrame DEF CreateParent, AfterPost, Failing
<1>6. CASE ResumeParent(r)
  BY <1>6, GoToIsOwnCopy, LiveFrame
     DEF ResumeParent, worldVars, AfterPost, Failing
<1>7. CASE ParentReady(r)
  BY <1>7, GoToIsOwnCopy, LiveFrame
     DEF ParentReady, worldVars, AfterPost, Failing
<1>8. CASE Publish(r)
  <2> DEFINE m == [mem[r] EXCEPT !.postID = mem[r].parent]
  <2>1. OwnCopy(r, m, "recordPost")
    BY <1>0, <1>8 DEF Publish, SetMem, GoTo, OwnCopy
  <2>2. feed' = feed \cup {mem[r].parent} /\ stage' = stage
    BY <1>0, <1>8 DEF Publish
  <2>3. m.state = mem[r].state /\ m.failure = mem[r].failure
          /\ m.postID = mem[r].parent
    BY <1>0 DEF ManifestRecord
  <2>4. Recorded(m, feed')
    BY <2>2, <2>3 DEF Recorded, LiveInv
  <2>5. stage[r] # "syndicate"
    BY <1>8 DEF Publish, LiveInv, RunLive, Failing
  <2>6. RunLive(m, "recordPost", stage[r], feed')
    BY <2>2, <2>3, <2>5 DEF RunLive
  <2> HIDE DEF m
  <2> QED
    BY <2>1, <2>2, <2>4, <2>6, LiveStep
<1>9. CASE PublishReplyLost(r)
  <2>1. OwnCopy(r, mem[r], "fail") /\ stage' = stage
    BY <1>9, GoToIsOwnCopy DEF PublishReplyLost
  <2>2. feed \subseteq feed'
    BY <1>9 DEF PublishReplyLost
  <2>3. Recorded(mem[r], feed')
    BY <2>2, RecordedGrows DEF LiveInv
  <2>4. stage[r] # "syndicate"
    BY <1>9 DEF PublishReplyLost, LiveInv, RunLive, Failing
  <2>5. RunLive(mem[r], "fail", stage[r], feed')
    BY <2>4 DEF RunLive, AfterPost
  <2> QED
    BY <2>1, <2>2, <2>3, <2>5, LiveStep
<1>10. CASE RecordPost(r)
  <2>1. PICK link \in {mem[r].permalink, TRUE} :
          Save(r, [mem[r] EXCEPT !.permalink = link], "story", "fail")
    BY <1>10 DEF RecordPost
  <2> DEFINE m == [mem[r] EXCEPT !.permalink = link]
  <2>2. PICK label \in {"story", "fail"} : OwnCopy(r, m, label)
    BY <2>1, SaveIsOwnCopy
  <2>3. m.state = mem[r].state /\ m.failure = mem[r].failure
          /\ m.postID = mem[r].postID
    BY <1>0 DEF ManifestRecord
  <2> HIDE DEF m
  <2> QED
    BY <1>10, <2>2, <2>3, LiveFrame
       DEF RecordPost, worldVars, AfterPost, Failing
<1> QED
  BY <1>1, <1>2, <1>3, <1>4, <1>5, <1>6, <1>7, <1>8, <1>9, <1>10
     DEF InstagramStep

LEMMA LiveShare ==
  ASSUME TypeOK, LiveInv, NEW r \in Runs, ShareStep(r)
  PROVE  LiveInv'
<1>0. mem[r] \in ManifestRecord
  BY DEF TypeOK
<1>1. AfterStory(r) \in AfterPost
  BY DEF AfterStory, AfterPost
<1>2. CASE NoStory(r)
  BY <1>1, <1>2, GoToIsOwnCopy, LiveFrame
     DEF NoStory, worldVars, AfterPost, Failing
<1>3. CASE PostStory(r)
  <2>1. OwnCopy(r, mem[r], AfterStory(r))
    BY <1>3, SaveIsOwnCopy DEF PostStory
  <2> QED
    BY <1>1, <1>3, <2>1, LiveFrame DEF PostStory, AfterPost, Failing
<1>4. CASE RecordShares(r)
  <2>1. PICK label \in {"fail", "cleanup"} : OwnCopy(r, mem[r], label)
    <3>1. PICK w \in {"fail", "cleanup"}, f \in {"fail", "cleanup"} :
            Save(r, mem[r], w, f)
      BY <1>4 DEF RecordShares
    <3> QED
      BY <3>1, SaveIsOwnCopy
  <2>2. /\ mem[r].postID \in feed
        /\ stage[r] # "syndicate"
        /\ Recorded(mem[r], feed)
    BY <1>4 DEF RecordShares, LiveInv, RunLive, AfterPost, Failing
  <2>3. /\ feed' = feed
        /\ stage' = [stage EXCEPT ![r] =
                       IF pc'[r] = "fail" THEN "syndicate" ELSE stage[r]]
    BY <1>4 DEF RecordShares, worldVars
  <2>4. pc'[r] = label
    BY <2>1 DEF OwnCopy, TypeOK
  <2>5. stage'[r] = "syndicate" => label = "fail"
    BY <2>2, <2>3, <2>4 DEF TypeOK
  <2>6. RunLive(mem[r], label, stage'[r], feed)
    BY <2>2, <2>5 DEF RunLive, Failing
  <2>7. \A q \in Runs \ {r} : stage'[q] = stage[q]
    BY <2>3 DEF TypeOK
  <2> QED
    BY <2>1, <2>2, <2>3, <2>6, <2>7, LiveStep
<1>5. ASSUME NEW t \in Targets, NEW status, pc[r] = t,
             SetTarget(r, t, status), UNCHANGED <<disk, stage, feed>>
      PROVE  LiveInv'
  <2> DEFINE m == [mem[r] EXCEPT !.synd[t] = status]
  <2>1. OwnCopy(r, m, AfterTarget(t))
    BY <1>5 DEF SetTarget, SetMem, GoTo, OwnCopy
  <2>2. m.state = mem[r].state /\ m.failure = mem[r].failure
          /\ m.postID = mem[r].postID
    BY <1>0 DEF ManifestRecord
  <2> HIDE DEF m
  <2> QED
    BY <1>5, <2>1, <2>2, LiveFrame
       DEF AfterTarget, Targets, AfterPost, Failing
<1>6. ASSUME NEW t \in Targets, SkipTarget(r, t)
      PROVE  LiveInv'
  <2>1. CASE SetMem(r, mem[r]) /\ GoTo(r, AfterTarget(t))
    <3>1. OwnCopy(r, mem[r], AfterTarget(t)) /\ pc[r] = t
      BY <1>6, <2>1 DEF SkipTarget, SetMem, GoTo, OwnCopy
    <3>2. feed' = feed /\ stage' = stage
      BY <1>6 DEF SkipTarget, worldVars
    <3> QED
      BY <3>1, <3>2, LiveFrame DEF AfterTarget, Targets, AfterPost, Failing
  <2> QED
    BY <1>5, <1>6, <2>1 DEF SkipTarget, worldVars
<1>7. ASSUME NEW t \in Targets, ShareFails(r, t)
      PROVE  LiveInv'
  BY <1>5, <1>7 DEF ShareFails, SharesNow, worldVars
<1>8. ASSUME NEW t \in Targets, Share(r, t)
      PROVE  LiveInv'
  BY <1>5, <1>8 DEF Share, SharesNow
<1> QED
  BY <1>2, <1>3, <1>4, <1>6, <1>7, <1>8 DEF ShareStep

LEMMA LiveEnd ==
  ASSUME TypeOK, LiveInv, NEW r \in Runs, EndStep(r)
  PROVE  LiveInv'
<1>0. mem[r] \in ManifestRecord
  BY DEF TypeOK
<1>1. CASE SkipCleanup(r)
  BY <1>1, GoToIsOwnCopy, LiveFrame
     DEF SkipCleanup, worldVars, AfterPost, Failing
<1>2. ASSUME NEW label, DeleteImages(r, label),
             \/ pc[r] \in Failing /\ label \in Failing
             \/ pc[r] \in AfterPost /\ label \in AfterPost
      PROVE  LiveInv'
  <2> DEFINE m == [mem[r] EXCEPT !.cleaned = TRUE]
  <2>1. OwnCopy(r, m, label) /\ feed' = feed /\ stage' = stage
    BY <1>2 DEF DeleteImages, SetMem, GoTo, OwnCopy
  <2>2. m.state = mem[r].state /\ m.failure = mem[r].failure
          /\ m.postID = mem[r].postID
    BY <1>0 DEF ManifestRecord
  <2> HIDE DEF m
  <2> QED
    BY <1>2, <2>1, <2>2, LiveFrame DEF AfterPost, Failing
<1>3. CASE Cleanup(r)
  BY <1>2, <1>3 DEF Cleanup, AfterPost
<1>4. CASE RecordCleanup(r)
  BY <1>4, SaveIsOwnCopy, LiveFrame
     DEF RecordCleanup, worldVars, AfterPost, Failing
<1>5. CASE Finish(r)
  <2> DEFINE m == Transition(mem[r], "published")
  <2>1. OwnCopy(r, m, "idle") /\ feed' = feed /\ stage' = stage
    BY <1>5, SaveIsOwnCopy DEF Finish, worldVars
  <2>2. mem[r].postID \in feed
    BY <1>5 DEF Finish, LiveInv, RunLive, AfterPost
  <2>3. m.failure = mem[r].failure /\ m.postID = mem[r].postID
    BY <1>0 DEF Transition, ManifestRecord
  <2>4. Recorded(m, feed)
    BY <2>2, <2>3 DEF Recorded, LiveInv
  <2> HIDE DEF m
  <2>5. RunLive(m, "idle", stage[r], feed)
    BY DEF RunLive, AfterPost
  <2> QED
    BY <2>1, <2>4, <2>5, LiveStep
<1>6. CASE FailCleanup(r)
  BY <1>2, <1>6 DEF FailCleanup, Failing
<1>7. CASE RecordFailCleanup(r)
  BY <1>7, SaveIsOwnCopy, LiveFrame
     DEF RecordFailCleanup, worldVars, AfterPost, Failing
<1>8. CASE FailWithoutCleanup(r)
  BY <1>8, GoToIsOwnCopy, LiveFrame
     DEF FailWithoutCleanup, worldVars, AfterPost, Failing
<1>9. CASE SetError(r)
  <2> DEFINE m == RecordFailure(mem[r], stage[r],
                                RetryStateForFailureStage[stage[r]])
  <2>1. OwnCopy(r, m, "idle") /\ feed' = feed /\ stage' = stage
    BY <1>9, SaveIsOwnCopy DEF SetError, worldVars
  <2>2. /\ m.failure = [stage |-> stage[r],
                        retry |-> RetryStateForFailureStage[stage[r]]]
        /\ m.state = "published" => mem[r].state = "published"
        /\ m.postID = mem[r].postID
    BY <1>0 DEF RecordFailure, ManifestRecord
  <2>3. /\ RetryStateForFailureStage["publish"] = "approved"
        /\ RetryStateForFailureStage["syndicate"] = "published"
    BY DEF RetryStateForFailureStage, FailureStages
  <2>4. stage[r] = "syndicate" => mem[r].postID \in feed
    BY <1>9 DEF SetError, LiveInv, RunLive
  <2>5. Recorded(m, feed)
    <3>1. CASE stage[r] = "publish"
      BY <2>2, <2>3, <3>1 DEF Recorded, LiveInv
    <3>2. CASE stage[r] = "syndicate"
      BY <2>2, <2>4, <3>2 DEF Recorded
    <3> QED
      BY <3>1, <3>2 DEF TypeOK
  <2> HIDE DEF m
  <2>6. RunLive(m, "idle", stage[r], feed)
    BY DEF RunLive, AfterPost
  <2> QED
    BY <2>1, <2>5, <2>6, LiveStep
<1> QED
  BY <1>1, <1>3, <1>4, <1>5, <1>6, <1>7, <1>8, <1>9 DEF EndStep

LEMMA LiveInvStep ==
  NoDryRuns /\ TypeOK /\ LiveInv /\ [Next]_vars => LiveInv'
<1> SUFFICES ASSUME NoDryRuns, TypeOK, LiveInv, [Next]_vars
             PROVE  LiveInv'
  OBVIOUS
<1>1. ASSUME NEW r \in Runs, Start(r)
      PROVE  LiveInv'
  <2>1. OwnCopy(r, disk, "begin") /\ feed' = feed
    BY <1>1 DEF Start, SetMem, GoTo, OwnCopy, worldVars
  <2>2. stage'[r] = "publish" /\ \A q \in Runs \ {r} : stage'[q] = stage[q]
    BY <1>1 DEF Start, TypeOK
  <2>3. Recorded(disk, feed) /\ RunLive(disk, "begin", "publish", feed)
    BY DEF LiveInv, RunLive, AfterPost
  <2> QED
    BY <2>1, <2>2, <2>3, LiveStep
<1>2. ASSUME NEW r \in Runs, Run(r)
      PROVE  LiveInv'
  BY <1>2, LiveEnter, LiveUpload, LiveInstagram, LiveShare, LiveEnd DEF Run
<1>3. ASSUME NEW r \in Runs, Crash(r)
      PROVE  LiveInv'
  BY <1>3, GoToIsOwnCopy, LiveFrame DEF Crash, worldVars
<1>4. CASE UNCHANGED vars
  BY <1>4 DEF LiveInv, Recorded, RunLive, vars, runVars, worldVars
<1> QED
  BY <1>1, <1>2, <1>3, <1>4 DEF Next

LEMMA LiveInvInit == Init => LiveInv
<1> SUFFICES ASSUME Init
             PROVE  LiveInv
  OBVIOUS
<1>1. Recorded(disk, feed)
  BY FreshManifest DEF Init, Recorded
<1> QED
  BY <1>1 DEF Init, LiveInv, RunLive, AfterPost

(* Whatever crashes, is lost, fails or overlaps: a manifest that says      *)
(* "published", or will be retried from there, names a post that is on the *)
(* feed, as long as no run is a dry run (publisher.go:276, 1018-1047,      *)
(* manifest.go:301-318).                                                   *)
THEOREM PublishedPostsAreLive ==
  ASSUME NoDryRuns
  PROVE  Spec => []PublishedPostIsLive
<1>1. Init => LiveInv
  BY LiveInvInit
<1>2. TypeOK /\ LiveInv /\ [Next]_vars => LiveInv'
  BY LiveInvStep
<1>3. LiveInv => PublishedPostIsLive
  BY DEF LiveInv, Recorded, PublishedPostIsLive
<1> QED
  BY <1>1, <1>2, <1>3, TypeCorrect, PTL DEF Spec

-----------------------------------------------------------------------------
(* Dry runs.                                                               *)

LEMMA DryUpload ==
  ASSUME NEW r \in Runs, opts[r].dry, UploadStep(r)
  PROVE  UNCHANGED worldVars
<1>1. CASE UploadImage(r)
  BY <1>1 DEF UploadImage, worldVars
<1>2. CASE UploadFails(r)
  BY <1>2 DEF UploadFails
<1> QED
  BY <1>1, <1>2 DEF UploadStep, SkipUpload, PrepareFails, RecordUpload,
     PreflightFails, EnterPublishing, ResumePublishing

LEMMA DryInstagram ==
  ASSUME NEW r \in Runs, opts[r].dry, InstagramStep(r)
  PROVE  UNCHANGED worldVars
<1>1. CASE Publish(r)
  BY <1>1 DEF Publish, worldVars
<1>2. CASE CreateChild(r) \/ CreateParent(r) \/ PublishReplyLost(r)
  BY <1>2 DEF CreateChild, CreateParent, PublishReplyLost
<1> QED
  BY <1>1, <1>2 DEF InstagramStep, InstagramError, ChildrenReady, SkipParent,
     ResumeParent, ParentReady, RecordPost

LEMMA DryShare ==
  ASSUME NEW r \in Runs, opts[r].dry, ShareStep(r)
  PROVE  UNCHANGED worldVars
<1>1. CASE \E t \in Targets : Share(r, t) \/ ShareFails(r, t)
  BY <1>1 DEF Share, ShareFails, SharesNow
<1>2. CASE PostStory(r)
  BY <1>2 DEF PostStory
<1> QED
  BY <1>1, <1>2 DEF ShareStep, NoStory, RecordShares, SkipTarget

(* The host of a dry run deletes nothing.                                  *)
LEMMA DryEnd ==
  ASSUME NEW r \in Runs, opts[r].dry, EndStep(r)
  PROVE  UNCHANGED worldVars
<1>1. ASSUME NEW label, DeleteImages(r, label)
      PROVE  UNCHANGED worldVars
  BY <1>1 DEF DeleteImages, Survivors, worldVars
<1> QED
  BY <1>1 DEF EndStep, Cleanup, FailCleanup, SkipCleanup, RecordCleanup,
     Finish, RecordFailCleanup, FailWithoutCleanup, SetError

(* A step that moves a run is a step of that run.                          *)
LEMMA OthersStay ==
  ASSUME TypeOK, NEW q \in Runs, Run(q), NEW r \in Runs, r # q
  PROVE  pc'[r] = pc[r] /\ idx'[r] = idx[r]
<1>1. CASE Enter(q)
  BY <1>1 DEF Enter, RetryFromError, Refuse, RejectTooMany, VerifyToken, Save,
     GoTo, TypeOK
<1>2. CASE UploadStep(q)
  BY <1>2 DEF UploadStep, SkipUpload, UploadImage, PrepareFails, UploadFails,
     RecordUpload, PreflightFails, EnterPublishing, ResumePublishing, Save,
     GoTo, TypeOK
<1>3. CASE InstagramStep(q)
  BY <1>3 DEF InstagramStep, InstagramError, CreateChild, ChildrenReady,
     SkipParent, CreateParent, ResumeParent, ParentReady, Publish,
     PublishReplyLost, RecordPost, Save, GoTo, TypeOK
<1>4. CASE ShareStep(q)
  BY <1>4 DEF ShareStep, NoStory, PostStory, RecordShares, SkipTarget,
     ShareFails, Share, SetTarget, Save, GoTo, TypeOK
<1>5. CASE EndStep(q)
  BY <1>5 DEF EndStep, SkipCleanup, Cleanup, RecordCleanup, Finish,
     FailCleanup, RecordFailCleanup, FailWithoutCleanup, SetError,
     DeleteImages, Save, GoTo, TypeOK
<1> QED
  BY <1>1, <1>2, <1>3, <1>4, <1>5 DEF Run

LEMMA DryStep ==
  ASSUME TypeOK, [Next]_vars, NEW r \in Runs, opts[r].dry,
         pc'[r] # pc[r] \/ idx'[r] # idx[r]
  PROVE  UNCHANGED worldVars
<1>1. ASSUME NEW q \in Runs, Start(q) \/ Crash(q)
      PROVE  UNCHANGED worldVars
  BY <1>1 DEF Start, Crash
<1>2. ASSUME NEW q \in Runs, Run(q)
      PROVE  UNCHANGED worldVars
  <2>1. q = r
    BY <1>2, OthersStay
  <2>2. CASE Enter(r)
    BY <2>2 DEF Enter, RetryFromError, Refuse, RejectTooMany, VerifyToken
  <2> QED
    BY <1>2, <2>1, <2>2, DryUpload, DryInstagram, DryShare, DryEnd DEF Run
<1>3. CASE UNCHANGED vars
  BY <1>3 DEF vars
<1> QED
  BY <1>1, <1>2, <1>3 DEF Next

(* A dry run sends nothing, for any mixture of runs and any faults, and in *)
(* particular when it resumes a post whose containers a dead real run has  *)
(* recorded (publisher.go:744-890).                                        *)
THEOREM DryRunsSendNothing == Spec => DryRunSendsNothing
<1>1. TypeOK /\ [Next]_vars
        => [\A r \in Runs :
              opts[r].dry /\ (pc'[r] # pc[r] \/ idx'[r] # idx[r])
                => UNCHANGED worldVars]_vars
  BY DryStep
<1> QED
  BY <1>1, TypeCorrect, PTL DEF Spec, DryRunSendsNothing

-----------------------------------------------------------------------------
(* One run at a time. A step of a run, seen from the state it records:     *)
(* Moves lists all that a step can do to it, whatever the action.          *)

Before == {"begin", "retried"}

Posting == {"children", "parent", "pollParent"} \cup {"publish"} \cup AfterPost

Outside == <<feed, stories, shares>>

(* The recorded state is kept, and posts are made only while posting.      *)
Steady(r, m, label) ==
  /\ m.state = mem[r].state
  /\ label \in Posting => pc[r] \in Posting
  /\ label \notin Before \cup {"idle"} => pc[r] \notin Before
  /\ pc[r] \in Before => UNCHANGED disk
  /\ pc[r] \notin Posting => UNCHANGED Outside
  /\ feed \subseteq feed'

Retries(r, m, label) ==
  /\ pc[r] = "begin" /\ CanPrepareRetry(mem[r])
  /\ m.state = EffectiveRetryState(mem[r])
  /\ \/ label = "retried" /\ disk' = m
     \/ label = "idle" /\ disk' = disk

Admitted(r, m, label) ==
  /\ pc[r] \in Before /\ Publishable(mem[r])
  /\ m = mem[r] /\ disk' = disk /\ label \in {"upload", "fail"}

EntersPublishing(r, m, label) ==
  /\ pc[r] = "preflight"
  /\ \/ /\ mem[r].state = "approved" /\ m.state = "publishing"
        /\ \/ disk' = m
           \/ label = "idle" /\ disk' = disk
     \/ mem[r].state # "approved" /\ m = mem[r] /\ disk' = disk

Ends(r, m, label) ==
  /\ pc[r] \notin Before \cup {"idle"} /\ label = "idle"
  /\ m.state \in validTransitions[mem[r].state] \cup {mem[r].state}

Moves(r, m, label) ==
  /\ OwnCopy(r, m, label)
  /\ pc[r] # "idle"
  /\ m.images = mem[r].images
  /\ \/ Steady(r, m, label)
     \/ /\ UNCHANGED Outside
        /\ \/ Retries(r, m, label) \/ Admitted(r, m, label)
           \/ EntersPublishing(r, m, label) \/ Ends(r, m, label)

(* Steps that only go on, or only rewrite the file without a new state.    *)
LEMMA GoToMoves ==
  ASSUME TypeOK, NEW r \in Runs, NEW label, GoTo(r, label),
         UNCHANGED <<disk, mem>>, pc[r] # "idle",
         label \in Posting => pc[r] \in Posting,
         label \notin Before \cup {"idle"} => pc[r] \notin Before,
         pc[r] \notin Posting => UNCHANGED Outside,
         feed \subseteq feed'
  PROVE  \E m, l : Moves(r, m, l)
<1>1. OwnCopy(r, mem[r], label)
  BY GoToIsOwnCopy
<1>2. Moves(r, mem[r], label)
  BY <1>1 DEF Moves, Steady
<1> QED
  BY <1>2

LEMMA CopyMoves ==
  ASSUME TypeOK, NEW r \in Runs, NEW m, NEW label, OwnCopy(r, m, label),
         pc[r] \notin Before \cup {"idle"},
         m.state = mem[r].state, m.images = mem[r].images,
         label \in Posting => pc[r] \in Posting,
         pc[r] \notin Posting => UNCHANGED Outside,
         feed \subseteq feed'
  PROVE  \E n, l : Moves(r, n, l)
<1>1. Moves(r, m, label)
  BY DEF Moves, Steady
<1> QED
  BY <1>1

LEMMA SaveMoves ==
  ASSUME TypeOK, NEW r \in Runs, NEW m, NEW written, NEW failed,
         Save(r, m, written, failed),
         pc[r] \notin Before \cup {"idle"},
         m.state = mem[r].state, m.images = mem[r].images,
         written \in Posting => pc[r] \in Posting,
         failed \in Posting => pc[r] \in Posting,
         pc[r] \notin Posting => UNCHANGED Outside,
         feed \subseteq feed'
  PROVE  \E n, l : Moves(r, n, l)
<1>1. PICK label \in {written, failed} : OwnCopy(r, m, label)
  BY SaveIsOwnCopy
<1> QED
  BY <1>1, CopyMoves

LEMMA SaveOrNot ==
  ASSUME NEW r \in Runs, NEW m, NEW written, NEW failed,
         Save(r, m, written, failed)
  PROVE  \/ OwnCopy(r, m, written) /\ disk' = m
         \/ OwnCopy(r, m, failed) /\ disk' = disk
BY DEF Save, SetMem, GoTo, OwnCopy

LEMMA EnterMoves ==
  ASSUME TypeOK, NEW r \in Runs, Enter(r)
  PROVE  \E m, label : Moves(r, m, label)
<1>0. mem[r] \in ManifestRecord
  BY DEF TypeOK
<1>1. CASE RetryFromError(r)
  <2> DEFINE m == RetriedManifest(mem[r])
             p == PrepareRetry(mem[r])
  <2>1. /\ p.state = EffectiveRetryState(mem[r])
        /\ p.images = mem[r].images
    BY <1>0 DEF PrepareRetry, ManifestRecord
  <2>2. p \in ManifestRecord
    BY <1>1, <1>0, StatesType
       DEF RetryFromError, RetryDue, CanPrepareRetry, CanTransition,
           PrepareRetry, ManifestRecord
  <2>3. resetPublishArtifactsForRetry(p).state = p.state
          /\ resetPublishArtifactsForRetry(p).images = p.images
    BY <2>2 DEF resetPublishArtifactsForRetry, ManifestRecord
  <2>4. m.state = EffectiveRetryState(mem[r]) /\ m.images = mem[r].images
    BY <2>1, <2>3 DEF RetriedManifest
  <2>5. Save(r, m, "retried", "idle") /\ UNCHANGED Outside
    BY <1>1 DEF RetryFromError, worldVars, Outside
  <2>6. pc[r] = "begin" /\ CanPrepareRetry(mem[r])
    BY <1>1 DEF RetryFromError, RetryDue
  <2> HIDE DEF m
  <2>7. \/ OwnCopy(r, m, "retried") /\ disk' = m
        \/ OwnCopy(r, m, "idle") /\ disk' = disk
    BY <2>5, SaveOrNot
  <2>8. Moves(r, m, "retried") \/ Moves(r, m, "idle")
    BY <2>4, <2>5, <2>6, <2>7 DEF Moves, Retries
  <2> QED
    BY <2>8
<1>2. CASE Refuse(r)
  BY <1>2, GoToMoves DEF Refuse, AtChecks, worldVars, Outside, Posting, AfterPost
<1>3. ASSUME NEW label \in {"upload", "fail"}, GoTo(r, label), AtChecks(r),
             Publishable(mem[r]), UNCHANGED <<disk, mem, worldVars>>
      PROVE  \E m, l : Moves(r, m, l)
  <2>1. OwnCopy(r, mem[r], label)
    BY <1>3, GoToIsOwnCopy
  <2>2. Moves(r, mem[r], label)
    BY <1>3, <2>1 DEF Moves, Admitted, AtChecks, Before, worldVars, Outside
  <2> QED
    BY <2>2
<1>4. CASE RejectTooMany(r)
  BY <1>3, <1>4 DEF RejectTooMany
<1>5. CASE VerifyToken(r)
  <2>1. CASE GoTo(r, "upload")
    BY <1>3, <1>5, <2>1 DEF VerifyToken
  <2>2. CASE GoTo(r, "idle")
    BY <1>5, <2>2, GoToMoves
       DEF VerifyToken, AtChecks, worldVars, Outside, Posting, AfterPost
  <2> QED
    BY <1>5, <2>1, <2>2 DEF VerifyToken
<1> QED
  BY <1>1, <1>2, <1>4, <1>5 DEF Enter

LEMMA UploadMoves ==
  ASSUME TypeOK, NEW r \in Runs, UploadStep(r)
  PROVE  \E m, label : Moves(r, m, label)
<1> USE DEF Outside, Posting, AfterPost, Before, worldVars
<1>0. mem[r] \in ManifestRecord
  BY DEF TypeOK
<1>1. CASE SkipUpload(r)
  BY <1>1, GoToMoves DEF SkipUpload
<1>2. CASE UploadImage(r)
  <2>1. OwnCopy(r, mem[r], pc[r])
    BY <1>2 DEF UploadImage, OwnCopy, TypeOK
  <2> QED
    BY <1>2, <2>1, CopyMoves DEF UploadImage, UploadLoop
<1>3. CASE PrepareFails(r)
  BY <1>3, GoToMoves DEF PrepareFails, UploadLoop
<1>4. CASE UploadFails(r)
  BY <1>4, GoToMoves DEF UploadFails, UploadLoop
<1>5. CASE RecordUpload(r)
  <2> DEFINE m == [mem[r] EXCEPT !.urls = IF opts[r].dry THEN "dry" ELSE "real"]
  <2>1. m.state = mem[r].state /\ m.images = mem[r].images
    BY <1>0 DEF ManifestRecord
  <2>2. Save(r, m, "preflight", "fail")
    BY <1>5 DEF RecordUpload
  <2> HIDE DEF m
  <2> QED
    BY <1>5, <2>1, <2>2, SaveMoves DEF RecordUpload
<1>6. CASE PreflightFails(r)
  BY <1>6, GoToMoves DEF PreflightFails
<1>7. CASE EnterPublishing(r)
  <2> DEFINE m == Transition(mem[r], "publishing")
  <2>1. m.state = "publishing" /\ m.images = mem[r].images
    BY <1>0 DEF ManifestRecord, Transition
  <2>2. Save(r, m, AfterPreflight(r), "idle")
    BY <1>7 DEF EnterPublishing
  <2> HIDE DEF m
  <2>3. \/ OwnCopy(r, m, AfterPreflight(r)) /\ disk' = m
        \/ OwnCopy(r, m, "idle") /\ disk' = disk
    BY <2>2, SaveOrNot
  <2>4. Moves(r, m, AfterPreflight(r)) \/ Moves(r, m, "idle")
    BY <1>7, <2>1, <2>3 DEF Moves, EntersPublishing, EnterPublishing
  <2> QED
    BY <2>4
<1>8. CASE ResumePublishing(r)
  <2>1. OwnCopy(r, mem[r], AfterPreflight(r))
    BY <1>8, GoToIsOwnCopy DEF ResumePublishing
  <2>2. Moves(r, mem[r], AfterPreflight(r))
    BY <1>8, <2>1 DEF Moves, EntersPublishing, ResumePublishing
  <2> QED
    BY <2>2
<1> QED
  BY <1>1, <1>2, <1>3, <1>4, <1>5, <1>6, <1>7, <1>8 DEF UploadStep

LEMMA InstagramMoves ==
  ASSUME TypeOK, NEW r \in Runs, InstagramStep(r)
  PROVE  \E m, label : Moves(r, m, label)
<1> USE DEF Outside, Posting, AfterPost, Before, worldVars
<1>0. mem[r] \in ManifestRecord
  BY DEF TypeOK
<1>1. CASE InstagramError(r)
  BY <1>1, GoToMoves DEF InstagramError
<1>2. CASE CreateChild(r)
  <2> DEFINE m == [mem[r] EXCEPT !.children = @ + 1]
  <2>1. m.state = mem[r].state /\ m.images = mem[r].images
    BY <1>0 DEF ManifestRecord
  <2>2. Save(r, m, "children", "fail")
    BY <1>2 DEF CreateChild
  <2> HIDE DEF m
  <2> QED
    BY <1>2, <2>1, <2>2, SaveMoves DEF CreateChild
<1>3. CASE ChildrenReady(r)
  BY <1>3, GoToMoves DEF ChildrenReady
<1>4. CASE SkipParent(r)
  BY <1>4, GoToMoves DEF SkipParent
<1>5. CASE CreateParent(r)
  <2> DEFINE m == [mem[r] EXCEPT !.parent = containers + 1]
  <2>1. m.state = mem[r].state /\ m.images = mem[r].images
    BY <1>0 DEF ManifestRecord
  <2>2. Save(r, m, "pollParent", "fail")
    BY <1>5 DEF CreateParent
  <2> HIDE DEF m
  <2> QED
    BY <1>5, <2>1, <2>2, SaveMoves DEF CreateParent
<1>6. CASE ResumeParent(r)
  BY <1>6, GoToMoves DEF ResumeParent
<1>7. CASE ParentReady(r)
  BY <1>7, GoToMoves DEF ParentReady
<1>8. CASE Publish(r)
  <2> DEFINE m == [mem[r] EXCEPT !.postID = IF opts[r].dry THEN DryRunId
                                            ELSE mem[r].parent]
  <2>1. m.state = mem[r].state /\ m.images = mem[r].images
    BY <1>0 DEF ManifestRecord
  <2>2. OwnCopy(r, m, "recordPost")
    BY <1>8 DEF Publish, SetMem, GoTo, OwnCopy
  <2> HIDE DEF m
  <2> QED
    BY <1>8, <2>1, <2>2, CopyMoves DEF Publish
<1>9. CASE PublishReplyLost(r)
  BY <1>9, GoToMoves DEF PublishReplyLost
<1>10. CASE RecordPost(r)
  <2>1. PICK link : Save(r, [mem[r] EXCEPT !.permalink = link], "story", "fail")
    BY <1>10 DEF RecordPost
  <2> DEFINE m == [mem[r] EXCEPT !.permalink = link]
  <2>2. m.state = mem[r].state /\ m.images = mem[r].images
    BY <1>0 DEF ManifestRecord
  <2> HIDE DEF m
  <2>3. Save(r, m, "story", "fail")
    BY <2>1 DEF m
  <2> QED
    BY <1>10, <2>2, <2>3, SaveMoves DEF RecordPost
<1> QED
  BY <1>1, <1>2, <1>3, <1>4, <1>5, <1>6, <1>7, <1>8, <1>9, <1>10
     DEF InstagramStep

LEMMA ShareMoves ==
  ASSUME TypeOK, NEW r \in Runs, ShareStep(r)
  PROVE  \E m, label : Moves(r, m, label)
<1> USE DEF Outside, Posting, AfterPost, Before, worldVars
<1>0. mem[r] \in ManifestRecord
  BY DEF TypeOK
<1>1. CASE NoStory(r)
  BY <1>1, GoToMoves DEF NoStory
<1>2. CASE PostStory(r)
  BY <1>2, SaveMoves DEF PostStory
<1>3. CASE RecordShares(r)
  <2>1. PICK w \in {"fail", "cleanup"}, f \in {"fail", "cleanup"} :
          Save(r, mem[r], w, f)
    BY <1>3 DEF RecordShares
  <2> QED
    BY <1>3, <2>1, SaveMoves DEF RecordShares
<1>4. ASSUME NEW t \in Targets, NEW status, SetTarget(r, t, status), disk' = disk,
             pc[r] = t, feed' = feed
      PROVE  \E m, label : Moves(r, m, label)
  <2> DEFINE m == [mem[r] EXCEPT !.synd[t] = status]
  <2>1. m.state = mem[r].state /\ m.images = mem[r].images
    BY <1>0 DEF ManifestRecord
  <2>2. OwnCopy(r, m, AfterTarget(t))
    BY <1>4 DEF SetTarget, SetMem, GoTo, OwnCopy
  <2> HIDE DEF m
  <2> QED
    BY <1>4, <2>1, <2>2, CopyMoves DEF Targets
<1>5. ASSUME NEW t \in Targets, SkipTarget(r, t)
      PROVE  \E m, label : Moves(r, m, label)
  <2>1. CASE SetMem(r, mem[r]) /\ GoTo(r, AfterTarget(t))
    <3>1. OwnCopy(r, mem[r], AfterTarget(t))
      BY <1>5, <2>1 DEF SkipTarget, SetMem, GoTo, OwnCopy
    <3> QED
      BY <1>5, <3>1, CopyMoves DEF SkipTarget, Targets
  <2> QED
    BY <1>4, <1>5, <2>1 DEF SkipTarget
<1>6. ASSUME NEW t \in Targets, ShareFails(r, t) \/ Share(r, t)
      PROVE  \E m, label : Moves(r, m, label)
  BY <1>4, <1>6 DEF ShareFails, Share, SharesNow
<1> QED
  BY <1>1, <1>2, <1>3, <1>5, <1>6 DEF ShareStep

LEMMA EndMoves ==
  ASSUME TypeOK, NEW r \in Runs, EndStep(r)
  PROVE  \E m, label : Moves(r, m, label)
<1> USE DEF Outside, Posting, AfterPost, Before, worldVars
<1>0. mem[r] \in ManifestRecord
  BY DEF TypeOK
<1>1. CASE SkipCleanup(r)
  BY <1>1, GoToMoves DEF SkipCleanup
<1>2. ASSUME NEW next, DeleteImages(r, next), pc[r] \notin Before \cup {"idle"},
             next \in Posting => pc[r] \in Posting
      PROVE  \E m, label : Moves(r, m, label)
  <2> DEFINE m == [mem[r] EXCEPT !.cleaned = TRUE]
  <2>1. m.state = mem[r].state /\ m.images = mem[r].images
    BY <1>0 DEF ManifestRecord
  <2>2. OwnCopy(r, m, next)
    BY <1>2 DEF DeleteImages, SetMem, GoTo, OwnCopy
  <2> HIDE DEF m
  <2> QED
    BY <1>2, <2>1, <2>2, CopyMoves DEF DeleteImages
<1>3. CASE Cleanup(r) \/ FailCleanup(r)
  BY <1>2, <1>3 DEF Cleanup, FailCleanup
<1>4. CASE RecordCleanup(r)
  BY <1>4, SaveMoves DEF RecordCleanup
<1>5. CASE RecordFailCleanup(r)
  BY <1>5, SaveMoves DEF RecordFailCleanup
<1>6. CASE FailWithoutCleanup(r)
  BY <1>6, GoToMoves DEF FailWithoutCleanup
<1>7. ASSUME NEW m, Save(r, m, "idle", "idle"), pc[r] \in {"finish", "setError"},
             m.images = mem[r].images,
             m.state \in validTransitions[mem[r].state] \cup {mem[r].state},
             UNCHANGED worldVars
      PROVE  \E n, label : Moves(r, n, label)
  <2>1. OwnCopy(r, m, "idle")
    BY <1>7, SaveIsOwnCopy
  <2>2. Moves(r, m, "idle")
    BY <1>7, <2>1 DEF Moves, Ends
  <2> QED
    BY <2>2
<1>8. CASE Finish(r)
  <2> DEFINE m == Transition(mem[r], "published")
  <2>1. m.state = "published" /\ m.images = mem[r].images
    BY <1>0 DEF ManifestRecord, Transition
  <2>2. Save(r, m, "idle", "idle")
    BY <1>8 DEF Finish
  <2> HIDE DEF m
  <2> QED
    BY <1>7, <1>8, <2>1, <2>2 DEF Finish, CanTransition
<1>9. CASE SetError(r)
  <2> DEFINE m == RecordFailure(mem[r], stage[r], RetryStateForFailureStage[stage[r]])
  <2>1. m.state \in validTransitions[mem[r].state] \cup {mem[r].state}
          /\ m.images = mem[r].images
    BY <1>0 DEF ManifestRecord, RecordFailure, CanTransition
  <2>2. Save(r, m, "idle", "idle")
    BY <1>9 DEF SetError
  <2> HIDE DEF m
  <2> QED
    BY <1>7, <1>9, <2>1, <2>2 DEF SetError
<1> QED
  BY <1>1, <1>3, <1>4, <1>5, <1>6, <1>8, <1>9 DEF EndStep

LEMMA RunMoves ==
  ASSUME TypeOK, NEW r \in Runs, Run(r)
  PROVE  \E m, label : Moves(r, m, label)
BY EnterMoves, UploadMoves, InstagramMoves, ShareMoves, EndMoves DEF Run

The == CHOOSE q \in Runs : TRUE

(* The copy of a run that is not over has the state of the file d, and     *)
(* past the checks that state is approved or publishing.                   *)
Tracks(m, label, d) ==
  label # "idle" =>
    /\ m.state = d.state
    /\ label \notin Before => m.state \in {"approved", "publishing"}
    /\ label \in Posting => m.state = "publishing"

SoleInv ==
  /\ \A r \in Runs : mem[r].images = disk.images
  /\ ~Overlaps => \A r \in Runs : /\ pc[r] # "idle" => r = The
                                  /\ Tracks(mem[r], pc[r], disk)

LEMMA SoleStep ==
  ASSUME TypeOK, SoleInv, NEW r \in Runs, NEW m, NEW label,
         OwnCopy(r, m, label), m.images = mem[r].images,
         ~Overlaps => r = The /\ Tracks(m, label, disk')
  PROVE  SoleInv' /\ Overlaps' = Overlaps
<1>1. disk'.images = disk.images
  BY DEF SoleInv, OwnCopy
<1>2. Overlaps' = Overlaps
  BY <1>1 DEF Overlaps
<1>3. ASSUME NEW q \in Runs
      PROVE  /\ mem'[q].images = disk'.images
             /\ ~Overlaps /\ pc'[q] # "idle" => q = The
             /\ ~Overlaps => Tracks(mem'[q], pc'[q], disk')
  <2>1. CASE q = r
    <3>1. mem'[q] = m /\ pc'[q] = label
      BY <2>1 DEF OwnCopy, TypeOK
    <3> QED
      BY <1>1, <2>1, <3>1 DEF SoleInv
  <2>2. CASE q # r
    <3>1. mem'[q] = mem[q] /\ pc'[q] = pc[q]
      BY <2>2 DEF OwnCopy, TypeOK
    <3>2. ~Overlaps => pc[q] = "idle"
      BY <2>2 DEF SoleInv
    <3> QED
      BY <1>1, <3>1, <3>2 DEF SoleInv, Tracks
  <2> QED
    BY <2>1, <2>2
<1> QED
  BY <1>2, <1>3 DEF SoleInv

(* Before the checks the run may have any state, after them two.           *)
LEMMA MovesKeepTrack ==
  ASSUME TypeOK, SoleInv, NEW r \in Runs, NEW m, NEW label,
         Moves(r, m, label), ~Overlaps
  PROVE  r = The /\ Tracks(m, label, disk')
<1>1. r = The /\ Tracks(mem[r], pc[r], disk) /\ pc[r] # "idle"
  BY DEF SoleInv, Moves
<1>2. disk' \in {disk, m}
  BY DEF Moves, OwnCopy
<1>3. CASE Steady(r, m, label)
  BY <1>1, <1>2, <1>3 DEF Steady, Tracks, Before, Posting, AfterPost
<1>4. CASE Retries(r, m, label)
  BY <1>1, <1>4 DEF Retries, Tracks, Before, Posting, AfterPost
<1>5. CASE Admitted(r, m, label)
  BY <1>1, <1>5 DEF Admitted, Publishable, Tracks, Before, Posting, AfterPost
<1>6. CASE EntersPublishing(r, m, label)
  BY <1>1, <1>2, <1>6 DEF EntersPublishing, Tracks, Before, Posting, AfterPost
<1>7. CASE Ends(r, m, label)
  BY <1>1, <1>7 DEF Ends, Tracks
<1> QED
  BY <1>1, <1>3, <1>4, <1>5, <1>6, <1>7 DEF Moves

LEMMA StartsAlone ==
  ASSUME TypeOK, SoleInv, NEW r \in Runs, Start(r)
  PROVE  SoleInv' /\ Overlaps' = Overlaps /\ UNCHANGED <<disk, Outside>>
<1>1. OwnCopy(r, disk, "begin") /\ disk' = disk
  BY DEF Start, SetMem, GoTo, OwnCopy
<1>2. ~Overlaps => r = The
  BY DEF Start, MayStart, Overlaps, The
<1>3. disk.images = mem[r].images
  BY DEF SoleInv
<1>4. Tracks(disk, "begin", disk')
  BY <1>1 DEF Tracks, Before, Posting, AfterPost
<1> QED
  BY <1>1, <1>2, <1>3, <1>4, SoleStep DEF Start, worldVars, Outside

LEMMA CrashesAlone ==
  ASSUME TypeOK, SoleInv, NEW r \in Runs, Crash(r)
  PROVE  SoleInv' /\ Overlaps' = Overlaps /\ UNCHANGED <<disk, Outside>>
<1>1. OwnCopy(r, mem[r], "idle") /\ pc[r] # "idle"
  BY GoToIsOwnCopy DEF Crash
<1>2. ~Overlaps => r = The
  BY <1>1 DEF SoleInv
<1> QED
  BY <1>1, <1>2, SoleStep DEF Crash, Tracks, worldVars, Outside

LEMMA SoleInvStep == TypeOK /\ SoleInv /\ [Next]_vars => SoleInv'
<1> SUFFICES ASSUME TypeOK, SoleInv, [Next]_vars
             PROVE  SoleInv'
  OBVIOUS
<1>1. ASSUME NEW r \in Runs, Run(r)
      PROVE  SoleInv'
  <2>1. PICK m, label : Moves(r, m, label)
    BY <1>1, RunMoves
  <2>2. OwnCopy(r, m, label) /\ m.images = mem[r].images
    BY <2>1 DEF Moves
  <2> QED
    BY <2>1, <2>2, MovesKeepTrack, SoleStep
<1>2. CASE UNCHANGED vars
  BY <1>2 DEF SoleInv, Overlaps, Tracks, vars, runVars
<1> QED
  BY <1>1, <1>2, StartsAlone, CrashesAlone DEF Next

LEMMA SoleInvInit == Init => SoleInv
BY DEF Init, SoleInv, Tracks

(* What a step may do to a post that the file calls published: nothing.    *)
LEMMA FinalStep ==
  ASSUME TypeOK, SoleInv, [Next]_vars, disk.state = "published", ~Overlaps
  PROVE  UNCHANGED <<disk, Outside>>
<1>1. ASSUME NEW r \in Runs, Run(r)
      PROVE  UNCHANGED <<disk, Outside>>
  <2>1. PICK m, label : Moves(r, m, label)
    BY <1>1, RunMoves
  <2>2. Tracks(mem[r], pc[r], disk) /\ pc[r] # "idle"
    BY <2>1 DEF SoleInv, Moves
  <2>3. mem[r].state = "published" /\ pc[r] \in Before
    BY <2>2 DEF Tracks
  <2> QED
    BY <2>1, <2>3 DEF Moves, Steady, Retries, CanPrepareRetry, Admitted, Publishable,
       EntersPublishing, Ends, Before, Posting, AfterPost
<1>2. CASE UNCHANGED vars
  BY <1>2 DEF vars, worldVars, Outside
<1> QED
  BY <1>1, <1>2, StartsAlone, CrashesAlone DEF Next

(* One run at a time, whatever crashes, fails or is lost: no later run     *)
(* changes a published post or posts it again (publisher.go:134-136).      *)
THEOREM PublishedStaysPublished == Spec => PublishedIsFinal
<1>1. Init => SoleInv
  BY SoleInvInit
<1>2. TypeOK /\ SoleInv /\ [Next]_vars => SoleInv'
  BY SoleInvStep
<1>3. TypeOK /\ SoleInv /\ [Next]_vars
        => [disk.state = "published" /\ ~Overlaps
              => UNCHANGED <<disk, feed, stories, shares>>]_vars
  BY FinalStep DEF Outside
<1> QED
  BY <1>1, <1>2, <1>3, TypeCorrect, PTL DEF Spec, PublishedIsFinal

-----------------------------------------------------------------------------
(* The refinement of PostLifecycle.                                        *)

(* A run's step follows the transition table, or makes a post while the    *)
(* file says "publishing".                                                 *)
LEMMA MovesFollowTable ==
  ASSUME TypeOK, SoleInv, NEW r \in Runs, NEW m, NEW label,
         Moves(r, m, label), ~Overlaps
  PROVE  \/ disk'.state = disk.state /\ UNCHANGED feed
         \/ disk'.state \in validTransitions[disk.state] /\ UNCHANGED feed
              /\ disk'.state # "archived"
         \/ disk.state = "publishing" /\ disk'.state = disk.state /\ feed \subseteq feed'
<1>1. Tracks(mem[r], pc[r], disk) /\ pc[r] # "idle" /\ disk' \in {disk, m}
  BY DEF SoleInv, Moves, OwnCopy
<1>2. mem[r].state = disk.state
  BY <1>1 DEF Tracks
<1>3. CASE Steady(r, m, label)
  BY <1>1, <1>2, <1>3 DEF Steady, Tracks, Outside
<1>4. CASE Retries(r, m, label) /\ UNCHANGED Outside
  BY <1>1, <1>2, <1>4
     DEF Retries, CanPrepareRetry, CanTransition, Outside, validTransitions, States
<1>5. CASE Admitted(r, m, label) /\ UNCHANGED Outside
  BY <1>5 DEF Admitted, Outside
<1>6. CASE EntersPublishing(r, m, label) /\ UNCHANGED Outside
  BY <1>1, <1>2, <1>6 DEF EntersPublishing, Outside, validTransitions, States
<1>7. CASE Ends(r, m, label) /\ UNCHANGED Outside
  <2>1. mem[r].state \in {"approved", "publishing"}
    BY <1>1, <1>7 DEF Ends, Tracks
  <2> QED
    BY <1>1, <1>2, <1>7, <2>1 DEF Ends, Outside, validTransitions, States
<1> QED
  BY <1>3, <1>4, <1>5, <1>6, <1>7 DEF Moves

LEMMA LifecycleStep ==
  ASSUME TypeOK, SoleInv, LiveInv', [Next]_vars
  PROVE  [Lifecycle!LNext]_(Lifecycle!lifecycleVars)
<1>0. disk'.state = "published" => feed' # {}
  BY DEF LiveInv, Recorded
<1>1. ASSUME Overlaps' = Overlaps, UNCHANGED <<disk, Outside>>
      PROVE  UNCHANGED Lifecycle!lifecycleVars
  BY <1>1 DEF Lifecycle!lifecycleVars, Outside
<1>2. ASSUME NEW r \in Runs, Run(r)
      PROVE  [Lifecycle!LNext]_(Lifecycle!lifecycleVars)
  <2>1. PICK m, label : Moves(r, m, label)
    BY <1>2, RunMoves
  <2>2. OwnCopy(r, m, label) /\ m.images = mem[r].images
    BY <2>1 DEF Moves
  <2>3. Overlaps' = Overlaps
    BY <2>1, <2>2, MovesKeepTrack, SoleStep
  <2>4. CASE Overlaps
    BY <2>3, <2>4 DEF Lifecycle!lifecycleVars
  <2>5. CASE ~Overlaps
    <3>1. CASE disk'.state = disk.state /\ UNCHANGED feed
      BY <2>3, <2>5, <3>1 DEF Lifecycle!lifecycleVars
    <3>2. CASE /\ disk'.state \in validTransitions[disk.state] /\ UNCHANGED feed
               /\ disk'.state # "archived"
      <4>1. Lifecycle!Advance
        BY <1>0, <2>3, <2>5, <3>2
           DEF Lifecycle!Advance, Lifecycle!validTransitions, Lifecycle!States,
               validTransitions, States
      <4> QED
        BY <4>1 DEF Lifecycle!LNext
    <3>3. CASE /\ disk.state = "publishing" /\ disk'.state = disk.state
               /\ feed \subseteq feed'
      <4>1. CASE feed' = {}
        BY <2>3, <2>5, <3>3, <4>1 DEF Lifecycle!lifecycleVars
      <4>2. CASE feed' # {}
        BY <2>3, <2>5, <3>3, <4>2 DEF Lifecycle!GoLive, Lifecycle!LNext
      <4> QED
        BY <4>1, <4>2
    <3> QED
      BY <2>1, <2>5, <3>1, <3>2, <3>3, MovesFollowTable
  <2> QED
    BY <2>4, <2>5
<1>3. CASE UNCHANGED vars
  BY <1>1, <1>3 DEF vars, worldVars, Outside, Overlaps
<1>4. ASSUME NEW r \in Runs, Start(r) \/ Crash(r)
      PROVE  UNCHANGED Lifecycle!lifecycleVars
  BY <1>1, <1>4, StartsAlone, CrashesAlone
<1> QED
  BY <1>2, <1>3, <1>1, <1>4 DEF Next

LEMMA LifecycleInit == Init => Lifecycle!LInit
<1> SUFFICES ASSUME Init
             PROVE  Lifecycle!LInit
  OBVIOUS
<1>1. disk.state \in States \ {"published", "archived"}
  <2>1. PICK n \in ImageCounts :
          disk \in {NewManifest(n, "approved", TRUE),
                NewManifest(n, "scheduled", TRUE),
                NewManifest(n, "pending_review", FALSE),
                NewManifest(n, "error", TRUE),
                [NewManifest(n, "error", FALSE) EXCEPT
                   !.failure = [stage |-> "enrich", retry |-> "validated"]]}
    BY DEF Init, InitialManifests
  <2> QED
    BY <2>1 DEF NewManifest, States
<1> QED
  BY <1>1 DEF Init, Lifecycle!LInit, Lifecycle!States, States

(* The manifest and the feed implement the abstract life cycle, for any    *)
(* posts and faults, while one run at a time works on a post and no run is *)
(* a dry run: every rewrite follows validTransitions and "published" is    *)
(* only said of a live post (manifest.go:50-61, publisher.go:222-276).     *)
THEOREM PublisherImplementsLifecycle ==
  ASSUME NoDryRuns
  PROVE  Spec => ImplementsLifecycle
<1>1. Init => Lifecycle!LInit /\ SoleInv /\ LiveInv
  BY LifecycleInit, SoleInvInit, LiveInvInit
<1>2. TypeOK /\ SoleInv /\ [Next]_vars => SoleInv'
  BY SoleInvStep
<1>3. TypeOK /\ LiveInv /\ [Next]_vars => LiveInv'
  BY LiveInvStep
<1>4. TypeOK /\ SoleInv /\ LiveInv' /\ [Next]_vars
        => [Lifecycle!LNext]_(Lifecycle!lifecycleVars)
  BY LifecycleStep
<1> QED
  BY <1>1, <1>2, <1>3, <1>4, TypeCorrect, PTL
     DEF Spec, ImplementsLifecycle, Lifecycle!LSpec

-----------------------------------------------------------------------------
(* The bucket after publication, one run at a time.                        *)

(* What fails at the last stage is cleaned up, as a retry from there does  *)
(* not do it any more; deletions succeed.                                  *)
CleansUp ==
  /\ "delete" \notin Faults
  /\ \A o \in OptionSets : o.strict => o.cleanup

Cleaned(m, objs) == m.cleaned => m.urls # "none" /\ objs = {}

FileBucket(d, objs) ==
  /\ objs \subseteq 1..d.images
  /\ Cleaned(d, objs)
  /\ d.state = "published" => objs = {}
  /\ d.failure.retry = "published" => objs = {} /\ d.state = "error"

(* A run that is not over: what its copy says of the bucket, and that one  *)
(* failing at syndication is about to clean up or has done so.             *)
RunBucket(m, label, g, o, objs) ==
  label # "idle" =>
    /\ Cleaned(m, objs)
    /\ label \notin Before \cup Failing \cup {"upload"} => m.urls # "none"
    /\ label \in {"recordCleanup", "finish"} => m.cleaned
    /\ m.failure.retry = "published" => label = "begin" /\ objs = {}
    /\ label = "begin" /\ m.failure.retry = "published" => m.state = "error"
    /\ g = "syndicate" =>
         \/ label = "fail" /\ o.cleanup /\ m.urls # "none"
         \/ label \in {"recordFailCleanup", "setError"} /\ objs = {}

BucketInv ==
  ~Overlaps =>
    /\ FileBucket(disk, objects)
    /\ \A r \in Runs :
         /\ RunBucket(mem[r], pc[r], stage[r], opts[r], objects)
         /\ pc[r] # "idle" /\ disk.cleaned => mem[r].cleaned

(* A step of a run whose effects are in order keeps the invariant.         *)
LEMMA BucketStep ==
  ASSUME TypeOK, SoleInv, BucketInv, NEW r \in Runs, NEW m, NEW label,
         OwnCopy(r, m, label), m.images = mem[r].images,
         ~Overlaps => /\ r = The
                      /\ FileBucket(disk', objects')
                      /\ RunBucket(m, label, stage'[r], opts'[r], objects')
                      /\ label # "idle" /\ disk'.cleaned => m.cleaned
  PROVE  BucketInv'
<1>1. Overlaps' = Overlaps
  BY DEF Overlaps, SoleInv, OwnCopy
<1>2. ASSUME ~Overlaps, NEW q \in Runs
      PROVE  /\ RunBucket(mem'[q], pc'[q], stage'[q], opts'[q], objects')
             /\ pc'[q] # "idle" /\ disk'.cleaned => mem'[q].cleaned
  <2>1. CASE q = r
    BY <1>2, <2>1 DEF OwnCopy, TypeOK
  <2>2. CASE q # r
    <3>1. pc'[q] = "idle"
      BY <1>2, <2>2 DEF SoleInv, OwnCopy, TypeOK
    <3> QED
      BY <3>1 DEF RunBucket
  <2> QED
    BY <2>1, <2>2
<1> QED
  BY <1>1, <1>2 DEF BucketInv

(* What is known of the run that makes a step.                             *)
LEMMA BucketBefore ==
  ASSUME TypeOK, SoleInv, BucketInv, NEW r \in Runs, pc[r] # "idle", ~Overlaps
  PROVE  /\ r = The
         /\ Tracks(mem[r], pc[r], disk)
         /\ mem[r].images = disk.images
         /\ FileBucket(disk, objects)
         /\ RunBucket(mem[r], pc[r], stage[r], opts[r], objects)
         /\ disk.cleaned => mem[r].cleaned
BY DEF SoleInv, BucketInv

(* Past the checks the run's copy could be the file.                       *)
LEMMA CopyIsFile ==
  ASSUME TypeOK, SoleInv, BucketInv, NEW r \in Runs,
         pc[r] \notin Before \cup {"idle"}, ~Overlaps
  PROVE  FileBucket(mem[r], objects)
BY BucketBefore DEF FileBucket, RunBucket, Tracks, Before

(* Steps that leave the bucket alone, and of the copy all that tells       *)
(* something about it.                                                     *)
LEMMA BucketFrame ==
  ASSUME TypeOK, SoleInv, BucketInv, NEW r \in Runs, NEW m, NEW label,
         OwnCopy(r, m, label), pc[r] \notin Before \cup {"idle"},
         m.images = mem[r].images, m.state = mem[r].state,
         m.failure = mem[r].failure, m.urls = mem[r].urls,
         m.cleaned = mem[r].cleaned,
         UNCHANGED <<objects, stage, opts>>,
         label \notin Before,
         label \in {"recordCleanup", "finish"} => m.cleaned,
         label \in {"idle", "upload"} \cup Failing \/ pc[r] # "upload" \/ m.urls # "none",
         label \in Failing \/ pc[r] \notin Failing \/ label = "idle",
         pc[r] \in Failing /\ stage[r] = "syndicate" /\ label # "idle" /\ ~Overlaps
           => label \in {"recordFailCleanup", "setError"} /\ objects = {}
  PROVE  BucketInv'
<1>1. ASSUME ~Overlaps
      PROVE  /\ r = The
             /\ FileBucket(disk', objects')
             /\ RunBucket(m, label, stage'[r], opts'[r], objects')
             /\ label # "idle" /\ disk'.cleaned => m.cleaned
  <2>1. /\ r = The /\ FileBucket(disk, objects)
        /\ RunBucket(mem[r], pc[r], stage[r], opts[r], objects)
        /\ disk.cleaned => mem[r].cleaned
        /\ FileBucket(mem[r], objects)
    BY <1>1, BucketBefore, CopyIsFile
  <2>2. FileBucket(m, objects) /\ Cleaned(m, objects)
    BY <2>1 DEF FileBucket, Cleaned
  <2>3. disk' \in {disk, m}
    BY DEF OwnCopy
  <2>4. label # "idle" => pc[r] # "begin" /\ mem[r].failure.retry # "published"
    BY <2>1 DEF RunBucket, Before
  <2>5. label # "idle" /\ stage[r] = "syndicate" =>
           label \in {"recordFailCleanup", "setError"} /\ objects = {}
    BY <1>1, <2>1 DEF RunBucket, Failing
  <2>6. label \notin Before \cup Failing \cup {"upload", "idle"} => m.urls # "none"
    BY <2>1 DEF RunBucket
  <2>7. RunBucket(m, label, stage[r], opts[r], objects)
    BY <2>2, <2>4, <2>5, <2>6 DEF RunBucket, Before
  <2> QED
    BY <2>1, <2>2, <2>3, <2>7
<1> QED
  BY <1>1, BucketStep

(* A run that gives up, or dies, with nothing written.                     *)
LEMMA BucketIdle ==
  ASSUME TypeOK, SoleInv, BucketInv, NEW r \in Runs, pc[r] # "idle",
         GoTo(r, "idle"), UNCHANGED <<disk, mem, objects>>
  PROVE  BucketInv'
<1>1. OwnCopy(r, mem[r], "idle")
  BY GoToIsOwnCopy
<1>2. ~Overlaps => r = The /\ FileBucket(disk', objects')
  BY BucketBefore
<1> QED
  BY <1>1, <1>2, BucketStep DEF RunBucket

LEMMA BucketGoTo ==
  ASSUME TypeOK, SoleInv, BucketInv, NEW r \in Runs, NEW label, GoTo(r, label),
         UNCHANGED <<disk, mem, objects, stage, opts>>,
         pc[r] \notin Before \cup Failing \cup {"idle"},
         label \notin Before \cup {"recordCleanup", "finish"},
         label \in {"idle", "upload"} \cup Failing \/ pc[r] # "upload" \/ mem[r].urls # "none"
  PROVE  BucketInv'
<1>1. OwnCopy(r, mem[r], label)
  BY GoToIsOwnCopy
<1> QED
  BY <1>1, BucketFrame

LEMMA BucketSave ==
  ASSUME TypeOK, SoleInv, BucketInv, NEW r \in Runs, NEW m, NEW written, NEW failed,
         Save(r, m, written, failed),
         UNCHANGED <<objects, stage, opts>>,
         m.images = mem[r].images, m.state = mem[r].state,
         m.failure = mem[r].failure, m.urls = mem[r].urls,
         m.cleaned = mem[r].cleaned,
         pc[r] \notin Before \cup Failing \cup {"idle", "upload"},
         written \notin Before \cup {"recordCleanup", "finish"},
         failed \notin Before \cup {"recordCleanup", "finish"}
  PROVE  BucketInv'
<1>1. PICK label \in {written, failed} : OwnCopy(r, m, label)
  BY SaveIsOwnCopy
<1> QED
  BY <1>1, BucketFrame

LEMMA BucketEnter ==
  ASSUME TypeOK, SoleInv, BucketInv, NEW r \in Runs, Enter(r)
  PROVE  BucketInv'
<1>0. mem[r] \in ManifestRecord
  BY DEF TypeOK
<1>1. CASE RetryFromError(r)
  <2> DEFINE m == RetriedManifest(mem[r])
             p == PrepareRetry(mem[r])
  <2>0. /\ mem[r].approved /\ CanPrepareRetry(mem[r])
        /\ pc[r] = "begin" /\ mem[r].state = "error"
        /\ UNCHANGED <<objects, stage, opts>>
        /\ Save(r, m, "retried", "idle")
    BY <1>1 DEF RetryFromError, RetryDue, CanPrepareRetry, worldVars
  <2>1. p \in ManifestRecord
    BY <1>0, <2>0, StatesType
       DEF CanPrepareRetry, CanTransition, PrepareRetry, ManifestRecord
  <2>2. /\ p.state = EffectiveRetryState(mem[r]) /\ p.failure = NoFailure
        /\ p.images = mem[r].images /\ p.urls = mem[r].urls
        /\ p.cleaned = mem[r].cleaned
    BY <1>0 DEF PrepareRetry, ManifestRecord
  <2>3. LET e == resetPublishArtifactsForRetry(p)
        IN  /\ e.state = p.state /\ e.failure = p.failure /\ e.images = p.images
            /\ ~e.cleaned
    BY <2>1 DEF resetPublishArtifactsForRetry, ManifestRecord
  <2>4. /\ m.state = EffectiveRetryState(mem[r]) /\ m.failure = NoFailure
        /\ m.images = mem[r].images
        /\ m.cleaned => mem[r].cleaned /\ m.urls = mem[r].urls
    BY <2>2, <2>3 DEF RetriedManifest
  <2>5. EffectiveRetryState(mem[r]) = "published"
          => mem[r].failure.retry = "published"
    BY <2>0 DEF EffectiveRetryState, EffectiveFailureStage,
                RetryStateForFailureStage, FailureStages
  <2> HIDE DEF m, p
  <2>6. \/ OwnCopy(r, m, "retried") /\ disk' = m
        \/ OwnCopy(r, m, "idle") /\ disk' = disk
    BY <2>0, SaveOrNot
  <2>7. ASSUME ~Overlaps
        PROVE  /\ r = The /\ FileBucket(disk, objects) /\ FileBucket(m, objects)
               /\ RunBucket(m, "retried", stage[r], opts[r], objects)
    <3>1. /\ r = The /\ FileBucket(disk, objects) /\ mem[r].images = disk.images
          /\ RunBucket(mem[r], "begin", stage[r], opts[r], objects)
      BY <2>0, <2>7, BucketBefore
    <3>2. m.failure.retry # "published"
      BY <2>4 DEF NoFailure
    <3>3. Cleaned(m, objects)
      BY <2>4, <3>1 DEF RunBucket, Cleaned
    <3>4. m.state = "published" => objects = {}
      BY <2>4, <2>5, <3>1 DEF RunBucket
    <3>5. stage[r] # "syndicate"
      BY <3>1 DEF RunBucket
    <3>6. FileBucket(m, objects)
      BY <2>4, <3>1, <3>2, <3>3, <3>4 DEF FileBucket
    <3> QED
      BY <3>1, <3>2, <3>3, <3>5, <3>6 DEF RunBucket, Before
  <2>8. CASE OwnCopy(r, m, "retried") /\ disk' = m
    BY <2>0, <2>4, <2>7, <2>8, BucketStep
  <2>9. CASE OwnCopy(r, m, "idle") /\ disk' = disk
    <3>1. RunBucket(m, "idle", stage'[r], opts'[r], objects')
      BY DEF RunBucket
    <3> QED
      BY <2>0, <2>4, <2>7, <2>9, <3>1, BucketStep
  <2> QED
    BY <2>6, <2>8, <2>9
<1>2. CASE Refuse(r)
  BY <1>2, BucketIdle DEF Refuse, AtChecks, worldVars
<1>3. ASSUME NEW label \in {"upload", "fail"}, GoTo(r, label), AtChecks(r),
             Publishable(mem[r]), UNCHANGED <<disk, mem, stage, opts, worldVars>>
      PROVE  BucketInv'
  <2>1. OwnCopy(r, mem[r], label)
    BY <1>3, GoToIsOwnCopy
  <2>2. ASSUME ~Overlaps
        PROVE  /\ r = The /\ FileBucket(disk, objects)
               /\ RunBucket(mem[r], label, stage[r], opts[r], objects)
               /\ disk.cleaned => mem[r].cleaned
    <3>1. pc[r] \in Before /\ pc[r] # "idle"
      BY <1>3 DEF AtChecks, Before
    <3>2. /\ r = The /\ FileBucket(disk, objects)
          /\ RunBucket(mem[r], pc[r], stage[r], opts[r], objects)
          /\ disk.cleaned => mem[r].cleaned
      BY <2>2, <3>1, BucketBefore
    <3>3. mem[r].failure.retry # "published"
      BY <1>3, <3>1, <3>2 DEF RunBucket, Before, Publishable
    <3>4. stage[r] # "syndicate"
      BY <3>1, <3>2 DEF RunBucket, Before
    <3> QED
      BY <3>1, <3>2, <3>3, <3>4 DEF RunBucket, Before, Failing
  <2> QED
    BY <1>3, <2>1, <2>2, BucketStep DEF worldVars
<1>4. CASE RejectTooMany(r)
  BY <1>3, <1>4 DEF RejectTooMany
<1>5. CASE VerifyToken(r)
  <2>1. CASE GoTo(r, "upload")
    BY <1>3, <1>5, <2>1 DEF VerifyToken
  <2>2. CASE GoTo(r, "idle")
    BY <1>5, <2>2, BucketIdle DEF VerifyToken, AtChecks, worldVars
  <2> QED
    BY <1>5, <2>1, <2>2 DEF VerifyToken
<1> QED
  BY <1>1, <1>2, <1>4, <1>5 DEF Enter

LEMMA BucketUpload ==
  ASSUME NoDryRuns, CleansUp, TypeOK, SoleInv, BucketInv, NEW r \in Runs, UploadStep(r)
  PROVE  BucketInv'
<1> USE DEF Before, Failing, worldVars
<1>0. mem[r] \in ManifestRecord /\ idx[r] \in Nat /\ ~opts[r].dry
  BY DEF TypeOK, NoDryRuns
<1>1. CASE SkipUpload(r)
  BY <1>1, BucketGoTo DEF SkipUpload
<1>2. CASE UploadImage(r)
  <2>1. OwnCopy(r, mem[r], "upload") /\ mem[r].urls = "none" /\ pc[r] = "upload"
    BY <1>2 DEF UploadImage, UploadLoop, OwnCopy, TypeOK
  <2>2. objects' = objects \cup {idx[r] + 1} /\ idx[r] < mem[r].images
        /\ UNCHANGED <<disk, stage, opts>>
    BY <1>0, <1>2 DEF UploadImage, UploadLoop
  <2>3. ASSUME ~Overlaps
        PROVE  /\ r = The /\ FileBucket(disk, objects')
               /\ RunBucket(mem[r], "upload", stage[r], opts[r], objects')
               /\ disk.cleaned => mem[r].cleaned
    <3>1. /\ r = The /\ Tracks(mem[r], "upload", disk) /\ FileBucket(disk, objects)
          /\ RunBucket(mem[r], "upload", stage[r], opts[r], objects)
          /\ mem[r].images = disk.images
          /\ disk.cleaned => mem[r].cleaned
      BY <2>1, <2>3, BucketBefore
    <3>2. ~mem[r].cleaned /\ ~disk.cleaned
      BY <2>1, <3>1 DEF RunBucket, Cleaned
    <3>3. disk.state \in {"approved", "publishing"}
      BY <3>1 DEF Tracks
    <3>4. objects' \subseteq 1..disk.images
      <4>1. disk.images \in Nat
        BY DEF TypeOK, ManifestRecord
      <4>2. idx[r] + 1 \in 1..disk.images
        BY <1>0, <2>2, <3>1, <4>1
      <4>3. objects \subseteq 1..disk.images
        BY <3>1 DEF FileBucket
      <4> QED
        BY <2>2, <4>2, <4>3
    <3>5. FileBucket(disk, objects')
      BY <3>1, <3>2, <3>3, <3>4 DEF FileBucket, Cleaned
    <3> QED
      BY <3>1, <3>2, <3>5 DEF RunBucket, Cleaned
  <2> QED
    BY <2>1, <2>2, <2>3, BucketStep
<1>3. CASE PrepareFails(r)
  BY <1>3, BucketGoTo DEF PrepareFails, UploadLoop
<1>4. CASE UploadFails(r)
  <2>1. OwnCopy(r, mem[r], "fail") /\ pc[r] = "upload" /\ mem[r].urls = "none"
    BY <1>4, GoToIsOwnCopy DEF UploadFails, UploadLoop
  <2>2. objects' \subseteq objects \cup {idx[r] + 1} /\ idx[r] < mem[r].images
    <3>1. PICK left \in Survivors(r, 1..idx[r]) :
            objects' \in {left, left \cup {idx[r] + 1}}
      BY <1>4 DEF UploadFails
    <3>2. left \subseteq objects
      BY SurvivorsType
    <3> QED
      BY <1>4, <3>1, <3>2 DEF UploadFails, UploadLoop
  <2>3. UNCHANGED <<disk, stage, opts>>
    BY <1>4 DEF UploadFails
  <2>4. ASSUME ~Overlaps
        PROVE  /\ r = The /\ FileBucket(disk, objects')
               /\ RunBucket(mem[r], "fail", stage[r], opts[r], objects')
               /\ disk.cleaned => mem[r].cleaned
    <3>1. /\ r = The /\ Tracks(mem[r], "upload", disk) /\ FileBucket(disk, objects)
          /\ RunBucket(mem[r], "upload", stage[r], opts[r], objects)
          /\ mem[r].images = disk.images
          /\ disk.cleaned => mem[r].cleaned
      BY <2>1, <2>4, BucketBefore
    <3>2. ~mem[r].cleaned /\ ~disk.cleaned
      BY <2>1, <3>1 DEF RunBucket, Cleaned
    <3>3. disk.state \in {"approved", "publishing"}
      BY <3>1 DEF Tracks
    <3>4. objects' \subseteq 1..disk.images
      <4>1. disk.images \in Nat
        BY DEF TypeOK, ManifestRecord
      <4>2. idx[r] + 1 \in 1..disk.images
        BY <1>0, <2>2, <3>1, <4>1
      <4>3. objects \subseteq 1..disk.images
        BY <3>1 DEF FileBucket
      <4> QED
        BY <2>2, <4>2, <4>3
    <3>5. FileBucket(disk, objects')
      BY <3>1, <3>2, <3>3, <3>4 DEF FileBucket, Cleaned
    <3> QED
      BY <3>1, <3>2, <3>5 DEF RunBucket, Cleaned
  <2> QED
    BY <2>1, <2>3, <2>4, BucketStep
<1>5. CASE RecordUpload(r)
  <2> DEFINE m == [mem[r] EXCEPT !.urls = IF opts[r].dry THEN "dry" ELSE "real"]
  <2>1. /\ m.state = mem[r].state /\ m.images = mem[r].images
        /\ m.cleaned = mem[r].cleaned /\ m.failure = mem[r].failure
        /\ m.urls = "real"
    BY <1>0 DEF ManifestRecord
  <2>2. Save(r, m, "preflight", "fail") /\ UNCHANGED <<objects, stage, opts>>
        /\ pc[r] = "upload" /\ mem[r].urls = "none"
    BY <1>5 DEF RecordUpload
  <2> HIDE DEF m
  <2>3. PICK label \in {"preflight", "fail"} : OwnCopy(r, m, label)
    BY <2>2, SaveIsOwnCopy
  <2>4. ASSUME ~Overlaps
        PROVE  /\ r = The /\ FileBucket(disk, objects) /\ FileBucket(m, objects)
               /\ RunBucket(m, label, stage[r], opts[r], objects)
               /\ disk.cleaned => m.cleaned
    <3>1. /\ r = The /\ FileBucket(disk, objects) /\ FileBucket(mem[r], objects)
          /\ RunBucket(mem[r], "upload", stage[r], opts[r], objects)
          /\ disk.cleaned => mem[r].cleaned
      BY <2>2, <2>4, BucketBefore, CopyIsFile
    <3>2. ~m.cleaned
      BY <2>1, <2>2, <3>1 DEF RunBucket, Cleaned
    <3>3. FileBucket(m, objects)
      BY <2>1, <3>1, <3>2 DEF FileBucket, Cleaned
    <3>4. RunBucket(m, label, stage[r], opts[r], objects)
      BY <2>1, <3>1, <3>2 DEF RunBucket, Cleaned
    <3> QED
      BY <2>1, <3>1, <3>3, <3>4
  <2>5. disk' \in {disk, m}
    BY <2>3 DEF OwnCopy
  <2> QED
    BY <2>1, <2>2, <2>3, <2>4, <2>5, BucketStep
<1>6. CASE PreflightFails(r)
  BY <1>6, BucketGoTo DEF PreflightFails
<1>7. CASE EnterPublishing(r)
  <2> DEFINE m == Transition(mem[r], "publishing")
  <2>1. /\ m.state = "publishing" /\ m.images = mem[r].images
        /\ m.cleaned = mem[r].cleaned /\ m.failure = mem[r].failure
        /\ m.urls = mem[r].urls
    BY <1>0 DEF ManifestRecord, Transition
  <2>2. Save(r, m, AfterPreflight(r), "idle") /\ UNCHANGED <<objects, stage, opts>>
        /\ pc[r] = "preflight"
    BY <1>7 DEF EnterPublishing
  <2> HIDE DEF m
  <2>3. PICK label \in {AfterPreflight(r), "idle"} : OwnCopy(r, m, label)
    BY <2>2, SaveIsOwnCopy
  <2>4. label \in {"children", "parent", "idle"}
    BY <2>3 DEF AfterPreflight
  <2>5. ASSUME ~Overlaps
        PROVE  /\ r = The /\ FileBucket(disk, objects) /\ FileBucket(m, objects)
               /\ RunBucket(m, label, stage[r], opts[r], objects)
               /\ disk.cleaned => m.cleaned
    <3>1. /\ r = The /\ FileBucket(disk, objects) /\ FileBucket(mem[r], objects)
          /\ RunBucket(mem[r], "preflight", stage[r], opts[r], objects)
          /\ disk.cleaned => mem[r].cleaned
      BY <2>2, <2>5, BucketBefore, CopyIsFile
    <3>2. m.failure.retry # "published"
      BY <2>1, <3>1 DEF RunBucket
    <3>3. FileBucket(m, objects)
      BY <2>1, <3>1, <3>2 DEF FileBucket, Cleaned
    <3>4. RunBucket(m, label, stage[r], opts[r], objects)
      BY <2>1, <2>4, <3>1 DEF RunBucket, Cleaned
    <3> QED
      BY <2>1, <3>1, <3>3, <3>4
  <2>6. disk' \in {disk, m}
    BY <2>3 DEF OwnCopy
  <2> QED
    BY <2>1, <2>2, <2>3, <2>5, <2>6, BucketStep
<1>8. CASE ResumePublishing(r)
  BY <1>8, BucketGoTo DEF ResumePublishing, AfterPreflight
<1> QED
  BY <1>1, <1>2, <1>3, <1>4, <1>5, <1>6, <1>7, <1>8 DEF UploadStep

LEMMA BucketInstagram ==
  ASSUME TypeOK, SoleInv, BucketInv, NEW r \in Runs, InstagramStep(r)
  PROVE  BucketInv'
<1> USE DEF Before, Failing, worldVars
<1>0. mem[r] \in ManifestRecord
  BY DEF TypeOK
<1>1. CASE InstagramError(r)
  BY <1>1, BucketGoTo DEF InstagramError
<1>2. CASE CreateChild(r)
  <2> DEFINE m == [mem[r] EXCEPT !.children = @ + 1]
  <2>1. /\ m.state = mem[r].state /\ m.images = mem[r].images
        /\ m.cleaned = mem[r].cleaned /\ m.failure = mem[r].failure
        /\ m.urls = mem[r].urls
    BY <1>0 DEF ManifestRecord
  <2>2. Save(r, m, "children", "fail")
    BY <1>2 DEF CreateChild
  <2> HIDE DEF m
  <2> QED
    BY <1>2, <2>1, <2>2, BucketSave DEF CreateChild
<1>3. CASE ChildrenReady(r)
  BY <1>3, BucketGoTo DEF ChildrenReady
<1>4. CASE SkipParent(r)
  BY <1>4, BucketGoTo DEF SkipParent
<1>5. CASE CreateParent(r)
  <2> DEFINE m == [mem[r] EXCEPT !.parent = containers + 1]
  <2>1. /\ m.state = mem[r].state /\ m.images = mem[r].images
        /\ m.cleaned = mem[r].cleaned /\ m.failure = mem[r].failure
        /\ m.urls = mem[r].urls
    BY <1>0 DEF ManifestRecord
  <2>2. Save(r, m, "pollParent", "fail")
    BY <1>5 DEF CreateParent
  <2> HIDE DEF m
  <2> QED
    BY <1>5, <2>1, <2>2, BucketSave DEF CreateParent
<1>6. CASE ResumeParent(r)
  BY <1>6, BucketGoTo DEF ResumeParent
<1>7. CASE ParentReady(r)
  BY <1>7, BucketGoTo DEF ParentReady
<1>8. CASE Publish(r)
  <2> DEFINE m == [mem[r] EXCEPT !.postID = IF opts[r].dry THEN DryRunId
                                            ELSE mem[r].parent]
  <2>1. /\ m.state = mem[r].state /\ m.images = mem[r].images
        /\ m.cleaned = mem[r].cleaned /\ m.failure = mem[r].failure
        /\ m.urls = mem[r].urls
    BY <1>0 DEF ManifestRecord
  <2>2. OwnCopy(r, m, "recordPost")
    BY <1>8 DEF Publish, SetMem, GoTo, OwnCopy
  <2> HIDE DEF m
  <2> QED
    BY <1>8, <2>1, <2>2, BucketFrame DEF Publish
<1>9. CASE PublishReplyLost(r)
  BY <1>9, BucketGoTo DEF PublishReplyLost
<1>10. CASE RecordPost(r)
  <2>1. PICK link : Save(r, [mem[r] EXCEPT !.permalink = link], "story", "fail")
    BY <1>10 DEF RecordPost
  <2> DEFINE m == [mem[r] EXCEPT !.permalink = link]
  <2>2. /\ m.state = mem[r].state /\ m.images = mem[r].images
        /\ m.cleaned = mem[r].cleaned /\ m.failure = mem[r].failure
        /\ m.urls = mem[r].urls
    BY <1>0 DEF ManifestRecord
  <2>3. Save(r, m, "story", "fail")
    BY <2>1
  <2> HIDE DEF m
  <2> QED
    BY <1>10, <2>2, <2>3, BucketSave DEF RecordPost
<1> QED
  BY <1>1, <1>2, <1>3, <1>4, <1>5, <1>6, <1>7, <1>8, <1>9, <1>10
     DEF InstagramStep

LEMMA BucketShare ==
  ASSUME CleansUp, TypeOK, SoleInv, BucketInv, NEW r \in Runs, ShareStep(r)
  PROVE  BucketInv'
<1> USE DEF Before, Failing, worldVars
<1>0. mem[r] \in ManifestRecord
  BY DEF TypeOK
<1>1. CASE NoStory(r)
  BY <1>1, BucketGoTo DEF NoStory, AfterStory
<1>2. CASE PostStory(r)
  BY <1>2, BucketSave DEF PostStory, AfterStory
<1>3. CASE RecordShares(r)
  <2>1. PICK label \in {"fail", "cleanup"} :
          /\ OwnCopy(r, mem[r], label)
          /\ label = "fail" => opts[r].strict
    <3> DEFINE ending == IF opts[r].strict THEN "fail" ELSE "cleanup"
    <3>1. PICK w \in {ending, "cleanup"} : Save(r, mem[r], w, ending)
      BY <1>3 DEF RecordShares
    <3>2. PICK label \in {w, ending} : OwnCopy(r, mem[r], label)
      BY <3>1, SaveIsOwnCopy
    <3> QED
      BY <3>2
  <2>2. /\ UNCHANGED <<objects, opts>> /\ pc[r] = "recordShares"
        /\ stage'[r] = "syndicate" => label = "fail" \/ stage[r] = "syndicate"
    <3>1. pc'[r] = label
      BY <2>1 DEF OwnCopy, TypeOK
    <3> QED
      BY <1>3, <3>1 DEF RecordShares, TypeOK
  <2>3. opts[r].strict => opts[r].cleanup
    BY DEF CleansUp, TypeOK
  <2>4. ASSUME ~Overlaps
        PROVE  /\ r = The /\ FileBucket(disk, objects) /\ FileBucket(mem[r], objects)
               /\ RunBucket(mem[r], label, stage'[r], opts[r], objects)
               /\ disk.cleaned => mem[r].cleaned
    <3>1. /\ r = The /\ FileBucket(disk, objects) /\ FileBucket(mem[r], objects)
          /\ RunBucket(mem[r], "recordShares", stage[r], opts[r], objects)
          /\ disk.cleaned => mem[r].cleaned
      BY <2>2, <2>4, BucketBefore, CopyIsFile
    <3>2. stage[r] # "syndicate" /\ mem[r].urls # "none"
      BY <3>1 DEF RunBucket
    <3>3. RunBucket(mem[r], label, stage'[r], opts[r], objects)
      BY <2>1, <2>2, <2>3, <3>1, <3>2 DEF RunBucket
    <3> QED
      BY <3>1, <3>3
  <2>5. disk' \in {disk, mem[r]}
    BY <2>1 DEF OwnCopy
  <2> QED
    BY <2>1, <2>2, <2>4, <2>5, BucketStep
<1>4. ASSUME NEW t \in Targets, NEW status, SetTarget(r, t, status), disk' = disk,
             pc[r] = t, UNCHANGED <<objects, stage, opts>>
      PROVE  BucketInv'
  <2> DEFINE m == [mem[r] EXCEPT !.synd[t] = status]
  <2>1. /\ m.state = mem[r].state /\ m.images = mem[r].images
        /\ m.cleaned = mem[r].cleaned /\ m.failure = mem[r].failure
        /\ m.urls = mem[r].urls
    BY <1>0 DEF ManifestRecord
  <2>2. OwnCopy(r, m, AfterTarget(t))
    BY <1>4 DEF SetTarget, SetMem, GoTo, OwnCopy
  <2> HIDE DEF m
  <2>3. AfterTarget(t) \in {"threads", "recordShares"} /\ t \notin {"upload", "idle"}
    BY DEF AfterTarget, Targets
  <2> QED
    BY <1>4, <2>1, <2>2, <2>3, BucketFrame DEF Targets
<1>5. ASSUME NEW t \in Targets, SkipTarget(r, t)
      PROVE  BucketInv'
  <2>1. CASE SetMem(r, mem[r]) /\ GoTo(r, AfterTarget(t))
    <3>1. OwnCopy(r, mem[r], AfterTarget(t))
      BY <1>5, <2>1 DEF SkipTarget, SetMem, GoTo, OwnCopy
    <3>2. AfterTarget(t) \in {"threads", "recordShares"} /\ t \notin {"upload", "idle"}
      BY DEF AfterTarget, Targets
    <3> QED
      BY <1>5, <3>1, <3>2, BucketFrame DEF SkipTarget, Targets
  <2> QED
    BY <1>4, <1>5, <2>1 DEF SkipTarget
<1>6. ASSUME NEW t \in Targets, ShareFails(r, t) \/ Share(r, t)
      PROVE  BucketInv'
  BY <1>4, <1>6 DEF ShareFails, Share, SharesNow
<1> QED
  BY <1>1, <1>2, <1>3, <1>5, <1>6 DEF ShareStep

LEMMA BucketEnd ==
  ASSUME NoDryRuns, CleansUp, TypeOK, SoleInv, BucketInv, NEW r \in Runs, EndStep(r)
  PROVE  BucketInv'
<1> USE DEF Before, Failing, worldVars
<1>0. mem[r] \in ManifestRecord /\ ~opts[r].dry
  BY DEF TypeOK, NoDryRuns
<1>1. CASE SkipCleanup(r)
  <2>1. OwnCopy(r, mem[r], "finish")
    BY <1>1, GoToIsOwnCopy DEF SkipCleanup
  <2> QED
    BY <1>1, <2>1, BucketFrame DEF SkipCleanup
<1>2. ASSUME NEW next \in {"recordCleanup", "recordFailCleanup"}, DeleteImages(r, next),
             \/ pc[r] = "cleanup" /\ next = "recordCleanup"
             \/ /\ pc[r] = "fail" /\ next = "recordFailCleanup"
                /\ RecordedKeys(mem[r]) # {}
      PROVE  BucketInv'
  <2> DEFINE m == [mem[r] EXCEPT !.cleaned = TRUE]
  <2>1. /\ m.state = mem[r].state /\ m.images = mem[r].images
        /\ m.cleaned /\ m.failure = mem[r].failure /\ m.urls = mem[r].urls
    BY <1>0 DEF ManifestRecord
  <2>2. OwnCopy(r, m, next) /\ UNCHANGED <<disk, stage, opts>>
    BY <1>2 DEF DeleteImages, SetMem, GoTo, OwnCopy
  <2> HIDE DEF m
  <2>3. objects' = objects \ RecordedKeys(mem[r])
    BY <1>0, <1>2 DEF DeleteImages, Survivors, CleansUp
  <2>4. ASSUME ~Overlaps
        PROVE  /\ r = The /\ FileBucket(disk, objects')
               /\ RunBucket(m, next, stage[r], opts[r], objects')
    <3>1. /\ r = The /\ FileBucket(disk, objects) /\ mem[r].images = disk.images
          /\ RunBucket(mem[r], pc[r], stage[r], opts[r], objects)
      BY <1>2, <2>4, BucketBefore
    <3>2. mem[r].urls # "none"
      BY <1>2, <3>1 DEF RunBucket, RecordedKeys
    <3>3. objects' = {}
      BY <2>3, <3>1, <3>2 DEF RecordedKeys, FileBucket
    <3>4. FileBucket(disk, objects')
      BY <3>1, <3>3 DEF FileBucket, Cleaned
    <3>5. mem[r].failure.retry # "published"
      BY <1>2, <3>1 DEF RunBucket
    <3>6. stage[r] = "syndicate" => next = "recordFailCleanup"
      BY <1>2, <3>1 DEF RunBucket
    <3>7. RunBucket(m, next, stage[r], opts[r], objects')
      BY <1>2, <2>1, <3>2, <3>3, <3>5, <3>6 DEF RunBucket, Cleaned
    <3> QED
      BY <3>1, <3>4, <3>7
  <2> QED
    BY <2>1, <2>2, <2>4, BucketStep
<1>3. CASE Cleanup(r) \/ FailCleanup(r)
  BY <1>2, <1>3 DEF Cleanup, FailCleanup, CleansOnFailure
<1>4. CASE RecordCleanup(r)
  <2>1. OwnCopy(r, mem[r], "finish") /\ pc[r] = "recordCleanup"
        /\ UNCHANGED <<objects, stage, opts>>
    BY <1>4, SaveIsOwnCopy DEF RecordCleanup
  <2>2. ~Overlaps => mem[r].cleaned
    BY <2>1, BucketBefore DEF RunBucket
  <2>3. CASE mem[r].cleaned
    BY <2>1, <2>3, BucketFrame
  <2>4. CASE Overlaps
    <3>1. Overlaps'
      BY <2>1, <2>4 DEF SoleInv, OwnCopy, Overlaps
    <3> QED
      BY <3>1 DEF BucketInv
  <2> QED
    BY <2>2, <2>3, <2>4
<1>5. CASE RecordFailCleanup(r)
  <2>1. OwnCopy(r, mem[r], "setError") /\ pc[r] = "recordFailCleanup"
        /\ UNCHANGED <<objects, stage, opts>>
    BY <1>5, SaveIsOwnCopy DEF RecordFailCleanup
  <2>2. ~Overlaps /\ stage[r] = "syndicate" => objects = {}
    BY <2>1, BucketBefore DEF RunBucket
  <2> QED
    BY <2>1, <2>2, BucketFrame
<1>6. CASE FailWithoutCleanup(r)
  <2>1. OwnCopy(r, mem[r], "setError") /\ pc[r] = "fail" /\ ~CleansOnFailure(r)
        /\ UNCHANGED <<objects, stage, opts>>
    BY <1>6, GoToIsOwnCopy DEF FailWithoutCleanup
  <2>2. ASSUME ~Overlaps, stage[r] = "syndicate"
        PROVE  objects = {}
    <3>1. /\ opts[r].cleanup /\ mem[r].urls # "none"
          /\ Cleaned(mem[r], objects)
          /\ objects \subseteq 1..mem[r].images
      BY <2>1, <2>2, BucketBefore DEF RunBucket, FileBucket
    <3>2. CASE mem[r].cleaned
      BY <3>1, <3>2 DEF Cleaned
    <3>3. CASE RecordedKeys(mem[r]) = {}
      BY <3>1, <3>3 DEF RecordedKeys
    <3> QED
      BY <2>1, <3>1, <3>2, <3>3 DEF CleansOnFailure
  <2> QED
    BY <2>1, <2>2, BucketFrame
<1>7. ASSUME NEW m, Save(r, m, "idle", "idle"), pc[r] # "idle",
             m.images = mem[r].images, ~Overlaps => FileBucket(m, objects),
             UNCHANGED objects
      PROVE  BucketInv'
  <2>1. OwnCopy(r, m, "idle") /\ disk' \in {disk, m}
    BY <1>7, SaveIsOwnCopy DEF Save
  <2>2. ~Overlaps => r = The /\ FileBucket(disk, objects)
    BY <1>7, BucketBefore
  <2>3. RunBucket(m, "idle", stage'[r], opts'[r], objects')
    BY DEF RunBucket
  <2> QED
    BY <1>7, <2>1, <2>2, <2>3, BucketStep
<1>8. CASE Finish(r)
  <2> DEFINE m == Transition(mem[r], "published")
  <2>1. /\ m.state = "published" /\ m.images = mem[r].images
        /\ m.cleaned = mem[r].cleaned /\ m.urls = mem[r].urls
        /\ m.failure = mem[r].failure
    BY <1>0 DEF ManifestRecord, Transition
  <2>2. Save(r, m, "idle", "idle") /\ pc[r] = "finish" /\ UNCHANGED objects
    BY <1>8 DEF Finish
  <2> HIDE DEF m
  <2>3. ASSUME ~Overlaps
        PROVE  FileBucket(m, objects)
    <3>1. FileBucket(mem[r], objects)
          /\ RunBucket(mem[r], "finish", stage[r], opts[r], objects)
      BY <2>2, <2>3, BucketBefore, CopyIsFile
    <3>2. mem[r].cleaned /\ mem[r].urls # "none" /\ objects = {}
          /\ mem[r].failure.retry # "published"
      BY <3>1 DEF RunBucket, Cleaned
    <3> QED
      BY <2>1, <3>1, <3>2 DEF FileBucket, Cleaned
  <2> QED
    BY <1>7, <2>1, <2>2, <2>3
<1>9. CASE SetError(r)
  <2> DEFINE m == RecordFailure(mem[r], stage[r], RetryStateForFailureStage[stage[r]])
  <2>0. stage[r] \in {"publish", "syndicate"}
    BY DEF TypeOK
  <2>1. /\ m.images = mem[r].images
        /\ m.cleaned = mem[r].cleaned /\ m.urls = mem[r].urls
        /\ m.failure = [stage |-> stage[r], retry |-> RetryStateForFailureStage[stage[r]]]
        /\ m.state = IF CanTransition(mem[r], "error") THEN "error" ELSE mem[r].state
    BY <1>0 DEF ManifestRecord, RecordFailure
  <2>2. Save(r, m, "idle", "idle") /\ pc[r] = "setError" /\ UNCHANGED objects
    BY <1>9 DEF SetError
  <2> HIDE DEF m
  <2>3. ASSUME ~Overlaps
        PROVE  FileBucket(m, objects)
    <3>1. /\ FileBucket(mem[r], objects) /\ Tracks(mem[r], "setError", disk)
          /\ RunBucket(mem[r], "setError", stage[r], opts[r], objects)
      BY <2>2, <2>3, BucketBefore, CopyIsFile
    <3>2. m.state = "error"
      BY <2>1, <3>1 DEF Tracks, CanTransition, validTransitions, States
    <3>3. m.failure.retry = "published" => stage[r] = "syndicate"
      BY <2>0, <2>1 DEF RetryStateForFailureStage, FailureStages
    <3>4. m.failure.retry = "published" => objects = {}
      BY <3>1, <3>3 DEF RunBucket, Cleaned
    <3> QED
      BY <2>1, <3>1, <3>2, <3>4 DEF FileBucket, Cleaned
  <2> QED
    BY <1>7, <2>1, <2>2, <2>3
<1> QED
  BY <1>1, <1>3, <1>4, <1>5, <1>6, <1>8, <1>9 DEF EndStep

LEMMA BucketInvStep ==
  NoDryRuns /\ CleansUp /\ TypeOK /\ SoleInv /\ BucketInv /\ [Next]_vars => BucketInv'
<1> SUFFICES ASSUME NoDryRuns, CleansUp, TypeOK, SoleInv, BucketInv, [Next]_vars
             PROVE  BucketInv'
  OBVIOUS
<1>1. ASSUME NEW r \in Runs, Start(r)
      PROVE  BucketInv'
  <2>1. OwnCopy(r, disk, "begin") /\ disk' = disk /\ objects' = objects
    BY <1>1 DEF Start, SetMem, GoTo, OwnCopy, worldVars
  <2>2. stage'[r] = "publish" /\ disk.images = mem[r].images
    BY <1>1 DEF Start, TypeOK, SoleInv
  <2>3. ASSUME ~Overlaps
        PROVE  /\ r = The /\ FileBucket(disk, objects)
               /\ RunBucket(disk, "begin", "publish", opts'[r], objects)
    <3>1. r = The
      BY <1>1, <2>3 DEF Start, MayStart, Overlaps, The
    <3>2. FileBucket(disk, objects)
      BY <2>3 DEF BucketInv
    <3> QED
      BY <3>1, <3>2 DEF RunBucket, FileBucket, Before
  <2> QED
    BY <2>1, <2>2, <2>3, BucketStep
<1>2. ASSUME NEW r \in Runs, Run(r)
      PROVE  BucketInv'
  BY <1>2, BucketEnter, BucketUpload, BucketInstagram, BucketShare, BucketEnd DEF Run
<1>3. ASSUME NEW r \in Runs, Crash(r)
      PROVE  BucketInv'
  BY <1>3, BucketIdle DEF Crash, worldVars
<1>4. CASE UNCHANGED vars
  <2>1. UNCHANGED <<disk, mem, pc, stage, opts, objects>>
    BY <1>4 DEF vars, runVars, worldVars
  <2> QED
    BY <2>1 DEF BucketInv, Overlaps
<1> QED
  BY <1>1, <1>2, <1>3, <1>4 DEF Next

LEMMA BucketInvInit == Init => BucketInv
<1> SUFFICES ASSUME Init
             PROVE  BucketInv
  OBVIOUS
<1>1. disk.failure.retry # "published" /\ disk.state # "published"
  BY FreshManifest DEF Init
<1>2. ~disk.cleaned
  <2>1. PICK n \in ImageCounts :
          disk \in {NewManifest(n, "approved", TRUE),
                NewManifest(n, "scheduled", TRUE),
                NewManifest(n, "pending_review", FALSE),
                NewManifest(n, "error", TRUE),
                [NewManifest(n, "error", FALSE) EXCEPT
                   !.failure = [stage |-> "enrich", retry |-> "validated"]]}
    BY DEF Init, InitialManifests
  <2> QED
    BY <2>1 DEF NewManifest
<1>3. FileBucket(disk, objects)
  BY <1>1, <1>2 DEF Init, FileBucket, Cleaned
<1> QED
  BY <1>2, <1>3 DEF Init, BucketInv, RunBucket

(* One run at a time, whatever crashes and fails to be written: a post     *)
(* that is recorded as published has no image left in the bucket. That     *)
(* takes that deletions succeed, and that strict runs clean up after a     *)
(* failure: what failed at syndication is retried straight to published    *)
(* (publisher.go:339, 965-985, manifest.go:301-318).                       *)
THEOREM NoImagesAreLeft ==
  ASSUME NoDryRuns, CleansUp
  PROVE  Spec => []PublishedLeavesNoImages
<1>1. Init => SoleInv /\ BucketInv
  BY SoleInvInit, BucketInvInit
<1>2. TypeOK /\ SoleInv /\ [Next]_vars => SoleInv'
  BY SoleInvStep
<1>3. TypeOK /\ SoleInv /\ BucketInv /\ [Next]_vars => BucketInv'
  BY BucketInvStep
<1>4. BucketInv => PublishedLeavesNoImages
  BY DEF BucketInv, FileBucket, PublishedLeavesNoImages
<1> QED
  BY <1>1, <1>2, <1>3, <1>4, TypeCorrect, PTL DEF Spec

-----------------------------------------------------------------------------
(* At most one post each, one run at a time and nothing but refused calls  *)
(* and failed deletions.                                                   *)

Reliable == Overlapping = {} /\ Faults \subseteq {"delete"}

(* f, s and sh stand for feed, stories and shares, before or after a step. *)
AtMostOnce(f, s, sh) ==
  /\ \A x, y \in f : x = y
  /\ s <= 1
  /\ \A t \in Targets : sh[t] <= 1

Unposted(f, s, sh) == f = {} /\ s = 0 /\ \A t \in Targets : sh[t] = 0

(* What a run that is past its checks cannot have posted yet, and that it  *)
(* has posted nothing at all if its failure leads to a new publication.    *)
NotYet(label, g, f, s, sh) ==
  /\ label \in {"recordPost", "story"} => s = 0
  /\ label \in {"recordPost", "story", "facebook"} => sh["facebook"] = 0
  /\ label \in {"recordPost", "story", "facebook", "threads"} => sh["threads"] = 0
  /\ label \notin AfterPost \cup Failing => Unposted(f, s, sh)
  /\ label \in Failing /\ g = "publish" => Unposted(f, s, sh)

(* No run gets past the checks with such a manifest.                       *)
Settled(d) ==
  \/ d.state = "published"
  \/ d.state = "error" /\ d.failure.retry = "published"

RunOnce(m, label, g, d, f, s, sh) ==
  /\ label \in Before \cup {"idle"} => Unposted(f, s, sh) \/ Settled(d)
  /\ label \in Before => m = d
  /\ label \notin Before \cup {"idle"} => NotYet(label, g, f, s, sh)
  /\ label \notin Failing \cup {"idle"} => g = "publish"

OnceInv ==
  /\ AtMostOnce(feed, stories, shares)
  /\ \A r \in Runs :
       r = The => RunOnce(mem[r], pc[r], stage[r], disk, feed, stories, shares)

LEMMA OnceStep ==
  ASSUME Reliable, TypeOK, SoleInv, OnceInv, NEW r \in Runs, NEW m, NEW label,
         OwnCopy(r, m, label), r = The,
         AtMostOnce(feed', stories', shares'),
         RunOnce(m, label, stage'[r], disk', feed', stories', shares')
  PROVE  OnceInv'
<1>1. mem'[r] = m /\ pc'[r] = label
  BY DEF OwnCopy, TypeOK
<1> QED
  BY <1>1 DEF OnceInv

LEMMA OnceBefore ==
  ASSUME Reliable, TypeOK, SoleInv, OnceInv, NEW r \in Runs, pc[r] # "idle"
  PROVE  /\ r = The
         /\ Tracks(mem[r], pc[r], disk)
         /\ AtMostOnce(feed, stories, shares)
         /\ RunOnce(mem[r], pc[r], stage[r], disk, feed, stories, shares)
BY DEF SoleInv, OnceInv, Overlaps, Reliable

(* Nothing is written in vain.                                             *)
LEMMA SaveSucceeds ==
  ASSUME Reliable, NEW r \in Runs, NEW m, NEW written, NEW failed,
         Save(r, m, written, failed)
  PROVE  OwnCopy(r, m, written) /\ disk' = m
BY DEF Save, SetMem, GoTo, OwnCopy, Reliable

(* Steps past the checks that post nothing and do not end the run.         *)
LEMMA OnceFrame ==
  ASSUME Reliable, TypeOK, SoleInv, OnceInv, NEW r \in Runs, NEW m, NEW label,
         OwnCopy(r, m, label),
         pc[r] \notin Before \cup {"idle"}, label \notin Before \cup {"idle"},
         UNCHANGED <<stage, Outside>>,
         NotYet(pc[r], stage[r], feed, stories, shares)
           => NotYet(label, stage[r], feed, stories, shares),
         label \in Failing \/ pc[r] \notin Failing
  PROVE  OnceInv'
<1>1. /\ r = The /\ AtMostOnce(feed, stories, shares)
      /\ NotYet(pc[r], stage[r], feed, stories, shares)
      /\ pc[r] \notin Failing => stage[r] = "publish"
  BY OnceBefore DEF RunOnce
<1>2. RunOnce(m, label, stage[r], disk', feed, stories, shares)
  BY <1>1 DEF RunOnce
<1> QED
  BY <1>1, <1>2, OnceStep DEF Outside

LEMMA OnceGoTo ==
  ASSUME Reliable, TypeOK, SoleInv, OnceInv, NEW r \in Runs, NEW label,
         GoTo(r, label), UNCHANGED <<disk, mem, stage, Outside>>,
         pc[r] \notin Before \cup {"idle"}, label \notin Before \cup {"idle"},
         NotYet(pc[r], stage[r], feed, stories, shares)
           => NotYet(label, stage[r], feed, stories, shares),
         label \in Failing \/ pc[r] \notin Failing
  PROVE  OnceInv'
<1>1. OwnCopy(r, mem[r], label)
  BY GoToIsOwnCopy
<1> QED
  BY <1>1, OnceFrame

LEMMA OnceSave ==
  ASSUME Reliable, TypeOK, SoleInv, OnceInv, NEW r \in Runs, NEW m,
         NEW written, NEW failed, Save(r, m, written, failed),
         UNCHANGED <<stage, Outside>>,
         pc[r] \notin Before \cup {"idle"}, written \notin Before \cup {"idle"},
         NotYet(pc[r], stage[r], feed, stories, shares)
           => NotYet(written, stage[r], feed, stories, shares),
         written \in Failing \/ pc[r] \notin Failing
  PROVE  OnceInv'
<1>1. OwnCopy(r, m, written)
  BY SaveSucceeds
<1> QED
  BY <1>1, OnceFrame

LEMMA OnceEnter ==
  ASSUME Reliable, TypeOK, SoleInv, OnceInv, NEW r \in Runs, Enter(r)
  PROVE  OnceInv'
<1>0. pc[r] \in Before /\ mem[r] \in ManifestRecord /\ UNCHANGED <<stage, Outside>>
  BY DEF Enter, RetryFromError, RetryDue, Refuse, RejectTooMany, VerifyToken,
         AtChecks, Before, TypeOK, worldVars, Outside
<1>1. /\ r = The /\ AtMostOnce(feed, stories, shares)
      /\ Unposted(feed, stories, shares) \/ Settled(disk)
      /\ mem[r] = disk /\ stage[r] = "publish"
  BY <1>0, OnceBefore DEF RunOnce, Before, Failing
<1>2. CASE RetryFromError(r)
  <2> DEFINE m == RetriedManifest(mem[r])
             p == PrepareRetry(mem[r])
  <2>0. CanPrepareRetry(mem[r]) /\ Save(r, m, "retried", "idle")
    BY <1>2 DEF RetryFromError, RetryDue
  <2>1. p.state = EffectiveRetryState(mem[r]) /\ p \in ManifestRecord
    BY <1>0, <2>0, StatesType
       DEF CanPrepareRetry, CanTransition, PrepareRetry, ManifestRecord
  <2>2. resetPublishArtifactsForRetry(p).state = p.state
    BY <2>1 DEF resetPublishArtifactsForRetry, ManifestRecord
  <2>3. m.state = EffectiveRetryState(mem[r])
    BY <2>1, <2>2 DEF RetriedManifest
  <2> HIDE DEF m, p
  <2>4. Settled(disk) => m.state = "published"
    BY <1>1, <2>0, <2>3 DEF Settled, CanPrepareRetry, EffectiveRetryState, NoFailure
  <2>5. OwnCopy(r, m, "retried") /\ disk' = m
    BY <2>0, SaveSucceeds
  <2>6. RunOnce(m, "retried", stage[r], m, feed, stories, shares)
    BY <1>1, <2>4 DEF RunOnce, Settled, Before
  <2> QED
    BY <1>0, <1>1, <2>5, <2>6, OnceStep DEF Outside
<1>3. ASSUME GoTo(r, "idle"), UNCHANGED <<disk, mem>>
      PROVE  OnceInv'
  <2>1. OwnCopy(r, mem[r], "idle")
    BY <1>3, GoToIsOwnCopy
  <2>2. RunOnce(mem[r], "idle", stage[r], disk, feed, stories, shares)
    BY <1>1 DEF RunOnce, Before
  <2> QED
    BY <1>0, <1>1, <1>3, <2>1, <2>2, OnceStep DEF Outside
<1>4. ASSUME NEW label \in {"upload", "fail"}, GoTo(r, label),
             Publishable(mem[r]), UNCHANGED <<disk, mem>>
      PROVE  OnceInv'
  <2>1. OwnCopy(r, mem[r], label)
    BY <1>4, GoToIsOwnCopy
  <2>2. Unposted(feed, stories, shares)
    BY <1>1, <1>4 DEF Settled, Publishable
  <2>3. RunOnce(mem[r], label, stage[r], disk, feed, stories, shares)
    BY <1>1, <2>2 DEF RunOnce, NotYet, Unposted, Targets, Before
  <2> QED
    BY <1>0, <1>1, <1>4, <2>1, <2>3, OnceStep DEF Outside
<1>5. CASE Refuse(r)
  BY <1>3, <1>5 DEF Refuse
<1>6. CASE RejectTooMany(r)
  BY <1>4, <1>6 DEF RejectTooMany
<1>7. CASE VerifyToken(r)
  BY <1>3, <1>4, <1>7 DEF VerifyToken
<1> QED
  BY <1>2, <1>5, <1>6, <1>7 DEF Enter

LEMMA OnceUpload ==
  ASSUME Reliable, TypeOK, SoleInv, OnceInv, NEW r \in Runs, UploadStep(r)
  PROVE  OnceInv'
<1> USE DEF Before, Failing, AfterPost, Outside, worldVars, NotYet
<1>1. CASE SkipUpload(r)
  BY <1>1, OnceGoTo DEF SkipUpload
<1>2. CASE UploadImage(r)
  <2>1. OwnCopy(r, mem[r], "upload") /\ pc[r] = "upload"
    BY <1>2 DEF UploadImage, UploadLoop, OwnCopy, TypeOK
  <2> QED
    BY <1>2, <2>1, OnceFrame DEF UploadImage
<1>3. CASE PrepareFails(r)
  BY <1>3, OnceGoTo DEF PrepareFails, UploadLoop
<1>4. CASE UploadFails(r)
  BY <1>4, OnceGoTo DEF UploadFails, UploadLoop
<1>5. CASE RecordUpload(r)
  BY <1>5, OnceSave DEF RecordUpload
<1>6. CASE PreflightFails(r)
  BY <1>6, OnceGoTo DEF PreflightFails
<1>7. CASE EnterPublishing(r)
  BY <1>7, OnceSave DEF EnterPublishing, AfterPreflight
<1>8. CASE ResumePublishing(r)
  BY <1>8, OnceGoTo DEF ResumePublishing, AfterPreflight
<1> QED
  BY <1>1, <1>2, <1>3, <1>4, <1>5, <1>6, <1>7, <1>8 DEF UploadStep

LEMMA OnceInstagram ==
  ASSUME Reliable, TypeOK, SoleInv, OnceInv, NEW r \in Runs, InstagramStep(r)
  PROVE  OnceInv'
<1> USE DEF Before, Failing, AfterPost, Outside, worldVars
<1>1. CASE InstagramError(r)
  BY <1>1, OnceGoTo DEF InstagramError, NotYet
<1>2. CASE CreateChild(r)
  BY <1>2, OnceSave DEF CreateChild, NotYet
<1>3. CASE ChildrenReady(r)
  BY <1>3, OnceGoTo DEF ChildrenReady, NotYet
<1>4. CASE SkipParent(r)
  BY <1>4, OnceGoTo DEF SkipParent, NotYet, Unposted, Targets
<1>5. CASE CreateParent(r)
  BY <1>5, OnceSave DEF CreateParent, NotYet
<1>6. CASE ResumeParent(r)
  BY <1>6, OnceGoTo DEF ResumeParent, NotYet
<1>7. CASE ParentReady(r)
  BY <1>7, OnceGoTo DEF ParentReady, NotYet
<1>8. CASE Publish(r)
  <2> DEFINE m == [mem[r] EXCEPT !.postID = IF opts[r].dry THEN DryRunId
                                            ELSE mem[r].parent]
  <2>1. OwnCopy(r, m, "recordPost") /\ pc[r] = "publish"
        /\ UNCHANGED <<stage, stories, shares>>
    BY <1>8 DEF Publish, SetMem, GoTo, OwnCopy
  <2> HIDE DEF m
  <2>2. r = The /\ Unposted(feed, stories, shares) /\ stage[r] = "publish"
    BY <2>1, OnceBefore DEF RunOnce, NotYet
  <2>3. feed' \in {{}, {mem[r].parent}}
    BY <1>8, <2>2 DEF Publish, Unposted
  <2>4. AtMostOnce(feed', stories, shares)
    BY <2>2, <2>3 DEF AtMostOnce, Unposted
  <2>5. RunOnce(m, "recordPost", stage[r], disk', feed', stories, shares)
    BY <2>2 DEF RunOnce, NotYet, Unposted, Targets
  <2> QED
    BY <2>1, <2>2, <2>4, <2>5, OnceStep
<1>9. CASE PublishReplyLost(r)
  BY <1>9 DEF PublishReplyLost, Reliable
<1>10. CASE RecordPost(r)
  BY <1>10, OnceSave DEF RecordPost, NotYet
<1> QED
  BY <1>1, <1>2, <1>3, <1>4, <1>5, <1>6, <1>7, <1>8, <1>9, <1>10
     DEF InstagramStep

LEMMA OnceShare ==
  ASSUME Reliable, TypeOK, SoleInv, OnceInv, NEW r \in Runs, ShareStep(r)
  PROVE  OnceInv'
<1> USE DEF Before, Failing, AfterPost, Outside, worldVars
<1>1. CASE NoStory(r)
  BY <1>1, OnceGoTo DEF NoStory, AfterStory, NotYet
<1>2. CASE PostStory(r)
  <2>1. /\ OwnCopy(r, mem[r], AfterStory(r)) /\ pc[r] = "story"
        /\ stories' = stories + 1 /\ UNCHANGED <<stage, feed, shares>>
    BY <1>2, SaveSucceeds DEF PostStory
  <2>2. /\ r = The /\ AtMostOnce(feed, stories, shares) /\ stage[r] = "publish"
        /\ stories = 0 /\ shares["facebook"] = 0 /\ shares["threads"] = 0
    BY <2>1, OnceBefore DEF RunOnce, NotYet
  <2>3. AtMostOnce(feed, stories', shares)
    BY <2>1, <2>2 DEF AtMostOnce
  <2>4. RunOnce(mem[r], AfterStory(r), stage[r], disk', feed, stories', shares)
    BY <2>2 DEF RunOnce, NotYet, AfterStory
  <2> QED
    BY <2>1, <2>2, <2>3, <2>4, OnceStep
<1>3. CASE RecordShares(r)
  <2>1. PICK label \in {"fail", "cleanup"} : OwnCopy(r, mem[r], label)
    <3> DEFINE ending == IF opts[r].strict THEN "fail" ELSE "cleanup"
    <3>1. PICK w \in {ending, "cleanup"} : Save(r, mem[r], w, ending)
      BY <1>3 DEF RecordShares
    <3>2. OwnCopy(r, mem[r], w)
      BY <3>1, SaveSucceeds
    <3> QED
      BY <3>2
  <2>2. /\ r = The /\ AtMostOnce(feed, stories, shares) /\ stage[r] = "publish"
        /\ UNCHANGED Outside
    BY <1>3, OnceBefore DEF RecordShares, RunOnce
  <2>3. stage'[r] = IF label = "fail" THEN "syndicate" ELSE "publish"
    <3>1. pc'[r] = label
      BY <2>1 DEF OwnCopy, TypeOK
    <3> QED
      BY <1>3, <2>2, <3>1 DEF RecordShares, TypeOK
  <2>4. RunOnce(mem[r], label, stage'[r], disk', feed, stories, shares)
    BY <2>3 DEF RunOnce, NotYet
  <2> QED
    BY <2>1, <2>2, <2>4, OnceStep
<1>4. ASSUME NEW t \in Targets, NEW m, OwnCopy(r, m, AfterTarget(t)), pc[r] = t,
             UNCHANGED <<stage, feed, stories>>,
             \/ shares' = shares
             \/ shares' = [shares EXCEPT ![t] = @ + 1]
      PROVE  OnceInv'
  <2>1. /\ r = The /\ AtMostOnce(feed, stories, shares) /\ stage[r] = "publish"
        /\ t \in {"facebook", "threads"} => shares["threads"] = 0
        /\ t = "facebook" => shares["facebook"] = 0
    BY <1>4, OnceBefore DEF RunOnce, NotYet, Targets
  <2>2. shares \in [Targets -> Nat] /\ t \in {"facebook", "threads"}
    BY DEF TypeOK, Targets
  <2>3. \A u \in Targets : shares'[u] <= 1
    BY <1>4, <2>1, <2>2 DEF AtMostOnce, Targets
  <2>4. t = "facebook" => shares'["threads"] = 0
    BY <1>4, <2>1, <2>2 DEF Targets
  <2>5. AtMostOnce(feed, stories, shares')
    BY <2>1, <2>3 DEF AtMostOnce
  <2>6. RunOnce(m, AfterTarget(t), stage[r], disk', feed, stories, shares')
    BY <2>1, <2>2, <2>4 DEF RunOnce, NotYet, AfterTarget
  <2> QED
    BY <1>4, <2>1, <2>5, <2>6, OnceStep
<1>5. ASSUME NEW t \in Targets, SkipTarget(r, t)
      PROVE  OnceInv'
  <2>1. PICK m : OwnCopy(r, m, AfterTarget(t))
    BY <1>5 DEF SkipTarget, SetTarget, SetMem, GoTo, OwnCopy
  <2> QED
    BY <1>4, <1>5, <2>1 DEF SkipTarget
<1>6. ASSUME NEW t \in Targets, ShareFails(r, t) \/ Share(r, t)
      PROVE  OnceInv'
  <2>1. PICK m : OwnCopy(r, m, AfterTarget(t))
    BY <1>6 DEF ShareFails, Share, SetTarget, SetMem, GoTo, OwnCopy
  <2> QED
    BY <1>4, <1>6, <2>1 DEF ShareFails, Share, SharesNow
<1> QED
  BY <1>1, <1>2, <1>3, <1>5, <1>6 DEF ShareStep

LEMMA OnceEnd ==
  ASSUME Reliable, TypeOK, SoleInv, OnceInv, NEW r \in Runs, EndStep(r)
  PROVE  OnceInv'
<1> USE DEF Before, Failing, AfterPost, Outside, worldVars
<1>0. mem[r] \in ManifestRecord /\ stage[r] \in {"publish", "syndicate"}
  BY DEF TypeOK
<1>1. CASE SkipCleanup(r)
  BY <1>1, OnceGoTo DEF SkipCleanup, NotYet
<1>2. ASSUME NEW next, DeleteImages(r, next),
             \/ pc[r] = "cleanup" /\ next = "recordCleanup"
             \/ pc[r] = "fail" /\ next = "recordFailCleanup"
      PROVE  OnceInv'
  <2>1. PICK m : OwnCopy(r, m, next)
    BY <1>2 DEF DeleteImages, SetMem, GoTo, OwnCopy
  <2> QED
    BY <1>2, <2>1, OnceFrame DEF DeleteImages, NotYet
<1>3. CASE Cleanup(r) \/ FailCleanup(r)
  BY <1>2, <1>3 DEF Cleanup, FailCleanup
<1>4. CASE RecordCleanup(r)
  BY <1>4, OnceSave DEF RecordCleanup, NotYet
<1>5. CASE RecordFailCleanup(r)
  BY <1>5, OnceSave DEF RecordFailCleanup, NotYet
<1>6. CASE FailWithoutCleanup(r)
  BY <1>6, OnceGoTo DEF FailWithoutCleanup, NotYet
<1>7. ASSUME NEW m, Save(r, m, "idle", "idle"), pc[r] # "idle", UNCHANGED <<stage, Outside>>,
             Unposted(feed, stories, shares) \/ Settled(m)
      PROVE  OnceInv'
  <2>1. OwnCopy(r, m, "idle") /\ disk' = m
    BY <1>7, SaveSucceeds
  <2>2. r = The /\ AtMostOnce(feed, stories, shares)
    BY <1>7, OnceBefore
  <2>3. RunOnce(m, "idle", stage[r], m, feed, stories, shares)
    BY <1>7 DEF RunOnce
  <2> QED
    BY <1>7, <2>1, <2>2, <2>3, OnceStep
<1>8. CASE Finish(r)
  <2> DEFINE m == Transition(mem[r], "published")
  <2>1. Settled(m)
    BY <1>0 DEF Settled, ManifestRecord, Transition
  <2>2. Save(r, m, "idle", "idle") /\ pc[r] = "finish" /\ UNCHANGED <<stage, Outside>>
    BY <1>8 DEF Finish
  <2> HIDE DEF m
  <2> QED
    BY <1>7, <2>1, <2>2
<1>9. CASE SetError(r)
  <2> DEFINE m == RecordFailure(mem[r], stage[r], RetryStateForFailureStage[stage[r]])
  <2>1. /\ m.failure = [stage |-> stage[r], retry |-> RetryStateForFailureStage[stage[r]]]
        /\ m.state = IF CanTransition(mem[r], "error") THEN "error" ELSE mem[r].state
    BY <1>0 DEF ManifestRecord, RecordFailure
  <2>2. Save(r, m, "idle", "idle") /\ pc[r] = "setError" /\ UNCHANGED <<stage, Outside>>
    BY <1>9 DEF SetError
  <2> HIDE DEF m
  <2>3. CASE stage[r] = "publish"
    <3>1. Unposted(feed, stories, shares)
      BY <2>2, <2>3, OnceBefore DEF RunOnce, NotYet
    <3> QED
      BY <1>7, <2>2, <3>1
  <2>4. CASE stage[r] = "syndicate"
    <3>1. Tracks(mem[r], "setError", disk)
      BY <2>2, OnceBefore
    <3>2. m.state = "error"
      BY <2>1, <3>1 DEF Tracks, CanTransition, validTransitions, States
    <3>3. m.failure.retry = "published"
      BY <2>1, <2>4 DEF RetryStateForFailureStage, FailureStages
    <3>4. Settled(m)
      BY <3>2, <3>3 DEF Settled
    <3> QED
      BY <1>7, <2>2, <3>4
  <2> QED
    BY <1>0, <2>3, <2>4
<1> QED
  BY <1>1, <1>3, <1>4, <1>5, <1>6, <1>8, <1>9 DEF EndStep

LEMMA OnceInvStep ==
  Reliable /\ TypeOK /\ SoleInv /\ OnceInv /\ [Next]_vars => OnceInv'
<1> SUFFICES ASSUME Reliable, TypeOK, SoleInv, OnceInv, [Next]_vars
             PROVE  OnceInv'
  OBVIOUS
<1>1. ASSUME NEW r \in Runs, Start(r)
      PROVE  OnceInv'
  <2>1. /\ OwnCopy(r, disk, "begin") /\ disk' = disk /\ stage'[r] = "publish"
        /\ pc[r] = "idle" /\ UNCHANGED Outside
    BY <1>1 DEF Start, SetMem, GoTo, OwnCopy, worldVars, Outside, TypeOK
  <2>2. r = The
    BY <1>1 DEF Start, MayStart, The, Reliable
  <2>3. /\ AtMostOnce(feed, stories, shares)
        /\ Unposted(feed, stories, shares) \/ Settled(disk)
    BY <2>1, <2>2 DEF OnceInv, RunOnce
  <2>4. RunOnce(disk, "begin", "publish", disk, feed, stories, shares)
    BY <2>3 DEF RunOnce, Before
  <2> QED
    BY <2>1, <2>2, <2>3, <2>4, OnceStep DEF Outside
<1>2. ASSUME NEW r \in Runs, Run(r)
      PROVE  OnceInv'
  BY <1>2, OnceEnter, OnceUpload, OnceInstagram, OnceShare, OnceEnd DEF Run
<1>3. ASSUME NEW r \in Runs, Crash(r)
      PROVE  FALSE
  BY <1>3 DEF Crash, Reliable
<1>4. CASE UNCHANGED vars
  <2>1. UNCHANGED <<disk, mem, pc, stage, feed, stories, shares>>
    BY <1>4 DEF vars, runVars, worldVars
  <2> QED
    BY <2>1 DEF OnceInv
<1> QED
  BY <1>1, <1>2, <1>3, <1>4 DEF Next

LEMMA OnceInvInit == Init => OnceInv
<1> SUFFICES ASSUME Init
             PROVE  OnceInv
  OBVIOUS
<1>1. Unposted(feed, stories, shares) /\ AtMostOnce(feed, stories, shares)
  BY DEF Init, Unposted, AtMostOnce
<1>2. \A r \in Runs : pc[r] = "idle"
  BY DEF Init
<1>3. \A r \in Runs :
        RunOnce(mem[r], "idle", stage[r], disk, feed, stories, shares)
  BY <1>1 DEF RunOnce, Before
<1> QED
  BY <1>1, <1>2, <1>3 DEF OnceInv

(* Without crashes, lost replies, failed writes and overlapping runs,      *)
(* however often calls fail and runs are retried with any options: at most *)
(* one feed post, one story and one share each, for every post             *)
(* (publisher.go:122-136, manifest.go:301-318).                            *)
THEOREM PostedAtMostOnce ==
  ASSUME Reliable
  PROVE  Spec => []PublishedAtMostOnce
<1>1. Init => SoleInv /\ OnceInv
  BY SoleInvInit, OnceInvInit
<1>2. TypeOK /\ SoleInv /\ [Next]_vars => SoleInv'
  BY SoleInvStep
<1>3. TypeOK /\ SoleInv /\ OnceInv /\ [Next]_vars => OnceInv'
  BY OnceInvStep
<1>4. OnceInv => PublishedAtMostOnce
  <2> SUFFICES ASSUME OnceInv
               PROVE  Cardinality(feed) <= 1
    BY DEF OnceInv, AtMostOnce, PublishedAtMostOnce
  <2>1. CASE feed = {}
    BY <2>1, FS_EmptySet
  <2>2. CASE feed # {}
    <3>1. PICK x : feed = {x}
      BY <2>2 DEF OnceInv, AtMostOnce
    <3> QED
      BY <3>1, FS_Singleton
  <2> QED
    BY <2>1, <2>2
<1> QED
  BY <1>1, <1>2, <1>3, <1>4, TypeCorrect, PTL DEF Spec

-----------------------------------------------------------------------------
(* A post in "publishing" has a run, under the same conditions.            *)

(* While the file says "publishing", some run is past its checks and has   *)
(* yet to record how it ends: no early return between the transition and   *)
(* the last write leaves the post there (publisher.go:214-282, 987-1000).  *)
PublishingIsHeld ==
  disk.state = "publishing"
    => \E r \in Runs : pc[r] \notin {"idle", "begin", "retried"}

(* A run past its checks goes on, or leaves the file with its outcome.     *)
Holds(label, d) ==
  label \in Before \cup {"idle"} => d.state \in {"published", "error"}

LEMMA HoldsAfterSave ==
  ASSUME Reliable, TypeOK, NEW r \in Runs, NEW m, NEW written, NEW failed,
         Save(r, m, written, failed), written \notin Before \cup {"idle"}
  PROVE  Holds(pc'[r], disk')
<1>1. pc'[r] = written
  BY SaveSucceeds DEF OwnCopy, TypeOK
<1> QED
  BY <1>1 DEF Holds

LEMMA HoldsAfterGoTo ==
  ASSUME TypeOK, NEW r \in Runs, NEW label, GoTo(r, label),
         label \notin Before \cup {"idle"}
  PROVE  Holds(pc'[r], disk')
<1>1. pc'[r] = label
  BY DEF GoTo, TypeOK
<1> QED
  BY <1>1 DEF Holds

LEMMA UploadHolds ==
  ASSUME Reliable, TypeOK, NEW r \in Runs, UploadStep(r)
  PROVE  Holds(pc'[r], disk')
<1> USE DEF Before
<1>1. CASE SkipUpload(r)
  BY <1>1, HoldsAfterGoTo DEF SkipUpload
<1>2. CASE UploadImage(r)
  BY <1>2 DEF UploadImage, UploadLoop, Holds
<1>3. CASE PrepareFails(r)
  BY <1>3, HoldsAfterGoTo DEF PrepareFails
<1>4. CASE UploadFails(r)
  BY <1>4, HoldsAfterGoTo DEF UploadFails
<1>5. CASE RecordUpload(r)
  BY <1>5, HoldsAfterSave DEF RecordUpload
<1>6. CASE PreflightFails(r)
  BY <1>6, HoldsAfterGoTo DEF PreflightFails
<1>7. CASE EnterPublishing(r)
  BY <1>7, HoldsAfterSave DEF EnterPublishing, AfterPreflight
<1>8. CASE ResumePublishing(r)
  BY <1>8, HoldsAfterGoTo DEF ResumePublishing, AfterPreflight
<1> QED
  BY <1>1, <1>2, <1>3, <1>4, <1>5, <1>6, <1>7, <1>8 DEF UploadStep

LEMMA InstagramHolds ==
  ASSUME Reliable, TypeOK, NEW r \in Runs, InstagramStep(r)
  PROVE  Holds(pc'[r], disk')
<1> USE DEF Before
<1>1. CASE InstagramError(r)
  BY <1>1, HoldsAfterGoTo DEF InstagramError
<1>2. CASE CreateChild(r)
  BY <1>2, HoldsAfterSave DEF CreateChild
<1>3. CASE ChildrenReady(r)
  BY <1>3, HoldsAfterGoTo DEF ChildrenReady
<1>4. CASE SkipParent(r)
  BY <1>4, HoldsAfterGoTo DEF SkipParent
<1>5. CASE CreateParent(r)
  BY <1>5, HoldsAfterSave DEF CreateParent
<1>6. CASE ResumeParent(r)
  BY <1>6, HoldsAfterGoTo DEF ResumeParent
<1>7. CASE ParentReady(r)
  BY <1>7, HoldsAfterGoTo DEF ParentReady
<1>8. CASE Publish(r)
  BY <1>8, HoldsAfterGoTo DEF Publish
<1>9. CASE PublishReplyLost(r)
  BY <1>9, HoldsAfterGoTo DEF PublishReplyLost
<1>10. CASE RecordPost(r)
  BY <1>10, HoldsAfterSave DEF RecordPost
<1> QED
  BY <1>1, <1>2, <1>3, <1>4, <1>5, <1>6, <1>7, <1>8, <1>9, <1>10
     DEF InstagramStep

LEMMA ShareHolds ==
  ASSUME Reliable, TypeOK, NEW r \in Runs, ShareStep(r)
  PROVE  Holds(pc'[r], disk')
<1> USE DEF Before
<1>1. CASE NoStory(r)
  BY <1>1, HoldsAfterGoTo DEF NoStory, AfterStory
<1>2. CASE PostStory(r)
  BY <1>2, HoldsAfterSave DEF PostStory, AfterStory
<1>3. CASE RecordShares(r)
  <2> DEFINE ending == IF opts[r].strict THEN "fail" ELSE "cleanup"
  <2>1. PICK w \in {ending, "cleanup"} : Save(r, mem[r], w, ending)
    BY <1>3 DEF RecordShares
  <2> QED
    BY <2>1, HoldsAfterSave
<1>4. ASSUME NEW t \in Targets,
             SkipTarget(r, t) \/ ShareFails(r, t) \/ Share(r, t)
      PROVE  Holds(pc'[r], disk')
  <2>1. GoTo(r, AfterTarget(t))
    BY <1>4 DEF SkipTarget, ShareFails, Share, SetTarget
  <2> QED
    BY <2>1, HoldsAfterGoTo DEF AfterTarget
<1> QED
  BY <1>1, <1>2, <1>3, <1>4 DEF ShareStep

LEMMA EndHolds ==
  ASSUME Reliable, TypeOK, SoleInv, NEW r \in Runs, EndStep(r)
  PROVE  Holds(pc'[r], disk')
<1> USE DEF Before
<1>0. mem[r] \in ManifestRecord
  BY DEF TypeOK
<1>1. CASE SkipCleanup(r)
  BY <1>1, HoldsAfterGoTo DEF SkipCleanup
<1>2. CASE Cleanup(r) \/ FailCleanup(r)
  BY <1>2, HoldsAfterGoTo DEF Cleanup, FailCleanup, DeleteImages
<1>3. CASE RecordCleanup(r)
  BY <1>3, HoldsAfterSave DEF RecordCleanup
<1>4. CASE RecordFailCleanup(r)
  BY <1>4, HoldsAfterSave DEF RecordFailCleanup
<1>5. CASE FailWithoutCleanup(r)
  BY <1>5, HoldsAfterGoTo DEF FailWithoutCleanup
<1>6. CASE Finish(r)
  <2> DEFINE m == Transition(mem[r], "published")
  <2>1. Save(r, m, "idle", "idle")
    BY <1>6 DEF Finish
  <2>2. m.state = "published"
    BY <1>0 DEF ManifestRecord, Transition
  <2> HIDE DEF m
  <2>3. disk' = m
    BY <2>1, SaveSucceeds
  <2> QED
    BY <2>2, <2>3 DEF Holds
<1>7. CASE SetError(r)
  <2> DEFINE m == RecordFailure(mem[r], stage[r], RetryStateForFailureStage[stage[r]])
  <2>1. Save(r, m, "idle", "idle") /\ pc[r] = "setError"
    BY <1>7 DEF SetError
  <2>2. m.state = IF CanTransition(mem[r], "error") THEN "error" ELSE mem[r].state
    BY <1>0 DEF ManifestRecord, RecordFailure
  <2> HIDE DEF m
  <2>3. Tracks(mem[r], "setError", disk)
    BY <2>1 DEF SoleInv, Overlaps, Reliable
  <2>4. m.state = "error"
    BY <2>2, <2>3 DEF Tracks, CanTransition, validTransitions, States
  <2>5. disk' = m
    BY <2>1, SaveSucceeds
  <2> QED
    BY <2>4, <2>5 DEF Holds
<1> QED
  BY <1>1, <1>2, <1>3, <1>4, <1>5, <1>6, <1>7 DEF EndStep

(* No run is past its checks but the one that may run, so a run at its     *)
(* checks does not find the post in "publishing", and does not put it      *)
(* there: a retry goes to a state that "error" may go to.                  *)
LEMMA CheckedFirst ==
  ASSUME Reliable, TypeOK, SoleInv, PublishingIsHeld, NEW r \in Runs, Run(r),
         pc[r] \in Before
  PROVE  disk'.state # "publishing"
<1>1. PICK m, label : Moves(r, m, label)
  BY RunMoves
<1>2. r = The /\ Tracks(mem[r], pc[r], disk) /\ pc[r] # "idle"
  BY <1>1 DEF Moves, SoleInv, Overlaps, Reliable
<1>3. disk.state # "publishing"
  BY <1>2 DEF PublishingIsHeld, SoleInv, Overlaps, Reliable, Before
<1>4. CASE Retries(r, m, label)
  <2>1. mem[r].state = "error" /\ m.state \in validTransitions["error"]
    BY <1>4 DEF Retries, CanPrepareRetry, CanTransition
  <2>2. "publishing" \notin validTransitions["error"]
    BY DEF validTransitions, States
  <2> QED
    BY <1>3, <1>4, <2>1, <2>2 DEF Retries
<1>5. CASE ~Retries(r, m, label)
  <2>1. disk' = disk
    BY <1>1, <1>5 DEF Moves, Steady, Admitted, EntersPublishing, Ends, Before
  <2> QED
    BY <1>3, <2>1
<1> QED
  BY <1>4, <1>5

LEMMA HeldStep ==
  Reliable /\ TypeOK /\ SoleInv /\ PublishingIsHeld /\ [Next]_vars
    => PublishingIsHeld'
<1> SUFFICES ASSUME Reliable, TypeOK, SoleInv, PublishingIsHeld, [Next]_vars
             PROVE  PublishingIsHeld'
  OBVIOUS
<1>1. ASSUME NEW r \in Runs, Start(r)
      PROVE  PublishingIsHeld'
  <2>1. r = The /\ pc[r] = "idle" /\ disk' = disk
    BY <1>1 DEF Start, MayStart, The, Reliable
  <2>2. disk.state # "publishing"
    BY <2>1 DEF PublishingIsHeld, SoleInv, Overlaps, Reliable
  <2> QED
    BY <2>1, <2>2 DEF PublishingIsHeld
<1>2. ASSUME NEW r \in Runs, Run(r)
      PROVE  PublishingIsHeld'
  <2>1. CASE pc[r] \in Before
    BY <1>2, <2>1, CheckedFirst DEF PublishingIsHeld
  <2>2. CASE pc[r] \notin Before
    <3>1. ~Enter(r)
      BY <2>2 DEF Enter, RetryFromError, RetryDue, Refuse, RejectTooMany,
                  VerifyToken, AtChecks, Before
    <3>2. Holds(pc'[r], disk')
      BY <1>2, <3>1, UploadHolds, InstagramHolds, ShareHolds, EndHolds DEF Run
    <3> QED
      BY <3>2 DEF Holds, PublishingIsHeld, Before
  <2> QED
    BY <2>1, <2>2
<1>3. ASSUME NEW r \in Runs, Crash(r)
      PROVE  FALSE
  BY <1>3 DEF Crash, Reliable
<1>4. CASE UNCHANGED vars
  BY <1>4 DEF PublishingIsHeld, vars, runVars
<1> QED
  BY <1>1, <1>2, <1>3, <1>4 DEF Next

LEMMA HeldInit == Init => PublishingIsHeld
<1> SUFFICES ASSUME Init
             PROVE  disk.state # "publishing"
  BY DEF PublishingIsHeld
<1>1. PICK n \in ImageCounts :
        disk \in {NewManifest(n, "approved", TRUE),
              NewManifest(n, "scheduled", TRUE),
              NewManifest(n, "pending_review", FALSE),
              NewManifest(n, "error", TRUE),
              [NewManifest(n, "error", FALSE) EXCEPT
                 !.failure = [stage |-> "enrich", retry |-> "validated"]]}
  BY DEF Init, InitialManifests
<1> QED
  BY <1>1 DEF NewManifest

(* Without crashes, failed writes and overlapping runs, a post whose file  *)
(* says "publishing" has a run that has yet to record its end, for any     *)
(* number of runs one after another, images and options: no early return   *)
(* leaves the post there (publisher.go:214-282, 987-1000). A persistent    *)
(* 429 is an error like others (client.go:221); the documents want the     *)
(* post to stay in "publishing" there (instagram_publishing.md:148).       *)
THEOREM PublishingIsNotAbandoned ==
  ASSUME Reliable
  PROVE  Spec => []PublishingIsHeld
<1>1. Init => SoleInv /\ PublishingIsHeld
  BY SoleInvInit, HeldInit
<1>2. TypeOK /\ SoleInv /\ [Next]_vars => SoleInv'
  BY SoleInvStep
<1>3. TypeOK /\ SoleInv /\ PublishingIsHeld /\ [Next]_vars
        => PublishingIsHeld'
  BY HeldStep
<1> QED
  BY <1>1, <1>2, <1>3, TypeCorrect, PTL DEF Spec

(* The part of LivePostIsRecorded that is an invariant: a live post is     *)
(* recorded, as published or as failed and retried from there, or a run is *)
(* past its checks and has yet to record it (publisher.go:253-304).        *)
LivePostIsHeld ==
  feed # {} =>
    \/ disk.state = "published"
    \/ disk.state = "error" /\ disk.failure.retry = "published"
    \/ \E r \in Runs : pc[r] \notin {"idle", "begin", "retried"}

(* Only a run posts.                                                       *)
SomebodyPosts == feed # {} => Runs # {}

(* Without crashes, lost replies and failed writes no run, of any number   *)
(* one after another, ends with a live post that is not recorded, and so   *)
(* none can begin that would post it again (publisher.go:253-304).         *)
THEOREM LivePostsAreHeld ==
  ASSUME Reliable
  PROVE  Spec => []LivePostIsHeld
<1>1. Init => SoleInv /\ OnceInv /\ SomebodyPosts
  BY SoleInvInit, OnceInvInit DEF Init, SomebodyPosts
<1>2. TypeOK /\ SoleInv /\ [Next]_vars => SoleInv'
  BY SoleInvStep
<1>3. TypeOK /\ SoleInv /\ OnceInv /\ [Next]_vars => OnceInv'
  BY OnceInvStep
<1>4. SomebodyPosts /\ [Next]_vars => SomebodyPosts'
  BY DEF SomebodyPosts, Next, vars, worldVars
<1>5. OnceInv /\ SomebodyPosts => LivePostIsHeld
  <2> SUFFICES ASSUME OnceInv, SomebodyPosts, feed # {}, ~Settled(disk)
               PROVE  \E r \in Runs : pc[r] \notin Before \cup {"idle"}
    BY DEF LivePostIsHeld, Settled, Before
  <2>1. The \in Runs
    BY DEF SomebodyPosts, The
  <2> QED
    BY <2>1 DEF OnceInv, RunOnce, Unposted
<1> QED
  BY <1>1, <1>2, <1>3, <1>4, <1>5, TypeCorrect, PTL DEF Spec

=============================================================================
