----------------------------- MODULE Publisher ------------------------------
(***************************************************************************)
(* internal/publisher: Publish(ctx, m, manifestPath) for one post.         *)
(*                                                                         *)
(* Each run is a process (a goroutine of the TUI, or a ppw publish         *)
(* command) with its own copy of the manifest, read when it starts. It     *)
(* uploads the images to the bucket, creates media containers, publishes   *)
(* the container, optionally posts a story and shares the post, deletes    *)
(* the images and records the result. The manifest file is rewritten after *)
(* every sub-step, always with the whole copy of the run. Every call to a  *)
(* service and every rewrite is a step of its own, so that a crash, or     *)
(* another run on the same post, can come between any two of them.         *)
(*                                                                         *)
(* Calls to services may always fail. Faults names what else may happen:   *)
(*   "crash"  - a run dies between two steps                               *)
(*   "write"  - rewriting manifest.json fails, the old file stays          *)
(*   "lost"   - a publish call takes effect but its reply is an error      *)
(*   "delete" - deleting an object from the bucket fails                   *)
(***************************************************************************)
EXTENDS Manifest, FiniteSets

CONSTANTS
  Runs,           \* processes that may run Publish on the post
  ImageCounts,    \* numbers of images the post may have
  StoryEnabled,   \* review.story_enabled
  OptionSets,     \* the Options a run may be started with
  Faults,         \* see above
  MaxStarts,      \* bound: how many runs are ever started
  Overlapping,    \* bound: image counts of the posts on which runs overlap,
  MaxOverlap      \* bound: and how many runs are started on such a post

Targets == {"facebook", "threads"}

(* publisher.Options; targets are the enabled syndication destinations.    *)
Options == [dry : BOOLEAN, cleanup : BOOLEAN, strict : BOOLEAN,
            targets : SUBSET Targets]

FaultKinds == {"crash", "write", "lost", "delete"}

maxCarousel == 10

ASSUME ConstantsAssumption ==
  /\ ImageCounts \subseteq Nat
  /\ StoryEnabled \in BOOLEAN
  /\ OptionSets \subseteq Options
  /\ Faults \subseteq FaultKinds
  /\ MaxStarts \in Nat
  /\ Overlapping \subseteq ImageCounts
  /\ MaxOverlap \in Nat

SyndicationStatus == {"none", "published", "failed", "skipped", "dry_run"}

(* The parts of manifest.json a publish run reads or writes. urls abstracts *)
(* r2_keys and r2_urls, which are recorded together and for all images.    *)
(* children counts container_ids.children, parent is container_ids.single  *)
(* of a one-image post and container_ids.carousel of a longer one; images  *)
(* is len(images).                                                         *)
ManifestRecord ==
  [images    : Nat,
   state     : States,
   failure   : Failure \cup {NoFailure},
   approved  : BOOLEAN,
   urls      : {"none", "real", "dry"},
   cleaned   : BOOLEAN,
   children  : Nat,
   parent    : Int,
   postID    : Int,
   permalink : BOOLEAN,
   synd      : [Targets -> SyndicationStatus]]

Labels == {"idle", "begin", "retried", "upload", "preflight", "children",
           "parent", "pollParent", "publish", "recordPost", "story",
           "facebook", "threads", "recordShares", "cleanup",
           "recordCleanup", "finish", "fail", "recordFailCleanup",
           "setError"}

VARIABLES
  disk,        \* manifest.json
  mem,         \* each run's copy of the manifest
  pc,          \* the next step of each run
  idx,         \* each run's position in the upload loop
  stage,       \* the failure stage a failing run records
  opts,        \* the options each run was started with
  starts,      \* runs started so far
  objects,     \* images in the bucket, under the post's keys
  containers,  \* feed containers created so far; their ids are 1..containers
  feed,        \* containers that were published: one feed post each
  stories,     \* stories posted
  shares       \* posts created on each syndication target

runVars == <<mem, pc, idx, stage, opts, starts>>
worldVars == <<objects, containers, feed, stories, shares>>
vars == <<disk, runVars, worldVars>>

-----------------------------------------------------------------------------
(* Manifests a post may have before it was first published.                *)

NewManifest(n, s, ok) ==
  [images |-> n, state |-> s, failure |-> NoFailure, approved |-> ok, urls |-> "none",
   cleaned |-> FALSE, children |-> 0, parent |-> NoId, postID |-> NoId,
   permalink |-> FALSE, synd |-> [t \in Targets |-> "none"]]

(* approved by review, scheduled, not reviewed yet, failed before metadata *)
(* existed, failed during enrichment.                                      *)
InitialManifests ==
  UNION {{NewManifest(n, "approved", TRUE), NewManifest(n, "scheduled", TRUE),
          NewManifest(n, "pending_review", FALSE), NewManifest(n, "error", TRUE),
          [NewManifest(n, "error", FALSE) EXCEPT
             !.failure = [stage |-> "enrich", retry |-> "validated"]]} :
         n \in ImageCounts}

Init ==
  /\ disk \in InitialManifests
  /\ mem = [r \in Runs |-> disk]
  /\ pc = [r \in Runs |-> "idle"]
  /\ idx = [r \in Runs |-> 0]
  /\ stage = [r \in Runs |-> "publish"]
  /\ \E o \in OptionSets : opts = [r \in Runs |-> o]
  /\ starts = 0
  /\ objects = {}
  /\ containers = 0
  /\ feed = {}
  /\ stories = 0
  /\ shares = [t \in Targets |-> 0]

-----------------------------------------------------------------------------
(* Control of a run.                                                       *)

GoTo(r, label) == pc' = [pc EXCEPT ![r] = label]

SetMem(r, m) == mem' = [mem EXCEPT ![r] = m]

(* m.Write(manifestPath): the whole copy replaces the file, or nothing.    *)
Save(r, m, written, failed) ==
  /\ SetMem(r, m)
  /\ \/ disk' = m /\ GoTo(r, written)
     \/ "write" \in Faults /\ UNCHANGED disk /\ GoTo(r, failed)

(* Mutant of Survivors: a dry run deletes from the real bucket.            *)
SurvivorsOfRealHost(r, keys) == {objects \ keys}

(* What is left of a set of bucket keys after a best-effort deletion.      *)
Survivors(r, keys) ==
  IF opts[r].dry THEN {objects}
  ELSE {(objects \ keys) \cup kept :
          kept \in IF "delete" \in Faults THEN SUBSET (objects \cap keys)
                                          ELSE {{}}}

RecordedKeys(m) == IF m.urls = "none" THEN {} ELSE 1..m.images

(* Nothing in the code keeps a second run off a post; a bound does: other  *)
(* posts are run by one process again and again, no matter which.          *)
MayStart(r) ==
  IF disk.images \in Overlapping
  THEN starts < MaxOverlap
  ELSE starts < MaxStarts /\ r = CHOOSE q \in Runs : TRUE

Start(r) ==
  /\ pc[r] = "idle"
  /\ MayStart(r)
  /\ starts' = starts + 1
  /\ SetMem(r, disk)
  /\ GoTo(r, "begin")
  /\ \E o \in OptionSets : opts' = [opts EXCEPT ![r] = o]
  /\ idx' = [idx EXCEPT ![r] = 0]
  /\ stage' = [stage EXCEPT ![r] = "publish"]
  /\ UNCHANGED <<disk, worldVars>>

(* The process dies, the manifest file and the services keep their state.  *)
Crash(r) ==
  /\ "crash" \in Faults
  /\ pc[r] # "idle"
  /\ GoTo(r, "idle")
  /\ UNCHANGED <<disk, mem, idx, stage, opts, starts, worldVars>>

-----------------------------------------------------------------------------
(* Entry: retry of a failed post, and the checks before any call.          *)

(* Mutant of resetPublishArtifactsForRetry: r2_cleaned is not reset.       *)
resetKeepingCleanedFlag(m) ==
  [m EXCEPT !.urls = "none", !.children = 0, !.parent = NoId,
            !.postID = NoId, !.permalink = FALSE]

(* A retry of a failed publish forgets containers, keys and post ids.      *)
resetPublishArtifactsForRetry(m) ==
  [m EXCEPT !.urls = "none", !.cleaned = FALSE, !.children = 0,
            !.parent = NoId, !.postID = NoId, !.permalink = FALSE]

RetriedManifest(m) ==
  IF EffectiveFailureStage(m) = "publish"
  THEN resetPublishArtifactsForRetry(PrepareRetry(m))
  ELSE PrepareRetry(m)

RetryDue(r) ==
  pc[r] = "begin" /\ mem[r].approved /\ CanPrepareRetry(mem[r])

RetryFromError(r) ==
  /\ RetryDue(r)
  /\ Save(r, RetriedManifest(mem[r]), "retried", "idle")
  /\ UNCHANGED <<idx, stage, opts, starts, worldVars>>

(* The run is past the retry block of Publish.                             *)
AtChecks(r) == pc[r] \in {"begin", "retried"} /\ ~RetryDue(r)

(* Mutant of Publishable: a published post may be published again.         *)
PublishableTwice(m) ==
  /\ m.state \in {"approved", "publishing", "published"}
  /\ m.approved
  /\ m.images > 0

(* Mutant of Publishable: scheduled posts are let in as well.              *)
PublishableWhenScheduled(m) ==
  /\ m.state \in {"approved", "scheduled", "publishing"}
  /\ m.approved
  /\ m.images > 0

Publishable(m) ==
  /\ m.state \in {"approved", "publishing"}
  /\ m.approved
  /\ m.images > 0

(* The run ends with an error that is not recorded in the manifest.        *)
Refuse(r) ==
  /\ AtChecks(r)
  /\ ~Publishable(mem[r])
  /\ GoTo(r, "idle")
  /\ UNCHANGED <<disk, mem, idx, stage, opts, starts, worldVars>>

RejectTooMany(r) ==
  /\ AtChecks(r)
  /\ Publishable(mem[r])
  /\ mem[r].images > maxCarousel
  /\ GoTo(r, "fail")
  /\ UNCHANGED <<disk, mem, idx, stage, opts, starts, worldVars>>

(* A token that is refused ends the run, again without recording it.       *)
VerifyToken(r) ==
  /\ AtChecks(r)
  /\ Publishable(mem[r])
  /\ mem[r].images <= maxCarousel
  /\ \/ GoTo(r, "upload")
     \/ ~opts[r].dry /\ GoTo(r, "idle")
  /\ UNCHANGED <<disk, mem, idx, stage, opts, starts, worldVars>>

-----------------------------------------------------------------------------
(* uploadImages                                                            *)

SkipUpload(r) ==
  /\ pc[r] = "upload"
  /\ mem[r].urls # "none"
  /\ GoTo(r, "preflight")
  /\ UNCHANGED <<disk, mem, idx, stage, opts, starts, worldVars>>

UploadLoop(r) ==
  /\ pc[r] = "upload"
  /\ mem[r].urls = "none"
  /\ idx[r] < mem[r].images

(* One of the two attempts succeeds.                                       *)
UploadImage(r) ==
  /\ UploadLoop(r)
  /\ idx' = [idx EXCEPT ![r] = @ + 1]
  /\ objects' = IF opts[r].dry THEN objects ELSE objects \cup {idx[r] + 1}
  /\ UNCHANGED <<disk, mem, pc, stage, opts, starts, containers, feed,
                 stories, shares>>

(* The image cannot be read or normalised: what was uploaded stays.        *)
PrepareFails(r) ==
  /\ UploadLoop(r)
  /\ GoTo(r, "fail")
  /\ UNCHANGED <<disk, mem, idx, stage, opts, starts, worldVars>>

(* Both attempts fail: the images before this one are deleted. The object  *)
(* of this one may be there all the same.                                  *)
UploadFails(r) ==
  /\ UploadLoop(r)
  /\ ~opts[r].dry
  /\ \E left \in Survivors(r, 1..idx[r]) :
       objects' \in {left, left \cup {idx[r] + 1}}
  /\ GoTo(r, "fail")
  /\ UNCHANGED <<disk, mem, idx, stage, opts, starts, containers, feed,
                 stories, shares>>

RecordUpload(r) ==
  /\ pc[r] = "upload"
  /\ mem[r].urls = "none"
  /\ idx[r] = mem[r].images
  /\ Save(r, [mem[r] EXCEPT !.urls = IF opts[r].dry THEN "dry" ELSE "real"],
          "preflight", "fail")
  /\ UNCHANGED <<idx, stage, opts, starts, worldVars>>

-----------------------------------------------------------------------------
(* preflightMedia, then the transition to "publishing". A probe that       *)
(* cannot reach the object is only a warning, so passing proves nothing    *)
(* about the bucket.                                                       *)

AfterPreflight(r) == IF mem[r].images = 1 THEN "parent" ELSE "children"

PreflightFails(r) ==
  /\ pc[r] = "preflight"
  /\ GoTo(r, "fail")
  /\ UNCHANGED <<disk, mem, idx, stage, opts, starts, worldVars>>

EnterPublishing(r) ==
  /\ pc[r] = "preflight"
  /\ mem[r].state = "approved"
  /\ Save(r, Transition(mem[r], "publishing"), AfterPreflight(r), "idle")
  /\ UNCHANGED <<idx, stage, opts, starts, worldVars>>

ResumePublishing(r) ==
  /\ pc[r] = "preflight"
  /\ mem[r].state # "approved"
  /\ GoTo(r, AfterPreflight(r))
  /\ UNCHANGED <<disk, mem, idx, stage, opts, starts, worldVars>>

-----------------------------------------------------------------------------
(* createAndPublish. Instagram fetches an image when its container is      *)
(* created, so creation only succeeds for an object that is in the bucket. *)

Fetchable(r, i) == mem[r].urls = "real" /\ i \in objects

(* Mutant of InstagramError: an error of media_publish is ignored.         *)
InstagramErrorIgnored(r) ==
  /\ ~opts[r].dry
  /\ \/ pc[r] \in {"children", "pollParent", "publish"}
     \/ pc[r] = "parent" /\ mem[r].parent = NoId
  /\ GoTo(r, IF pc[r] = "publish" THEN "recordPost" ELSE "fail")
  /\ UNCHANGED <<disk, mem, idx, stage, opts, starts, worldVars>>

(* Every call to Instagram may answer with an error.                       *)
InstagramError(r) ==
  /\ ~opts[r].dry
  /\ \/ pc[r] \in {"children", "pollParent", "publish"}
     \/ pc[r] = "parent" /\ mem[r].parent = NoId
  /\ GoTo(r, "fail")
  /\ UNCHANGED <<disk, mem, idx, stage, opts, starts, worldVars>>

(* Resume: children that are already recorded are not created again.       *)
CreateChild(r) ==
  /\ pc[r] = "children"
  /\ ~opts[r].dry
  /\ mem[r].children < mem[r].images
  /\ Fetchable(r, mem[r].children + 1)
  /\ Save(r, [mem[r] EXCEPT !.children = @ + 1], "children", "fail")
  /\ UNCHANGED <<idx, stage, opts, starts, worldVars>>

(* Mutant of ChildrenReady: the loop over the images ends one too early.   *)
ChildrenReadyTooEarly(r) ==
  /\ pc[r] = "children"
  /\ opts[r].dry \/ mem[r].children >= mem[r].images - 1
  /\ GoTo(r, "parent")
  /\ UNCHANGED <<disk, mem, idx, stage, opts, starts, worldVars>>

(* All children exist and answered FINISHED.                               *)
ChildrenReady(r) ==
  /\ pc[r] = "children"
  /\ opts[r].dry \/ mem[r].children = mem[r].images
  /\ GoTo(r, "parent")
  /\ UNCHANGED <<disk, mem, idx, stage, opts, starts, worldVars>>

(* A dry run stops short of creating the container and reports success.    *)
SkipParent(r) ==
  /\ pc[r] = "parent"
  /\ mem[r].parent = NoId
  /\ opts[r].dry
  /\ GoTo(r, "story")
  /\ UNCHANGED <<disk, mem, idx, stage, opts, starts, worldVars>>

CreateParent(r) ==
  /\ pc[r] = "parent"
  /\ mem[r].parent = NoId
  /\ ~opts[r].dry
  /\ mem[r].images = 1 => Fetchable(r, 1)
  /\ containers' = containers + 1
  /\ Save(r, [mem[r] EXCEPT !.parent = containers + 1], "pollParent", "fail")
  /\ UNCHANGED <<idx, stage, opts, starts, objects, feed, stories, shares>>

ResumeParent(r) ==
  /\ pc[r] = "parent"
  /\ mem[r].parent # NoId
  /\ GoTo(r, "pollParent")
  /\ UNCHANGED <<disk, mem, idx, stage, opts, starts, worldVars>>

(* PollContainer returns only for FINISHED; a container that has been      *)
(* published answers with another status until the polls run out.          *)
ParentReady(r) ==
  /\ pc[r] = "pollParent"
  /\ opts[r].dry \/ mem[r].parent \notin feed
  /\ GoTo(r, "publish")
  /\ UNCHANGED <<disk, mem, idx, stage, opts, starts, worldVars>>

(* media_publish. The no-op client of a dry run answers with a fixed id.   *)
Publish(r) ==
  /\ pc[r] = "publish"
  /\ opts[r].dry \/ mem[r].parent \notin feed
  /\ feed' = IF opts[r].dry THEN feed ELSE feed \cup {mem[r].parent}
  /\ SetMem(r, [mem[r] EXCEPT !.postID = IF opts[r].dry THEN DryRunId
                                         ELSE mem[r].parent])
  /\ GoTo(r, "recordPost")
  /\ UNCHANGED <<disk, idx, stage, opts, starts, objects, containers,
                 stories, shares>>

(* The post is on the feed, the reply is lost: the run sees a failure.     *)
PublishReplyLost(r) ==
  /\ "lost" \in Faults
  /\ pc[r] = "publish"
  /\ ~opts[r].dry
  /\ mem[r].parent \notin feed
  /\ feed' = feed \cup {mem[r].parent}
  /\ GoTo(r, "fail")
  /\ UNCHANGED <<disk, mem, idx, stage, opts, starts, objects, containers,
                 stories, shares>>

(* The permalink is fetched best-effort, then the post is recorded.        *)
RecordPost(r) ==
  /\ pc[r] = "recordPost"
  /\ \E link \in {mem[r].permalink, TRUE} :
       Save(r, [mem[r] EXCEPT !.permalink = link], "story", "fail")
  /\ UNCHANGED <<idx, stage, opts, starts, worldVars>>

-----------------------------------------------------------------------------
(* publishStory and syndicate: failures do not undo the feed post.         *)

AfterStory(r) == IF opts[r].targets = {} THEN "cleanup" ELSE "facebook"

(* The story is off, or the run is dry, or one of its calls fails.         *)
NoStory(r) ==
  /\ pc[r] = "story"
  /\ GoTo(r, AfterStory(r))
  /\ UNCHANGED <<disk, mem, idx, stage, opts, starts, worldVars>>

PostStory(r) ==
  /\ pc[r] = "story"
  /\ StoryEnabled
  /\ ~opts[r].dry
  /\ \E i \in 1..mem[r].images : Fetchable(r, i)
  /\ stories' = stories + 1
  /\ Save(r, mem[r], AfterStory(r), AfterStory(r))
  /\ UNCHANGED <<idx, stage, opts, starts, objects, containers, feed, shares>>

AfterTarget(t) == IF t = "facebook" THEN "threads" ELSE "recordShares"

SetTarget(r, t, status) ==
  /\ SetMem(r, [mem[r] EXCEPT !.synd[t] = status])
  /\ GoTo(r, AfterTarget(t))

(* No call: the target is off, already published, or the run is dry.       *)
SkipTarget(r, t) ==
  /\ pc[r] = t
  /\ \/ t \notin opts[r].targets /\ SetMem(r, mem[r]) /\ GoTo(r, AfterTarget(t))
     \/ /\ t \in opts[r].targets
        /\ mem[r].synd[t] = "published"
        /\ SetTarget(r, t, "skipped")
     \/ /\ t \in opts[r].targets
        /\ mem[r].synd[t] # "published"
        /\ opts[r].dry
        /\ SetTarget(r, t, "dry_run")
  /\ UNCHANGED <<disk, idx, stage, opts, starts, worldVars>>

SharesNow(r, t) ==
  /\ pc[r] = t
  /\ t \in opts[r].targets
  /\ mem[r].synd[t] # "published"
  /\ ~opts[r].dry

(* The client is missing, the permalink is missing, or the call fails.     *)
ShareFails(r, t) ==
  /\ SharesNow(r, t)
  /\ SetTarget(r, t, "failed")
  /\ UNCHANGED <<disk, idx, stage, opts, starts, worldVars>>

(* The share is posted; a lost reply records it as failed.                 *)
Share(r, t) ==
  /\ SharesNow(r, t)
  /\ t = "facebook" => mem[r].permalink
  /\ shares' = [shares EXCEPT ![t] = @ + 1]
  /\ \/ SetTarget(r, t, "published")
     \/ "lost" \in Faults /\ SetTarget(r, t, "failed")
  /\ UNCHANGED <<disk, idx, stage, opts, starts, objects, containers, feed,
                 stories>>

SyndicationFailed(r) ==
  \E t \in opts[r].targets : mem[r].synd[t] = "failed"

(* Mutant of RecordShares: strict failures are filed under "publish".      *)
RecordSharesAsPublish(r) ==
  LET ending == IF opts[r].strict THEN "fail" ELSE "cleanup" IN
  /\ pc[r] = "recordShares"
  /\ Save(r, mem[r], IF SyndicationFailed(r) THEN ending ELSE "cleanup",
          ending)
  /\ UNCHANGED <<idx, stage, opts, starts, worldVars>>

(* A failure of the write counts as a failure of the syndication.          *)
RecordShares(r) ==
  LET ending == IF opts[r].strict THEN "fail" ELSE "cleanup" IN
  /\ pc[r] = "recordShares"
  /\ Save(r, mem[r], IF SyndicationFailed(r) THEN ending ELSE "cleanup",
          ending)
  /\ stage' = [stage EXCEPT ![r] = IF pc'[r] = "fail" THEN "syndicate" ELSE @]
  /\ UNCHANGED <<idx, opts, starts, worldVars>>

-----------------------------------------------------------------------------
(* cleanupR2 and the last transition.                                      *)

SkipCleanup(r) ==
  /\ pc[r] = "cleanup"
  /\ mem[r].cleaned
  /\ GoTo(r, "finish")
  /\ UNCHANGED <<disk, mem, idx, stage, opts, starts, worldVars>>

(* The flag is set whether or not every deletion succeeded.                *)
DeleteImages(r, next) ==
  /\ ~mem[r].cleaned
  /\ objects' \in Survivors(r, RecordedKeys(mem[r]))
  /\ SetMem(r, [mem[r] EXCEPT !.cleaned = TRUE])
  /\ GoTo(r, next)
  /\ UNCHANGED <<disk, idx, stage, opts, starts, containers, feed, stories,
                 shares>>

Cleanup(r) == pc[r] = "cleanup" /\ DeleteImages(r, "recordCleanup")

RecordCleanup(r) ==
  /\ pc[r] = "recordCleanup"
  /\ Save(r, mem[r], "finish", "finish")
  /\ UNCHANGED <<idx, stage, opts, starts, worldVars>>

Finish(r) ==
  /\ pc[r] = "finish"
  /\ CanTransition(mem[r], "published")
  /\ Save(r, Transition(mem[r], "published"), "idle", "idle")
  /\ UNCHANGED <<idx, stage, opts, starts, worldVars>>

-----------------------------------------------------------------------------
(* fail: optional cleanup, then the dead-letter entry.                     *)

CleansOnFailure(r) ==
  /\ opts[r].cleanup
  /\ ~mem[r].cleaned
  /\ RecordedKeys(mem[r]) # {}

FailCleanup(r) ==
  pc[r] = "fail" /\ CleansOnFailure(r) /\ DeleteImages(r, "recordFailCleanup")

RecordFailCleanup(r) ==
  /\ pc[r] = "recordFailCleanup"
  /\ Save(r, mem[r], "setError", "setError")
  /\ UNCHANGED <<idx, stage, opts, starts, worldVars>>

FailWithoutCleanup(r) ==
  /\ pc[r] = "fail"
  /\ ~CleansOnFailure(r)
  /\ GoTo(r, "setError")
  /\ UNCHANGED <<disk, mem, idx, stage, opts, starts, worldVars>>

(* Mutant of SetError: the failure is recorded in memory only.             *)
SetErrorUnsaved(r) ==
  /\ pc[r] = "setError"
  /\ SetMem(r, RecordFailure(mem[r], stage[r],
                             RetryStateForFailureStage[stage[r]]))
  /\ GoTo(r, "idle")
  /\ UNCHANGED <<disk, idx, stage, opts, starts, worldVars>>

(* A write that fails here is only logged: the file keeps its old state.   *)
SetError(r) ==
  /\ pc[r] = "setError"
  /\ Save(r, RecordFailure(mem[r], stage[r], RetryStateForFailureStage[stage[r]]),
          "idle", "idle")
  /\ UNCHANGED <<idx, stage, opts, starts, worldVars>>

-----------------------------------------------------------------------------
Enter(r) == RetryFromError(r) \/ Refuse(r) \/ RejectTooMany(r) \/ VerifyToken(r)

UploadStep(r) ==
  \/ SkipUpload(r) \/ UploadImage(r) \/ PrepareFails(r) \/ UploadFails(r)
  \/ RecordUpload(r) \/ PreflightFails(r) \/ EnterPublishing(r)
  \/ ResumePublishing(r)

InstagramStep(r) ==
  \/ InstagramError(r) \/ CreateChild(r) \/ ChildrenReady(r) \/ SkipParent(r)
  \/ CreateParent(r) \/ ResumeParent(r) \/ ParentReady(r) \/ Publish(r)
  \/ PublishReplyLost(r) \/ RecordPost(r)

ShareStep(r) ==
  \/ NoStory(r) \/ PostStory(r) \/ RecordShares(r)
  \/ \E t \in Targets : SkipTarget(r, t) \/ ShareFails(r, t) \/ Share(r, t)

EndStep(r) ==
  \/ SkipCleanup(r) \/ Cleanup(r) \/ RecordCleanup(r) \/ Finish(r)
  \/ FailCleanup(r) \/ RecordFailCleanup(r) \/ FailWithoutCleanup(r)
  \/ SetError(r)

Run(r) == Enter(r) \/ UploadStep(r) \/ InstagramStep(r) \/ ShareStep(r) \/ EndStep(r)

Next == \E r \in Runs : Start(r) \/ Run(r) \/ Crash(r)

Spec == Init /\ [][Next]_vars

(* A run that is neither dead nor waiting goes on; nobody has to start one. *)
FairSpec == Spec /\ \A r \in Runs : WF_vars(Run(r))

=============================================================================
