------------------------ MODULE PublisherProperties -------------------------
(***************************************************************************)
(* What a publish run may and must do: invariants, action properties,      *)
(* liveness, the refinement of PostLifecycle, and a claim of the           *)
(* repository's documents that the code does not keep.                     *)
(***************************************************************************)
EXTENDS Publisher

(* Every variable has its type: the copies of the manifest stay manifests  *)
(* (publisher.go rewrites the file only with such a copy).                 *)
TypeOK ==
  /\ disk \in ManifestRecord
  /\ mem \in [Runs -> ManifestRecord]
  /\ pc \in [Runs -> Labels]
  /\ idx \in [Runs -> Nat]
  /\ stage \in [Runs -> {"publish", "syndicate"}]
  /\ opts \in [Runs -> OptionSets]
  /\ starts \in Nat
  /\ objects \subseteq Nat
  /\ containers \in Nat
  /\ feed \subseteq Int
  /\ stories \in Nat
  /\ shares \in [Targets -> Nat]

(* A manifest that says "published", or that failed at syndication and so  *)
(* will be retried from "published", names a post that really is on the    *)
(* feed, whatever crashed, was lost or was run twice (publisher.go:276,    *)
(* manifest.go:301-318). A dry run says so without posting: none is run.     *)
PublishedPostIsLive ==
  disk.state = "published" \/ disk.failure.stage = "syndicate"
    => disk.postID \in feed

(* A recorded carousel container means every child container was created   *)
(* and recorded first: a resumed run never publishes a partial carousel    *)
(* (publisher.go:799-890).                                                 *)
RecordedCarouselIsComplete ==
  disk.images > 1 /\ disk.parent # NoId => disk.children = disk.images

(* One run at a time and no crash, no lost reply and no failed write:      *)
(* however often calls fail and runs are retried, the post is published at *)
(* most once on the feed, once as a story and once on each destination.    *)
PublishedAtMostOnce ==
  /\ Cardinality(feed) <= 1
  /\ stories <= 1
  /\ \A t \in Targets : shares[t] <= 1

(* Runs may overlap on this post.                                          *)
Overlaps == disk.images \in Overlapping

(* One run at a time: once the manifest says "published" the bucket holds  *)
(* none of the post's images, even if earlier runs crashed in the middle   *)
(* of an upload or failed before they recorded the keys, because the keys  *)
(* of a later run are the same (publisher.go:339, 965-985). Only where     *)
(* strict runs clean up after failures: otherwise the retry of a strict    *)
(* syndication failure is published with the images still there (128, 134).*)
PublishedLeavesNoImages ==
  disk.state = "published" /\ ~Overlaps => objects = {}

(* One run at a time: nothing a run does changes a published post or posts *)
(* it again (publisher.go:134-136 refuses it).                             *)
PublishedIsFinal ==
  [][disk.state = "published" /\ ~Overlaps
       => UNCHANGED <<disk, feed, stories, shares>>]_vars

(* A dry run sends nothing to the bucket, to Instagram or to a             *)
(* destination, also when it resumes a post that a real run left behind    *)
(* half-published with its containers recorded (publisher.go:744-890).     *)
DryRunSendsNothing ==
  [][\A r \in Runs :
       opts[r].dry /\ (pc'[r] # pc[r] \/ idx'[r] # idx[r])
         => UNCHANGED worldVars]_vars

(* One run at a time, the manifest and the feed implement the abstract     *)
(* life cycle: every rewrite follows validTransitions, the post goes live  *)
(* only while the file says "publishing", and "published" is only said of  *)
(* a live post.                                                            *)
Lifecycle == INSTANCE PostLifecycle WITH
  state <- IF Overlaps THEN "scanned" ELSE disk.state,
  live  <- ~Overlaps /\ feed # {}

ImplementsLifecycle == Lifecycle!LSpec

(* Once the post is live the file comes to say so, as published or as      *)
(* failed at the syndication after it, whichever of the later calls for    *)
(* the story, the destinations and the bucket fail: without crashes, lost  *)
(* replies and failed writes the post is left in no other state, from      *)
(* which it could be posted again (publisher.go:253-304, 987-1000).        *)
LivePostIsRecorded ==
  feed # {} ~>
    \/ disk.state = "published"
    \/ disk.state = "error" /\ disk.failure.stage = "syndicate"

-----------------------------------------------------------------------------
(* A claim of the documents.                                               *)

(* cross_platform_syndication.md:121: "Given rerun after partial success,  *)
(* already-published destinations are skipped (idempotent)". A destination *)
(* whose post is recorded, as published or as skipped because it was       *)
(* already published, gets no second post.                                 *)
RecordedShareIsNotRepeated ==
  [][\A r \in Runs, t \in Targets :
       pc[r] = t /\ mem[r].synd[t] \in {"published", "skipped"}
         => shares'[t] = shares[t]]_vars

=============================================================================
