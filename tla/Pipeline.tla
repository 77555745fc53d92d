------------------------------ MODULE Pipeline ------------------------------
(***************************************************************************)
(* internal/pipeline with internal/scanner, validator and enricher: from a *)
(* directory of photographs to a manifest that waits for review.           *)
(*                                                                         *)
(* A run is Pipeline.Run, or one of the commands ppw scan, validate and    *)
(* enrich that do one stage each on the manifest they read. Scanning reads *)
(* whatever the directory holds at that moment; nothing else reads it.     *)
(* Faults names what may happen besides the steps of the code:             *)
(*   "crash" - a run dies between two steps                                *)
(*   "write" - rewriting manifest.json fails, the old file stays           *)
(***************************************************************************)
EXTENDS Manifest, Sequences, FiniteSets

CONSTANTS
  Runs,         \* processes that may work on the directory
  Directories,  \* what the directory may hold: images in file name order
  Faults,       \* see above
  MaxStarts     \* bound: how many runs are ever started

MaxImages == 10
NoSuffix == -1
NoDate == 0

(* What scanImage finds out; an unreadable image has no date and no ratio. *)
Ratios == {"4:5", "1:1", "1.91:1", "unknown"}
Image == [name : Nat, suffix : Nat \cup {NoSuffix}, date : Nat, ratio : Ratios]

ASSUME ConstantsAssumption ==
  /\ Directories \subseteq Seq(Image)
  /\ \A d \in Directories : \A i, j \in DOMAIN d : i < j => d[i].name < d[j].name
  /\ Faults \subseteq {"crash", "write"}
  /\ MaxStarts \in Nat

-----------------------------------------------------------------------------
(* scanner.orderImages.                                                    *)

AllHaveSuffix(images) == \A i \in DOMAIN images : images[i].suffix # NoSuffix

BySuffix(a, b) == a.suffix < b.suffix

(* Mutant of ByDate: the latest image first.                               *)
ByDateBackwards(a, b) ==
  IF a.date # NoDate /\ b.date # NoDate /\ a.date # b.date
    THEN a.date > b.date
    ELSE a.name < b.name

ByDate(a, b) ==
  IF a.date # NoDate /\ b.date # NoDate /\ a.date # b.date
    THEN a.date < b.date
    ELSE a.name < b.name

Less(images, a, b) == IF AllHaveSuffix(images) THEN BySuffix(a, b) ELSE ByDate(a, b)

(* sort.Slice is an insertion sort for up to 12 elements: an image moves   *)
(* forward while it is less than the one before it. More images can only   *)
(* be rejected (MaxImages), in whatever order.                             *)
notLess(images, s, x) == {i \in DOMAIN s : ~Less(images, x, s[i])}

place(images, s, x) ==
  IF notLess(images, s, x) = {} THEN 0
  ELSE CHOOSE i \in notLess(images, s, x) : \A j \in notLess(images, s, x) : j <= i

insert(images, s, x) ==
  SubSeq(s, 1, place(images, s, x)) \o <<x>>
    \o SubSeq(s, place(images, s, x) + 1, Len(s))

orderImages(images) ==
  LET sorted[n \in 0..Len(images)] ==
        IF n = 0 THEN <<>> ELSE insert(images, sorted[n - 1], images[n])
  IN  sorted[Len(images)]

-----------------------------------------------------------------------------
(* validator.Validate.                                                     *)

HasDuplicateSuffixes(images) ==
  \E i, j \in DOMAIN images :
    i # j /\ images[i].suffix # NoSuffix /\ images[i].suffix = images[j].suffix

(* Mutant of Passed: duplicate suffixes are only a warning.                *)
PassedWithDuplicates(m) == Len(m.images) \in 1..MaxImages /\ m.heroes # {}

(* No issue of severity "error".                                           *)
Passed(m) ==
  /\ Len(m.images) \in 1..MaxImages
  /\ ~HasDuplicateSuffixes(m.images)
  /\ m.heroes # {}

Count(images, ratio) == Cardinality({i \in DOMAIN images : images[i].ratio = ratio})

UniqueAspectRatios(images) ==
  {r \in Ratios \ {"unknown"} : Count(images, r) > 0}

(* Go's map order decides between ratios that are equally frequent.        *)
ResolvedAspectRatios(images) ==
  IF UniqueAspectRatios(images) = {} THEN {"unknown"}
  ELSE {r \in UniqueAspectRatios(images) :
          \A s \in Ratios \ {"unknown"} : Count(images, s) <= Count(images, r)}

-----------------------------------------------------------------------------
Verdicts == {"none", "passed", "failed"}

ManifestRecord ==
  [state : States, failure : Failure \cup {NoFailure}, approved : BOOLEAN,
   postID : Nat, images : Seq(Image), heroes : SUBSET Nat,
   validation : Verdicts, ratio : Ratios]

Blank ==
  [state |-> "scanned", failure |-> NoFailure, approved |-> FALSE,
   postID |-> NoId, images |-> <<>>, heroes |-> {}, validation |-> "none",
   ratio |-> "unknown"]

(* There is no manifest.json.                                              *)
Gone == [Blank EXCEPT !.state = "gone"]

VARIABLES
  manifest,  \* manifest.json in the directory, or Gone
  mem, pc,   \* each run's manifest and next step
  whole,     \* the run is Pipeline.Run, not a command for one stage
  starts     \* runs started so far

vars == <<manifest, mem, pc, whole, starts>>

Labels == {"idle", "scan", "writeScan", "validate", "writeValidation",
           "enrich", "writeEnrichment"}

Init ==
  /\ manifest = Gone
  /\ mem = [r \in Runs |-> Blank]
  /\ pc = [r \in Runs |-> "idle"]
  /\ whole = [r \in Runs |-> TRUE]
  /\ starts = 0

GoTo(r, label) == pc' = [pc EXCEPT ![r] = label]

(* The next stage of a whole run, or the end of a command.                 *)
Continue(r, label) == GoTo(r, IF whole[r] THEN label ELSE "idle")

Start(r) ==
  /\ pc[r] = "idle"
  /\ starts < MaxStarts
  /\ starts' = starts + 1
  /\ \/ \E w \in BOOLEAN :
          whole' = [whole EXCEPT ![r] = w] /\ GoTo(r, "scan")
          /\ UNCHANGED mem
     \/ /\ manifest # Gone
        /\ mem' = [mem EXCEPT ![r] = manifest]
        /\ whole' = [whole EXCEPT ![r] = FALSE]
        /\ \E stage \in {"validate", "enrich"} : GoTo(r, stage)
  /\ UNCHANGED manifest

Crash(r) ==
  /\ "crash" \in Faults
  /\ pc[r] # "idle"
  /\ GoTo(r, "idle")
  /\ UNCHANGED <<manifest, mem, whole, starts>>

-----------------------------------------------------------------------------
(* A directory without images has no manifest to record an error in.       *)
ScanFails(r) ==
  /\ pc[r] = "scan"
  /\ <<>> \in Directories
  /\ GoTo(r, "idle")
  /\ UNCHANGED <<manifest, mem, whole, starts>>

(* What an earlier manifest recorded is not looked at.                     *)
Scan(r) ==
  /\ pc[r] = "scan"
  /\ \E files \in Directories \ {<<>>} :
       mem' = [mem EXCEPT ![r] = [Blank EXCEPT !.images = orderImages(files),
                                               !.heroes = {1}]]
  /\ GoTo(r, "writeScan")
  /\ UNCHANGED <<manifest, whole, starts>>

(* manifest.Write, after which a run goes on; it ends if the write fails.  *)
Write(r, label, next) ==
  /\ pc[r] = label
  /\ \/ manifest' = mem[r] /\ Continue(r, next)
     \/ "write" \in Faults /\ UNCHANGED manifest /\ GoTo(r, "idle")
  /\ UNCHANGED <<mem, whole, starts>>

WriteScan(r) == Write(r, "writeScan", "validate")

(* validator.Apply; only a whole run records the failure, or fails on a    *)
(* manifest of the wrong state.                                            *)
Validate(r) ==
  /\ pc[r] = "validate"
  /\ mem[r].state = "scanned"
  /\ \E ratio \in ResolvedAspectRatios(mem[r].images) :
       LET m == [mem[r] EXCEPT !.ratio = ratio,
                   !.validation = IF Passed(mem[r]) THEN "passed" ELSE "failed"]
       IN  mem' = [mem EXCEPT ![r] =
                     CASE Passed(m)              -> Transition(m, "validated")
                       [] ~Passed(m) /\ whole[r] ->
                            RecordFailure(Transition(m, "error"), "validate", "scanned")
                       [] OTHER                  -> Transition(m, "error")]
  /\ GoTo(r, "writeValidation")
  /\ UNCHANGED <<manifest, whole, starts>>

(* A run whose post failed stops after the manifest is written.            *)
WriteValidation(r) ==
  Write(r, "writeValidation", IF mem[r].state = "error" THEN "idle" ELSE "enrich")

Refuse(r) ==
  /\ \/ pc[r] = "validate" /\ mem[r].state # "scanned"
     \/ pc[r] = "enrich" /\ mem[r].state # "validated"
  /\ GoTo(r, "idle")
  /\ UNCHANGED <<manifest, mem, whole, starts>>

(* Failing calls to the AI only leave the caption or location empty.       *)
Enrich(r) ==
  /\ pc[r] = "enrich"
  /\ mem[r].state = "validated"
  /\ mem' = [mem EXCEPT ![r] = Transition(@, "pending_review")]
  /\ GoTo(r, "writeEnrichment")
  /\ UNCHANGED <<manifest, whole, starts>>

WriteEnrichment(r) == Write(r, "writeEnrichment", "idle")

Step(r) ==
  \/ ScanFails(r) \/ Scan(r) \/ WriteScan(r) \/ Validate(r)
  \/ WriteValidation(r) \/ Refuse(r) \/ Enrich(r) \/ WriteEnrichment(r)

Next == \E r \in Runs : Start(r) \/ Step(r) \/ Crash(r)

Spec == Init /\ [][Next]_vars

-----------------------------------------------------------------------------
(* Every variable has its type.                                            *)
TypeOK ==
  /\ manifest \in ManifestRecord \cup {Gone}
  /\ mem \in [Runs -> ManifestRecord]
  /\ pc \in [Runs -> Labels]
  /\ whole \in [Runs -> BOOLEAN]
  /\ starts \in Nat

(* No image has a suffix, and all have a date.                             *)
DatesOnly(images) ==
  \A i \in DOMAIN images : images[i].suffix = NoSuffix /\ images[i].date # NoDate

InReview == manifest.state \in {"validated", "pending_review"}

(* What reaches enrichment and review can be posted and has one order:     *)
(* some images, one hero, the first of them, and no two images with the    *)
(* same suffix; whichever runs and commands overlapped, died, failed to    *)
(* write or were started in the wrong order (validator.go:24-160). That    *)
(* none has more than twenty images is what the code and                   *)
(* scan_and_validate.md:87-89, 129 agree on: the limit of the code is ten. *)
ReviewedPostsAreValid ==
  InReview =>
    /\ Len(manifest.images) \in 1..20
    /\ manifest.heroes = {1}
    /\ \A i, j \in DOMAIN manifest.images :
         i # j /\ manifest.images[i].suffix = manifest.images[j].suffix
           => manifest.images[i].suffix = NoSuffix

(* The display order does not depend on how the sort went: by suffix if    *)
(* all images have one; by date, then by name, if none has one and all are *)
(* dated (scanner.go:240-278). Of images some of which have a suffix, or   *)
(* are dated, nothing is said: there the code gives an order the documents *)
(* do not want (scan_and_validate.md:98, 101, validator.go:136), or none.  *)
DisplayOrderIsRight ==
  InReview =>
    \A i, j \in DOMAIN manifest.images :
      LET a == manifest.images[i]
          b == manifest.images[j]
          images == manifest.images
      IN  i < j =>
            /\ AllHaveSuffix(images) => a.suffix < b.suffix
            /\ DatesOnly(images) =>
                 a.date < b.date \/ (a.date = b.date /\ a.name < b.name)

(* Whatever fails here, in a whole run or in a single command that records *)
(* no reason, can be retried from the dead letter panel, and the retry     *)
(* starts over from a scanned post (manifest.go:320-400).                  *)
FailedPostCanBeRetried ==
  manifest.state = "error" =>
    CanPrepareRetry(manifest) /\ PrepareRetry(manifest).state = "scanned"

=============================================================================
