# Formal models of the photography publishing workflow

TLA+ modules, TLC configurations and TLAPS proofs about `ppw`, the program that
takes photographs from an inbox directory through captioning and review to
Instagram and its syndication destinations, and then to an archive. The code is
the reference: every definition is a translation of the lines `PROJECT.json`
gives for it, and all line numbers are those of this commit. Paths below are
relative to `src/`.

1. [The system](#1-the-system)
2. [The modules and how they correspond to the code](#2-the-modules)
3. [The runs, their bounds, and fairness](#3-the-runs)
4. [What is proved](#4-what-is-proved)
5. [Where code and documents differ](#5-divergences)
6. [What is not modelled](#6-what-is-not-modelled)
7. [Plan](#7-plan)

## 1. The system

One directory per post holds the images and a `manifest.json`. Nearly everything
the program knows about a post is in that file. Every component reads it whole,
changes its own copy and rewrites the file whole, by a rename
(`internal/manifest/manifest.go:271`). Nothing locks it.

| Part | State it keeps | Operations that change state | Interacts with |
|---|---|---|---|
| **manifest** `internal/manifest` | `manifest.json`: pipeline state, failure metadata, review decision, publishing record | `Transition`, `RecordFailure`, `PrepareRetry`, `Write` | everything: it is the shared state |
| **watcher** `internal/watcher` | `seen` and watched directories, one debounce timer per directory | start-up scan, file system events, timers, forced retries of failed posts | starts pipeline runs; reports to the interface |
| **pipeline** `internal/pipeline`, scanner, validator, enricher; `ppw scan`, `validate`, `enrich` | none; one copy of the manifest per run | scan, order images, validate, enrich | started by the watcher, the interface or commands |
| **interface** `internal/tui` | panels of manifests read at the last reload, an open editor, background runs | approve, reject, edit, story switch, re-enrich, dequeue, publish, retry | starts pipeline, publish and archive runs as goroutines; runs send messages back |
| **ppw review** `internal/tui/tui.go`, `cmd/ppw/review.go` | the manifests it read when it started | approve, reject, edit, story switch, re-enrich | nothing: a second writer beside the interface, which tells its user to run `ppw enrich` |
| **log events** `internal/tui/logsink.go`, `background.go` | the bounded channel of the interface, the goroutines that wait for it | log lines, status messages, results, keys, quit | runs and watcher at one end, the event loop at the other |
| **scheduler** `internal/scheduler` | `schedule_queue.json` | `Schedule`, `RemoveEntry` | rewrites manifests; the interface rewrites them back |
| **publisher** `internal/publisher` | its copy of one manifest | upload, containers, publish, story, syndicate, clean up, fail, retry | image bucket, Instagram, Facebook, Threads |
| **archiver** `internal/archiver` | the directories of the post and of the archive, the publish log | move images, move the rest, write the manifest, log, remove | started after a publish, by a retry, or by `ppw archive` |
| **tokens** `internal/authn`, `internal/authstore`, `internal/meta` | the token file and its lock | token requests with refresh, page tokens, login, logout | every API client |
| **job logs** `internal/joblog` | one file per command, renamed when complete | open, close, sweep | the session of every command that logs |

What is hard here, and what the properties are about:

* a publish is a long sequence of remote calls with a rewrite of the manifest
  after each one. It may die anywhere; a call may fail, or take effect although
  its answer is an error; and the next run has to find out from the manifest
  what is left to do. Correct: no post, story or share twice; never "published"
  without a post; no half carousel; no images left in the bucket.
* the interface starts runs as goroutines without any mutual exclusion, so two
  publish or archive runs may work on the same post, each with its own copy of
  the manifest. Correct: the record stays true and no photograph is lost.
* the interface acts on what it read at the last reload and writes it back over
  whatever runs have recorded since. Correct: nothing is posted but what a panel
  held when it was approved. `ppw review` does so without ever reading again.
* every log line of every run goes through one bounded channel, and the writer
  waits with its lock held when it is full. Correct: somebody always waits at
  the other end, and every line and every result arrives.
* a file is replaced by renaming a temporary one. Correct: a reader finds what
  one writer wrote, whole.
* the watcher stops, forgets and replaces timers while handlers are running,
  and a directory may be moved away and back. Correct: a reviewed post is never
  scanned over, a repaired one is scanned again.
* the queue file and the token file are shared by processes; only the second
  has a lock. Correct: no slot overfull, no update lost, no token that dies
  while it is in use.

`PROJECT.json` lists these hazards one by one, each at the line where it bites,
with the properties that would catch it.

## 2. The modules

| Module | Models | Extended by |
|---|---|---|
| `Manifest` | the state machine of a manifest: `validTransitions`, `Transition`, `RecordFailure`, `EffectiveFailureStage`, `EffectiveRetryState`, `CanPrepareRetry`, `PrepareRetry` | `PostLifecycle`, `Publisher`, `Archiver`, `Pipeline`, `Tui` |
| `PostLifecycle` | abstract: what publishing promises about one post | `Publisher` implements it |
| `Publisher`, `PublisherProperties` | `publisher.Publish` | `MCPublisher`, proofs |
| `Archiver` | `archiver.Archive` | `MCArchiver`, proofs |
| `Pipeline` | `pipeline.Run` and the single-stage commands, with `orderImages` and the validator | `MCPipeline`, proofs |
| `Watcher` | `Watch`, `scanExisting`, `scheduleProcess`, `handleProcess`, `addWatch` | proofs |
| `Tui` | the interface, all background runs and `ppw review` together | `MCTui`, proofs |
| `JobLog`, `Events` | the directory of job logs; the interface as a program: goroutines, channel, event loop, session log, sweeps | proofs |
| `AtomicRegister` | abstract: a file that is replaced as a whole | `AtomicFile` with own names implements it |
| `AtomicFile` | `Manifest.Write`, `saveQueue` and `writeAtomic` with their system calls | `MCAtomicFile`, last section of `PipelineProofs` |
| `Scheduler` | `Schedule`, `findNextSlot`, `RemoveEntry`, dequeue | `MCScheduler`, proofs |
| `Auth` | token requests, refresh, login, logout over the locked file | `MCAuth`, proofs |

The `MC` modules give constants their values and declare symmetry; the
`*Proofs` modules hold the theorems.

A manifest is a record. `Manifest` reads and updates the fields `state`,
`failure`, `approved` and `postID` and leaves others alone; each component's
module has a `ManifestRecord` with the further fields that component needs. A
Go variable that holds a manifest (the copy of a run, a panel entry) is a
variable of the model, `mem` or `entry`, apart from the file.

**Publisher.** `disk` is the file, `mem[r]` the copy of run `r`, `pc`, `idx`
and `stage` where the run is; `objects`, `containers`, `feed`, `stories` and
`shares` are the services. One action per call to a service and per rewrite, so
that a crash or another run can come between any two: the upload loop and its
deferred record, image and carousel containers, polling, publish, the post id
(publisher.go:727), the story, each destination (1040-1100), the bucket clean
up and the last rewrite. `recordFailure` is the path every error takes. A
starting run does what `Publish` does first: prepare a retry, refuse, or
resume. Calls may always fail; the constant `Faults` adds crashes, failed
rewrites, lost replies and failed deletions. Image data, captions and location
ids are left out: no decision depends on them.

**Archiver.** `source` and `archive` say which names the two directories hold
and whose content they are, `archived` whether the archive has the final
manifest, `logged` the lines of the publish log. Each file operation is an
action: of each image in order a rename, or else opening the original, opening
and emptying the copy, copying, and deleting the original; then the remaining
names; the archived manifest; the log; the removal of the source manifest and
directory. Two runs may be anywhere in that sequence. A run that has opened the
original keeps it although another run deletes or renames it: in the first case
the file can still be copied (`opened`), in the second it *is* the copy that is
emptied next (`aliased`, `hollow`). A copy that another run empties, replaces or
removes is torn: it may end with the right size and a hole. `torn` collects the
images this happened to, and those whose copy was emptied when the original was
gone.

**Pipeline.** `orderImages` is the insertion sort Go uses up to twelve elements
over the code's own comparison, so that its result is what the program computes
even where that comparison is no order. Directories are sequences of images
with name, suffix, date and ratio; what a directory holds may change before
every scan. A run is all three stages or one.

**Watcher.** One directory: what it holds, its manifest, the queue of events,
the timers and what each running handler has seen so far. `known` and `seen` are
the watcher's maps, `watched` is what the kernel delivers, which differs when
a directory is moved away and back. A timer that has fired runs to the end
although another one has been armed. Pipeline runs are cut at their rewrites,
as in `Pipeline`.

**Tui.** Composes the interface with the runs of all three kinds, at the level
of their rewrites of the manifest; what happens between two rewrites is in the
modules above. `panel` and `entry` are what the interface holds, `editing` an open
caption editor, `dialog` an open dialog, `pc` and `mem` the background runs. Each
key is an action that does what the handler does with the *entry*, not with the
file. Approving, rejecting and publishing the queue take two keys: the first opens
a dialog, which hides the panels (app.go:935-938), and the answer acts on what the
panel holds by then, for messages are handled behind it (190-196). Every scan gets a
number of its own that stands for the content somebody has to look at;
`approvals` collects the scans that were in memory when the user said yes, `live`
those that were posted.
`review` is the manifest in memory of `ppw review`; its keys are a group of
actions of their own. A run with the label "command" is a `ppw enrich` of the
shell: it survives the interface and reports to nobody. Any rewrite may fail
("write"): the keys that ignore the error go on as if it had succeeded, those
that check it keep the changed entry, a run is over. The post id of the manifest
is left out here, since it decides nothing in a failure that has metadata.

**Events, JobLog.** `channel` is the event channel, `waiting` the number of
goroutines in `waitForWatcher`, `hands` the messages that left the channel, or
a run of a key, and are on their way to `Update`. `shown` is every line the panel
was ever handed, `screen` those it has kept: the newest `PanelLines`, 500 in the code
(app.go:1539-1549). Blank lines, which it skips, are left out: the loggers begin
every line with the time. A run is reduced to what it says: a status, log lines, a result. `program` is the main goroutine from `q` to
the end of the process, which closes the log of the session with its outcome.
`JobLog` has the names of the logs, `Close` and `Sweep`; a log's age is free.
The session has a watch directory and a pipeline: without them nothing waits
for the channel (app.go:171), but then no panel lists a post and only the sweeps
have something to say.

**AtomicFile.** Names lead to inodes, writers hold inodes open. Opening
truncates whatever has the name; writing takes any number of calls; a rename
moves whatever has the temporary name by then. `TempName` says who shares a
temporary name: everybody for the manifest and the queue, nobody for the token
file.

**Scheduler.** A process is a command: load the queue, choose a slot
(`findNextSlot` over a week of named days, an unknown name being day 0 as in
`parseDayOfWeek`), write the manifest, save the queue. The clock, the dequeue
key of the interface and crashes come in between.

**Auth.** Load, exchange, and update under the lock are steps of a process; the
lock is held over reading and writing the file, never over the exchange. Days
pass between calls. `exp` is the recorded expiry and `left` the real one.

## 3. The runs

| Run | Module, cfg | What it shows |
|---|---|---|
| `publisher_faults` | `MCPublisher`, `PublisherFaults` | Crashes, failed rewrites and lost replies, up to four runs one after another, and two overlapping runs that overwrite each other's manifest: "published" means live, the abstract life cycle is implemented, a recorded carousel is whole, a published post is final and leaves no image in the bucket. |
| `publisher_quiet` | `MCPublisher`, `PublisherQuiet` | Without crashes, lost replies and failed rewrites, under every combination of options: nothing is posted twice, a live post comes to be recorded as published or as failed after that, dry runs send nothing. |
| `publisher_share_claim` | `MCPublisher`, `PublisherShareClaim` | Violation: a destination already posted to is posted to again (section 5). |
| `archiver` | `MCArchiver`, `Archiver` | Two overlapping runs, every fault, restart and retry, renames and copies: no image is lost, the manifest goes last, one line in the log, and a run ends with the post archived or failed. |
| `pipeline_scan` | `MCPipeline`, `Pipeline` | Overlapping runs and commands on changing directories: what reaches review can be posted, in the right order; failures can be retried. |
| `watcher_live` | `Watcher`, `Watcher` | Timers, moves and restarts: reviewed posts are not scanned over, new and repaired ones are scanned. |
| `tui_runs` | `MCTui`, `Tui` | Every key on stale entries, of the interface and of `ppw review`, with three background runs, reloads behind an open dialog and rewrites that fail: nothing goes live but what was held when it was approved, and only live content is called published. |
| `tui_reenrich_claim` | `MCTui`, `TuiReEnrichClaim` | Violation: a post can be left validated with nothing at work on it (section 5). |
| `scheduler_queue` | `MCScheduler`, `Scheduler` | Overlapping commands: no slot overfull, no post twice, the earliest open time is chosen. |
| `events` | `Events`, `Events` | A run of each kind and a sweep, a channel of two places, quitting and dying: somebody always waits for the channel, no line is lost or doubled on its way to the panel, which keeps the newest, or out of order, everything arrives, no sweep takes the session's log. |
| `atomic_file_claim` | `MCAtomicFile`, `AtomicFile` | Violation: with a shared temporary name a reader can find half a file (section 5). |
| `auth_store` | `MCAuth`, `Auth` | Overlapping refreshes, logins and logouts: no update lost, true expiries, no token dies in use. |

**Bounds.** `MaxStarts`, `MaxScans`, `MaxChanges`, `MaxSessions` and `Now` bound
how often something begins; nothing that has begun is cut short by them.

* Publisher: 0, 2 and 11 images are "none", "a carousel" and "more than
  `maxCarousel`"; 1 is the other shape. Four starts are a first run that dies,
  one that resumes, one that fails and one that retries. Two runs overlap on a
  post of one image (`Overlapping`) and twice in all (`MaxOverlap`), enough for
  each to overwrite the other; carousels and refused posts are run one after
  another, and the theorems drop that limit. The properties that speak of one
  run at a time (`PublishedLeavesNoImages`, `PublishedIsFinal`, the life cycle)
  say so with `Overlaps`. The quiet run needs options
  to differ between starts: 32 combinations, three starts.
* Archiver: three images have a first, a middle and a last one; a file and a
  directory of the user; an earlier post of the same id. The proofs of section 4
  drop these bounds.
* Pipeline: all directories of one and two images over five kinds (undated, two
  dates, suffixes), all of three among the kinds that can disagree, none, eleven
  images (rejected by the code, not by the documents) and twenty-one. Two runs, two starts each other can overtake.
* Watcher: three timers are one that runs, one stopped, one armed, and three
  changes are enough to make, move and bring back a directory. Timers are told
  apart because the properties are temporal: no symmetry.
* Tui: two pipeline runs and a publish run overlap with each other, with the
  keys, with `ppw review` and with one `ppw enrich` (`NoCommand`); two scans are an
  approved and a newer content, which may come in behind a dialog. No dialog is left
  open to use `ppw review` ("beside", `OneAtATime`); the editor may be. The theorems are about any number of runs of each kind.
* Events: one run of each kind, two places in the channel and two log lines in
  all fill the channel, block a writer and let two waiters overtake each other; a
  panel of one line drops the first of them. The theorems are about a panel of any
  length.
* AtomicFile: two writers of one and two blocks, and more inodes than names and
  open files.
* Scheduler: three slots (two days and a misspelt one), `BatchSize` 1, a day of
  two steps, starts at three places of the week; two posts and two commands
  compete for one slot.
* Auth: the window (2) is shorter than the life of a token (4), as 7 is than 60;
  two processes race for one refresh.

`CHECK_DEADLOCK FALSE` is set where the system may really stop: all starts used
up, a post archived, the clock at its bound. `Auth` never stops.

**Fairness** is only assumed in the runs with liveness properties. In
`Publisher` and `Archiver` it is weak fairness of the steps of each run: a
goroutine that is not dead goes on, and every call returns, with an answer or an
error, because the HTTP clients and polls have deadlines; nobody is obliged to
start a run. In `Watcher` it is weak fairness of the event loop, of every armed timer
(`time.AfterFunc`) and of every run; nobody is obliged to change an image,
press a key or restart. In `Events` it is one weak fairness for all goroutines
together: as long as one of them can go on, one of them does. That is all a
scheduler must do, since none of them waits for anything but the channel. Nothing
needs strong fairness.

## 4. What is proved

TLAPS checks these theorems for every value of the constants: any number of
runs, images, slots, posts, processes and starts.

| Theorem | Module | Statement |
|---|---|---|
| `TypeCorrect` (`PipelineTypes`) | each proof module | `Spec => []TypeOK` |
| `CarouselsAreComplete` | `PublisherProofs` | a recorded carousel container has all its children |
| `PublishedPostsAreLive` | `PublisherProofs` | "published", or failed after that, names a post on the feed; any number of overlapping runs, every fault |
| `DryRunsSendNothing` | `PublisherProofs` | no step of a dry run changes a service, crashes and real runs in between included |
| `PublishedStaysPublished` | `PublisherProofs` | one run at a time: a published post is never changed or posted again |
| `PublisherImplementsLifecycle` | `PublisherProofs` | the refinement of `PostLifecycle`, every fault included |
| `NoImagesAreLeft` | `PublisherProofs` | one run at a time: a published post leaves no image in the bucket |
| `PostedAtMostOnce` | `PublisherProofs` | without crashes, lost replies and failed rewrites: one post, one story, one share for each destination, whatever fails and is retried |
| `PublishingIsNotAbandoned` | `PublisherProofs` | under the same conditions: while the file says "publishing" there is a run that has yet to record its end, after a persistent 429 too (section 5) |
| `LivePostsAreHeld` | `PublisherProofs` | under the same conditions: a live post is recorded as published, or as failed and retried from there, or has a run that has yet to record it; the part of `LivePostIsRecorded` that is an invariant |
| `PostIsLoggedOnce` | `ArchiverProofs` | at most one line of the log, however many runs overlap |
| `PhotographsAreKept` | `ArchiverProofs` | no image is lost, renamed or copied, unless a run emptied, replaced or removed its copy while another was at it or when the original was gone |
| `RemovedAfterArchived` | `ArchiverProofs` | the manifest goes and the log speaks after the images, with the same exception, however many runs overlap |
| `ArchivingLosesNoImage` | `ArchiverProofs` | on one file system no copy is torn and no image is lost, without exception |
| `RunsAloneLoseNoImage` | `ArchiverProofs` | runs one after another, which crash, fail and are retried, lose no image on two file systems either, without exception |
| `NewPostsAreNew` | `WatcherProofs` | a run for a new directory never scans over a manifest, however many timers overlap |
| `NoSlotIsOverfull`, `NoPostIsQueuedTwice` | `SchedulerProofs` | the queue file stays good |
| `ChoiceIsEarliestOpenTime` | `SchedulerProofs` | a run takes the earliest configured time with room, and gives up only if the days it looks at are full |
| `ReviewIsOfValidPosts`, `ReviewIsInOrder`, `FailuresCanBeRetried` | `PipelineProofs` | what reaches review has a first image as hero, no suffix twice and not more images than code and documents allow; it is in order of suffixes if all have one, of dates if none has one and all are dated; what fails can be retried, with or without a recorded reason |
| `OrderImages` | `PipelineProofs` | the insertion sort returns each image once, and in order where all can be compared, for any number of images |
| `ApprovedContentGoesLive`, `PublishedIsLive` | `TuiProofs` | what is posted was held by a panel, or by `ppw review`, when the user approved it; a manifest that says published is right; `ppw review` and failing rewrites included |
| `AlwaysAWaiter`, `SessionLogStays` | `EventsProofs` | the event channel is never without a reader to come; no sweep takes the log of the session |
| `EveryLineIsSomewhere`, `PanelKeepsTheOrder` | `EventsProofs` | no log line is dropped or doubled before it has been handed to the panel, and the panel has the newest of its lines; lines are handed over in order until a run that a key started comes back |
| `OwnNamesKeepTheFileWhole`, `OwnNamesImplementTheRegister` | `PipelineProofs` | with a temporary name for each writer the file is always whole, and replaced in one step: the refinement of `AtomicRegister` |
| `NoUpdateIsLost`, `ExpiriesAreTrue`, `TokensInUseStayAlive` | `AuthProofs` | the token file |

**Assumptions.** The `ConstantsAssumption` of each module, which TLC evaluates in
every run. Some theorems assume more, and say so in their statement:
`PublishedPostsAreLive` assumes `NoDryRuns`, because a dry run writes "published"
over a post it never made (publisher.go:276); so do the refinement and
`NoImagesAreLeft`. The latter also assumes `CleansUp`: deletions succeed, and
strict syndication comes with clean-up after failures (section 5). "One run at a
time" is `~Overlaps`, what `MayStart` allows; `PostedAtMostOnce`,
`LivePostsAreHeld` and `PublishingIsNotAbandoned` assume `Reliable`, no overlap and
no fault but failed deletions. `ArchivingLosesNoImage` assumes `SameFilesystem`,
that images are moved by renames, `RunsAloneLoseNoImage` assumes `OneRun`, that at
most one run works at a time; both then have no exception for torn copies. The
theorems about `AtomicFile` assume `OwnNames`, which is what the code of the token
file does and that of the manifest does not. `Auth` assumes
a refresh window shorter than a token's life, without which no token would stay
alive. `Events` assumes that its kinds of runs are different ones. `Pipeline`
assumes that a directory lists its images by name, each name once, as
`os.ReadDir` does.

**Inductive invariants.** None of the properties is inductive by itself: most speak of
the file, while a run is about to write what it has in memory.

* `CarouselInv`: every copy, in the file or in memory, is complete, and a run
  past the creation of children has all of them. A stale copy that is written
  back is then still complete.
* `LiveInv`: every copy's record is true of the feed, and a run that has
  published holds the id of its post. Nothing leaves the feed, so an old truth
  stays one; that is why overwriting does no harm here.
* `SoleInv`: with one run at a time its copy has the state of the file, and past
  the first checks that state is "approved" or "publishing", so a run that acts
  is never about a published post.
* `BucketInv`: a copy or file that says cleaned, and a file that says published or
  retries from there, mean an empty bucket; a run that fails at syndication is about
  to clean up or has done so.
* `OnceInv`: at most one of everything, and what is not yet recorded is not yet
  posted, step by step along the run.
  `LivePostIsHeld` follows from it: what is posted while no run is past its checks is
  settled in the file.
* `PublishingIsHeld` is inductive on top of `SoleInv`: a run past its checks goes
  on or leaves "published" or "error" in the file, and a run at its checks cannot
  meet "publishing", because it would be the one that holds the post.
* `WatcherInv`: as long as a directory is new, or a run for it has just begun,
  nobody else is at work on it, no manifest is there and none can be moved back.
* `OneMover`: an image can be moved by one run only, so the run that moved the
  first one is the only one past it; nobody else can reach the log.
* `MovedInOrder`: a run's position says which images have left the post.
* `KeptInv`: an image that has left is whole in the archive or torn; a run at a
  copy that is not torn still finds the original, and two runs at copies of one
  image have torn it. A run that only holds the original open is nowhere near a
  copy yet; what it may empty is decided when it opens the copy, and recorded there.
* `QueueInv`: the file *and every draft* are good queues. A lost update replaces
  one good queue by another; it can lose an entry but not overfill a slot.
* `OnTimeInv`: entries, in the file and in every draft, are at the time of day of
  their slot. The code counts by slot and date; only so is that counting by time.
  The rest is arithmetic: each slot falls once in any seven days, so the days
  looked at miss none of its times.
* `Sound`: every manifest, in memory or in the file, comes from the sort of some
  directory, has no hero or the first image, and no failure or one that retries from
  "scanned". It is true of each copy by itself; that is why runs may overwrite each
  other. `SortOf` is the invariant of the sort: the first `n` images, each once, in
  order.
* `TuiInv`: whatever is in a manifest, in the file, in a panel, in the editor
  or in a run's memory, is true of the user's approvals and of the feed
  (`Good`); a run about to post holds an approval, one about to finish has
  posted. `approvals` and `live` only grow, so copies never become false.
* `ChannelInv`: only messages after which somebody waits again ever go through
  the channel. That is why results of publish runs, after which nobody does, must
  be returned and not sent.
* `PlacesInv`: messages are numbered, so that the channel, the hands of the waiters
  and what the panel was handed have none in common; what leaves one enters the
  next. That `screen` is the newest of `shown` is kept by every line that arrives.
* `OrderInv`: until a run of a key has come back there is one waiter, so there is
  one line in hand at most, and it is newer than those the panel was handed and
  older than the channel's.
* `FileIInv`: an inode that can be renamed is open to
  its own writer only, and holds exactly what that writer has written so far.
* `AuthInv`: a token of the file lasts beyond the next refresh window; a process
  about to write holds the lock and its draft is the *present* file with its one
  change.

Each theorem goes the same way: the invariant holds initially, each action
keeps it (one step per action), and it implies the property.

**Induction.** The library's induction theorems take an operator as a parameter,
which none of the installed provers can instantiate. Where data had to be
inducted over, the proofs use a least counterexample instead: `WFMin` of
`WellFoundedInduction` takes a set, and gives `Least` and `UpTo` in
`PipelineProofs` and `Earliest` in `SchedulerProofs`. `SortExists` shows in the
same way that the recursive definition of `orderImages` has a solution, without
which nothing could be said about what it returns.

**Only model-checked.** Liveness (`LivePostIsRecorded`, `ArchiveSettles`,
`FixedPostIsScannedAgain`, `NewPostIsScanned`, `EverythingArrives`), since the
prover has no `ENABLED`. Every invariant and every action property that a run
checks has a theorem.

## 5. Divergences

Three are findings, with a run that TLC finds violated:

* **Destinations are posted to again** (`publisher_share_claim`).
  publisher.go:1060 skips a destination with status "published" and overwrites
  that status with "skipped", so the next run posts to it again;
  `directives/cross_platform_syndication.md:121` says already-published
  destinations are skipped.
* **A post is left validated** (`tui_reenrich_claim`). After `R` the panel still
  shows the entry, now validated; `s`, or the caption editor, writes it over
  what the pipeline has recorded, and app.go:192-194 reloads nothing after a
  failed run. No panel lists a validated post; app.go:629 says it returns to
  review "without disappearing indefinitely in validated state".
* **A manifest can be read half-written** (`atomic_file_claim`). All writers of a
  manifest use the same temporary name (manifest.go:271). One that opens it
  between another's write and rename empties what is then renamed into place.
  `directives/scan_and_validate.md:133` says that the rename prevents partial
  writes. The queue file is written in the same way (scheduler.go:357); the token
  file is not (authstore/store.go:234), and the theorem about it shows that the
  shared name is all there is to it. The other modules take a rewrite as one
  step: they are about writers that do not overlap within one.

The models follow the code in the following as well. No property that a run checks
takes the side of the code or of the documents in any of them; one theorem does,
`PublishingIsNotAbandoned`, and says so.

*Publisher*
* A dry run records "published" and the dry-run id in the manifest
  (publisher.go:276); the comment at publisher_test.go:526-529 says the state
  "remains approved".
* A call that is still rate limited ends the run like any other failure: the client
  does not wait or repeat it (`instagram/client.go:221`), and the post is recorded as
  failed (publisher.go:987). `directives/instagram_publishing.md:148`: "exit with
  error and leave manifest in `publishing` state". So no property says where a post
  that is not live has to end; `PublishingIsNotAbandoned` proves what the code does.
* If media_publish takes effect but its reply is lost (publisher.go:896), the run
  records a failure, and the retry posts a second time. `PublishedAtMostOnce` is about
  runs without lost replies.
* A retry of a failed publish forgets the containers (publisher.go:306), and creates
  them again; `directives/instagram_publishing.md:151`: "Container IDs are recorded so
  a retry can skip container creation".
* A retry after a strict syndication failure is always refused: the post is
  prepared as "published", and publisher.go:134 wants "approved" or
  "publishing". `directives/dead_letter_retry_and_published_counter_fix.md:54`
  promises a retry of the syndication stage.
* After a strict syndication failure without `cleanup_on_failure` the images stay
  in the bucket for good: the retry is prepared, and written, as "published"
  (publisher.go:128) and then refused; `directives/instagram_publishing.md:176`
  wants them deleted after a successful publish, and line 186 "Do not leave images
  in R2 indefinitely".
* A run that resumes after the post id was recorded polls and publishes the
  container once more (publisher.go:727);
  `directives/instagram_publishing.md:180` says it resumes where it left off.

*Archiver*
* What cannot be moved, or whose name the archive already has, is deleted with
  the directory (archiver.go:254); `directives/archival.md:109`: "never deleted
  outright".
* When two runs move one image to another file system at the same time, the
  second to open the copy empties it (archiver.go:282), and a failure of either
  removes it (289, 303): the original may be gone by then. A run that has opened the
  original (271) may even do so after the other one has deleted or renamed it, and
  has gone on to log the post and remove its directory: the only copy is emptied,
  and stays so for good if the original was renamed. `archival.md:110` wants the
  source removed only after the copy is verified. `ImagesAreKept` and
  `RemovedOnlyWhenArchived` except these images.
* An earlier archive of the same id is overwritten (archiver.go:260);
  `archival.md:89` wants an error if the contents differ.
* A rerun fails at the first image that was already moved (archiver.go:97);
  `archival.md:90`: "can be re-run to resume".
* A failure after the archived manifest is written leaves "archived" with
  failure metadata, which no panel shows (archiver.go:149).

*Scheduler*
* The dequeue key rewrites the manifest only (app.go:648) and leaves the queue
  entry; `directives/scheduling.md:112`: "The old slot assignment is freed".
  Scheduling the post again is then refused as a duplicate.
* Two commands that load the queue at the same time lose one entry; a command
  that dies between manifest and queue leaves a scheduled post without an entry.
* An unknown day is Sunday and a missing batch size a default, against "Do not
  guess defaults" (`scheduling.md:110`); `min_gap_hours` is not used, and nothing
  publishes due entries by itself.

*Scanner and validator*
* More than ten images are rejected (validator.go:16), here and by the publisher
  with a constant of its own (publisher.go, `maxCarousel`);
  `directives/scan_and_validate.md:87-89` and 129 allow up to twenty, and
  `instagram_publishing.md:167` speaks of more than twenty. `ReviewedPostsAreValid`
  only says twenty; the run has eleven and twenty-one images.
* With some images undated the comparison (scanner.go:263-266) is not
  transitive: the order late, undated, early is left as it is.
  `directives/scan_and_validate.md:98` falls back to the time of modification.
* With and without suffix mixed, all images are sorted by date and name;
  `directives/scan_and_validate.md:101` and the message of validator.go:136 put
  suffixed ones first. `DisplayOrderIsRight` says nothing of such directories, nor
  of undated images.

*Watcher*
* A directory that is there at start-up without a manifest is not marked as seen
  "so it gets picked up" (watcher.go:171), but nothing picks it up.
* A directory brought in with a manifest this session has not seen is scanned
  over (watcher.go:108, against the comment at 138): the exception `brought` in
  `NewPostsHaveNoManifest`.
* Images that arrive after the timer has fired are not looked at.
* A change during a run that then fails is dropped, removing the last JPEG
  retries nothing, and moving a directory away and back replaces a forced timer
  by an unforced one that does nothing;
  `directives/error_state_auto_retry_and_watcher_error_logging.md:29` says that
  such changes retry.
* The name of an archived directory, used again in the same session, is neither
  watched nor processed.

*Interface*
* A message may reload the panel behind the dialog that asks whether to approve the
  post (app.go:190-196, 935-938). The dialog shows nothing but the name (1419-1431),
  and the answer approves, and with `p` publishes, whatever the panel holds by then:
  a scan and a caption the user has never seen. `directives/review_workflow.md:5`:
  "No post is ever published without explicit user approval", of images, caption and
  location that are seen. `OnlyApprovedContentGoesLive` speaks of what the panel
  held, not of what was seen.
* Failed pipeline runs do not reload the panels (app.go:192-194), so the failed
  post is not listed until something else does;
  `dead_letter_retry_and_published_counter_fix.md:88`.
* `m.publishing` guards nothing: the same post can be published by two runs at
  once. Dequeuing does not stop a run that is publishing.
* A failed rewrite is not noticed by approve, reject, dequeue, the story switch and
  the editor (app.go:563-569): the status line says "Queued" or "Rejected" and the
  panel shows the post as it was. The keys that do notice, `R` and `r`, keep the
  changed entry, and the next key writes it.
* A retry or re-enrichment whose scan fails leaves the post in a state no panel
  lists.
* The result of a pipeline run that a key started does not come through the
  channel but starts a waiter (app.go:199). From then on there is one too many,
  and two log lines may change places;
  `directives/tui_render_stability_and_log_panel.md:74`: "newest entries appended
  in order".
* `ppw review` never reads again: its keys write a post that has been published
  since back to approved, rejected or validated. Its re-enrichment sets the state
  without asking the transition table (tui.go:303).
* A session that is quit while runs are working is logged as a success
  (default.go:55).
* Quitting ends the runs; `directives/unified_tui.md:294` says it waits.

*Tokens*
* A refresh under way when the user logs out or logs in as someone else stores
  its token afterwards (manager.go:302-311).
* A failed refresh is an error although the old token lives for days, and is
  not repeated (manager.go:303); `directives/auth_token_automation.md:75` wants
  "bounded retries + backoff; preserve prior valid token until exhausted".
* A token of unknown expiry is never refreshed (manager.go:298).

*Job logs*
* The log of a command that died stays active, and is never swept
  (joblog.go:246).

## 6. What is not modelled

* The choice among several posts in the interface: keys act on one.
* The `ppw logs` commands, which read and follow log files while they may be
  renamed or removed, and the commands' flags and wiring.
* Rewrites that overlap within one write, outside `AtomicFile`.
* Failing or overflowing file system watches, daylight saving time.
* AI providers, prompts, text scraping, configuration files, rendering, log
  formats: no state the workflow depends on, only a result or an error.

## 7. Plan

Done: the manifest and the publisher with its abstract life cycle; the archiver
with copies that two runs tear; the scheduler; the pipeline; the watcher; the
interface over all runs, with `ppw review` and failing rewrites; the event
channel and the job logs; the atomic rewrite with its system calls and the
register it ought to be; the tokens. Proofs of every invariant and action property
of them, the refinement of the life cycle among them.

Left:

1. `ppw logs`, which follows a log while it is renamed or swept: a reader beside
   `JobLog`, in a module without the event channel to keep the state small.
2. Several posts in the interface, for `publishAllQueued`.
