----------------------------- MODULE Scheduler ------------------------------
(***************************************************************************)
(* internal/scheduler: the queue of posts waiting for a weekly slot.       *)
(*                                                                         *)
(* Each run is a ppw schedule command (or a caller of RemoveEntry). It     *)
(* loads the queue file, picks the next slot with room, writes the post's  *)
(* manifest and then the queue file; nothing locks either file, so another *)
(* run, the TUI, the clock or a crash can come between any two of these.   *)
(* Time is counted in steps of the day: DayLength of them make a day, day  *)
(* 0 is a Sunday.                                                          *)
(***************************************************************************)
EXTENDS Integers, FiniteSets

CONSTANTS
  Runs,       \* processes that use the scheduler
  Posts,      \* the posts
  Slots,      \* configured slots: [day : a name, time : a step of the day]
  BatchSize,  \* batch_size
  LookAhead,  \* days findNextSlot looks at (30 in the code)
  DayLength,  \* steps in a day
  StartTimes, \* when the first command may run
  Now,        \* bound: the clock stops here
  Crashes,    \* runs may die and writes may fail
  MaxStarts   \* bound: how many runs are ever started

ASSUME ConstantsAssumption ==
  /\ Posts # {}
  /\ BatchSize \in Nat \ {0}
  /\ LookAhead \in Nat
  /\ DayLength \in Nat \ {0}
  /\ StartTimes \subseteq Nat
  /\ Now \in Nat
  /\ Crashes \in BOOLEAN
  /\ MaxStarts \in Nat
  /\ \A slot \in Slots : slot.time \in 0..(DayLength - 1)

NoSlot == -1

(* A queue entry; queued_at is the number of the run that made it, which   *)
(* like the time in the code tells entries of one post apart.              *)
QueueEntry == [post : Posts, slot : Slots, scheduledFor : Nat, queuedAt : Nat]

States == {"pending_review", "approved", "scheduled"}

VARIABLES
  manifests,  \* post -> state and scheduled_for in its manifest.json
  queue,      \* the entries of schedule_queue.json
  now,        \* the clock
  starts,     \* runs started so far
  pc, post,   \* each run's next step and post
  draft,      \* the entries each run is about to save
  slotTime    \* the time each run has chosen

fileVars == <<manifests, queue>>
runVars == <<starts, pc, post, draft, slotTime>>
vars == <<fileVars, now, runVars>>

Labels == {"idle", "load", "write", "save"}

Init ==
  /\ manifests = [p \in Posts |-> [state |-> "approved", scheduledFor |-> NoSlot]]
  /\ queue = {}
  /\ now \in StartTimes
  /\ starts = 0
  /\ pc = [r \in Runs |-> "idle"]
  /\ post = [r \in Runs |-> CHOOSE p \in Posts : TRUE]
  /\ draft = [r \in Runs |-> {}]
  /\ slotTime = [r \in Runs |-> NoSlot]

-----------------------------------------------------------------------------
(* findNextSlot.                                                           *)

Day(t) == t \div DayLength
Weekday(day) == day % 7

(* Any other name counts as Sunday.                                        *)
parseDayOfWeek(name) ==
  CASE name = "monday" -> 1 [] name = "tuesday" -> 2 [] name = "wednesday" -> 3
    [] name = "thursday" -> 4 [] name = "friday" -> 5 [] name = "saturday" -> 6
    [] OTHER -> 0

(* The slot's next time on or after the given day.                         *)
slotTimeOnDate(day, slot) ==
  LET dayOffset == (parseDayOfWeek(slot.day) - Weekday(day) + 7) % 7
  IN  (day + dayOffset) * DayLength + slot.time

(* Entries are matched by slot and date.                                   *)
InSlot(entries, slot, t) ==
  {e \in entries : e.slot = slot /\ Day(e.scheduledFor) = Day(t)}

countInSlot(entries, slot, t) == Cardinality(InSlot(entries, slot, t))

(* Mutant of HasRoom: one post too many.                                   *)
HasRoomForOneMore(entries, slot, t) == countInSlot(entries, slot, t) <= BatchSize

HasRoom(entries, slot, t) == countInSlot(entries, slot, t) < BatchSize

(* The times of the slots in the days looked at.                           *)
Occurrences(t) ==
  {[slot |-> slot, time |-> slotTimeOnDate(day, slot)] :
     slot \in Slots, day \in Day(t)..(Day(t) + LookAhead - 1)}

(* Mutant of candidates: a slot that begins now is still taken.            *)
candidatesFromNow(t) == {c \in Occurrences(t) : c.time >= t}

candidates(t) == {c \in Occurrences(t) : c.time > t}

(* The first candidates with room; slots configured for the same time are  *)
(* in no particular order.                                                 *)
NextSlots(t, entries) ==
  LET open == {c \in candidates(t) : HasRoom(entries, c.slot, c.time)}
  IN  {c \in open : \A d \in open : c.time <= d.time}

-----------------------------------------------------------------------------
GoTo(r, label) == pc' = [pc EXCEPT ![r] = label]

(* A run ends and its local variables with it.                             *)
Finish(r) ==
  /\ GoTo(r, "idle")
  /\ draft' = [draft EXCEPT ![r] = {}]
  /\ slotTime' = [slotTime EXCEPT ![r] = NoSlot]

(* manifest.Read; Schedule refuses a post that is not approved.            *)
Start(r, p) ==
  /\ pc[r] = "idle"
  /\ starts < MaxStarts
  /\ manifests[p].state = "approved"
  /\ starts' = starts + 1
  /\ post' = [post EXCEPT ![r] = p]
  /\ GoTo(r, "load")
  /\ UNCHANGED <<fileVars, now, draft, slotTime>>

(* Mutant of Duplicate: only an entry that is still to come counts.        *)
DuplicateAhead(r) ==
  \E e \in queue : e.post = post[r] /\ e.scheduledFor > now

Duplicate(r) == \E e \in queue : e.post = post[r]

NewEntry(r, c) ==
  [post |-> post[r], slot |-> c.slot, scheduledFor |-> c.time, queuedAt |-> starts]

(* loadQueue, the duplicate check and findNextSlot; a dry run, a duplicate *)
(* or a full calendar ends here.                                           *)
ChooseSlot(r) ==
  /\ pc[r] = "load"
  /\ ~Duplicate(r)
  /\ \E c \in NextSlots(now, queue) :
       /\ draft' = [draft EXCEPT ![r] = queue \cup {NewEntry(r, c)}]
       /\ slotTime' = [slotTime EXCEPT ![r] = c.time]
  /\ GoTo(r, "write")
  /\ UNCHANGED <<fileVars, now, starts, post>>

Refuse(r) ==
  /\ pc[r] = "load"
  /\ Duplicate(r) \/ NextSlots(now, queue) = {}
  /\ GoTo(r, "idle")
  /\ UNCHANGED <<fileVars, now, starts, post, draft, slotTime>>

(* The manifest is written before the queue.                               *)
WriteManifest(r) ==
  /\ pc[r] = "write"
  /\ manifests' = [manifests EXCEPT ![post[r]] =
                     [state |-> "scheduled", scheduledFor |-> slotTime[r]]]
  /\ GoTo(r, "save")
  /\ UNCHANGED <<queue, now, starts, post, draft, slotTime>>

(* Whatever the file has become since it was loaded is replaced.           *)
SaveQueue(r) ==
  /\ pc[r] = "save"
  /\ queue' = draft[r]
  /\ Finish(r)
  /\ UNCHANGED <<manifests, now, starts, post>>

(* RemoveEntry loads the queue and will save it without the post.          *)
RemoveEntry(r, p) ==
  /\ pc[r] = "idle"
  /\ starts < MaxStarts
  /\ starts' = starts + 1
  /\ draft' = [draft EXCEPT ![r] = {e \in queue : e.post # p}]
  /\ GoTo(r, "save")
  /\ UNCHANGED <<fileVars, now, post, slotTime>>

(* A run dies, or a write fails and the run gives up; one that stops       *)
(* earlier leaves nothing behind.                                          *)
Stop(r) ==
  /\ Crashes
  /\ pc[r] \in {"write", "save"}
  /\ Finish(r)
  /\ UNCHANGED <<fileVars, now, starts, post>>

-----------------------------------------------------------------------------
(* Mutant of Dequeue: the state is cleared instead of set.                 *)
DequeueToNoState(p) ==
  /\ manifests[p].state \in {"approved", "scheduled"}
  /\ manifests' = [manifests EXCEPT ![p].state = ""]
  /\ UNCHANGED <<queue, now, runVars>>

(* The TUI: dequeuePost puts a queued post back to review and leaves the   *)
(* queue file alone; approvePost queues it again.                          *)
Dequeue(p) ==
  /\ manifests[p].state \in {"approved", "scheduled"}
  /\ manifests' = [manifests EXCEPT ![p].state = "pending_review"]
  /\ UNCHANGED <<queue, now, runVars>>

Approve(p) ==
  /\ manifests[p].state = "pending_review"
  /\ manifests' = [manifests EXCEPT ![p].state = "approved"]
  /\ UNCHANGED <<queue, now, runVars>>

Tick ==
  /\ now < Now
  /\ now' = now + 1
  /\ UNCHANGED <<fileVars, runVars>>

Schedule(r) == ChooseSlot(r) \/ Refuse(r) \/ WriteManifest(r) \/ SaveQueue(r)

Next ==
  \/ \E r \in Runs :
       \/ Schedule(r) \/ Stop(r)
       \/ \E p \in Posts : Start(r, p) \/ RemoveEntry(r, p)
  \/ \E p \in Posts : Dequeue(p) \/ Approve(p)
  \/ Tick

Spec == Init /\ [][Next]_vars

-----------------------------------------------------------------------------
(* Every variable has its type.                                            *)
TypeOK ==
  /\ manifests \in [Posts -> [state : States, scheduledFor : Nat \cup {NoSlot}]]
  /\ queue \subseteq QueueEntry
  /\ now \in Nat
  /\ starts \in Nat
  /\ pc \in [Runs -> Labels]
  /\ post \in [Runs -> Posts]
  /\ draft \in [Runs -> SUBSET QueueEntry]
  /\ slotTime \in [Runs -> Nat \cup {NoSlot}]

(* No slot of no week ever holds more than batch_size posts, although runs *)
(* overlap, die and save what they loaded long before (scheduler.go:259).  *)
SlotsAreNeverOverfull ==
  \A e \in queue : countInSlot(queue, e.slot, e.scheduledFor) <= BatchSize

(* A post is in the queue at most once, so it is not due twice; also when  *)
(* it was dequeued and approved again, or two runs schedule it at once     *)
(* (scheduler.go:103-107).                                                 *)
QueuedOnce ==
  \A e, f \in queue : e.post = f.post => e = f

OpenAt(slot, t) ==
  /\ t % DayLength = slot.time
  /\ Weekday(Day(t)) = parseDayOfWeek(slot.day)
  /\ Cardinality({e \in queue : e.slot = slot /\ e.scheduledFor = t}) < BatchSize

ChoosesEarliest(r) ==
  pc[r] = "load" /\ pc'[r] = "write" =>
    /\ slotTime'[r] > now
    /\ \E slot \in Slots : OpenAt(slot, slotTime'[r])
    /\ \A t \in (now + 1)..(slotTime'[r] - 1), slot \in Slots : ~OpenAt(slot, t)

GivesUpIfFull(r) ==
  pc[r] = "load" /\ pc'[r] = "idle" /\ ~Duplicate(r) =>
    \A t \in (now + 1)..((Day(now) + LookAhead) * DayLength - 1), slot \in Slots :
      ~OpenAt(slot, t)

(* The slot a run chooses is the earliest time to come at which one of the *)
(* configured weekdays and times falls and has room, given the entries it  *)
(* loaded, wherever in the week it runs; and a run gives up only if there  *)
(* is none in the days it looks at (scheduler.go:230-285).                 *)
EarliestOpenTimeIsChosen ==
  [][\A r \in Runs : ChoosesEarliest(r) /\ GivesUpIfFull(r)]_vars

=============================================================================
