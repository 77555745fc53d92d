-------------------------- MODULE SchedulerProofs ---------------------------
(***************************************************************************)
(* Proofs about Scheduler: types, and that the queue file is always a good *)
(* queue, whoever replaces it with whatever it loaded. The invariant also  *)
(* speaks of the drafts, because a draft becomes the file much later.      *)
(***************************************************************************)
EXTENDS Scheduler, FiniteSetTheorems, WellFoundedInduction, TLAPS

-----------------------------------------------------------------------------
(* Types.                                                                  *)

LEMMA CandidateType ==
  ASSUME NEW t \in Nat, NEW entries, NEW c \in NextSlots(t, entries)
  PROVE  c.slot \in Slots /\ c.time \in Nat /\ HasRoom(entries, c.slot, c.time)
<1>1. c \in candidates(t) /\ HasRoom(entries, c.slot, c.time)
  BY DEF NextSlots
<1>2. PICK slot \in Slots, day \in Day(t)..(Day(t) + LookAhead - 1) :
        c = [slot |-> slot, time |-> slotTimeOnDate(day, slot)]
  BY <1>1 DEF candidates, Occurrences
<1>3. c.time > t
  BY <1>1 DEF candidates
<1>4. Weekday(day) \in Int /\ parseDayOfWeek(slot.day) \in Int
  BY DEF Weekday, parseDayOfWeek
<1>5. slot.time \in Int /\ DayLength \in Int
  BY ConstantsAssumption
<1>6. (parseDayOfWeek(slot.day) - Weekday(day) + 7) % 7 \in Int
  BY <1>4
<1>7. slotTimeOnDate(day, slot) \in Int
  BY <1>5, <1>6 DEF slotTimeOnDate
<1>8. c.slot = slot /\ c.time = slotTimeOnDate(day, slot)
  BY <1>2
<1> QED
  BY <1>1, <1>3, <1>7, <1>8

LEMMA TypeInit == Init => TypeOK
<1> SUFFICES ASSUME Init
             PROVE  TypeOK
  OBVIOUS
<1>1. (CHOOSE p \in Posts : TRUE) \in Posts
  BY ConstantsAssumption
<1> QED
  BY <1>1, ConstantsAssumption DEF Init, TypeOK, States, Labels, NoSlot

LEMMA ScheduleType ==
  ASSUME TypeOK, NEW r \in Runs, Schedule(r)
  PROVE  TypeOK'
<1>1. CASE ChooseSlot(r)
  <2>1. PICK c \in NextSlots(now, queue) :
          /\ draft' = [draft EXCEPT ![r] = queue \cup {NewEntry(r, c)}]
          /\ slotTime' = [slotTime EXCEPT ![r] = c.time]
    BY <1>1 DEF ChooseSlot
  <2>2. c.slot \in Slots /\ c.time \in Nat
    BY CandidateType DEF TypeOK
  <2>3. NewEntry(r, c) \in QueueEntry
    BY <2>2 DEF NewEntry, QueueEntry, TypeOK
  <2>4. draft' \in [Runs -> SUBSET QueueEntry]
    BY <2>1, <2>3 DEF TypeOK
  <2>5. slotTime' \in [Runs -> Nat \cup {NoSlot}]
    BY <2>1, <2>2 DEF TypeOK
  <2>6. pc' \in [Runs -> Labels]
    BY <1>1 DEF ChooseSlot, GoTo, TypeOK, Labels
  <2>7. UNCHANGED <<manifests, queue, now, starts, post>>
    BY <1>1 DEF ChooseSlot, fileVars
  <2> QED
    BY <2>4, <2>5, <2>6, <2>7 DEF TypeOK
<1>2. CASE Refuse(r)
  BY <1>2 DEF Refuse, GoTo, TypeOK, Labels, fileVars
<1>3. CASE WriteManifest(r)
  <2>1. manifests' \in [Posts -> [state : States, scheduledFor : Nat \cup {NoSlot}]]
    BY <1>3 DEF WriteManifest, TypeOK, States
  <2>2. pc' \in [Runs -> Labels]
    BY <1>3 DEF WriteManifest, GoTo, TypeOK, Labels
  <2> QED
    BY <1>3, <2>1, <2>2 DEF WriteManifest, TypeOK
<1>4. CASE SaveQueue(r)
  <2>1. queue' \subseteq QueueEntry
    BY <1>4 DEF SaveQueue, TypeOK
  <2>2. /\ pc' \in [Runs -> Labels]
        /\ draft' \in [Runs -> SUBSET QueueEntry]
        /\ slotTime' \in [Runs -> Nat \cup {NoSlot}]
    BY <1>4 DEF SaveQueue, Finish, GoTo, TypeOK, Labels
  <2> QED
    BY <1>4, <2>1, <2>2 DEF SaveQueue, TypeOK
<1> QED
  BY <1>1, <1>2, <1>3, <1>4 DEF Schedule

LEMMA TypeStep == TypeOK /\ [Next]_vars => TypeOK'
<1> SUFFICES ASSUME TypeOK, [Next]_vars
             PROVE  TypeOK'
  OBVIOUS
<1>1. ASSUME NEW r \in Runs, Schedule(r)
      PROVE  TypeOK'
  BY <1>1, ScheduleType
<1>2. ASSUME NEW r \in Runs, Stop(r)
      PROVE  TypeOK'
  BY <1>2 DEF Stop, Finish, GoTo, TypeOK, Labels, fileVars
<1>3. ASSUME NEW r \in Runs, NEW p \in Posts, Start(r, p)
      PROVE  TypeOK'
  BY <1>3 DEF Start, GoTo, TypeOK, Labels, fileVars
<1>4. ASSUME NEW r \in Runs, NEW p \in Posts, RemoveEntry(r, p)
      PROVE  TypeOK'
  <2>1. draft' \in [Runs -> SUBSET QueueEntry]
    BY <1>4 DEF RemoveEntry, TypeOK
  <2> QED
    BY <1>4, <2>1 DEF RemoveEntry, GoTo, TypeOK, Labels, fileVars
<1>5. ASSUME NEW p \in Posts, Dequeue(p) \/ Approve(p)
      PROVE  TypeOK'
  <2>1. PICK s \in States : manifests' = [manifests EXCEPT ![p].state = s]
    BY <1>5 DEF Dequeue, Approve, States
  <2>2. manifests' \in [Posts -> [state : States, scheduledFor : Nat \cup {NoSlot}]]
    BY <2>1 DEF TypeOK
  <2> QED
    BY <1>5, <2>2 DEF Dequeue, Approve, TypeOK, runVars
<1>6. CASE Tick
  BY <1>6 DEF Tick, TypeOK, fileVars, runVars
<1>7. CASE UNCHANGED vars
  BY <1>7 DEF vars, fileVars, runVars, TypeOK
<1> QED
  BY <1>1, <1>2, <1>3, <1>4, <1>5, <1>6, <1>7 DEF Next

(* The types of Scheduler hold for any slots, posts and runs.              *)
THEOREM TypeCorrect == Spec => []TypeOK
BY TypeInit, TypeStep, PTL DEF Spec

-----------------------------------------------------------------------------
(* What may be in the queue file.                                          *)

GoodQueue(q) ==
  /\ IsFiniteSet(q)
  /\ \A e \in q : countInSlot(q, e.slot, e.scheduledFor) <= BatchSize
  /\ \A e, f \in q : e.post = f.post => e = f

QueueInv == GoodQueue(queue) /\ \A r \in Runs : GoodQueue(draft[r])

LEMMA EmptyQueueIsGood == GoodQueue({})
BY FS_EmptySet DEF GoodQueue

(* Taking entries out keeps a queue good.                                  *)
LEMMA RemovingKeepsGood ==
  ASSUME NEW q, GoodQueue(q), NEW s \in SUBSET q
  PROVE  GoodQueue(s)
<1>1. IsFiniteSet(s)
  BY FS_Subset DEF GoodQueue
<1>2. ASSUME NEW e \in s
      PROVE  countInSlot(s, e.slot, e.scheduledFor) <= BatchSize
  <2> DEFINE small == InSlot(s, e.slot, e.scheduledFor)
             large == InSlot(q, e.slot, e.scheduledFor)
  <2>1. small \subseteq large /\ large \subseteq q
    BY DEF InSlot
  <2>2. IsFiniteSet(large)
    BY <2>1, FS_Subset DEF GoodQueue
  <2>3. Cardinality(small) <= Cardinality(large)
        /\ IsFiniteSet(small)
    BY <2>1, <2>2, FS_Subset
  <2>4. Cardinality(large) <= BatchSize
    BY DEF GoodQueue, countInSlot
  <2>5. Cardinality(small) \in Nat /\ Cardinality(large) \in Nat
    BY <2>2, <2>3, FS_CardinalityType
  <2> QED
    BY <2>3, <2>4, <2>5, ConstantsAssumption DEF countInSlot
<1> QED
  BY <1>1, <1>2 DEF GoodQueue

(* So does adding an entry of a new post to a slot that has room.          *)
LEMMA AddingKeepsGood ==
  ASSUME NEW q, GoodQueue(q), NEW x, \A e \in q : e.post # x.post,
         HasRoom(q, x.slot, x.scheduledFor)
  PROVE  GoodQueue(q \cup {x})
<1>1. IsFiniteSet(q \cup {x})
  BY FS_AddElement DEF GoodQueue
<1>2. ASSUME NEW e \in q \cup {x}
      PROVE  countInSlot(q \cup {x}, e.slot, e.scheduledFor) <= BatchSize
  <2> DEFINE before == InSlot(q, e.slot, e.scheduledFor)
             after == InSlot(q \cup {x}, e.slot, e.scheduledFor)
  <2>1. IsFiniteSet(before)
    BY FS_Subset DEF GoodQueue, InSlot
  <2>2. Cardinality(before) \in Nat
    BY <2>1, FS_CardinalityType
  <2>3. CASE after = before
    <3>1. e \in q \/ e = x
      OBVIOUS
    <3>2. Cardinality(before) <= BatchSize
      BY <3>1, <2>2, ConstantsAssumption DEF GoodQueue, HasRoom, countInSlot
    <3> QED
      BY <2>3, <3>2 DEF countInSlot
  <2>4. CASE after # before
    <3>1. x.slot = e.slot /\ Day(x.scheduledFor) = Day(e.scheduledFor)
      BY <2>4 DEF InSlot
    <3>2. before = InSlot(q, x.slot, x.scheduledFor)
      BY <3>1 DEF InSlot
    <3>3. Cardinality(before) < BatchSize
      BY <3>2 DEF HasRoom, countInSlot
    <3>4. after = before \cup {x}
      BY <3>1 DEF InSlot
    <3>5. Cardinality(after) = Cardinality(before)
          \/ Cardinality(after) = Cardinality(before) + 1
      BY <2>1, <3>4, FS_AddElement
    <3> QED
      BY <2>2, <3>3, <3>5, ConstantsAssumption DEF countInSlot
  <2> QED
    BY <2>3, <2>4
<1>3. \A e, f \in q \cup {x} : e.post = f.post => e = f
  BY DEF GoodQueue
<1> QED
  BY <1>1, <1>2, <1>3 DEF GoodQueue

LEMMA QueueInit == Init => QueueInv
BY EmptyQueueIsGood DEF Init, QueueInv

LEMMA QueueStep == TypeOK /\ QueueInv /\ [Next]_vars => QueueInv'
<1> SUFFICES ASSUME TypeOK, QueueInv, [Next]_vars
             PROVE  QueueInv'
  OBVIOUS
<1>1. ASSUME NEW r \in Runs, ChooseSlot(r)
      PROVE  QueueInv'
  <2>1. PICK c \in NextSlots(now, queue) :
          draft' = [draft EXCEPT ![r] = queue \cup {NewEntry(r, c)}]
    BY <1>1 DEF ChooseSlot
  <2>2. HasRoom(queue, c.slot, c.time)
    BY CandidateType DEF TypeOK
  <2>3. /\ NewEntry(r, c).post = post[r]
        /\ NewEntry(r, c).slot = c.slot
        /\ NewEntry(r, c).scheduledFor = c.time
    BY DEF NewEntry
  <2>4. \A e \in queue : e.post # post[r]
    BY <1>1 DEF ChooseSlot, Duplicate
  <2>5. GoodQueue(queue \cup {NewEntry(r, c)})
    BY <2>2, <2>3, <2>4, AddingKeepsGood DEF QueueInv
  <2>6. \A q \in Runs :
          draft'[q] = IF q = r THEN queue \cup {NewEntry(r, c)} ELSE draft[q]
    BY <2>1 DEF TypeOK
  <2> QED
    BY <1>1, <2>5, <2>6 DEF ChooseSlot, fileVars, QueueInv
<1>2. ASSUME NEW r \in Runs, SaveQueue(r)
      PROVE  QueueInv'
  <2>1. queue' = draft[r] /\ draft' = [draft EXCEPT ![r] = {}]
    BY <1>2 DEF SaveQueue, Finish
  <2>2. \A q \in Runs : draft'[q] = IF q = r THEN {} ELSE draft[q]
    BY <2>1 DEF TypeOK
  <2> QED
    BY <2>1, <2>2, EmptyQueueIsGood DEF QueueInv
<1>3. ASSUME NEW r \in Runs, Stop(r)
      PROVE  QueueInv'
  <2>1. \A q \in Runs : draft'[q] = IF q = r THEN {} ELSE draft[q]
    BY <1>3 DEF Stop, Finish, TypeOK
  <2> QED
    BY <1>3, <2>1, EmptyQueueIsGood DEF Stop, fileVars, QueueInv
<1>4. ASSUME NEW r \in Runs, NEW p \in Posts, RemoveEntry(r, p)
      PROVE  QueueInv'
  <2>1. GoodQueue({e \in queue : e.post # p})
    BY RemovingKeepsGood DEF QueueInv
  <2>2. \A q \in Runs :
          draft'[q] = IF q = r THEN {e \in queue : e.post # p} ELSE draft[q]
    BY <1>4 DEF RemoveEntry, TypeOK
  <2> QED
    BY <1>4, <2>1, <2>2 DEF RemoveEntry, fileVars, QueueInv
<1>5. ASSUME UNCHANGED <<queue, draft>>
      PROVE  QueueInv'
  BY <1>5 DEF QueueInv
<1>6. ASSUME NEW r \in Runs, Refuse(r) \/ WriteManifest(r)
      PROVE  UNCHANGED <<queue, draft>>
  BY <1>6 DEF Refuse, WriteManifest, fileVars
<1>7. ASSUME NEW r \in Runs, NEW p \in Posts, Start(r, p) \/ Dequeue(p) \/ Approve(p)
      PROVE  UNCHANGED <<queue, draft>>
  BY <1>7 DEF Start, Dequeue, Approve, fileVars, runVars
<1>8. ASSUME Tick \/ UNCHANGED vars
      PROVE  UNCHANGED <<queue, draft>>
  BY <1>8 DEF Tick, vars, fileVars, runVars
<1>9. ASSUME NEW p \in Posts, Dequeue(p) \/ Approve(p)
      PROVE  UNCHANGED <<queue, draft>>
  BY <1>9 DEF Dequeue, Approve, runVars
<1> QED
  BY <1>1, <1>2, <1>3, <1>4, <1>5, <1>6, <1>7, <1>8, <1>9 DEF Next, Schedule

(* No slot is ever overfull, for any batch size and any number of          *)
(* overlapping, dying and late saving runs.                                *)
THEOREM NoSlotIsOverfull == Spec => []SlotsAreNeverOverfull
<1>1. QueueInv => SlotsAreNeverOverfull
  BY DEF QueueInv, GoodQueue, SlotsAreNeverOverfull
<1> QED
  BY <1>1, TypeInit, TypeStep, QueueInit, QueueStep, PTL DEF Spec

(* Nor is a post ever in the queue twice.                                  *)
THEOREM NoPostIsQueuedTwice == Spec => []QueuedOnce
<1>1. QueueInv => QueuedOnce
  BY DEF QueueInv, GoodQueue, QueuedOnce
<1> QED
  BY <1>1, TypeInit, TypeStep, QueueInit, QueueStep, PTL DEF Spec

-----------------------------------------------------------------------------
(* The calendar. A time is a day and a step of the day.                    *)

LEMMA DayFacts ==
  ASSUME NEW t \in Nat
  PROVE  /\ Day(t) \in Nat /\ t % DayLength \in 0..(DayLength - 1)
         /\ t = Day(t) * DayLength + (t % DayLength)
BY ConstantsAssumption, SMT DEF Day

LEMMA DayOf ==
  ASSUME NEW day \in Nat, NEW step \in 0..(DayLength - 1)
  PROVE  /\ day * DayLength + step \in Nat
         /\ Day(day * DayLength + step) = day
         /\ (day * DayLength + step) % DayLength = step
BY ConstantsAssumption, SMT DEF Day

LEMMA EarlierDay ==
  ASSUME NEW t \in Nat, NEW day \in Nat, t < day * DayLength
  PROVE  Day(t) < day
<1>1. ASSUME NEW a \in Nat, NEW D \in Nat, day <= a
      PROVE  day * D <= a * D
  BY <1>1, SMT
<1>2. DayLength \in Nat
  BY ConstantsAssumption
<1>3. Day(t) * DayLength <= t /\ Day(t) \in Nat
  <2>1. Day(t) * DayLength \in Nat
    BY <1>2, DayFacts
  <2> QED
    BY <1>2, <2>1, DayFacts
<1>4. CASE day <= Day(t)
  <2>1. day * DayLength <= Day(t) * DayLength
    BY <1>1, <1>2, <1>3, <1>4
  <2>2. day * DayLength \in Nat /\ Day(t) * DayLength \in Nat
    BY <1>2, <1>3
  <2> QED
    BY <1>3, <2>1, <2>2
<1> QED
  BY <1>3, <1>4

LEMMA MonotoneDay ==
  ASSUME NEW t \in Nat, NEW u \in Nat, t <= u
  PROVE  Day(t) <= Day(u)
<1>1. Day(t) \in Nat /\ Day(u) \in Nat
  BY DayFacts
<1>2. ASSUME NEW a \in Nat, NEW D \in Nat, NEW s \in 0..(D - 1)
      PROVE  a * D + s < (a + 1) * D /\ (a + 1) * D \in Nat
  BY <1>2, SMT
<1>3. u % DayLength \in 0..(DayLength - 1) /\ u = Day(u) * DayLength + (u % DayLength)
  BY DayFacts
<1>4. u < (Day(u) + 1) * DayLength /\ (Day(u) + 1) * DayLength \in Nat
  BY <1>1, <1>2, <1>3, ConstantsAssumption
<1>5. t < (Day(u) + 1) * DayLength
  BY <1>4
<1>6. Day(t) < Day(u) + 1
  BY <1>1, <1>5, EarlierDay
<1> QED
  BY <1>1, <1>6

LEMMA NameOfDay == ASSUME NEW name PROVE parseDayOfWeek(name) \in 0..6
BY DEF parseDayOfWeek

(* Where a slot falls from some day on: on its weekday, within a week.     *)
LEMMA NextFall ==
  ASSUME NEW day \in Nat, NEW slot \in Slots
  PROVE  \E d \in day..(day + 6) :
           /\ slotTimeOnDate(day, slot) = d * DayLength + slot.time
           /\ Weekday(d) = parseDayOfWeek(slot.day)
           /\ \A e \in day..(day + 6) : Weekday(e) = parseDayOfWeek(slot.day) => e = d
<1> DEFINE p == parseDayOfWeek(slot.day)
           d == day + ((p - Weekday(day) + 7) % 7)
<1>1. p \in 0..6
  BY NameOfDay
<1> HIDE DEF p
<1>2. ASSUME NEW a \in Nat, NEW q \in 0..6
      PROVE  /\ a + ((q - (a % 7) + 7) % 7) \in a..(a + 6)
             /\ (a + ((q - (a % 7) + 7) % 7)) % 7 = q
  BY SMT
<1>3. d \in day..(day + 6) /\ Weekday(d) = p
  <2>1. d = day + ((p - (day % 7) + 7) % 7)
    BY DEF Weekday
  <2>2. /\ day + ((p - (day % 7) + 7) % 7) \in day..(day + 6)
        /\ (day + ((p - (day % 7) + 7) % 7)) % 7 = p
    BY <1>1, <1>2
  <2> QED
    BY <2>1, <2>2 DEF Weekday
<1>4. ASSUME NEW a \in day..(day + 6), NEW b \in day..(day + 6), a % 7 = b % 7
      PROVE  a = b
  BY <1>4, SMT
<1>5. slotTimeOnDate(day, slot) = d * DayLength + slot.time
  BY DEF slotTimeOnDate, p
<1> HIDE DEF d
<1>6. \A e \in day..(day + 6) : Weekday(e) = p => e = d
  BY <1>3, <1>4 DEF Weekday
<1> QED
  BY <1>3, <1>5, <1>6 DEF p

(* A time that the configuration gives to a slot.                          *)
Falls(slot, t) ==
  t % DayLength = slot.time /\ Weekday(Day(t)) = parseDayOfWeek(slot.day)

(* What is looked at are times of slots.                                   *)
LEMMA OccurrenceFalls ==
  ASSUME NEW t \in Nat, NEW c \in Occurrences(t)
  PROVE  /\ c.slot \in Slots /\ c.time \in Nat /\ Falls(c.slot, c.time)
         /\ LookAhead > 0 /\ Day(c.time) <= Day(t) + LookAhead - 1 + 6
         /\ c = [slot |-> c.slot, time |-> c.time]
<1>1. PICK slot \in Slots, day \in Day(t)..(Day(t) + LookAhead - 1) :
        c = [slot |-> slot, time |-> slotTimeOnDate(day, slot)]
  BY DEF Occurrences
<1>2. Day(t) \in Nat /\ LookAhead \in Nat
  BY DayFacts, ConstantsAssumption
<1>3. day \in Nat /\ LookAhead > 0
  BY <1>1, <1>2
<1>4. PICK d \in day..(day + 6) :
        /\ slotTimeOnDate(day, slot) = d * DayLength + slot.time
        /\ Weekday(d) = parseDayOfWeek(slot.day)
  BY <1>3, NextFall
<1>5. d \in Nat /\ d <= Day(t) + LookAhead - 1 + 6 /\ slot.time \in 0..(DayLength - 1)
  BY <1>2, <1>3, ConstantsAssumption
<1>6. /\ c.time \in Nat /\ Day(c.time) = d /\ c.time % DayLength = slot.time
      /\ c.slot = slot
  BY <1>1, <1>4, <1>5, DayOf
<1> QED
  BY <1>1, <1>3, <1>4, <1>5, <1>6 DEF Falls

(* Every time of a slot is looked at, up to the week after the last day.   *)
LEMMA FallIsLookedAt ==
  ASSUME NEW t \in Nat, NEW slot \in Slots, NEW u \in Nat, Falls(slot, u),
         LookAhead > 0, Day(t) <= Day(u), Day(u) <= Day(t) + LookAhead - 1 + 6
  PROVE  [slot |-> slot, time |-> u] \in Occurrences(t)
<1>1. /\ Day(t) \in Nat /\ Day(u) \in Nat /\ LookAhead \in Nat
      /\ u = Day(u) * DayLength + slot.time
  BY DayFacts, ConstantsAssumption DEF Falls
<1>2. PICK day \in Day(t)..(Day(t) + LookAhead - 1) : Day(u) \in day..(day + 6)
  <2>1. CASE Day(u) <= Day(t) + LookAhead - 1
    BY <1>1, <2>1
  <2>2. CASE Day(u) > Day(t) + LookAhead - 1
    <3>1. /\ Day(t) + LookAhead - 1 \in Day(t)..(Day(t) + LookAhead - 1)
          /\ Day(u) \in (Day(t) + LookAhead - 1)..(Day(t) + LookAhead - 1 + 6)
      BY <1>1, <2>2
    <3> QED
      BY <3>1
  <2> QED
    BY <1>1, <2>1, <2>2
<1>3. day \in Nat
  BY <1>1, <1>2
<1>4. PICK d \in day..(day + 6) :
        /\ slotTimeOnDate(day, slot) = d * DayLength + slot.time
        /\ \A e \in day..(day + 6) : Weekday(e) = parseDayOfWeek(slot.day) => e = d
  BY <1>3, NextFall
<1>5. Day(u) = d
  BY <1>2, <1>4 DEF Falls
<1>6. slotTimeOnDate(day, slot) = u
  BY <1>1, <1>4, <1>5
<1> QED
  BY <1>2, <1>6 DEF Occurrences

-----------------------------------------------------------------------------
(* The earliest open time.                                                 *)

(* Entries are at a time of day of their slot, so that one that has the    *)
(* date of a time of the slot has the time.                                *)
OnTime(q) == \A e \in q : e.scheduledFor % DayLength = e.slot.time

OnTimeInv == OnTime(queue) /\ \A r \in Runs : OnTime(draft[r])

LEMMA OnTimeStep == TypeOK /\ OnTimeInv /\ [Next]_vars => OnTimeInv'
<1> SUFFICES ASSUME TypeOK, OnTimeInv, [Next]_vars
             PROVE  OnTimeInv'
  OBVIOUS
<1>1. ASSUME NEW r \in Runs, ChooseSlot(r)
      PROVE  OnTimeInv'
  <2>1. PICK c \in NextSlots(now, queue) :
          draft' = [draft EXCEPT ![r] = queue \cup {NewEntry(r, c)}]
    BY <1>1 DEF ChooseSlot
  <2>2. c.time % DayLength = c.slot.time
    BY OccurrenceFalls DEF NextSlots, candidates, Falls, TypeOK
  <2>3. OnTime(queue \cup {NewEntry(r, c)})
    BY <2>2 DEF OnTimeInv, OnTime, NewEntry
  <2>4. \A q \in Runs : OnTime(draft'[q])
    BY <2>1, <2>3 DEF OnTimeInv, TypeOK
  <2> QED
    BY <1>1, <2>4 DEF ChooseSlot, fileVars, OnTimeInv
<1>2. ASSUME NEW r \in Runs, SaveQueue(r) \/ Stop(r)
      PROVE  OnTimeInv'
  <2>1. OnTime({}) /\ OnTime(queue')
    BY <1>2 DEF SaveQueue, Stop, fileVars, OnTimeInv, OnTime
  <2>2. \A q \in Runs : draft'[q] = IF q = r THEN {} ELSE draft[q]
    BY <1>2 DEF SaveQueue, Stop, Finish, TypeOK
  <2> QED
    BY <2>1, <2>2 DEF OnTimeInv
<1>3. ASSUME NEW r \in Runs, NEW p \in Posts, RemoveEntry(r, p)
      PROVE  OnTimeInv'
  <2>1. OnTime({e \in queue : e.post # p})
    BY DEF OnTimeInv, OnTime
  <2>2. \A q \in Runs : draft'[q] = IF q = r THEN {e \in queue : e.post # p} ELSE draft[q]
    BY <1>3 DEF RemoveEntry, TypeOK
  <2> QED
    BY <1>3, <2>1, <2>2 DEF RemoveEntry, fileVars, OnTimeInv
<1>4. CASE UNCHANGED <<queue, draft>>
  BY <1>4 DEF OnTimeInv
<1>5. ASSUME NEW r \in Runs, Refuse(r) \/ WriteManifest(r) \/ \E p \in Posts : Start(r, p)
      PROVE  UNCHANGED <<queue, draft>>
  BY <1>5 DEF Refuse, WriteManifest, Start, fileVars
<1>6. ASSUME (\E p \in Posts : Dequeue(p) \/ Approve(p)) \/ Tick \/ UNCHANGED vars
      PROVE  UNCHANGED <<queue, draft>>
  BY <1>6 DEF Dequeue, Approve, Tick, vars, runVars, fileVars
<1> QED
  BY <1>1, <1>2, <1>3, <1>4, <1>5, <1>6 DEF Next, Schedule

(* The room a run counts by slot and date is the room at that time.        *)
LEMMA RoomAtTime ==
  ASSUME TypeOK, OnTime(queue), NEW slot \in Slots, NEW t \in Nat,
         t % DayLength = slot.time
  PROVE  HasRoom(queue, slot, t)
           <=> Cardinality({e \in queue : e.slot = slot /\ e.scheduledFor = t}) < BatchSize
<1>1. ASSUME NEW e \in queue, e.slot = slot
      PROVE  Day(e.scheduledFor) = Day(t) <=> e.scheduledFor = t
  <2>1. e.scheduledFor \in Nat
    BY DEF TypeOK, QueueEntry
  <2>2. e.scheduledFor % DayLength = t % DayLength
    BY <1>1 DEF OnTime
  <2> QED
    BY <2>1, <2>2, DayFacts
<1>2. InSlot(queue, slot, t) = {e \in queue : e.slot = slot /\ e.scheduledFor = t}
  BY <1>1 DEF InSlot
<1> QED
  BY <1>2 DEF HasRoom, countInSlot

(* A set of times that is not empty has an earliest.                       *)
LEMMA Earliest ==
  ASSUME NEW S, S \subseteq Nat, S # {}
  PROVE  \E m \in S : \A n \in S : m <= n
<1>1. PICK m \in S : \A n \in S : <<n, m>> \notin OpToRel(<, Nat)
  BY NatLessThanWellFounded, WFMin
<1>2. ASSUME NEW n \in S PROVE m <= n
  <2>1. <<n, m>> \notin OpToRel(<, Nat)
    BY <1>1
  <2>2. ~(n < m)
    BY <2>1 DEF OpToRel
  <2> QED
    BY <2>2
<1> QED
  BY <1>2

(* What is open to a run, and when it has a choice.                        *)
Open == {c \in candidates(now) : HasRoom(queue, c.slot, c.time)}

LEMMA OpenIsOpen ==
  ASSUME TypeOK, OnTime(queue), NEW c \in Open
  PROVE  /\ c.slot \in Slots /\ c.time \in Nat /\ c.time > now /\ OpenAt(c.slot, c.time)
         /\ LookAhead > 0 /\ Day(c.time) <= Day(now) + LookAhead - 1 + 6
<1>1. c \in Occurrences(now) /\ c.time > now /\ HasRoom(queue, c.slot, c.time)
  BY DEF Open, candidates
<1>2. /\ c.slot \in Slots /\ c.time \in Nat /\ Falls(c.slot, c.time)
      /\ LookAhead > 0 /\ Day(c.time) <= Day(now) + LookAhead - 1 + 6
  BY <1>1, OccurrenceFalls DEF TypeOK
<1> QED
  BY <1>1, <1>2, RoomAtTime DEF OpenAt, Falls

LEMMA OpenIsComplete ==
  ASSUME TypeOK, OnTime(queue), NEW slot \in Slots, NEW t \in Nat, t > now,
         OpenAt(slot, t), LookAhead > 0, Day(t) <= Day(now) + LookAhead - 1 + 6
  PROVE  [slot |-> slot, time |-> t] \in Open
<1>1. Falls(slot, t) /\ HasRoom(queue, slot, t)
  BY RoomAtTime DEF OpenAt, Falls
<1>2. Day(now) <= Day(t)
  BY MonotoneDay DEF TypeOK
<1>3. [slot |-> slot, time |-> t] \in Occurrences(now)
  BY <1>1, <1>2, FallIsLookedAt DEF TypeOK
<1> QED
  BY <1>1, <1>3 DEF Open, candidates

LEMMA NoOpenNoChoice ==
  ASSUME TypeOK, OnTime(queue), NextSlots(now, queue) = {}
  PROVE  Open = {}
<1> SUFFICES ASSUME Open # {} PROVE FALSE
  OBVIOUS
<1> DEFINE times == {c.time : c \in Open}
<1>1. times # {} /\ times \subseteq Nat
  BY OpenIsOpen
<1>2. PICK m \in times : \A n \in times : m <= n
  BY <1>1, Earliest
<1>3. PICK c \in Open : c.time = m
  BY <1>2
<1>4. \A d \in Open : c.time <= d.time
  BY <1>2, <1>3
<1>5. c \in NextSlots(now, queue)
  BY <1>3, <1>4 DEF NextSlots, Open
<1> QED
  BY <1>5

LEMMA ChoiceIsEarliest ==
  ASSUME TypeOK, OnTimeInv, NEW r \in Runs, ChooseSlot(r)
  PROVE  ChoosesEarliest(r)
<1>1. PICK c \in NextSlots(now, queue) : slotTime' = [slotTime EXCEPT ![r] = c.time]
  BY DEF ChooseSlot
<1>2. slotTime'[r] = c.time
  BY <1>1 DEF TypeOK
<1>3. c \in Open /\ \A d \in Open : c.time <= d.time
  BY DEF NextSlots, Open
<1>4. /\ c.slot \in Slots /\ c.time \in Nat /\ c.time > now /\ OpenAt(c.slot, c.time)
      /\ LookAhead > 0 /\ Day(c.time) <= Day(now) + LookAhead - 1 + 6 /\ now \in Nat
  BY <1>3, OpenIsOpen DEF OnTimeInv, TypeOK
<1>5. ASSUME NEW t \in (now + 1)..(c.time - 1), NEW slot \in Slots, OpenAt(slot, t)
      PROVE  FALSE
  <2>1. t \in Nat /\ t > now /\ t < c.time
    BY <1>4
  <2>2. /\ Day(t) <= Day(c.time) /\ Day(t) \in Nat /\ Day(c.time) \in Nat
        /\ Day(now) \in Nat /\ LookAhead \in Nat
    <3>1. t <= c.time
      BY <1>4, <2>1
    <3>2. Day(t) <= Day(c.time)
      BY <1>4, <2>1, <3>1, MonotoneDay
    <3>3. Day(t) \in Nat /\ Day(c.time) \in Nat /\ Day(now) \in Nat
      BY <1>4, <2>1, DayFacts
    <3> QED
      BY <3>2, <3>3, ConstantsAssumption
  <2>3. Day(t) <= Day(now) + LookAhead - 1 + 6
    BY <1>4, <2>2
  <2>4. [slot |-> slot, time |-> t] \in Open
    BY <1>4, <1>5, <2>1, <2>3, OpenIsComplete DEF OnTimeInv
  <2>5. c.time <= [slot |-> slot, time |-> t].time
    BY <1>3, <2>4
  <2> QED
    BY <1>4, <2>1, <2>5
<1> QED
  BY <1>2, <1>4, <1>5 DEF ChoosesEarliest

LEMMA RefusalIsRight ==
  ASSUME TypeOK, OnTimeInv, NEW r \in Runs, Refuse(r)
  PROVE  GivesUpIfFull(r)
<1> SUFFICES ASSUME ~Duplicate(r), NEW slot \in Slots,
                    NEW t \in (now + 1)..((Day(now) + LookAhead) * DayLength - 1),
                    OpenAt(slot, t)
             PROVE  FALSE
  BY DEF GivesUpIfFull
<1>1. NextSlots(now, queue) = {}
  BY DEF Refuse
<1>2. now \in Nat /\ Day(now) \in Nat /\ LookAhead \in Nat /\ DayLength \in Nat
  BY DayFacts, ConstantsAssumption DEF TypeOK
<1>3. (Day(now) + LookAhead) * DayLength \in Nat
  BY <1>2
<1>4. t \in Nat /\ t > now /\ t < (Day(now) + LookAhead) * DayLength
  BY <1>2, <1>3
<1>5. Day(t) < Day(now) + LookAhead /\ Day(t) \in Nat /\ Day(now) <= Day(t)
  BY <1>2, <1>4, EarlierDay, MonotoneDay, DayFacts
<1>6. [slot |-> slot, time |-> t] \in Open
  BY <1>2, <1>4, <1>5, OpenIsComplete DEF OnTimeInv
<1> QED
  BY <1>1, <1>6, NoOpenNoChoice DEF OnTimeInv

(* The slot a run chooses is the earliest time to come that is configured  *)
(* and has room, for any slots, any batch size and any time of the week;   *)
(* and a run gives up only if the days it looks at are full                *)
(* (scheduler.go:230-285).                                                 *)
THEOREM ChoiceIsEarliestOpenTime == Spec => EarliestOpenTimeIsChosen
<1>1. Init => OnTimeInv
  BY DEF Init, OnTimeInv, OnTime
<1>2. TypeOK /\ OnTimeInv /\ [Next]_vars
        => [\A r \in Runs : ChoosesEarliest(r) /\ GivesUpIfFull(r)]_vars
  <2> SUFFICES ASSUME TypeOK, OnTimeInv, Next, NEW r \in Runs
               PROVE  ChoosesEarliest(r) /\ GivesUpIfFull(r)
    OBVIOUS
  <2>1. CASE ChooseSlot(r)
    <3>1. pc'[r] = "write"
      BY <2>1 DEF ChooseSlot, GoTo, TypeOK
    <3> QED
      BY <2>1, <3>1, ChoiceIsEarliest DEF GivesUpIfFull
  <2>2. CASE Refuse(r)
    <3>1. pc'[r] = "idle"
      BY <2>2 DEF Refuse, GoTo, TypeOK
    <3> QED
      BY <2>2, <3>1, RefusalIsRight DEF ChoosesEarliest
  <2>3. CASE ~ChooseSlot(r) /\ ~Refuse(r)
    <3>1. pc[r] = "load" => pc'[r] = "load"
      BY <2>3 DEF Next, Schedule, ChooseSlot, Refuse, WriteManifest, SaveQueue, Stop,
                  Start, RemoveEntry, Dequeue, Approve, Tick, GoTo, Finish, runVars, TypeOK
    <3> QED
      BY <3>1 DEF ChoosesEarliest, GivesUpIfFull
  <2> QED
    BY <2>1, <2>2, <2>3
<1> QED
  BY <1>1, <1>2, TypeInit, TypeStep, OnTimeStep, PTL DEF Spec, EarliestOpenTimeIsChosen

=============================================================================
