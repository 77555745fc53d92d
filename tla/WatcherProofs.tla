---------------------------- MODULE WatcherProofs ----------------------------
(***************************************************************************)
(* Proofs about Watcher for any set of timers, any number of changes of    *)
(* the directory and any number of sessions.                               *)
(***************************************************************************)
EXTENDS Watcher, TLAPS

-----------------------------------------------------------------------------
(* Types.                                                                  *)

DiskType ==
  /\ folder \in Contents \cup {"absent"}
  /\ record \in Records
  /\ events \in Seq({"dir", "image"})
  /\ away \in [folder : Contents \cup {"absent"}, record : Records,
               watched : BOOLEAN, session : Nat]
  /\ changes \in Nat

WatcherType ==
  /\ up \in BOOLEAN /\ known \in BOOLEAN /\ watched \in BOOLEAN
  /\ seen \in BOOLEAN /\ brought \in BOOLEAN
  /\ sessions \in Nat

TimerType ==
  /\ entry \in Timers \cup {NoTimer}
  /\ phase \in [Workers -> Phases]
  /\ force \in [Timers -> BOOLEAN]
  /\ found \in [Workers -> Contents]

LEMMA TypeParts ==
  /\ TypeOK <=> DiskType /\ WatcherType /\ TimerType
  /\ TypeOK' <=> DiskType' /\ WatcherType' /\ TimerType'
BY DEF TypeOK, DiskType, WatcherType, TimerType

(* What is left alone keeps its type.                                      *)
LEMMA WatcherFrame == WatcherType /\ UNCHANGED watcherVars => WatcherType'
BY DEF WatcherType, watcherVars

LEMMA TimerFrame == TimerType /\ UNCHANGED timerVars => TimerType'
BY DEF TimerType, timerVars

LEMMA EventsType ==
  ASSUME events \in Seq({"dir", "image"}), NEW e \in {"dir", "image"}
  PROVE  /\ Append(events, e) \in Seq({"dir", "image"})
         /\ events # <<>> => Tail(events) \in Seq({"dir", "image"})
OBVIOUS

LEMMA AppearType ==
  ASSUME DiskType, NEW content \in Contents, Appear(content)
  PROVE  folder' \in Contents \cup {"absent"} /\ events' \in Seq({"dir", "image"})
BY EventsType DEF DiskType, Appear

LEMMA WriteType ==
  ASSUME DiskType, NEW state \in Records, Write(state), UNCHANGED <<away, changes>>
  PROVE  DiskType'
<1>1. record' \in Records
  BY DEF Write
<1>2. folder' \in Contents \cup {"absent"} /\ events' \in Seq({"dir", "image"})
  <2>1. CASE folder = "absent"
    BY <2>1, AppearType DEF Write, Contents
  <2>2. CASE folder # "absent"
    BY <2>2 DEF Write, DiskType
  <2> QED
    BY <2>1, <2>2
<1> QED
  BY <1>1, <1>2 DEF DiskType

LEMMA FinishType ==
  ASSUME TimerType, NEW w \in Workers, Finish(w), force' = force,
         found' \in [Workers -> Contents]
  PROVE  TimerType'
BY DEF TimerType, Finish, Phases

LEMMA GoToType ==
  ASSUME TimerType, NEW w \in Workers, NEW p \in Phases, GoTo(w, p), force' = force,
         found' \in [Workers -> Contents]
  PROVE  TimerType'
BY DEF TimerType, GoTo

(* What scheduling does: one timer is armed, another one may go off.       *)
LEMMA Scheduled ==
  ASSUME TimerType, NEW forced \in BOOLEAN, scheduleProcess(forced)
  PROVE  /\ TimerType'
         /\ \A w \in Workers : phase'[w] \in {phase[w], "armed", "off"}
         /\ \A t \in Timers :
              \/ phase'[t] = "armed" /\ force'[t] = forced
              \/ phase'[t] \in {phase[t], "off"} /\ force'[t] = force[t]
<1>1. PICK t \in Timers :
        LET stopped == {u \in {entry} \cap Timers : phase[u] = "armed"}
        IN  /\ phase[t] = "off" \/ t \in stopped
            /\ phase' = [w \in Workers |-> CASE w = t         -> "armed"
                                             [] w \in stopped \ {t} -> "off"
                                             [] OTHER         -> phase[w]]
            /\ force' = [force EXCEPT ![t] = forced]
            /\ entry' = t
            /\ UNCHANGED found
  BY DEF scheduleProcess
<1> DEFINE stopped == {u \in {entry} \cap Timers : phase[u] = "armed"}
<1>2. \A w \in Workers :
        phase'[w] = CASE w = t         -> "armed"
                      [] w \in stopped \ {t} -> "off"
                      [] OTHER         -> phase[w]
  BY <1>1
<1>3. phase' \in [Workers -> Phases]
  BY <1>1, <1>2 DEF TimerType, Phases
<1>4. force' \in [Timers -> BOOLEAN]
  BY <1>1 DEF TimerType
<1>5. TimerType'
  BY <1>1, <1>3, <1>4 DEF TimerType
<1>6. \A w \in Workers : phase'[w] \in {phase[w], "armed", "off"}
  BY <1>2
<1>7. ASSUME NEW u \in Timers
      PROVE  \/ phase'[u] = "armed" /\ force'[u] = forced
             \/ phase'[u] \in {phase[u], "off"} /\ force'[u] = force[u]
  <2>0. u \in Workers
    BY DEF Workers
  <2>1. CASE u = t
    BY <1>1, <1>2, <2>0, <2>1 DEF TimerType
  <2>2. CASE u # t
    BY <1>1, <1>2, <2>0, <2>2 DEF TimerType
  <2> QED
    BY <2>1, <2>2
<1> QED
  BY <1>5, <1>6, <1>7

LEMMA UserType ==
  ASSUME TypeOK,
         \/ MakeFolder \/ ChangeImages \/ RemoveFolder \/ MoveBack \/ Review
         \/ RetryFromPanel \/ Stop
  PROVE  TypeOK'
<1>0. DiskType /\ WatcherType /\ TimerType
  BY TypeParts
<1>1. CASE MakeFolder
  <2>1. DiskType'
    BY <1>0, <1>1, AppearType DEF MakeFolder, Change, DiskType, Contents
  <2> QED
    BY <1>0, <1>1, <2>1, TypeParts, WatcherFrame, TimerFrame DEF MakeFolder
<1>2. CASE ChangeImages
  <2>1. events' \in Seq({"dir", "image"})
    BY <1>0, <1>2, EventsType DEF ChangeImages, DiskType
  <2>2. DiskType'
    BY <1>0, <1>2, <2>1 DEF ChangeImages, Change, DiskType
  <2> QED
    BY <1>0, <1>2, <2>2, TypeParts, WatcherFrame, TimerFrame DEF ChangeImages
<1>3. CASE RemoveFolder
  <2>1. away' \in [folder : Contents \cup {"absent"}, record : Records,
                   watched : BOOLEAN, session : Nat]
    <3>1. CASE UNCHANGED away
      BY <1>0, <3>1 DEF DiskType
    <3>2. CASE ~UNCHANGED away
      <4>1. PICK kept \in {FALSE, watched} :
              away' = [folder |-> folder, record |-> record,
                       watched |-> kept, session |-> sessions]
        BY <1>3, <3>2 DEF RemoveFolder
      <4>2. kept \in BOOLEAN /\ folder \in Contents \cup {"absent"}
            /\ record \in Records /\ sessions \in Nat
        BY <1>0, <4>1 DEF DiskType, WatcherType
      <4> QED
        BY <4>1, <4>2
    <3> QED
      BY <3>1, <3>2
  <2>2. DiskType'
    BY <1>0, <1>3, <2>1 DEF RemoveFolder, Change, DiskType, Records
  <2>3. WatcherType'
    BY <1>0, <1>3 DEF RemoveFolder, WatcherType
  <2> QED
    BY <1>0, <1>3, <2>2, <2>3, TypeParts, TimerFrame DEF RemoveFolder
<1>4. CASE MoveBack
  <2>1. away.record \in Records /\ away.watched \in BOOLEAN
        /\ away.folder \in Contents \cup {"absent"}
    BY <1>0 DEF DiskType
  <2>2. events' \in Seq({"dir", "image"}) /\ folder' \in Contents \cup {"absent"}
    BY <1>0, <1>4, <2>1, EventsType DEF MoveBack, Appear, DiskType
  <2>3. Nowhere \in [folder : Contents \cup {"absent"}, record : Records,
                     watched : BOOLEAN, session : Nat]
    BY DEF Nowhere, Records
  <2>4. DiskType'
    BY <1>0, <1>4, <2>1, <2>2, <2>3 DEF MoveBack, Change, DiskType
  <2>5. WatcherType'
    BY <1>0, <1>4, <2>1 DEF MoveBack, WatcherType
  <2> QED
    BY <1>0, <1>4, <2>4, <2>5, TypeParts, TimerFrame DEF MoveBack
<1>5. CASE Review
  <2>1. DiskType'
    BY <1>0, <1>5 DEF Review, DiskType, Records
  <2> QED
    BY <1>0, <1>5, <2>1, TypeParts, WatcherFrame, TimerFrame DEF Review
<1>6. CASE RetryFromPanel
  <2>1. DiskType'
    BY <1>0, <1>6 DEF RetryFromPanel, DiskType, Records
  <2>2. TimerType'
    BY <1>0, <1>6 DEF RetryFromPanel, TimerType, Phases
  <2> QED
    BY <1>0, <1>6, <2>1, <2>2, TypeParts, WatcherFrame DEF RetryFromPanel
<1>7. CASE Stop
  <2>1. DiskType'
    BY <1>0, <1>7 DEF Stop, DiskType, disk
  <2>2. WatcherType' /\ TimerType'
    BY <1>0, <1>7 DEF Stop, WatcherType, TimerType, Phases
  <2> QED
    BY <2>1, <2>2, TypeParts
<1> QED
  BY <1>1, <1>2, <1>3, <1>4, <1>5, <1>6, <1>7

LEMMA WatchType ==
  ASSUME TypeOK, Start \/ FolderCreated \/ ImageChanged
  PROVE  TypeOK'
<1>0. DiskType /\ WatcherType /\ TimerType
  BY TypeParts
<1>1. CASE Start
  <2>1. DiskType' /\ WatcherType'
    BY <1>0, <1>1 DEF Start, DiskType, WatcherType, disk
  <2> QED
    BY <1>0, <1>1, <2>1, TypeParts, TimerFrame DEF Start
<1>2. ASSUME NEW e \in {"dir", "image"}, Receive(e)
      PROVE  DiskType'
  BY <1>0, <1>2, EventsType DEF Receive, DiskType, disk
<1>3. CASE FolderCreated
  <2>1. WatcherType'
    BY <1>0, <1>3 DEF FolderCreated, WatcherType
  <2>2. TimerType'
    <3>1. UNCHANGED timerVars \/ scheduleProcess(FALSE)
      BY <1>3 DEF FolderCreated
    <3> QED
      BY <1>0, <3>1, TimerFrame, Scheduled
  <2> QED
    BY <1>2, <1>3, <2>1, <2>2, TypeParts DEF FolderCreated
<1>4. CASE ImageChanged
  <2>1. TimerType'
    <3>1. UNCHANGED timerVars \/ scheduleProcess(TRUE)
      BY <1>4 DEF ImageChanged
    <3> QED
      BY <1>0, <3>1, TimerFrame, Scheduled
  <2> QED
    BY <1>0, <1>2, <1>4, <2>1, TypeParts, WatcherFrame DEF ImageChanged
<1> QED
  BY <1>1, <1>3, <1>4

LEMMA HandleType ==
  ASSUME TypeOK, NEW t \in Timers, Fire(t) \/ Look(t)
  PROVE  TypeOK'
<1>0. DiskType /\ WatcherType /\ TimerType /\ t \in Workers
  BY TypeParts DEF Workers
<1>1. CASE Fire(t)
  <2>1. DiskType' /\ WatcherType'
    BY <1>0, <1>1 DEF Fire, DiskType, WatcherType, disk
  <2>2. Finish(t) \/ GoTo(t, "look")
    BY <1>1 DEF Fire
  <2>3. force' = force /\ found' \in [Workers -> Contents]
    BY <1>0, <1>1 DEF Fire, TimerType
  <2> QED
    BY <1>0, <2>1, <2>2, <2>3, FinishType, GoToType, TypeParts DEF Phases
<1>2. CASE Look(t)
  <2>1. DiskType'
    BY <1>0, <1>2 DEF Look, DiskType, disk
  <2>2. Finish(t) \/ GoTo(t, "scan")
    BY <1>2 DEF Look
  <2>3. force' = force /\ found' \in [Workers -> Contents]
    BY <1>0, <1>2 DEF Look, TimerType
  <2>4. WatcherType'
    BY <1>0, <1>2, WatcherFrame DEF Look
  <2> QED
    BY <1>0, <2>1, <2>2, <2>3, <2>4, FinishType, GoToType, TypeParts DEF Phases
<1> QED
  BY <1>1, <1>2

LEMMA RunType ==
  ASSUME TypeOK, NEW w \in Workers, Run(w)
  PROVE  TypeOK'
<1>0. DiskType /\ WatcherType /\ TimerType
  BY TypeParts
<1>1. CASE Scan(w)
  <2>1. CASE NoImages
    <3>1. DiskType' /\ Finish(w) /\ force' = force /\ found' \in [Workers -> Contents]
      BY <1>0, <1>1, <2>1 DEF Scan, DiskType, TimerType
    <3> QED
      BY <1>0, <1>1, <3>1, FinishType, WatcherFrame, TypeParts DEF Scan
  <2>2. CASE ~NoImages
    <3>1. DiskType'
      BY <1>0, <1>1, <2>2, WriteType DEF Scan, Records
    <3>2. folder \in Contents
      BY <1>0, <2>2 DEF NoImages, DiskType
    <3>3. GoTo(w, "validate") /\ force' = force /\ found' \in [Workers -> Contents]
      BY <1>0, <1>1, <2>2, <3>2 DEF Scan, TimerType
    <3> QED
      BY <1>0, <1>1, <3>1, <3>3, GoToType, WatcherFrame, TypeParts DEF Scan, Phases
  <2> QED
    BY <2>1, <2>2
<1>2. CASE Validate(w)
  <2>1. DiskType'
    BY <1>0, <1>2, WriteType DEF Validate, Records
  <2>2. Finish(w) \/ GoTo(w, "enrich")
    BY <1>2 DEF Validate
  <2>3. force' = force /\ found' \in [Workers -> Contents]
    BY <1>0, <1>2 DEF Validate, TimerType
  <2> QED
    BY <1>0, <1>2, <2>1, <2>2, <2>3, FinishType, GoToType, WatcherFrame, TypeParts
       DEF Validate, Phases
<1>3. CASE Enrich(w)
  <2>1. DiskType'
    BY <1>0, <1>3, WriteType DEF Enrich, Records
  <2>2. Finish(w) /\ force' = force /\ found' \in [Workers -> Contents]
    BY <1>0, <1>3 DEF Enrich, TimerType
  <2> QED
    BY <1>0, <1>3, <2>1, <2>2, FinishType, WatcherFrame, TypeParts DEF Enrich
<1> QED
  BY <1>1, <1>2, <1>3 DEF Run

LEMMA InitType == Init => TypeOK
<1> SUFFICES ASSUME Init
             PROVE  TypeOK
  OBVIOUS
<1>1. Nowhere \in [folder : Contents \cup {"absent"}, record : Records,
                   watched : BOOLEAN, session : Nat]
  BY DEF Nowhere, Records
<1>2. ExportedElsewhere \in [folder : Contents \cup {"absent"}, record : Records,
                             watched : BOOLEAN, session : Nat]
  BY <1>1 DEF ExportedElsewhere, Contents
<1>3. DiskType
  BY <1>1, <1>2 DEF Init, DiskType, Records
<1>4. WatcherType /\ TimerType
  BY DEF Init, WatcherType, TimerType, Phases, Contents
<1> QED
  BY <1>3, <1>4, TypeParts

LEMMA TypeStep == TypeOK /\ [Next]_vars => TypeOK'
<1>1. ASSUME TypeOK, UNCHANGED vars
      PROVE  TypeOK'
  BY <1>1 DEF TypeOK, vars, disk, watcherVars, timerVars
<1> QED
  BY <1>1, UserType, WatchType, HandleType, RunType DEF Next

(* Every variable keeps its type, for any number of timers and sessions.   *)
THEOREM TypeCorrect == Spec => []TypeOK
<1>1. Init => TypeOK
  BY InitType
<1>2. TypeOK /\ [Next]_vars => TypeOK'
  BY TypeStep
<1> QED
  BY <1>1, <1>2, PTL DEF Spec

-----------------------------------------------------------------------------
(* The inductive invariant. A directory is new to the watcher, or a run    *)
(* has just been started for a new one: there is no manifest then, no      *)
(* other run that could write one, and none can come back unnoticed.       *)

InRun == {"look", "scan", "validate", "enrich"}

Quiet(w) == phase[w] \notin InRun

(* No manifest is there, none of this session's can be moved back, and no  *)
(* timer waits for an errored post.                                        *)
Unwritten ==
  /\ record = "none"
  /\ away.session = sessions => away.record = "none"
  /\ \A t \in Timers : phase[t] # "off" => ~force[t]

SessionInv ==
  /\ away.session <= sessions
  /\ ~up => \A w \in Workers : phase[w] = "off"

UnseenInv == up /\ ~brought /\ ~seen => Unwritten /\ \A w \in Workers : Quiet(w)

FirstRunInv ==
  \A t \in Timers :
    ~brought /\ ~force[t] /\ phase[t] \in {"look", "scan"}
      => Unwritten /\ seen /\ \A w \in Workers \ {t} : Quiet(w)

WatcherInv == SessionInv /\ UnseenInv /\ FirstRunInv

(* Steps on which no run gets further and what is unwritten stays so.      *)
LEMMA CalmStep ==
  ASSUME TypeOK, WatcherInv, UNCHANGED <<up, seen, sessions>>,
         brought => brought',
         away'.session <= sessions,
         \A w \in Workers : phase'[w] \in InRun \/ ~up => phase'[w] = phase[w],
         \A t \in Timers : phase'[t] \in InRun => force'[t] = force[t],
         up /\ ~brought' /\ Unwritten => Unwritten'
  PROVE  WatcherInv'
<1>1. SessionInv'
  BY DEF WatcherInv, SessionInv
<1>2. \A w \in Workers : Quiet(w) => Quiet(w)'
  BY DEF Quiet
<1>3. UnseenInv'
  BY <1>2 DEF WatcherInv, UnseenInv
<1>4. ASSUME NEW t \in Timers, ~brought', ~force'[t], phase'[t] \in {"look", "scan"}
      PROVE  /\ Unwritten' /\ seen'
             /\ \A w \in Workers \ {t} : Quiet(w)'
  <2>1. t \in Workers
    BY DEF Workers
  <2>2. phase[t] = phase'[t] /\ ~force[t] /\ ~brought
    BY <1>4, <2>1 DEF InRun
  <2>3. up
    BY <1>4, <2>1, <2>2 DEF WatcherInv, SessionInv
  <2>4. Unwritten /\ seen /\ \A w \in Workers \ {t} : Quiet(w)
    BY <1>4, <2>2 DEF WatcherInv, FirstRunInv
  <2> QED
    BY <1>2, <1>4, <2>3, <2>4
<1>5. FirstRunInv'
  BY <1>4 DEF FirstRunInv
<1> QED
  BY <1>1, <1>3, <1>5 DEF WatcherInv

(* While a run is past its look at the directory, no timer has a first run *)
(* and the directory is not new; so what that run writes does no harm.     *)
LEMMA WorkStep ==
  ASSUME TypeOK, WatcherInv, NEW w \in Workers, phase[w] \in InRun,
         NEW p \in {"validate", "enrich", "off"},
         phase' = [phase EXCEPT ![w] = p],
         UNCHANGED <<away, up, seen, brought, sessions, force>>
  PROVE  WatcherInv'
<1>0. phase \in [Workers -> Phases]
  BY DEF TypeOK
<1>1. up
  BY DEF WatcherInv, SessionInv, InRun
<1>2. SessionInv'
  BY <1>1 DEF WatcherInv, SessionInv
<1>3. UnseenInv'
  BY DEF WatcherInv, UnseenInv, Quiet
<1>4. ASSUME NEW t \in Timers, ~brought', ~force'[t], phase'[t] \in {"look", "scan"}
      PROVE  FALSE
  <2>1. t # w /\ t \in Workers
    BY <1>0, <1>4 DEF Workers
  <2>2. phase[t] \in {"look", "scan"}
    BY <1>0, <1>4, <2>1
  <2>3. Quiet(w)
    BY <1>4, <2>1, <2>2 DEF WatcherInv, FirstRunInv
  <2> QED
    BY <2>3 DEF Quiet
<1>5. FirstRunInv'
  BY <1>4 DEF FirstRunInv
<1> QED
  BY <1>2, <1>3, <1>5 DEF WatcherInv

(* A run that ends without having written anything.                        *)
LEMMA LeaveStep ==
  ASSUME TypeOK, WatcherInv, NEW w \in Workers, phase[w] # "off", Finish(w),
         UNCHANGED <<record, away, up, seen, brought, sessions, force>>
  PROVE  WatcherInv'
<1>0. phase \in [Workers -> Phases] /\ phase' = [phase EXCEPT ![w] = "off"]
  BY DEF TypeOK, Finish
<1>1. up
  BY DEF WatcherInv, SessionInv
<1>2. \A v \in Workers : phase'[v] \in {phase[v], "off"}
  BY <1>0
<1>3. Unwritten => Unwritten'
  BY <1>2 DEF Unwritten, Workers
<1>4. away'.session <= sessions
  BY DEF WatcherInv, SessionInv
<1> QED
  BY <1>1, <1>2, <1>3, <1>4, CalmStep DEF InRun

LEMMA UserInv ==
  ASSUME TypeOK, WatcherInv,
         \/ MakeFolder \/ ChangeImages \/ RemoveFolder \/ MoveBack \/ Review
         \/ RetryFromPanel \/ Stop
  PROVE  WatcherInv'
<1>0. away.session <= sessions
  BY DEF WatcherInv, SessionInv
<1>1. CASE MakeFolder \/ ChangeImages \/ Review
  <2>1. UNCHANGED <<away, up, seen, brought, sessions, phase, force>>
    BY <1>1 DEF MakeFolder, ChangeImages, Review, watcherVars, timerVars
  <2>2. Unwritten => Unwritten'
    BY <1>1, <2>1 DEF MakeFolder, ChangeImages, Review, Unwritten
  <2> QED
    BY <1>0, <2>1, <2>2, CalmStep
<1>2. CASE RemoveFolder
  <2>1. UNCHANGED <<up, seen, brought, sessions, phase, force>>
    BY <1>2 DEF RemoveFolder, timerVars
  <2>2. \/ away' = away
        \/ away'.record = record /\ away'.session = sessions
    BY <1>2 DEF RemoveFolder
  <2>3. away'.session <= sessions
    BY <1>0, <2>2 DEF TypeOK
  <2>4. Unwritten => Unwritten'
    BY <1>2, <2>1, <2>2 DEF RemoveFolder, Unwritten
  <2> QED
    BY <2>1, <2>3, <2>4, CalmStep
<1>3. CASE MoveBack
  <2>1. /\ UNCHANGED <<up, seen, sessions, phase, force>>
        /\ away' = Nowhere
        /\ record' = away.record
        /\ brought' = (brought \/ (up /\ away.record # "none" /\ away.session # sessions))
    BY <1>3 DEF MoveBack, timerVars
  <2>2. away'.session <= sessions /\ away'.record = "none"
    BY <2>1 DEF Nowhere, TypeOK
  <2>3. up /\ ~brought' /\ Unwritten => Unwritten'
    BY <2>1, <2>2 DEF Unwritten
  <2> QED
    BY <2>1, <2>2, <2>3, CalmStep
<1>4. CASE RetryFromPanel
  <2>1. /\ UNCHANGED <<away, up, seen, brought, sessions, force>>
        /\ up /\ record = "error"
        /\ phase' = [phase EXCEPT ![Panel] = "scan"]
    BY <1>4 DEF RetryFromPanel, watcherVars
  <2>2. SessionInv' /\ ~Unwritten
    BY <1>0, <2>1 DEF SessionInv, Unwritten
  <2>3. UnseenInv'
    BY <2>1, <2>2 DEF WatcherInv, UnseenInv
  <2>4. \A t \in Timers : phase'[t] = phase[t]
    BY <2>1, ConstantsAssumption DEF TypeOK, Workers
  <2>5. FirstRunInv'
    BY <2>1, <2>2, <2>4 DEF WatcherInv, FirstRunInv
  <2> QED
    BY <2>2, <2>3, <2>5 DEF WatcherInv
<1>5. CASE Stop
  <2>1. /\ away' = away /\ sessions' = sessions /\ up' = FALSE
        /\ phase' = [w \in Workers |-> "off"]
    BY <1>5 DEF Stop, disk
  <2> QED
    BY <1>0, <2>1 DEF WatcherInv, SessionInv, UnseenInv, FirstRunInv, Workers
<1> QED
  BY <1>1, <1>2, <1>3, <1>4, <1>5

LEMMA WatchInv ==
  ASSUME TypeOK, WatcherInv, Start \/ FolderCreated \/ ImageChanged
  PROVE  WatcherInv'
<1>0. away.session <= sessions /\ away.session \in Nat /\ sessions \in Nat
  BY DEF WatcherInv, SessionInv, TypeOK
<1>1. CASE Start
  <2>1. /\ UNCHANGED <<record, away, phase>> /\ sessions' = sessions + 1
        /\ \A w \in Workers : phase[w] = "off"
        /\ ~seen' => record = "none"
    BY <1>1 DEF Start, disk, timerVars, WatcherInv, SessionInv
  <2>2. ~seen' => Unwritten'
    BY <1>0, <2>1 DEF Unwritten, Workers
  <2>3. SessionInv' /\ UnseenInv'
    BY <1>0, <1>1, <2>1, <2>2 DEF Start, SessionInv, UnseenInv, Quiet, InRun
  <2>4. FirstRunInv'
    BY <2>1 DEF FirstRunInv, Workers
  <2> QED
    BY <2>3, <2>4 DEF WatcherInv
<1>2. ASSUME NEW forced \in BOOLEAN, scheduleProcess(forced), up,
             forced => record = "error",
             UNCHANGED <<record, away, up, seen, brought, sessions>>
      PROVE  WatcherInv'
  <2>1. /\ \A w \in Workers : phase'[w] \in {phase[w], "armed", "off"}
        /\ \A t \in Timers :
             \/ phase'[t] = "armed" /\ force'[t] = forced
             \/ phase'[t] \in {phase[t], "off"} /\ force'[t] = force[t]
    BY <1>2, Scheduled, TypeParts
  <2>2. \A w \in Workers : phase'[w] \in InRun => phase'[w] = phase[w]
    BY <2>1 DEF InRun
  <2>3. \A t \in Timers : phase'[t] \in InRun => force'[t] = force[t]
    BY <2>1 DEF InRun
  <2>4. Unwritten => Unwritten'
    BY <1>2, <2>1 DEF Unwritten
  <2> QED
    BY <1>0, <1>2, <2>2, <2>3, <2>4, CalmStep
<1>3. ASSUME UNCHANGED <<record, away, up, seen, brought, sessions>>, UNCHANGED timerVars
      PROVE  WatcherInv'
  <2>1. Unwritten => Unwritten'
    BY <1>3 DEF Unwritten, timerVars
  <2> QED
    BY <1>0, <1>3, <2>1, CalmStep DEF timerVars
<1>4. CASE FolderCreated
  <2>1. UNCHANGED <<record, away, up, seen, brought, sessions>> /\ up
    BY <1>4 DEF FolderCreated, Receive, disk
  <2>2. UNCHANGED timerVars \/ scheduleProcess(FALSE)
    BY <1>4 DEF FolderCreated
  <2> QED
    BY <1>2, <1>3, <2>1, <2>2
<1>5. CASE ImageChanged
  <2>1. UNCHANGED <<record, away, up, seen, brought, sessions>> /\ up
    BY <1>5 DEF ImageChanged, Receive, disk, watcherVars
  <2>2. UNCHANGED timerVars \/ (record = "error" /\ scheduleProcess(TRUE))
    BY <1>5 DEF ImageChanged
  <2> QED
    BY <1>2, <1>3, <2>1, <2>2
<1> QED
  BY <1>1, <1>4, <1>5

LEMMA HandleInv ==
  ASSUME TypeOK, WatcherInv, NEW t \in Timers, Fire(t) \/ Look(t)
  PROVE  WatcherInv'
<1>0. /\ t \in Workers /\ phase \in [Workers -> Phases]
      /\ away.session <= sessions
  BY DEF Workers, TypeOK, WatcherInv, SessionInv
<1>1. /\ UNCHANGED <<record, away, up, brought, sessions, force>>
      /\ phase[t] \in {"armed", "look"}
  BY DEF Fire, Look, disk, watcherVars
<1>2. up
  BY <1>0, <1>1 DEF WatcherInv, SessionInv
<1>3. SessionInv'
  BY <1>0, <1>1, <1>2 DEF SessionInv
<1>4. CASE Finish(t)
  <2>1. CASE UNCHANGED seen
    BY <1>0, <1>1, <1>4, <2>1, LeaveStep
  <2>2. CASE ~UNCHANGED seen
    <3>1. phase' = [phase EXCEPT ![t] = "look"]
      BY <2>2 DEF Fire, Look, GoTo, watcherVars
    <3> QED
      BY <1>0, <1>4, <3>1 DEF Finish
  <2> QED
    BY <2>1, <2>2
<1>5. ASSUME Fire(t), ~Skipped(t)
      PROVE  WatcherInv'
  <2>1. phase[t] = "armed" /\ phase' = [phase EXCEPT ![t] = "look"] /\ seen'
    BY <1>5 DEF Fire, GoTo
  <2>2. Unwritten => Unwritten'
    <3>1. \A u \in Timers : phase'[u] # "off" => phase[u] # "off"
      BY <1>0, <2>1 DEF Workers
    <3> QED
      BY <1>1, <3>1 DEF Unwritten
  <2>3. ASSUME NEW u \in Timers, ~brought', ~force'[u], phase'[u] \in {"look", "scan"}
        PROVE  Unwritten' /\ seen' /\ \A w \in Workers \ {u} : Quiet(w)'
    <3>1. CASE u = t
      <4>1. Unwritten /\ \A w \in Workers : Quiet(w)
        BY <1>1, <1>2, <1>5, <2>3, <3>1 DEF Skipped, WatcherInv, UnseenInv
      <4> QED
        BY <1>0, <2>1, <2>2, <3>1, <4>1 DEF Quiet
    <3>2. CASE u # t
      <4>1. phase[u] \in {"look", "scan"}
        BY <1>0, <2>1, <2>3, <3>2 DEF Workers
      <4>2. Unwritten /\ seen
        BY <1>1, <2>3, <4>1 DEF WatcherInv, FirstRunInv
      <4> QED
        BY <1>5, <2>1, <4>2 DEF Skipped, Unwritten
    <3> QED
      BY <3>1, <3>2
  <2>4. UnseenInv' /\ FirstRunInv'
    BY <2>1, <2>3 DEF UnseenInv, FirstRunInv
  <2> QED
    BY <1>3, <2>4 DEF WatcherInv
<1>6. ASSUME Look(t), ~NoImages
      PROVE  WatcherInv'
  <2>1. /\ phase[t] = "look" /\ phase' = [phase EXCEPT ![t] = "scan"]
        /\ seen' = seen
    BY <1>6 DEF Look, GoTo, watcherVars
  <2>2. ~Quiet(t)
    BY <2>1 DEF Quiet, InRun
  <2>3. UnseenInv'
    BY <1>0, <1>1, <2>1, <2>2 DEF WatcherInv, UnseenInv
  <2>4. ASSUME NEW u \in Timers, ~brought', ~force'[u], phase'[u] \in {"look", "scan"}
        PROVE  Unwritten' /\ seen' /\ \A w \in Workers \ {u} : Quiet(w)'
    <3>1. phase[u] \in {"look", "scan"}
      BY <1>0, <2>1, <2>4 DEF Workers
    <3>2. Unwritten /\ seen /\ \A w \in Workers \ {u} : Quiet(w)
      BY <1>1, <2>4, <3>1 DEF WatcherInv, FirstRunInv
    <3>3. u = t
      BY <1>0, <2>2, <3>2
    <3>4. Unwritten'
      <4>1. \A v \in Timers : phase'[v] # "off" => phase[v] # "off"
        BY <1>0, <2>1 DEF Workers
      <4> QED
        BY <1>1, <3>2, <4>1 DEF Unwritten
    <3> QED
      BY <1>0, <2>1, <3>2, <3>3, <3>4 DEF Quiet
  <2>5. FirstRunInv'
    BY <2>4 DEF FirstRunInv
  <2> QED
    BY <1>3, <2>3, <2>5 DEF WatcherInv
<1> QED
  BY <1>4, <1>5, <1>6 DEF Fire, Look

LEMMA RunInv ==
  ASSUME TypeOK, WatcherInv, NEW w \in Workers, Run(w)
  PROVE  WatcherInv'
<1>0. phase \in [Workers -> Phases]
  BY DEF TypeOK
<1>1. /\ UNCHANGED <<away, up, seen, brought, sessions, force>>
      /\ phase[w] \in {"scan", "validate", "enrich"}
  BY DEF Run, Scan, Validate, Enrich, watcherVars
<1>2. ASSUME Scan(w), NoImages
      PROVE  WatcherInv'
  BY <1>1, <1>2, LeaveStep DEF Scan
<1>3. ASSUME ~(Scan(w) /\ NoImages)
      PROVE  WatcherInv'
  <2>1. PICK p \in {"validate", "enrich", "off"} : phase' = [phase EXCEPT ![w] = p]
    BY <1>3 DEF Run, Scan, Validate, Enrich, GoTo, Finish
  <2> QED
    BY <1>1, <2>1, WorkStep DEF InRun
<1> QED
  BY <1>2, <1>3

LEMMA WatcherInvStep == TypeOK /\ WatcherInv /\ [Next]_vars => WatcherInv'
<1>1. ASSUME TypeOK, WatcherInv, UNCHANGED vars
      PROVE  WatcherInv'
  <2>1. UNCHANGED <<record, away, up, seen, brought, sessions, phase, force>>
    BY <1>1 DEF vars, disk, watcherVars, timerVars
  <2> QED
    BY <1>1, <2>1 DEF WatcherInv, SessionInv, UnseenInv, FirstRunInv, Unwritten, Quiet
<1> QED
  BY <1>1, UserInv, WatchInv, HandleInv, RunInv DEF Next

LEMMA WatcherInvInit == Init => WatcherInv
<1> SUFFICES ASSUME Init
             PROVE  WatcherInv
  OBVIOUS
<1>1. away.session = 0 /\ sessions = 0
  BY DEF Init, Nowhere, ExportedElsewhere
<1> QED
  BY <1>1 DEF Init, WatcherInv, SessionInv, UnseenInv, FirstRunInv, Workers

(* Whatever happens to a directory, and however many timers overlap in     *)
(* however many sessions, a run that was not started for an error scans a  *)
(* directory without manifest, unless it was brought in with one from      *)
(* before (watcher.go:103-109, 157-170, 198-204).                          *)
THEOREM NewPostsAreNew == Spec => []NewPostsHaveNoManifest
<1>1. Init => WatcherInv
  BY WatcherInvInit
<1>2. TypeOK /\ WatcherInv /\ [Next]_vars => WatcherInv'
  BY WatcherInvStep
<1>3. WatcherInv => NewPostsHaveNoManifest
  BY DEF WatcherInv, FirstRunInv, Unwritten, NewPostsHaveNoManifest
<1> QED
  BY <1>1, <1>2, <1>3, TypeCorrect, PTL DEF Spec

=============================================================================
