---------------------------- MODULE EventsProofs ----------------------------
(***************************************************************************)
(* What holds of Events for any number of runs, any capacity of the        *)
(* channel and any number of lines: types, the waiter, the session's log,  *)
(* and that the lines are all there and in order.                          *)
(***************************************************************************)
EXTENDS Events, TLAPS, FiniteSetTheorems

(* A run has logged no more lines than all runs together.                  *)
LineInv == Len(sent) <= MaxLines /\ \A r \in Runs : line[r] <= Len(sent)

(* Only messages after which somebody waits again go through the channel.  *)
ChannelInv == \A i \in 1..Len(channel) : channel[i].kind \in Resubscribing

IInv ==
  /\ TypeOK /\ LineInv /\ ChannelInv /\ WaiterIsKept /\ LiveLogIsKept
  /\ PanelHasTheNewest

USE EventsAssumption, JobLogAssumption

(* The session's log is open and somebody waits when the program starts.   *)
LEMMA InitIInv == Init => IInv
<1> SUFFICES ASSUME Init PROVE IInv
  OBVIOUS
<1>1. TypeOK
  BY DEF Init, TypeOK, Names, Outcomes
<1>2. LineInv
  BY DEF Init, LineInv
<1>3. ChannelInv
  BY DEF Init, ChannelInv
<1>4. WaiterIsKept /\ LiveLogIsKept
  BY DEF Init, WaiterIsKept, LiveLogIsKept
<1>5. PanelHasTheNewest
  BY DEF Init, PanelHasTheNewest, Newest
<1> QED
  BY <1>1, <1>2, <1>3, <1>4, <1>5 DEF IInv

(* A message has its type.                                                 *)
LEMMA MsgType ==
  ASSUME NEW kind \in {"log", "status", "pipeline", "publish", "archive"},
         NEW r \in Runs, NEW n \in 0..MaxLines
  PROVE  /\ Msg(kind, r, n) \in Message
         /\ Msg(kind, r, n).kind = kind /\ Msg(kind, r, n).run = r
  BY DEF Msg, Message

(* Sending keeps the type and the bound of the channel, and what is in it. *)
LEMMA SendKeeps ==
  ASSUME TypeOK, ChannelInv, NEW m \in Message, m.kind \in Resubscribing, Send(m)
  PROVE  /\ channel' \in Seq(Message) /\ Len(channel') <= Cap
         /\ ChannelInv'
<1>1. channel \in Seq(Message) /\ Cap \in Nat /\ Len(channel) < Cap
      /\ channel' = Append(channel, m)
  BY DEF TypeOK, Send
<1>2. /\ channel' \in Seq(Message) /\ Len(channel') = Len(channel) + 1
      /\ \A i \in 1..Len(channel') :
           channel'[i] = IF i = Len(channel) + 1 THEN m ELSE channel[i]
  BY <1>1
<1>3. ChannelInv'
  BY <1>1, <1>2 DEF ChannelInv
<1> QED
  BY <1>1, <1>2, <1>3

(* A waiter or a message that brings one is still there.                   *)
LEMMA WaiterFrame ==
  ASSUME WaiterIsKept, waiting' = waiting, hands \subseteq hands', program' = program
  PROVE  WaiterIsKept'
  BY DEF WaiterIsKept

(* The log of the session has not been touched.                            *)
LEMMA LogFrame ==
  ASSUME LiveLogIsKept, log' = log, Alive' => Alive
  PROVE  LiveLogIsKept'
  BY DEF LiveLogIsKept

(* The next step of a run changes one label.                               *)
LEMMA GoKeeps ==
  ASSUME TypeOK, NEW r \in Runs,
         NEW label \in {"idle", "status", "work", "archive", "over"}, Go(r, label)
  PROVE  pc' \in [Runs -> {"idle", "status", "work", "archive", "over"}]
  BY DEF TypeOK, Go

(* A run starts, by an event or a key.                                     *)
LEMMA StartStep ==
  ASSUME IInv, NEW r \in Runs, Handle(r) \/ Press(r)
  PROVE  IInv'
<1>1. UNCHANGED <<loopVars, line, log>>
  BY DEF Handle, Press
<1>2. pc' \in [Runs -> {"idle", "status", "work", "archive", "over"}]
  BY GoKeeps DEF IInv, Handle, Press
<1> QED
  BY <1>1, <1>2
  DEF IInv, TypeOK, LineInv, ChannelInv, WaiterIsKept, LiveLogIsKept, Alive,
      loopVars, panel, PanelHasTheNewest

(* A sweep takes finished logs only.                                       *)
LEMMA SweepStep ==
  ASSUME IInv, NEW r \in Runs, PeriodicSweep(r)
  PROVE  IInv'
<1>1. UNCHANGED <<loopVars, line>>
  BY DEF PeriodicSweep
<1>2. pc' \in [Runs -> {"idle", "status", "work", "archive", "over"}]
  BY GoKeeps DEF IInv, PeriodicSweep
<1>3. PICK removed \in SUBSET {j \in Jobs : Expired(j)} :
        log' = [j \in Jobs |-> IF j \in removed THEN "removed" ELSE log[j]]
  BY DEF PeriodicSweep, Sweep
<1>4. log' \in [Jobs -> Names]
  BY <1>3 DEF IInv, TypeOK, Names
<1>5. log[Tui] = "active" => log'[Tui] = "active"
  BY <1>3 DEF Expired, Outcomes
<1>6. LiveLogIsKept'
  BY <1>1, <1>5 DEF IInv, LiveLogIsKept, Alive, loopVars
<1> QED
  BY <1>1, <1>2, <1>4, <1>6
  DEF IInv, TypeOK, LineInv, ChannelInv, WaiterIsKept, loopVars, panel,
      PanelHasTheNewest

(* A status message goes into the channel.                                 *)
LEMMA StatusStep ==
  ASSUME IInv, NEW r \in Runs, SendStatus(r)
  PROVE  IInv'
<1>1. UNCHANGED <<waiting, hands, screen, shown, program, sent, line, log>>
  BY DEF SendStatus, panel
<1>2. pc' \in [Runs -> {"idle", "status", "work", "archive", "over"}]
  BY GoKeeps DEF IInv, SendStatus
<1>3. Msg("status", r, 0) \in Message /\ Msg("status", r, 0).kind \in Resubscribing
  BY MsgType DEF Resubscribing
<1>4. channel' \in Seq(Message) /\ Len(channel') <= Cap /\ ChannelInv'
  BY <1>3, SendKeeps DEF IInv, SendStatus
<1> QED
  BY <1>1, <1>2, <1>4
  DEF IInv, TypeOK, LineInv, WaiterIsKept, LiveLogIsKept, Alive, PanelHasTheNewest

(* So does a log line.                                                     *)
LEMMA LineStep ==
  ASSUME IInv, NEW r \in Runs, LogLine(r)
  PROVE  IInv'
<1> DEFINE m == Msg("log", r, line[r] + 1)
<1>1. /\ Len(sent) < MaxLines /\ Send(m) /\ sent' = Append(sent, m)
      /\ line' = [line EXCEPT ![r] = @ + 1]
      /\ UNCHANGED <<waiting, hands, screen, shown, program, pc, log>>
  BY DEF LogLine, panel
<1>2. /\ line \in [Runs -> 0..MaxLines] /\ line[r] + 1 \in 0..MaxLines
      /\ sent \in Seq(Message) /\ \A q \in Runs : line[q] <= Len(sent)
  BY <1>1 DEF IInv, TypeOK, LineInv
<1>3. m \in Message /\ m.kind = "log"
  BY <1>2, MsgType
<1> HIDE DEF m
<1>4. channel' \in Seq(Message) /\ Len(channel') <= Cap /\ ChannelInv'
  BY <1>1, <1>3, SendKeeps DEF IInv, Resubscribing
<1>5. sent' \in Seq(Message) /\ Len(sent') = Len(sent) + 1
  BY <1>1, <1>2, <1>3
<1>6. line' \in [Runs -> 0..MaxLines]
  BY <1>1, <1>2
<1>7. LineInv'
  BY <1>1, <1>2, <1>5 DEF LineInv
<1> QED
  BY <1>1, <1>4, <1>5, <1>6, <1>7
  DEF IInv, TypeOK, WaiterIsKept, LiveLogIsKept, Alive, PanelHasTheNewest

(* The result of a run goes to the channel, or straight to the event loop. *)
LEMMA FinishStep ==
  ASSUME IInv, NEW r \in Runs, Finish(r)
  PROVE  IInv'
<1>1. UNCHANGED <<waiting, screen, shown, program, sent, line, log>>
  BY DEF Finish, panel
<1>2. pc' \in [Runs -> {"idle", "status", "work", "archive", "over"}]
  BY GoKeeps DEF IInv, Finish
<1>3. \/ Send(Msg("pipeline", r, 0)) /\ UNCHANGED hands
      \/ \E kind \in {"pipeline", "publish", "archive"} : Return(r, kind)
      \/ UNCHANGED <<channel, hands>>
  BY DEF Finish, Runs
<1>4. /\ channel' \in Seq(Message) /\ Len(channel') <= Cap /\ ChannelInv'
      /\ hands' \subseteq Message /\ hands \subseteq hands'
  <2>1. CASE Send(Msg("pipeline", r, 0)) /\ UNCHANGED hands
    <3>1. Msg("pipeline", r, 0) \in Message
          /\ Msg("pipeline", r, 0).kind \in Resubscribing
      BY MsgType DEF Resubscribing
    <3> QED
      BY <2>1, <3>1, SendKeeps DEF IInv, TypeOK
  <2>2. CASE \E kind \in {"pipeline", "publish", "archive"} : Return(r, kind)
    <3>1. PICK kind \in {"pipeline", "publish", "archive"} : Return(r, kind)
      BY <2>2
    <3>2. Msg(kind, r, 0) \in Message
      BY MsgType
    <3> QED
      BY <3>1, <3>2 DEF IInv, TypeOK, ChannelInv, Return
  <2>3. CASE UNCHANGED <<channel, hands>>
    BY <2>3 DEF IInv, TypeOK, ChannelInv
  <2> QED
    BY <1>3, <2>1, <2>2, <2>3
<1>5. WaiterIsKept'
  BY <1>1, <1>4, WaiterFrame DEF IInv
<1> QED
  BY <1>1, <1>2, <1>4, <1>5
  DEF IInv, TypeOK, LineInv, LiveLogIsKept, Alive, PanelHasTheNewest

(* Two sequences with the same elements are the same.                      *)
LEMMA SeqEqual ==
  ASSUME NEW S, NEW s \in Seq(S), NEW t \in Seq(S), Len(s) = Len(t),
         \A i \in 1..Len(s) : s[i] = t[i]
  PROVE  s = t
OBVIOUS

(* A waiter takes a message after which there will be another waiter.      *)
LEMMA ReceiveStep ==
  ASSUME IInv, Receive
  PROVE  IInv'
<1>1. /\ waiting > 0 /\ channel # <<>> /\ waiting' = waiting - 1
      /\ channel' = Tail(channel) /\ hands' = hands \cup {Head(channel)}
      /\ UNCHANGED <<screen, shown, program, sent, pc, line, log>>
  BY DEF Receive, panel
<1>2. /\ channel \in Seq(Message) /\ Len(channel) <= Cap /\ waiting \in Nat
      /\ hands \subseteq Message /\ Cap \in Nat
  BY DEF IInv, TypeOK
<1>3. /\ Head(channel) \in Message /\ Head(channel).kind \in Resubscribing
      /\ channel' \in Seq(Message) /\ Len(channel') <= Cap
      /\ \A i \in 1..Len(channel') : channel'[i] = channel[i + 1]
      /\ Len(channel') = Len(channel) - 1
  BY <1>1, <1>2 DEF IInv, ChannelInv
<1>4. ChannelInv'
  BY <1>2, <1>3 DEF IInv, ChannelInv
<1>5. WaiterIsKept'
  BY <1>1, <1>3 DEF WaiterIsKept
<1>6. waiting' \in Nat /\ hands' \subseteq Message
  BY <1>1, <1>2, <1>3
<1> QED
  BY <1>1, <1>3, <1>4, <1>5, <1>6
  DEF IInv, TypeOK, LineInv, LiveLogIsKept, Alive, PanelHasTheNewest

(* To keep the newest lines of what is kept and one more is to keep the    *)
(* newest of all.                                                          *)
LEMMA NewestOfNewest ==
  ASSUME NEW lines \in Seq(Message), NEW m \in Message
  PROVE  /\ Newest(lines) \in Seq(Message)
         /\ Newest(Append(Newest(lines), m)) \in Seq(Message)
         /\ Newest(Append(Newest(lines), m)) = Newest(Append(lines, m))
<1> DEFINE n == Len(lines)
           kept == Newest(lines)
           all == Append(lines, m)
           more == Append(kept, m)
<1>1. PanelLines \in Nat /\ PanelLines > 0 /\ n \in Nat
  OBVIOUS
<1>2. all \in Seq(Message) /\ Len(all) = n + 1
      /\ \A i \in 1..n + 1 : all[i] = IF i = n + 1 THEN m ELSE lines[i]
  OBVIOUS
<1>3. CASE n < PanelLines
  <2>1. kept = lines /\ Newest(all) = all
    BY <1>1, <1>2, <1>3 DEF Newest
  <2> QED
    BY <1>2, <2>1
<1>4. CASE n = PanelLines
  <2>1. kept = lines
    BY <1>4 DEF Newest
  <2>2. Newest(all) \in Seq(Message)
    BY <1>1, <1>2, <1>4 DEF Newest
  <2> QED
    BY <2>1, <2>2
<1>5. CASE n > PanelLines
  <2>1. /\ kept \in Seq(Message) /\ Len(kept) = PanelLines
        /\ \A i \in 1..PanelLines : kept[i] = lines[n - PanelLines + i]
    BY <1>1, <1>5 DEF Newest
  <2> HIDE DEF kept
  <2>2. /\ more \in Seq(Message) /\ Len(more) = PanelLines + 1
        /\ \A i \in 1..PanelLines + 1 :
             more[i] = IF i = PanelLines + 1 THEN m ELSE kept[i]
    BY <1>1, <2>1
  <2> HIDE DEF more, all
  <2>3. /\ Newest(more) \in Seq(Message) /\ Len(Newest(more)) = PanelLines
        /\ \A i \in 1..PanelLines : Newest(more)[i] = more[i + 1]
    BY <1>1, <2>2 DEF Newest
  <2>4. /\ Newest(all) \in Seq(Message) /\ Len(Newest(all)) = PanelLines
        /\ \A i \in 1..PanelLines : Newest(all)[i] = all[n + 1 - PanelLines + i]
    BY <1>1, <1>2, <1>5 DEF Newest
  <2>5. ASSUME NEW i \in 1..PanelLines
        PROVE  Newest(more)[i] = Newest(all)[i]
    <3>1. CASE i = PanelLines
      BY <1>1, <1>2, <1>5, <2>2, <2>3, <2>4, <3>1
    <3>2. CASE i < PanelLines
      <4>1. i + 1 \in 1..PanelLines /\ n - PanelLines + (i + 1) = n + 1 - PanelLines + i
        BY <1>1, <3>2
      <4>2. n + 1 - PanelLines + i \in 1..n
        BY <1>1, <1>5, <3>2
      <4>3. Newest(more)[i] = kept[i + 1]
        BY <1>1, <2>2, <2>3, <3>2, <4>1
      <4>4. kept[i + 1] = lines[n + 1 - PanelLines + i]
        BY <2>1, <4>1
      <4>5. Newest(all)[i] = lines[n + 1 - PanelLines + i]
        BY <1>1, <1>2, <2>4, <4>2
      <4> QED
        BY <4>3, <4>4, <4>5
    <3> QED
      BY <1>1, <3>1, <3>2
  <2>6. Newest(more) = Newest(all)
    BY <1>1, <2>3, <2>4, <2>5, SeqEqual
  <2> QED
    BY <2>1, <2>3, <2>6 DEF kept, more, all
<1> QED
  BY <1>1, <1>3, <1>4, <1>5

(* The panel has the newest lines after one more.                          *)
LEMMA PanelStep ==
  ASSUME NEW m \in Message, shown \in Seq(Message), screen = Newest(shown),
         appendRuntimeLog(m)
  PROVE  /\ screen' \in Seq(Message) /\ shown' \in Seq(Message)
         /\ screen' = Newest(shown')
<1>1. screen' = Newest(Append(screen, m)) /\ shown' = Append(shown, m)
  BY DEF appendRuntimeLog
<1> QED
  BY <1>1, NewestOfNewest

(* The event loop handles a message; after some, somebody waits again.     *)
LEMMA UpdateStep ==
  ASSUME IInv, NEW m, Update(m)
  PROVE  IInv'
<1>1. /\ m \in hands /\ hands' = hands \ {m} /\ waiting' = Waiters(m)
      /\ IF m.kind = "log" THEN appendRuntimeLog(m) ELSE UNCHANGED <<screen, shown>>
      /\ UNCHANGED <<channel, program, sent, line, log>>
  BY DEF Update, panel
<1>2. m \in Message /\ m.run \in Runs
  BY <1>1 DEF IInv, TypeOK, Message
<1>3. pc' \in [Runs -> {"idle", "status", "work", "archive", "over"}]
  BY <1>2, GoKeeps DEF IInv, TypeOK, Update
<1>4. waiting' \in Nat /\ (waiting' > 0 \/ (waiting' = waiting /\ m.kind \notin Resubscribing))
  BY <1>1 DEF IInv, TypeOK, Waiters
<1>5. WaiterIsKept'
  BY <1>1, <1>4 DEF IInv, WaiterIsKept
<1>6. /\ screen' \in Seq(Message) /\ shown' \in Seq(Message)
      /\ PanelHasTheNewest'
  BY <1>1, <1>2, PanelStep DEF IInv, TypeOK, PanelHasTheNewest
<1>7. hands' \subseteq Message
  BY <1>1 DEF IInv, TypeOK
<1> QED
  BY <1>1, <1>3, <1>4, <1>5, <1>6, <1>7
  DEF IInv, TypeOK, LineInv, ChannelInv, LiveLogIsKept, Alive

(* The interface is left.                                                  *)
LEMMA QuitStep ==
  ASSUME IInv, Quit
  PROVE  IInv'
  BY DEF Quit, IInv, TypeOK, LineInv, ChannelInv, WaiterIsKept, LiveLogIsKept, Alive,
         panel, PanelHasTheNewest

(* With the process its memory goes; the log may stay active for ever.     *)
LEMMA ExitStep ==
  ASSUME IInv, Exit
  PROVE  IInv'
<1>1. log' \in [Jobs -> Names]
  BY DEF IInv, TypeOK, Exit, Close, Names, Outcomes
<1>2. /\ program' = "gone" /\ channel' = <<>> /\ waiting' = 0 /\ hands' = {}
      /\ screen' = <<>> /\ shown' = <<>> /\ sent' = <<>>
      /\ pc' = [r \in Runs |-> "over"] /\ line' = [r \in Runs |-> 0]
  BY DEF Exit
<1>3. TypeOK'
  BY <1>1, <1>2 DEF TypeOK
<1>4. LineInv' /\ ChannelInv'
  BY <1>2 DEF LineInv, ChannelInv
<1>5. WaiterIsKept' /\ LiveLogIsKept'
  BY <1>2 DEF WaiterIsKept, LiveLogIsKept, Alive
<1>6. PanelHasTheNewest'
  BY <1>2 DEF PanelHasTheNewest, Newest
<1> QED
  BY <1>3, <1>4, <1>5, <1>6 DEF IInv

(* Every step keeps the invariant.                                         *)
LEMMA NextIInv == IInv /\ [Next]_vars => IInv'
<1> SUFFICES ASSUME IInv, [Next]_vars PROVE IInv'
  OBVIOUS
<1>1. ASSUME NEW r \in Runs, Handle(r) \/ Press(r) \/ PeriodicSweep(r) \/ RunStep(r)
      PROVE  IInv'
  BY <1>1, StartStep, SweepStep, StatusStep, LineStep, FinishStep DEF RunStep
<1>2. CASE Receive
  BY <1>2, ReceiveStep
<1>3. ASSUME NEW r \in Runs, UpdateOf(r) PROVE IInv'
  BY <1>3, UpdateStep DEF UpdateOf
<1>4. CASE Quit
  BY <1>4, QuitStep
<1>5. CASE Exit
  BY <1>5, ExitStep
<1>6. CASE UNCHANGED vars
  BY <1>6 DEF IInv, TypeOK, LineInv, ChannelInv, WaiterIsKept, LiveLogIsKept, Alive,
              vars, eventVars, loopVars, panel, PanelHasTheNewest
<1> QED
  BY <1>1, <1>2, <1>3, <1>4, <1>5, <1>6 DEF Next

-----------------------------------------------------------------------------
(* What happens to the lines: each is one message, its number one that its *)
(* run has used, and messages pass it from place to place.                 *)

NumberInv ==
  \A i \in 1..Len(sent) : sent[i].kind = "log" /\ sent[i].n <= line[sent[i].run]

OnceInv ==
  /\ \A i, j \in 1..Len(sent) : sent[i] = sent[j] => i = j
  /\ \A i, j \in 1..Len(channel) :
       (channel[i] = channel[j] /\ channel[i].kind = "log") => i = j

ApartInv ==
  /\ LogLines(ToSet(channel)) \cap hands = {}
  /\ LogLines(ToSet(channel)) \cap ToSet(shown) = {}
  /\ hands \cap ToSet(shown) = {}

PlacesInv ==
  /\ NumberInv /\ OnceInv /\ ApartInv
  /\ IsFiniteSet(hands) /\ IsFiniteSet(LogLines(ToSet(channel)))
  /\ EveryLineHasAPlace

(* The one is before the other in the sequence.                            *)
Before(s, a, b) ==
  \E i, j \in 1..Len(s) : i < j /\ s[i] = a /\ s[j] = b

ResultInv == \A m \in hands : m.kind = "publish" => m.run \in Publishes

(* One waiter, or one message on its way after which there will be one.    *)
SingleInv ==
  NoKeyResult =>
    /\ waiting <= 1
    /\ waiting = 1 => \A m \in hands : m.kind \notin Resubscribing
    /\ \A a, b \in hands :
         (a.kind \in Resubscribing /\ b.kind \in Resubscribing) => a = b

(* What has not reached the panel comes after it, in its order.            *)
QueueInv ==
  NoKeyResult =>
    /\ Len(shown) <= Len(sent)
    /\ \A i \in 1..Len(shown) : shown[i] = sent[i]
    /\ \A m \in LogLines(hands) : \A i \in 1..Len(channel) :
         channel[i].kind = "log" => Before(sent, m, channel[i])
    /\ \A i, j \in 1..Len(channel) :
         (i < j /\ channel[i].kind = "log" /\ channel[j].kind = "log")
         => Before(sent, channel[i], channel[j])

OrderInv == ResultInv /\ SingleInv /\ QueueInv

(* The elements of a sequence, of a longer one and of its tail.            *)
LEMMA ElementsOf ==
  ASSUME NEW S, NEW s \in Seq(S), NEW x
  PROVE  x \in ToSet(s) <=> \E i \in 1..Len(s) : s[i] = x
  BY DEF ToSet

LEMMA AppendedTo ==
  ASSUME NEW S, NEW s \in Seq(S), NEW e \in S
  PROVE  /\ Append(s, e) \in Seq(S) /\ Len(Append(s, e)) = Len(s) + 1
         /\ \A i \in 1..Len(s) : Append(s, e)[i] = s[i]
         /\ Append(s, e)[Len(s) + 1] = e
         /\ ToSet(Append(s, e)) = ToSet(s) \cup {e}
<1>1. /\ Append(s, e) \in Seq(S) /\ Len(Append(s, e)) = Len(s) + 1
      /\ \A i \in 1..Len(s) : Append(s, e)[i] = s[i]
      /\ Append(s, e)[Len(s) + 1] = e
  OBVIOUS
<1>2. Len(s) \in Nat
  OBVIOUS
<1> DEFINE t == Append(s, e)
<1> HIDE DEF t
<1>3. ASSUME NEW x PROVE x \in ToSet(t) <=> x \in ToSet(s) \cup {e}
  <2>1. x \in ToSet(t) <=> \E i \in 1..(Len(s) + 1) : t[i] = x
    <3>1. t \in Seq(S) /\ Len(t) = Len(s) + 1
      BY <1>1 DEF t
    <3>2. x \in ToSet(t) <=> \E i \in 1..Len(t) : t[i] = x
      BY <3>1, ElementsOf
    <3> QED
      BY <3>1, <3>2
  <2>2. x \in ToSet(s) <=> \E i \in 1..Len(s) : s[i] = x
    BY ElementsOf
  <2> QED
    BY <1>1, <1>2, <2>1, <2>2 DEF t
<1>4. ToSet(t) = ToSet(s) \cup {e}
  BY <1>3
<1> QED
  BY <1>1, <1>4 DEF t

LEMMA TakenFrom ==
  ASSUME NEW S, NEW s \in Seq(S), s # <<>>
  PROVE  /\ Tail(s) \in Seq(S) /\ Len(Tail(s)) = Len(s) - 1 /\ Len(s) \in Nat \ {0}
         /\ \A i \in 1..Len(Tail(s)) : Tail(s)[i] = s[i + 1] /\ i + 1 \in 1..Len(s)
         /\ Head(s) = s[1] /\ Head(s) \in S
         /\ ToSet(s) = ToSet(Tail(s)) \cup {Head(s)}
<1>1. /\ Tail(s) \in Seq(S) /\ Len(Tail(s)) = Len(s) - 1 /\ Len(s) \in Nat \ {0}
      /\ \A i \in 1..Len(Tail(s)) : Tail(s)[i] = s[i + 1] /\ i + 1 \in 1..Len(s)
      /\ Head(s) = s[1] /\ Head(s) \in S
  OBVIOUS
<1> DEFINE t == Tail(s)  h == Head(s)
<1> HIDE DEF t, h
<1>2. ASSUME NEW x PROVE x \in ToSet(s) <=> x \in ToSet(t) \cup {h}
  <2>1. x \in ToSet(t) <=> \E i \in 1..Len(t) : t[i] = x
    BY <1>1, ElementsOf DEF t
  <2>2. x \in ToSet(s) <=> \E i \in 1..Len(s) : s[i] = x
    BY ElementsOf
  <2>3. \A i \in 1..Len(s) : i = 1 \/ (i - 1 \in 1..Len(t) /\ t[i - 1] = s[i])
    BY <1>1 DEF t
  <2>4. h = s[1] /\ 1 \in 1..Len(s) /\ \A i \in 1..Len(t) : t[i] = s[i + 1] /\ i + 1 \in 1..Len(s)
    BY <1>1 DEF t, h
  <2> QED
    BY <2>1, <2>2, <2>3, <2>4
<1>3. ToSet(s) = ToSet(t) \cup {h}
  BY <1>2
<1> QED
  BY <1>1, <1>3 DEF t, h

(* At first there is no line anywhere.                                     *)
LEMMA InitPlaces == Init => PlacesInv /\ OrderInv
<1> SUFFICES ASSUME Init PROVE PlacesInv /\ OrderInv
  OBVIOUS
<1>1. channel = <<>> /\ shown = <<>> /\ sent = <<>> /\ hands = {} /\ waiting = 1
  BY DEF Init
<1>2. ToSet(<<>>) = {} /\ LogLines({}) = {} /\ Len(<<>>) = 0
  BY DEF ToSet, LogLines
<1>3. IsFiniteSet({}) /\ Cardinality({}) = 0
  BY FS_EmptySet
<1>4. PlacesInv
  <2>1. EveryLineHasAPlace
    <3>1. /\ ToSet(sent) = {} /\ ToSet(shown) = {} /\ LogLines(ToSet(channel)) = {}
          /\ LogLines(hands) = {} /\ Len(sent) = 0 /\ Len(shown) = 0
      BY <1>1, <1>2
    <3> QED
      BY <1>3, <3>1 DEF EveryLineHasAPlace
  <2>2. NumberInv /\ OnceInv
    BY <1>1, <1>2 DEF NumberInv, OnceInv
  <2>3. ApartInv
    BY <1>1, <1>2 DEF ApartInv
  <2> QED
    BY <1>1, <1>2, <1>3, <2>1, <2>2, <2>3 DEF PlacesInv
<1>5. ResultInv /\ SingleInv
  BY <1>1 DEF ResultInv, SingleInv
<1>6. QueueInv
  BY <1>1, <1>2 DEF QueueInv
<1> QED
  BY <1>4, <1>5, <1>6 DEF OrderInv

(* Every line that was sent has a place, and the panel shows lines only.   *)
LEMMA PanelShowsLines ==
  ASSUME IInv, PlacesInv
  PROVE  /\ \A m \in ToSet(sent) : m.kind = "log" /\ m.n <= line[m.run]
         /\ ToSet(shown) \subseteq ToSet(sent)
         /\ LogLines(ToSet(channel)) \subseteq ToSet(sent)
         /\ LogLines(hands) \subseteq ToSet(sent)
<1>1. \A m \in ToSet(sent) : \E i \in 1..Len(sent) : sent[i] = m
  BY ElementsOf DEF IInv, TypeOK
<1>2. \A m \in ToSet(sent) : m.kind = "log" /\ m.n <= line[m.run]
  BY <1>1 DEF PlacesInv, NumberInv
<1> QED
  BY <1>2 DEF PlacesInv, EveryLineHasAPlace

(* No line moves.                                                          *)
LEMMA PlacesFrame ==
  ASSUME PlacesInv, UNCHANGED <<channel, hands, shown, sent, line>>
  PROVE  PlacesInv'
  BY DEF PlacesInv, NumberInv, OnceInv, ApartInv, EveryLineHasAPlace

(* Messages that are no lines come and go.                                 *)
LEMMA PlacesOthers ==
  ASSUME IInv, PlacesInv, UNCHANGED <<shown, sent, line>>, OnceInv',
         LogLines(ToSet(channel')) = LogLines(ToSet(channel)),
         LogLines(hands') = LogLines(hands), IsFiniteSet(hands')
  PROVE  PlacesInv'
<1>1. ToSet(shown) \subseteq {m \in ToSet(sent) : m.kind = "log"}
  BY PanelShowsLines
<1>2. hands' \cap ToSet(shown) = {}
  BY <1>1 DEF PlacesInv, ApartInv, LogLines
<1>3. LogLines(ToSet(channel')) \cap hands' = {}
  BY DEF PlacesInv, ApartInv, LogLines
<1>4. ApartInv'
  BY <1>2, <1>3 DEF PlacesInv, ApartInv
<1>5. EveryLineHasAPlace'
  BY DEF PlacesInv, EveryLineHasAPlace
<1> QED
  BY <1>4, <1>5 DEF PlacesInv, NumberInv

(* A message that is no line goes into the channel.                        *)
LEMMA SendOther ==
  ASSUME IInv, PlacesInv, UNCHANGED <<hands, shown, sent, line>>,
         NEW m \in Message, m.kind # "log", Send(m)
  PROVE  PlacesInv'
<1>1. channel \in Seq(Message) /\ channel' = Append(channel, m)
  BY DEF IInv, TypeOK, Send
<1>2. /\ Len(channel') = Len(channel) + 1 /\ Len(channel) \in Nat
      /\ \A i \in 1..Len(channel) : channel'[i] = channel[i]
      /\ channel'[Len(channel) + 1] = m
      /\ ToSet(channel') = ToSet(channel) \cup {m}
  BY <1>1, AppendedTo
<1>3. LogLines(ToSet(channel')) = LogLines(ToSet(channel))
  BY <1>2 DEF LogLines
<1>4. ASSUME NEW i \in 1..Len(channel'), NEW j \in 1..Len(channel'),
             channel'[i] = channel'[j], channel'[i].kind = "log"
      PROVE  i = j
  <2>1. i # Len(channel) + 1 /\ j # Len(channel) + 1
    BY <1>2, <1>4
  <2> QED
    BY <1>2, <1>4, <2>1 DEF PlacesInv, OnceInv
<1>5. OnceInv'
  BY <1>4 DEF PlacesInv, OnceInv
<1> QED
  BY <1>3, <1>5, PlacesOthers DEF PlacesInv

(* A new line has a number its run has not used: it is nowhere yet.        *)
LEMMA LinePlaces ==
  ASSUME IInv, PlacesInv, NEW r \in Runs, LogLine(r)
  PROVE  PlacesInv'
<1> DEFINE m == Msg("log", r, line[r] + 1)
<1>1. /\ Len(sent) < MaxLines /\ Send(m) /\ sent' = Append(sent, m)
      /\ line' = [line EXCEPT ![r] = @ + 1]
      /\ UNCHANGED <<hands, shown>>
  BY DEF LogLine, panel
<1>2. /\ channel \in Seq(Message) /\ sent \in Seq(Message) /\ shown \in Seq(Message)
      /\ line \in [Runs -> 0..MaxLines] /\ line[r] <= Len(sent)
  BY DEF IInv, TypeOK, LineInv
<1>3. /\ m \in Message /\ m.kind = "log" /\ m.run = r /\ m.n = line[r] + 1
      /\ line[r] \in Nat
  BY <1>1, <1>2, MsgType DEF Msg
<1> HIDE DEF m
<1>4. m \notin ToSet(sent)
  BY <1>3, PanelShowsLines
<1>5. m \notin ToSet(channel) /\ m \notin hands /\ m \notin ToSet(shown)
  BY <1>3, <1>4, PanelShowsLines DEF LogLines
<1>6. /\ Len(channel') = Len(channel) + 1 /\ Len(channel) \in Nat
      /\ \A i \in 1..Len(channel) : channel'[i] = channel[i]
      /\ channel'[Len(channel) + 1] = m
      /\ ToSet(channel') = ToSet(channel) \cup {m}
  BY <1>1, <1>2, <1>3, AppendedTo DEF Send
<1>7. /\ Len(sent') = Len(sent) + 1 /\ Len(sent) \in Nat
      /\ \A i \in 1..Len(sent) : sent'[i] = sent[i]
      /\ sent'[Len(sent) + 1] = m
      /\ ToSet(sent') = ToSet(sent) \cup {m}
  BY <1>1, <1>2, <1>3, AppendedTo
<1>8. NumberInv'
  <2> SUFFICES ASSUME NEW i \in 1..Len(sent')
               PROVE  sent'[i].kind = "log" /\ sent'[i].n <= line'[sent'[i].run]
    BY DEF NumberInv
  <2>1. CASE i \in 1..Len(sent)
    <3>0. sent[i] \in Message
      BY <1>2, <2>1
    <3>1. sent'[i] = sent[i] /\ sent[i].kind = "log" /\ sent[i].n <= line[sent[i].run]
          /\ sent[i].run \in Runs /\ sent[i].n \in Nat
      BY <1>7, <2>1, <3>0 DEF PlacesInv, NumberInv, Message
    <3>2. \A q \in Runs : line[q] \in Nat /\ line'[q] \in Nat /\ line[q] <= line'[q]
      BY <1>1, <1>2, <1>3
    <3> QED
      BY <3>1, <3>2
  <2>2. CASE i = Len(sent) + 1
    BY <1>1, <1>2, <1>3, <1>7, <2>2
  <2> QED
    BY <1>7, <2>1, <2>2
<1>9. OnceInv'
  <2>1. \A i \in 1..Len(channel) : channel[i] # m
    BY <1>2, <1>5, ElementsOf
  <2>2. \A i \in 1..Len(sent) : sent[i] # m
    BY <1>2, <1>4, ElementsOf
  <2>3. \A i, j \in 1..Len(channel') :
          (channel'[i] = channel'[j] /\ channel'[i].kind = "log") => i = j
    BY <1>6, <2>1 DEF PlacesInv, OnceInv
  <2>4. \A i, j \in 1..Len(sent') : sent'[i] = sent'[j] => i = j
    BY <1>7, <2>2 DEF PlacesInv, OnceInv
  <2> QED
    BY <2>3, <2>4 DEF OnceInv
<1>10. LogLines(ToSet(channel')) = LogLines(ToSet(channel)) \cup {m}
  BY <1>3, <1>6 DEF LogLines
<1>11. ApartInv'
  BY <1>1, <1>5, <1>10 DEF PlacesInv, ApartInv
<1>12. /\ IsFiniteSet(LogLines(ToSet(channel')))
       /\ Cardinality(LogLines(ToSet(channel'))) = Cardinality(LogLines(ToSet(channel))) + 1
  <2>1. m \notin LogLines(ToSet(channel)) /\ IsFiniteSet(LogLines(ToSet(channel)))
    BY <1>5 DEF PlacesInv, LogLines
  <2> QED
    BY <1>10, <2>1, FS_AddElement
<1>13. EveryLineHasAPlace'
  <2>1. LogLines(hands) \subseteq hands /\ IsFiniteSet(LogLines(hands))
    BY FS_Subset DEF PlacesInv, LogLines
  <2>2. Cardinality(LogLines(hands)) \in Nat /\ Cardinality(LogLines(ToSet(channel))) \in Nat
    BY <2>1, FS_CardinalityType DEF PlacesInv
  <2>3. Len(shown) \in Nat
    BY <1>2
  <2>4. Len(sent') = Len(shown) + Cardinality(LogLines(hands))
                     + Cardinality(LogLines(ToSet(channel')))
    BY <1>7, <1>12, <2>2, <2>3 DEF PlacesInv, EveryLineHasAPlace
  <2>5. ToSet(sent') = LogLines(ToSet(channel')) \cup LogLines(hands) \cup ToSet(shown)
    BY <1>7, <1>10 DEF PlacesInv, EveryLineHasAPlace
  <2> QED
    BY <1>1, <2>4, <2>5 DEF EveryLineHasAPlace
<1> QED
  BY <1>1, <1>8, <1>9, <1>11, <1>12, <1>13 DEF PlacesInv

(* The result of a run is no line.                                         *)
LEMMA FinishPlaces ==
  ASSUME IInv, PlacesInv, NEW r \in Runs, Finish(r)
  PROVE  PlacesInv'
<1>1. UNCHANGED <<shown, sent, line>>
  BY DEF Finish, panel
<1>2. \/ Send(Msg("pipeline", r, 0)) /\ UNCHANGED hands
      \/ \E kind \in {"pipeline", "publish", "archive"} : Return(r, kind)
      \/ UNCHANGED <<channel, hands>>
  BY DEF Finish, Runs
<1>3. CASE Send(Msg("pipeline", r, 0)) /\ UNCHANGED hands
  BY <1>1, <1>3, MsgType, SendOther
<1>4. CASE \E kind \in {"pipeline", "publish", "archive"} : Return(r, kind)
  <2>1. PICK kind \in {"pipeline", "publish", "archive"} : Return(r, kind)
    BY <1>4
  <2>2. hands' = hands \cup {Msg(kind, r, 0)} /\ channel' = channel
        /\ Msg(kind, r, 0).kind # "log"
    BY <2>1, MsgType DEF Return
  <2>3. LogLines(hands') = LogLines(hands)
    BY <2>2 DEF LogLines
  <2>4. IsFiniteSet(hands')
    BY <2>2, FS_AddElement DEF PlacesInv
  <2>5. OnceInv'
    BY <1>1, <2>2 DEF PlacesInv, OnceInv
  <2> QED
    BY <1>1, <2>2, <2>3, <2>4, <2>5, PlacesOthers
<1>5. CASE UNCHANGED <<channel, hands>>
  BY <1>1, <1>5, PlacesFrame
<1> QED
  BY <1>2, <1>3, <1>4, <1>5

(* A message leaves the channel for the hands of a waiter.                 *)
LEMMA ReceivePlaces ==
  ASSUME IInv, PlacesInv, Receive
  PROVE  PlacesInv'
<1> DEFINE h == Head(channel)
<1>1. /\ channel # <<>> /\ channel' = Tail(channel) /\ hands' = hands \cup {h}
      /\ UNCHANGED <<shown, sent, line>>
  BY DEF Receive, panel
<1>2. channel \in Seq(Message)
  BY DEF IInv, TypeOK
<1>3. /\ Len(channel') = Len(channel) - 1 /\ Len(channel) \in Nat \ {0}
      /\ \A i \in 1..Len(channel') : channel'[i] = channel[i + 1] /\ i + 1 \in 1..Len(channel)
      /\ h = channel[1] /\ ToSet(channel) = ToSet(channel') \cup {h}
      /\ channel' \in Seq(Message)
  BY <1>1, <1>2, TakenFrom
<1> HIDE DEF h
<1>4. OnceInv'
  <2>1. \A i, j \in 1..Len(channel') :
          (channel'[i] = channel'[j] /\ channel'[i].kind = "log") => i = j
    BY <1>3 DEF PlacesInv, OnceInv
  <2> QED
    BY <1>1, <2>1 DEF PlacesInv, OnceInv
<1>5. IsFiniteSet(hands')
  BY <1>1, FS_AddElement DEF PlacesInv
<1>6. CASE h.kind # "log"
  <2>1. LogLines(hands') = LogLines(hands)
        /\ LogLines(ToSet(channel')) = LogLines(ToSet(channel))
    BY <1>1, <1>3, <1>6 DEF LogLines
  <2> QED
    BY <1>1, <1>4, <1>5, <2>1, PlacesOthers
<1>7. CASE h.kind = "log"
  <2>1. h \notin ToSet(channel')
    <3>1. \A i \in 1..Len(channel') : channel'[i] # h
      BY <1>3, <1>7 DEF PlacesInv, OnceInv
    <3> QED
      BY <1>3, <3>1, ElementsOf
  <2>2. h \in LogLines(ToSet(channel)) /\ h \notin hands /\ h \notin ToSet(shown)
    BY <1>3, <1>7 DEF PlacesInv, ApartInv, LogLines
  <2>3. /\ LogLines(hands') = LogLines(hands) \cup {h}
        /\ LogLines(ToSet(channel')) = LogLines(ToSet(channel)) \ {h}
    BY <1>1, <1>3, <1>7, <2>1 DEF LogLines
  <2>4. ApartInv'
    BY <1>1, <2>2, <2>3 DEF PlacesInv, ApartInv
  <2>5. LogLines(hands) \subseteq hands /\ IsFiniteSet(LogLines(hands))
    BY FS_Subset DEF PlacesInv, LogLines
  <2>6. /\ IsFiniteSet(LogLines(ToSet(channel')))
        /\ Cardinality(LogLines(ToSet(channel'))) = Cardinality(LogLines(ToSet(channel))) - 1
    BY <2>2, <2>3, FS_RemoveElement DEF PlacesInv
  <2>7. Cardinality(LogLines(hands')) = Cardinality(LogLines(hands)) + 1
    BY <2>2, <2>3, <2>5, FS_AddElement
  <2>8. Cardinality(LogLines(hands)) \in Nat /\ Cardinality(LogLines(ToSet(channel))) \in Nat
        /\ Len(shown) \in Nat
    BY <2>5, FS_CardinalityType DEF PlacesInv, IInv, TypeOK
  <2>9. Len(sent') = Len(shown') + Cardinality(LogLines(hands'))
                     + Cardinality(LogLines(ToSet(channel')))
    BY <1>1, <2>6, <2>7, <2>8 DEF PlacesInv, EveryLineHasAPlace
  <2>10. ToSet(sent') = LogLines(ToSet(channel')) \cup LogLines(hands') \cup ToSet(shown')
    BY <1>1, <2>2, <2>3 DEF PlacesInv, EveryLineHasAPlace
  <2>11. NumberInv'
    BY <1>1 DEF PlacesInv, NumberInv
  <2> QED
    BY <1>4, <1>5, <2>4, <2>6, <2>9, <2>10, <2>11 DEF PlacesInv, EveryLineHasAPlace
<1> QED
  BY <1>6, <1>7

(* A message reaches the event loop; a line goes from there to the panel.  *)
LEMMA UpdatePlaces ==
  ASSUME IInv, PlacesInv, NEW m, Update(m)
  PROVE  PlacesInv'
<1>1. /\ m \in hands /\ hands' = hands \ {m}
      /\ shown' = IF m.kind = "log" THEN Append(shown, m) ELSE shown
      /\ UNCHANGED <<channel, sent, line>>
  BY DEF Update, appendRuntimeLog, panel
<1>2. m \in Message /\ shown \in Seq(Message)
  BY <1>1 DEF IInv, TypeOK
<1>3. OnceInv'
  BY <1>1 DEF PlacesInv, OnceInv
<1>4. IsFiniteSet(hands')
  BY <1>1, FS_RemoveElement DEF PlacesInv
<1>5. CASE m.kind # "log"
  <2>1. LogLines(hands') = LogLines(hands) /\ shown' = shown
    BY <1>1, <1>5 DEF LogLines
  <2> QED
    BY <1>1, <1>3, <1>4, <2>1, PlacesOthers
<1>6. CASE m.kind = "log"
  <2>1. Len(shown') = Len(shown) + 1 /\ Len(shown) \in Nat
        /\ ToSet(shown') = ToSet(shown) \cup {m}
    BY <1>1, <1>2, <1>6, AppendedTo
  <2>2. LogLines(hands') = LogLines(hands) \ {m} /\ m \in LogLines(hands)
    BY <1>1, <1>6 DEF LogLines
  <2>3. m \notin LogLines(ToSet(channel))
    BY <1>1 DEF PlacesInv, ApartInv
  <2>4. ApartInv'
    BY <1>1, <2>1, <2>3 DEF PlacesInv, ApartInv
  <2>5. LogLines(hands) \subseteq hands /\ IsFiniteSet(LogLines(hands))
    BY FS_Subset DEF PlacesInv, LogLines
  <2>6. Cardinality(LogLines(hands')) = Cardinality(LogLines(hands)) - 1
    <3>1. Cardinality(LogLines(hands) \ {m}) = Cardinality(LogLines(hands)) - 1
      BY <2>2, <2>5, FS_RemoveElement
    <3> QED
      BY <2>2, <3>1
  <2>7. Cardinality(LogLines(hands)) \in Nat /\ Cardinality(LogLines(ToSet(channel))) \in Nat
    BY <2>5, FS_CardinalityType DEF PlacesInv
  <2>8. Len(sent') = Len(shown') + Cardinality(LogLines(hands'))
                     + Cardinality(LogLines(ToSet(channel')))
    BY <1>1, <2>1, <2>6, <2>7 DEF PlacesInv, EveryLineHasAPlace
  <2>9. ToSet(sent') = LogLines(ToSet(channel')) \cup LogLines(hands') \cup ToSet(shown')
    BY <1>1, <2>1, <2>2 DEF PlacesInv, EveryLineHasAPlace
  <2>10. NumberInv'
    BY <1>1 DEF PlacesInv, NumberInv
  <2> QED
    BY <1>1, <1>3, <1>4, <2>4, <2>8, <2>9, <2>10 DEF PlacesInv, EveryLineHasAPlace
<1> QED
  BY <1>5, <1>6

(* With the process its lines go.                                          *)
LEMMA ExitPlaces ==
  ASSUME Exit
  PROVE  PlacesInv'
<1>1. channel' = <<>> /\ shown' = <<>> /\ sent' = <<>> /\ hands' = {}
  BY DEF Exit
<1>2. ToSet(<<>>) = {} /\ LogLines({}) = {} /\ Len(<<>>) = 0
  BY DEF ToSet, LogLines
<1>3. IsFiniteSet({}) /\ Cardinality({}) = 0
  BY FS_EmptySet
<1>4. EveryLineHasAPlace'
  <2>1. /\ ToSet(sent') = {} /\ ToSet(channel') = {} /\ ToSet(shown') = {}
        /\ LogLines(hands') = {} /\ LogLines(ToSet(channel')) = {}
        /\ Len(sent') = 0 /\ Len(shown') = 0
    BY <1>1, <1>2 DEF LogLines
  <2>2. Cardinality(LogLines(hands')) = 0 /\ Cardinality(LogLines(ToSet(channel'))) = 0
    BY <1>3, <2>1
  <2>3. ToSet(sent') = LogLines(ToSet(channel')) \cup LogLines(hands') \cup ToSet(shown')
    BY <2>1
  <2> QED
    BY <2>1, <2>2, <2>3 DEF EveryLineHasAPlace
<1>5. NumberInv' /\ OnceInv'
  BY <1>1, <1>2 DEF NumberInv, OnceInv
<1>6. ApartInv'
  BY <1>1, <1>2 DEF ApartInv
<1> QED
  BY <1>1, <1>2, <1>3, <1>4, <1>5, <1>6 DEF PlacesInv

LEMMA NextPlaces == IInv /\ PlacesInv /\ [Next]_vars => PlacesInv'
<1> SUFFICES ASSUME IInv, PlacesInv, [Next]_vars PROVE PlacesInv'
  OBVIOUS
<1>1. ASSUME NEW r \in Runs, Handle(r) \/ Press(r) \/ PeriodicSweep(r)
      PROVE  PlacesInv'
  BY <1>1, PlacesFrame DEF Handle, Press, PeriodicSweep, loopVars, panel
<1>2. ASSUME NEW r \in Runs, SendStatus(r) PROVE PlacesInv'
  BY <1>2, MsgType, SendOther DEF SendStatus, panel
<1>3. ASSUME NEW r \in Runs, LogLine(r) \/ Finish(r) PROVE PlacesInv'
  BY <1>3, LinePlaces, FinishPlaces
<1>4. CASE Receive
  BY <1>4, ReceivePlaces
<1>5. ASSUME NEW r \in Runs, UpdateOf(r) PROVE PlacesInv'
  BY <1>5, UpdatePlaces DEF UpdateOf
<1>6. CASE Quit \/ UNCHANGED vars
  BY <1>6, PlacesFrame DEF Quit, vars, eventVars, loopVars, panel
<1>7. CASE Exit
  BY <1>7, ExitPlaces
<1> QED
  BY <1>1, <1>2, <1>3, <1>4, <1>5, <1>6, <1>7 DEF Next, RunStep

-----------------------------------------------------------------------------
(* The order of the lines.                                                 *)

(* A pipeline run that a key started stays over.                           *)
LEMMA KeyResultStays ==
  ASSUME TypeOK, NEW r \in Runs, NEW label, Go(r, label),
         pc[r] # "over" \/ r \notin KeyPipes, NoKeyResult'
  PROVE  NoKeyResult
<1> SUFFICES ASSUME NEW q \in KeyPipes PROVE pc[q] # "over"
  BY DEF NoKeyResult
<1>1. q \in Runs /\ pc'[q] # "over" /\ pc' = [pc EXCEPT ![r] = label]
  BY DEF NoKeyResult, Go, Runs
<1>2. CASE q = r
  BY <1>2
<1>3. CASE q # r
  BY <1>1, <1>3 DEF TypeOK
<1> QED
  BY <1>2, <1>3

(* Lines that were sent in some order stay in it when another is sent.     *)
LEMMA BeforeKept ==
  ASSUME NEW s \in Seq(Message), NEW m \in Message, NEW a, NEW b, Before(s, a, b)
  PROVE  Before(Append(s, m), a, b)
<1>1. /\ Len(Append(s, m)) = Len(s) + 1 /\ Len(s) \in Nat
      /\ \A i \in 1..Len(s) : Append(s, m)[i] = s[i]
  BY AppendedTo
<1>2. PICK i \in 1..Len(s), j \in 1..Len(s) : i < j /\ s[i] = a /\ s[j] = b
  BY DEF Before
<1>3. i \in 1..Len(s) + 1 /\ j \in 1..Len(s) + 1
  BY <1>1
<1> QED
  BY <1>1, <1>2, <1>3 DEF Before

(* No message moves.                                                       *)
LEMMA OrderFrame ==
  ASSUME OrderInv, UNCHANGED <<channel, waiting, hands, shown, sent>>,
         NoKeyResult' => NoKeyResult
  PROVE  OrderInv'
<1>1. ResultInv'
  BY DEF OrderInv, ResultInv
<1>2. SingleInv'
  BY DEF OrderInv, SingleInv
<1>3. QueueInv'
  BY DEF OrderInv, QueueInv
<1> QED
  BY <1>1, <1>2, <1>3 DEF OrderInv

(* A message that is no line does not disturb the queue.                   *)
LEMMA OrderSendOther ==
  ASSUME IInv, OrderInv, UNCHANGED <<waiting, hands, shown, sent>>,
         NEW m \in Message, m.kind # "log", Send(m), NoKeyResult' => NoKeyResult
  PROVE  OrderInv'
<1>1. channel \in Seq(Message) /\ channel' = Append(channel, m)
  BY DEF IInv, TypeOK, Send
<1>2. /\ Len(channel') = Len(channel) + 1 /\ Len(channel) \in Nat
      /\ \A i \in 1..Len(channel) : channel'[i] = channel[i]
      /\ channel'[Len(channel) + 1] = m
  BY <1>1, AppendedTo
<1>3. \A i \in 1..Len(channel') :
        channel'[i].kind = "log" => i \in 1..Len(channel) /\ channel'[i] = channel[i]
  BY <1>2
<1>4. ResultInv'
  BY DEF OrderInv, ResultInv
<1>5. SingleInv'
  BY DEF OrderInv, SingleInv
<1>6. QueueInv'
  BY <1>3 DEF OrderInv, QueueInv
<1> QED
  BY <1>4, <1>5, <1>6 DEF OrderInv

(* A new line comes last, in the channel and among those that were sent.   *)
LEMMA OrderLine ==
  ASSUME IInv, PlacesInv, OrderInv, NEW r \in Runs, LogLine(r)
  PROVE  OrderInv'
<1> DEFINE m == Msg("log", r, line[r] + 1)
<1>1. /\ Len(sent) < MaxLines /\ Send(m) /\ sent' = Append(sent, m)
      /\ UNCHANGED <<waiting, hands, shown, pc>>
  BY DEF LogLine, panel
<1>2. /\ channel \in Seq(Message) /\ sent \in Seq(Message)
      /\ line[r] \in 0..MaxLines /\ line[r] <= Len(sent) /\ shown \in Seq(Message)
  BY DEF IInv, TypeOK, LineInv
<1>3. m \in Message
  BY <1>1, <1>2, MsgType
<1> HIDE DEF m
<1>4. /\ Len(channel') = Len(channel) + 1 /\ Len(channel) \in Nat
      /\ \A i \in 1..Len(channel) : channel'[i] = channel[i]
      /\ channel'[Len(channel) + 1] = m
  BY <1>1, <1>2, <1>3, AppendedTo DEF Send
<1>5. /\ Len(sent') = Len(sent) + 1 /\ Len(sent) \in Nat
      /\ \A i \in 1..Len(sent) : sent'[i] = sent[i]
      /\ sent'[Len(sent) + 1] = m
  BY <1>1, <1>2, <1>3, AppendedTo
<1>6. ASSUME NEW a, NEW b, Before(sent, a, b) PROVE Before(sent', a, b)
  BY <1>1, <1>2, <1>3, <1>6, BeforeKept
<1>7. ASSUME NEW a \in ToSet(sent) PROVE Before(sent', a, m)
  <2>1. PICK i \in 1..Len(sent) : sent[i] = a
    BY <1>2, ElementsOf
  <2>2. i \in 1..Len(sent') /\ Len(sent) + 1 \in 1..Len(sent') /\ i < Len(sent) + 1
    BY <1>5
  <2> QED
    BY <1>5, <2>1, <2>2 DEF Before
<1>8. \A a \in LogLines(hands) : Before(sent', a, m)
  BY <1>7, PanelShowsLines
<1>9. ASSUME NEW i \in 1..Len(channel), channel[i].kind = "log"
      PROVE  Before(sent', channel[i], m)
  <2>1. channel[i] \in LogLines(ToSet(channel))
    BY <1>2, <1>9, ElementsOf DEF LogLines
  <2> QED
    BY <1>7, <2>1, PanelShowsLines
<1>10. ResultInv' /\ SingleInv'
  BY <1>1 DEF OrderInv, ResultInv, SingleInv, NoKeyResult
<1>11. ASSUME NoKeyResult
       PROVE  /\ Len(shown) <= Len(sent')
              /\ \A i \in 1..Len(shown) : shown[i] = sent'[i]
              /\ \A a \in LogLines(hands) : \A i \in 1..Len(channel') :
                   channel'[i].kind = "log" => Before(sent', a, channel'[i])
              /\ \A i, j \in 1..Len(channel') :
                   (i < j /\ channel'[i].kind = "log" /\ channel'[j].kind = "log")
                   => Before(sent', channel'[i], channel'[j])
  <2>0. QueueInv /\ Len(shown) \in Nat
    BY <1>2 DEF OrderInv
  <2>1. Len(shown) <= Len(sent') /\ \A i \in 1..Len(shown) : shown[i] = sent'[i]
    BY <1>5, <1>11, <2>0 DEF QueueInv
  <2>2. ASSUME NEW a \in LogLines(hands), NEW i \in 1..Len(channel'),
               channel'[i].kind = "log"
        PROVE  Before(sent', a, channel'[i])
    <3>1. CASE i = Len(channel) + 1
      BY <1>4, <1>8, <3>1
    <3>2. CASE i \in 1..Len(channel)
      BY <1>4, <1>6, <1>11, <2>0, <2>2, <3>2 DEF QueueInv
    <3> QED
      BY <1>4, <3>1, <3>2
  <2>3. ASSUME NEW i \in 1..Len(channel'), NEW j \in 1..Len(channel'),
               i < j, channel'[i].kind = "log", channel'[j].kind = "log"
        PROVE  Before(sent', channel'[i], channel'[j])
    <3>1. i \in 1..Len(channel) /\ channel'[i] = channel[i]
      BY <1>4, <2>3
    <3>2. CASE j = Len(channel) + 1
      BY <1>4, <1>9, <2>3, <3>1, <3>2
    <3>3. CASE j \in 1..Len(channel)
      BY <1>4, <1>6, <1>11, <2>0, <2>3, <3>1, <3>3 DEF QueueInv
    <3> QED
      BY <1>4, <3>2, <3>3
  <2> QED
    BY <2>1, <2>2, <2>3
<1>12. NoKeyResult' => NoKeyResult
  BY <1>1 DEF NoKeyResult
<1>13. QueueInv'
  BY <1>1, <1>11, <1>12 DEF QueueInv
<1> QED
  BY <1>10, <1>13 DEF OrderInv

(* A result that brings a second waiter is one of a run a key started.     *)
LEMMA OrderFinish ==
  ASSUME IInv, OrderInv, NEW r \in Runs, Finish(r)
  PROVE  OrderInv'
<1>1. UNCHANGED <<waiting, shown, sent>> /\ Go(r, "over") /\ pc[r] # "over"
  BY DEF Finish, panel
<1>2. \/ Send(Msg("pipeline", r, 0)) /\ UNCHANGED hands
      \/ r \in KeyPipes /\ Return(r, "pipeline")
      \/ \E kind \in {"publish", "archive"} : r \in Publishes /\ Return(r, kind)
      \/ UNCHANGED <<channel, hands>>
  BY DEF Finish, Runs
<1>3. NoKeyResult' => NoKeyResult
  BY <1>1, KeyResultStays DEF IInv
<1>4. CASE Send(Msg("pipeline", r, 0)) /\ UNCHANGED hands
  BY <1>1, <1>3, <1>4, MsgType, OrderSendOther
<1>5. CASE r \in KeyPipes /\ Return(r, "pipeline")
  <2>1. pc'[r] = "over"
    BY <1>1 DEF Go, IInv, TypeOK
  <2>2. ~NoKeyResult'
    BY <1>5, <2>1 DEF NoKeyResult
  <2>3. hands' = hands \cup {Msg("pipeline", r, 0)} /\ Msg("pipeline", r, 0).kind # "publish"
    BY <1>5, MsgType DEF Return
  <2>4. ResultInv'
    BY <2>3 DEF OrderInv, ResultInv
  <2> QED
    BY <2>2, <2>4 DEF OrderInv, SingleInv, QueueInv
<1>6. CASE \E kind \in {"publish", "archive"} : r \in Publishes /\ Return(r, kind)
  <2>1. PICK kind \in {"publish", "archive"} : r \in Publishes /\ Return(r, kind)
    BY <1>6
  <2> DEFINE m == Msg(kind, r, 0)
  <2>2. hands' = hands \cup {m} /\ channel' = channel
    BY <2>1 DEF Return
  <2>3. m.kind = kind /\ m.run = r /\ m.kind \notin Resubscribing /\ m.kind # "log"
    BY MsgType DEF Resubscribing
  <2> HIDE DEF m
  <2>4. ResultInv'
    BY <2>1, <2>2, <2>3 DEF OrderInv, ResultInv
  <2>5. SingleInv'
    BY <1>1, <1>3, <2>2, <2>3 DEF OrderInv, SingleInv
  <2>6. LogLines(hands') = LogLines(hands)
    BY <2>2, <2>3 DEF LogLines
  <2>7. QueueInv'
    BY <1>1, <1>3, <2>2, <2>6 DEF OrderInv, QueueInv
  <2> QED
    BY <2>4, <2>5, <2>7 DEF OrderInv
<1>7. CASE UNCHANGED <<channel, hands>>
  BY <1>1, <1>3, <1>7, OrderFrame
<1> QED
  BY <1>2, <1>4, <1>5, <1>6, <1>7

(* The only waiter takes the oldest message; no other is on its way.       *)
LEMMA OrderReceive ==
  ASSUME IInv, OrderInv, Receive
  PROVE  OrderInv'
<1> DEFINE h == Head(channel)
<1>1. /\ waiting > 0 /\ waiting' = waiting - 1 /\ waiting \in Nat
      /\ channel # <<>> /\ channel' = Tail(channel) /\ hands' = hands \cup {h}
      /\ UNCHANGED <<shown, sent, pc>> /\ channel \in Seq(Message)
  BY DEF Receive, IInv, TypeOK, panel
<1>2. /\ Len(channel') = Len(channel) - 1 /\ Len(channel) \in Nat \ {0}
      /\ \A i \in 1..Len(channel') : channel'[i] = channel[i + 1] /\ i + 1 \in 1..Len(channel)
      /\ h = channel[1]
  BY <1>1, TakenFrom
<1>3. h.kind \in Resubscribing
  BY <1>2 DEF IInv, ChannelInv
<1> HIDE DEF h
<1>4. NoKeyResult' => NoKeyResult
  BY <1>1 DEF NoKeyResult
<1>5. ResultInv'
  BY <1>1, <1>3 DEF OrderInv, ResultInv, Resubscribing
<1>6. NoKeyResult => waiting = 1 /\ \A m \in hands : m.kind \notin Resubscribing
  BY <1>1 DEF OrderInv, SingleInv
<1>7. SingleInv'
  BY <1>1, <1>3, <1>4, <1>6 DEF SingleInv
<1>8. NoKeyResult => LogLines(hands') \subseteq {h}
  BY <1>1, <1>6 DEF LogLines, Resubscribing
<1>9. ASSUME NoKeyResult
      PROVE  /\ \A m \in LogLines(hands') : \A i \in 1..Len(channel') :
                  channel'[i].kind = "log" => Before(sent, m, channel'[i])
             /\ \A i, j \in 1..Len(channel') :
                  (i < j /\ channel'[i].kind = "log" /\ channel'[j].kind = "log")
                  => Before(sent, channel'[i], channel'[j])
  <2>1. \A i, j \in 1..Len(channel) :
          (i < j /\ channel[i].kind = "log" /\ channel[j].kind = "log")
          => Before(sent, channel[i], channel[j])
    BY <1>9 DEF OrderInv, QueueInv
  <2>2. ASSUME NEW m \in LogLines(hands'), NEW i \in 1..Len(channel'),
               channel'[i].kind = "log"
        PROVE  Before(sent, m, channel'[i])
    <3>1. m = channel[1] /\ m.kind = "log" /\ 1 \in 1..Len(channel)
      BY <1>2, <1>8, <1>9, <2>2 DEF LogLines
    <3>2. channel'[i] = channel[i + 1] /\ i + 1 \in 1..Len(channel) /\ 1 < i + 1
      BY <1>2
    <3> QED
      BY <2>1, <2>2, <3>1, <3>2
  <2>3. ASSUME NEW i \in 1..Len(channel'), NEW j \in 1..Len(channel'),
               i < j, channel'[i].kind = "log", channel'[j].kind = "log"
        PROVE  Before(sent, channel'[i], channel'[j])
    <3>1. /\ channel'[i] = channel[i + 1] /\ i + 1 \in 1..Len(channel)
          /\ channel'[j] = channel[j + 1] /\ j + 1 \in 1..Len(channel) /\ i + 1 < j + 1
      BY <1>2, <2>3
    <3> QED
      BY <2>1, <2>3, <3>1
  <2> QED
    BY <2>2, <2>3
<1>10. QueueInv'
  BY <1>1, <1>4, <1>9 DEF OrderInv, QueueInv
<1> QED
  BY <1>5, <1>7, <1>10 DEF OrderInv

(* The line that reaches the panel is the next of those that were sent: no *)
(* other is on its way, and those in the channel come after it.            *)
LEMMA NextLine ==
  ASSUME IInv, PlacesInv, OrderInv, NoKeyResult, NEW m \in hands, m.kind = "log"
  PROVE  /\ Len(shown) + 1 \in 1..Len(sent)
         /\ sent[Len(shown) + 1] = m
<1>1. /\ channel \in Seq(Message) /\ sent \in Seq(Message) /\ shown \in Seq(Message)
      /\ Len(shown) \in Nat /\ Len(sent) \in Nat
  BY DEF IInv, TypeOK
<1>2. m \in LogLines(hands) /\ m \notin ToSet(shown)
  BY DEF LogLines, PlacesInv, ApartInv
<1>3. PICK p \in 1..Len(sent) : sent[p] = m
  BY <1>1, <1>2, PanelShowsLines, ElementsOf
<1>4. Len(shown) <= Len(sent) /\ \A i \in 1..Len(shown) : shown[i] = sent[i]
  BY DEF OrderInv, QueueInv
<1>5. \A i \in 1..Len(shown) : shown[i] # m
  BY <1>1, <1>2, ElementsOf
<1>6. Len(shown) + 1 \in 1..Len(sent)
  BY <1>1, <1>3, <1>4, <1>5
<1> DEFINE k == Len(shown) + 1
<1>7. k \in 1..Len(sent) /\ k \notin 1..Len(shown) /\ \A i \in 1..k-1 : i \in 1..Len(shown)
  BY <1>1, <1>6
<1> HIDE DEF k
<1>8. sent[k] \in ToSet(sent)
  BY <1>1, <1>7, ElementsOf
<1>9. \A i, j \in 1..Len(sent) : sent[i] = sent[j] => i = j
  BY DEF PlacesInv, OnceInv
<1>10. CASE sent[k] \in ToSet(shown)
  <2>1. PICK i \in 1..Len(shown) : shown[i] = sent[k]
    BY <1>1, <1>10, ElementsOf
  <2>2. sent[i] = sent[k] /\ i \in 1..Len(sent)
    BY <1>1, <1>4, <2>1
  <2> QED
    BY <1>7, <1>9, <2>1, <2>2
<1>11. CASE sent[k] \in LogLines(ToSet(channel))
  <2>1. PICK c \in 1..Len(channel) : channel[c] = sent[k]
    BY <1>1, <1>11, ElementsOf DEF LogLines
  <2>2. Before(sent, m, channel[c])
    BY <1>2, <1>11, <2>1 DEF OrderInv, QueueInv, LogLines
  <2>3. PICK i \in 1..Len(sent), j \in 1..Len(sent) :
          i < j /\ sent[i] = m /\ sent[j] = sent[k]
    BY <2>1, <2>2 DEF Before
  <2>4. j = k
    BY <1>7, <1>9, <2>3
  <2>5. i \in 1..k-1
    BY <1>7, <2>3, <2>4
  <2> QED
    BY <1>4, <1>5, <1>7, <2>3, <2>5
<1>12. CASE sent[k] \in LogLines(hands)
  <2>1. sent[k] \in hands /\ sent[k].kind \in Resubscribing /\ m.kind \in Resubscribing
    BY <1>12 DEF LogLines, Resubscribing
  <2>2. sent[k] = m
    BY <2>1 DEF OrderInv, SingleInv
  <2> QED
    BY <1>6, <2>2 DEF k
<1> QED
  BY <1>8, <1>10, <1>11, <1>12 DEF PlacesInv, EveryLineHasAPlace

LEMMA OrderUpdate ==
  ASSUME IInv, PlacesInv, OrderInv, NEW m, Update(m)
  PROVE  OrderInv'
<1>1. /\ m \in hands /\ hands' = hands \ {m} /\ waiting' = Waiters(m)
      /\ shown' = IF m.kind = "log" THEN Append(shown, m) ELSE shown
      /\ UNCHANGED <<channel, sent>>
  BY DEF Update, appendRuntimeLog, panel
<1>2. m \in Message /\ m.run \in Runs /\ shown \in Seq(Message) /\ waiting \in Nat
  BY <1>1 DEF IInv, TypeOK, Message
<1>3. NoKeyResult' => NoKeyResult
  <2>1. CASE UNCHANGED pc
    BY <2>1 DEF NoKeyResult
  <2>2. CASE m.kind = "publish" /\ Go(m.run, "archive")
    <3>1. m.run \notin KeyPipes
      BY <1>1, <2>2 DEF OrderInv, ResultInv
    <3> QED
      BY <1>2, <2>2, <3>1, KeyResultStays DEF IInv
  <2> QED
    BY <2>1, <2>2 DEF Update
<1>4. ResultInv'
  BY <1>1 DEF OrderInv, ResultInv
<1>5. SingleInv'
  <2> SUFFICES ASSUME NoKeyResult
               PROVE  /\ waiting' <= 1
                      /\ waiting' = 1 => \A a \in hands' : a.kind \notin Resubscribing
                      /\ \A a, b \in hands' :
                           (a.kind \in Resubscribing /\ b.kind \in Resubscribing) => a = b
    BY <1>3 DEF SingleInv
  <2>1. /\ waiting <= 1
        /\ waiting = 1 => \A a \in hands : a.kind \notin Resubscribing
        /\ \A a, b \in hands :
             (a.kind \in Resubscribing /\ b.kind \in Resubscribing) => a = b
    BY DEF OrderInv, SingleInv
  <2>2. CASE m.kind \in Resubscribing
    <3>1. waiting = 0 /\ waiting' = 1
      BY <1>1, <1>2, <2>1, <2>2 DEF Waiters
    <3> QED
      BY <1>1, <2>1, <2>2, <3>1
  <2>3. CASE m.kind \notin Resubscribing
    BY <1>1, <2>1, <2>3 DEF Waiters
  <2> QED
    BY <2>2, <2>3
<1>6. QueueInv'
  <2> SUFFICES ASSUME NoKeyResult
               PROVE  /\ Len(shown') <= Len(sent)
                      /\ \A i \in 1..Len(shown') : shown'[i] = sent[i]
                      /\ \A a \in LogLines(hands') : \A i \in 1..Len(channel) :
                           channel[i].kind = "log" => Before(sent, a, channel[i])
                      /\ \A i, j \in 1..Len(channel) :
                           (i < j /\ channel[i].kind = "log" /\ channel[j].kind = "log")
                           => Before(sent, channel[i], channel[j])
    BY <1>1, <1>3 DEF QueueInv
  <2>1. /\ Len(shown) <= Len(sent)
        /\ \A i \in 1..Len(shown) : shown[i] = sent[i]
        /\ \A a \in LogLines(hands) : \A i \in 1..Len(channel) :
             channel[i].kind = "log" => Before(sent, a, channel[i])
        /\ \A i, j \in 1..Len(channel) :
             (i < j /\ channel[i].kind = "log" /\ channel[j].kind = "log")
             => Before(sent, channel[i], channel[j])
    BY DEF OrderInv, QueueInv
  <2>2. LogLines(hands') \subseteq LogLines(hands)
    BY <1>1 DEF LogLines
  <2>3. Len(shown') <= Len(sent) /\ \A i \in 1..Len(shown') : shown'[i] = sent[i]
    <3>1. CASE m.kind # "log"
      BY <1>1, <2>1, <3>1
    <3>2. CASE m.kind = "log"
      <4>1. Len(shown) + 1 \in 1..Len(sent) /\ sent[Len(shown) + 1] = m
        BY <1>1, <3>2, NextLine
      <4>2. /\ Len(shown') = Len(shown) + 1 /\ Len(shown) \in Nat
            /\ \A i \in 1..Len(shown) : shown'[i] = shown[i]
            /\ shown'[Len(shown) + 1] = m
        BY <1>1, <1>2, <3>2, AppendedTo
      <4>3. Len(sent) \in Nat
        BY DEF IInv, TypeOK
      <4> QED
        BY <2>1, <4>1, <4>2, <4>3
    <3> QED
      BY <3>1, <3>2
  <2> QED
    BY <2>1, <2>2, <2>3
<1> QED
  BY <1>4, <1>5, <1>6 DEF OrderInv

LEMMA NextOrder == IInv /\ PlacesInv /\ OrderInv /\ [Next]_vars => OrderInv'
<1> SUFFICES ASSUME IInv, PlacesInv, OrderInv, [Next]_vars PROVE OrderInv'
  OBVIOUS
<1>1. ASSUME NEW r \in Runs, Handle(r) \/ Press(r) \/ PeriodicSweep(r)
      PROVE  OrderInv'
  <2>1. UNCHANGED <<channel, waiting, hands, shown, sent>> /\ pc[r] = "idle"
    BY <1>1 DEF Handle, Press, PeriodicSweep, loopVars, panel
  <2>2. \E label : Go(r, label)
    BY <1>1 DEF Handle, Press, PeriodicSweep
  <2>3. NoKeyResult' => NoKeyResult
    BY <2>1, <2>2, KeyResultStays DEF IInv
  <2> QED
    BY <2>1, <2>3, OrderFrame
<1>2. ASSUME NEW r \in Runs, SendStatus(r) PROVE OrderInv'
  <2>1. NoKeyResult' => NoKeyResult
    BY <1>2, KeyResultStays DEF SendStatus, IInv
  <2> QED
    BY <1>2, <2>1, MsgType, OrderSendOther DEF SendStatus, panel
<1>3. ASSUME NEW r \in Runs, LogLine(r) \/ Finish(r) PROVE OrderInv'
  BY <1>3, OrderLine, OrderFinish
<1>4. CASE Receive
  BY <1>4, OrderReceive
<1>5. ASSUME NEW r \in Runs, UpdateOf(r) PROVE OrderInv'
  BY <1>5, OrderUpdate DEF UpdateOf
<1>6. CASE Quit \/ UNCHANGED vars
  BY <1>6, OrderFrame DEF Quit, vars, eventVars, loopVars, panel, NoKeyResult
<1>7. CASE Exit
  <2>1. /\ channel' = <<>> /\ waiting' = 0 /\ hands' = {}
        /\ shown' = <<>> /\ sent' = <<>> /\ Len(<<>>) = 0 /\ LogLines({}) = {}
    BY <1>7 DEF Exit, LogLines
  <2>2. ResultInv' /\ SingleInv'
    BY <2>1 DEF ResultInv, SingleInv
  <2>3. QueueInv'
    BY <2>1 DEF QueueInv
  <2> QED
    BY <2>2, <2>3 DEF OrderInv
<1> QED
  BY <1>1, <1>2, <1>3, <1>4, <1>5, <1>6, <1>7 DEF Next, RunStep


-----------------------------------------------------------------------------
(* The variables keep their types, and the channel its bound               *)
(* (default.go:33).                                                        *)
THEOREM TypeCorrect == Spec => []TypeOK
<1>1. IInv => TypeOK
  BY DEF IInv
<1> QED
  BY <1>1, InitIInv, NextIInv, PTL DEF Spec

(* While the interface runs somebody waits for the event channel or will:  *)
(* whatever its capacity and however many runs there are, they are not     *)
(* stuck on a channel nobody reads (background.go:44-55, app.go:190-232).  *)
THEOREM AlwaysAWaiter == Spec => []WaiterIsKept
<1>1. IInv => WaiterIsKept
  BY DEF IInv
<1> QED
  BY <1>1, InitIInv, NextIInv, PTL DEF Spec

(* No sweep takes the log of a session that is going on                    *)
(* (joblog.go:104-139, 259-262).                                           *)
THEOREM SessionLogStays == Spec => []LiveLogIsKept
<1>1. IInv => LiveLogIsKept
  BY DEF IInv
<1> QED
  BY <1>1, InitIInv, NextIInv, PTL DEF Spec

(* Every line that entered the channel is still in it, in a waiter's hands *)
(* or has been handed to the panel, and in one of them only, however many  *)
(* runs write, whatever the room in the channel: none is lost or shown     *)
(* twice. The panel has the newest of its lines, as many as it keeps       *)
(* (logsink.go:22-49, app.go:230-232, 1539-1549).                          *)
THEOREM EveryLineIsSomewhere == Spec => []LinesAreConserved
<1>1. IInv /\ PlacesInv => LinesAreConserved
  BY DEF IInv, PlacesInv, LinesAreConserved
<1>2. Init => PlacesInv
  BY InitPlaces
<1> QED
  BY <1>1, <1>2, InitIInv, NextIInv, NextPlaces, PTL DEF Spec

(* Until the result of a run that a key started brings a second waiter the *)
(* panel has been handed the first lines that were sent, in their order    *)
(* (background.go:44-55, app.go:190-199, 230-232).                         *)
THEOREM PanelKeepsTheOrder == Spec => []LinesAreInOrder
<1>1. IInv /\ OrderInv => LinesAreInOrder
  <2> SUFFICES ASSUME IInv, OrderInv, NoKeyResult PROVE IsPrefix(shown, sent)
    BY DEF LinesAreInOrder
  <2>1. /\ shown \in Seq(Message) /\ sent \in Seq(Message)
        /\ Len(shown) <= Len(sent) /\ \A i \in 1..Len(shown) : shown[i] = sent[i]
    BY DEF IInv, TypeOK, OrderInv, QueueInv
  <2>2. SubSeq(shown, 1, Len(shown)) = SubSeq(sent, 1, Len(shown))
    BY <2>1
  <2> QED
    BY <2>1, <2>2 DEF IsPrefix
<1>2. Init => PlacesInv /\ OrderInv
  BY InitPlaces
<1> QED
  BY <1>1, <1>2, InitIInv, NextIInv, NextPlaces, NextOrder, PTL DEF Spec

=============================================================================
