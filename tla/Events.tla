------------------------------- MODULE Events -------------------------------
(***************************************************************************)
(* The interface as a program: the goroutines of its runs, the bounded     *)
(* channel between them and the event loop, and the job log of the session *)
(* (cmd/ppw/default.go; internal/tui background.go, logsink.go, app.go).   *)
(*                                                                         *)
(* A log line of a run goes into the channel, where the writer waits for   *)
(* room, and from there into the log files. The handler of the watcher also  *)
(* sends its status and its result through the channel; a run that a key   *)
(* started returns its result to the event loop. A waiter takes one        *)
(* message from the channel and hands it to the loop, which starts the     *)
(* next waiter when it handles the message. What a run does to its post is *)
(* in Pipeline, Publisher and Archiver.                                    *)
(* Faults names what may happen besides:                                   *)
(*   "kill" - the process dies                                             *)
(*   "disk" - the directory of the logs cannot be read or changed          *)
(***************************************************************************)
EXTENDS JobLog, Naturals, FiniteSets, SequencesExt

CONSTANTS
  Handlers,    \* pipeline runs of the watcher
  KeyPipes,    \* pipeline runs a key starts
  Publishes,   \* publish runs a key starts, and the archive runs after them
  Sweepers,    \* rounds of the periodic sweep
  Tui,         \* the job that is the session of the interface
  Cap,         \* capacity of the channel
  PanelLines,  \* lines the panel keeps (500)
  MaxLines,    \* bound: log lines of all runs
  Faults

Runs == Handlers \cup KeyPipes \cup Publishes \cup Sweepers

ASSUME EventsAssumption ==
  /\ Handlers \cap (KeyPipes \cup Publishes \cup Sweepers) = {}
  /\ KeyPipes \cap (Publishes \cup Sweepers) = {}
  /\ Publishes \cap Sweepers = {}
  /\ Tui \in Jobs
  /\ Cap \in Nat \ {0} /\ PanelLines \in Nat \ {0}
  /\ MaxLines \in Nat
  /\ Faults \subseteq {"kill", "disk"}

Message == [kind : {"log", "status", "pipeline", "publish", "archive"},
            run : Runs, n : 0..MaxLines]

Msg(kind, r, n) == [kind |-> kind, run |-> r, n |-> n]

(* After these Update waits for the next message of the channel.           *)
Resubscribing == {"log", "status", "pipeline"}

VARIABLES
  channel,   \* messages in the event channel, oldest first
  waiting,   \* goroutines that wait for a message of the channel
  hands,     \* messages on their way to the event loop
  pc, line,  \* next step and lines logged of each run
  screen,    \* log lines of the panel, oldest first
  program,   \* the main goroutine
  sent,      \* history: log lines in the order they entered the channel
  shown      \* history: log lines in the order the panel was handed them

panel == <<screen, shown>>
loopVars == <<channel, waiting, hands, panel, program, sent>>
eventVars == <<loopVars, pc, line>>
vars == <<eventVars, log>>

(* A log an earlier command left: finished, or active for ever.            *)
Init ==
  /\ channel = <<>> /\ waiting = 1 /\ hands = {}
  /\ pc = [r \in Runs |-> "idle"]
  /\ line = [r \in Runs |-> 0]
  /\ screen = <<>> /\ sent = <<>> /\ shown = <<>>
  /\ program = "running"
  /\ log \in [Jobs -> {"active"} \cup Outcomes] /\ log[Tui] = "active"

Alive == program \in {"running", "left"}

Go(r, label) == pc' = [pc EXCEPT ![r] = label]

(* Mutant of Send: a channel that grows.                                   *)
SendAnyway(m) == channel' = Append(channel, m)

(* Room in the channel, at the end of the wait for it.                     *)
Send(m) ==
  /\ Len(channel) < Cap
  /\ channel' = Append(channel, m)

-----------------------------------------------------------------------------
(* Runs.                                                                   *)

(* The debounce of the watcher is over: its handler runs.                  *)
Handle(r) ==
  /\ Alive /\ r \in Handlers /\ pc[r] = "idle"
  /\ Go(r, "status")
  /\ UNCHANGED <<loopVars, line, log>>

(* A key starts a run.                                                     *)
Press(r) ==
  /\ program = "running"
  /\ r \in KeyPipes \cup Publishes /\ pc[r] = "idle"
  /\ \/ Go(r, "work")
     \/ r \in Publishes /\ Go(r, "archive")
  /\ UNCHANGED <<loopVars, line, log>>

(* The ticker fires; a sweep that removed something, or failed, says so.   *)
PeriodicSweep(r) ==
  /\ Alive /\ r \in Sweepers /\ pc[r] = "idle"
  /\ Sweep
  /\ Go(r, IF log' # log \/ "disk" \in Faults THEN "work" ELSE "over")
  /\ UNCHANGED <<loopVars, line>>

SendStatus(r) ==
  /\ Alive /\ pc[r] = "status"
  /\ Send(Msg("status", r, 0))
  /\ Go(r, "work")
  /\ UNCHANGED <<waiting, hands, panel, program, sent, line, log>>

(* Mutant of LogLine: a line is dropped when the channel is full.          *)
LogLineOrDrop(r) ==
  LET m == Msg("log", r, line[r] + 1) IN
  /\ Alive /\ pc[r] \in {"work", "archive"} /\ Len(sent) < MaxLines
  /\ channel' = IF Len(channel) < Cap THEN Append(channel, m) ELSE channel
  /\ sent' = Append(sent, m)
  /\ line' = [line EXCEPT ![r] = @ + 1]
  /\ UNCHANGED <<waiting, hands, panel, program, pc, log>>

LogLine(r) ==
  LET m == Msg("log", r, line[r] + 1) IN
  /\ Alive /\ pc[r] \in {"work", "archive"} /\ Len(sent) < MaxLines
  /\ Send(m)
  /\ sent' = Append(sent, m)
  /\ line' = [line EXCEPT ![r] = @ + 1]
  /\ UNCHANGED <<waiting, hands, panel, program, pc, log>>

Return(r, kind) ==
  /\ hands' = hands \cup {Msg(kind, r, 0)}
  /\ UNCHANGED channel

(* The work is done, after so many lines as there were.                    *)
Finish(r) ==
  /\ Alive /\ pc[r] \in {"work", "archive"}
  /\ CASE r \in Handlers  -> Send(Msg("pipeline", r, 0)) /\ UNCHANGED hands
       [] r \in KeyPipes  -> Return(r, "pipeline")
       [] r \in Publishes -> Return(r, IF pc[r] = "work" THEN "publish" ELSE "archive")
       [] r \in Sweepers  -> UNCHANGED <<channel, hands>>
  /\ Go(r, "over")
  /\ UNCHANGED <<waiting, panel, program, sent, line, log>>

-----------------------------------------------------------------------------
(* The event loop.                                                         *)

(* waitForWatcher                                                          *)
Receive ==
  /\ Alive /\ waiting > 0 /\ channel # <<>>
  /\ waiting' = waiting - 1
  /\ channel' = Tail(channel)
  /\ hands' = hands \cup {Head(channel)}
  /\ UNCHANGED <<panel, program, sent, pc, line, log>>

(* Mutant of Waiters: nobody waits again after a log line.                 *)
WaitersAfterResults(m) ==
  IF m.kind \in {"status", "pipeline"} THEN waiting + 1 ELSE waiting

(* Mutant of Waiters: nobody waits again after a pipeline run.             *)
WaitersAfterLines(m) ==
  IF m.kind \in {"status", "log"} THEN waiting + 1 ELSE waiting

(* Mutant of Waiters: somebody waits again after every result.             *)
WaitersAfterAnyMessage(m) == waiting + 1

Waiters(m) == IF m.kind \in Resubscribing THEN waiting + 1 ELSE waiting

(* The panel keeps its newest lines. Blank ones, which it skips, are left  *)
(* out: the loggers begin every message with the time.                     *)
Newest(lines) ==
  IF Len(lines) > PanelLines
    THEN SubSeq(lines, Len(lines) - PanelLines + 1, Len(lines))
    ELSE lines

appendRuntimeLog(m) ==
  /\ screen' = Newest(Append(screen, m))
  /\ shown' = Append(shown, m)

(* A publish that succeeded starts an archive run.                         *)
Update(m) ==
  /\ program = "running" /\ m \in hands
  /\ hands' = hands \ {m}
  /\ IF m.kind = "log" THEN appendRuntimeLog(m) ELSE UNCHANGED panel
  /\ waiting' = Waiters(m)
  /\ \/ UNCHANGED pc
     \/ m.kind = "publish" /\ Go(m.run, "archive")
  /\ UNCHANGED <<channel, program, sent, line, log>>

UpdateOf(r) == \E m \in hands : m.run = r /\ Update(m)

Quit ==
  /\ program = "running"
  /\ program' = "left"
  /\ UNCHANGED <<channel, waiting, hands, panel, sent, pc, line, log>>

(* The log is finished, well or, after an error, badly; then the process   *)
(* ends, and what is in its memory with it. It may end without that.       *)
Exit ==
  /\ Alive
  /\ program' = "gone"
  /\ \/ program = "left" /\ \E success \in BOOLEAN : Close(Tui, success)
     \/ program = "left" /\ "disk" \in Faults /\ UNCHANGED log
     \/ "kill" \in Faults /\ UNCHANGED log
  /\ channel' = <<>> /\ waiting' = 0 /\ hands' = {}
  /\ screen' = <<>> /\ sent' = <<>> /\ shown' = <<>>
  /\ pc' = [r \in Runs |-> "over"] /\ line' = [r \in Runs |-> 0]

-----------------------------------------------------------------------------
RunStep(r) == SendStatus(r) \/ LogLine(r) \/ Finish(r)

Next ==
  \/ \E r \in Runs : Handle(r) \/ Press(r) \/ PeriodicSweep(r) \/ RunStep(r)
  \/ Receive \/ \E r \in Runs : UpdateOf(r)
  \/ Quit \/ Exit

Spec == Init /\ [][Next]_vars

Progress == Receive \/ \E r \in Runs : RunStep(r) \/ UpdateOf(r)

(* As long as a goroutine of the program can go on, one of them does.      *)
FairSpec == Spec /\ WF_vars(Progress)

-----------------------------------------------------------------------------
(* Every variable has its type, and the channel its bound (default.go:33). *)
TypeOK ==
  /\ channel \in Seq(Message) /\ Len(channel) <= Cap
  /\ waiting \in Nat
  /\ hands \subseteq Message
  /\ pc \in [Runs -> {"idle", "status", "work", "archive", "over"}]
  /\ line \in [Runs -> 0..MaxLines]
  /\ screen \in Seq(Message) /\ shown \in Seq(Message) /\ sent \in Seq(Message)
  /\ program \in {"running", "left", "gone"}
  /\ log \in [Jobs -> Names]

(* As long as the interface runs somebody waits for the channel, or holds  *)
(* a message after which somebody will: the runs can never all be blocked  *)
(* on a channel that nobody reads (background.go:44-55, app.go:190-232).   *)
WaiterIsKept ==
  program = "running" => waiting > 0 \/ \E m \in hands : m.kind \in Resubscribing

LogLines(S) == {m \in S : m.kind = "log"}

EveryLineHasAPlace ==
  /\ ToSet(sent) = LogLines(ToSet(channel)) \cup LogLines(hands) \cup ToSet(shown)
  /\ Len(sent) = Len(shown) + Cardinality(LogLines(hands))
                 + Cardinality(LogLines(ToSet(channel)))

PanelHasTheNewest == screen = Newest(shown)

(* A line that entered the channel is in the channel, in a pair of hands   *)
(* or has been handed to the panel, in one place and once: none is dropped *)
(* when the channel is full and none is shown twice. The panel has the     *)
(* newest of those it was handed, as many as it keeps (logsink.go:22-49,   *)
(* app.go:230-232, 1539-1549).                                             *)
LinesAreConserved == EveryLineHasAPlace /\ PanelHasTheNewest

NoKeyResult == \A r \in KeyPipes : pc[r] # "over"

(* The panel gets the lines in the order in which they were logged, until  *)
(* a pipeline run that a key started ends: its result starts one waiter    *)
(* too many (app.go:190-199), and two waiters may overtake each other.     *)
LinesAreInOrder == NoKeyResult => IsPrefix(shown, sent)

(* The log of the session keeps its active name, out of the reach of every *)
(* sweep, its own included, until the interface has ended (joblog.go:104). *)
LiveLogIsKept == Alive => log[Tui] = "active"

(* The run is over and the event loop has handled what it had to say.      *)
Heard(r) ==
  pc[r] = "over" /\ \A m \in hands \cup ToSet(channel) : m.run # r

(* Again and again the panel has been handed every line and the result of  *)
(* every run handled, unless the interface is left: no run waits for ever   *)
(* for room in the channel (logsink.go:41-45, background.go:21-30).        *)
EverythingArrives ==
  []<>(program = "running" =>
         /\ Len(shown) = Len(sent)
         /\ \A r \in Runs : pc[r] = "idle" \/ Heard(r))

=============================================================================
