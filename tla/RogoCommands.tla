----------------------------- MODULE RogoCommands -----------------------------
(***************************************************************************)
(* What rogo's commands do with a Session, and what they tell their user.  *)
(* Terminals run the command line and repl (cli.py, repl.py, calibrate.py),*)
(* servers the MCP tools (mcp_server.py); all of them share the one        *)
(* Session of a daemon, whose worker serves one call at a time.  A client  *)
(* by itself is also what a direct connection is.                          *)
(*                                                                         *)
(* A command is a script of steps, one per call of Session.  The link      *)
(* loses nothing and answers within any one pump() (losses are the subject *)
(* of ReliableLink), so a wait runs out only when nothing is under way, or *)
(* when another client's wait delayed it.  Resends are left out: on such a *)
(* link a nack only ever follows a line no resend can mend.                *)
(***************************************************************************)
EXTENDS MotionAdapter, HostModels, SequencesExt

CONSTANTS Terminals, Servers,       \* the clients
          TerminalCommands, ServerTools,  \* what they run
          AdapterKinds,             \* "sim": FakeMotionAdapter, "kernel": DiffDriveAdapter
          Trials,                   \* bound: --trials of the calibrations
          MaxCommands, MaxTools,    \* bounds: commands of a terminal, tools of a server
          MaxStream,                \* bound: the last id a stream sends
          LinkMayClose,             \* the connection to the robot may be lost
          Nobody

Clients == Terminals \cup Servers

\* The subcommands of rogo, and the tools of its MCP server.
CommandNames ==
  {"hello", "stop", "estop", "drive_ms", "drive_negative", "drive_mm", "stream", "turn",
   "goto", "config_get", "config_set", "calibrate_turns", "calibrate_distance"}
ToolNames ==
  {"hello", "stop", "drive", "turn", "goto", "config_get", "config_set", "calibrate_turns"}

ASSUME CommandsAssumption ==
  /\ AdapterKinds \subseteq {"sim", "kernel"} /\ Nobody \notin Clients /\ None \notin Clients
  /\ Terminals \cap Servers = {} /\ LinkMayClose \in BOOLEAN
  /\ TerminalCommands \subseteq CommandNames /\ ServerTools \subseteq ToolNames
  /\ Trials \in Nat /\ MaxCommands \in Nat /\ MaxTools \in Nat /\ MaxStream \in Nat

VARIABLES
  adapter,        \* which adapter the robot has
  latched,        \* the kernel's estop latch
  expectedNext,   \* ProtocolHandler::expectedNext_
  toRobot, toHost, linkUp,
  nextId, acked, hostDone,    \* Session's _next_id, _highest_acked, _last_done
  held,           \* the client whose blocking wait the worker is in
  command, todo,  \* each client's command and the steps it has left
  id,             \* seq_id: what its last send() returned
  seen,           \* the replies its pumps collected
  report,         \* what its last command told the user
  abandoned,      \* the calls it gave up on that the worker has yet to serve
  file, config, samples,      \* the robot's file; a client's copy and its trials
  contents,       \* what a client's save read of the file
  writing,        \* the clients whose save has opened the file for writing
  log,            \* history: what the robot executed, by id
  spoiled,        \* history: why the robot can no longer accept a line
  alone,          \* history: no other client was served during the command
  delayed, aborted,           \* history: another's wait, an estop, got in the way
  raced,          \* history: another's save overlapped the client's
  saved, mislaid, \* history: each field as last saved; what a save may have undone
  issued          \* the commands each client has begun

robotVars   == <<adapter, latched, expectedNext, log, spoiled, adapterVars>>
wireVars    == <<toRobot, toHost, linkUp>>
sessionVars == <<nextId, acked, hostDone>>
scriptVars  == <<command, todo, report>>
clientVars  == <<id, seen, abandoned, issued>>
saveVars    == <<contents, writing, raced, saved, mislaid>>
fileVars    == <<file, config, samples, saveVars>>
ghostVars   == <<alone, delayed, aborted>>
rogoVars == <<robotVars, wireVars, sessionVars, held, scriptVars, clientVars,
              fileVars, ghostVars>>

(***************************************************************************)
(* Scripts                                                                 *)
(***************************************************************************)

\* What to do, with what, and what its two outcomes come to: "go" on, "skip"
\* the next step, or the report the command ends with.
Step(do, what, yes, no) == [do |-> do, what |-> what, yes |-> yes, no |-> no]

\* robot_v6.motion
Send(verb)  == Step("send", verb, "go", "go")
WheelsX     == Send("WHEELS_X")
WheelsV     == Send("WHEELS_V")
GoToR       == Send("GO_TO_R")
StopVerb    == Send("STOP")
GetField    == Send("GET")
SetField    == Send("SET")
EstopVerb   == Step("say", "ESTOP", "go", "go")

\* Mutant of AwaitAckAndErr: no grace pump after the ack.
AwaitAckAndErrAtOnce(rejected, accepted) ==
  <<Step("pumpUntil", "ack", accepted, "unacked")>>

\* _await_ack_and_err(), and what its caller makes of a rejection.
AwaitAckAndErr(rejected, accepted) ==
  <<Step("pumpUntil", "ack", "go", "unacked"), Step("pump", "err", rejected, accepted)>>

\* _await_ack_and_get_lines()
AwaitAckAndGetLines ==
  <<Step("pumpUntil", "ack", "go", "unacked"), Step("drain", "get", "fields", "noFields")>>

\* _print_soft_warning(): a rejected motion is a warning, and exit 0;
\* _print_config_set_error(): a rejected SET is an error, and exit 1.
SoftWarning == "warned"
ConfigSetError == "refused"

\* The rest of every motion command: _report_motion_outcome() in mcp_server.py,
\* the same lines written out in each of cli.py's four.
AwaitCompletion ==
  AwaitAckAndErr(SoftWarning, "go") \o <<Step("wait", "done", "done", "late")>>

RunHello == <<Step("say", "HELLO", "go", "go"),
              Step("pumpUntil", "device", "banner", "silent")>>
RunStop  == <<StopVerb, Step("wait", "ack", "stopped", "unacked")>>
RunEstop == <<EstopVerb, Step("pumpUntil", "estop", "confirmed", "unconfirmed")>>
CmdDriveMs == <<WheelsV>> \o AwaitCompletion
CmdDriveMm == <<WheelsX>> \o AwaitCompletion

\* drive --ms with a negative number: nothing validates it, and the robot
\* cannot decode a duration with a sign.
CmdDriveNegative == <<Send("UNDECODABLE")>> \o Tail(CmdDriveMs)

\* Send, drain, sleep, until Ctrl-C; then STOP.
CmdDriveStream == <<Step("stream", "WHEELS_V", "go", "go"),
                    Step("pace", "any", "go", "go")>> \o RunStop

PrepareTurn == Step("load", "trackwidth", "go", "noConfig")
RunTurn == <<PrepareTurn, WheelsV>> \o AwaitCompletion
RunGoto == <<GoToR>> \o AwaitCompletion
RunConfigGet == <<GetField>> \o AwaitAckAndGetLines
RunConfigSet == <<SetField>> \o AwaitAckAndErr(ConfigSetError, "set")

\* One turn of _run_interactive_trials(): the measurement is asked for whether
\* or not the trial was acknowledged or ended.
InteractiveTrial ==
  <<Step("ask", "start", "go", "go"), WheelsV,
    Step("wait", "ack", "go", "skip"), Step("wait", "done", "go", "go"),
    Step("ask", "measure", "go", "go")>>
ReportAndSave(field) == <<Step("save", field, "saved", "declined")>>

RunInteractiveTrials ==
  LET steps == Len(InteractiveTrial)
  IN  [k \in 1..(Trials * steps) |-> InteractiveTrial[1 + ((k - 1) % steps)]]

\* The configuration is read before anything is sent; only turns need the
\* trackwidth.
Calibrate(needs, field) ==
  <<Step("load", needs, "go", "noConfig")>> \o RunInteractiveTrials \o ReportAndSave(field)
CalibrateTurns    == Calibrate("trackwidth", "slip")
CalibrateDistance == Calibrate("config", "scale")

\* The subcommands of rogo.
Commands ==
  [hello |-> RunHello, stop |-> RunStop, estop |-> RunEstop,
   drive_ms |-> CmdDriveMs, drive_negative |-> CmdDriveNegative,
   drive_mm |-> CmdDriveMm, stream |-> CmdDriveStream,
   turn |-> RunTurn, goto |-> RunGoto,
   config_get |-> RunConfigGet, config_set |-> RunConfigSet,
   calibrate_turns |-> CalibrateTurns, calibrate_distance |-> CalibrateDistance]

ToolHello == <<Step("say", "HELLO", "go", "go"),
               Step("pumpUntil", "device", "banner", "silent")>>
ToolStop  == <<StopVerb, Step("wait", "ack", "stopped", "unacked")>>
ToolDrive == <<WheelsV>> \o AwaitCompletion
ToolTurn  == <<PrepareTurn, WheelsV>> \o AwaitCompletion
ToolGoto  == <<GoToR>> \o AwaitCompletion
ToolConfigGet == <<GetField>> \o AwaitAckAndGetLines
ToolConfigSet == <<SetField>> \o AwaitAckAndErr(ConfigSetError, "set")

\* It drives nothing: the measurements are its argument.
ToolCalibrateTurns ==
  <<Step("load", "config", "go", "noConfig"), Step("ask", "given", "go", "go")>>
    \o ReportAndSave("slip")

\* build_server()
Tools ==
  [hello |-> ToolHello, stop |-> ToolStop, drive |-> ToolDrive, turn |-> ToolTurn,
   goto |-> ToolGoto, config_get |-> ToolConfigGet, config_set |-> ToolConfigSet,
   calibrate_turns |-> ToolCalibrateTurns]

ScriptOf(c, name) == IF c \in Servers THEN Tools[name] ELSE Commands[name]

Offered(c) == IF c \in Servers THEN ServerTools ELSE TerminalCommands

(***************************************************************************)
(* The robot                                                               *)
(***************************************************************************)

Motions == {"WHEELS_V", "WHEELS_X", "GO_TO_R"}
Line(verb, n, c) == [verb |-> verb, id |-> n, by |-> c]
\* by is a history of whose command a reply is about.
Reply(kind, n, done, c) == [kind |-> kind, n |-> n, done |-> done, by |-> c]
Answer(replies) == toHost' = toHost \o replies
Quiet == toRobot = << >> /\ toHost = << >>

\* The calibrations the robot's file has at first.
Measured == [f \in Fields |-> IF f = "slip" THEN "measured" ELSE None]

RogoInit ==
  /\ AdapterInit /\ adapter \in AdapterKinds /\ latched = FALSE
  /\ expectedNext = 1 /\ log = << >> /\ spoiled = {}
  /\ toRobot = << >> /\ toHost = << >> /\ linkUp = TRUE
  /\ nextId = 1 /\ acked = 0 /\ hostDone = 0 /\ held = Nobody
  /\ command = [c \in Clients |-> "none"] /\ todo = [c \in Clients |-> << >>]
  /\ report = [c \in Clients |-> "none"]
  /\ id = [c \in Clients |-> 0] /\ seen = [c \in Clients |-> {}]
  /\ abandoned = [c \in Clients |-> << >>] /\ issued = [c \in Clients |-> 0]
  /\ file = [calibration |-> [f \in Fields |-> None], geometry |-> Measured, others |-> TRUE]
  /\ config = [c \in Clients |-> [f \in Fields |-> None]]
  /\ samples = [c \in Clients |-> 0]
  /\ contents = [c \in Clients |-> None] /\ writing = {}
  /\ raced = [c \in Clients |-> FALSE] /\ saved = Measured /\ mislaid = {}
  /\ alone = [c \in Clients |-> TRUE]
  /\ delayed = [c \in Clients |-> FALSE] /\ aborted = [c \in Clients |-> FALSE]

\* ESTOP: the sim ends and drains its motions, the kernel latches.
TakesEstop(line) ==
  /\ line.verb = "ESTOP"
  /\ IF adapter = "sim" THEN EndAllMotion("estop") /\ UNCHANGED latched
                        ELSE latched' = TRUE /\ UNCHANGED adapterVars
  /\ Answer(<<Reply("estop", 0, 0, Nobody)>>)
  /\ UNCHANGED <<expectedNext, log, spoiled>>

\* HELLO starts the sequence again, under a Session that goes on counting.
TakesHello(line) ==
  /\ line.verb = "HELLO"
  /\ expectedNext' = 1
  /\ spoiled' = IF nextId > 1 THEN spoiled \cup {"hello"} ELSE spoiled
  /\ Answer(<<Reply("device", 0, 0, Nobody)>>)
  /\ UNCHANGED <<latched, log, adapterVars>>

TakesGap(line) ==
  /\ line.id > expectedNext
  /\ Answer(<<Reply("nack", expectedNext, lastDone, line.by)>>)
  /\ UNCHANGED <<latched, expectedNext, log, spoiled, adapterVars>>

TakesUndecodable(line) ==
  /\ line.verb = "UNDECODABLE" /\ line.id = expectedNext
  /\ spoiled' = spoiled \cup {"undecodable"}
  /\ Answer(<<Reply("nack", expectedNext, lastDone, line.by),
              Reply("err", line.id, 0, line.by)>>)
  /\ UNCHANGED <<latched, expectedNext, log, adapterVars>>

\* The ack goes out before the verb is executed, what the verb writes after it.
Executes(line, verdict, more) ==
  /\ expectedNext' = line.id + 1
  /\ log' = Append(log, [verb |-> line.verb, by |-> line.by, verdict |-> verdict])
  /\ Answer(<<Reply("ack", line.id, lastDone, line.by)>> \o more)
  /\ UNCHANGED spoiled

Err(line) == <<Reply("err", line.id, 0, line.by)>>

\* acceptMotion(), for whatever motion verb.
SimMoves(line) ==
  /\ adapter = "sim" /\ line.verb \in Motions
  /\ IF QueueFull
       THEN UNCHANGED adapterVars /\ Executes(line, "rejected", Err(line))
       ELSE AcceptMotion(line.id) /\ Executes(line, IF active = 0 THEN "runs" ELSE "queued", << >>)
  /\ UNCHANGED latched

\* Only WHEELS_V moves the kernel, which refuses it while the estop latch is set
\* and for longer than 5000 ms.  There is no completion to tell of.
KernelMoves(line) ==
  /\ adapter = "kernel" /\ line.verb \in Motions
  /\ \/ line.verb = "WHEELS_V" /\ ~latched /\ Executes(line, "runs", << >>)
     \/ Executes(line, "rejected", Err(line))
  /\ UNCHANGED <<latched, adapterVars>>

RobotStops(line) ==
  /\ line.verb = "STOP"
  /\ IF adapter = "sim" THEN EndAllMotion("stop") ELSE UNCHANGED adapterVars
  /\ Executes(line, "ok", << >>)
  /\ UNCHANGED latched

\* The kernel has a field table, which may lack the name asked for; the sim has
\* none.
RobotConfigures(line) ==
  /\ line.verb \in {"GET", "SET"}
  /\ \/ /\ adapter = "kernel"
        /\ Executes(line, "ok", IF line.verb = "GET"
                                  THEN <<Reply("get", 0, 0, line.by)>> ELSE << >>)
     \/ line.verb = "GET" /\ Executes(line, "nothing", << >>)
     \/ line.verb = "SET" /\ Executes(line, "rejected", Err(line))
  /\ UNCHANGED <<latched, adapterVars>>

RobotTellsStatus(line) ==
  /\ line.verb = "STATUS"
  /\ Executes(line, "ok", << >>)
  /\ UNCHANGED <<latched, adapterVars>>

TakesNext(line) ==
  /\ line.id = expectedNext
  /\ \/ SimMoves(line) \/ KernelMoves(line) \/ RobotStops(line)
     \/ RobotConfigures(line) \/ RobotTellsStatus(line)

RobotTakes ==
  /\ toRobot # << >> /\ toRobot' = Tail(toRobot)
  /\ LET line == Head(toRobot)
     IN  \/ TakesEstop(line) \/ TakesHello(line) \/ TakesGap(line)
         \/ TakesUndecodable(line) \/ TakesNext(line)
  /\ UNCHANGED <<adapter, linkUp, sessionVars, held, scriptVars, clientVars, fileVars, ghostVars>>

RobotFinishes ==
  /\ MotionCompletes
  /\ UNCHANGED <<adapter, latched, expectedNext, log, spoiled, wireVars, sessionVars,
                 held, scriptVars, clientVars, fileVars, ghostVars>>

LinkCloses ==
  /\ LinkMayClose /\ linkUp
  /\ linkUp' = FALSE /\ toRobot' = << >> /\ toHost' = << >>
  /\ UNCHANGED <<robotVars, sessionVars, held, scriptVars, clientVars, fileVars, ghostVars>>

(***************************************************************************)
(* Calls of Session                                                        *)
(***************************************************************************)

\* Session.send() on behalf of c.
Assign(verb, c) ==
  /\ nextId' = nextId + 1
  /\ toRobot' = Append(toRobot, Line(verb, nextId, c))
  /\ UNCHANGED <<acked, hostDone, toHost>>

\* pump() reads what has arrived: some replies, or nothing once all is quiet.
Chunks == IF toHost # << >> THEN 1..Len(toHost) ELSE IF Quiet THEN {0} ELSE {}

\* _handle_reply(), for the first k replies: the highest ack is kept, and the
\* latest done, of an ack or a nack.
Handles(k) ==
  LET acks == {toHost[i].n : i \in {j \in 1..k : toHost[j].kind = "ack"}}
      tells(i) == toHost[i].kind \in {"ack", "nack"}
  IN  /\ acked' \in {acked} \cup acks /\ \A n \in {acked} \cup acks : n <= acked'
      /\ \/ (\A i \in 1..k : ~tells(i)) /\ UNCHANGED hostDone
         \/ \E i \in 1..k :
              tells(i) /\ (\A j \in (i + 1)..k : ~tells(j)) /\ hostDone' = toHost[i].done

\* Mutant of Consume: only the first reply of a chunk is handled.
ConsumeFirst(k) ==
  /\ Handles(Least(k, 1)) /\ toHost' = SubSeq(toHost, k + 1, Len(toHost))
  /\ UNCHANGED <<nextId, toRobot>>

Consume(k) ==
  /\ Handles(k) /\ toHost' = SubSeq(toHost, k + 1, Len(toHost))
  /\ UNCHANGED <<nextId, toRobot>>

\* The replies a command looks at: its own err, and whatever has no id.
Noticed(k, c) ==
  {toHost[i].kind : i \in {j \in 1..k :
     \/ toHost[j].kind \in {"device", "estop", "get"}
     \/ toHost[j].kind = "err" /\ toHost[j].n = id[c]}}

(***************************************************************************)
(* A client's steps                                                        *)
(***************************************************************************)

Idle(c) == command[c] = "none"
Now(c) == Head(todo[c])

\* Nothing the client gave up on is served before its next call: a connection's
\* calls, and the connections' arrivals, are served in order, an ESTOP at once.
InTurn(c) == abandoned[c] = << >> \/ Now(c).what = "ESTOP"

\* The worker is free and c's call is what it serves.
Serves(c, do) ==
  /\ ~Idle(c) /\ Now(c).do = do /\ InTurn(c) /\ linkUp /\ held = Nobody

\* Commands go on, or end with a report; result has the outcome of each.
Moves(result) ==
  LET ended == {c \in DOMAIN result : result[c] \notin {"go", "skip"}}
  IN  /\ todo' = [c \in Clients |->
                    IF c \notin DOMAIN result THEN todo[c]
                    ELSE IF c \in ended THEN << >>
                    ELSE IF result[c] = "go" THEN Tail(todo[c]) ELSE Tail(Tail(todo[c]))]
      /\ command' = [c \in Clients |-> IF c \in ended THEN "none" ELSE command[c]]
      /\ report' = [c \in Clients |-> IF c \in ended THEN result[c] ELSE report[c]]

Proceed(c, outcome) == Moves([d \in {c} |-> outcome])

Stay == UNCHANGED scriptVars

\* The commands of the others are no longer alone.
Intrudes(c) ==
  /\ alone' = [d \in Clients |-> alone[d] /\ (d = c \/ Idle(d))]
  /\ UNCHANGED <<delayed, aborted>>

Limit(c) == IF c \in Servers THEN MaxTools ELSE MaxCommands

\* Calls given up on may still be queued: a server's tool that raised is followed
\* by the next one, a terminal's process by another.
Begin(c, name) ==
  /\ Idle(c) /\ issued[c] < Limit(c) /\ name \in Offered(c)
  /\ issued' = [issued EXCEPT ![c] = @ + 1]
  /\ command' = [command EXCEPT ![c] = name]
  /\ todo' = [todo EXCEPT ![c] = ScriptOf(c, name)]
  /\ report' = [report EXCEPT ![c] = "none"]
  /\ id' = [id EXCEPT ![c] = 0] /\ seen' = [seen EXCEPT ![c] = {}]
  /\ samples' = [samples EXCEPT ![c] = 0]
  /\ alone' = [alone EXCEPT ![c] = Quiet /\ held = Nobody /\ \A d \in Clients : abandoned[d] = << >>]
  /\ delayed' = [delayed EXCEPT ![c] = held # Nobody]
  /\ aborted' = [aborted EXCEPT ![c] = FALSE]
  /\ UNCHANGED <<robotVars, wireVars, sessionVars, held, abandoned, file, config, saveVars>>

DoesSend(c) ==
  /\ Serves(c, "send") /\ Assign(Now(c).what, c)
  /\ id' = [id EXCEPT ![c] = nextId]
  /\ Proceed(c, "go") /\ Intrudes(c)
  /\ UNCHANGED <<robotVars, linkUp, held, seen, abandoned, issued, fileVars>>

DoesSay(c) ==
  /\ Serves(c, "say")
  /\ toRobot' = Append(toRobot, Line(Now(c).what, 0, c))
  /\ Proceed(c, "go") /\ Intrudes(c)
  /\ UNCHANGED <<robotVars, toHost, linkUp, sessionVars, held, clientVars, fileVars>>

\* ESTOP cuts short the wait the worker is in: it returns as if it had run out.
BargesIn(c) ==
  /\ ~Idle(c) /\ linkUp /\ held # Nobody
  /\ Now(c).do = "say" /\ Now(c).what = "ESTOP"
  /\ toRobot' = Append(toRobot, Line("ESTOP", 0, c))
  /\ IF abandoned[held] = << >>
       THEN /\ Moves([d \in {c, held} |-> IF d = c THEN "go" ELSE Now(held).no])
            /\ aborted' = [aborted EXCEPT ![held] = TRUE] /\ UNCHANGED abandoned
       ELSE /\ Proceed(c, "go")
            /\ abandoned' = [abandoned EXCEPT ![held] = Tail(@)] /\ UNCHANGED aborted
  /\ held' = Nobody
  /\ alone' = [d \in Clients |-> alone[d] /\ (d = c \/ Idle(d))]
  /\ UNCHANGED <<robotVars, toHost, linkUp, sessionVars, delayed, id, seen, issued, fileVars>>

\* Mutant of Acknowledged: the ack of the command before is enough.
AcknowledgedEarly(c) == acked' + 1 >= id[c]

Acknowledged(c) == acked' >= id[c]

\* _pump_until(): until what it looks for is there, or its time is up, which
\* happens when all is quiet or another's wait came first.  Time may be up
\* before anything is read; the ack is looked at all the same.
DoesPumpUntil(c) ==
  /\ Serves(c, "pumpUntil")
  /\ \E k \in Chunks \cup (IF delayed[c] THEN {0} ELSE {}) :
       /\ Consume(k)
       /\ seen' = [seen EXCEPT ![c] = @ \cup Noticed(k, c)]
       /\ IF IF Now(c).what = "ack" THEN Acknowledged(c) ELSE Now(c).what \in seen'[c]
            THEN Proceed(c, Now(c).yes)
            ELSE IF k = 0 THEN Proceed(c, Now(c).no) ELSE Stay
  /\ Intrudes(c)
  /\ UNCHANGED <<robotVars, linkUp, held, id, abandoned, issued, fileVars>>

\* The grace pump after the ack.
DoesPump(c) ==
  /\ Serves(c, "pump")
  /\ \E k \in Chunks :
       /\ Consume(k)
       /\ seen' = [seen EXCEPT ![c] = @ \cup Noticed(k, c)]
       /\ Proceed(c, IF Now(c).what \in seen'[c] THEN Now(c).yes ELSE Now(c).no)
  /\ Intrudes(c)
  /\ UNCHANGED <<robotVars, linkUp, held, id, abandoned, issued, fileVars>>

\* Every get line extends the drain; silence ends it.
DoesDrain(c) ==
  /\ Serves(c, "drain")
  /\ \E k \in Chunks :
       /\ Consume(k)
       /\ seen' = [seen EXCEPT ![c] = @ \cup Noticed(k, c)]
       /\ \/ k > 0 /\ Stay
          \/ "get" \notin Noticed(k, c)
             /\ Proceed(c, IF "get" \in seen'[c] THEN Now(c).yes ELSE Now(c).no)
  /\ Intrudes(c)
  /\ UNCHANGED <<robotVars, linkUp, held, id, abandoned, issued, fileVars>>

DoesStream(c) ==
  /\ Serves(c, "stream") /\ nextId <= MaxStream /\ Assign(Now(c).what, c)
  /\ id' = [id EXCEPT ![c] = nextId]
  /\ Proceed(c, "go") /\ Intrudes(c)
  /\ UNCHANGED <<robotVars, linkUp, held, seen, abandoned, issued, fileVars>>

\* pump(0.0), a sleep, and the loop again.
DoesPace(c) ==
  /\ Serves(c, "pace")
  /\ \E k \in 0..Len(toHost) : Consume(k)
  /\ todo' = [todo EXCEPT ![c] = CmdDriveStream] /\ UNCHANGED <<command, report>>
  /\ Intrudes(c)
  /\ UNCHANGED <<robotVars, linkUp, held, clientVars, fileVars>>

\* Ctrl-C.
Interrupted(c) ==
  /\ command[c] = "stream" /\ Now(c).do \in {"stream", "pace"}
  /\ todo' = [todo EXCEPT ![c] = RunStop] /\ UNCHANGED <<command, report>>
  /\ UNCHANGED <<robotVars, wireVars, sessionVars, held, clientVars, fileVars, ghostVars>>

(***************************************************************************)
(* A blocking wait has the worker to itself and throws away what it reads. *)
(***************************************************************************)

Waits(c) ==
  /\ Serves(c, "wait") /\ held' = c
  /\ delayed' = [d \in Clients |-> delayed[d] \/ (d # c /\ ~Idle(d))]
  /\ alone' = [d \in Clients |-> alone[d] /\ (d = c \/ Idle(d))]
  /\ UNCHANGED <<robotVars, wireVars, sessionVars, scriptVars, clientVars, fileVars, aborted>>

\* A call of Session, with the id it is about.
Call(c) == [do |-> Now(c).do, what |-> Now(c).what, id |-> id[c]]

\* The wait is its client's, or the oldest of those its client gave up on.
HeldCall == IF abandoned[held] = << >> THEN Call(held) ELSE Head(abandoned[held])

\* Mutant of HeldIsOver: the completion of the motion before is enough.
HeldIsOverEarly ==
  IF HeldCall.what = "ack" THEN acked >= HeldCall.id ELSE hostDone + 1 >= HeldCall.id

HeldIsOver ==
  IF HeldCall.what = "ack" THEN acked >= HeldCall.id ELSE hostDone >= HeldCall.id

WaitEnds(outcome) ==
  /\ held' = Nobody
  /\ IF abandoned[held] = << >>
       THEN Proceed(held, outcome) /\ UNCHANGED abandoned
       ELSE abandoned' = [abandoned EXCEPT ![held] = Tail(@)] /\ Stay
  /\ UNCHANGED <<robotVars, wireVars, sessionVars, id, seen, issued, fileVars, ghostVars>>

Holds == held # Nobody /\ linkUp

HeldReturns == Holds /\ HeldIsOver /\ WaitEnds(Now(held).yes)

HeldPumps ==
  /\ Holds /\ ~HeldIsOver
  /\ \E k \in 1..Len(toHost) : Consume(k)
  /\ UNCHANGED <<robotVars, linkUp, held, scriptVars, clientVars, fileVars, ghostVars>>

\* _maybe_poll_status(), when it has something to tell.
HeldPolls ==
  /\ Holds /\ ~HeldIsOver /\ Quiet /\ HeldCall.what = "done" /\ hostDone # lastDone
  /\ Assign("STATUS", Nobody)
  /\ UNCHANGED <<robotVars, linkUp, held, scriptVars, clientVars, fileVars, ghostVars>>

\* The robot is running the motion: it ends within the time the wait allows.
UnderWay(n) == active = n /\ n <= Len(log) /\ log[n].verdict = "runs"

\* Mutant of HeldTimesOut: only a wait for an ack has a deadline.
HeldTimesOutAckOnly ==
  Holds /\ ~HeldIsOver /\ Quiet /\ HeldCall.what = "ack" /\ WaitEnds(Now(held).no)

HeldTimesOut ==
  /\ Holds /\ ~HeldIsOver /\ Quiet
  /\ HeldCall.what = "done" => hostDone = lastDone /\ ~UnderWay(HeldCall.id)
  /\ WaitEnds(Now(held).no)

HeldCloses == held # Nobody /\ ~linkUp /\ WaitEnds("closed")

WorkerWaits == HeldReturns \/ HeldPumps \/ HeldPolls \/ HeldTimesOut \/ HeldCloses

(***************************************************************************)
(* Calls that fail, and calls a client gave up on                          *)
(***************************************************************************)

SessionCalls == {"send", "say", "pumpUntil", "pump", "drain", "stream", "pace", "wait"}

\* TransportClosed.
FailsClosed(c) ==
  /\ ~Idle(c) /\ InTurn(c) /\ held = Nobody /\ ~linkUp /\ Now(c).do \in SessionCalls
  /\ Proceed(c, "closed")
  /\ UNCHANGED <<robotVars, wireVars, sessionVars, held, clientVars, fileVars, ghostVars>>

\* The worker is in a wait c's next call comes after: another's, or one of its own
\* that it gave up on.
KeptWaiting(c) == held # Nobody /\ (held = c => abandoned[c] # << >>)

\* Mutant of GivesUp: the error is swallowed and the command goes on.
GivesUpQuietly(c) ==
  /\ ~Idle(c) /\ KeptWaiting(c)
  /\ Now(c).do \in SessionCalls /\ Now(c).what # "ESTOP" /\ Len(todo[c]) > 1
  /\ abandoned' = [abandoned EXCEPT ![c] = Append(@, Call(c))]
  /\ Proceed(c, "go")
  /\ UNCHANGED <<robotVars, wireVars, sessionVars, held, id, seen, issued, fileVars, ghostVars>>

\* DaemonUnavailableError: the wait outlasted the call's deadline.
GivesUp(c) ==
  /\ ~Idle(c) /\ KeptWaiting(c)
  /\ Now(c).do \in SessionCalls /\ Now(c).what # "ESTOP"
  /\ abandoned' = [abandoned EXCEPT ![c] = Append(@, Call(c))]
  /\ Proceed(c, "raised")
  /\ UNCHANGED <<robotVars, wireVars, sessionVars, held, id, seen, issued, fileVars, ghostVars>>

\* The worker serves them all the same, in order, and nobody reads the answers.
LeftServed(c) ==
  /\ abandoned[c] # << >> /\ held = Nobody
  /\ LET do == Head(abandoned[c]).do  what == Head(abandoned[c]).what
     IN  \/ /\ do \in {"send", "stream"} /\ linkUp
            /\ Assign(what, c) /\ UNCHANGED <<linkUp, held>>
         \/ /\ do = "say" /\ linkUp
            /\ toRobot' = Append(toRobot, Line(what, 0, c))
            /\ UNCHANGED <<toHost, linkUp, held, sessionVars>>
         \/ /\ do \in {"pumpUntil", "pump", "drain", "pace"} /\ linkUp
            /\ \E k \in 0..Len(toHost) : Consume(k)
            /\ UNCHANGED <<linkUp, held>>
         \/ /\ do = "wait" /\ linkUp
            /\ held' = c /\ UNCHANGED <<wireVars, sessionVars>>
         \/ /\ ~linkUp /\ UNCHANGED <<wireVars, sessionVars, held>>
  /\ abandoned' = IF held' = c THEN abandoned ELSE [abandoned EXCEPT ![c] = Tail(@)]
  /\ alone' = [d \in Clients |-> alone[d] /\ Idle(d)]
  /\ delayed' = IF held' = c THEN [d \in Clients |-> delayed[d] \/ ~Idle(d)] ELSE delayed
  /\ UNCHANGED <<robotVars, scriptVars, id, seen, issued, fileVars, aborted>>

(***************************************************************************)
(* What a command does without the Session                                 *)
(***************************************************************************)

LocalUnchanged == UNCHANGED <<robotVars, wireVars, sessionVars, held, clientVars, ghostVars>>

\* load_active_robot(), and what a command can do without it: nothing.
Loads(c) ==
  /\ ~Idle(c) /\ Now(c).do = "load"
  /\ IF file = Unreadable \/ (Now(c).what = "trackwidth" /\ ~file.others)
       THEN Proceed(c, Now(c).no) /\ UNCHANGED config
       ELSE Proceed(c, "go") /\ config' = [config EXCEPT ![c] = ParseRobotConfig(file)]
  /\ LocalUnchanged /\ UNCHANGED <<file, samples, saveVars>>

\* What is left when no more trials are run.
ToTheEnd(c) ==
  todo' = [todo EXCEPT ![c] = <<Last(@)>>] /\ UNCHANGED <<command, report>>

\* The operator presses Enter, or ends the trials; measures, skips, or ends them.
\* An agent gives the measurements it has.
Asks(c) ==
  /\ ~Idle(c) /\ Now(c).do = "ask"
  /\ \/ Proceed(c, "go") /\ Now(c).what # "given" /\ UNCHANGED samples
     \/ ToTheEnd(c) /\ Now(c).what # "given" /\ UNCHANGED samples
     \/ /\ Proceed(c, "go") /\ Now(c).what = "measure"
        /\ samples' = [samples EXCEPT ![c] = @ + 1]
     \/ /\ Proceed(c, "go") /\ Now(c).what = "given"
        /\ \E n \in 0..MinTrials : samples' = [samples EXCEPT ![c] = n]
  /\ LocalUnchanged /\ UNCHANGED <<file, config, saveVars>>

\* The clients in the middle of a save.
Saving == {c \in Clients : contents[c] # None}

\* save_robot_config() reads the file it is to rewrite.
ReadsToSave(c) ==
  /\ contents' = [contents EXCEPT ![c] = file]
  /\ raced' = [d \in Clients |-> IF d = c THEN Saving # {} ELSE raced[d] \/ d \in Saving]
  /\ UNCHANGED <<writing, saved, mislaid>>

\* What was computed is saved, declined or out of range, or there is too little.
Saves(c) ==
  /\ ~Idle(c) /\ Now(c).do = "save" /\ contents[c] = None
  /\ \/ samples[c] >= MinTrials /\ ReadsToSave(c) /\ Stay
     \/ /\ samples[c] >= MinTrials /\ UNCHANGED saveVars
        /\ Proceed(c, Now(c).no) \/ Proceed(c, "outOfRange")
     \/ samples[c] < MinTrials /\ Proceed(c, "tooFew") /\ UNCHANGED saveVars
  /\ LocalUnchanged /\ UNCHANGED <<file, config, samples>>

\* Path.write_text() empties the file, without a lock,
Truncates(c) ==
  /\ c \in Saving \ writing
  /\ writing' = writing \cup {c} /\ file' = Unreadable
  /\ LocalUnchanged
  /\ UNCHANGED <<scriptVars, config, samples, contents, raced, saved, mislaid>>

\* What a save that overlapped another may undo: anything; and one by itself: the
\* field its client holds an old value of.
Undone(c) ==
  IF raced[c] THEN Fields \cup {"others"}
  ELSE (mislaid \ {Now(c).what}) \cup
         {f \in Fields \ {Now(c).what} :
            config[c][f] \notin {None, ParseRobotConfig(contents[c])[f]}}

\* and fills it again; what another wrote there since may be longer, and its end
\* stays.  The value c computed is told by its name.
Writes(c) ==
  /\ ~Idle(c) /\ Now(c).do = "save" /\ c \in writing
  /\ \/ file' = SaveRobotConfig(contents[c], [config[c] EXCEPT ![Now(c).what] = c])
     \/ file # Unreadable /\ file' = Unreadable
  /\ Proceed(c, Now(c).yes)
  /\ saved' = [saved EXCEPT ![Now(c).what] = c] /\ mislaid' = Undone(c)
  /\ writing' = writing \ {c} /\ contents' = [contents EXCEPT ![c] = None]
  /\ LocalUnchanged /\ UNCHANGED <<config, samples, raced>>

CallsSession(c) ==
  \/ DoesSend(c) \/ DoesSay(c) \/ BargesIn(c) \/ DoesPumpUntil(c) \/ DoesPump(c)
  \/ DoesDrain(c) \/ DoesPace(c) \/ Waits(c) \/ FailsClosed(c)

RogoNext ==
  \/ RobotTakes \/ RobotFinishes \/ LinkCloses \/ WorkerWaits
  \/ \E c \in Clients :
       \/ \E name \in Offered(c) : Begin(c, name)
       \/ CallsSession(c) \/ DoesStream(c) \/ Interrupted(c)
       \/ GivesUp(c) \/ LeftServed(c)
       \/ Loads(c) \/ Asks(c) \/ Saves(c) \/ Truncates(c) \/ Writes(c)

RogoSpec == RogoInit /\ [][RogoNext]_rogoVars

\* The robot answers, motions end, the worker serves every connection, and a
\* program runs on.  Nothing makes a user answer a prompt or press Ctrl-C.
RogoFairness ==
  /\ WF_rogoVars(RobotTakes) /\ WF_rogoVars(RobotFinishes) /\ WF_rogoVars(WorkerWaits)
  /\ \A c \in Clients :
       /\ WF_rogoVars(CallsSession(c) \/ Loads(c)) /\ WF_rogoVars(LeftServed(c))

FairRogoSpec == RogoSpec /\ RogoFairness

(***************************************************************************)
(* Properties                                                              *)
(***************************************************************************)

SuccessReports == {"stopped", "warned", "done", "fields", "noFields", "set", "refused"}

\* Every variable stays within its type; the worker only ever stays in a wait; and
\* the calls still queued of the commands that gave up are one of each at most,
\* none an ESTOP (cli.py:130-160, daemon_client.py:295-365).
SharedTypeOK ==
  /\ nextId \in Nat \ {0} /\ acked < nextId /\ hostDone < nextId
  /\ expectedNext \in 1..nextId /\ Len(log) < nextId
  /\ held \in Clients \cup {Nobody} /\ linkUp \in BOOLEAN /\ latched \in BOOLEAN
  /\ held # Nobody => HeldCall.do = "wait"
  /\ \A c \in Clients :
       /\ Idle(c) <=> todo[c] = << >>
       /\ id[c] \in 0..(nextId - 1) /\ samples[c] \in Nat
       /\ Len(abandoned[c]) + (IF Idle(c) THEN 0 ELSE 1) <= issued[c]
       /\ \A k \in 1..Len(abandoned[c]) :
            /\ abandoned[c][k].do \in SessionCalls /\ abandoned[c][k].what # "ESTOP"
            /\ abandoned[c][k].id < nextId

\* A command tells its user that the robot took its line only if the robot
\* executed that very line, whoever shares the Session and whoever pumped its
\* ack; and that it was rejected only if it was (cli.py:167-201, 241-258,
\* mcp_server.py:171-236).
ReportsAreTrue ==
  \A c \in Clients :
    report[c] \in SuccessReports =>
      /\ id[c] \in 1..Len(log) /\ log[id[c]].by = c
      /\ report[c] \in {"warned", "refused"} => log[id[c]].verdict = "rejected"

\* A command that had the Session to itself reports all there is: a rejection is
\* never missed, done is said only of a motion that was taken, and the fields
\* are those the adapter has (cli.py:167-184, 204-238, docs of both grace pumps).
AloneIsTruthful ==
  \A c \in Clients :
    alone[c] /\ id[c] \in 1..Len(log) =>
      /\ report[c] \in {"set", "done", "late"} => log[id[c]].verdict # "rejected"
      /\ report[c] = "fields" => log[id[c]].verdict = "ok"
      /\ report[c] = "noFields" => log[id[c]].verdict = "nothing"

\* On a link that loses nothing a command goes unacknowledged only when the
\* robot can no longer accept a line, another client's wait came first, or an
\* ESTOP cut it short (cli.py:151-164, reliability.py:313-333).
UnackedHasCause ==
  \A c \in Clients :
    report[c] = "unacked" => spoiled # {} \/ delayed[c] \/ aborted[c]

\* When a drive reports done, neither it nor anything sent before it is still
\* to be driven; when a stop is acknowledged, nothing sent before it is
\* (cli.py:300-311, 433-452, reliability.py:335-373).
WhatEndedIsOver ==
  \A c \in Clients :
    \A n \in {active} \cup Range(queue) :
      report[c] \in {"done", "stopped"} /\ n # 0 => n > id[c]

\* While no save is writing it, the robot's file has of each field what was last
\* saved into it, and everything else it had, but for what a save may have undone
\* that another overlapped or whose client held an old value; a field saved anew,
\* by itself, is kept again (config.py:174-205, calibrate.py:286-337).
SavedIsKept ==
  writing = {} =>
    /\ \A f \in Fields \ mislaid : file.geometry[f] = saved[f]
    /\ "others" \notin mislaid => file.others

\* A command that asks its user nothing ends, whatever the robot makes of it and
\* whoever else is waiting (cli.py:151-164, daemon_client.py:322-373).
CommandsEnd ==
  \A c \in Clients :
    []<>(command[c] \in {"none", "stream", "calibrate_turns", "calibrate_distance"})

\* Whatever numbers the drive, goto or stream that runs was given, they were
\* prepared so that the robot can carry it out: the faster wheel cruises, the
\* backstop is later than the end of the motion, the lease than the next resend
\* unless that is 5000 ms away, and what cannot be was refused
\* (cli.py:388-430, 484-515, 533-554, 679-709).
PreparedMotionIsSound ==
  \A c \in Clients :
    /\ command[c] = "drive_mm" => WheelsXSound
    /\ command[c] = "goto" => GotoSound
    /\ command[c] = "stream" => StreamSound

\* Trials prepared with any starting value and measured on a robot of a true slip,
\* or scale, within the sane range calibrate it to that value, to a hundredth
\* (turn_model.py:49-105, calibrate.py:144-226).
CalibrationConverges ==
  \A c \in Clients :
    /\ command[c] = "calibrate_turns" => TurnsConverge
    /\ command[c] = "calibrate_distance" => DistancesConverge

\* A drive the robot accepted reports its completion (cli.py:433-436).
AcceptedDriveCompletes ==
  \A c \in Clients :
    ~(report[c] = "late" /\ alone[c] /\ log[id[c]].verdict = "runs")
=============================================================================
