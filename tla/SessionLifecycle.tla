-------------------------- MODULE SessionLifecycle --------------------------
(***************************************************************************)
(* Sessions come and go around the reliability layer: a host program ends  *)
(* and another opens the link, a robot reboots.  Each program has a fresh  *)
(* Session that counts from 1; the robot's sequence and its adapter's      *)
(* completion state outlive it unless something resets them.               *)
(*                                                                         *)
(* Three ways of opening the link are in the code:                         *)
(*   "sim"    connection.resolve() to tools/sim, which builds a handler    *)
(*            and an adapter per client (sim_main.cpp, runSession);        *)
(*   "plain"  connection.resolve() to a real robot or a relay: no HELLO;   *)
(*   "hello"  the same, by a daemon that first sends HELLO to learn the    *)
(*            robot's name (daemon.py, resolve_robot_name).                *)
(***************************************************************************)
EXTENDS ReliableLink

CONSTANTS Connects,     \* the ways of opening the link this host uses
          FreshChannel, \* no line written by an earlier program is still to arrive
          HelloOutlives, \* a HELLO may be under way when the next program opens the link
          MaxSessions,  \* bound: sessions opened
          MaxReboots    \* bound: robot reboots

ASSUME LifecycleAssumption ==
  /\ Connects \subseteq {"sim", "plain", "hello"}
  /\ FreshChannel \in BOOLEAN /\ HelloOutlives \in BOOLEAN
  /\ MaxSessions \in Nat /\ MaxReboots \in Nat

VARIABLES sessions, reboots,
          greeting,     \* HELLO is out and its banner has not been read
          effects       \* history: lines executed since this session began

lifecycleVars == <<vars, sessions, reboots, greeting, effects>>

LifecycleInit ==
  LinkInit /\ sessions = 1 /\ reboots = 0 /\ greeting = FALSE /\ effects = {}

\* What the robot executed in this step, if anything.
JustExecuted ==
  IF Len(executed') > Len(executed) THEN {executed'[Len(executed')]} ELSE {}

HelloUnderWay == \E k \in 1..Len(toRobot) : toRobot[k].verb = "HELLO"

\* A new program opens the link.  Opening it discards what had already been
\* received, and perhaps what is still on its way to the robot.  A daemon that
\* got no banner gives up after two seconds (daemon.py:521); unless
\* HelloOutlives, its HELLO has arrived or been lost before the next program
\* opens the link.
Reconnect(how) ==
  /\ sessions < MaxSessions /\ how \in Connects
  /\ HelloUnderWay => HelloOutlives \/ FreshChannel \/ how = "sim"
  /\ NewSession
  /\ LET left == IF FreshChannel \/ how = "sim" THEN << >> ELSE toRobot
     IN  toRobot' = IF how = "hello" THEN Append(left, Line("HELLO", NoId)) ELSE left
  /\ toHost' = IF how = "sim" THEN <<Info("device", 0)>> ELSE << >>
  /\ IF how = "sim" THEN ResetSequence /\ NewAdapter ELSE UNCHANGED robotVars
  /\ sessions' = sessions + 1
  /\ greeting' = (how = "hello")
  /\ effects' = {}
  /\ UNCHANGED <<faults, reboots>>

\* The robot loses power or is reset; what reached it meanwhile is gone.
RobotReboots ==
  /\ reboots < MaxReboots /\ RoomToHost
  /\ ResetSequence /\ NewAdapter
  /\ \E lost \in 0..Len(toRobot) :
       toRobot' = SubSeq(toRobot, lost + 1, Len(toRobot))
  /\ Reply(<<Info("device", 0)>>)
  /\ reboots' = reboots + 1
  /\ UNCHANGED <<sessionVars, faults, sessions, greeting, effects>>

\* Mutant of GreetingPumps: any reply ends the wait for the banner.
GreetingPumpsOnce ==
  /\ greeting /\ HostPumps
  /\ greeting' = FALSE /\ effects' = {}
  /\ UNCHANGED <<sessions, reboots>>

\* While it waits for the banner the host only pumps.  If none arrives the
\* daemon gives up with RobotNameError and a later program reconnects, which
\* is also what a pump() that raises then comes to.
GreetingPumps ==
  /\ greeting /\ HostPumps
  /\ greeting' = (Head(toHost).kind # "device")
  /\ effects' = IF greeting' THEN effects ELSE {}
  /\ UNCHANGED <<sessions, reboots>>

HostRuns ==
  /\ ~greeting
  /\ \/ HostSends \/ HostWaits \/ HostPolls \/ HostPumps
     \/ HostRaises \/ HostResends \/ TimePasses
  /\ UNCHANGED <<sessions, reboots, greeting, effects>>

RobotRuns ==
  /\ RobotFeeds \/ RobotSteps \/ LinkFails
  /\ effects' = effects \cup JustExecuted
  /\ UNCHANGED <<sessions, reboots, greeting>>

LifecycleNext ==
  \/ \E how \in Connects : Reconnect(how)
  \/ RobotReboots \/ GreetingPumps \/ HostRuns \/ RobotRuns

LifecycleSpec == LifecycleInit /\ [][LifecycleNext]_lifecycleVars

\* Every command the host counts as acknowledged was executed, by this robot,
\* during this session: an ack is never a leftover of an earlier session, nor a
\* stale-id re-ack of someone else's command (protocol_handler.cpp:399-405,
\* reliability.py:252-257, 321-327).
AckedWasExecuted ==
  \A i \in 1..highestAcked : i <= Len(sent) /\ Line(sent[i], i) \in effects

\* Once a session is open the robot executes nothing but what this session
\* sent, under the id this session gave it.
NothingForeign ==
  ~greeting => \A line \in effects : line.id <= Len(sent) /\ line.verb = sent[line.id]

\* Within a session no command is executed twice, whatever lines of the session
\* before it were still under way (protocol_handler.cpp:399-405, 532-550).
ExecutesAtMostOnce == [][JustExecuted \cap effects = {}]_lifecycleVars
=============================================================================
