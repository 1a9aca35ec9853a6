---------------------------- MODULE ReliableLink ----------------------------
(***************************************************************************)
(* One session of the reliability layer: a host Session, the robot's       *)
(* ProtocolHandler with its motion adapter, and the lossy line transport   *)
(* between them.  Reconnecting, rebooting and probing with HELLO are in    *)
(* SessionLifecycle.                                                       *)
(***************************************************************************)
EXTENDS ProtocolHandler, Session

vars == <<wireVars, adapterVars, handlerVars, sessionVars>>

robotVars == <<adapterVars, handlerVars>>

LinkInit == WireInit /\ AdapterInit /\ HandlerInit /\ SessionInit

HostSends ==
  /\ \/ \E verb \in Verbs  : Send(verb)
     \/ \E verb \in Probes : SendUnsequenced(verb)
  /\ UNCHANGED robotVars

HostWaits ==
  /\ \/ \E call \in {"ack", "done"}, id \in 1..MaxId : StartWait(call, id)
     \/ WaitReturns \/ WaitTimesOut
  /\ UNCHANGED robotVars

HostPolls  == PollStatus /\ UNCHANGED robotVars
HostPumps  == PumpReply  /\ UNCHANGED robotVars
HostRaises == PumpRaises /\ UNCHANGED robotVars
HostResends == ResendNext /\ UNCHANGED robotVars

TimePasses == (CooldownElapses \/ PollCooldownElapses) /\ UNCHANGED robotVars

RobotFeeds == (RobotReceives \/ RobotReceivesDamaged) /\ UNCHANGED sessionVars

RobotSteps == MotionCompletes /\ UNCHANGED <<wireVars, handlerVars, sessionVars>>

LinkFails == (LoseLine \/ LoseReply) /\ UNCHANGED <<robotVars, sessionVars>>

Next == \/ HostSends \/ HostWaits \/ HostPolls \/ HostPumps \/ HostRaises
        \/ HostResends \/ TimePasses \/ RobotFeeds \/ RobotSteps \/ LinkFails

Spec == LinkInit /\ [][Next]_vars

(***************************************************************************)
(* Types                                                                   *)
(***************************************************************************)
SequencedLines == [verb : Verbs, id : Nat \ {0}]
ProbeLines     == [verb : Probes, id : {NoId}]
Lines          == SequencedLines \cup ProbeLines
Replies == [kind : {"ack", "nack", "err", "pong", "estop", "device", "status"},
            n : Nat, done : Nat, reason : Reasons]

WireTypeOK == toRobot \in Seq(Lines) /\ toHost \in Seq(Replies) /\ faults \in Nat

AdapterTypeOK ==
  /\ active \in Nat /\ queue \in Seq(Nat)
  /\ lastDone \in Nat /\ lastDoneReason \in Reasons
  /\ taken \subseteq Nat /\ completed \subseteq [id : Nat, reason : Reasons]

HandlerTypeOK == expectedNext \in Nat /\ executed \in Seq(SequencedLines)

SessionTypeOK ==
  /\ nextId \in Nat \ {0}
  /\ Outstanding \subseteq Nat \ {0} /\ pending \in [Outstanding -> Verbs]
  /\ highestAcked \in Nat /\ hostDone \in Nat /\ hostReason \in Reasons
  /\ lastNackNext \in Nat
  /\ cooling \in BOOLEAN /\ pollCooling \in BOOLEAN /\ resendFirst \in BOOLEAN
  /\ resend \subseteq Nat \ {0}
  /\ wait \in [call : {"none", "ack", "done"}, id : Nat]
  /\ probes \in Nat /\ sent \in Seq(Verbs)

\* Every variable stays within its type (reliability.py:126-148,
\* protocol_handler.h's expectedNext_, fake_motion_adapter.h's queue).
TypeOK == WireTypeOK /\ AdapterTypeOK /\ HandlerTypeOK /\ SessionTypeOK

(***************************************************************************)
(* Safety                                                                  *)
(***************************************************************************)

\* What the robot has executed is exactly the commands the host numbered
\* 1, 2, ..., expectedNext - 1, each once and in that order, however lines
\* were lost, damaged, resent or repeated (protocol_handler.cpp:399-448).
ExecutesInOrder ==
  /\ Len(executed) = expectedNext - 1
  /\ Len(executed) <= Len(sent)
  /\ \A i \in 1..Len(executed) : executed[i] = Line(sent[i], i)

\* An id the host counts as acknowledged, so that wait_for_ack() returns True
\* for it, names a command this robot really executed
\* (reliability.py:252-257, 308-327).
AckedMeansExecuted == highestAcked < expectedNext

\* The host still buffers every command the robot has not executed, so the one
\* the robot is waiting for can always be resent (reliability.py:252-257 drops
\* ids, :259-287 resends them).
CanResendWhatIsMissing ==
  \A id \in 1..(nextId - 1) :
    id >= expectedNext => id \in Outstanding /\ pending[id] = sent[id]

\* A nack on its way to the host asks for a command the host still buffers:
\* no ack that precedes it has retired that command (protocol_handler.cpp:
\* 406-415, reliability.py:286).
NacksCanBeAnswered ==
  \A k \in 1..Len(toHost) : toHost[k].kind = "nack" =>
    /\ toHost[k].n \in Outstanding
    /\ \A j \in 1..(k - 1) : toHost[j].kind = "ack" => toHost[j].n < toHost[k].n

\* wait_for_done(id) can return for a motion only once that motion is over:
\* it completed, it was drained by a stop, or it was never taken
\* (reliability.py:355, fake_motion_adapter.h:396-414).
DoneMeansOver ==
  /\ hostDone < expectedNext
  /\ \A id \in 1..hostDone :
       id # active /\ \A k \in 1..Len(queue) : queue[k] # id

\* When _last_done names a motion, the reason beside it is that motion's own
\* (reliability.py:341-343).
DoneReasonIsItsOwn ==
  hostDone # 0 => [id |-> hostDone, reason |-> hostReason] \in completed

\* The completion the host has been told of only moves forward
\* (reliability.py:235,238 overwrite it with whatever the reply carries).
DoneNeverRegresses == [][hostDone' >= hostDone]_vars

\* The robot never executes, in one step, anything but the one command it
\* expects, and never takes an executed command back
\* (protocol_handler.cpp:399-449).
ExecutesOneAtATime ==
  [][\/ UNCHANGED <<expectedNext, executed>>
     \/ /\ expectedNext' = expectedNext + 1
        /\ executed' = Append(executed, Line(sent[expectedNext], expectedNext))]_vars

\* The link implements the abstract promise.
Abstract == INSTANCE InOrderDelivery WITH
  Commands <- Verbs,
  submitted <- sent,
  delivered <- [i \in 1..Len(executed) |-> executed[i].verb]

\* Delivery in order, exactly once (docs/design/protocol.md:1123-1130).
ImplementsInOrderDelivery == Abstract!Spec

(***************************************************************************)
(* Liveness.  The robot's main loop keeps feeding what arrives and stepping *)
(* the adapter (sim_main.cpp:156-197); a thread inside a wait keeps pumping,*)
(* polling and finishing its resend loop (reliability.py:321-364); cooldowns*)
(* run out.  Nothing makes the application send, or the link behave beyond  *)
(* its fault budget.                                                        *)
(***************************************************************************)
Fairness ==
  /\ WF_vars(RobotReceives /\ UNCHANGED sessionVars)
  /\ WF_vars(RobotSteps)
  /\ WF_vars(HostPumps) /\ WF_vars(HostResends) /\ WF_vars(HostPolls)
  /\ WF_vars(CooldownElapses /\ UNCHANGED robotVars)
  /\ WF_vars(PollCooldownElapses /\ UNCHANGED robotVars)

FairSpec == Spec /\ Fairness

\* A host that sends a command and then waits for it with wait_for_done() gets
\* it executed in the end, whichever of the lines involved the link loses: each
\* STATUS poll gives the robot a line to nack (reliability.py:289-304, 354-363).
PollingRecovers ==
  (wait = [call |-> "done", id |-> 1] /\ nextId = 2) ~>
    (expectedNext > 1 \/ wait.id # 1)
=============================================================================
