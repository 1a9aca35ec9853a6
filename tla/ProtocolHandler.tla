--------------------------- MODULE ProtocolHandler ---------------------------
(***************************************************************************)
(* The robot's end of the reliability layer: ProtocolHandler::dispatch()   *)
(* and the replies it writes (src/src/protocol/protocol_handler.cpp).  Its *)
(* whole state is expectedNext; `executed' is a history of the commands    *)
(* that reached their exec*() since the sequence was last reset.           *)
(***************************************************************************)
EXTENDS Wire, MotionAdapter

CONSTANT IdSpace        \* ids are uint32_t: 2^32 in the code

ASSUME IdSpaceAssumption == IdSpace \in Nat \ {0, 1}

VARIABLES expectedNext, \* expectedNext_
          executed      \* history: [id, verb] in execution order

handlerVars == <<expectedNext, executed>>

\* "MOVE" stands for the six motion verbs and "STATUS" for the verbs that only
\* read.  Anything else is not in kCommandTable, or its fields do not parse.
KnownVerbs == {"MOVE", "STOP", "STATUS"}

HandlerInit == expectedNext = 1 /\ executed = << >>

ResetSequence == expectedNext' = 1 /\ executed' = << >>

Reply(replies) == toHost' = toHost \o replies

\* replyAck() and replyNack() read lastDone()/lastDoneReason() afresh.
AckNow(n)  == Ack(n, lastDone, lastDoneReason)
NackNow(n) == Nack(n, lastDone, lastDoneReason)

HandleEstop(line) ==
  /\ line.verb = "ESTOP"
  /\ EndAllMotion("estop")
  /\ Reply(<<Info("estop", 0)>>)
  /\ UNCHANGED handlerVars

HandlePing(line) ==
  /\ line.verb = "PING"
  /\ Reply(<<Info("pong", 0)>>)
  /\ UNCHANGED <<handlerVars, adapterVars>>

\* Mutant of HandleHello: HELLO only identifies the robot.
HandleHelloKeepingSequence(line) ==
  /\ line.verb = "HELLO"
  /\ Reply(<<Info("device", 0)>>)
  /\ UNCHANGED <<handlerVars, adapterVars>>

\* HELLO resets the sequence and leaves the adapter's completion state alone.
HandleHello(line) ==
  /\ line.verb = "HELLO"
  /\ ResetSequence
  /\ Reply(<<Info("device", 0)>>)
  /\ UNCHANGED adapterVars

\* parseMandatoryId() refuses an id that is missing, malformed or too wide.
Classifiable(line) == IsSequenced(line) /\ line.id \in 0..(IdSpace - 1)

\* No id to classify by: no reply at all.
Unclassifiable(line) ==
  /\ IsSequenced(line) /\ ~Classifiable(line)
  /\ UNCHANGED <<toHost, handlerVars, adapterVars>>

\* Mutant of StaleLine: a retransmit is executed again.
StaleLineReexecuted(line) ==
  /\ Classifiable(line) /\ line.id < expectedNext /\ line.verb \in KnownVerbs
  /\ executed' = Append(executed, line)
  /\ Reply(<<AckNow(expectedNext - 1)>>)
  /\ UNCHANGED <<expectedNext, adapterVars>>

\* A retransmit whose ack was lost: re-state the ack, execute nothing.
StaleLine(line) ==
  /\ Classifiable(line) /\ line.id < expectedNext
  /\ Reply(<<AckNow(expectedNext - 1)>>)
  /\ UNCHANGED <<handlerVars, adapterVars>>

\* Mutant of GapLine: a line beyond the gap is acknowledged.
GapLineAcked(line) ==
  /\ Classifiable(line) /\ line.id > expectedNext
  /\ Reply(<<AckNow(line.id)>>)
  /\ UNCHANGED <<handlerVars, adapterVars>>

\* Mutant of GapLine: it asks for the last accepted line instead of the next.
GapLineNackingLast(line) ==
  /\ Classifiable(line) /\ line.id > expectedNext
  /\ Reply(<<NackNow(expectedNext - 1)>>)
  /\ UNCHANGED <<handlerVars, adapterVars>>

\* A gap: discard the line and ask for the missing one.
GapLine(line) ==
  /\ Classifiable(line) /\ line.id > expectedNext
  /\ Reply(<<NackNow(expectedNext)>>)
  /\ UNCHANGED <<handlerVars, adapterVars>>

\* Mutant of DecodeFailure: a line that cannot be decoded uses up its id.
DecodeFailureAdvancing(line) ==
  /\ Classifiable(line) /\ line.id = expectedNext /\ line.verb \notin KnownVerbs
  /\ expectedNext' = (line.id + 1) % IdSpace
  /\ Reply(<<AckNow(line.id), Info("err", line.id)>>)
  /\ UNCHANGED <<executed, adapterVars>>

\* In order but undecodable: the sequence does not advance.
DecodeFailure(line) ==
  /\ Classifiable(line) /\ line.id = expectedNext /\ line.verb \notin KnownVerbs
  /\ Reply(<<NackNow(expectedNext), Info("err", line.id)>>)
  /\ UNCHANGED <<handlerVars, adapterVars>>

\* What the verb's exec*() does, after the ack has been written: the replies
\* that follow the ack, and the adapter's new state.
ExecMove(line) ==
  /\ line.verb = "MOVE"
  /\ IF QueueFull
       THEN UNCHANGED adapterVars /\ Reply(<<AckNow(line.id), Info("err", line.id)>>)
       ELSE AcceptMotion(line.id) /\ Reply(<<AckNow(line.id)>>)

ExecStop(line) ==
  /\ line.verb = "STOP"
  /\ EndAllMotion("stop")
  /\ Reply(<<AckNow(line.id)>>)

ExecStatus(line) ==
  /\ line.verb = "STATUS"
  /\ Reply(<<AckNow(line.id), Info("status", expectedNext')>>)
  /\ UNCHANGED adapterVars

\* Mutant of AcceptLine: it does not notice a gap.
AcceptLineOverGap(line) ==
  /\ Classifiable(line) /\ line.id >= expectedNext /\ line.verb \in KnownVerbs
  /\ expectedNext' = (line.id + 1) % IdSpace
  /\ executed' = Append(executed, line)
  /\ ExecMove(line) \/ ExecStop(line) \/ ExecStatus(line)

\* Mutant of AcceptLine: the id is accepted before the verb is looked up.
AcceptLineUndecoded(line) ==
  /\ Classifiable(line) /\ line.id = expectedNext
  /\ expectedNext' = (line.id + 1) % IdSpace
  /\ executed' = Append(executed, line)
  /\ \/ ExecMove(line) \/ ExecStop(line) \/ ExecStatus(line)
     \/ line.verb \notin KnownVerbs /\ Reply(<<AckNow(line.id)>>) /\ UNCHANGED adapterVars

AcceptLine(line) ==
  /\ Classifiable(line) /\ line.id = expectedNext /\ line.verb \in KnownVerbs
  /\ expectedNext' = (line.id + 1) % IdSpace
  /\ executed' = Append(executed, line)
  /\ ExecMove(line) \/ ExecStop(line) \/ ExecStatus(line)

\* dispatch() on one complete line.
Dispatch(line) ==
  \/ HandleEstop(line) \/ HandlePing(line) \/ HandleHello(line)
  \/ Unclassifiable(line) \/ StaleLine(line) \/ GapLine(line)
  \/ DecodeFailure(line) \/ AcceptLine(line)

RobotReceives ==
  /\ toRobot # << >> /\ RoomToHost
  /\ Dispatch(Head(toRobot))
  /\ toRobot' = Tail(toRobot)
  /\ UNCHANGED faults

RobotReceivesDamaged ==
  /\ toRobot # << >> /\ RoomToHost /\ CanFault
  /\ IsSequenced(Head(toRobot))
  /\ \E line \in Damage(Head(toRobot)) : Dispatch(line)
  /\ toRobot' = Tail(toRobot)
  /\ faults' = faults + 1
=============================================================================
