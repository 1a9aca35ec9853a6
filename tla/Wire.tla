-------------------------------- MODULE Wire --------------------------------
(***************************************************************************)
(* The v6 line transport between the host (src/src/host/robot_v6) and the  *)
(* robot (src/src/protocol): two FIFO streams of whole lines.  A line is   *)
(* abstracted to its verb and its trailing #<id>; a reply to its verb and  *)
(* the numbers the host's Session reads off it.  Bytes, field text and     *)
(* line reassembly are not modelled here.                                  *)
(*                                                                         *)
(* The link may lose or damage any line (a serial cable, or a radio relay  *)
(* that drops a good share of them), but it never reorders them.  A fault  *)
(* is decided when the line reaches the head of its stream, which is       *)
(* indistinguishable from deciding it in flight.  There is no checksum on  *)
(* the wire; damage that leaves a different well-formed command is outside *)
(* this model.                                                             *)
(***************************************************************************)
EXTENDS Integers, Sequences

CONSTANTS LineCap,      \* bound: lines in flight to the robot
          ReplyCap,     \* bound: reply lines in flight to the host
          MaxFaults     \* bound: lines lost or damaged in a behaviour

ASSUME WireAssumption == LineCap \in Nat /\ ReplyCap \in Nat /\ MaxFaults \in Nat

VARIABLES toRobot,      \* lines written by Transport.send_line, not yet fed
          toHost,       \* lines written to the robot's Sink, not yet read
          faults        \* how many faults the link has committed

wireVars == <<toRobot, toHost, faults>>

\* Dispatched before any id is read; the host writes them without one.
UnsequencedVerbs == {"HELLO", "ESTOP", "PING"}

Line(verb, id) == [verb |-> verb, id |-> id]

IsSequenced(line) == line.verb \notin UnsequencedVerbs

\* What a sequenced line may become when it is damaged in flight.  If its id
\* token survives it is still classified by that id, and decoding it fails; if
\* not, it carries no id that dispatch() can use.
NoId == -1
Damage(line) == {[line EXCEPT !.verb = "damaged"], [line EXCEPT !.id = NoId]}

\* Replies.  Only ack and nack mean anything to Session; every other reply
\* verb is application content that it hands to its caller.
Ack(n, done, reason)  == [kind |-> "ack",  n |-> n, done |-> done, reason |-> reason]
Nack(n, done, reason) == [kind |-> "nack", n |-> n, done |-> done, reason |-> reason]
Info(kind, n)         == [kind |-> kind,   n |-> n, done |-> 0, reason |-> "none"]

WireInit == toRobot = << >> /\ toHost = << >> /\ faults = 0

\* Room for a line the host is about to write, and for all the replies one
\* inbound line can provoke.
RoomToRobot == Len(toRobot) < LineCap
RoomToHost  == Len(toHost) + 2 <= ReplyCap

CanFault == faults < MaxFaults

\* A line on its way to the robot disappears.
LoseLine ==
  /\ CanFault /\ toRobot # << >>
  /\ toRobot' = Tail(toRobot)
  /\ faults' = faults + 1
  /\ UNCHANGED toHost

\* A reply on its way to the host disappears.
LoseReply ==
  /\ CanFault /\ toHost # << >>
  /\ toHost' = Tail(toHost)
  /\ faults' = faults + 1
  /\ UNCHANGED toRobot
=============================================================================
