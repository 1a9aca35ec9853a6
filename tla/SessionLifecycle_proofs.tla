---------------------- MODULE SessionLifecycle_proofs ----------------------
(***************************************************************************)
(* What survives reconnects and reboots, proved for any number of sessions,*)
(* reboots, commands, faults and lines in flight, for hosts that open the  *)
(* link to tools/sim or with HELLO:                                        *)
(*   - when no line of an earlier program is still to arrive, an ack means *)
(*     that the command was executed, whatever reboots;                    *)
(*   - when the robot does not reboot, a session is served nothing foreign *)
(*     and nothing twice, whatever lines of earlier programs still arrive. *)
(***************************************************************************)
EXTENDS SessionLifecycle, ReliableLink_proofs

\* The host opens every link so that the robot's sequence restarts, and keeps
\* to the convention of one session (connection.py:88, daemon.py:579).
Greets == Convention /\ "plain" \notin Connects

(***************************************************************************)
(* The inductive invariants                                                *)
(***************************************************************************)

\* What may be in flight to the robot: a command, or a verb without an id.
WireLines == SequencedLines \cup [verb : UnsequencedVerbs, id : {NoId}]

RobotTypeOK == AdapterTypeOK /\ HandlerTypeOK

StreamsTypeOK ==
  toRobot \in Seq(WireLines) /\ toHost \in Seq(Replies) /\ faults \in Nat

LifecycleTypeOK ==
  /\ StreamsTypeOK /\ RobotTypeOK /\ SessionTypeOK
  /\ sessions \in Nat /\ reboots \in Nat /\ greeting \in BOOLEAN
  /\ effects \subseteq SequencedLines

\* The host numbers its commands one by one and buffers what it sent.
HostInOrder ==
  /\ Len(sent) = nextId - 1 /\ nextId <= MaxId + 1
  /\ \A i \in Outstanding : i < nextId /\ pending[i] = sent[i]
  /\ resend \subseteq Outstanding

\* Nothing is sent before the banner is read.
GreetingIsFirst == greeting => nextId = 1

Shape == LifecycleTypeOK /\ HostInOrder /\ GreetingIsFirst

\* A line is a command of this session, or carries no id.
Own(line) == IsSequenced(line) => line.id < nextId /\ line.verb = sent[line.id]

\* This session's first n commands were executed during it.
ExecutedThrough(n) == \A i \in 1..n : i <= Len(sent) /\ Line(sent[i], i) \in effects

BannerUnread == \E reply \in Range(toHost) : reply.kind = "device"

\* With a fresh channel everything in flight belongs to this session, and the
\* robot's sequence does from the banner on.
FreshInv ==
  /\ \A line \in Range(toRobot) : Own(line)
  /\ NothingForeign
  /\ AckedWasExecuted
  /\ \A reply \in Range(toHost) : reply.kind = "ack" => ExecutedThrough(reply.n)
  /\ ~greeting \/ BannerUnread => ExecutedThrough(expectedNext - 1)

\* Without reboots, what an earlier session left under way is in front of the
\* HELLO, so it is gone when the banner is read; and the robot counts upwards
\* from it, so what it executed it does not execute again.
StaleInv ==
  /\ \A line \in Range(toRobot) : IsSequenced(line) => line.id <= MaxId
  /\ \A k \in 1..Len(toRobot) :
       toRobot[k].verb = "HELLO" => greeting /\ k = Len(toRobot)
  /\ greeting /\ BannerUnread => toRobot = << >>
  /\ ~greeting => \A line \in Range(toRobot) : Own(line)
  /\ NothingForeign
  /\ \A line \in effects : line.id < expectedNext \/ (greeting /\ toRobot = << >>)

(***************************************************************************)
(* Lemmas on sequences and their ranges                                    *)
(***************************************************************************)

\* What each operation on a stream does to the set of lines in it.
LEMMA TailRange ==
  ASSUME NEW S, NEW seq \in Seq(S), seq # << >>
  PROVE  /\ Tail(seq) \in Seq(S) /\ Head(seq) \in S /\ Head(seq) \in Range(seq)
         /\ Range(Tail(seq)) \subseteq Range(seq)
         /\ Len(Tail(seq)) = Len(seq) - 1 /\ Len(seq) \in Nat \ {0}
         /\ Head(seq) = seq[1]
         /\ \A k \in 1..Len(Tail(seq)) : Tail(seq)[k] = seq[k + 1] /\ k + 1 \in 1..Len(seq)
<1>1. /\ Tail(seq) \in Seq(S) /\ Head(seq) \in S /\ Head(seq) = seq[1]
      /\ Len(Tail(seq)) = Len(seq) - 1 /\ Len(seq) \in Nat
      /\ \A i \in 1..Len(Tail(seq)) : Tail(seq)[i] = seq[i + 1]
  BY HeadTailProperties, LenProperties
<1>2. Len(seq) # 0
  BY EmptySeq
<1>3. \A k \in 1..Len(Tail(seq)) : Tail(seq)[k] = seq[k + 1] /\ k + 1 \in 1..Len(seq)
  BY <1>1
<1>4. /\ Range(seq) = {seq[i] : i \in 1..Len(seq)}
      /\ Range(Tail(seq)) = {Tail(seq)[i] : i \in 1..Len(Tail(seq))}
  BY <1>1, RangeEquality
<1>5. 1 \in 1..Len(seq)
  BY <1>1, <1>2
<1> QED BY <1>1, <1>2, <1>3, <1>4, <1>5

\* A line put at the end of a sequence: what is in the sequence then.
LEMMA AppendRange ==
  ASSUME NEW S, NEW seq \in Seq(S), NEW e \in S
  PROVE  /\ Append(seq, e) \in Seq(S)
         /\ Range(Append(seq, e)) = Range(seq) \cup {e}
         /\ Len(Append(seq, e)) = Len(seq) + 1 /\ Len(seq) \in Nat
         /\ Append(seq, e)[Len(seq) + 1] = e
         /\ \A k \in 1..Len(seq) : Append(seq, e)[k] = seq[k]
<1>1. /\ Append(seq, e) \in Seq(S) /\ Len(Append(seq, e)) = Len(seq) + 1
      /\ Append(seq, e)[Len(seq) + 1] = e
      /\ \A k \in 1..Len(seq) : Append(seq, e)[k] = seq[k]
      /\ Len(seq) \in Nat
  BY AppendProperties, LenProperties
<1>2. /\ Append(seq, e) = seq \o <<e>> /\ <<e>> \in Seq(S)
      /\ Range(<<e>>) = {e}
  <2>1. <<e>> \in Seq(S) /\ Len(<<e>>) = 1 /\ <<e>>[1] = e
    OBVIOUS
  <2>2. Range(<<e>>) = {<<e>>[i] : i \in 1..1}
    BY <2>1, RangeEquality
  <2>3. Append(seq, e) = seq \o <<e>>
    BY AppendIsConcat
  <2> QED BY <2>1, <2>2, <2>3
<1>3. Range(seq \o <<e>>) = Range(seq) \cup Range(<<e>>)
  <2> DEFINE last == <<e>>
  <2>1. last \in Seq(S)
    BY <1>2
  <2> HIDE DEF last
  <2>2. Range(seq \o last) = Range(seq) \cup Range(last)
    BY <2>1, RangeConcatenation
  <2> QED BY <2>2 DEF last
<1> QED BY <1>1, <1>2, <1>3

\* What is left of a sequence when its first lines are taken.
LEMMA SuffixRange ==
  ASSUME NEW S, NEW seq \in Seq(S), NEW n \in 0..Len(seq)
  PROVE  /\ SubSeq(seq, n + 1, Len(seq)) \in Seq(S)
         /\ Range(SubSeq(seq, n + 1, Len(seq))) \subseteq Range(seq)
         /\ Len(SubSeq(seq, n + 1, Len(seq))) = Len(seq) - n
         /\ Len(seq) \in Nat
         /\ \A k \in 1..(Len(seq) - n) :
              SubSeq(seq, n + 1, Len(seq))[k] = seq[k + n] /\ k + n \in 1..Len(seq)
<1> DEFINE rest == SubSeq(seq, n + 1, Len(seq))
<1>1. Len(seq) \in Nat /\ n \in Nat /\ n <= Len(seq)
  BY LenProperties
<1>2. \A i \in (n + 1)..Len(seq) : seq[i] \in S
  BY <1>1, ElementOfSeq
<1>3. /\ rest \in Seq(S) /\ Len(rest) = Len(seq) - n
      /\ \A k \in 1..(Len(seq) - n) : rest[k] = seq[k + n]
  <2>1. /\ rest \in Seq(S)
        /\ Len(rest) = IF n + 1 <= Len(seq) THEN Len(seq) - (n + 1) + 1 ELSE 0
        /\ \A k \in 1..Len(rest) : rest[k] = seq[n + 1 + k - 1]
    BY <1>1, <1>2, SubSeqProperties
  <2>2. Len(rest) = Len(seq) - n
    BY <1>1, <2>1
  <2>3. \A k \in 1..Len(rest) : n + 1 + k - 1 = k + n
    BY <1>1, <2>2
  <2> QED BY <2>1, <2>2, <2>3
<1>4. \A k \in 1..(Len(seq) - n) : k + n \in 1..Len(seq)
  BY <1>1
<1>5. Range(seq) = {seq[i] : i \in 1..Len(seq)} /\ Range(rest) = {rest[i] : i \in 1..Len(rest)}
  BY <1>3, RangeEquality
<1> QED BY <1>1, <1>3, <1>4, <1>5

(***************************************************************************)
(* The host's steps                                                        *)
(***************************************************************************)

\* What any of them may do to the streams and to what has been acknowledged.
HostMoves ==
  /\ Len(sent) <= Len(sent') /\ nextId <= nextId'
  /\ \A i \in 1..Len(sent) : sent'[i] = sent[i]
  /\ \/ toRobot' = toRobot
     \/ \E line \in WireLines :
          /\ toRobot' = Append(toRobot, line) /\ line.verb # "HELLO"
          /\ IsSequenced(line) => line.id < nextId' /\ line.verb = sent'[line.id]
  /\ Range(toHost') \subseteq Range(toHost)
  /\ \/ highestAcked' = highestAcked
     \/ \E reply \in Range(toHost) : reply.kind = "ack" /\ highestAcked' = reply.n
  /\ UNCHANGED robotVars

\* A step that leaves the host's side of the link well formed.
HostStepOK ==
  HostMoves /\ StreamsTypeOK' /\ SessionTypeOK' /\ HostInOrder'

\* Sending the next command (reliability.py:181-200).
LEMMA NextCommandMoves ==
  ASSUME Convention, Shape, NEW verb \in Verbs, AssignAndSend(verb),
         UNCHANGED <<highestAcked, resend, toHost, robotVars>>
  PROVE  /\ HostMoves /\ HostInOrder' /\ toRobot' \in Seq(WireLines)
         /\ nextId' \in Nat \ {0} /\ sent' \in Seq(Verbs)
         /\ Outstanding' \subseteq Nat \ {0} /\ pending' \in [Outstanding' -> Verbs]
<1> USE DEF Shape, LifecycleTypeOK, StreamsTypeOK, SessionTypeOK
<1>1. /\ nextId' = nextId + 1 /\ nextId <= MaxId /\ nextId \in Nat \ {0}
      /\ toRobot' = Append(toRobot, Line(verb, nextId))
      /\ sent' = Append(sent, verb)
  BY DEF AssignAndSend
<1>2. /\ sent' \in Seq(Verbs) /\ Len(sent) = nextId - 1 /\ Len(sent') = nextId
      /\ \A i \in 1..(nextId - 1) : sent'[i] = sent[i]
      /\ sent'[nextId] = verb
  BY <1>1, AppendProperties DEF HostInOrder
<1>3. /\ Line(verb, nextId) \in SequencedLines /\ Line(verb, nextId) \in WireLines
      /\ Line(verb, nextId).id = nextId /\ Line(verb, nextId).verb = verb
      /\ verb # "HELLO"
  BY <1>1, SessionAssumption DEF Line, WireLines, SequencedLines, UnsequencedVerbs
<1>4. toRobot' \in Seq(WireLines)
  BY <1>1, <1>3, AppendProperties
<1>5. /\ Outstanding' = Outstanding \cup {nextId}
      /\ pending'[nextId] = verb
      /\ \A i \in Outstanding : i # nextId => pending'[i] = pending[i]
      /\ pending' \in [Outstanding' -> Verbs]
  BY DEF AssignAndSend, Outstanding
<1>6. HostInOrder'
  <2>1. ASSUME NEW i \in Outstanding'
        PROVE  i < nextId' /\ pending'[i] = sent'[i]
    <3>1. CASE i = nextId
      BY <1>1, <1>2, <1>5, <3>1
    <3>2. CASE i # nextId
      <4>1. i \in Outstanding /\ i \in Nat \ {0} /\ i < nextId /\ pending[i] = sent[i]
        BY <1>5, <2>1, <3>2 DEF HostInOrder
      <4>2. i \in 1..(nextId - 1)
        BY <1>1, <4>1
      <4> QED BY <1>1, <1>2, <1>5, <3>2, <4>1, <4>2
    <3> QED BY <3>1, <3>2
  <2>2. nextId' <= MaxId + 1
    BY <1>1, SessionAssumption
  <2>3. Len(sent') = nextId' - 1
    BY <1>1, <1>2
  <2> QED BY <1>5, <2>1, <2>2, <2>3 DEF HostInOrder
<1>7. HostMoves
  <2>1. Len(sent) <= Len(sent') /\ nextId <= nextId'
    BY <1>1, <1>2
  <2>2. \E line \in WireLines :
          /\ toRobot' = Append(toRobot, line) /\ line.verb # "HELLO"
          /\ IsSequenced(line) => line.id < nextId' /\ line.verb = sent'[line.id]
    BY <1>1, <1>2, <1>3
  <2> QED BY <1>2, <2>1, <2>2 DEF HostMoves
<1> QED BY <1>1, <1>2, <1>4, <1>5, <1>6, <1>7

\* A verb the host sends, sequenced or not, is a step of the host's allowed kind.
LEMMA SendingMoves ==
  ASSUME Convention, Shape, HostSends
  PROVE  HostStepOK
<1> USE DEF Shape, LifecycleTypeOK
<1>1. ASSUME NEW verb \in Verbs, Send(verb), UNCHANGED robotVars
      PROVE  HostStepOK
  <2>1. /\ AssignAndSend(verb)
        /\ UNCHANGED <<replyVars, pollCooling, wait, probes, toHost, faults>>
    BY <1>1 DEF Send
  <2>2. UNCHANGED <<highestAcked, resend, toHost, robotVars>>
    BY <1>1, <2>1 DEF replyVars
  <2>3. StreamsTypeOK' /\ SessionTypeOK'
    BY <2>1, <2>2, NextCommandMoves DEF StreamsTypeOK, SessionTypeOK, replyVars
  <2> QED BY <2>1, <2>2, <2>3, NextCommandMoves DEF HostStepOK
<1>2. ASSUME NEW verb \in Probes, SendUnsequenced(verb), UNCHANGED robotVars
      PROVE  HostStepOK
  <2>1. /\ toRobot' = Append(toRobot, Line(verb, NoId)) /\ probes' = probes + 1
        /\ UNCHANGED <<sendVars, replyVars, pollCooling, wait, toHost, faults>>
    BY <1>2 DEF SendUnsequenced
  <2>2. /\ Line(verb, NoId) \in WireLines /\ ~IsSequenced(Line(verb, NoId))
        /\ Line(verb, NoId).verb # "HELLO"
    BY SessionAssumption DEF Line, WireLines, IsSequenced, Convention
  <2>3. StreamsTypeOK' /\ SessionTypeOK'
    <3>1. toRobot' \in Seq(WireLines)
      BY <2>1, <2>2, AppendProperties DEF StreamsTypeOK
    <3>2. StreamsTypeOK'
      BY <2>1, <3>1 DEF StreamsTypeOK
    <3>3. SessionTypeOK'
      BY <2>1 DEF SessionTypeOK, Outstanding, sendVars, replyVars
    <3> QED BY <3>2, <3>3
  <2>4. HostInOrder'
    BY <2>1 DEF HostInOrder, Outstanding, sendVars, replyVars
  <2>5. Len(sent) <= Len(sent) /\ nextId <= nextId
    BY LenProperties DEF SessionTypeOK
  <2>6. HostMoves
    BY <1>2, <2>1, <2>2, <2>5 DEF HostMoves, sendVars, replyVars
  <2> QED BY <2>3, <2>4, <2>6 DEF HostStepOK
<1> QED BY <1>1, <1>2 DEF HostSends

\* So is a STATUS poll, ...
LEMMA PollingMoves ==
  ASSUME Convention, Shape, HostPolls
  PROVE  HostStepOK
<1> USE DEF Shape, LifecycleTypeOK
<1>1. /\ AssignAndSend("STATUS") /\ pollCooling' = TRUE /\ resendFirst' = cooling
      /\ UNCHANGED <<highestAcked, hostDone, hostReason, lastNackNext, cooling,
                     resend, wait, probes, toHost, faults, robotVars>>
  BY DEF HostPolls, PollStatus
<1>2. UNCHANGED <<highestAcked, resend, toHost, robotVars>> /\ "STATUS" \in Verbs
  BY <1>1, SessionAssumption
<1>3. StreamsTypeOK' /\ SessionTypeOK'
  BY <1>1, <1>2, NextCommandMoves DEF StreamsTypeOK, SessionTypeOK
<1> QED BY <1>1, <1>2, <1>3, NextCommandMoves DEF HostStepOK

\* ... and so is a retransmission: an old id with its own verb.
LEMMA ResendingMoves ==
  ASSUME Convention, Shape, HostResends
  PROVE  HostStepOK
<1> USE DEF Shape, LifecycleTypeOK
<1>1. PICK id \in resend :
        /\ toRobot' = Append(toRobot, Line(pending[id], id))
        /\ resend' = resend \ {id}
  BY DEF HostResends, ResendNext
<1>2. UNCHANGED <<sendVars, highestAcked, hostDone, hostReason, lastNackNext,
                  cooling, resendFirst, pollCooling, wait, probes, toHost, faults, robotVars>>
  BY DEF HostResends, ResendNext
<1>3. /\ id \in Outstanding /\ id \in Nat \ {0} /\ id < nextId
      /\ pending[id] = sent[id] /\ pending[id] \in Verbs
  BY <1>1 DEF HostInOrder, SessionTypeOK
<1>4. /\ Line(pending[id], id) \in WireLines /\ Line(pending[id], id).verb # "HELLO"
      /\ Line(pending[id], id).id = id /\ Line(pending[id], id).verb = sent[id]
  BY <1>3, SessionAssumption
  DEF Line, WireLines, SequencedLines, UnsequencedVerbs
<1>5. StreamsTypeOK'
  <2>1. toRobot' \in Seq(WireLines)
    BY <1>1, <1>4, AppendProperties DEF StreamsTypeOK
  <2> QED BY <1>2, <2>1 DEF StreamsTypeOK
<1>6. SessionTypeOK' /\ HostInOrder'
  BY <1>1, <1>2 DEF SessionTypeOK, HostInOrder, Outstanding, sendVars
<1>7. Len(sent) <= Len(sent) /\ nextId <= nextId
  BY LenProperties DEF SessionTypeOK
<1>8. HostMoves
  BY <1>1, <1>2, <1>3, <1>4, <1>7 DEF HostMoves, sendVars
<1> QED BY <1>5, <1>6, <1>8 DEF HostStepOK

\* Handling one reply (reliability.py:216-304).
LEMMA PumpingMoves ==
  ASSUME Shape, HostPumps
  PROVE  HostStepOK /\ UNCHANGED <<nextId, sent, toRobot>>
<1> USE DEF Shape, LifecycleTypeOK
<1> DEFINE reply == Head(toHost)
<1>1. /\ toHost # << >> /\ resend = {} /\ toHost' = Tail(toHost)
      /\ UNCHANGED <<nextId, sent, pollCooling, wait, probes, toRobot, faults, robotVars>>
      /\ HandleAck(reply) \/ HandleNack(reply) \/ HandleInfo(reply)
  BY DEF HostPumps, PumpReply
<1>2. /\ toHost' \in Seq(Replies) /\ reply \in Replies /\ reply \in Range(toHost)
      /\ Range(toHost') \subseteq Range(toHost)
  BY <1>1, TailRange DEF StreamsTypeOK
<1>3. reply.n \in Nat /\ reply.done \in Nat /\ reply.reason \in Reasons
  BY <1>2 DEF Replies
<1> HIDE DEF reply
<1>4. StreamsTypeOK'
  BY <1>1, <1>2 DEF StreamsTypeOK
<1>5. Len(sent) <= Len(sent) /\ nextId <= nextId
  BY LenProperties DEF SessionTypeOK
<1> DEFINE kept ==
      /\ SessionTypeOK' /\ HostInOrder'
      /\ \/ highestAcked' = highestAcked
         \/ \E r \in Range(toHost) : r.kind = "ack" /\ highestAcked' = r.n
<1>6. ASSUME HandleAck(reply)
      PROVE  kept
  <2>1. /\ pending' = [i \in {j \in Outstanding : j > reply.n} |-> pending[i]]
        /\ highestAcked' = IF reply.n > highestAcked THEN reply.n ELSE highestAcked
        /\ hostDone' = reply.done /\ hostReason' = reply.reason
        /\ reply.kind = "ack"
        /\ UNCHANGED <<lastNackNext, cooling, resendFirst, resend>>
    BY <1>6 DEF HandleAck, RetireThrough
  <2>2. /\ Outstanding' = {j \in Outstanding : j > reply.n}
        /\ \A i \in Outstanding' : pending'[i] = pending[i]
    BY <2>1 DEF Outstanding
  <2>3. pending' \in [Outstanding' -> Verbs] /\ highestAcked' \in Nat
    BY <1>3, <2>1, <2>2 DEF SessionTypeOK
  <2>4. SessionTypeOK'
    BY <1>1, <1>3, <2>1, <2>2, <2>3 DEF SessionTypeOK
  <2>5. HostInOrder'
    BY <1>1, <2>1, <2>2 DEF HostInOrder
  <2> QED BY <1>2, <2>1, <2>4, <2>5
<1>7. ASSUME HandleNack(reply)
      PROVE  kept
  <2>1. /\ pending' = pending /\ highestAcked' = highestAcked
        /\ hostDone' = reply.done /\ hostReason' = reply.reason
        /\ lastNackNext' \in {lastNackNext, reply.n}
        /\ cooling' \in {cooling, TRUE} /\ resendFirst' \in {resendFirst, FALSE}
        /\ resend' \subseteq Outstanding
    BY <1>1, <1>7 DEF HandleNack
  <2>2. SessionTypeOK'
    BY <1>1, <1>3, <2>1 DEF SessionTypeOK, Outstanding
  <2>3. HostInOrder'
    BY <1>1, <2>1 DEF HostInOrder, Outstanding
  <2> QED BY <2>1, <2>2, <2>3
<1>8. ASSUME HandleInfo(reply)
      PROVE  kept
  <2>1. UNCHANGED <<pending, replyVars>>
    BY <1>8 DEF HandleInfo
  <2>2. SessionTypeOK' /\ HostInOrder' /\ highestAcked' = highestAcked
    BY <1>1, <2>1 DEF SessionTypeOK, HostInOrder, Outstanding, replyVars
  <2> QED BY <2>2
<1>9. kept
  BY <1>1, <1>6, <1>7, <1>8
<1>10. HostMoves
  BY <1>1, <1>2, <1>5, <1>9 DEF HostMoves
<1> QED BY <1>1, <1>4, <1>9, <1>10 DEF HostStepOK

\* A pump that raises only loses replies.
LEMMA RaisingMoves ==
  ASSUME Shape, HostRaises
  PROVE  HostStepOK
<1> USE DEF Shape, LifecycleTypeOK
<1>1. PICK batch \in 1..Len(toHost) : toHost' = SubSeq(toHost, batch + 1, Len(toHost))
  BY DEF HostRaises, PumpRaises
<1>2. /\ wait' = NotWaiting /\ faults' = faults + 1
      /\ UNCHANGED <<sendVars, replyVars, pollCooling, probes, toRobot, robotVars>>
  BY DEF HostRaises, PumpRaises
<1>3. toHost' \in Seq(Replies) /\ Range(toHost') \subseteq Range(toHost)
  <2>1. toHost \in Seq(Replies) /\ Len(toHost) \in Nat
    BY LenProperties DEF StreamsTypeOK
  <2>2. batch \in 0..Len(toHost)
    BY <2>1
  <2> QED BY <1>1, <2>1, <2>2, SuffixRange
<1>4. StreamsTypeOK' /\ HostInOrder'
  BY <1>2, <1>3 DEF StreamsTypeOK, HostInOrder, Outstanding, sendVars, replyVars
<1>5. wait' \in [call : {"none", "ack", "done"}, id : Nat]
  BY <1>2 DEF NotWaiting
<1>6. SessionTypeOK'
  BY <1>2, <1>5 DEF SessionTypeOK, Outstanding, sendVars, replyVars
<1>7. Len(sent) <= Len(sent) /\ nextId <= nextId
  BY LenProperties DEF SessionTypeOK
<1>8. HostMoves
  BY <1>2, <1>3, <1>7 DEF HostMoves, sendVars, replyVars
<1> QED BY <1>4, <1>6, <1>8 DEF HostStepOK

\* Starting or ending a wait, and the ends of the cooldowns.
LEMMA WaitingMoves ==
  ASSUME Shape, HostWaits \/ TimePasses
  PROVE  HostStepOK
<1> USE DEF Shape, LifecycleTypeOK
<1> DEFINE calm ==
      /\ UNCHANGED <<sendVars, highestAcked, hostDone, hostReason, lastNackNext,
                     resend, resendFirst, probes, wireVars, robotVars>>
      /\ cooling' \in BOOLEAN /\ pollCooling' \in BOOLEAN
      /\ wait' \in [call : {"none", "ack", "done"}, id : Nat]
<1>1. calm
  <2>1. ASSUME NEW call \in {"ack", "done"}, NEW id \in 1..MaxId, StartWait(call, id),
               UNCHANGED robotVars
        PROVE  calm
    BY <2>1, SessionAssumption DEF StartWait, replyVars, SessionTypeOK
  <2>2. ASSUME WaitReturns \/ WaitTimesOut, UNCHANGED robotVars
        PROVE  calm
    BY <2>2 DEF WaitReturns, WaitTimesOut, NotWaiting, replyVars, SessionTypeOK
  <2>3. ASSUME CooldownElapses \/ PollCooldownElapses, UNCHANGED robotVars
        PROVE  calm
    BY <2>3 DEF CooldownElapses, PollCooldownElapses, replyVars, SessionTypeOK
  <2> QED BY <2>1, <2>2, <2>3 DEF HostWaits, TimePasses
<1>2. StreamsTypeOK' /\ SessionTypeOK' /\ HostInOrder'
  BY <1>1 DEF StreamsTypeOK, SessionTypeOK, HostInOrder, Outstanding, wireVars, sendVars
<1>3. Len(sent) <= Len(sent) /\ nextId <= nextId
  BY LenProperties DEF SessionTypeOK
<1>4. HostMoves
  BY <1>1, <1>3 DEF HostMoves, wireVars, sendVars
<1> QED BY <1>2, <1>4 DEF HostStepOK

(***************************************************************************)
(* The robot's steps                                                       *)
(***************************************************************************)

\* What it writes after a line that leaves its sequence alone: an ack only
\* restates the last command, and only to a line with an id.
StandsStill(new) ==
  /\ UNCHANGED handlerVars
  /\ \A reply \in Range(new) :
       /\ reply.kind # "device"
       /\ reply.kind = "ack" =>
            IsSequenced(Head(toRobot)) /\ reply.n = expectedNext - 1

\* ... after HELLO ...
StartsOver(new) ==
  /\ Head(toRobot).verb = "HELLO" /\ ResetSequence
  /\ \A reply \in Range(new) : reply.kind = "device"

\* ... and after the command it expects.
MovesOn(new) ==
  /\ Head(toRobot) \in SequencedLines /\ Head(toRobot).id = expectedNext
  /\ expectedNext' = (expectedNext + 1) % IdSpace
  /\ executed' = Append(executed, Head(toRobot))
  /\ \A reply \in Range(new) :
       reply.kind # "device" /\ (reply.kind = "ack" => reply.n = expectedNext)

\* One or two replies, as a set.
LEMMA ShortRange ==
  ASSUME NEW a \in Replies, NEW b \in Replies
  PROVE  /\ <<a>> \in Seq(Replies) /\ Range(<<a>>) = {a}
         /\ <<a, b>> \in Seq(Replies) /\ Range(<<a, b>>) = {a, b}
<1> DEFINE one == <<a>>
           two == <<a, b>>
<1>1. /\ one \in Seq(Replies) /\ Len(one) = 1 /\ one[1] = a
      /\ two \in Seq(Replies) /\ Len(two) = 2 /\ two[1] = a /\ two[2] = b
  BY ShortReplies
<1> HIDE DEF one, two
<1>2. Range(one) = {one[i] : i \in 1..Len(one)} /\ Range(two) = {two[i] : i \in 1..Len(two)}
  BY <1>1, RangeEquality
<1>3. 1..2 = {1, 2} /\ 1..1 = {1}
  OBVIOUS
<1>4. one \in Seq(Replies) /\ Range(one) = {a} /\ two \in Seq(Replies) /\ Range(two) = {a, b}
  BY <1>1, <1>2, <1>3
<1> QED BY <1>4 DEF one, two

\* dispatch() reads a line as it was sent, or damaged; only the first is ever
\* accepted, and only a command can be classified by its id.
LEMMA WhatIsReceived ==
  ASSUME Shape, toRobot # << >>, NEW line, Received(line)
  PROVE  /\ Head(toRobot) \in WireLines
         /\ line.verb = "HELLO" => line = Head(toRobot)
         /\ IsSequenced(line) => Head(toRobot) \in SequencedLines
         /\ Classifiable(line) => line.id \in Nat \ {0} /\ IsSequenced(Head(toRobot))
         /\ Classifiable(line) /\ line.verb \in KnownVerbs => line = Head(toRobot)
<1> DEFINE h == Head(toRobot)
<1>1. h \in WireLines
  BY TailRange DEF Shape, LifecycleTypeOK, StreamsTypeOK
<1> HIDE DEF h
<1>2. IsSequenced(h) <=> h \in SequencedLines
  BY <1>1, SessionAssumption DEF WireLines, SequencedLines, IsSequenced
<1>3. CASE line = h
  BY <1>1, <1>2, <1>3 DEF Classifiable, SequencedLines, h
<1>4. CASE IsSequenced(h) /\ line = [h EXCEPT !.verb = "damaged"]
  <2>1. h \in SequencedLines /\ line.verb = "damaged" /\ line.id = h.id
    BY <1>2, <1>4 DEF SequencedLines
  <2> QED BY <1>1, <1>4, <2>1 DEF SequencedLines, KnownVerbs, h
<1>5. CASE IsSequenced(h) /\ line = [h EXCEPT !.id = NoId]
  <2>1. h \in SequencedLines /\ line.verb = h.verb /\ line.id = NoId
    BY <1>2, <1>5 DEF SequencedLines
  <2>2. ~Classifiable(line) /\ line.verb # "HELLO"
    BY <1>5, <2>1, IdSpaceAssumption
    DEF Classifiable, NoId, IsSequenced, UnsequencedVerbs
  <2> QED BY <1>1, <2>1, <2>2 DEF h
<1> QED BY <1>3, <1>4, <1>5 DEF Received, Damage, h

\* The replies dispatch() writes are replies, whatever numbers they carry.
LEMMA InfoAnswer ==
  ASSUME NEW kind \in {"err", "pong", "estop", "device", "status"}, NEW m \in Nat
  PROVE  /\ <<Info(kind, m)>> \in Seq(Replies) /\ Range(<<Info(kind, m)>>) = {Info(kind, m)}
         /\ Info(kind, m) \in Replies /\ Info(kind, m).kind = kind
<1>1. Info(kind, m) \in Replies /\ Info(kind, m).kind = kind
  BY DEF Info, Replies, Reasons
<1> QED BY <1>1, ShortRange

\* ... an ack, alone or with a second reply ...
LEMMA AckAnswer ==
  ASSUME Shape, NEW n \in Nat
  PROVE  /\ <<AckNow(n)>> \in Seq(Replies) /\ Range(<<AckNow(n)>>) = {AckNow(n)}
         /\ \A b \in Replies : /\ <<AckNow(n), b>> \in Seq(Replies)
                               /\ Range(<<AckNow(n), b>>) = {AckNow(n), b}
         /\ AckNow(n).kind = "ack" /\ AckNow(n).n = n
<1>1. lastDone \in Nat /\ lastDoneReason \in Reasons
  BY DEF Shape, LifecycleTypeOK, RobotTypeOK, AdapterTypeOK
<1>2. AckNow(n) \in Replies /\ AckNow(n).kind = "ack" /\ AckNow(n).n = n
  BY <1>1 DEF AckNow, Ack, Replies
<1> QED BY <1>2, ShortRange

\* ... and a nack, likewise.
LEMMA NackAnswer ==
  ASSUME Shape, NEW n \in Nat
  PROVE  /\ <<NackNow(n)>> \in Seq(Replies) /\ Range(<<NackNow(n)>>) = {NackNow(n)}
         /\ \A b \in Replies : /\ <<NackNow(n), b>> \in Seq(Replies)
                               /\ Range(<<NackNow(n), b>>) = {NackNow(n), b}
         /\ NackNow(n).kind = "nack"
<1>1. lastDone \in Nat /\ lastDoneReason \in Reasons
  BY DEF Shape, LifecycleTypeOK, RobotTypeOK, AdapterTypeOK
<1>2. NackNow(n) \in Replies /\ NackNow(n).kind = "nack"
  BY <1>1 DEF NackNow, Nack, Replies
<1> QED BY <1>2, ShortRange

\* dispatch() on one line does one of the three (protocol_handler.cpp:245-449).
LEMMA DispatchAnswers ==
  ASSUME Shape, toRobot # << >>, NEW line, Received(line), Dispatch(line)
  PROVE  /\ RobotTypeOK'
         /\ \E new \in Seq(Replies) :
              /\ toHost' = toHost \o new
              /\ StandsStill(new) \/ StartsOver(new) \/ MovesOn(new)
<1>1. /\ line.verb = "HELLO" => line = Head(toRobot)
      /\ Classifiable(line) => line.id \in Nat \ {0} /\ IsSequenced(Head(toRobot))
      /\ IsSequenced(line) => Head(toRobot) \in SequencedLines
      /\ Classifiable(line) /\ line.verb \in KnownVerbs => line = Head(toRobot)
  BY WhatIsReceived
<1>2. AdapterTypeOK /\ HandlerTypeOK /\ expectedNext \in Nat /\ executed \in Seq(SequencedLines)
  BY DEF Shape, LifecycleTypeOK, RobotTypeOK, HandlerTypeOK
<1>3. "estop" \in Reasons /\ "stop" \in Reasons
  BY DEF Reasons
<1>4. UNCHANGED adapterVars => AdapterTypeOK'
  BY <1>2 DEF AdapterTypeOK, adapterVars
<1>5. UNCHANGED handlerVars => HandlerTypeOK'
  BY <1>2 DEF HandlerTypeOK, handlerVars
<1> DEFINE answered ==
      /\ RobotTypeOK'
      /\ \E new \in Seq(Replies) :
           /\ toHost' = toHost \o new
           /\ StandsStill(new) \/ StartsOver(new) \/ MovesOn(new)
<1>6. ASSUME HandleEstop(line)
      PROVE  answered
  <2>1. /\ EndAllMotion("estop") /\ UNCHANGED handlerVars
        /\ toHost' = toHost \o <<Info("estop", 0)>>
    BY <1>6 DEF HandleEstop, Reply
  <2>2. RobotTypeOK'
    BY <1>2, <1>3, <1>5, <2>1, AdapterKeepsTypes DEF RobotTypeOK
  <2> DEFINE new == <<Info("estop", 0)>>
  <2>3. new \in Seq(Replies) /\ Range(new) = {Info("estop", 0)} /\ Info("estop", 0).kind = "estop"
    BY InfoAnswer
  <2>4. new \in Seq(Replies) /\ StandsStill(new)
    BY <2>1, <2>3 DEF StandsStill
  <2> QED BY <2>1, <2>2, <2>4
<1>7. ASSUME HandlePing(line)
      PROVE  answered
  <2>1. /\ UNCHANGED <<handlerVars, adapterVars>>
        /\ toHost' = toHost \o <<Info("pong", 0)>>
    BY <1>7 DEF HandlePing, Reply
  <2>2. RobotTypeOK'
    BY <1>4, <1>5, <2>1 DEF RobotTypeOK
  <2> DEFINE new == <<Info("pong", 0)>>
  <2>3. new \in Seq(Replies) /\ Range(new) = {Info("pong", 0)} /\ Info("pong", 0).kind = "pong"
    BY InfoAnswer
  <2>4. new \in Seq(Replies) /\ StandsStill(new)
    BY <2>1, <2>3 DEF StandsStill
  <2> QED BY <2>1, <2>2, <2>4
<1>8. ASSUME HandleHello(line)
      PROVE  answered
  <2>1. /\ line.verb = "HELLO" /\ ResetSequence /\ UNCHANGED adapterVars
        /\ toHost' = toHost \o <<Info("device", 0)>>
    BY <1>8 DEF HandleHello, Reply
  <2>2. RobotTypeOK'
    BY <1>4, <2>1, EmptySeq DEF RobotTypeOK, ResetSequence, HandlerTypeOK
  <2> DEFINE new == <<Info("device", 0)>>
  <2>3. new \in Seq(Replies) /\ Range(new) = {Info("device", 0)} /\ Info("device", 0).kind = "device"
    BY InfoAnswer
  <2>4. new \in Seq(Replies) /\ StartsOver(new)
    BY <1>1, <2>1, <2>3 DEF StartsOver
  <2> QED BY <2>1, <2>2, <2>4
<1>9. ASSUME Unclassifiable(line)
      PROVE  answered
  <2>1. UNCHANGED <<toHost, handlerVars, adapterVars>>
    BY <1>9 DEF Unclassifiable
  <2>2. RobotTypeOK'
    BY <1>4, <1>5, <2>1 DEF RobotTypeOK
  <2>3. << >> \in Seq(Replies) /\ Range(<< >>) = {} /\ toHost' = toHost \o << >>
    <3>1. toHost \in Seq(Replies)
      BY DEF Shape, LifecycleTypeOK, StreamsTypeOK
    <3>2. toHost \o << >> = toHost
      BY <3>1, ConcatEmptySeq
    <3>3. << >> \in Seq(Replies) /\ Len(<< >>) = 0
      BY EmptySeq
    <3> QED BY <2>1, <3>2, <3>3 DEF Range
  <2>4. StandsStill(<< >>)
    BY <2>1, <2>3 DEF StandsStill
  <2> QED BY <2>2, <2>3, <2>4
<1>10. ASSUME StaleLine(line)
       PROVE  answered
  <2>1. /\ UNCHANGED <<handlerVars, adapterVars>> /\ Classifiable(line)
        /\ line.id < expectedNext
        /\ toHost' = toHost \o <<AckNow(expectedNext - 1)>>
    BY <1>10 DEF StaleLine, Reply
  <2>2. RobotTypeOK' /\ expectedNext - 1 \in Nat
    BY <1>1, <1>2, <1>4, <1>5, <2>1 DEF RobotTypeOK
  <2>3. /\ <<AckNow(expectedNext - 1)>> \in Seq(Replies)
        /\ StandsStill(<<AckNow(expectedNext - 1)>>)
    BY <1>1, <2>1, <2>2, AckAnswer DEF StandsStill
  <2> QED BY <2>1, <2>2, <2>3
<1>11. ASSUME GapLine(line)
       PROVE  answered
  <2>1. /\ UNCHANGED <<handlerVars, adapterVars>>
        /\ toHost' = toHost \o <<NackNow(expectedNext)>>
    BY <1>11 DEF GapLine, Reply
  <2>2. RobotTypeOK'
    BY <1>4, <1>5, <2>1 DEF RobotTypeOK
  <2>3. <<NackNow(expectedNext)>> \in Seq(Replies) /\ StandsStill(<<NackNow(expectedNext)>>)
    BY <1>2, <2>1, NackAnswer DEF StandsStill
  <2> QED BY <2>1, <2>2, <2>3
<1>12. ASSUME DecodeFailure(line)
       PROVE  answered
  <2> DEFINE new == <<NackNow(expectedNext), Info("err", line.id)>>
  <2>1. /\ UNCHANGED <<handlerVars, adapterVars>> /\ toHost' = toHost \o new
        /\ line.id \in Nat
    BY <1>1, <1>12 DEF DecodeFailure, Reply
  <2>2. RobotTypeOK'
    BY <1>4, <1>5, <2>1 DEF RobotTypeOK
  <2>3. Info("err", line.id) \in Replies /\ Info("err", line.id).kind = "err"
    BY <2>1, InfoAnswer
  <2>4. new \in Seq(Replies) /\ StandsStill(new)
    BY <1>2, <2>1, <2>3, NackAnswer DEF StandsStill
  <2> QED BY <2>1, <2>2, <2>4
<1>13. ASSUME AcceptLine(line)
       PROVE  answered
  <2>1. /\ line = Head(toRobot) /\ line \in SequencedLines /\ line.id = expectedNext
        /\ expectedNext' = (expectedNext + 1) % IdSpace
        /\ executed' = Append(executed, line)
    BY <1>1, <1>13 DEF AcceptLine, Classifiable
  <2>2. line.id \in Nat /\ expectedNext' \in Nat
    BY <1>2, <2>1, IdSpaceAssumption
  <2>3. HandlerTypeOK'
    BY <1>2, <2>1, <2>2, AppendProperties DEF HandlerTypeOK
  <2>4. ASSUME AdapterTypeOK', NEW new \in Seq(Replies), toHost' = toHost \o new,
               \A reply \in Range(new) :
                 reply.kind # "device" /\ (reply.kind = "ack" => reply.n = line.id)
        PROVE  answered
    BY <2>1, <2>3, <2>4 DEF RobotTypeOK, MovesOn
  <2>5. ASSUME ExecMove(line)
        PROVE  answered
    <3>1. CASE QueueFull
      <4>1. UNCHANGED adapterVars /\ toHost' = toHost \o <<AckNow(line.id), Info("err", line.id)>>
        BY <2>5, <3>1 DEF ExecMove, Reply
      <4>2. Info("err", line.id) \in Replies /\ Info("err", line.id).kind = "err"
        BY <2>2, InfoAnswer
      <4> DEFINE new == <<AckNow(line.id), Info("err", line.id)>>
      <4>3. /\ new \in Seq(Replies)
            /\ \A reply \in Range(new) :
                 reply.kind # "device" /\ (reply.kind = "ack" => reply.n = line.id)
        <5> DEFINE n == line.id
        <5>1. n \in Nat
          BY <2>2
        <5> HIDE DEF n
        <5>2. /\ \A b \in Replies : /\ <<AckNow(n), b>> \in Seq(Replies)
                                     /\ Range(<<AckNow(n), b>>) = {AckNow(n), b}
              /\ AckNow(n).kind = "ack" /\ AckNow(n).n = n
          BY <5>1, AckAnswer
        <5> QED BY <4>2, <5>2 DEF n
      <4>4. AdapterTypeOK' /\ toHost' = toHost \o new
        BY <1>4, <4>1
      <4> HIDE DEF new
      <4> QED BY <2>4, <4>3, <4>4
    <3>2. CASE ~QueueFull
      <4>1. AcceptMotion(line.id) /\ toHost' = toHost \o <<AckNow(line.id)>>
        BY <2>5, <3>2 DEF ExecMove, Reply
      <4>2. AdapterTypeOK'
        BY <1>2, <2>2, <4>1, AdapterKeepsTypes
      <4> QED BY <2>2, <2>4, <4>1, <4>2, AckAnswer
    <3> QED BY <3>1, <3>2
  <2>6. ASSUME ExecStop(line)
        PROVE  answered
    <3>1. EndAllMotion("stop") /\ toHost' = toHost \o <<AckNow(line.id)>>
      BY <2>6 DEF ExecStop, Reply
    <3>2. AdapterTypeOK'
      BY <1>2, <1>3, <3>1, AdapterKeepsTypes
    <3> QED BY <2>2, <2>4, <3>1, <3>2, AckAnswer
  <2>7. ASSUME ExecStatus(line)
        PROVE  answered
    <3>1. /\ UNCHANGED adapterVars
          /\ toHost' = toHost \o <<AckNow(line.id), Info("status", expectedNext')>>
      BY <2>7 DEF ExecStatus, Reply
    <3>2. /\ Info("status", expectedNext') \in Replies
          /\ Info("status", expectedNext').kind = "status"
      BY <2>2, InfoAnswer
    <3> DEFINE new == <<AckNow(line.id), Info("status", expectedNext')>>
    <3>3. /\ new \in Seq(Replies)
          /\ \A reply \in Range(new) :
               reply.kind # "device" /\ (reply.kind = "ack" => reply.n = line.id)
      <4> DEFINE n == line.id
      <4>1. n \in Nat
        BY <2>2
      <4> HIDE DEF n
      <4>2. /\ \A b \in Replies : /\ <<AckNow(n), b>> \in Seq(Replies)
                                   /\ Range(<<AckNow(n), b>>) = {AckNow(n), b}
            /\ AckNow(n).kind = "ack" /\ AckNow(n).n = n
        BY <4>1, AckAnswer
      <4> QED BY <3>2, <4>2 DEF n
    <3>4. AdapterTypeOK' /\ toHost' = toHost \o new
      BY <1>4, <3>1
    <3> HIDE DEF new
    <3> QED BY <2>4, <3>3, <3>4
  <2> QED BY <1>13, <2>5, <2>6, <2>7 DEF AcceptLine
<1> QED BY <1>6, <1>7, <1>8, <1>9, <1>10, <1>11, <1>12, <1>13 DEF Dispatch

\* One line taken off the stream and answered.
LEMMA FeedingAnswers ==
  ASSUME Shape, RobotFeeds
  PROVE  /\ toRobot # << >> /\ toRobot' = Tail(toRobot)
         /\ UNCHANGED sessionVars /\ RobotTypeOK' /\ StreamsTypeOK'
         /\ \E new \in Seq(Replies) :
              /\ Range(toHost') = Range(toHost) \cup Range(new)
              /\ StandsStill(new) \/ StartsOver(new) \/ MovesOn(new)
<1>1. /\ toRobot # << >> /\ toRobot' = Tail(toRobot) /\ UNCHANGED sessionVars
      /\ faults' \in Nat
      /\ \E line : Received(line) /\ Dispatch(line)
  BY DEF RobotFeeds, RobotReceives, RobotReceivesDamaged, Received, Shape,
     LifecycleTypeOK, StreamsTypeOK
<1>2. PICK line : Received(line) /\ Dispatch(line)
  BY <1>1
<1>3. RobotTypeOK'
  BY <1>1, <1>2, DispatchAnswers
<1>4. PICK new \in Seq(Replies) :
        /\ toHost' = toHost \o new
        /\ StandsStill(new) \/ StartsOver(new) \/ MovesOn(new)
  BY <1>1, <1>2, DispatchAnswers
<1>5. toHost' \in Seq(Replies) /\ Range(toHost') = Range(toHost) \cup Range(new)
  <2>1. toHost \in Seq(Replies)
    BY DEF Shape, LifecycleTypeOK, StreamsTypeOK
  <2> QED BY <1>4, <2>1, RangeConcatenation, ConcatProperties
<1>6. StreamsTypeOK'
  BY <1>1, <1>5, TailRange DEF Shape, LifecycleTypeOK, StreamsTypeOK
<1> QED BY <1>1, <1>3, <1>4, <1>5, <1>6

\* What a step adds to the history of effects.
LEMMA WhatJustExecuted ==
  ASSUME Shape
  PROVE  /\ UNCHANGED executed => JustExecuted = {}
         /\ ResetSequence => JustExecuted = {}
         /\ \A line \in SequencedLines :
              executed' = Append(executed, line) => JustExecuted = {line}
<1>1. executed \in Seq(SequencedLines) /\ Len(executed) \in Nat
  BY LenProperties DEF Shape, LifecycleTypeOK, RobotTypeOK, HandlerTypeOK
<1>2. UNCHANGED executed => JustExecuted = {}
  BY <1>1 DEF JustExecuted
<1>3. ASSUME ResetSequence
      PROVE  JustExecuted = {}
  <2>1. Len(executed') = 0
    BY <1>3, EmptySeq DEF ResetSequence
  <2> QED BY <1>1, <2>1 DEF JustExecuted
<1>4. ASSUME NEW line \in SequencedLines, executed' = Append(executed, line)
      PROVE  JustExecuted = {line}
  <2>1. Len(executed') = Len(executed) + 1 /\ executed'[Len(executed) + 1] = line
    BY <1>1, <1>4, AppendProperties
  <2>2. Len(executed') > Len(executed) /\ executed'[Len(executed')] = line
    BY <1>1, <2>1
  <2> QED BY <2>2 DEF JustExecuted
<1> QED BY <1>2, <1>3, <1>4

\* Where it can happen that something is lost, only that is lost.
LEMMA LossDrops ==
  ASSUME Shape, LinkFails
  PROVE  /\ UNCHANGED <<robotVars, sessionVars>> /\ StreamsTypeOK'
         /\ Range(toHost') \subseteq Range(toHost)
         /\ toRobot' = toRobot \/ (toRobot # << >> /\ toRobot' = Tail(toRobot))
<1> USE DEF Shape, LifecycleTypeOK, StreamsTypeOK
<1>1. UNCHANGED <<robotVars, sessionVars>> /\ faults' = faults + 1
  BY DEF LinkFails, LoseLine, LoseReply
<1>2. CASE LoseLine
  BY <1>1, <1>2, TailRange DEF LoseLine
<1>3. CASE LoseReply
  BY <1>1, <1>3, TailRange DEF LoseReply
<1> QED BY <1>2, <1>3 DEF LinkFails

\* The robot's steps as the rest of the argument needs them.
LEMMA RobotRunsShape ==
  ASSUME Shape, RobotRuns
  PROVE  /\ UNCHANGED <<sessionVars, greeting, sessions, reboots>>
         /\ StreamsTypeOK' /\ RobotTypeOK'
         /\ effects' = effects \cup JustExecuted
         /\ \/ /\ UNCHANGED handlerVars
               /\ toRobot' = toRobot \/ (toRobot # << >> /\ toRobot' = Tail(toRobot))
               /\ Range(toHost') \subseteq Range(toHost)
            \/ /\ toRobot # << >> /\ toRobot' = Tail(toRobot)
               /\ \E new \in Seq(Replies) :
                    /\ Range(toHost') = Range(toHost) \cup Range(new)
                    /\ StandsStill(new) \/ StartsOver(new) \/ MovesOn(new)
<1>1. UNCHANGED <<greeting, sessions, reboots>> /\ effects' = effects \cup JustExecuted
  BY DEF RobotRuns
<1>2. CASE RobotFeeds
  BY <1>1, <1>2, FeedingAnswers
<1>3. CASE RobotSteps
  <2>1. MotionCompletes /\ UNCHANGED <<wireVars, handlerVars, sessionVars>>
    BY <1>3 DEF RobotSteps
  <2>2. RobotTypeOK'
    BY <2>1, AdapterKeepsTypes
    DEF Shape, LifecycleTypeOK, RobotTypeOK, HandlerTypeOK, handlerVars
  <2>3. StreamsTypeOK'
    BY <2>1 DEF Shape, LifecycleTypeOK, StreamsTypeOK, wireVars
  <2> QED BY <1>1, <2>1, <2>2, <2>3 DEF wireVars
<1>4. CASE LinkFails
  <2>1. RobotTypeOK'
    BY <1>4, LossDrops DEF Shape, LifecycleTypeOK, RobotTypeOK, AdapterTypeOK,
       HandlerTypeOK, robotVars, adapterVars, handlerVars
  <2> QED BY <1>1, <1>4, <2>1, LossDrops DEF robotVars
<1> QED BY <1>2, <1>3, <1>4 DEF RobotRuns

(***************************************************************************)
(* Well-formedness                                                         *)
(***************************************************************************)

\* The empty sequence is a sequence of everything, and holds nothing.
LEMMA EmptySeqs ==
  /\ << >> \in Seq(WireLines) /\ << >> \in Seq(Replies) /\ << >> \in Seq(Nat)
  /\ << >> \in Seq(SequencedLines) /\ << >> \in Seq(Verbs) /\ Len(<< >>) = 0
  /\ Range(<< >>) = {} /\ DOMAIN << >> = {}
<1>1. /\ << >> \in Seq(WireLines) /\ << >> \in Seq(Replies) /\ << >> \in Seq(Nat)
      /\ << >> \in Seq(SequencedLines) /\ << >> \in Seq(Verbs) /\ Len(<< >>) = 0
  BY EmptySeq
<1>2. DOMAIN << >> = 1..0
  BY <1>1, LenProperties
<1> QED BY <1>1, <1>2 DEF Range

\* A new Session and a robot that starts afresh are well formed.
LEMMA NewSessionShape ==
  ASSUME NewSession
  PROVE  SessionTypeOK' /\ HostInOrder' /\ nextId' = 1 /\ sent' = << >> /\ highestAcked' = 0
<1> USE DEF NewSession
<1>1. Outstanding' = {} /\ pending' \in [Outstanding' -> Verbs]
  <2>1. pending' \in Seq(Verbs) /\ Len(pending') = 0
    BY EmptySeqs
  <2>2. DOMAIN pending' = 1..0 /\ pending' \in [1..0 -> Verbs]
    BY <2>1, LenProperties
  <2> QED BY <2>2 DEF Outstanding
<1>2. SessionTypeOK'
  <2>1. wait' \in [call : {"none", "ack", "done"}, id : Nat] /\ hostReason' \in Reasons
    BY DEF NotWaiting, Reasons
  <2>2. Outstanding' \subseteq Nat \ {0} /\ resend' \subseteq Nat \ {0} /\ sent' \in Seq(Verbs)
    BY <1>1, EmptySeqs
  <2>3. /\ nextId' \in Nat \ {0} /\ probes' \in Nat
        /\ highestAcked' \in Nat /\ hostDone' \in Nat /\ lastNackNext' \in Nat
    OBVIOUS
  <2>4. cooling' \in BOOLEAN /\ pollCooling' \in BOOLEAN /\ resendFirst' \in BOOLEAN
    OBVIOUS
  <2> HIDE DEF NewSession
  <2> QED BY <1>1, <2>1, <2>2, <2>3, <2>4 DEF SessionTypeOK
<1>3. HostInOrder'
  BY <1>1, EmptySeqs, SessionAssumption DEF HostInOrder
<1> QED BY <1>2, <1>3

\* A robot that starts, or is spoken to for the first time, has its types.
LEMMA NewRobotShape ==
  ASSUME ResetSequence, NewAdapter
  PROVE  RobotTypeOK' /\ expectedNext' = 1
BY EmptySeqs DEF ResetSequence, NewAdapter, RobotTypeOK, AdapterTypeOK, HandlerTypeOK, Reasons

\* Opening the link.
LEMMA ReconnectShape ==
  ASSUME Greets, Shape, NEW how \in Connects, Reconnect(how)
  PROVE  /\ Shape' /\ nextId' = 1 /\ sent' = << >> /\ highestAcked' = 0
         /\ effects' = {} /\ greeting' = (how = "hello")
         /\ \/ /\ how = "sim" /\ toRobot' = << >> /\ expectedNext' = 1
               /\ \A reply \in Range(toHost') : reply.kind = "device"
            \/ /\ how = "hello" /\ toHost' = << >>
               /\ UNCHANGED handlerVars
               /\ \E left \in {<< >>, toRobot} :
                    /\ toRobot' = Append(left, Line("HELLO", NoId))
                    /\ left = toRobot => ~HelloUnderWay \/ HelloOutlives \/ FreshChannel
                    /\ FreshChannel => left = << >>
<1> USE DEF Shape, LifecycleTypeOK
<1>1. /\ NewSession /\ sessions' = sessions + 1 /\ greeting' = (how = "hello")
      /\ effects' = {} /\ UNCHANGED <<faults, reboots>>
  BY DEF Reconnect
<1>2. /\ SessionTypeOK' /\ HostInOrder' /\ nextId' = 1 /\ sent' = << >> /\ highestAcked' = 0
  BY <1>1, NewSessionShape
<1>3. how \in {"sim", "hello"}
  BY LifecycleAssumption DEF Greets
<1>4. ASSUME StreamsTypeOK', RobotTypeOK'
      PROVE  Shape'
  BY <1>1, <1>2, <1>4 DEF GreetingIsFirst
<1>5. CASE how = "sim"
  <2>1. /\ toRobot' = << >> /\ toHost' = <<Info("device", 0)>>
        /\ ResetSequence /\ NewAdapter
    BY <1>5 DEF Reconnect
  <2>2. /\ <<Info("device", 0)>> \in Seq(Replies)
        /\ Range(<<Info("device", 0)>>) = {Info("device", 0)}
        /\ Info("device", 0).kind = "device"
    BY InfoAnswer
  <2>3. StreamsTypeOK'
    BY <1>1, <2>1, <2>2, EmptySeqs DEF StreamsTypeOK
  <2>4. RobotTypeOK' /\ expectedNext' = 1
    BY <2>1, NewRobotShape
  <2>5. \A reply \in Range(toHost') : reply.kind = "device"
    BY <2>1, <2>2
  <2> QED BY <1>1, <1>2, <1>4, <1>5, <2>1, <2>3, <2>4, <2>5
<1>6. CASE how = "hello"
  <2> DEFINE left == IF FreshChannel THEN << >> ELSE toRobot
  <2>1. /\ toRobot' = Append(left, Line("HELLO", NoId)) /\ toHost' = << >>
        /\ UNCHANGED robotVars
        /\ HelloUnderWay => HelloOutlives \/ FreshChannel
    BY <1>6 DEF Reconnect
  <2>2. left \in {<< >>, toRobot} /\ left \in Seq(WireLines) /\ (FreshChannel => left = << >>)
    BY EmptySeqs DEF StreamsTypeOK
  <2> HIDE DEF left
  <2>3. Line("HELLO", NoId) \in WireLines
    BY DEF Line, WireLines, UnsequencedVerbs
  <2>4. toRobot' \in Seq(WireLines)
    BY <2>1, <2>2, <2>3, AppendProperties
  <2>5. StreamsTypeOK'
    BY <1>1, <2>1, <2>4, EmptySeqs DEF StreamsTypeOK
  <2>6. RobotTypeOK'
    BY <2>1 DEF RobotTypeOK, AdapterTypeOK, HandlerTypeOK, robotVars, adapterVars, handlerVars
  <2> QED BY <1>1, <1>2, <1>4, <1>6, <2>1, <2>2, <2>5, <2>6 DEF robotVars
<1> QED BY <1>3, <1>5, <1>6

\* A reboot.
LEMMA RebootShape ==
  ASSUME Shape, RobotReboots
  PROVE  /\ Shape' /\ expectedNext' = 1 /\ UNCHANGED <<sessionVars, greeting, effects>>
         /\ Range(toRobot') \subseteq Range(toRobot)
         /\ \A reply \in Range(toHost') : reply \in Range(toHost) \/ reply.kind = "device"
<1> USE DEF Shape, LifecycleTypeOK
<1>1. /\ ResetSequence /\ NewAdapter /\ reboots' = reboots + 1
      /\ toHost' = toHost \o <<Info("device", 0)>>
      /\ UNCHANGED <<sessionVars, faults, sessions, greeting, effects>>
  BY DEF RobotReboots, Reply
<1>2. PICK lost \in 0..Len(toRobot) : toRobot' = SubSeq(toRobot, lost + 1, Len(toRobot))
  BY DEF RobotReboots
<1>3. toRobot' \in Seq(WireLines) /\ Range(toRobot') \subseteq Range(toRobot)
  BY <1>2, SuffixRange DEF StreamsTypeOK
<1> DEFINE banner == <<Info("device", 0)>>
<1>4. /\ banner \in Seq(Replies) /\ Range(banner) = {Info("device", 0)}
      /\ Info("device", 0).kind = "device"
  BY InfoAnswer
<1>5. toHost' = toHost \o banner
  BY <1>1
<1> HIDE DEF banner
<1>6. toHost' \in Seq(Replies) /\ Range(toHost') = Range(toHost) \cup Range(banner)
  BY <1>4, <1>5, RangeConcatenation, ConcatProperties DEF StreamsTypeOK
<1>7. \A reply \in Range(toHost') : reply \in Range(toHost) \/ reply.kind = "device"
  BY <1>4, <1>6
<1>8. RobotTypeOK' /\ expectedNext' = 1
  BY <1>1, NewRobotShape
<1>9. SessionTypeOK' /\ HostInOrder' /\ GreetingIsFirst'
  BY <1>1 DEF SessionTypeOK, HostInOrder, GreetingIsFirst, Outstanding, sessionVars
<1>10. StreamsTypeOK'
  BY <1>1, <1>3, <1>6 DEF StreamsTypeOK
<1> QED BY <1>1, <1>3, <1>7, <1>8, <1>9, <1>10

\* No step leaves the shapes the rest relies on.
LEMMA ShapeKept ==
  ASSUME Greets, Shape, [LifecycleNext]_lifecycleVars
  PROVE  Shape'
<1> USE DEF Shape, LifecycleTypeOK
<1>1. ASSUME NEW how \in Connects, Reconnect(how)
      PROVE  Shape'
  BY <1>1, ReconnectShape
<1>2. CASE RobotReboots
  BY <1>2, RebootShape
<1>3. CASE GreetingPumps
  <2>1. /\ HostPumps /\ UNCHANGED <<sessions, reboots>>
        /\ greeting' \in BOOLEAN /\ effects' \subseteq SequencedLines /\ greeting
    BY <1>3 DEF GreetingPumps
  <2>2. HostStepOK /\ UNCHANGED nextId
    BY <2>1, PumpingMoves
  <2>3. RobotTypeOK'
    BY <2>2 DEF HostStepOK, HostMoves, RobotTypeOK, AdapterTypeOK, HandlerTypeOK,
       robotVars, adapterVars, handlerVars
  <2> QED BY <2>1, <2>2, <2>3 DEF HostStepOK, GreetingIsFirst
<1>4. CASE HostRuns
  <2>1. ~greeting /\ UNCHANGED <<sessions, reboots, greeting, effects>>
    BY <1>4 DEF HostRuns
  <2>2. HostStepOK
    BY <1>4, SendingMoves, WaitingMoves, PollingMoves, PumpingMoves, RaisingMoves,
       ResendingMoves DEF HostRuns, Greets
  <2>3. RobotTypeOK'
    BY <2>2 DEF HostStepOK, HostMoves, RobotTypeOK, AdapterTypeOK, HandlerTypeOK,
       robotVars, adapterVars, handlerVars
  <2> QED BY <2>1, <2>2, <2>3 DEF HostStepOK, GreetingIsFirst
<1>5. CASE RobotRuns
  <2>1. /\ UNCHANGED <<sessionVars, greeting, sessions, reboots>>
        /\ StreamsTypeOK' /\ RobotTypeOK' /\ effects' = effects \cup JustExecuted
    BY <1>5, RobotRunsShape
  <2>2. JustExecuted \subseteq SequencedLines
    <3>1. executed' \in Seq(SequencedLines)
      BY <2>1 DEF RobotTypeOK, HandlerTypeOK
    <3>2. CASE Len(executed') > Len(executed)
      <4>1. Len(executed') \in Nat /\ Len(executed) \in Nat
        BY <3>1, LenProperties DEF RobotTypeOK, HandlerTypeOK
      <4>2. Len(executed') \in 1..Len(executed')
        BY <3>2, <4>1
      <4>3. executed'[Len(executed')] \in SequencedLines
        BY <3>1, <4>2, ElementOfSeq
      <4> QED BY <4>3 DEF JustExecuted
    <3> QED BY <3>2 DEF JustExecuted
  <2>3. SessionTypeOK' /\ HostInOrder' /\ GreetingIsFirst'
    BY <2>1 DEF SessionTypeOK, HostInOrder, GreetingIsFirst, Outstanding, sessionVars
  <2> QED BY <2>1, <2>2, <2>3
<1>6. CASE UNCHANGED lifecycleVars
  BY <1>6 DEF lifecycleVars, vars, wireVars, adapterVars, handlerVars, sessionVars,
     StreamsTypeOK, RobotTypeOK, AdapterTypeOK, HandlerTypeOK, SessionTypeOK,
     HostInOrder, GreetingIsFirst, Outstanding
<1> QED BY <1>1, <1>2, <1>3, <1>4, <1>5, <1>6 DEF LifecycleNext

\* The system starts in its shape.
LEMMA ShapeInitially ==
  ASSUME LifecycleInit
  PROVE  Shape
<1> USE DEF LifecycleInit, LinkInit, WireInit, AdapterInit, HandlerInit, SessionInit
<1>1. Outstanding = {} /\ pending \in [Outstanding -> Verbs]
  <2>1. pending \in Seq(Verbs) /\ Len(pending) = 0
    BY EmptySeqs
  <2>2. DOMAIN pending = 1..0 /\ pending \in [1..0 -> Verbs]
    BY <2>1, LenProperties
  <2> QED BY <2>2 DEF Outstanding
<1>2. SessionTypeOK
  <2>1. wait \in [call : {"none", "ack", "done"}, id : Nat] /\ hostReason \in Reasons
    BY DEF NotWaiting, Reasons
  <2>2. Outstanding \subseteq Nat \ {0} /\ resend \subseteq Nat \ {0} /\ sent \in Seq(Verbs)
    BY <1>1, EmptySeqs
  <2>3. /\ nextId \in Nat \ {0} /\ probes \in Nat
        /\ highestAcked \in Nat /\ hostDone \in Nat /\ lastNackNext \in Nat
    OBVIOUS
  <2>4. cooling \in BOOLEAN /\ pollCooling \in BOOLEAN /\ resendFirst \in BOOLEAN
    OBVIOUS
  <2> QED BY <1>1, <2>1, <2>2, <2>3, <2>4 DEF SessionTypeOK
<1>3. HostInOrder /\ GreetingIsFirst
  BY <1>1, EmptySeqs, SessionAssumption DEF HostInOrder, GreetingIsFirst
<1>4. StreamsTypeOK
  BY EmptySeqs DEF StreamsTypeOK
<1>5. RobotTypeOK
  BY EmptySeqs DEF RobotTypeOK, AdapterTypeOK, HandlerTypeOK, Reasons
<1> QED BY <1>2, <1>3, <1>4, <1>5 DEF Shape, LifecycleTypeOK

(***************************************************************************)
(* With a fresh channel                                                    *)
(***************************************************************************)

\* While the host greets it has sent nothing, so nothing of its can have been
\* executed, and nothing in flight is a command.
LEMMA NothingSentYet ==
  ASSUME Shape, nextId = 1
  PROVE  /\ \A n \in Int : ExecutedThrough(n) <=> n <= 0
         /\ \A line \in WireLines : Own(line) => ~IsSequenced(line)
<1>1. Len(sent) = 0
  BY DEF Shape, HostInOrder
<1>2. \A n \in Int : n > 0 => 1 \in 1..n
  OBVIOUS
<1>3. \A n \in Int : ExecutedThrough(n) => n <= 0
  BY <1>1, <1>2 DEF ExecutedThrough
<1>4. \A n \in Int : n <= 0 => ExecutedThrough(n)
  BY DEF ExecutedThrough
<1>5. ASSUME NEW line \in WireLines, IsSequenced(line)
      PROVE  ~Own(line)
  <2>1. line.id \in Nat \ {0}
    BY <1>5 DEF WireLines, SequencedLines, IsSequenced
  <2> QED BY <1>5, <2>1 DEF Own
<1> QED BY <1>3, <1>4, <1>5

\* What was executed stays executed as long as the session lasts.
LEMMA ExecutedStays ==
  ASSUME Shape, effects \subseteq effects', Len(sent) <= Len(sent'), sent' \in Seq(Verbs),
         \A i \in 1..Len(sent) : sent'[i] = sent[i],
         NEW n \in Int, ExecutedThrough(n)
  PROVE  \A i \in 1..n : i <= Len(sent') /\ Line(sent'[i], i) \in effects'
<1>1. Len(sent) \in Nat /\ Len(sent') \in Nat
  BY LenProperties DEF Shape, LifecycleTypeOK, SessionTypeOK
<1>2. ASSUME NEW i \in 1..n
      PROVE  i <= Len(sent') /\ Line(sent'[i], i) \in effects'
  <2>1. i <= Len(sent) /\ Line(sent[i], i) \in effects
    BY DEF ExecutedThrough
  <2>2. i \in 1..Len(sent)
    BY <1>1, <2>1
  <2> QED BY <1>1, <2>1, <2>2
<1> QED BY <1>2

\* The host's own steps.
LEMMA FreshHostKept ==
  ASSUME Shape, FreshInv, HostRuns, HostStepOK
  PROVE  FreshInv'
<1> USE DEF Shape, LifecycleTypeOK, HostStepOK
<1>1. /\ ~greeting /\ greeting' = greeting /\ effects' = effects /\ HostMoves
      /\ Len(sent) \in Nat /\ Len(sent') \in Nat /\ sent' \in Seq(Verbs)
      /\ expectedNext' = expectedNext /\ expectedNext \in Nat
  BY LenProperties DEF HostRuns, SessionTypeOK, HostMoves, robotVars, handlerVars,
     RobotTypeOK, HandlerTypeOK
<1>2. /\ Len(sent) <= Len(sent') /\ nextId <= nextId'
      /\ \A i \in 1..Len(sent) : sent'[i] = sent[i]
      /\ Len(sent) = nextId - 1 /\ nextId \in Nat /\ nextId' \in Nat
  BY <1>1 DEF HostMoves, HostInOrder, SessionTypeOK
<1>3. ASSUME NEW line \in WireLines, Own(line), IsSequenced(line)
      PROVE  line.id < nextId' /\ line.verb = sent'[line.id]
  <2>1. line.id \in Nat \ {0} /\ line.id < nextId /\ line.verb = sent[line.id]
    BY <1>3 DEF Own, WireLines, SequencedLines, IsSequenced
  <2>2. line.id \in 1..Len(sent) /\ line.id < nextId'
    BY <1>2, <2>1
  <2> QED BY <1>2, <2>1, <2>2
<1>4. \A line \in Range(toRobot') : Own(line)'
  <2>1. Range(toRobot) \subseteq WireLines
    BY RangeOfSeq DEF StreamsTypeOK
  <2>2. CASE toRobot' = toRobot
    BY <1>3, <2>1, <2>2 DEF FreshInv, Own
  <2>3. CASE toRobot' # toRobot
    <3>1. PICK line \in WireLines :
            /\ toRobot' = Append(toRobot, line)
            /\ IsSequenced(line) => line.id < nextId' /\ line.verb = sent'[line.id]
      BY <1>1, <2>3 DEF HostMoves
    <3>2. Range(toRobot') = Range(toRobot) \cup {line}
      BY <3>1, AppendRange DEF StreamsTypeOK
    <3> QED BY <1>3, <2>1, <3>1, <3>2 DEF FreshInv, Own
  <2> QED BY <2>2, <2>3
<1>5. NothingForeign'
  <2>1. ASSUME NEW line \in effects
        PROVE  line.id <= Len(sent') /\ line.verb = sent'[line.id]
    <3>1. line.id <= Len(sent) /\ line.verb = sent[line.id] /\ line.id \in Nat \ {0}
      BY <1>1 DEF FreshInv, NothingForeign, SequencedLines
    <3>2. line.id \in 1..Len(sent)
      BY <1>1, <3>1
    <3> QED BY <1>1, <1>2, <3>1, <3>2
  <2> QED BY <1>1, <2>1 DEF NothingForeign
<1>6. \A n \in Int : ExecutedThrough(n) =>
        \A i \in 1..n : i <= Len(sent') /\ Line(sent'[i], i) \in effects'
  BY <1>1, <1>2, ExecutedStays
<1>7. /\ highestAcked \in Int /\ \A reply \in Range(toHost) : reply.n \in Int
      /\ expectedNext - 1 \in Int
  <2>1. Range(toHost) \subseteq Replies
    BY RangeOfSeq DEF StreamsTypeOK
  <2>2. \A reply \in Range(toHost) : reply.n \in Int
    BY <2>1 DEF Replies
  <2> QED BY <1>1, <2>2 DEF SessionTypeOK
<1>8. AckedWasExecuted'
  <2>1. CASE highestAcked' = highestAcked
    <3>1. ExecutedThrough(highestAcked)
      BY DEF FreshInv, AckedWasExecuted, ExecutedThrough
    <3> QED BY <1>6, <1>7, <2>1, <3>1 DEF AckedWasExecuted
  <2>2. CASE highestAcked' # highestAcked
    <3>1. PICK reply \in Range(toHost) : reply.kind = "ack" /\ highestAcked' = reply.n
      BY <1>1, <2>2 DEF HostMoves
    <3>2. ExecutedThrough(reply.n)
      BY <3>1 DEF FreshInv
    <3> QED BY <1>6, <1>7, <3>1, <3>2 DEF AckedWasExecuted
  <2> QED BY <2>1, <2>2
<1>9. \A reply \in Range(toHost') : reply.kind = "ack" => ExecutedThrough(reply.n)'
  <2>1. Range(toHost') \subseteq Range(toHost)
    BY <1>1 DEF HostMoves
  <2> QED BY <1>6, <1>7, <2>1 DEF FreshInv, ExecutedThrough
<1>10. ExecutedThrough(expectedNext - 1)'
  <2>1. ExecutedThrough(expectedNext - 1)
    BY <1>1 DEF FreshInv
  <2>2. \A i \in 1..(expectedNext - 1) : i <= Len(sent') /\ Line(sent'[i], i) \in effects'
    BY <1>6, <1>7, <2>1
  <2> QED BY <1>1, <2>2 DEF ExecutedThrough
<1> QED BY <1>4, <1>5, <1>8, <1>9, <1>10 DEF FreshInv

\* Reading replies until the banner: all of it is about nothing sent yet.
LEMMA FreshGreetingKept ==
  ASSUME Shape, FreshInv, GreetingPumps
  PROVE  FreshInv'
<1> USE DEF Shape, LifecycleTypeOK
<1>1. /\ HostPumps /\ greeting /\ greeting' = (Head(toHost).kind # "device")
      /\ effects' = IF greeting' THEN effects ELSE {}
      /\ nextId = 1
  BY DEF GreetingPumps, GreetingIsFirst
<1>2. HostStepOK /\ UNCHANGED <<nextId, sent, toRobot>>
  BY <1>1, PumpingMoves
<1>3. /\ HostMoves /\ expectedNext' = expectedNext /\ expectedNext \in Nat
      /\ Range(toHost') \subseteq Range(toHost)
      /\ Head(toHost) \in Range(toHost)
      /\ Range(toHost) \subseteq Replies /\ Len(sent) = 0
  <2>1. toHost # << >>
    BY <1>1 DEF HostPumps, PumpReply
  <2>2. Head(toHost) \in Range(toHost) /\ Range(toHost) \subseteq Replies
    BY <2>1, TailRange, RangeOfSeq DEF StreamsTypeOK
  <2> QED BY <1>1, <1>2, <2>2 DEF HostStepOK, HostMoves, robotVars, handlerVars,
         RobotTypeOK, HandlerTypeOK, HostInOrder
<1>4. \A n \in Int : ExecutedThrough(n) <=> n <= 0
  BY <1>1, NothingSentYet
<1>5. \A n \in Int : n <= 0 => \A i \in 1..n : i <= Len(sent') /\ Line(sent'[i], i) \in effects'
  OBVIOUS
<1>6. \A reply \in Range(toHost) : reply.kind = "ack" => reply.n \in Int /\ reply.n <= 0
  BY <1>3, <1>4 DEF FreshInv, Replies
<1>7. highestAcked' \in Int /\ highestAcked' <= 0
  <2>1. highestAcked \in Int /\ highestAcked <= 0
    <3>1. ExecutedThrough(highestAcked) /\ highestAcked \in Int
      BY DEF FreshInv, AckedWasExecuted, ExecutedThrough, SessionTypeOK
    <3> QED BY <1>4, <3>1
  <2> QED BY <1>3, <1>6, <2>1 DEF HostMoves
<1>8. AckedWasExecuted'
  BY <1>5, <1>7 DEF AckedWasExecuted
<1>9. \A reply \in Range(toHost') : reply.kind = "ack" => ExecutedThrough(reply.n)'
  BY <1>3, <1>5, <1>6 DEF ExecutedThrough
<1>10. \A line \in Range(toRobot') : Own(line)'
  BY <1>2 DEF FreshInv, Own
<1>11. NothingForeign'
  BY <1>1 DEF NothingForeign
<1>12. ASSUME (~greeting \/ BannerUnread)'
       PROVE  ExecutedThrough(expectedNext - 1)'
  <2>1. BannerUnread
    BY <1>1, <1>3, <1>12 DEF BannerUnread
  <2>2. ExecutedThrough(expectedNext - 1) /\ expectedNext - 1 \in Int
    BY <1>3, <2>1 DEF FreshInv
  <2>3. expectedNext - 1 <= 0
    BY <1>4, <2>2
  <2> QED BY <1>3, <1>5, <2>2, <2>3 DEF ExecutedThrough
<1> QED BY <1>8, <1>9, <1>10, <1>11, <1>12 DEF FreshInv

\* The next id does not wrap while the ids keep to the convention.
LEMMA NextIdFits ==
  ASSUME Convention, Shape, NEW id \in Nat, id <= MaxId
  PROVE  (id + 1) % IdSpace = id + 1
<1>1. id + 1 \in Nat /\ IdSpace \in Nat /\ id + 1 < IdSpace
  BY SessionAssumption, IdSpaceAssumption DEF Convention
<1> QED BY <1>1, SmallRemainder

\* The robot's steps.
LEMMA FreshRobotKept ==
  ASSUME Convention, Shape, FreshInv, RobotRuns
  PROVE  FreshInv'
<1> USE DEF Shape, LifecycleTypeOK
<1>1. /\ UNCHANGED <<sessionVars, greeting>> /\ effects' = effects \cup JustExecuted
      /\ \/ /\ UNCHANGED handlerVars
            /\ toRobot' = toRobot \/ (toRobot # << >> /\ toRobot' = Tail(toRobot))
            /\ Range(toHost') \subseteq Range(toHost)
         \/ /\ toRobot # << >> /\ toRobot' = Tail(toRobot)
            /\ \E new \in Seq(Replies) :
                 /\ Range(toHost') = Range(toHost) \cup Range(new)
                 /\ StandsStill(new) \/ StartsOver(new) \/ MovesOn(new)
  BY RobotRunsShape
<1>2. /\ nextId' = nextId /\ sent' = sent /\ highestAcked' = highestAcked
      /\ Len(sent) = nextId - 1 /\ nextId \in Nat /\ nextId <= MaxId + 1
      /\ expectedNext \in Nat /\ sent \in Seq(Verbs) /\ Len(sent) \in Nat
      /\ highestAcked \in Int
  BY <1>1, LenProperties DEF sessionVars, HostInOrder, SessionTypeOK, RobotTypeOK, HandlerTypeOK
<1>3. Range(toHost) \subseteq Replies /\ Range(toRobot) \subseteq WireLines
  BY RangeOfSeq DEF StreamsTypeOK
<1>4. \A line \in Range(toRobot') : Own(line)'
  <2>1. Range(toRobot') \subseteq Range(toRobot)
    BY <1>1, TailRange DEF StreamsTypeOK
  <2> QED BY <1>2, <2>1 DEF FreshInv, Own
<1>5. \A n \in Int : ExecutedThrough(n) => ExecutedThrough(n)'
  BY <1>1, <1>2 DEF ExecutedThrough
<1>6. AckedWasExecuted'
  BY <1>1, <1>2 DEF FreshInv, AckedWasExecuted
<1>7. \A reply \in Range(toHost) : reply.kind = "ack" => ExecutedThrough(reply.n)'
  <2>1. \A reply \in Range(toHost) : reply.n \in Int
    BY <1>3 DEF Replies
  <2> QED BY <1>5, <2>1 DEF FreshInv
<1> DEFINE rest == /\ NothingForeign'
                   /\ \A reply \in Range(toHost') : reply.kind = "ack" => ExecutedThrough(reply.n)'
                   /\ (~greeting \/ BannerUnread)' => ExecutedThrough(expectedNext - 1)'
<1>8. ASSUME UNCHANGED handlerVars
      PROVE  NothingForeign'
  <2>1. JustExecuted = {}
    BY <1>8, WhatJustExecuted DEF handlerVars
  <2> QED BY <1>1, <1>2, <2>1 DEF FreshInv, NothingForeign
<1>9. ASSUME UNCHANGED handlerVars, (~greeting \/ BannerUnread)', BannerUnread' => BannerUnread
      PROVE  ExecutedThrough(expectedNext - 1)'
  <2>1. ExecutedThrough(expectedNext - 1) /\ expectedNext - 1 \in Int
    BY <1>1, <1>2, <1>9 DEF FreshInv
  <2>2. expectedNext' = expectedNext
    BY <1>9 DEF handlerVars
  <2> QED BY <1>5, <2>1, <2>2 DEF ExecutedThrough
<1>10. ASSUME UNCHANGED handlerVars, Range(toHost') \subseteq Range(toHost)
       PROVE  rest
  <2>1. BannerUnread' => BannerUnread
    BY <1>10 DEF BannerUnread
  <2> QED BY <1>7, <1>8, <1>9, <1>10, <2>1
<1>11. ASSUME toRobot # << >>, NEW new \in Seq(Replies),
              Range(toHost') = Range(toHost) \cup Range(new),
              StandsStill(new) \/ StartsOver(new) \/ MovesOn(new)
       PROVE  rest
  <2>1. Head(toRobot) \in WireLines /\ Own(Head(toRobot))
    BY <1>11, TailRange DEF StreamsTypeOK, FreshInv
  <2>2. IsSequenced(Head(toRobot)) => ~greeting
    BY <2>1, NothingSentYet DEF GreetingIsFirst
  <2>3. CASE StandsStill(new)
    <3>1. /\ UNCHANGED handlerVars
          /\ \A reply \in Range(new) :
               /\ reply.kind # "device"
               /\ reply.kind = "ack" =>
                    IsSequenced(Head(toRobot)) /\ reply.n = expectedNext - 1
      BY <2>3 DEF StandsStill
    <3>2. BannerUnread' => BannerUnread
      BY <1>11, <3>1 DEF BannerUnread
    <3>3. expectedNext - 1 \in Int /\ (~greeting => ExecutedThrough(expectedNext - 1))
      BY <1>2 DEF FreshInv
    <3>4. \A reply \in Range(new) : reply.kind = "ack" => ExecutedThrough(reply.n)'
      BY <1>5, <2>2, <3>1, <3>3
    <3> QED BY <1>7, <1>8, <1>9, <1>11, <3>1, <3>2, <3>4
  <2>4. CASE StartsOver(new)
    <3>1. /\ expectedNext' = 1 /\ JustExecuted = {}
          /\ \A reply \in Range(new) : reply.kind = "device"
      BY <2>4, WhatJustExecuted DEF StartsOver, ResetSequence
    <3>2. ExecutedThrough(expectedNext - 1)'
      BY <3>1 DEF ExecutedThrough
    <3>3. NothingForeign'
      BY <1>1, <1>2, <3>1 DEF FreshInv, NothingForeign
    <3> QED BY <1>7, <1>11, <3>1, <3>2, <3>3
  <2>5. CASE MovesOn(new)
    <3> DEFINE h == Head(toRobot)
    <3>1. /\ h \in SequencedLines /\ h.id = expectedNext
          /\ expectedNext' = (expectedNext + 1) % IdSpace
          /\ executed' = Append(executed, h)
          /\ \A reply \in Range(new) :
               reply.kind # "device" /\ (reply.kind = "ack" => reply.n = expectedNext)
      BY <2>5 DEF MovesOn
    <3>2. IsSequenced(h) /\ h.id \in Nat \ {0}
      BY <3>1, SessionAssumption DEF SequencedLines, IsSequenced
    <3>3. h.id < nextId /\ h.verb = sent[h.id] /\ ~greeting
      BY <2>1, <2>2, <3>2 DEF Own
    <3>4. expectedNext <= MaxId /\ expectedNext <= Len(sent)
      BY <1>2, <3>1, <3>3, SessionAssumption
    <3>5. expectedNext' = expectedNext + 1
      BY <1>2, <3>1, <3>4, NextIdFits
    <3>6. h = Line(sent[expectedNext], expectedNext)
      BY <3>1, <3>3 DEF Line, SequencedLines
    <3>7. effects' = effects \cup {h}
      BY <1>1, <3>1, WhatJustExecuted
    <3> HIDE DEF h
    <3>8. ExecutedThrough(expectedNext - 1)
      BY <3>3 DEF FreshInv
    <3>9. \A i \in 1..expectedNext : i <= Len(sent) /\ Line(sent[i], i) \in effects'
      <4>1. \A i \in 1..expectedNext : i = expectedNext \/ i \in 1..(expectedNext - 1)
        BY <1>2
      <4> QED BY <3>4, <3>6, <3>7, <3>8, <4>1 DEF ExecutedThrough
    <3>10. ExecutedThrough(expectedNext - 1)'
      <4>1. \A i \in 1..(expectedNext' - 1) : i \in 1..expectedNext
        BY <1>2, <3>5
      <4> QED BY <1>2, <3>9, <4>1 DEF ExecutedThrough
    <3>11. \A reply \in Range(new) : reply.kind = "ack" => ExecutedThrough(reply.n)'
      BY <1>2, <3>1, <3>9 DEF ExecutedThrough
    <3>12. NothingForeign'
      <4>1. h.id <= Len(sent)
        BY <3>1, <3>4
      <4> QED BY <1>1, <1>2, <3>3, <3>7, <4>1 DEF FreshInv, NothingForeign
    <3> QED BY <1>7, <1>11, <3>10, <3>11, <3>12
  <2> QED BY <1>11, <2>3, <2>4, <2>5
<1> QED BY <1>1, <1>4, <1>6, <1>10, <1>11 DEF FreshInv

\* A reboot: the robot's own count starts again, what was executed stays so.
LEMMA FreshRebootKept ==
  ASSUME Shape, FreshInv, RobotReboots
  PROVE  FreshInv'
<1>1. /\ expectedNext' = 1 /\ UNCHANGED <<sessionVars, greeting, effects>>
      /\ Range(toRobot') \subseteq Range(toRobot)
      /\ \A reply \in Range(toHost') : reply \in Range(toHost) \/ reply.kind = "device"
  BY RebootShape
<1>2. /\ nextId' = nextId /\ sent' = sent /\ highestAcked' = highestAcked
      /\ greeting' = greeting /\ effects' = effects
  BY <1>1 DEF sessionVars
<1>3. \A line \in Range(toRobot') : Own(line)'
  BY <1>1, <1>2 DEF FreshInv, Own
<1>4. NothingForeign' /\ AckedWasExecuted'
  BY <1>2 DEF FreshInv, NothingForeign, AckedWasExecuted
<1>5. \A reply \in Range(toHost') : reply.kind = "ack" => ExecutedThrough(reply.n)'
  BY <1>1, <1>2 DEF FreshInv, ExecutedThrough
<1>6. ExecutedThrough(expectedNext - 1)'
  BY <1>1 DEF ExecutedThrough
<1> QED BY <1>3, <1>4, <1>5, <1>6 DEF FreshInv

\* With a channel per Session, opening a Session leaves nothing foreign behind.
LEMMA FreshReconnectKept ==
  ASSUME Greets, FreshChannel, Shape, NEW how \in Connects, Reconnect(how)
  PROVE  FreshInv'
<1>1. /\ nextId' = 1 /\ sent' = << >> /\ highestAcked' = 0 /\ effects' = {}
      /\ greeting' = (how = "hello")
      /\ \/ /\ how = "sim" /\ toRobot' = << >> /\ expectedNext' = 1
            /\ \A reply \in Range(toHost') : reply.kind = "device"
         \/ /\ how = "hello" /\ toHost' = << >>
            /\ toRobot' = Append(<< >>, Line("HELLO", NoId))
  BY ReconnectShape
<1>2. \A line \in Range(toRobot') : Own(line)'
  <2>1. CASE toRobot' = << >>
    BY <2>1, EmptySeqs
  <2>2. CASE toRobot' = Append(<< >>, Line("HELLO", NoId))
    <3>1. /\ Line("HELLO", NoId) \in WireLines /\ Line("HELLO", NoId).verb = "HELLO"
      BY DEF Line, WireLines, UnsequencedVerbs
    <3>2. Range(toRobot') = Range(<< >>) \cup {Line("HELLO", NoId)}
      <4> DEFINE hello == Line("HELLO", NoId)
                 none == << >>
      <4>1. hello \in WireLines /\ none \in Seq(WireLines) /\ toRobot' = Append(none, hello)
        BY <2>2, <3>1, EmptySeqs
      <4> HIDE DEF hello, none
      <4>2. Range(toRobot') = Range(none) \cup {hello}
        BY <4>1, AppendRange
      <4> QED BY <4>2 DEF hello, none
    <3>3. ~IsSequenced(Line("HELLO", NoId))
      BY <3>1 DEF IsSequenced, UnsequencedVerbs
    <3> QED BY <3>2, <3>3, EmptySeqs DEF Own
  <2> QED BY <1>1, <2>1, <2>2
<1>3. NothingForeign' /\ AckedWasExecuted'
  BY <1>1 DEF NothingForeign, AckedWasExecuted
<1>4. \A reply \in Range(toHost') : reply.kind # "ack"
  BY <1>1, EmptySeqs
<1>5. ASSUME (~greeting \/ BannerUnread)'
      PROVE  ExecutedThrough(expectedNext - 1)'
  <2>1. expectedNext' = 1
    BY <1>1, <1>5, EmptySeqs DEF BannerUnread
  <2> QED BY <2>1 DEF ExecutedThrough
<1> QED BY <1>2, <1>3, <1>4, <1>5 DEF FreshInv

\* With a channel per Session, every step keeps what is on the wires its own.
LEMMA FreshKept ==
  ASSUME Greets, FreshChannel, Shape, FreshInv, [LifecycleNext]_lifecycleVars
  PROVE  FreshInv'
<1>1. CASE HostRuns
  <2>1. HostStepOK
    BY <1>1, SendingMoves, WaitingMoves, PollingMoves, PumpingMoves, RaisingMoves,
       ResendingMoves DEF HostRuns, Greets
  <2> QED BY <1>1, <2>1, FreshHostKept
<1>2. CASE UNCHANGED lifecycleVars
  BY <1>2 DEF lifecycleVars, vars, wireVars, handlerVars, sessionVars, FreshInv, Own,
     NothingForeign, AckedWasExecuted, ExecutedThrough, BannerUnread
<1> QED BY <1>1, <1>2, FreshReconnectKept, FreshRebootKept, FreshGreetingKept,
        FreshRobotKept DEF LifecycleNext, Greets

\* Nothing is on the wires at the start.
LEMMA FreshInitially ==
  ASSUME LifecycleInit
  PROVE  FreshInv
<1>1. /\ toRobot = << >> /\ toHost = << >> /\ highestAcked = 0 /\ effects = {}
      /\ expectedNext = 1
  BY DEF LifecycleInit, LinkInit, WireInit, HandlerInit, SessionInit
<1> QED BY <1>1, EmptySeqs DEF FreshInv, NothingForeign, AckedWasExecuted, ExecutedThrough

\* Every variable keeps its type through any number of sessions and reboots.
THEOREM LifecycleTypeCorrect ==
  ASSUME Greets
  PROVE  LifecycleSpec => []LifecycleTypeOK
<1>1. LifecycleInit => Shape
  BY ShapeInitially
<1>2. Shape /\ [LifecycleNext]_lifecycleVars => Shape'
  BY ShapeKept
<1>3. Shape => LifecycleTypeOK
  BY DEF Shape
<1> QED BY <1>1, <1>2, <1>3, PTL DEF LifecycleSpec

\* So with a channel per Session it is so always.
LEMMA FreshInvariant ==
  ASSUME Greets, FreshChannel
  PROVE  LifecycleSpec => [](Shape /\ FreshInv)
<1>1. LifecycleInit => Shape /\ FreshInv
  BY ShapeInitially, FreshInitially
<1>2. Shape /\ FreshInv /\ [LifecycleNext]_lifecycleVars => (Shape /\ FreshInv)'
  BY ShapeKept, FreshKept
<1> QED BY <1>1, <1>2, PTL DEF LifecycleSpec

\* When no earlier program's line is still to arrive, an acknowledged command
\* was executed during this session, whatever the robot's reboots
\* (protocol_handler.cpp:399-405, reliability.py:252-257).
THEOREM AckMeansExecutedHere ==
  ASSUME Greets, FreshChannel
  PROVE  LifecycleSpec => []AckedWasExecuted
<1>1. FreshInv => AckedWasExecuted
  BY DEF FreshInv
<1> QED BY <1>1, FreshInvariant, PTL

\* ... and the robot executes only what this session sent.
THEOREM FreshSessionIsOwn ==
  ASSUME Greets, FreshChannel
  PROVE  LifecycleSpec => []NothingForeign
<1>1. FreshInv => NothingForeign
  BY DEF FreshInv
<1> QED BY <1>1, FreshInvariant, PTL

(***************************************************************************)
(* With lines of earlier sessions still under way, and no reboot           *)
(***************************************************************************)

\* Without reboots the host's steps leave a HELLO last and add only their own
\* lines, ...
LEMMA StaleHostKept ==
  ASSUME Shape, StaleInv, HostRuns, HostStepOK
  PROVE  StaleInv'
<1> USE DEF Shape, LifecycleTypeOK, HostStepOK
<1>1. /\ ~greeting /\ greeting' = greeting /\ effects' = effects /\ HostMoves
      /\ sent' \in Seq(Verbs) /\ expectedNext' = expectedNext
      /\ toRobot \in Seq(WireLines) /\ Range(toRobot) \subseteq WireLines
  BY RangeOfSeq DEF HostRuns, SessionTypeOK, HostMoves, robotVars, handlerVars, StreamsTypeOK
<1>2. /\ Len(sent) <= Len(sent') /\ nextId <= nextId'
      /\ \A i \in 1..Len(sent) : sent'[i] = sent[i]
      /\ Len(sent) = nextId - 1 /\ nextId \in Nat /\ nextId' \in Nat
      /\ nextId' <= MaxId + 1 /\ Len(sent) \in Nat /\ Len(sent') \in Nat
  BY <1>1, LenProperties DEF HostMoves, HostInOrder, SessionTypeOK
<1>3. ASSUME NEW line \in WireLines, Own(line), IsSequenced(line)
      PROVE  line.id < nextId' /\ line.verb = sent'[line.id]
  <2>1. line.id \in Nat \ {0} /\ line.id < nextId /\ line.verb = sent[line.id]
    BY <1>3 DEF Own, WireLines, SequencedLines, IsSequenced
  <2>2. line.id \in 1..Len(sent) /\ line.id < nextId'
    BY <1>2, <2>1
  <2> QED BY <1>2, <2>1, <2>2
<1>4. ASSUME NEW line \in WireLines, IsSequenced(line), line.id < nextId'
      PROVE  line.id <= MaxId
  <2>1. line.id \in Nat
    BY <1>4 DEF WireLines, SequencedLines, IsSequenced
  <2> QED BY <1>2, <1>4, <2>1, SessionAssumption
<1> DEFINE streamOK ==
      /\ \A line \in Range(toRobot') : IsSequenced(line) => line.id <= MaxId
      /\ \A k \in 1..Len(toRobot') : toRobot'[k].verb # "HELLO"
      /\ \A line \in Range(toRobot') : Own(line)'
<1>5. streamOK
  <2>1. CASE toRobot' = toRobot
    BY <1>1, <1>3, <2>1 DEF StaleInv, Own
  <2>2. CASE toRobot' # toRobot
    <3>1. PICK line \in WireLines :
            /\ toRobot' = Append(toRobot, line) /\ line.verb # "HELLO"
            /\ IsSequenced(line) => line.id < nextId' /\ line.verb = sent'[line.id]
      BY <1>1, <2>2 DEF HostMoves
    <3>2. /\ Range(toRobot') = Range(toRobot) \cup {line}
          /\ Len(toRobot') = Len(toRobot) + 1 /\ Len(toRobot) \in Nat
          /\ toRobot'[Len(toRobot) + 1] = line
          /\ \A k \in 1..Len(toRobot) : toRobot'[k] = toRobot[k]
      BY <1>1, <3>1, AppendRange
    <3>3. \A k \in 1..Len(toRobot') : k \in 1..Len(toRobot) \/ k = Len(toRobot) + 1
      BY <3>2
    <3>4. \A k \in 1..Len(toRobot') : toRobot'[k].verb # "HELLO"
      BY <1>1, <3>1, <3>2, <3>3 DEF StaleInv
    <3>5. IsSequenced(line) => line.id <= MaxId
      BY <1>4, <3>1
    <3>6. \A l \in Range(toRobot') : IsSequenced(l) => l.id <= MaxId
      BY <3>2, <3>5 DEF StaleInv
    <3>7. \A l \in Range(toRobot') : Own(l)'
      BY <1>1, <1>3, <3>1, <3>2 DEF StaleInv, Own
    <3> QED BY <3>4, <3>6, <3>7
  <2> QED BY <2>1, <2>2
<1>6. NothingForeign'
  <2>1. ASSUME NEW line \in effects
        PROVE  line.id <= Len(sent') /\ line.verb = sent'[line.id]
    <3>1. line.id <= Len(sent) /\ line.verb = sent[line.id] /\ line.id \in Nat \ {0}
      BY <1>1 DEF StaleInv, NothingForeign, SequencedLines
    <3>2. line.id \in 1..Len(sent)
      BY <1>2, <3>1
    <3> QED BY <1>2, <3>1, <3>2
  <2> QED BY <1>1, <2>1 DEF NothingForeign
<1>7. \A line \in effects' : line.id < expectedNext'
  BY <1>1 DEF StaleInv
<1> QED BY <1>1, <1>5, <1>6, <1>7 DEF StaleInv

\* The banner is read: HELLO was the last line under way.
LEMMA StaleGreetingKept ==
  ASSUME Shape, StaleInv, GreetingPumps
  PROVE  StaleInv'
<1> USE DEF Shape, LifecycleTypeOK
<1>1. /\ HostPumps /\ greeting /\ greeting' = (Head(toHost).kind # "device")
      /\ effects' = IF greeting' THEN effects ELSE {}
  BY DEF GreetingPumps
<1>2. HostStepOK /\ UNCHANGED <<nextId, sent, toRobot>>
  BY <1>1, PumpingMoves
<1>3. /\ expectedNext' = expectedNext
      /\ Range(toHost') \subseteq Range(toHost) /\ Head(toHost) \in Range(toHost)
  <2>1. toHost # << >>
    BY <1>1 DEF HostPumps, PumpReply
  <2>2. Head(toHost) \in Range(toHost)
    BY <2>1, TailRange DEF StreamsTypeOK
  <2> QED BY <1>2, <2>2 DEF HostStepOK, HostMoves, robotVars, handlerVars
<1>4. CASE greeting'
  <2>1. BannerUnread' => BannerUnread
    BY <1>3 DEF BannerUnread
  <2> QED BY <1>1, <1>2, <1>3, <1>4, <2>1 DEF StaleInv, NothingForeign
<1>5. CASE ~greeting'
  <2>1. BannerUnread
    BY <1>1, <1>3, <1>5 DEF BannerUnread
  <2>2. toRobot' = << >> /\ effects' = {}
    BY <1>1, <1>2, <1>5, <2>1 DEF StaleInv
  <2>3. Range(toRobot') = {} /\ Len(toRobot') = 0
    BY <2>2, EmptySeqs
  <2> QED BY <1>5, <2>2, <2>3 DEF StaleInv, NothingForeign
<1> QED BY <1>4, <1>5

\* The robot's steps, and that they repeat nothing of this session.
LEMMA StaleRobotKept ==
  ASSUME Convention, Shape, StaleInv, RobotRuns
  PROVE  StaleInv' /\ JustExecuted \cap effects = {}
<1> USE DEF Shape, LifecycleTypeOK
<1>1. /\ UNCHANGED <<sessionVars, greeting>> /\ effects' = effects \cup JustExecuted
      /\ \/ /\ UNCHANGED handlerVars
            /\ toRobot' = toRobot \/ (toRobot # << >> /\ toRobot' = Tail(toRobot))
            /\ Range(toHost') \subseteq Range(toHost)
         \/ /\ toRobot # << >> /\ toRobot' = Tail(toRobot)
            /\ \E new \in Seq(Replies) :
                 /\ Range(toHost') = Range(toHost) \cup Range(new)
                 /\ StandsStill(new) \/ StartsOver(new) \/ MovesOn(new)
  BY RobotRunsShape
<1>2. /\ nextId' = nextId /\ sent' = sent /\ greeting' = greeting
      /\ Len(sent) = nextId - 1 /\ nextId \in Nat /\ expectedNext \in Nat
      /\ toRobot \in Seq(WireLines) /\ effects \subseteq SequencedLines
  BY <1>1 DEF sessionVars, HostInOrder, SessionTypeOK, RobotTypeOK, HandlerTypeOK, StreamsTypeOK
<1>3. toRobot # << >> =>
        /\ Range(Tail(toRobot)) \subseteq Range(toRobot)
        /\ Len(Tail(toRobot)) = Len(toRobot) - 1 /\ Len(toRobot) \in Nat \ {0}
        /\ Head(toRobot) = toRobot[1] /\ Head(toRobot) \in Range(toRobot)
        /\ \A k \in 1..Len(Tail(toRobot)) :
             Tail(toRobot)[k] = toRobot[k + 1] /\ k + 1 \in 1..Len(toRobot)
  BY <1>2, TailRange
<1> DEFINE streamOK ==
      /\ \A line \in Range(toRobot') : IsSequenced(line) => line.id <= MaxId
      /\ \A k \in 1..Len(toRobot') :
           toRobot'[k].verb = "HELLO" => greeting' /\ k = Len(toRobot')
      /\ ~greeting' => \A line \in Range(toRobot') : Own(line)'
<1>4. streamOK
  <2>1. CASE toRobot' = toRobot
    BY <1>2, <2>1 DEF StaleInv, Own
  <2>2. CASE toRobot # << >> /\ toRobot' = Tail(toRobot)
    <3>1. ASSUME NEW k \in 1..Len(toRobot'), toRobot'[k].verb = "HELLO"
          PROVE  greeting' /\ k = Len(toRobot')
      <4>1. toRobot[k + 1].verb = "HELLO" /\ k + 1 \in 1..Len(toRobot)
        BY <1>3, <2>2, <3>1
      <4>2. greeting /\ k + 1 = Len(toRobot)
        BY <4>1 DEF StaleInv
      <4> QED BY <1>2, <1>3, <2>2, <4>2
    <3> QED BY <1>2, <1>3, <2>2, <3>1 DEF StaleInv, Own
  <2> QED BY <1>1, <2>1, <2>2
<1> DEFINE rest == /\ (greeting /\ BannerUnread)' => toRobot' = << >>
                   /\ NothingForeign'
                   /\ \A line \in effects' :
                        line.id < expectedNext' \/ (greeting' /\ toRobot' = << >>)
                   /\ JustExecuted \cap effects = {}
<1>5. ASSUME UNCHANGED handlerVars, BannerUnread' => BannerUnread,
             toRobot' = toRobot \/ toRobot # << >>
      PROVE  rest
  <2>1. JustExecuted = {} /\ effects' = effects /\ expectedNext' = expectedNext
    BY <1>1, <1>5, WhatJustExecuted DEF handlerVars
  <2>2. (greeting /\ BannerUnread)' => toRobot' = << >>
    BY <1>2, <1>5 DEF StaleInv
  <2>3. NothingForeign'
    BY <1>2, <2>1 DEF StaleInv, NothingForeign
  <2> QED BY <1>2, <1>5, <2>1, <2>2, <2>3 DEF StaleInv
<1>6. ASSUME toRobot # << >>, toRobot' = Tail(toRobot), NEW new \in Seq(Replies),
             Range(toHost') = Range(toHost) \cup Range(new),
             StandsStill(new) \/ StartsOver(new) \/ MovesOn(new)
      PROVE  rest
  <2>1. Head(toRobot) \in Range(toRobot) /\ Head(toRobot) = toRobot[1]
    BY <1>3, <1>6
  <2>2. \A line \in effects : line.id < expectedNext
    BY <1>6 DEF StaleInv
  <2>3. ~(greeting /\ BannerUnread)
    BY <1>6 DEF StaleInv
  <2>4. CASE StandsStill(new)
    <3>1. UNCHANGED handlerVars /\ (BannerUnread' => BannerUnread)
      BY <1>6, <2>4 DEF StandsStill, BannerUnread
    <3> QED BY <1>5, <1>6, <3>1
  <2>5. CASE StartsOver(new)
    <3>1. /\ toRobot[1].verb = "HELLO" /\ JustExecuted = {}
      BY <2>1, <2>5, WhatJustExecuted DEF StartsOver
    <3>2. greeting /\ 1 = Len(toRobot)
      <4>1. 1 \in 1..Len(toRobot)
        BY <1>3, <1>6
      <4> QED BY <3>1, <4>1 DEF StaleInv
    <3>3. toRobot' = << >>
      <4>1. toRobot' \in Seq(WireLines) /\ Len(toRobot') = 0
        BY <1>2, <1>3, <1>6, <3>2, TailRange
      <4> QED BY <4>1, EmptySeq
    <3>4. NothingForeign'
      BY <1>2, <3>2 DEF NothingForeign
    <3> QED BY <1>2, <3>1, <3>2, <3>3, <3>4
  <2>6. CASE MovesOn(new)
    <3> DEFINE h == Head(toRobot)
    <3>1. /\ h \in SequencedLines /\ h.id = expectedNext
          /\ expectedNext' = (expectedNext + 1) % IdSpace
          /\ executed' = Append(executed, h)
          /\ \A reply \in Range(new) : reply.kind # "device"
      BY <2>6 DEF MovesOn
    <3>2. IsSequenced(h) /\ h.id <= MaxId
      BY <2>1, <3>1, SessionAssumption DEF SequencedLines, IsSequenced, StaleInv
    <3>3. expectedNext' = expectedNext + 1
      BY <1>2, <3>1, <3>2, NextIdFits
    <3>4. effects' = effects \cup {h} /\ JustExecuted = {h}
      BY <1>1, <3>1, WhatJustExecuted
    <3>5. ~(greeting /\ BannerUnread)'
      BY <1>2, <1>6, <2>3, <3>1 DEF BannerUnread
    <3>6. ~greeting => h.id < nextId /\ h.verb = sent[h.id]
      BY <2>1, <3>2 DEF StaleInv, Own
    <3> HIDE DEF h
    <3>7. \A line \in effects' : line.id < expectedNext'
      <4>1. \A line \in effects : line.id \in Nat
        BY <1>2 DEF SequencedLines
      <4> QED BY <1>2, <2>2, <3>1, <3>3, <3>4, <4>1
    <3>8. NothingForeign'
      <4>1. ~greeting => h.id <= Len(sent)
        BY <1>2, <3>1, <3>6
      <4> QED BY <1>2, <3>4, <3>6, <4>1 DEF StaleInv, NothingForeign
    <3>9. h \notin effects
      BY <1>2, <2>2, <3>1
    <3> QED BY <3>4, <3>5, <3>7, <3>8, <3>9
  <2> QED BY <1>6, <2>4, <2>5, <2>6
<1>7. rest
  <2>1. ASSUME Range(toHost') \subseteq Range(toHost)
        PROVE  BannerUnread' => BannerUnread
    BY <2>1 DEF BannerUnread
  <2> QED BY <1>1, <1>5, <1>6, <2>1
<1> QED BY <1>4, <1>7 DEF StaleInv

\* ... and opening a Session sends a HELLO behind whatever is still under way.
LEMMA StaleReconnectKept ==
  ASSUME Greets, ~HelloOutlives, Shape, StaleInv, NEW how \in Connects, Reconnect(how)
  PROVE  StaleInv'
<1>1. /\ effects' = {} /\ greeting' = (how = "hello")
      /\ \/ how = "sim" /\ toRobot' = << >>
         \/ /\ how = "hello" /\ toHost' = << >>
            /\ \E left \in {<< >>, toRobot} :
                 /\ toRobot' = Append(left, Line("HELLO", NoId))
                 /\ left = toRobot => ~HelloUnderWay \/ HelloOutlives \/ FreshChannel
                 /\ FreshChannel => left = << >>
  BY ReconnectShape
<1>2. CASE how = "sim"
  BY <1>1, <1>2, EmptySeqs DEF StaleInv, NothingForeign
<1>3. CASE how = "hello"
  <2>1. PICK left \in {<< >>, toRobot} :
          /\ toRobot' = Append(left, Line("HELLO", NoId))
          /\ left = toRobot => ~HelloUnderWay \/ HelloOutlives \/ FreshChannel
          /\ FreshChannel => left = << >>
    BY <1>1, <1>3
  <2> DEFINE hello == Line("HELLO", NoId)
  <2>2. hello \in WireLines /\ hello.verb = "HELLO" /\ ~IsSequenced(hello)
    BY DEF Line, WireLines, UnsequencedVerbs, IsSequenced
  <2>3. left \in Seq(WireLines) /\ toRobot' = Append(left, hello)
    BY <2>1, EmptySeqs DEF Shape, LifecycleTypeOK, StreamsTypeOK
  <2> HIDE DEF hello
  <2>4. /\ Range(toRobot') = Range(left) \cup {hello}
        /\ Len(toRobot') = Len(left) + 1 /\ Len(left) \in Nat
        /\ \A k \in 1..Len(left) : toRobot'[k] = left[k]
    BY <2>2, <2>3, AppendRange
  <2>5. \A k \in 1..Len(left) : left[k].verb # "HELLO"
    <3>1. CASE left = << >>
      BY <3>1, EmptySeqs
    <3>2. CASE left # << >>
      BY <2>1, <3>2, LifecycleAssumption DEF HelloUnderWay
    <3> QED BY <3>1, <3>2
  <2>6. \A line \in Range(left) : IsSequenced(line) => line.id <= MaxId
    BY <2>1, EmptySeqs DEF StaleInv
  <2>7. \A line \in Range(toRobot') : IsSequenced(line) => line.id <= MaxId
    BY <2>2, <2>4, <2>6
  <2>8. \A k \in 1..Len(toRobot') :
          toRobot'[k].verb = "HELLO" => greeting' /\ k = Len(toRobot')
    <3>1. \A k \in 1..Len(toRobot') : k \in 1..Len(left) \/ k = Len(toRobot')
      BY <2>4
    <3> QED BY <1>1, <1>3, <2>4, <2>5, <3>1
  <2>9. ~BannerUnread'
    BY <1>1, <1>3, EmptySeqs DEF BannerUnread
  <2> QED BY <1>1, <1>3, <2>7, <2>8, <2>9 DEF StaleInv, NothingForeign
<1> QED BY <1>1, <1>2, <1>3

\* Every step keeps it, and what is executed in a step was not executed before.
LEMMA StaleKept ==
  ASSUME Greets, ~HelloOutlives, MaxReboots = 0, Shape, StaleInv,
         [LifecycleNext]_lifecycleVars
  PROVE  StaleInv' /\ (JustExecuted \cap effects = {} \/ UNCHANGED lifecycleVars)
<1> USE DEF Shape, LifecycleTypeOK
<1>1. ASSUME NEW how \in Connects, Reconnect(how)
      PROVE  StaleInv' /\ JustExecuted = {}
  <2>1. ResetSequence \/ UNCHANGED robotVars
    BY <1>1 DEF Reconnect
  <2>2. JustExecuted = {}
    BY <2>1, WhatJustExecuted DEF robotVars, handlerVars
  <2> QED BY <1>1, <2>2, StaleReconnectKept
<1>2. ~RobotReboots
  BY DEF RobotReboots
<1>3. CASE GreetingPumps
  <2>1. HostMoves
    BY <1>3, PumpingMoves DEF GreetingPumps, HostStepOK
  <2>2. JustExecuted = {}
    BY <2>1, WhatJustExecuted DEF HostMoves, robotVars, handlerVars
  <2> QED BY <1>3, <2>2, StaleGreetingKept
<1>4. CASE HostRuns
  <2>1. HostStepOK
    BY <1>4, SendingMoves, WaitingMoves, PollingMoves, PumpingMoves, RaisingMoves,
       ResendingMoves DEF HostRuns, Greets
  <2>2. JustExecuted = {}
    BY <2>1, WhatJustExecuted DEF HostStepOK, HostMoves, robotVars, handlerVars
  <2> QED BY <1>4, <2>1, <2>2, StaleHostKept
<1>5. CASE RobotRuns
  BY <1>5, StaleRobotKept DEF Greets
<1>6. CASE UNCHANGED lifecycleVars
  BY <1>6 DEF lifecycleVars, vars, wireVars, handlerVars, sessionVars, StaleInv, Own,
     NothingForeign, BannerUnread
<1> QED BY <1>1, <1>2, <1>3, <1>4, <1>5, <1>6 DEF LifecycleNext

\* So without reboots it is so always.
LEMMA StaleInvariant ==
  ASSUME Greets, ~HelloOutlives, MaxReboots = 0
  PROVE  LifecycleSpec => [](Shape /\ StaleInv)
<1>1. ASSUME LifecycleInit
      PROVE  StaleInv
  <2>1. toRobot = << >> /\ effects = {} /\ greeting = FALSE
    BY <1>1 DEF LifecycleInit, LinkInit, WireInit
  <2> QED BY <2>1, EmptySeqs DEF StaleInv, NothingForeign
<1>2. LifecycleInit => Shape /\ StaleInv
  BY <1>1, ShapeInitially
<1>3. Shape /\ StaleInv /\ [LifecycleNext]_lifecycleVars => (Shape /\ StaleInv)'
  BY ShapeKept, StaleKept
<1> QED BY <1>2, <1>3, PTL DEF LifecycleSpec

\* A session is served nothing foreign, whatever lines of earlier programs are
\* still to arrive when it begins, while the robot does not reboot and no
\* program's HELLO outlives it (protocol_handler.cpp:532-550, daemon.py:579).
THEOREM SessionIsOwn ==
  ASSUME Greets, ~HelloOutlives, MaxReboots = 0
  PROVE  LifecycleSpec => []NothingForeign
<1>1. StaleInv => NothingForeign
  BY DEF StaleInv
<1> QED BY <1>1, StaleInvariant, PTL

\* ... and no command of a session is executed twice in it
\* (protocol_handler.cpp:399-405).
THEOREM AtMostOnceInASession ==
  ASSUME Greets, ~HelloOutlives, MaxReboots = 0
  PROVE  LifecycleSpec => ExecutesAtMostOnce
<1>1. Shape /\ StaleInv /\ [LifecycleNext]_lifecycleVars =>
        [JustExecuted \cap effects = {}]_lifecycleVars
  BY StaleKept
<1> QED BY <1>1, StaleInvariant, PTL DEF LifecycleSpec, ExecutesAtMostOnce

=============================================================================
