------------------------ MODULE ReliableLink_proofs ------------------------
(***************************************************************************)
(* What one session of the reliability layer guarantees, proved for every  *)
(* value of the constants that respects the convention below: any number   *)
(* of commands, of faults, of lines in flight and of buffered commands.    *)
(***************************************************************************)
EXTENDS ReliableLink, SequenceTheorems, FiniteSetTheorems, TLAPS

\* The host never sends HELLO on a live session, and reconnects before the ids
\* outgrow the robot's counter (docs/design/protocol.md, 8.3 and 8.8.1).
Convention == "HELLO" \notin Probes /\ MaxId + 1 < IdSpace

(***************************************************************************)
(* The inductive invariant                                                 *)
(***************************************************************************)

\* Ids are handed out one by one, within the convention.
IdsAreNumbered == Len(sent) = nextId - 1 /\ nextId <= MaxId + 1

\* A sequenced line on its way to the robot is a copy of what was sent.
LinesAreSent(lines, next, verbs) ==
  \A k \in 1..Len(lines) : IsSequenced(lines[k]) =>
    lines[k].id < next /\ lines[k].verb = verbs[lines[k].id]

\* The buffer holds exactly the ids after the last one acknowledged.
BufferIsSuffix ==
  /\ Outstanding = (highestAcked + 1)..(nextId - 1)
  /\ \A i \in Outstanding : pending[i] = sent[i]
  /\ resend \subseteq Outstanding

\* The robot is somewhere along the host's list, and not behind what the host
\* has been told.
RobotIsAlong ==
  /\ highestAcked < expectedNext /\ expectedNext <= nextId
  /\ Len(executed) = expectedNext - 1
  /\ \A i \in 1..Len(executed) : executed[i] = Line(sent[i], i)

\* Acks on their way name executed commands; a nack names a buffered command
\* that no ack before it names.
RepliesAreTrue(replies, acked, expected, next) ==
  \A k \in 1..Len(replies) :
    /\ replies[k].kind = "ack" => replies[k].n < expected
    /\ replies[k].kind = "nack" =>
         /\ acked < replies[k].n /\ replies[k].n <= expected /\ replies[k].n < next
         /\ \A j \in 1..(k - 1) : replies[j].kind = "ack" => replies[j].n < replies[k].n

IInv == /\ TypeOK /\ IdsAreNumbered /\ BufferIsSuffix /\ RobotIsAlong
        /\ LinesAreSent(toRobot, nextId, sent)
        /\ RepliesAreTrue(toHost, highestAcked, expectedNext, nextId)

(***************************************************************************)
(* Lemmas on the two streams                                               *)
(***************************************************************************)

\* What the robot writes after one line keeps the replies true: acks below the
\* next expected id, and nacks for exactly that id, none behind an ack.
LEMMA RepliesAppended ==
  ASSUME NEW old \in Seq(Replies), NEW new \in Seq(Replies),
         NEW acked \in Nat, NEW before \in Nat, NEW after \in Nat, NEW next \in Nat,
         RepliesAreTrue(old, acked, before, next),
         acked < before, before <= after, after <= next,
         \A k \in 1..Len(new) :
           /\ new[k].kind = "ack" => new[k].n < after
           /\ new[k].kind = "nack" =>
                /\ new[k].n = after /\ after < next
                /\ \A j \in 1..(k - 1) : new[j].kind # "ack"
  PROVE  /\ old \o new \in Seq(Replies)
         /\ RepliesAreTrue(old \o new, acked, after, next)
<1> DEFINE all == old \o new
<1>1. /\ all \in Seq(Replies) /\ Len(all) = Len(old) + Len(new)
      /\ \A i \in 1..Len(old) : all[i] = old[i]
      /\ \A i \in (Len(old) + 1)..(Len(old) + Len(new)) : all[i] = new[i - Len(old)]
      /\ Len(old) \in Nat /\ Len(new) \in Nat
  BY ConcatProperties, LenProperties
<1> HIDE DEF all
<1>2. ASSUME NEW k \in 1..Len(old)
      PROVE  all[k] = old[k] /\ old[k].n \in Nat
  <2>1. old[k] \in Replies
    BY ElementOfSeq
  <2> QED BY <1>1, <2>1 DEF Replies
<1>3. ASSUME NEW k \in 1..Len(all), k \notin 1..Len(old)
      PROVE  k - Len(old) \in 1..Len(new) /\ all[k] = new[k - Len(old)]
  <2>1. k \in (Len(old) + 1)..(Len(old) + Len(new))
    BY <1>1, <1>3
  <2> QED BY <1>1, <2>1
<1>4. ASSUME NEW k \in 1..Len(all), all[k].kind = "ack"
      PROVE  all[k].n < after
  <2>1. CASE k \in 1..Len(old)
    BY <1>2, <1>4, <2>1 DEF RepliesAreTrue
  <2>2. CASE k \notin 1..Len(old)
    BY <1>3, <1>4, <2>2
  <2> QED BY <2>1, <2>2
<1>5. ASSUME NEW k \in 1..Len(all), all[k].kind = "nack"
      PROVE  /\ acked < all[k].n /\ all[k].n <= after /\ all[k].n < next
             /\ \A j \in 1..(k - 1) : all[j].kind = "ack" => all[j].n < all[k].n
  <2>1. CASE k \in 1..Len(old)
    <3>1. acked < old[k].n /\ old[k].n <= before /\ old[k].n < next
      BY <1>2, <1>5, <2>1 DEF RepliesAreTrue
    <3>2. \A j \in 1..(k - 1) : j \in 1..Len(old)
      BY <2>1, <1>1
    <3>3. \A j \in 1..(k - 1) : all[j].kind = "ack" => all[j].n < all[k].n
      BY <1>2, <1>5, <2>1, <3>2 DEF RepliesAreTrue
    <3> QED BY <1>2, <2>1, <3>1, <3>3
  <2>2. CASE k \notin 1..Len(old)
    <3>1. all[k].n = after /\ after < next
      BY <1>3, <1>5, <2>2
    <3>2. ASSUME NEW j \in 1..(k - 1), all[j].kind = "ack"
          PROVE  all[j].n < all[k].n
      <4>1. CASE j \in 1..Len(old)
        BY <1>2, <3>1, <3>2, <4>1 DEF RepliesAreTrue
      <4>2. CASE j \notin 1..Len(old)
        <5>1. j \in 1..Len(all) /\ j - Len(old) \in 1..(k - Len(old) - 1)
          BY <1>1, <4>2
        <5>2. new[j - Len(old)].kind # "ack"
          BY <1>3, <1>5, <2>2, <5>1
        <5> QED BY <1>3, <3>2, <4>2, <5>1, <5>2
      <4> QED BY <4>1, <4>2
    <3> QED BY <3>1, <3>2
  <2> QED BY <2>1, <2>2
<1> QED BY <1>1, <1>4, <1>5 DEF RepliesAreTrue, all

\* Losing or handling the first replies keeps the rest true.
LEMMA RepliesDropped ==
  ASSUME NEW old \in Seq(Replies), NEW new \in Seq(Replies), NEW n \in Nat,
         NEW acked \in Nat, NEW expected \in Nat, NEW next \in Nat,
         RepliesAreTrue(old, acked, expected, next),
         Len(new) = Len(old) - n,
         \A i \in 1..Len(new) : new[i] = old[i + n]
  PROVE  RepliesAreTrue(new, acked, expected, next)
<1>1. Len(old) \in Nat /\ Len(new) \in Nat
  BY LenProperties
<1>2. ASSUME NEW k \in 1..Len(new)
      PROVE  k + n \in 1..Len(old) /\ new[k] = old[k + n]
  BY <1>1
<1>3. ASSUME NEW k \in 1..Len(new), NEW j \in 1..(k - 1)
      PROVE  j \in 1..Len(new) /\ j + n \in 1..(k + n - 1)
  BY <1>1
<1>4. ASSUME NEW k \in 1..Len(new), new[k].kind = "nack",
             NEW j \in 1..(k - 1), new[j].kind = "ack"
      PROVE  new[j].n < new[k].n
  <2> DEFINE m == k + n
             i == j + n
  <2>1. m \in 1..Len(old) /\ new[k] = old[m]
    BY <1>2
  <2>2. j \in 1..Len(new) /\ i \in 1..(m - 1)
    BY <1>3
  <2>3. new[j] = old[i]
    BY <1>2, <2>2
  <2> HIDE DEF m, i
  <2>4. old[m].kind = "nack" /\ old[i].kind = "ack"
    BY <1>4, <2>1, <2>3
  <2>5. old[i].n < old[m].n
    BY <2>1, <2>2, <2>4 DEF RepliesAreTrue
  <2> QED BY <2>1, <2>3, <2>5
<1> QED BY <1>2, <1>4 DEF RepliesAreTrue

\* Appending one copy of a sent command, or a probe, keeps the lines copies;
\* so does sending further commands.
LEMMA LineAppended ==
  ASSUME NEW old \in Seq(Lines), NEW line \in Lines,
         NEW next \in Nat, NEW later \in Nat, NEW verbs, NEW more,
         LinesAreSent(old, next, verbs), next <= later,
         \A i \in 1..(next - 1) : more[i] = verbs[i],
         IsSequenced(line) => line.id < later /\ line.verb = more[line.id]
  PROVE  Append(old, line) \in Seq(Lines) /\ LinesAreSent(Append(old, line), later, more)
<1> DEFINE all == Append(old, line)
<1>1. /\ all \in Seq(Lines) /\ Len(all) = Len(old) + 1 /\ Len(old) \in Nat
      /\ \A i \in 1..Len(old) : all[i] = old[i]
      /\ all[Len(old) + 1] = line
  BY AppendProperties, LenProperties
<1> HIDE DEF all
<1>2. ASSUME NEW k \in 1..Len(all), IsSequenced(all[k])
      PROVE  all[k].id < later /\ all[k].verb = more[all[k].id]
  <2>1. CASE k \in 1..Len(old)
    <3>1. old[k] \in Lines /\ all[k] = old[k]
      BY <1>1, <2>1, ElementOfSeq
    <3>2. old[k].id \in Nat \ {0}
      BY <1>2, <3>1, SessionAssumption DEF Lines, SequencedLines, ProbeLines, IsSequenced
    <3>3. old[k].id < next /\ old[k].verb = verbs[old[k].id]
      BY <1>2, <2>1, <3>1 DEF LinesAreSent
    <3> QED BY <3>1, <3>2, <3>3
  <2>2. CASE k \notin 1..Len(old)
    <3>1. k = Len(old) + 1
      BY <1>1, <2>2
    <3> QED BY <1>1, <1>2, <3>1
  <2> QED BY <2>1, <2>2
<1> QED BY <1>1, <1>2 DEF LinesAreSent, all

\* The line at the head of the stream goes, the others stay copies.
LEMMA LineTaken ==
  ASSUME NEW old \in Seq(Lines), old # << >>, NEW next, NEW verbs,
         LinesAreSent(old, next, verbs)
  PROVE  /\ Tail(old) \in Seq(Lines) /\ LinesAreSent(Tail(old), next, verbs)
         /\ Head(old) \in Lines
         /\ IsSequenced(Head(old)) =>
              Head(old).id < next /\ Head(old).verb = verbs[Head(old).id]
<1>1. /\ Tail(old) \in Seq(Lines) /\ Head(old) \in Lines
      /\ Len(Tail(old)) = Len(old) - 1 /\ Len(old) \in Nat /\ Head(old) = old[1]
      /\ \A i \in 1..Len(Tail(old)) : Tail(old)[i] = old[i + 1]
  BY HeadTailProperties, LenProperties
<1>2. ASSUME NEW k \in 1..Len(Tail(old))
      PROVE  Tail(old)[k] = old[k + 1] /\ k + 1 \in 1..Len(old)
  BY <1>1
<1>3. 1 \in 1..Len(old)
  BY <1>1, EmptySeq
<1> QED BY <1>1, <1>2, <1>3 DEF LinesAreSent

(***************************************************************************)
(* The host's steps                                                        *)
(***************************************************************************)

\* Giving a command the next id, buffering it and sending it keeps everything
\* that does not mention what else the caller changes.
LEMMA AssignAndSendKeeps ==
  ASSUME IInv, NEW verb \in Verbs, AssignAndSend(verb),
         UNCHANGED <<highestAcked, resend, toHost, handlerVars>>
  PROVE  /\ toRobot' \in Seq(Lines) /\ nextId' \in Nat \ {0}
         /\ Outstanding' \subseteq Nat \ {0} /\ pending' \in [Outstanding' -> Verbs]
         /\ sent' \in Seq(Verbs)
         /\ IdsAreNumbered' /\ BufferIsSuffix' /\ RobotIsAlong'
         /\ LinesAreSent(toRobot', nextId', sent')
         /\ RepliesAreTrue(toHost', highestAcked', expectedNext', nextId')
<1> USE DEF IInv, TypeOK, WireTypeOK, HandlerTypeOK, SessionTypeOK
<1>1. /\ nextId' = nextId + 1 /\ nextId <= MaxId /\ nextId \in Nat \ {0}
      /\ toRobot' = Append(toRobot, Line(verb, nextId))
      /\ sent' = Append(sent, verb)
  BY DEF AssignAndSend
<1>2. /\ sent' \in Seq(Verbs) /\ Len(sent) = nextId - 1 /\ Len(sent') = nextId
      /\ \A i \in 1..(nextId - 1) : sent'[i] = sent[i]
      /\ sent'[nextId] = verb
  BY <1>1, AppendProperties DEF IdsAreNumbered
<1>3. /\ Line(verb, nextId) \in Lines
      /\ Line(verb, nextId).id = nextId /\ Line(verb, nextId).verb = verb
  BY <1>1 DEF Line, Lines, SequencedLines
<1>4. toRobot' \in Seq(Lines) /\ LinesAreSent(toRobot', nextId', sent')
  <2> DEFINE line == Line(verb, nextId)
  <2>1. nextId \in Nat /\ nextId' \in Nat /\ nextId <= nextId' /\ nextId < nextId'
    BY <1>1
  <2>2. line \in Lines /\ line.id < nextId' /\ line.verb = sent'[line.id]
    BY <1>2, <1>3, <2>1
  <2>3. toRobot \in Seq(Lines) /\ LinesAreSent(toRobot, nextId, sent)
    OBVIOUS
  <2> HIDE DEF line
  <2>4. Append(toRobot, line) \in Seq(Lines) /\ LinesAreSent(Append(toRobot, line), nextId', sent')
    BY <1>2, <2>1, <2>2, <2>3, LineAppended
  <2> QED BY <1>1, <2>4 DEF line
<1>5. /\ Outstanding' = Outstanding \cup {nextId}
      /\ pending'[nextId] = verb
      /\ \A i \in Outstanding : i # nextId => pending'[i] = pending[i]
      /\ pending' \in [Outstanding' -> Verbs]
  BY DEF AssignAndSend, Outstanding
<1>6. BufferIsSuffix'
  <2>1. highestAcked \in Nat /\ highestAcked < nextId
    BY DEF RobotIsAlong
  <2>2. Outstanding' = (highestAcked' + 1)..(nextId' - 1)
    BY <1>1, <1>5, <2>1 DEF BufferIsSuffix
  <2>3. \A i \in Outstanding' : pending'[i] = sent'[i]
    BY <1>1, <1>2, <1>5, <2>1 DEF BufferIsSuffix
  <2> QED BY <1>5, <2>2, <2>3 DEF BufferIsSuffix
<1>7. RobotIsAlong'
  <2>1. /\ expectedNext' = expectedNext /\ executed' = executed
        /\ highestAcked' = highestAcked /\ expectedNext \in Nat
    BY DEF handlerVars
  <2>2. \A i \in 1..Len(executed) : sent'[i] = sent[i]
    BY <1>1, <1>2, <2>1 DEF RobotIsAlong
  <2>3. \A i \in 1..Len(executed') : executed'[i] = Line(sent'[i], i)
    BY <2>1, <2>2 DEF RobotIsAlong
  <2>4. highestAcked' < expectedNext' /\ expectedNext' <= nextId'
    BY <1>1, <2>1 DEF RobotIsAlong
  <2> QED BY <2>1, <2>3, <2>4 DEF RobotIsAlong
<1>8. RepliesAreTrue(toHost', highestAcked', expectedNext', nextId')
  <2>1. ASSUME NEW k \in 1..Len(toHost), toHost[k].kind = "nack"
        PROVE  toHost[k].n < nextId + 1
    <3>1. toHost[k] \in Replies
      BY ElementOfSeq
    <3>2. toHost[k].n \in Nat /\ toHost[k].n < nextId
      BY <2>1, <3>1 DEF RepliesAreTrue, Replies
    <3> QED BY <1>1, <3>2
  <2> QED BY <1>1, <2>1 DEF RepliesAreTrue, handlerVars
<1> QED
  <2>1. Outstanding' \subseteq Nat \ {0}
    BY <1>1, <1>5
  <2>2. IdsAreNumbered'
    BY <1>1, <1>2, SessionAssumption DEF IdsAreNumbered
  <2> QED BY <1>1, <1>2, <1>4, <1>5, <1>6, <1>7, <1>8, <2>1, <2>2

\* send() keeps the invariant, ...
LEMMA SendKeeps ==
  ASSUME IInv, NEW verb \in Verbs, Send(verb), UNCHANGED robotVars
  PROVE  IInv'
<1>1. /\ AssignAndSend(verb)
      /\ UNCHANGED <<replyVars, pollCooling, wait, probes, toHost, faults>>
  BY DEF Send
<1>2. UNCHANGED <<highestAcked, resend, toHost, handlerVars>>
  BY <1>1 DEF replyVars, robotVars
<1>3. TypeOK'
  BY <1>1, <1>2, AssignAndSendKeeps
  DEF IInv, TypeOK, WireTypeOK, AdapterTypeOK, HandlerTypeOK, SessionTypeOK,
      replyVars, robotVars, adapterVars, handlerVars
<1> QED BY <1>1, <1>2, <1>3, AssignAndSendKeeps DEF IInv

\* ... and the STATUS poll of the pump, ...
LEMMA PollKeeps ==
  ASSUME IInv, PollStatus, UNCHANGED robotVars
  PROVE  IInv'
<1>1. /\ AssignAndSend("STATUS") /\ pollCooling' = TRUE /\ resendFirst' = cooling
      /\ UNCHANGED <<highestAcked, hostDone, hostReason, lastNackNext, cooling,
                     resend, wait, probes, toHost, faults>>
  BY DEF PollStatus
<1>2. UNCHANGED <<highestAcked, resend, toHost, handlerVars>> /\ "STATUS" \in Verbs
  BY <1>1, SessionAssumption DEF robotVars
<1>3. TypeOK'
  BY <1>1, <1>2, AssignAndSendKeeps
  DEF IInv, TypeOK, WireTypeOK, AdapterTypeOK, HandlerTypeOK, SessionTypeOK,
      robotVars, adapterVars, handlerVars
<1> QED BY <1>1, <1>2, <1>3, AssignAndSendKeeps DEF IInv

\* ... and an unsequenced HELLO or ESTOP, ...
LEMMA ProbeKeeps ==
  ASSUME IInv, NEW verb \in Probes, SendUnsequenced(verb), UNCHANGED robotVars
  PROVE  IInv'
<1> USE DEF IInv, TypeOK, WireTypeOK
<1>1. /\ toRobot' = Append(toRobot, Line(verb, NoId)) /\ probes' = probes + 1
      /\ UNCHANGED <<sendVars, replyVars, pollCooling, wait, toHost, faults>>
  BY DEF SendUnsequenced
<1>2. Line(verb, NoId) \in Lines /\ ~IsSequenced(Line(verb, NoId))
  BY SessionAssumption DEF Line, Lines, ProbeLines, IsSequenced
<1>3. toRobot' \in Seq(Lines) /\ LinesAreSent(toRobot', nextId', sent')
  <2>1. nextId \in Nat /\ nextId <= nextId /\ nextId' = nextId /\ sent' = sent
    BY <1>1 DEF SessionTypeOK, sendVars
  <2> QED BY <1>1, <1>2, <2>1, LineAppended
<1>4. TypeOK'
  <2>1. WireTypeOK' /\ AdapterTypeOK' /\ HandlerTypeOK'
    BY <1>1, <1>3 DEF AdapterTypeOK, HandlerTypeOK, robotVars, adapterVars, handlerVars
  <2>2. SessionTypeOK'
    BY <1>1 DEF SessionTypeOK, Outstanding, sendVars, replyVars
  <2> QED BY <2>1, <2>2
<1>5. IdsAreNumbered' /\ BufferIsSuffix' /\ RobotIsAlong'
  BY <1>1 DEF IdsAreNumbered, BufferIsSuffix, RobotIsAlong, Outstanding,
     sendVars, replyVars, robotVars, handlerVars
<1>6. RepliesAreTrue(toHost', highestAcked', expectedNext', nextId')
  BY <1>1 DEF sendVars, replyVars, robotVars, handlerVars
<1> QED BY <1>3, <1>4, <1>5, <1>6

\* ... and a retransmission.
LEMMA ResendKeeps ==
  ASSUME IInv, ResendNext, UNCHANGED robotVars
  PROVE  IInv'
<1> USE DEF IInv, TypeOK, WireTypeOK
<1>1. PICK id \in resend :
        /\ toRobot' = Append(toRobot, Line(pending[id], id))
        /\ resend' = resend \ {id}
  BY DEF ResendNext
<1>2. UNCHANGED <<sendVars, highestAcked, hostDone, hostReason, lastNackNext,
                  cooling, resendFirst, pollCooling, wait, probes, toHost, faults>>
  BY DEF ResendNext
<1>3. /\ id \in Outstanding /\ id \in Nat \ {0} /\ id < nextId
      /\ pending[id] = sent[id] /\ pending[id] \in Verbs
  BY <1>1 DEF BufferIsSuffix, SessionTypeOK
<1>4. /\ Line(pending[id], id) \in Lines
      /\ Line(pending[id], id).id = id /\ Line(pending[id], id).verb = sent[id]
  BY <1>3 DEF Line, Lines, SequencedLines
<1>5. toRobot' \in Seq(Lines) /\ LinesAreSent(toRobot', nextId', sent')
  <2>1. nextId \in Nat /\ nextId <= nextId /\ nextId' = nextId /\ sent' = sent
    BY <1>2 DEF SessionTypeOK, sendVars
  <2> QED BY <1>1, <1>3, <1>4, <2>1, LineAppended
<1>6. TypeOK'
  BY <1>1, <1>2, <1>5 DEF AdapterTypeOK, HandlerTypeOK, SessionTypeOK, Outstanding,
     sendVars, robotVars, adapterVars, handlerVars
<1>7. IdsAreNumbered' /\ BufferIsSuffix' /\ RobotIsAlong'
  BY <1>1, <1>2 DEF IdsAreNumbered, BufferIsSuffix, RobotIsAlong, Outstanding,
     sendVars, robotVars, handlerVars
<1>8. RepliesAreTrue(toHost', highestAcked', expectedNext', nextId')
  BY <1>2 DEF sendVars, robotVars, handlerVars
<1> QED BY <1>5, <1>6, <1>7, <1>8

\* The reply at the head of the stream goes, the others stay true.
LEMMA ReplyTaken ==
  ASSUME NEW old \in Seq(Replies), old # << >>,
         NEW acked \in Nat, NEW expected \in Nat, NEW next \in Nat,
         RepliesAreTrue(old, acked, expected, next)
  PROVE  /\ Tail(old) \in Seq(Replies) /\ Head(old) \in Replies
         /\ RepliesAreTrue(Tail(old), acked, expected, next)
         /\ Head(old).kind = "ack" => Head(old).n < expected
         /\ Head(old).kind = "ack" => \A k \in 1..Len(Tail(old)) :
              Tail(old)[k].kind = "nack" => Head(old).n < Tail(old)[k].n
<1>1. /\ Tail(old) \in Seq(Replies) /\ Head(old) \in Replies
      /\ Len(Tail(old)) = Len(old) - 1 /\ Len(old) \in Nat /\ Head(old) = old[1]
      /\ \A i \in 1..Len(Tail(old)) : Tail(old)[i] = old[i + 1]
      /\ 1 \in 1..Len(old)
  BY HeadTailProperties, LenProperties, EmptySeq
<1>2. RepliesAreTrue(Tail(old), acked, expected, next)
  BY <1>1, RepliesDropped
<1>3. Head(old).kind = "ack" => Head(old).n < expected
  BY <1>1 DEF RepliesAreTrue
<1>4. ASSUME Head(old).kind = "ack", NEW k \in 1..Len(Tail(old)),
             Tail(old)[k].kind = "nack"
      PROVE  Head(old).n < Tail(old)[k].n
  <2>1. k + 1 \in 1..Len(old) /\ 1 \in 1..((k + 1) - 1) /\ Tail(old)[k] = old[k + 1]
    BY <1>1
  <2> QED BY <1>1, <1>4, <2>1 DEF RepliesAreTrue
<1> QED BY <1>1, <1>2, <1>3, <1>4

\* An ack taken from the wire keeps the invariant, ...
LEMMA AckKeeps ==
  ASSUME IInv, toHost # << >>, resend = {},
         HandleAck(Head(toHost)), toHost' = Tail(toHost),
         UNCHANGED <<nextId, sent, pollCooling, wait, probes, toRobot, faults, robotVars>>
  PROVE  IInv'
<1> DEFINE n == Head(toHost).n
<1>1. /\ Tail(toHost) \in Seq(Replies) /\ Head(toHost) \in Replies
      /\ RepliesAreTrue(Tail(toHost), highestAcked, expectedNext, nextId)
      /\ Head(toHost).kind = "ack" /\ n < expectedNext
      /\ \A k \in 1..Len(Tail(toHost)) :
           Tail(toHost)[k].kind = "nack" => n < Tail(toHost)[k].n
  BY ReplyTaken DEF IInv, TypeOK, WireTypeOK, HandlerTypeOK, SessionTypeOK, HandleAck
<1>2. n \in Nat /\ Head(toHost).done \in Nat /\ Head(toHost).reason \in Reasons
  BY <1>1 DEF Replies
<1>3. /\ pending' = [i \in {j \in Outstanding : j > n} |-> pending[i]]
      /\ highestAcked' = IF n > highestAcked THEN n ELSE highestAcked
      /\ hostDone' = Head(toHost).done /\ hostReason' = Head(toHost).reason
      /\ UNCHANGED <<lastNackNext, cooling, resendFirst, resend>>
  BY DEF HandleAck, RetireThrough
<1>4. Outstanding' = {j \in Outstanding : j > n}
  BY <1>3 DEF Outstanding
<1> HIDE DEF n
<1>5. /\ TypeOK' /\ IdsAreNumbered'
      /\ LinesAreSent(toRobot', nextId', sent')
  <2>1. WireTypeOK' /\ AdapterTypeOK' /\ HandlerTypeOK'
    BY <1>1 DEF IInv, TypeOK, WireTypeOK, AdapterTypeOK, HandlerTypeOK,
       robotVars, adapterVars, handlerVars
  <2>2. pending' \in [Outstanding' -> Verbs] /\ Outstanding' \subseteq Nat \ {0}
    BY <1>3, <1>4 DEF IInv, TypeOK, SessionTypeOK
  <2>3. highestAcked' \in Nat
    BY <1>2, <1>3 DEF IInv, TypeOK, SessionTypeOK
  <2>4. SessionTypeOK'
    BY <1>2, <1>3, <2>2, <2>3 DEF IInv, TypeOK, SessionTypeOK
  <2> QED BY <2>1, <2>4 DEF IInv, TypeOK, IdsAreNumbered
<1>6. /\ highestAcked \in Nat /\ expectedNext \in Nat /\ nextId \in Nat
      /\ highestAcked' \in Nat /\ n <= highestAcked' /\ highestAcked <= highestAcked'
      /\ highestAcked' < expectedNext /\ expectedNext <= nextId
  BY <1>1, <1>2, <1>3
  DEF IInv, TypeOK, HandlerTypeOK, SessionTypeOK, RobotIsAlong
<1>7. RobotIsAlong'
  BY <1>6 DEF IInv, RobotIsAlong, robotVars, handlerVars
<1>8. RepliesAreTrue(toHost', highestAcked', expectedNext', nextId')
  <2>1. expectedNext' = expectedNext /\ nextId' = nextId
    BY DEF robotVars, handlerVars
  <2> QED BY <1>1, <1>3, <2>1 DEF RepliesAreTrue
<1>9. BufferIsSuffix'
  <2>1. Outstanding = (highestAcked + 1)..(nextId - 1)
    BY DEF IInv, BufferIsSuffix
  <2>2. Outstanding' = (highestAcked' + 1)..(nextId' - 1)
    BY <1>2, <1>3, <1>4, <1>6, <2>1
  <2>3. \A i \in Outstanding' : pending'[i] = sent'[i]
    BY <1>3, <1>4 DEF IInv, BufferIsSuffix
  <2> QED BY <1>3, <2>2, <2>3 DEF BufferIsSuffix
<1> QED BY <1>5, <1>7, <1>8, <1>9 DEF IInv

\* ... and a nack, ...
LEMMA NackKeeps ==
  ASSUME IInv, toHost # << >>, resend = {},
         HandleNack(Head(toHost)), toHost' = Tail(toHost),
         UNCHANGED <<nextId, sent, pollCooling, wait, probes, toRobot, faults, robotVars>>
  PROVE  IInv'
<1>1. /\ Tail(toHost) \in Seq(Replies) /\ Head(toHost) \in Replies
      /\ RepliesAreTrue(Tail(toHost), highestAcked, expectedNext, nextId)
  BY ReplyTaken DEF IInv, TypeOK, WireTypeOK, HandlerTypeOK, SessionTypeOK
<1>2. /\ Head(toHost).n \in Nat
      /\ Head(toHost).done \in Nat /\ Head(toHost).reason \in Reasons
  BY <1>1 DEF Replies
<1>3. /\ pending' = pending /\ highestAcked' = highestAcked
      /\ hostDone' = Head(toHost).done /\ hostReason' = Head(toHost).reason
  BY DEF HandleNack
<1>4. /\ lastNackNext' \in {lastNackNext, Head(toHost).n}
      /\ cooling' \in {cooling, TRUE} /\ resendFirst' \in {resendFirst, FALSE}
      /\ resend' \subseteq Outstanding
  BY DEF HandleNack
<1>5. WireTypeOK' /\ AdapterTypeOK' /\ HandlerTypeOK'
  BY <1>1 DEF IInv, TypeOK, WireTypeOK, AdapterTypeOK, HandlerTypeOK,
     robotVars, adapterVars, handlerVars
<1>6. SessionTypeOK'
  BY <1>2, <1>3, <1>4 DEF IInv, TypeOK, SessionTypeOK, Outstanding
<1>7. IdsAreNumbered' /\ BufferIsSuffix' /\ RobotIsAlong'
  BY <1>3, <1>4 DEF IInv, IdsAreNumbered, BufferIsSuffix, RobotIsAlong, Outstanding,
     robotVars, handlerVars
<1>8. RepliesAreTrue(toHost', highestAcked', expectedNext', nextId')
  BY <1>1, <1>3 DEF robotVars, handlerVars
<1> QED BY <1>5, <1>6, <1>7, <1>8 DEF IInv, TypeOK

\* ... and any reply that carries no bookkeeping.
LEMMA InfoKeeps ==
  ASSUME IInv, toHost # << >>,
         HandleInfo(Head(toHost)), toHost' = Tail(toHost),
         UNCHANGED <<nextId, sent, pollCooling, wait, probes, toRobot, faults, robotVars>>
  PROVE  IInv'
<1>1. /\ Tail(toHost) \in Seq(Replies)
      /\ RepliesAreTrue(Tail(toHost), highestAcked, expectedNext, nextId)
  BY ReplyTaken DEF IInv, TypeOK, WireTypeOK, HandlerTypeOK, SessionTypeOK
<1>2. UNCHANGED <<pending, highestAcked, hostDone, hostReason, lastNackNext, cooling,
                  resendFirst, resend>>
  BY DEF HandleInfo, replyVars
<1>3. WireTypeOK' /\ AdapterTypeOK' /\ HandlerTypeOK' /\ SessionTypeOK'
  BY <1>1, <1>2 DEF IInv, TypeOK, WireTypeOK, AdapterTypeOK, HandlerTypeOK,
     SessionTypeOK, Outstanding, robotVars, adapterVars, handlerVars
<1>4. IdsAreNumbered' /\ BufferIsSuffix' /\ RobotIsAlong'
  BY <1>2 DEF IInv, IdsAreNumbered, BufferIsSuffix, RobotIsAlong, Outstanding,
     robotVars, handlerVars
<1>5. RepliesAreTrue(toHost', highestAcked', expectedNext', nextId')
  BY <1>1, <1>2 DEF robotVars, handlerVars
<1> QED BY <1>3, <1>4, <1>5 DEF IInv, TypeOK

\* So does the pump, whatever it reads.
LEMMA PumpKeeps ==
  ASSUME IInv, HostPumps
  PROVE  IInv'
<1>1. /\ toHost # << >> /\ resend = {} /\ toHost' = Tail(toHost)
      /\ UNCHANGED <<nextId, sent, pollCooling, wait, probes, toRobot, faults, robotVars>>
  BY DEF HostPumps, PumpReply
<1>2. \/ HandleAck(Head(toHost)) \/ HandleNack(Head(toHost)) \/ HandleInfo(Head(toHost))
  BY DEF HostPumps, PumpReply
<1> QED BY <1>1, <1>2, AckKeeps, NackKeeps, InfoKeeps

\* A pump that raises only loses replies.
LEMMA RaiseKeeps ==
  ASSUME IInv, HostRaises
  PROVE  IInv'
<1>1. PICK batch \in 1..Len(toHost) : toHost' = SubSeq(toHost, batch + 1, Len(toHost))
  BY DEF HostRaises, PumpRaises
<1>2. /\ wait' = NotWaiting /\ faults' = faults + 1
      /\ UNCHANGED <<sendVars, replyVars, pollCooling, probes, toRobot, robotVars>>
  BY DEF HostRaises, PumpRaises
<1>3. toHost \in Seq(Replies) /\ Len(toHost) \in Nat /\ batch \in Nat
  BY LenProperties DEF IInv, TypeOK, WireTypeOK
<1>4. /\ toHost' \in Seq(Replies) /\ Len(toHost') = Len(toHost) - batch
      /\ \A i \in 1..Len(toHost') : toHost'[i] = toHost[i + batch]
  <2>1. \A i \in (batch + 1)..Len(toHost) : toHost[i] \in Replies
    BY <1>3, ElementOfSeq
  <2> QED BY <1>1, <1>3, <2>1, SubSeqProperties
<1>5. RepliesAreTrue(toHost', highestAcked', expectedNext', nextId')
  <2>1. RepliesAreTrue(toHost', highestAcked, expectedNext, nextId)
    BY <1>3, <1>4, RepliesDropped
    DEF IInv, TypeOK, HandlerTypeOK, SessionTypeOK
  <2> QED BY <1>2, <2>1 DEF sendVars, replyVars, robotVars, handlerVars
<1>6. WireTypeOK' /\ AdapterTypeOK' /\ HandlerTypeOK' /\ SessionTypeOK'
  <2>1. WireTypeOK' /\ AdapterTypeOK' /\ HandlerTypeOK'
    BY <1>2, <1>4 DEF IInv, TypeOK, WireTypeOK, AdapterTypeOK, HandlerTypeOK,
       robotVars, adapterVars, handlerVars
  <2>2. wait' \in [call : {"none", "ack", "done"}, id : Nat]
    BY <1>2 DEF NotWaiting
  <2>3. SessionTypeOK'
    BY <1>2, <2>2 DEF IInv, TypeOK, SessionTypeOK, Outstanding, sendVars, replyVars
  <2> QED BY <2>1, <2>3
<1>7. IdsAreNumbered' /\ BufferIsSuffix' /\ RobotIsAlong'
  BY <1>2 DEF IInv, IdsAreNumbered, BufferIsSuffix, RobotIsAlong, Outstanding,
     sendVars, replyVars, robotVars, handlerVars
<1> QED BY <1>2, <1>5, <1>6, <1>7 DEF IInv, TypeOK, sendVars

\* Starting or ending a wait, and the ends of the cooldowns, touch none of it.
LEMMA WaitKeeps ==
  ASSUME IInv, HostWaits \/ TimePasses
  PROVE  IInv'
<1> DEFINE calm ==
      /\ UNCHANGED <<sendVars, highestAcked, hostDone, hostReason, lastNackNext,
                     resend, resendFirst, probes, wireVars, robotVars>>
      /\ cooling' \in BOOLEAN /\ pollCooling' \in BOOLEAN
      /\ wait' \in [call : {"none", "ack", "done"}, id : Nat]
<1>1. calm
  <2>1. ASSUME NEW call \in {"ack", "done"}, NEW id \in 1..MaxId, StartWait(call, id),
               UNCHANGED robotVars
        PROVE  calm
    BY <2>1, SessionAssumption DEF StartWait, replyVars, IInv, TypeOK, SessionTypeOK
  <2>2. ASSUME WaitReturns \/ WaitTimesOut, UNCHANGED robotVars
        PROVE  calm
    BY <2>2 DEF WaitReturns, WaitTimesOut, NotWaiting, replyVars, IInv, TypeOK, SessionTypeOK
  <2>3. ASSUME CooldownElapses \/ PollCooldownElapses, UNCHANGED robotVars
        PROVE  calm
    BY <2>3 DEF CooldownElapses, PollCooldownElapses, replyVars, IInv, TypeOK, SessionTypeOK
  <2> QED BY <2>1, <2>2, <2>3 DEF HostWaits, TimePasses
<1>2. WireTypeOK' /\ AdapterTypeOK' /\ HandlerTypeOK' /\ SessionTypeOK'
  BY <1>1 DEF IInv, TypeOK, WireTypeOK, AdapterTypeOK, HandlerTypeOK, SessionTypeOK,
     Outstanding, wireVars, sendVars, robotVars, adapterVars, handlerVars
<1>3. IdsAreNumbered' /\ BufferIsSuffix' /\ RobotIsAlong'
  BY <1>1 DEF IInv, IdsAreNumbered, BufferIsSuffix, RobotIsAlong, Outstanding,
     sendVars, robotVars, handlerVars
<1> QED BY <1>1, <1>2, <1>3 DEF IInv, TypeOK, wireVars, sendVars, robotVars, handlerVars

\* Losing a line or a reply.
LEMMA LossKeeps ==
  ASSUME IInv, LinkFails
  PROVE  IInv'
<1>1. UNCHANGED <<robotVars, sessionVars>> /\ faults' = faults + 1
  BY DEF LinkFails, LoseLine, LoseReply
<1> DEFINE streamsOK ==
      /\ toRobot' \in Seq(Lines) /\ toHost' \in Seq(Replies)
      /\ LinesAreSent(toRobot', nextId, sent)
      /\ RepliesAreTrue(toHost', highestAcked, expectedNext, nextId)
<1>2. streamsOK
  <2>1. CASE LoseLine
    BY <2>1, LineTaken DEF LoseLine, IInv, TypeOK, WireTypeOK
  <2>2. CASE LoseReply
    BY <2>2, ReplyTaken
    DEF LoseReply, IInv, TypeOK, WireTypeOK, HandlerTypeOK, SessionTypeOK
  <2> QED BY <2>1, <2>2 DEF LinkFails
<1>3. WireTypeOK' /\ AdapterTypeOK' /\ HandlerTypeOK' /\ SessionTypeOK'
  <2>1. WireTypeOK' /\ AdapterTypeOK' /\ HandlerTypeOK'
    BY <1>1, <1>2 DEF IInv, TypeOK, WireTypeOK, AdapterTypeOK, HandlerTypeOK,
       robotVars, adapterVars, handlerVars
  <2>2. SessionTypeOK'
    BY <1>1 DEF IInv, TypeOK, SessionTypeOK, Outstanding, sessionVars
  <2> QED BY <2>1, <2>2
<1>4. IdsAreNumbered' /\ BufferIsSuffix' /\ RobotIsAlong'
  BY <1>1 DEF IInv, IdsAreNumbered, BufferIsSuffix, RobotIsAlong, Outstanding,
     sessionVars, robotVars, handlerVars
<1> QED BY <1>1, <1>2, <1>3, <1>4 DEF IInv, TypeOK, sessionVars, robotVars, handlerVars

(***************************************************************************)
(* The robot's steps                                                       *)
(***************************************************************************)

\* The adapter's three ways to move keep its types.
LEMMA AdapterKeepsTypes ==
  ASSUME AdapterTypeOK
  PROVE  /\ \A id \in Nat : AcceptMotion(id) => AdapterTypeOK'
         /\ \A reason \in Reasons : EndAllMotion(reason) => AdapterTypeOK'
         /\ MotionCompletes => AdapterTypeOK'
<1> USE DEF AdapterTypeOK
<1>1. ASSUME NEW id \in Nat, AcceptMotion(id)
      PROVE  AdapterTypeOK'
  <2>1. Append(queue, id) \in Seq(Nat)
    BY AppendProperties
  <2> QED BY <1>1, <2>1 DEF AcceptMotion
<1>2. ASSUME NEW reason \in Reasons, FinishActive(reason)
      PROVE  /\ lastDone' \in Nat /\ lastDoneReason' \in Reasons
             /\ taken' \subseteq Nat /\ completed' \subseteq [id : Nat, reason : Reasons]
  BY <1>2 DEF FinishActive
<1>3. ASSUME NEW reason \in Reasons, EndAllMotion(reason)
      PROVE  AdapterTypeOK'
  <2>1. << >> \in Seq(Nat) /\ active' = 0 /\ queue' = << >>
    BY <1>3, EmptySeq DEF EndAllMotion
  <2>2. CASE FinishActive(reason)
    BY <1>2, <2>1, <2>2
  <2>3. CASE UNCHANGED <<lastDone, lastDoneReason, taken, completed>>
    BY <2>1, <2>3
  <2> QED BY <1>3, <2>2, <2>3 DEF EndAllMotion
<1>4. ASSUME MotionCompletes
      PROVE  AdapterTypeOK'
  <2>1. PICK reason \in CompletionReasons : FinishActive(reason)
    BY <1>4 DEF MotionCompletes
  <2>2. reason \in Reasons
    BY DEF Reasons
  <2>3. active' \in Nat /\ queue' \in Seq(Nat)
    <3>1. CASE queue = << >>
      BY <1>4, <3>1 DEF MotionCompletes
    <3>2. CASE queue # << >>
      BY <1>4, <3>2, HeadTailProperties DEF MotionCompletes
    <3> QED BY <3>1, <3>2
  <2> QED BY <1>2, <2>1, <2>2, <2>3
<1> QED BY <1>1, <1>3, <1>4

\* One or two replies make a sequence of replies.
LEMMA ShortReplies ==
  ASSUME NEW a \in Replies, NEW b \in Replies
  PROVE  /\ <<a>> \in Seq(Replies) /\ Len(<<a>>) = 1 /\ <<a>>[1] = a
         /\ <<a, b>> \in Seq(Replies) /\ Len(<<a, b>>) = 2
         /\ <<a, b>>[1] = a /\ <<a, b>>[2] = b
OBVIOUS

\* What the handler may write after a line, given the next id it then expects.
AnswersTruly(new, after) ==
  /\ new \in Seq(Replies)
  /\ \A k \in 1..Len(new) :
       /\ new[k].kind = "ack" => new[k].n < after
       /\ new[k].kind = "nack" =>
            /\ new[k].n = after /\ after < nextId
            /\ \A j \in 1..(k - 1) : new[j].kind # "ack"

\* The replies dispatch() writes are answers of that kind.
LEMMA AnswerShapes ==
  ASSUME IInv, NEW n \in Nat, NEW m \in Nat, NEW after \in Nat, n < after,
         NEW kind \in {"err", "pong", "estop", "device", "status"}
  PROVE  /\ AnswersTruly(<<Info(kind, m)>>, after)
         /\ AnswersTruly(<<AckNow(n)>>, after)
         /\ AnswersTruly(<<AckNow(n), Info(kind, m)>>, after)
         /\ after < nextId => /\ AnswersTruly(<<NackNow(after)>>, after)
                              /\ AnswersTruly(<<NackNow(after), Info(kind, m)>>, after)
<1>1. lastDone \in Nat /\ lastDoneReason \in Reasons /\ "none" \in Reasons
  BY DEF IInv, TypeOK, AdapterTypeOK, Reasons
<1>2. /\ Info(kind, m) \in Replies /\ AckNow(n) \in Replies /\ NackNow(after) \in Replies
      /\ Info(kind, m).kind = kind
      /\ AckNow(n).kind = "ack" /\ AckNow(n).n = n
      /\ NackNow(after).kind = "nack" /\ NackNow(after).n = after
  BY <1>1 DEF Info, AckNow, NackNow, Ack, Nack, Replies
<1>3. AnswersTruly(<<Info(kind, m)>>, after) /\ AnswersTruly(<<AckNow(n)>>, after)
  BY <1>2, ShortReplies DEF AnswersTruly
<1>4. AnswersTruly(<<AckNow(n), Info(kind, m)>>, after)
  BY <1>2, ShortReplies DEF AnswersTruly
<1>5. ASSUME after < nextId
      PROVE  /\ AnswersTruly(<<NackNow(after)>>, after)
             /\ AnswersTruly(<<NackNow(after), Info(kind, m)>>, after)
  <2>1. AnswersTruly(<<NackNow(after)>>, after)
    BY <1>2, <1>5, ShortReplies DEF AnswersTruly
  <2> DEFINE both == <<NackNow(after), Info(kind, m)>>
  <2>2. /\ both \in Seq(Replies) /\ Len(both) = 2
        /\ both[1] = NackNow(after) /\ both[2] = Info(kind, m)
    BY <1>2, ShortReplies
  <2> HIDE DEF both
  <2>3. \A k \in 1..Len(both) : /\ both[k].kind # "ack"
                                /\ both[k].kind = "nack" => k = 1 /\ both[k].n = after
    BY <1>2, <2>2
  <2>4. \A k \in 1..Len(both) : k = 1 => 1..(k - 1) = {}
    OBVIOUS
  <2>5. AnswersTruly(both, after)
    BY <1>5, <2>2, <2>3, <2>4 DEF AnswersTruly
  <2> QED BY <2>1, <2>5 DEF both
<1> QED BY <1>3, <1>4, <1>5

\* A line the robot handles without executing a command.
LEMMA SequenceStays ==
  ASSUME IInv, toRobot # << >>, toRobot' = Tail(toRobot), faults' \in Nat,
         UNCHANGED <<sessionVars, handlerVars>>, AdapterTypeOK',
         NEW new, AnswersTruly(new, expectedNext), toHost' = toHost \o new
  PROVE  IInv'
<1>1. /\ toRobot' \in Seq(Lines) /\ LinesAreSent(toRobot', nextId, sent)
  BY LineTaken DEF IInv, TypeOK, WireTypeOK
<1>2. /\ toHost \in Seq(Replies) /\ highestAcked \in Nat /\ expectedNext \in Nat
      /\ nextId \in Nat /\ highestAcked < expectedNext /\ expectedNext <= nextId
      /\ RepliesAreTrue(toHost, highestAcked, expectedNext, nextId)
  BY DEF IInv, TypeOK, WireTypeOK, HandlerTypeOK, SessionTypeOK, RobotIsAlong
<1>3. /\ new \in Seq(Replies) /\ expectedNext <= expectedNext
      /\ \A k \in 1..Len(new) :
           /\ new[k].kind = "ack" => new[k].n < expectedNext
           /\ new[k].kind = "nack" =>
                /\ new[k].n = expectedNext /\ expectedNext < nextId
                /\ \A j \in 1..(k - 1) : new[j].kind # "ack"
  BY <1>2 DEF AnswersTruly
<1>4. /\ toHost' \in Seq(Replies)
      /\ RepliesAreTrue(toHost', highestAcked, expectedNext, nextId)
  BY <1>2, <1>3, RepliesAppended
<1>5. WireTypeOK' /\ HandlerTypeOK' /\ SessionTypeOK'
  BY <1>1, <1>4 DEF IInv, TypeOK, WireTypeOK, HandlerTypeOK, SessionTypeOK,
     Outstanding, sessionVars, handlerVars
<1>6. IdsAreNumbered' /\ BufferIsSuffix' /\ RobotIsAlong'
  BY DEF IInv, IdsAreNumbered, BufferIsSuffix, RobotIsAlong, Outstanding,
     sessionVars, handlerVars
<1> QED BY <1>1, <1>4, <1>5, <1>6 DEF IInv, TypeOK, sessionVars, handlerVars

\* A counter below its modulus does not wrap.
LEMMA SmallRemainder ==
  ASSUME NEW a \in Nat, NEW b \in Nat, a < b
  PROVE  a % b = a
OBVIOUS

\* The command in order: the robot moves one further along the host's list.
LEMMA SequenceAdvances ==
  ASSUME Convention, IInv, toRobot # << >>, toRobot' = Tail(toRobot), faults' \in Nat,
         UNCHANGED sessionVars, AdapterTypeOK',
         NEW line \in SequencedLines, line.id < nextId, line.verb = sent[line.id],
         line.id = expectedNext,
         expectedNext' = (line.id + 1) % IdSpace, executed' = Append(executed, line),
         NEW new, AnswersTruly(new, expectedNext + 1), toHost' = toHost \o new
  PROVE  IInv' /\ expectedNext' = expectedNext + 1
              /\ line = Line(sent[expectedNext], expectedNext)
<1>1. /\ toRobot' \in Seq(Lines) /\ LinesAreSent(toRobot', nextId, sent)
  BY LineTaken DEF IInv, TypeOK, WireTypeOK
<1>2. /\ toHost \in Seq(Replies) /\ highestAcked \in Nat /\ expectedNext \in Nat
      /\ nextId \in Nat /\ highestAcked < expectedNext /\ expectedNext < nextId
      /\ RepliesAreTrue(toHost, highestAcked, expectedNext, nextId)
  BY DEF IInv, TypeOK, WireTypeOK, HandlerTypeOK, SessionTypeOK, RobotIsAlong
<1>3. expectedNext' = expectedNext + 1
  <2>1. /\ expectedNext + 1 <= MaxId + 1 /\ MaxId + 1 < IdSpace
        /\ MaxId \in Nat /\ IdSpace \in Nat
    BY <1>2, SessionAssumption, IdSpaceAssumption DEF IInv, IdsAreNumbered, Convention
  <2>2. expectedNext + 1 \in Nat /\ expectedNext + 1 < IdSpace
    BY <1>2, <2>1
  <2>3. (expectedNext + 1) % IdSpace = expectedNext + 1
    BY <2>1, <2>2, SmallRemainder
  <2> QED BY <2>3
<1>4. /\ new \in Seq(Replies) /\ expectedNext + 1 \in Nat
      /\ expectedNext <= expectedNext + 1 /\ expectedNext + 1 <= nextId
      /\ \A k \in 1..Len(new) :
           /\ new[k].kind = "ack" => new[k].n < expectedNext + 1
           /\ new[k].kind = "nack" =>
                /\ new[k].n = expectedNext + 1 /\ expectedNext + 1 < nextId
                /\ \A j \in 1..(k - 1) : new[j].kind # "ack"
  <2>1. /\ expectedNext + 1 \in Nat /\ expectedNext <= expectedNext + 1
        /\ expectedNext + 1 <= nextId
    BY <1>2
  <2> QED BY <2>1 DEF AnswersTruly
<1>5. /\ toHost' \in Seq(Replies)
      /\ RepliesAreTrue(toHost', highestAcked, expectedNext', nextId)
  BY <1>2, <1>3, <1>4, RepliesAppended
<1>6. line = Line(sent[expectedNext], expectedNext)
  BY DEF Line, SequencedLines
<1>7. /\ executed' \in Seq(SequencedLines) /\ Len(executed) = expectedNext - 1
      /\ Len(executed') = expectedNext
      /\ \A i \in 1..Len(executed) : executed'[i] = executed[i]
      /\ executed'[expectedNext] = line
  <2>1. executed \in Seq(SequencedLines) /\ Len(executed) = expectedNext - 1
    BY DEF IInv, TypeOK, HandlerTypeOK, RobotIsAlong
  <2>2. /\ executed' \in Seq(SequencedLines) /\ Len(executed') = Len(executed) + 1
        /\ \A i \in 1..Len(executed) : executed'[i] = executed[i]
        /\ executed'[Len(executed) + 1] = line
    BY <2>1, AppendProperties
  <2>3. Len(executed) + 1 = expectedNext
    BY <1>2, <2>1
  <2>4. Len(executed') = expectedNext /\ executed'[expectedNext] = line
    BY <2>2, <2>3
  <2> QED BY <2>1, <2>2, <2>4
<1>8. WireTypeOK' /\ HandlerTypeOK' /\ SessionTypeOK'
  <2>1. WireTypeOK' /\ HandlerTypeOK'
    BY <1>1, <1>2, <1>3, <1>5, <1>7 DEF WireTypeOK, HandlerTypeOK
  <2>2. SessionTypeOK'
    BY DEF IInv, TypeOK, SessionTypeOK, Outstanding, sessionVars
  <2> QED BY <2>1, <2>2
<1>9. IdsAreNumbered' /\ BufferIsSuffix'
  BY DEF IInv, IdsAreNumbered, BufferIsSuffix, Outstanding, sessionVars
<1>10. RobotIsAlong'
  <2>1. ASSUME NEW i \in 1..Len(executed')
        PROVE  executed'[i] = Line(sent[i], i)
    <3>1. CASE i = expectedNext
      BY <1>6, <1>7, <3>1
    <3>2. CASE i # expectedNext
      BY <1>2, <1>7, <3>2 DEF IInv, RobotIsAlong
    <3> QED BY <3>1, <3>2
  <2> QED BY <1>2, <1>3, <1>7, <2>1 DEF RobotIsAlong, sessionVars
<1> QED BY <1>1, <1>3, <1>5, <1>6, <1>8, <1>9, <1>10 DEF IInv, TypeOK, sessionVars

\* A line that dispatch() reads: as sent, or damaged on the way.
Received(line) ==
  \/ line = Head(toRobot)
  \/ IsSequenced(Head(toRobot)) /\ line \in Damage(Head(toRobot))

\* A line with a usable id is the copy of a command, whatever became of its verb.
LEMMA ReceivedLines ==
  ASSUME Convention, IInv, toRobot # << >>, NEW line, Received(line)
  PROVE  /\ line.verb # "HELLO"
         /\ Classifiable(line) => line.id \in Nat \ {0} /\ line.id < nextId
         /\ Classifiable(line) /\ line.verb \in KnownVerbs =>
              line \in SequencedLines /\ line.verb = sent[line.id]
<1> DEFINE h == Head(toRobot)
<1>1. /\ h \in Lines
      /\ IsSequenced(h) => h.id < nextId /\ h.verb = sent[h.id]
  BY LineTaken DEF IInv, TypeOK, WireTypeOK
<1> HIDE DEF h
<1>2. IsSequenced(h) => h \in SequencedLines
  BY <1>1, SessionAssumption DEF Lines, ProbeLines, IsSequenced
<1>3. h.verb # "HELLO"
  BY <1>1, SessionAssumption DEF Lines, SequencedLines, ProbeLines, Convention, UnsequencedVerbs
<1>4. CASE line = h
  BY <1>1, <1>2, <1>3, <1>4 DEF Classifiable, SequencedLines
<1>5. CASE IsSequenced(h) /\ line = [h EXCEPT !.verb = "damaged"]
  <2>1. h \in SequencedLines /\ line.verb = "damaged" /\ line.id = h.id
    BY <1>2, <1>5 DEF SequencedLines
  <2> QED BY <1>1, <1>5, <2>1 DEF SequencedLines, KnownVerbs
<1>6. CASE IsSequenced(h) /\ line = [h EXCEPT !.id = NoId]
  <2>1. h \in SequencedLines /\ line.verb = h.verb /\ line.id = NoId
    BY <1>2, <1>6 DEF SequencedLines
  <2>2. ~Classifiable(line)
    BY <2>1, IdSpaceAssumption DEF Classifiable, NoId
  <2> QED BY <1>3, <2>1, <2>2
<1> QED BY <1>4, <1>5, <1>6 DEF Received, Damage, h

\* dispatch() on one line, and what it does to the sequence.
LEMMA DispatchKeeps ==
  ASSUME Convention, IInv, toRobot # << >>, NEW line, Received(line), Dispatch(line),
         toRobot' = Tail(toRobot), faults' \in Nat, UNCHANGED sessionVars
  PROVE  /\ IInv'
         /\ \/ UNCHANGED handlerVars
            \/ /\ expectedNext' = expectedNext + 1
               /\ executed' = Append(executed, Line(sent[expectedNext], expectedNext))
<1>1. /\ line.verb # "HELLO"
      /\ Classifiable(line) => line.id \in Nat \ {0} /\ line.id < nextId
      /\ Classifiable(line) /\ line.verb \in KnownVerbs =>
           line \in SequencedLines /\ line.verb = sent[line.id]
  BY ReceivedLines
<1>2. AdapterTypeOK /\ expectedNext \in Nat /\ nextId \in Nat
  BY DEF IInv, TypeOK, HandlerTypeOK, SessionTypeOK
<1>3. "estop" \in Reasons /\ "stop" \in Reasons
  BY DEF Reasons
<1> DEFINE kept == IInv' /\ UNCHANGED handlerVars
<1>4. CASE HandleEstop(line)
  <2>1. /\ EndAllMotion("estop") /\ UNCHANGED handlerVars
        /\ toHost' = toHost \o <<Info("estop", 0)>>
    BY <1>4 DEF HandleEstop, Reply
  <2>2. AdapterTypeOK'
    BY <1>2, <1>3, <2>1, AdapterKeepsTypes
  <2>3. AnswersTruly(<<Info("estop", 0)>>, expectedNext)
    BY <1>2, AnswerShapes DEF IInv, RobotIsAlong, TypeOK, SessionTypeOK
  <2> QED BY <2>1, <2>2, <2>3, SequenceStays
<1>5. CASE HandlePing(line)
  <2>1. /\ UNCHANGED <<handlerVars, adapterVars>>
        /\ toHost' = toHost \o <<Info("pong", 0)>>
    BY <1>5 DEF HandlePing, Reply
  <2>2. AdapterTypeOK'
    BY <1>2, <2>1 DEF AdapterTypeOK, adapterVars
  <2>3. AnswersTruly(<<Info("pong", 0)>>, expectedNext)
    BY <1>2, AnswerShapes DEF IInv, RobotIsAlong, TypeOK, SessionTypeOK
  <2> QED BY <2>1, <2>2, <2>3, SequenceStays
<1>6. CASE HandleHello(line)
  BY <1>1, <1>6 DEF HandleHello
<1>7. CASE Unclassifiable(line)
  <2>1. UNCHANGED <<toHost, handlerVars, adapterVars>>
    BY <1>7 DEF Unclassifiable
  <2>2. AdapterTypeOK'
    BY <1>2, <2>1 DEF AdapterTypeOK, adapterVars
  <2>3. toHost \in Seq(Replies)
    BY DEF IInv, TypeOK, WireTypeOK
  <2>4. toHost' = toHost \o << >> /\ AnswersTruly(<< >>, expectedNext)
    BY <2>1, <2>3, ConcatEmptySeq, EmptySeq DEF AnswersTruly
  <2> QED BY <2>1, <2>2, <2>4, SequenceStays
<1>8. CASE StaleLine(line)
  <2>1. /\ UNCHANGED <<handlerVars, adapterVars>> /\ Classifiable(line)
        /\ toHost' = toHost \o <<AckNow(expectedNext - 1)>> /\ line.id < expectedNext
    BY <1>8 DEF StaleLine, Reply
  <2>2. AdapterTypeOK'
    BY <1>2, <2>1 DEF AdapterTypeOK, adapterVars
  <2>3. expectedNext - 1 \in Nat /\ expectedNext - 1 < expectedNext
    BY <1>1, <1>2, <2>1
  <2>4. AnswersTruly(<<AckNow(expectedNext - 1)>>, expectedNext)
    BY <1>2, <2>3, AnswerShapes
  <2> QED BY <2>1, <2>2, <2>4, SequenceStays
<1>9. CASE GapLine(line)
  <2>1. /\ UNCHANGED <<handlerVars, adapterVars>> /\ Classifiable(line)
        /\ toHost' = toHost \o <<NackNow(expectedNext)>> /\ line.id > expectedNext
    BY <1>9 DEF GapLine, Reply
  <2>2. AdapterTypeOK'
    BY <1>2, <2>1 DEF AdapterTypeOK, adapterVars
  <2>3. expectedNext < nextId /\ 0 < expectedNext
    BY <1>1, <1>2, <2>1 DEF IInv, RobotIsAlong, TypeOK, SessionTypeOK
  <2>4. AnswersTruly(<<NackNow(expectedNext)>>, expectedNext)
    BY <1>2, <2>3, AnswerShapes
  <2> QED BY <2>1, <2>2, <2>4, SequenceStays
<1>10. CASE DecodeFailure(line)
  <2>1. /\ UNCHANGED <<handlerVars, adapterVars>> /\ Classifiable(line)
        /\ toHost' = toHost \o <<NackNow(expectedNext), Info("err", line.id)>>
        /\ line.id = expectedNext
    BY <1>10 DEF DecodeFailure, Reply
  <2>2. AdapterTypeOK'
    BY <1>2, <2>1 DEF AdapterTypeOK, adapterVars
  <2>3. expectedNext < nextId /\ 0 < expectedNext /\ line.id \in Nat
    BY <1>1, <1>2, <2>1 DEF IInv, RobotIsAlong, TypeOK, SessionTypeOK
  <2>4. AnswersTruly(<<NackNow(expectedNext), Info("err", line.id)>>, expectedNext)
    BY <1>2, <2>3, AnswerShapes
  <2> QED BY <2>1, <2>2, <2>4, SequenceStays
<1>11. CASE AcceptLine(line)
  <2>1. /\ Classifiable(line) /\ line.id = expectedNext /\ line.verb \in KnownVerbs
        /\ expectedNext' = (line.id + 1) % IdSpace /\ executed' = Append(executed, line)
        /\ ExecMove(line) \/ ExecStop(line) \/ ExecStatus(line)
    BY <1>11 DEF AcceptLine
  <2>2. line \in SequencedLines /\ line.verb = sent[line.id] /\ line.id < nextId
    BY <1>1, <2>1
  <2>3. line.id \in Nat /\ line.id < expectedNext + 1 /\ expectedNext + 1 \in Nat
    BY <1>1, <1>2, <2>1
  <2>4. /\ AnswersTruly(<<AckNow(line.id)>>, expectedNext + 1)
        /\ AnswersTruly(<<AckNow(line.id), Info("err", line.id)>>, expectedNext + 1)
    BY <2>3, AnswerShapes
  <2>5. AdapterTypeOK' /\ \E new : AnswersTruly(new, expectedNext + 1)
                                  /\ toHost' = toHost \o new
    <3>1. CASE ExecMove(line)
      <4>1. CASE QueueFull
        BY <1>2, <2>4, <3>1, <4>1 DEF ExecMove, Reply, AdapterTypeOK, adapterVars
      <4>2. CASE ~QueueFull
        BY <1>2, <2>3, <2>4, <3>1, <4>2, AdapterKeepsTypes DEF ExecMove, Reply
      <4> QED BY <4>1, <4>2
    <3>2. CASE ExecStop(line)
      BY <1>2, <1>3, <2>4, <3>2, AdapterKeepsTypes DEF ExecStop, Reply
    <3>3. CASE ExecStatus(line)
      <4>1. expectedNext' \in Nat
        BY <2>1, <2>3, IdSpaceAssumption
      <4>2. AnswersTruly(<<AckNow(line.id), Info("status", expectedNext')>>, expectedNext + 1)
        BY <2>3, <4>1, AnswerShapes
      <4>3. AdapterTypeOK'
        BY <1>2, <3>3 DEF ExecStatus, AdapterTypeOK, adapterVars
      <4> QED BY <3>3, <4>2, <4>3 DEF ExecStatus, Reply
    <3> QED BY <2>1, <3>1, <3>2, <3>3
  <2>6. PICK new : AnswersTruly(new, expectedNext + 1) /\ toHost' = toHost \o new
    BY <2>5
  <2>7. IInv' /\ expectedNext' = expectedNext + 1
             /\ line = Line(sent[expectedNext], expectedNext)
    BY <2>1, <2>2, <2>5, <2>6, SequenceAdvances
  <2> QED BY <2>1, <2>7
<1> QED BY <1>4, <1>5, <1>6, <1>7, <1>8, <1>9, <1>10, <1>11 DEF Dispatch

\* The robot reads a line: the invariant holds, and at most the next command of
\* the host's list is executed.
LEMMA FeedKeeps ==
  ASSUME Convention, IInv, RobotFeeds
  PROVE  /\ IInv'
         /\ \/ UNCHANGED handlerVars
            \/ /\ expectedNext' = expectedNext + 1
               /\ executed' = Append(executed, Line(sent[expectedNext], expectedNext))
<1>1. faults \in Nat /\ UNCHANGED sessionVars
  BY DEF IInv, TypeOK, WireTypeOK, RobotFeeds
<1>2. CASE RobotReceives
  <2>1. /\ toRobot # << >> /\ Dispatch(Head(toRobot)) /\ toRobot' = Tail(toRobot)
        /\ faults' = faults
    BY <1>2 DEF RobotReceives
  <2>2. Received(Head(toRobot))
    BY DEF Received
  <2> QED BY <1>1, <2>1, <2>2, DispatchKeeps
<1>3. CASE RobotReceivesDamaged
  <2>1. /\ toRobot # << >> /\ IsSequenced(Head(toRobot)) /\ toRobot' = Tail(toRobot)
        /\ faults' = faults + 1
    BY <1>3 DEF RobotReceivesDamaged
  <2>2. PICK line \in Damage(Head(toRobot)) : Dispatch(line)
    BY <1>3 DEF RobotReceivesDamaged
  <2>3. Received(line) /\ faults' \in Nat
    BY <1>1, <2>1 DEF Received
  <2> QED BY <1>1, <2>1, <2>2, <2>3, DispatchKeeps
<1> QED BY <1>2, <1>3 DEF RobotFeeds

\* The adapter's own step.
LEMMA StepKeeps ==
  ASSUME IInv, RobotSteps
  PROVE  IInv'
<1>1. MotionCompletes /\ UNCHANGED <<wireVars, handlerVars, sessionVars>>
  BY DEF RobotSteps
<1>2. AdapterTypeOK'
  BY <1>1, AdapterKeepsTypes DEF IInv, TypeOK
<1>3. WireTypeOK' /\ HandlerTypeOK' /\ SessionTypeOK'
  BY <1>1 DEF IInv, TypeOK, WireTypeOK, HandlerTypeOK, SessionTypeOK, Outstanding,
     wireVars, handlerVars, sessionVars
<1>4. IdsAreNumbered' /\ BufferIsSuffix' /\ RobotIsAlong'
  BY <1>1 DEF IInv, IdsAreNumbered, BufferIsSuffix, RobotIsAlong, Outstanding,
     sessionVars, handlerVars
<1> QED BY <1>1, <1>2, <1>3, <1>4 DEF IInv, TypeOK, wireVars, sessionVars, handlerVars

\* A step that changes nothing keeps the invariant.
LEMMA NothingKeeps ==
  ASSUME IInv, UNCHANGED vars
  PROVE  IInv'
<1>1. UNCHANGED <<wireVars, adapterVars, handlerVars, sessionVars>>
  BY DEF vars
<1>2. TypeOK'
  <2>1. SessionTypeOK'
    BY <1>1 DEF IInv, TypeOK, SessionTypeOK, Outstanding, sessionVars
  <2>2. WireTypeOK' /\ AdapterTypeOK' /\ HandlerTypeOK'
    BY <1>1 DEF IInv, TypeOK, WireTypeOK, AdapterTypeOK, HandlerTypeOK,
       wireVars, adapterVars, handlerVars
  <2> QED BY <2>1, <2>2 DEF TypeOK
<1> QED BY <1>1, <1>2 DEF IInv, IdsAreNumbered, BufferIsSuffix, RobotIsAlong, Outstanding,
    wireVars, handlerVars, sessionVars

(***************************************************************************)
(* The invariant holds of the specification                                *)
(***************************************************************************)

\* The invariant holds at the start, ...
LEMMA InvariantInitially ==
  ASSUME LinkInit
  PROVE  IInv
<1> USE DEF LinkInit, WireInit, AdapterInit, HandlerInit, SessionInit
<1>1. /\ << >> \in Seq(Lines) /\ << >> \in Seq(Replies) /\ << >> \in Seq(Nat)
      /\ << >> \in Seq(SequencedLines) /\ << >> \in Seq(Verbs) /\ Len(<< >>) = 0
  BY EmptySeq
<1>2. Outstanding = {} /\ pending \in [Outstanding -> Verbs]
  <2>1. pending \in Seq(Verbs) /\ Len(pending) = 0
    BY <1>1
  <2>2. DOMAIN pending = 1..0 /\ pending \in [1..0 -> Verbs]
    BY <2>1, LenProperties
  <2> QED BY <2>2 DEF Outstanding
<1>3. TypeOK
  <2>1. WireTypeOK
    BY <1>1 DEF WireTypeOK
  <2>2. AdapterTypeOK
    BY <1>1 DEF AdapterTypeOK, Reasons
  <2>3. HandlerTypeOK
    BY <1>1 DEF HandlerTypeOK
  <2>4. SessionTypeOK
    <3>1. wait \in [call : {"none", "ack", "done"}, id : Nat]
      BY DEF NotWaiting
    <3>2. sent \in Seq(Verbs) /\ hostReason \in Reasons
      BY <1>1 DEF Reasons
    <3>3. Outstanding \subseteq Nat \ {0} /\ resend \subseteq Nat \ {0}
      BY <1>2
    <3>4. /\ nextId \in Nat \ {0} /\ probes \in Nat
          /\ highestAcked \in Nat /\ hostDone \in Nat /\ lastNackNext \in Nat
      OBVIOUS
    <3>5. cooling \in BOOLEAN /\ pollCooling \in BOOLEAN /\ resendFirst \in BOOLEAN
      OBVIOUS
    <3> QED BY <3>1, <3>2, <3>3, <3>4, <3>5, <1>2 DEF SessionTypeOK
  <2> QED BY <2>1, <2>2, <2>3, <2>4 DEF TypeOK
<1>4. IdsAreNumbered /\ BufferIsSuffix /\ RobotIsAlong
  BY <1>1, <1>2, SessionAssumption DEF IdsAreNumbered, BufferIsSuffix, RobotIsAlong
<1>5. /\ LinesAreSent(toRobot, nextId, sent)
      /\ RepliesAreTrue(toHost, highestAcked, expectedNext, nextId)
  BY <1>1 DEF LinesAreSent, RepliesAreTrue
<1> QED BY <1>3, <1>4, <1>5 DEF IInv

\* ... and every step keeps it.
LEMMA InvariantKept ==
  ASSUME Convention, IInv, [Next]_vars
  PROVE  IInv'
<1>1. CASE HostSends
  BY <1>1, SendKeeps, ProbeKeeps DEF HostSends
<1>2. CASE HostWaits \/ TimePasses
  BY <1>2, WaitKeeps
<1>3. CASE HostPolls
  BY <1>3, PollKeeps DEF HostPolls
<1>4. CASE HostPumps
  BY <1>4, PumpKeeps
<1>5. CASE HostRaises
  BY <1>5, RaiseKeeps
<1>6. CASE HostResends
  BY <1>6, ResendKeeps DEF HostResends
<1>7. CASE RobotFeeds
  BY <1>7, FeedKeeps
<1>8. CASE RobotSteps
  BY <1>8, StepKeeps
<1>9. CASE LinkFails
  BY <1>9, LossKeeps
<1>10. CASE UNCHANGED vars
  BY <1>10, NothingKeeps
<1> QED BY <1>1, <1>2, <1>3, <1>4, <1>5, <1>6, <1>7, <1>8, <1>9, <1>10 DEF Next

\* The inductive invariant holds of every reachable state of one session.
THEOREM InvariantHolds ==
  ASSUME Convention
  PROVE  Spec => []IInv
<1>1. LinkInit => IInv
  BY InvariantInitially
<1>2. IInv /\ [Next]_vars => IInv'
  BY InvariantKept
<1> QED BY <1>1, <1>2, PTL DEF Spec

(***************************************************************************)
(* What follows from it                                                    *)
(***************************************************************************)

\* Every variable keeps its type, for any number of commands and of faults.
THEOREM TypeCorrect ==
  ASSUME Convention
  PROVE  Spec => []TypeOK
<1>1. IInv => TypeOK
  BY DEF IInv
<1> QED BY <1>1, InvariantHolds, PTL

\* The robot executes what the host numbered, in order, each command once.
THEOREM ExecutionIsInOrder ==
  ASSUME Convention
  PROVE  Spec => []ExecutesInOrder
<1>1. IInv => ExecutesInOrder
  <2> SUFFICES ASSUME IInv PROVE ExecutesInOrder
    OBVIOUS
  <2>1. /\ Len(executed) = expectedNext - 1 /\ Len(sent) = nextId - 1
        /\ expectedNext <= nextId /\ expectedNext \in Nat /\ nextId \in Nat
    BY DEF IInv, TypeOK, HandlerTypeOK, SessionTypeOK, RobotIsAlong, IdsAreNumbered
  <2> QED BY <2>1 DEF IInv, RobotIsAlong, ExecutesInOrder
<1> QED BY <1>1, InvariantHolds, PTL

\* wait_for_ack() never reports a command that was not executed.
THEOREM AcksAreTrue ==
  ASSUME Convention
  PROVE  Spec => []AckedMeansExecuted
<1>1. IInv => AckedMeansExecuted
  BY DEF IInv, RobotIsAlong, AckedMeansExecuted
<1> QED BY <1>1, InvariantHolds, PTL

\* Whatever the robot still misses is in the host's buffer.
THEOREM MissingCanBeResent ==
  ASSUME Convention
  PROVE  Spec => []CanResendWhatIsMissing
<1>1. IInv => CanResendWhatIsMissing
  <2> SUFFICES ASSUME IInv, NEW id \in 1..(nextId - 1), id >= expectedNext
               PROVE  id \in Outstanding /\ pending[id] = sent[id]
    BY DEF CanResendWhatIsMissing
  <2>1. /\ highestAcked \in Nat /\ expectedNext \in Nat /\ nextId \in Nat
        /\ highestAcked < expectedNext
    BY DEF IInv, TypeOK, HandlerTypeOK, SessionTypeOK, RobotIsAlong
  <2>2. id \in (highestAcked + 1)..(nextId - 1)
    BY <2>1
  <2> QED BY <2>2 DEF IInv, BufferIsSuffix
<1> QED BY <1>1, InvariantHolds, PTL

\* A nack that reaches the host asks for something the host still has.
THEOREM NacksAreAnswerable ==
  ASSUME Convention
  PROVE  Spec => []NacksCanBeAnswered
<1>1. IInv => NacksCanBeAnswered
  <2> SUFFICES ASSUME IInv, NEW k \in 1..Len(toHost), toHost[k].kind = "nack"
               PROVE  /\ toHost[k].n \in Outstanding
                      /\ \A j \in 1..(k - 1) :
                           toHost[j].kind = "ack" => toHost[j].n < toHost[k].n
    BY DEF NacksCanBeAnswered
  <2>1. toHost[k] \in Replies
    BY ElementOfSeq DEF IInv, TypeOK, WireTypeOK
  <2>2. /\ highestAcked < toHost[k].n /\ toHost[k].n < nextId
        /\ \A j \in 1..(k - 1) : toHost[j].kind = "ack" => toHost[j].n < toHost[k].n
    BY DEF IInv, RepliesAreTrue
  <2>3. highestAcked \in Nat /\ nextId \in Nat /\ toHost[k].n \in Nat
    BY <2>1 DEF Replies, IInv, TypeOK, SessionTypeOK
  <2>4. toHost[k].n \in (highestAcked + 1)..(nextId - 1)
    BY <2>2, <2>3
  <2> QED BY <2>2, <2>4 DEF IInv, BufferIsSuffix
<1> QED BY <1>1, InvariantHolds, PTL

\* Only a line the robot reads can change what it has executed.
LEMMA SequenceStep ==
  ASSUME Convention, IInv, [Next]_vars
  PROVE  \/ UNCHANGED <<expectedNext, executed>>
         \/ /\ expectedNext' = expectedNext + 1
            /\ executed' = Append(executed, Line(sent[expectedNext], expectedNext))
            /\ UNCHANGED sent
<1>1. CASE RobotFeeds
  BY <1>1, FeedKeeps DEF RobotFeeds, sessionVars, handlerVars
<1>2. CASE HostSends \/ HostWaits \/ HostPolls \/ HostPumps \/ HostRaises
           \/ HostResends \/ TimePasses \/ LinkFails
  BY <1>2 DEF HostSends, HostWaits, HostPolls, HostPumps, HostRaises, HostResends,
     TimePasses, LinkFails, robotVars, handlerVars
<1>3. CASE RobotSteps \/ UNCHANGED vars
  BY <1>3 DEF RobotSteps, handlerVars, vars
<1> QED BY <1>1, <1>2, <1>3 DEF Next

\* One step executes at most the one command the robot expects.
THEOREM ExecutionIsOneAtATime ==
  ASSUME Convention
  PROVE  Spec => ExecutesOneAtATime
<1>1. IInv /\ [Next]_vars =>
        [\/ UNCHANGED <<expectedNext, executed>>
         \/ /\ expectedNext' = expectedNext + 1
            /\ executed' = Append(executed, Line(sent[expectedNext], expectedNext))]_vars
  BY SequenceStep
<1> QED BY <1>1, InvariantHolds, PTL DEF Spec, ExecutesOneAtATime

\* Only the host's assigning an id changes what has been sent.
LEMMA SentStep ==
  ASSUME IInv, [Next]_vars
  PROVE  \/ UNCHANGED sent
         \/ UNCHANGED executed /\ \E verb \in Verbs : sent' = Append(sent, verb)
<1>1. CASE HostSends \/ HostPolls
  <2>1. ASSUME NEW verb \in Verbs, Send(verb), UNCHANGED robotVars
        PROVE  UNCHANGED executed /\ sent' = Append(sent, verb)
    BY <2>1 DEF Send, AssignAndSend, robotVars, handlerVars
  <2>2. ASSUME NEW verb \in Probes, SendUnsequenced(verb)
        PROVE  UNCHANGED sent
    BY <2>2 DEF SendUnsequenced, sendVars
  <2>3. ASSUME HostPolls
        PROVE  UNCHANGED executed /\ sent' = Append(sent, "STATUS")
    BY <2>3 DEF HostPolls, PollStatus, AssignAndSend, robotVars, handlerVars
  <2> QED BY <1>1, <2>1, <2>2, <2>3, SessionAssumption DEF HostSends
<1>2. CASE HostWaits \/ HostPumps \/ HostRaises \/ HostResends \/ TimePasses
  BY <1>2 DEF HostWaits, StartWait, WaitReturns, WaitTimesOut, HostPumps, PumpReply,
     HostRaises, PumpRaises, HostResends, ResendNext, TimePasses, CooldownElapses,
     PollCooldownElapses, sendVars
<1>3. CASE RobotFeeds \/ RobotSteps \/ LinkFails \/ UNCHANGED vars
  BY <1>3 DEF RobotFeeds, RobotSteps, LinkFails, sessionVars, vars
<1> QED BY <1>1, <1>2, <1>3 DEF Next

\* The host's commands reach the robot in order, each exactly once: assigning
\* an id is the abstract Submit, executing the expected command its Deliver,
\* and whatever else the two ends and the link do is invisible.
THEOREM LinkImplementsInOrderDelivery ==
  ASSUME Convention
  PROVE  Spec => ImplementsInOrderDelivery
<1> DEFINE delivered == [i \in 1..Len(executed) |-> executed[i].verb]
<1>1. LinkInit => Abstract!Init
  <2> SUFFICES ASSUME LinkInit PROVE Abstract!Init
    OBVIOUS
  <2>1. executed = << >> /\ sent = << >> /\ Len(executed) = 0
    BY EmptySeq DEF LinkInit, HandlerInit, SessionInit
  <2>2. delivered = << >>
    BY <2>1
  <2> QED BY <2>1, <2>2 DEF Abstract!Init
<1>2. IInv /\ [Next]_vars => [Abstract!Next]_<<sent, delivered>>
  <2> SUFFICES ASSUME IInv, [Next]_vars
               PROVE  Abstract!Next \/ UNCHANGED <<sent, delivered>>
    OBVIOUS
  <2>1. CASE UNCHANGED sent /\ UNCHANGED executed
    BY <2>1
  <2>2. CASE UNCHANGED executed /\ \E verb \in Verbs : sent' = Append(sent, verb)
    BY <2>2 DEF Abstract!Next, Abstract!Submit
  <2>3. CASE /\ UNCHANGED sent
             /\ executed' = Append(executed, Line(sent[expectedNext], expectedNext))
    <3>1. /\ executed \in Seq(SequencedLines) /\ sent \in Seq(Verbs)
          /\ Len(executed) = expectedNext - 1 /\ expectedNext \in Nat
      BY DEF IInv, TypeOK, HandlerTypeOK, SessionTypeOK, RobotIsAlong
    <3>2. Len(executed') <= Len(sent) /\ Len(sent) \in Nat
      <4>1. IInv'
        BY InvariantKept
      <4>2. /\ Len(executed') = expectedNext' - 1 /\ Len(sent') = nextId' - 1
            /\ expectedNext' <= nextId' /\ expectedNext' \in Nat /\ nextId' \in Nat
        BY <4>1 DEF IInv, TypeOK, HandlerTypeOK, SessionTypeOK, RobotIsAlong, IdsAreNumbered
      <4>3. Len(sent) \in Nat
        BY <3>1, LenProperties
      <4>4. Len(sent') = Len(sent)
        BY <2>3
      <4> QED BY <4>2, <4>3, <4>4
    <3> DEFINE n == Len(executed)
    <3>3. n \in Nat /\ expectedNext = n + 1
      BY <3>1, LenProperties
    <3>4. /\ Len(executed') = n + 1
          /\ \A i \in 1..n : executed'[i] = executed[i]
          /\ executed'[n + 1] = Line(sent[n + 1], n + 1)
      <4>1. n + 1 \in 1..Len(sent)
        <5>1. Len(executed') = n + 1
          BY <2>3, <3>1
        <5> QED BY <3>2, <3>3, <5>1
      <4>2. Line(sent[n + 1], n + 1) \in SequencedLines
        BY <3>1, <3>3, <4>1, ElementOfSeq DEF Line, SequencedLines
      <4> QED BY <2>3, <3>1, <3>3, <4>2, AppendProperties
    <3>5. delivered \in Seq(Verbs) /\ Len(delivered) = n
      <4>1. ASSUME NEW i \in 1..n PROVE executed[i].verb \in Verbs
        <5>1. executed[i] \in SequencedLines
          BY <3>1, ElementOfSeq
        <5> QED BY <5>1 DEF SequencedLines
      <4> QED BY <3>3, <4>1
    <3>6. Append(delivered, sent[n + 1]) = [i \in 1..(n + 1) |->
                                           IF i = n + 1 THEN sent[n + 1] ELSE delivered[i]]
      BY <3>3, <3>5
    <3>7. delivered' = Append(delivered, sent[n + 1])
      <4>1. ASSUME NEW i \in 1..(n + 1)
            PROVE  executed'[i].verb = IF i = n + 1 THEN sent[n + 1] ELSE delivered[i]
        BY <3>3, <3>4 DEF Line
      <4> QED BY <3>4, <3>6, <4>1
    <3>8. n < Len(sent)
      BY <3>2, <3>3, <3>4
    <3> QED BY <2>3, <3>5, <3>7, <3>8 DEF Abstract!Next, Abstract!Deliver
  <2> QED BY <2>1, <2>2, <2>3, SequenceStep, SentStep
<1> QED BY <1>1, <1>2, InvariantHolds, PTL
        DEF Spec, ImplementsInOrderDelivery, Abstract!Spec
=============================================================================
