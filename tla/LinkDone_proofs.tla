-------------------------- MODULE LinkDone_proofs --------------------------
(***************************************************************************)
(* What a completion report is worth, proved for every value of the        *)
(* constants that respects the convention of ReliableLink_proofs: the      *)
(* completion the host knows of never moves back, it carries its own       *)
(* reason, and no motion up to it is running or queued.                    *)
(*                                                                         *)
(* The argument: the adapter runs motions in the order of their ids, so    *)
(* each completion it records names a greater id than the last; every ack  *)
(* and nack copies that record as it is written; the transport keeps their *)
(* order; so the reports on their way to the host ascend from what it has  *)
(* been told to what the robot has recorded.                               *)
(***************************************************************************)
EXTENDS ReliableLink_proofs

(***************************************************************************)
(* The inductive invariant                                                 *)
(***************************************************************************)

\* Completed, running and queued motions stand in the order of their ids, all
\* of them below the next id the robot expects.
MotionsInOrder ==
  /\ lastDone < expectedNext /\ active < expectedNext
  /\ active = 0 => queue = << >>
  /\ active # 0 => lastDone < active
  /\ \A k \in 1..Len(queue) : active < queue[k] /\ queue[k] < expectedNext
  /\ \A k \in 1..Len(queue) : \A j \in 1..(k - 1) : queue[j] < queue[k]

\* The last completion recorded did happen, for the reason recorded.
RecordIsTrue ==
  lastDone # 0 => [id |-> lastDone, reason |-> lastDoneReason] \in completed

IsReport(reply) == reply.kind \in {"ack", "nack"}

\* The reports in flight ascend from one id to another and are true.
ReportsAscend(replies, from, to, record) ==
  \A k \in 1..Len(replies) : IsReport(replies[k]) =>
    /\ from <= replies[k].done /\ replies[k].done <= to
    /\ replies[k].done # 0 =>
         [id |-> replies[k].done, reason |-> replies[k].reason] \in record
    /\ \A j \in 1..(k - 1) : IsReport(replies[j]) => replies[j].done <= replies[k].done

HostIsBehind == hostDone <= lastDone /\ DoneReasonIsItsOwn

DoneInv == /\ IInv /\ MotionsInOrder /\ RecordIsTrue /\ HostIsBehind
           /\ ReportsAscend(toHost, hostDone, lastDone, completed)

(***************************************************************************)
(* Lemmas on the stream of reports                                         *)
(***************************************************************************)

\* Reports of the robot's latest completion go behind the others.
LEMMA ReportsAppended ==
  ASSUME NEW old \in Seq(Replies), NEW new \in Seq(Replies),
         NEW from \in Nat, NEW to \in Nat, NEW later \in Nat,
         NEW record, NEW more, record \subseteq more,
         ReportsAscend(old, from, to, record), from <= to, to <= later,
         \A k \in 1..Len(new) : IsReport(new[k]) =>
           /\ new[k].done = to
           /\ to # 0 => [id |-> to, reason |-> new[k].reason] \in record
  PROVE  ReportsAscend(old \o new, from, later, more)
<1> DEFINE all == old \o new
<1>1. /\ Len(all) = Len(old) + Len(new)
      /\ \A i \in 1..Len(old) : all[i] = old[i]
      /\ \A i \in (Len(old) + 1)..(Len(old) + Len(new)) : all[i] = new[i - Len(old)]
      /\ Len(old) \in Nat /\ Len(new) \in Nat
  BY ConcatProperties, LenProperties
<1> HIDE DEF all
<1>2. ASSUME NEW k \in 1..Len(old), IsReport(all[k])
      PROVE  /\ from <= all[k].done /\ all[k].done <= to /\ all[k].done \in Nat
             /\ all[k].done # 0 =>
                  [id |-> all[k].done, reason |-> all[k].reason] \in record
             /\ \A j \in 1..(k - 1) : IsReport(old[j]) => old[j].done <= all[k].done
  <2>1. all[k] = old[k] /\ old[k] \in Replies
    BY <1>1, ElementOfSeq
  <2>2. old[k].done \in Nat
    BY <2>1 DEF Replies
  <2> QED BY <1>2, <2>1, <2>2 DEF ReportsAscend
<1>3. ASSUME NEW k \in 1..Len(all), k \notin 1..Len(old), IsReport(all[k])
      PROVE  /\ all[k].done = to
             /\ to # 0 => [id |-> to, reason |-> all[k].reason] \in record
  <2>1. k - Len(old) \in 1..Len(new) /\ all[k] = new[k - Len(old)]
    <3>1. k \in (Len(old) + 1)..(Len(old) + Len(new))
      BY <1>1, <1>3
    <3> QED BY <1>1, <3>1
  <2> QED BY <1>3, <2>1
<1>4. ASSUME NEW k \in 1..Len(all), IsReport(all[k])
      PROVE  /\ from <= all[k].done /\ all[k].done <= later
             /\ all[k].done # 0 =>
                  [id |-> all[k].done, reason |-> all[k].reason] \in more
             /\ \A j \in 1..(k - 1) : IsReport(all[j]) => all[j].done <= all[k].done
  <2>1. CASE k \in 1..Len(old)
    <3>1. \A j \in 1..(k - 1) : all[j] = old[j]
      <4>1. \A j \in 1..(k - 1) : j \in 1..Len(old)
        BY <1>1, <2>1
      <4> QED BY <1>1, <4>1
    <3>2. \A d \in Nat : d <= to => d <= later
      OBVIOUS
    <3> QED BY <1>2, <1>4, <2>1, <3>1, <3>2
  <2>2. CASE k \notin 1..Len(old)
    <3>1. all[k].done = to
      BY <1>3, <1>4, <2>2
    <3>2. ASSUME NEW j \in 1..(k - 1), IsReport(all[j])
          PROVE  all[j].done <= to
      <4>1. CASE j \in 1..Len(old)
        BY <1>2, <3>2, <4>1
      <4>2. CASE j \notin 1..Len(old)
        <5>1. j \in 1..Len(all) /\ to <= to
          BY <1>1
        <5>2. all[j].done = to
          BY <1>3, <3>2, <4>2, <5>1
        <5> QED BY <5>1, <5>2
      <4> QED BY <4>1, <4>2
    <3> QED BY <1>3, <1>4, <2>2, <3>1, <3>2
  <2> QED BY <2>1, <2>2
<1> QED BY <1>4 DEF ReportsAscend, all

\* Losing or handling the first reports leaves the rest ascending, from
\* whichever of the handled ones the host kept.
LEMMA ReportsDropped ==
  ASSUME NEW old \in Seq(Replies), NEW new \in Seq(Replies), NEW n \in Nat,
         NEW from, NEW to, NEW record,
         ReportsAscend(old, from, to, record),
         Len(new) = Len(old) - n,
         \A i \in 1..Len(new) : new[i] = old[i + n]
  PROVE  /\ ReportsAscend(new, from, to, record)
         /\ \A j \in 1..n : j <= Len(old) /\ IsReport(old[j]) =>
              ReportsAscend(new, old[j].done, to, record)
<1>1. Len(old) \in Nat /\ Len(new) \in Nat
  BY LenProperties
<1>2. ASSUME NEW k \in 1..Len(new)
      PROVE  /\ k + n \in 1..Len(old) /\ new[k] = old[k + n]
             /\ \A j \in 1..(k - 1) :
                  j \in 1..Len(new) /\ j + n \in 1..(k + n - 1) /\ new[j] = old[j + n]
             /\ \A j \in 1..n : j \in 1..(k + n - 1)
  BY <1>1
<1>3. ASSUME NEW k \in 1..Len(new), IsReport(new[k])
      PROVE  /\ from <= new[k].done /\ new[k].done <= to
             /\ new[k].done # 0 =>
                  [id |-> new[k].done, reason |-> new[k].reason] \in record
             /\ \A j \in 1..(k - 1) : IsReport(new[j]) => new[j].done <= new[k].done
             /\ \A j \in 1..n : IsReport(old[j]) => old[j].done <= new[k].done
  <2> DEFINE i == k + n
  <2>1. i \in 1..Len(old) /\ IsReport(old[i]) /\ new[k] = old[i]
    BY <1>2, <1>3
  <2> HIDE DEF i
  <2>2. /\ from <= old[i].done /\ old[i].done <= to
        /\ old[i].done # 0 =>
             [id |-> old[i].done, reason |-> old[i].reason] \in record
        /\ \A j \in 1..(i - 1) : IsReport(old[j]) => old[j].done <= old[i].done
    BY <2>1 DEF ReportsAscend
  <2>3. /\ \A j \in 1..(k - 1) : j + n \in 1..(i - 1) /\ new[j] = old[j + n]
        /\ \A j \in 1..n : j \in 1..(i - 1)
    BY <1>2 DEF i
  <2>4. ASSUME NEW j \in 1..(k - 1), IsReport(new[j])
        PROVE  new[j].done <= new[k].done
    BY <2>1, <2>2, <2>3, <2>4
  <2> QED BY <2>1, <2>2, <2>3, <2>4
<1> QED BY <1>3 DEF ReportsAscend

(***************************************************************************)
(* The steps that leave the robot alone                                    *)
(***************************************************************************)

\* What such a step has to show: it moves along the reports, and no further.
LEMMA HostHears ==
  ASSUME DoneInv, IInv', UNCHANGED robotVars,
         hostDone' <= lastDone,
         hostDone' # 0 => [id |-> hostDone', reason |-> hostReason'] \in completed,
         ReportsAscend(toHost', hostDone', lastDone, completed)
  PROVE  DoneInv'
<1>1. UNCHANGED <<active, queue, lastDone, lastDoneReason, completed, expectedNext>>
  BY DEF robotVars, adapterVars, handlerVars
<1>2. MotionsInOrder' /\ RecordIsTrue'
  BY <1>1 DEF DoneInv, MotionsInOrder, RecordIsTrue
<1> QED BY <1>1, <1>2 DEF DoneInv, HostIsBehind, DoneReasonIsItsOwn

\* Sending, resending, waiting and losing a line to the robot.
LEMMA SilenceKeeps ==
  ASSUME DoneInv, IInv', UNCHANGED <<robotVars, toHost, hostDone, hostReason>>
  PROVE  DoneInv'
<1>1. /\ hostDone' <= lastDone
      /\ hostDone' # 0 => [id |-> hostDone', reason |-> hostReason'] \in completed
      /\ ReportsAscend(toHost', hostDone', lastDone, completed)
  BY DEF DoneInv, HostIsBehind, DoneReasonIsItsOwn
<1> QED BY <1>1, HostHears

\* Replies lost on the way, or left unhandled by a pump that raised.
LEMMA LostReportsKeep ==
  ASSUME DoneInv, IInv', UNCHANGED <<robotVars, hostDone, hostReason>>,
         NEW n \in Nat, Len(toHost') = Len(toHost) - n,
         \A i \in 1..Len(toHost') : toHost'[i] = toHost[i + n]
  PROVE  DoneInv'
<1>1. /\ toHost \in Seq(Replies) /\ toHost' \in Seq(Replies)
      /\ ReportsAscend(toHost, hostDone, lastDone, completed)
  BY DEF DoneInv, IInv, TypeOK, WireTypeOK
<1>2. ReportsAscend(toHost', hostDone, lastDone, completed)
  BY <1>1, ReportsDropped
<1>3. /\ hostDone' <= lastDone
      /\ hostDone' # 0 => [id |-> hostDone', reason |-> hostReason'] \in completed
  BY DEF DoneInv, HostIsBehind, DoneReasonIsItsOwn
<1> QED BY <1>2, <1>3, HostHears

\* What the host does without reading a reply.
LEMMA HostQuietly ==
  ASSUME DoneInv, IInv',
         HostSends \/ HostWaits \/ HostPolls \/ HostResends \/ TimePasses
  PROVE  DoneInv' /\ UNCHANGED hostDone
<1>1. UNCHANGED <<robotVars, toHost, hostDone, hostReason>>
  <2>1. ASSUME HostSends PROVE UNCHANGED <<robotVars, toHost, hostDone, hostReason>>
    BY <2>1 DEF HostSends, Send, SendUnsequenced, replyVars
  <2>2. ASSUME HostWaits PROVE UNCHANGED <<robotVars, toHost, hostDone, hostReason>>
    BY <2>2 DEF HostWaits, StartWait, WaitReturns, WaitTimesOut, replyVars, wireVars
  <2>3. ASSUME HostPolls \/ HostResends
        PROVE  UNCHANGED <<robotVars, toHost, hostDone, hostReason>>
    BY <2>3 DEF HostPolls, PollStatus, HostResends, ResendNext
  <2>4. ASSUME TimePasses PROVE UNCHANGED <<robotVars, toHost, hostDone, hostReason>>
    BY <2>4 DEF TimePasses, CooldownElapses, PollCooldownElapses, replyVars, wireVars
  <2> QED BY <2>1, <2>2, <2>3, <2>4
<1> QED BY <1>1, SilenceKeeps

\* What is left of the stream when its first reply has gone.
LEMMA FirstReplyGone ==
  ASSUME NEW old \in Seq(Replies), old # << >>
  PROVE  /\ Head(old) \in Replies /\ Head(old) = old[1] /\ 1 <= Len(old)
         /\ Tail(old) \in Seq(Replies) /\ Len(Tail(old)) = Len(old) - 1
         /\ \A i \in 1..Len(Tail(old)) : Tail(old)[i] = old[i + 1]
BY HeadTailProperties, LenProperties, EmptySeq

\* A lost line says nothing, and a lost reply leaves the others in order.
LEMMA LinkFailsQuietly ==
  ASSUME DoneInv, IInv', LinkFails
  PROVE  DoneInv' /\ UNCHANGED hostDone
<1>1. UNCHANGED <<robotVars, hostDone, hostReason>>
  BY DEF LinkFails, sessionVars
<1>2. CASE LoseLine
  BY <1>1, <1>2, SilenceKeeps DEF LoseLine
<1>3. CASE LoseReply
  <2>1. toHost \in Seq(Replies) /\ toHost # << >> /\ toHost' = Tail(toHost)
    BY <1>3 DEF LoseReply, DoneInv, IInv, TypeOK, WireTypeOK
  <2>2. /\ Len(toHost') = Len(toHost) - 1
        /\ \A i \in 1..Len(toHost') : toHost'[i] = toHost[i + 1]
    BY <2>1, FirstReplyGone
  <2>3. 1 \in Nat
    OBVIOUS
  <2> QED BY <1>1, <2>2, <2>3, LostReportsKeep
<1> QED BY <1>2, <1>3 DEF LinkFails

\* A pump that raises loses a batch, which is as if each reply had been lost.
LEMMA RaiseQuietly ==
  ASSUME DoneInv, IInv', HostRaises
  PROVE  DoneInv' /\ UNCHANGED hostDone
<1>1. PICK batch \in 1..Len(toHost) : toHost' = SubSeq(toHost, batch + 1, Len(toHost))
  BY DEF HostRaises, PumpRaises
<1>2. UNCHANGED <<robotVars, hostDone, hostReason>>
  BY DEF HostRaises, PumpRaises, replyVars
<1>3. toHost \in Seq(Replies) /\ Len(toHost) \in Nat /\ batch \in Nat
  BY LenProperties DEF DoneInv, IInv, TypeOK, WireTypeOK
<1>4. /\ Len(toHost') = Len(toHost) - batch
      /\ \A i \in 1..Len(toHost') : toHost'[i] = toHost[i + batch]
  <2>1. \A i \in (batch + 1)..Len(toHost) : toHost[i] \in Replies
    BY <1>3, ElementOfSeq
  <2> QED BY <1>1, <1>3, <2>1, SubSeqProperties
<1> QED BY <1>2, <1>3, <1>4, LostReportsKeep

\* Handling a reply: an ack or a nack brings the host to the completion it
\* carries, which is not before the one it knew; nothing else moves it.
LEMMA PumpMovesOn ==
  ASSUME DoneInv, IInv', HostPumps
  PROVE  DoneInv' /\ hostDone <= hostDone'
<1>1. /\ toHost \in Seq(Replies) /\ toHost # << >> /\ toHost' = Tail(toHost)
      /\ UNCHANGED robotVars /\ hostDone \in Nat
      /\ ReportsAscend(toHost, hostDone, lastDone, completed)
  BY DEF HostPumps, PumpReply, DoneInv, IInv, TypeOK, WireTypeOK, SessionTypeOK
<1>2. /\ Head(toHost) = toHost[1] /\ Head(toHost) \in Replies /\ 1 <= Len(toHost)
      /\ Len(toHost') = Len(toHost) - 1 /\ toHost' \in Seq(Replies)
      /\ \A i \in 1..Len(toHost') : toHost'[i] = toHost[i + 1]
  BY <1>1, FirstReplyGone
<1>3. 1 \in Nat /\ 1 \in 1..1 /\ 1 \in 1..Len(toHost)
  BY <1>1, <1>2, LenProperties
<1>4. CASE HandleInfo(Head(toHost))
  <2>1. UNCHANGED <<hostDone, hostReason>>
    BY <1>4 DEF HandleInfo, replyVars
  <2> QED BY <1>1, <1>2, <1>3, <2>1, LostReportsKeep
<1>5. CASE HandleAck(Head(toHost)) \/ HandleNack(Head(toHost))
  <2> DEFINE reply == toHost[1]
  <2>1. IsReport(reply) /\ hostDone' = reply.done /\ hostReason' = reply.reason
    BY <1>2, <1>5 DEF HandleAck, HandleNack, IsReport
  <2>2. /\ hostDone <= reply.done /\ reply.done <= lastDone
        /\ reply.done # 0 => [id |-> reply.done, reason |-> reply.reason] \in completed
    BY <1>1, <1>3, <2>1 DEF ReportsAscend
  <2>3. ReportsAscend(toHost', reply.done, lastDone, completed)
    BY <1>1, <1>2, <1>3, <2>1, ReportsDropped
  <2> QED BY <1>1, <2>1, <2>2, <2>3, HostHears
<1> QED BY <1>4, <1>5 DEF HostPumps, PumpReply

(***************************************************************************)
(* The robot's steps                                                       *)
(***************************************************************************)

\* What a step does to the motions and to the record of completions.
MovesOn == /\ MotionsInOrder' /\ RecordIsTrue'
           /\ lastDone <= lastDone' /\ completed \subseteq completed'

\* What the handler may write: reports of the record as it stands.
ReportsTruly(new) ==
  /\ new \in Seq(Replies)
  /\ \A k \in 1..Len(new) : IsReport(new[k]) =>
       new[k].done = lastDone /\ new[k].reason = lastDoneReason

\* The adapter's variables have their types, and the ids theirs.
LEMMA AdapterTypes ==
  ASSUME DoneInv
  PROVE  /\ active \in Nat /\ queue \in Seq(Nat) /\ Len(queue) \in Nat
         /\ lastDone \in Nat /\ expectedNext \in Nat /\ 0 < expectedNext
         /\ \A k \in 1..Len(queue) : queue[k] \in Nat
<1>1. active \in Nat /\ queue \in Seq(Nat) /\ lastDone \in Nat /\ expectedNext \in Nat
  BY DEF DoneInv, IInv, TypeOK, AdapterTypeOK, HandlerTypeOK
<1>2. lastDone < expectedNext
  BY DEF DoneInv, MotionsInOrder
<1> QED BY <1>1, <1>2, LenProperties, ElementOfSeq

\* A step that leaves the adapter alone.
LEMMA AdapterIdle ==
  ASSUME DoneInv, UNCHANGED adapterVars,
         expectedNext' \in Nat, expectedNext <= expectedNext'
  PROVE  MovesOn
<1>1. UNCHANGED <<active, queue, lastDone, lastDoneReason, completed>>
  BY DEF adapterVars
<1>2. \A n \in Nat : n < expectedNext => n < expectedNext'
  BY AdapterTypes
<1>3. lastDone <= lastDone
  BY AdapterTypes
<1> QED BY <1>1, <1>2, <1>3, AdapterTypes DEF MovesOn, DoneInv, MotionsInOrder, RecordIsTrue

\* The running motion is recorded: it is the next one to be over.
LEMMA RecordAdvances ==
  ASSUME DoneInv, active # 0, NEW reason, FinishActive(reason)
  PROVE  /\ lastDone' = active /\ lastDone < active /\ RecordIsTrue'
         /\ completed \subseteq completed'
BY DEF FinishActive, RecordIsTrue, DoneInv, MotionsInOrder

\* A stop, of either kind, ends whatever was running and drains the queue.
LEMMA EndMovesOn ==
  ASSUME DoneInv, NEW reason, EndAllMotion(reason),
         expectedNext' \in Nat, expectedNext <= expectedNext'
  PROVE  MovesOn
<1>1. active' = 0 /\ queue' = << >> /\ Len(queue') = 0
  BY EmptySeq DEF EndAllMotion
<1>2. /\ RecordIsTrue' /\ lastDone <= lastDone' /\ completed \subseteq completed'
      /\ lastDone' < expectedNext'
  <2>1. CASE active # 0
    <3>1. FinishActive(reason)
      BY <2>1 DEF EndAllMotion
    <3>2. active < expectedNext /\ lastDone < active
      BY <2>1 DEF DoneInv, MotionsInOrder
    <3> QED BY <2>1, <3>1, <3>2, RecordAdvances, AdapterTypes
  <2>2. CASE active = 0
    <3>1. UNCHANGED <<lastDone, lastDoneReason, completed>>
      BY <2>2 DEF EndAllMotion
    <3>2. lastDone < expectedNext
      BY DEF DoneInv, MotionsInOrder
    <3> QED BY <3>1, <3>2, AdapterTypes DEF DoneInv, RecordIsTrue
  <2> QED BY <2>1, <2>2
<1>3. 0 < expectedNext'
  BY AdapterTypes
<1> QED BY <1>1, <1>2, <1>3 DEF MovesOn, MotionsInOrder

\* A motion is taken: its id is the greatest there is.
LEMMA AcceptMovesOn ==
  ASSUME DoneInv, AcceptMotion(expectedNext), expectedNext' = expectedNext + 1
  PROVE  MovesOn
<1> DEFINE e == expectedNext
<1>1. /\ UNCHANGED <<lastDone, lastDoneReason, completed>>
      /\ e \in Nat /\ 0 < e /\ e' = e + 1 /\ lastDone \in Nat /\ lastDone < e /\ active \in Nat
      /\ queue \in Seq(Nat) /\ Len(queue) \in Nat
  BY AdapterTypes DEF AcceptMotion, DoneInv, MotionsInOrder
<1> HIDE DEF e
<1>2. /\ RecordIsTrue' /\ lastDone <= lastDone' /\ completed \subseteq completed'
      /\ lastDone' < e'
  BY <1>1 DEF DoneInv, RecordIsTrue
<1>3. CASE active = 0
  <2>1. active' = e /\ queue' = << >> /\ Len(queue') = 0
    BY <1>3, EmptySeq DEF AcceptMotion, DoneInv, MotionsInOrder, e
  <2>2. active' < e' /\ active' # 0 /\ lastDone' < active'
    BY <1>1, <2>1
  <2>3. 1..Len(queue') = {}
    BY <2>1
  <2> QED BY <1>2, <2>2, <2>3 DEF MovesOn, MotionsInOrder, e
<1>4. CASE active # 0
  <2>1. active' = active /\ queue' = Append(queue, e)
    BY <1>4 DEF AcceptMotion, e
  <2>2. /\ Len(queue') = Len(queue) + 1 /\ queue'[Len(queue) + 1] = e
        /\ \A k \in 1..Len(queue) : queue'[k] = queue[k]
    BY <1>1, <2>1, AppendProperties
  <2>3. /\ active < e /\ lastDone < active
        /\ \A k \in 1..Len(queue) : queue[k] \in Nat /\ active < queue[k] /\ queue[k] < e
        /\ \A k \in 1..Len(queue) : \A j \in 1..(k - 1) : queue[j] < queue[k]
    BY <1>4, AdapterTypes DEF DoneInv, MotionsInOrder, e
  <2>4. ASSUME NEW k \in 1..Len(queue')
        PROVE  /\ active < queue'[k] /\ queue'[k] < e + 1
               /\ \A j \in 1..(k - 1) : queue'[j] < queue'[k]
    <3>1. CASE k \in 1..Len(queue)
      <4>1. \A j \in 1..(k - 1) : j \in 1..Len(queue)
        BY <1>1, <3>1
      <4>2. \A n \in Nat : n < e => n < e + 1
        BY <1>1
      <4> QED BY <2>2, <2>3, <3>1, <4>1, <4>2
    <3>2. CASE k \notin 1..Len(queue)
      <4>1. k = Len(queue) + 1 /\ e < e + 1
        BY <1>1, <2>2, <3>2
      <4>2. \A j \in 1..(k - 1) : j \in 1..Len(queue)
        BY <1>1, <4>1
      <4> QED BY <2>2, <2>3, <4>1, <4>2
    <3> QED BY <3>1, <3>2
  <2>5. active' < e' /\ active' # 0 /\ lastDone' < active'
    BY <1>1, <1>4, <2>1, <2>3
  <2> QED BY <1>1, <1>2, <2>1, <2>4, <2>5 DEF MovesOn, MotionsInOrder, e
<1> QED BY <1>3, <1>4

\* The tick that ends a motion: the next one in the queue has a greater id.
LEMMA CompletionMovesOn ==
  ASSUME DoneInv, MotionCompletes, expectedNext' = expectedNext
  PROVE  MovesOn
<1>1. PICK reason \in CompletionReasons : FinishActive(reason)
  BY DEF MotionCompletes
<1>2. active # 0
  BY DEF MotionCompletes
<1>3. /\ lastDone' = active /\ lastDone < active /\ active < expectedNext
      /\ RecordIsTrue' /\ completed \subseteq completed'
      /\ lastDone \in Nat /\ active \in Nat /\ expectedNext \in Nat
      /\ queue \in Seq(Nat) /\ Len(queue) \in Nat
  BY <1>1, <1>2, RecordAdvances, AdapterTypes DEF DoneInv, MotionsInOrder
<1>4. lastDone <= lastDone' /\ lastDone' < expectedNext' /\ 0 < expectedNext'
  BY <1>3
<1>5. CASE queue = << >>
  <2>1. active' = 0 /\ queue' = << >> /\ 1..Len(queue') = {}
    BY <1>5, EmptySeq DEF MotionCompletes
  <2> QED BY <1>3, <1>4, <2>1 DEF MovesOn, MotionsInOrder
<1>6. CASE queue # << >>
  <2>1. /\ active' = queue[1] /\ Len(queue') = Len(queue) - 1 /\ 1 \in 1..Len(queue)
        /\ \A k \in 1..Len(queue') : queue'[k] = queue[k + 1]
    <3>1. /\ queue' = Tail(queue) /\ active' = Head(queue)
      BY <1>6 DEF MotionCompletes
    <3>2. /\ Head(queue) = queue[1] /\ Len(Tail(queue)) = Len(queue) - 1
          /\ \A k \in 1..Len(Tail(queue)) : Tail(queue)[k] = queue[k + 1]
      BY <1>3, <1>6, HeadTailProperties
    <3>3. Len(queue) # 0
      BY <1>3, <1>6, EmptySeq
    <3> QED BY <1>3, <3>1, <3>2, <3>3
  <2>2. /\ \A k \in 1..Len(queue) : active < queue[k] /\ queue[k] < expectedNext
        /\ \A k \in 1..Len(queue) : \A j \in 1..(k - 1) : queue[j] < queue[k]
        /\ \A k \in 1..Len(queue) : queue[k] \in Nat
    BY AdapterTypes DEF DoneInv, MotionsInOrder
  <2>3. active' # 0 /\ lastDone' < active' /\ active' < expectedNext'
    BY <1>3, <2>1, <2>2
  <2>4. ASSUME NEW k \in 1..Len(queue')
        PROVE  /\ active' < queue'[k] /\ queue'[k] < expectedNext'
               /\ \A j \in 1..(k - 1) : queue'[j] < queue'[k]
    <3>1. /\ k + 1 \in 1..Len(queue) /\ 1 \in 1..(k + 1 - 1)
          /\ \A j \in 1..(k - 1) : j + 1 \in 1..(k + 1 - 1) /\ j \in 1..Len(queue')
      BY <1>3, <2>1
    <3>2. queue[1] < queue[k + 1] /\ queue[k + 1] < expectedNext
      BY <2>2, <3>1
    <3>3. \A j \in 1..(k - 1) : queue[j + 1] < queue[k + 1]
      BY <2>2, <3>1
    <3>4. queue'[k] = queue[k + 1] /\ \A j \in 1..(k - 1) : queue'[j] = queue[j + 1]
      BY <2>1, <3>1
    <3>5. active' = queue[1] /\ expectedNext' = expectedNext
      BY <2>1
    <3> QED BY <3>2, <3>3, <3>4, <3>5
  <2> QED BY <1>3, <1>4, <2>3, <2>4 DEF MovesOn, MotionsInOrder
<1> QED BY <1>5, <1>6

\* What the robot writes after a line tells the record as it was before it.
LEMMA RobotReports ==
  ASSUME DoneInv, IInv', MovesOn, UNCHANGED <<hostDone, hostReason>>,
         NEW new, ReportsTruly(new), toHost' = toHost \o new
  PROVE  DoneInv'
<1>1. /\ toHost \in Seq(Replies) /\ new \in Seq(Replies)
      /\ hostDone \in Nat /\ lastDone \in Nat /\ lastDone' \in Nat
      /\ hostDone <= lastDone /\ lastDone <= lastDone' /\ completed \subseteq completed'
      /\ ReportsAscend(toHost, hostDone, lastDone, completed)
  BY DEF DoneInv, HostIsBehind, MovesOn, ReportsTruly, IInv, TypeOK, WireTypeOK,
     AdapterTypeOK, SessionTypeOK
<1>2. \A k \in 1..Len(new) : IsReport(new[k]) =>
        /\ new[k].done = lastDone
        /\ lastDone # 0 => [id |-> lastDone, reason |-> new[k].reason] \in completed
  BY DEF ReportsTruly, DoneInv, RecordIsTrue
<1>3. ReportsAscend(toHost', hostDone', lastDone', completed')
  BY <1>1, <1>2, ReportsAppended
<1>4. hostDone' <= lastDone' /\ DoneReasonIsItsOwn'
  BY <1>1 DEF DoneInv, HostIsBehind, DoneReasonIsItsOwn
<1> QED BY <1>3, <1>4 DEF DoneInv, HostIsBehind, MovesOn

\* The replies dispatch() writes are of that kind.
LEMMA AnswersReport ==
  ASSUME DoneInv, NEW n \in Nat, NEW m \in Nat,
         NEW kind \in {"err", "pong", "estop", "device", "status"}
  PROVE  /\ ReportsTruly(<< >>) /\ ReportsTruly(<<Info(kind, m)>>)
         /\ ReportsTruly(<<AckNow(n)>>) /\ ReportsTruly(<<NackNow(n)>>)
         /\ ReportsTruly(<<AckNow(n), Info(kind, m)>>)
         /\ ReportsTruly(<<NackNow(n), Info(kind, m)>>)
<1>1. lastDone \in Nat /\ lastDoneReason \in Reasons /\ "none" \in Reasons
  BY DEF DoneInv, IInv, TypeOK, AdapterTypeOK, Reasons
<1>2. /\ Info(kind, m) \in Replies /\ AckNow(n) \in Replies /\ NackNow(n) \in Replies
      /\ ~IsReport(Info(kind, m))
      /\ AckNow(n).done = lastDone /\ AckNow(n).reason = lastDoneReason
      /\ NackNow(n).done = lastDone /\ NackNow(n).reason = lastDoneReason
  BY <1>1 DEF Info, AckNow, NackNow, Ack, Nack, Replies, IsReport
<1>3. ReportsTruly(<< >>)
  BY EmptySeq DEF ReportsTruly
<1>4. /\ ReportsTruly(<<Info(kind, m)>>)
      /\ ReportsTruly(<<AckNow(n)>>) /\ ReportsTruly(<<NackNow(n)>>)
  BY <1>2, ShortReplies DEF ReportsTruly
<1>5. ASSUME NEW reply \in {AckNow(n), NackNow(n)}
      PROVE  ReportsTruly(<<reply, Info(kind, m)>>)
  <2> DEFINE both == <<reply, Info(kind, m)>>
  <2>1. /\ both \in Seq(Replies) /\ Len(both) = 2
        /\ both[1] = reply /\ both[2] = Info(kind, m)
    BY <1>2, ShortReplies
  <2> HIDE DEF both
  <2> QED BY <1>2, <2>1 DEF ReportsTruly, both
<1> QED BY <1>3, <1>4, <1>5

\* dispatch() on one line.
LEMMA DispatchReports ==
  ASSUME Convention, DoneInv, toRobot # << >>, NEW line, Received(line), Dispatch(line),
         toRobot' = Tail(toRobot), faults' \in Nat, UNCHANGED sessionVars
  PROVE  DoneInv'
<1>1. /\ IInv'
      /\ line.verb # "HELLO"
      /\ Classifiable(line) => line.id \in Nat
  BY DispatchKeeps, ReceivedLines DEF DoneInv
<1>2. /\ expectedNext \in Nat /\ expectedNext' \in Nat
      /\ expectedNext' = expectedNext \/ expectedNext' = expectedNext + 1
  BY <1>1, DispatchKeeps DEF DoneInv, IInv, TypeOK, HandlerTypeOK, handlerVars
<1>3. expectedNext <= expectedNext' /\ UNCHANGED <<hostDone, hostReason>>
  BY <1>2 DEF sessionVars
<1> DEFINE told == \E new : ReportsTruly(new) /\ toHost' = toHost \o new
<1>4. told /\ MovesOn => DoneInv'
  BY <1>1, <1>3, RobotReports
<1> HIDE DEF told
<1>5. CASE HandleEstop(line)
  <2>1. EndAllMotion("estop") /\ toHost' = toHost \o <<Info("estop", 0)>>
    BY <1>5 DEF HandleEstop, Reply
  <2> QED BY <1>2, <1>3, <1>4, <2>1, AnswersReport, EndMovesOn DEF told
<1>6. CASE HandlePing(line)
  <2>1. UNCHANGED adapterVars /\ toHost' = toHost \o <<Info("pong", 0)>>
    BY <1>6 DEF HandlePing, Reply
  <2> QED BY <1>2, <1>3, <1>4, <2>1, AnswersReport, AdapterIdle DEF told
<1>7. CASE HandleHello(line)
  BY <1>1, <1>7 DEF HandleHello
<1>8. CASE Unclassifiable(line)
  <2>1. UNCHANGED <<toHost, adapterVars>>
    BY <1>8 DEF Unclassifiable
  <2>2. toHost' = toHost \o << >>
    BY <2>1, ConcatEmptySeq DEF DoneInv, IInv, TypeOK, WireTypeOK
  <2> QED BY <1>2, <1>3, <1>4, <2>1, <2>2, AnswersReport, AdapterIdle DEF told
<1>9. CASE StaleLine(line)
  <2>1. UNCHANGED adapterVars /\ toHost' = toHost \o <<AckNow(expectedNext - 1)>>
    BY <1>9 DEF StaleLine, Reply
  <2>2. expectedNext - 1 \in Nat
    BY AdapterTypes
  <2> QED BY <1>2, <1>3, <1>4, <2>1, <2>2, AnswersReport, AdapterIdle DEF told
<1>10. CASE GapLine(line)
  <2>1. UNCHANGED adapterVars /\ toHost' = toHost \o <<NackNow(expectedNext)>>
    BY <1>10 DEF GapLine, Reply
  <2> QED BY <1>2, <1>3, <1>4, <2>1, AnswersReport, AdapterIdle DEF told
<1>11. CASE DecodeFailure(line)
  <2>1. /\ UNCHANGED adapterVars /\ line.id \in Nat
        /\ toHost' = toHost \o <<NackNow(expectedNext), Info("err", line.id)>>
    BY <1>1, <1>11 DEF DecodeFailure, Reply
  <2> QED BY <1>2, <1>3, <1>4, <2>1, AnswersReport, AdapterIdle DEF told
<1>12. CASE AcceptLine(line)
  <2>1. /\ line.id = expectedNext
        /\ ExecMove(line) \/ ExecStop(line) \/ ExecStatus(line)
        /\ executed' = Append(executed, line)
    BY <1>12 DEF AcceptLine
  <2>2. expectedNext' = expectedNext + 1
    <3>1. executed' # executed
      <4>1. /\ Len(executed') = expectedNext' - 1 /\ Len(executed) = expectedNext - 1
            /\ executed \in Seq(SequencedLines) /\ line \in SequencedLines
        BY <1>1, <1>12, ReceivedLines DEF AcceptLine, DoneInv, IInv, TypeOK,
           HandlerTypeOK, RobotIsAlong
      <4>2. Len(executed') = Len(executed) + 1 /\ Len(executed) \in Nat
        BY <2>1, <4>1, AppendProperties, LenProperties
      <4> QED BY <4>2
    <3> QED BY <3>1, DispatchKeeps DEF DoneInv, handlerVars
  <2>3. CASE ExecMove(line)
    <3>1. CASE QueueFull
      <4>1. /\ UNCHANGED adapterVars
            /\ toHost' = toHost \o <<AckNow(line.id), Info("err", line.id)>>
        BY <2>3, <3>1 DEF ExecMove, Reply
      <4> QED BY <1>2, <1>3, <1>4, <2>1, <4>1, AnswersReport, AdapterIdle DEF told
    <3>2. CASE ~QueueFull
      <4>1. AcceptMotion(expectedNext) /\ toHost' = toHost \o <<AckNow(expectedNext)>>
        BY <2>1, <2>3, <3>2 DEF ExecMove, Reply
      <4> QED BY <1>2, <1>4, <2>2, <4>1, AnswersReport, AcceptMovesOn DEF told
    <3> QED BY <3>1, <3>2
  <2>4. CASE ExecStop(line)
    <3>1. EndAllMotion("stop") /\ toHost' = toHost \o <<AckNow(expectedNext)>>
      BY <2>1, <2>4 DEF ExecStop, Reply
    <3> QED BY <1>2, <1>3, <1>4, <3>1, AnswersReport, EndMovesOn DEF told
  <2>5. CASE ExecStatus(line)
    <3>1. /\ UNCHANGED adapterVars
          /\ toHost' = toHost \o <<AckNow(expectedNext), Info("status", expectedNext')>>
      BY <2>1, <2>5 DEF ExecStatus, Reply
    <3> QED BY <1>2, <1>3, <1>4, <3>1, AnswersReport, AdapterIdle DEF told
  <2> QED BY <2>1, <2>3, <2>4, <2>5
<1> QED BY <1>5, <1>6, <1>7, <1>8, <1>9, <1>10, <1>11, <1>12 DEF Dispatch

\* A line the robot takes changes the record only by what its verb does.
LEMMA FeedReports ==
  ASSUME Convention, DoneInv, RobotFeeds
  PROVE  DoneInv'
<1>1. faults \in Nat /\ faults + 1 \in Nat /\ UNCHANGED sessionVars
  BY DEF DoneInv, IInv, TypeOK, WireTypeOK, RobotFeeds
<1>2. CASE RobotReceives
  <2>1. /\ toRobot # << >> /\ Dispatch(Head(toRobot)) /\ toRobot' = Tail(toRobot)
        /\ faults' = faults /\ Received(Head(toRobot))
    BY <1>2 DEF RobotReceives, Received
  <2> QED BY <1>1, <2>1, DispatchReports
<1>3. CASE RobotReceivesDamaged
  <2>1. /\ toRobot # << >> /\ IsSequenced(Head(toRobot)) /\ toRobot' = Tail(toRobot)
        /\ faults' = faults + 1
    BY <1>3 DEF RobotReceivesDamaged
  <2>2. PICK line \in Damage(Head(toRobot)) : Dispatch(line)
    BY <1>3 DEF RobotReceivesDamaged
  <2>3. Received(line)
    BY <2>1 DEF Received
  <2> QED BY <1>1, <2>1, <2>2, <2>3, DispatchReports
<1> QED BY <1>2, <1>3 DEF RobotFeeds

\* A step of the adapter records at most the running motion's end.
LEMMA StepReports ==
  ASSUME DoneInv, IInv', RobotSteps
  PROVE  DoneInv'
<1>1. /\ MotionCompletes /\ expectedNext' = expectedNext
      /\ UNCHANGED <<toHost, hostDone, hostReason>>
  BY DEF RobotSteps, wireVars, handlerVars, sessionVars
<1>2. toHost' = toHost \o << >>
  BY <1>1, ConcatEmptySeq DEF DoneInv, IInv, TypeOK, WireTypeOK
<1>3. ReportsTruly(<< >>)
  BY EmptySeq DEF ReportsTruly
<1> QED BY <1>1, <1>2, <1>3, CompletionMovesOn, RobotReports

(***************************************************************************)
(* The theorems                                                            *)
(***************************************************************************)

\* Nothing has run, and nothing was reported.
LEMMA DoneInitially ==
  ASSUME LinkInit
  PROVE  DoneInv
<1>1. IInv
  BY InvariantInitially
<1>2. Len(<< >>) = 0
  BY EmptySeq
<1> QED BY <1>1, <1>2
    DEF DoneInv, LinkInit, WireInit, AdapterInit, HandlerInit, SessionInit, MotionsInOrder,
        RecordIsTrue, HostIsBehind, DoneReasonIsItsOwn, ReportsAscend

\* Every step keeps the invariant and takes the host's knowledge forward.
LEMMA DoneKept ==
  ASSUME Convention, DoneInv, [Next]_vars
  PROVE  DoneInv' /\ hostDone <= hostDone'
<1>1. IInv' /\ hostDone \in Nat /\ hostDone <= hostDone
  BY InvariantKept DEF DoneInv, IInv, TypeOK, SessionTypeOK
<1>2. CASE HostSends \/ HostWaits \/ HostPolls \/ HostResends \/ TimePasses
  BY <1>1, <1>2, HostQuietly
<1>3. CASE HostPumps
  BY <1>1, <1>3, PumpMovesOn
<1>4. CASE HostRaises
  BY <1>1, <1>4, RaiseQuietly
<1>5. CASE LinkFails
  BY <1>1, <1>5, LinkFailsQuietly
<1>6. CASE RobotFeeds
  BY <1>1, <1>6, FeedReports DEF RobotFeeds, sessionVars
<1>7. CASE RobotSteps
  BY <1>1, <1>7, StepReports DEF RobotSteps, sessionVars
<1>8. CASE UNCHANGED vars
  BY <1>1, <1>8, SilenceKeeps DEF vars, robotVars, wireVars, sessionVars
<1> QED BY <1>2, <1>3, <1>4, <1>5, <1>6, <1>7, <1>8 DEF Next

\* The inductive invariant holds of every reachable state: motions run in the order
\* of their ids and every report on its way to the host is a copy of the record.
THEOREM DoneInvariantHolds ==
  ASSUME Convention
  PROVE  Spec => []DoneInv
<1>1. LinkInit => DoneInv
  BY DoneInitially
<1>2. DoneInv /\ [Next]_vars => DoneInv'
  BY DoneKept
<1> QED BY <1>1, <1>2, PTL DEF Spec

\* wait_for_done(id) returns for a motion only once it is over: what the host
\* has been told is completed is neither running nor queued, and was executed.
THEOREM ReportedMotionsAreOver ==
  ASSUME Convention
  PROVE  Spec => []DoneMeansOver
<1>1. DoneInv => DoneMeansOver
  <2> SUFFICES ASSUME DoneInv PROVE DoneMeansOver
    OBVIOUS
  <2>1. /\ hostDone \in Nat /\ hostDone <= lastDone /\ lastDone < expectedNext
        /\ active = 0 => queue = << >>
        /\ active # 0 => lastDone < active
        /\ \A k \in 1..Len(queue) : active < queue[k]
    BY DEF DoneInv, HostIsBehind, MotionsInOrder, IInv, TypeOK, SessionTypeOK
  <2>2. hostDone < expectedNext
    BY <2>1, AdapterTypes
  <2>3. ASSUME NEW id \in 1..hostDone
        PROVE  id # active /\ \A k \in 1..Len(queue) : queue[k] # id
    <3>1. CASE active = 0
      BY <2>1, <3>1, EmptySeq
    <3>2. CASE active # 0
      <4>1. id < active
        BY <2>1, <3>2, AdapterTypes
      <4>2. \A k \in 1..Len(queue) : queue[k] \in Nat /\ active < queue[k]
        BY <2>1, AdapterTypes
      <4> QED BY <4>1, <4>2, AdapterTypes
    <3> QED BY <3>1, <3>2
  <2> QED BY <2>2, <2>3 DEF DoneMeansOver
<1> QED BY <1>1, DoneInvariantHolds, PTL

\* The reason beside the last completion is that completion's own, whichever
\* acks and nacks were lost and however many completions one of them skips.
THEOREM ReasonsBelong ==
  ASSUME Convention
  PROVE  Spec => []DoneReasonIsItsOwn
<1>1. DoneInv => DoneReasonIsItsOwn
  BY DEF DoneInv, HostIsBehind
<1> QED BY <1>1, DoneInvariantHolds, PTL

\* Session overwrites _last_done with whatever a reply carries; what a reply
\* carries is never less than what an earlier one did.
THEOREM DoneMovesForward ==
  ASSUME Convention
  PROVE  Spec => DoneNeverRegresses
<1>1. DoneInv /\ [Next]_vars => [hostDone' >= hostDone]_vars
  <2> SUFFICES ASSUME DoneInv, [Next]_vars PROVE hostDone' >= hostDone
    OBVIOUS
  <2>1. hostDone <= hostDone' /\ hostDone \in Nat /\ hostDone' \in Nat
    BY DoneKept DEF DoneInv, IInv, TypeOK, SessionTypeOK
  <2> QED BY <2>1
<1> QED BY <1>1, DoneInvariantHolds, PTL DEF Spec, DoneNeverRegresses
=============================================================================
