------------------------------- MODULE Session -------------------------------
(***************************************************************************)
(* The host's end: robot_v6.reliability.Session and the one thread that    *)
(* drives it.  Session owns no read loop, so everything it does happens    *)
(* inside a call: send(), send_unsequenced(), pump(), wait_for_ack() or    *)
(* wait_for_done().  A reply is processed one at a time, as pump()'s loop  *)
(* does; how replies are grouped into batches only matters when one of     *)
(* them cannot be parsed (PumpRaises).  Clocks are abstracted: a cooldown  *)
(* is a flag that ends at some later moment, a timeout may fire whenever   *)
(* its wait is still unmet.                                                *)
(***************************************************************************)
EXTENDS Wire, FiniteSets

CONSTANTS MaxPending,   \* Session(max_pending=...), 64 in the code
          MaxId,        \* bound: the last id the host gets to assign
          Verbs,        \* sequenced verbs the application sends
          Probes,       \* unsequenced verbs the application sends
          MaxProbes,    \* bound: how many of those
          PromptLink    \* a line in flight arrives, or is lost, within a cooldown

ASSUME SessionAssumption ==
  /\ MaxPending \in Nat \ {0} /\ MaxId \in Nat \ {0} /\ MaxProbes \in Nat
  /\ Verbs \cap UnsequencedVerbs = {} /\ "STATUS" \in Verbs
  /\ Probes \subseteq UnsequencedVerbs /\ PromptLink \in BOOLEAN

VARIABLES nextId,       \* _next_id
          pending,      \* _pending: id -> the line's verb
          highestAcked, \* _highest_acked
          hostDone, hostReason,  \* _last_done, _last_done_reason
          lastNackNext, \* _last_nack_next, 0 for None
          cooling,      \* the resend cooldown has not elapsed
          pollCooling,  \* the STATUS poll cooldown has not elapsed
          resendFirst,  \* the resend cooldown began before the poll cooldown
          resend,       \* ids the loop of _maybe_resend_from() has left
          wait,         \* the blocking call in progress
          probes,       \* how many unsequenced lines were sent
          sent          \* history: the verb assigned to each id, in order

sessionVars == <<nextId, pending, highestAcked, hostDone, hostReason,
                 lastNackNext, cooling, pollCooling, resendFirst, resend,
                 wait, probes, sent>>

\* The part of Session that only send() changes.
sendVars == <<nextId, pending, sent>>

\* The part of it that an ack or a nack changes.
replyVars == <<highestAcked, hostDone, hostReason, lastNackNext, cooling,
               resendFirst, resend>>

NotWaiting == [call |-> "none", id |-> 0]

SessionInit ==
  /\ nextId = 1 /\ pending = << >> /\ sent = << >>
  /\ highestAcked = 0 /\ hostDone = 0 /\ hostReason = "none"
  /\ lastNackNext = 0 /\ resend = {}
  /\ cooling = FALSE /\ pollCooling = FALSE /\ resendFirst = FALSE
  /\ wait = NotWaiting /\ probes = 0

\* Session.__init__() by a later program.
NewSession ==
  /\ nextId' = 1 /\ pending' = << >> /\ sent' = << >>
  /\ highestAcked' = 0 /\ hostDone' = 0 /\ hostReason' = "none"
  /\ lastNackNext' = 0 /\ resend' = {}
  /\ cooling' = FALSE /\ pollCooling' = FALSE /\ resendFirst' = FALSE
  /\ wait' = NotWaiting /\ probes' = 0

Outstanding == DOMAIN pending
BufferFull  == Cardinality(Outstanding) >= MaxPending

\* send(): refused with PendingBufferFull when the buffer is full.
AssignAndSend(verb) ==
  /\ ~BufferFull
  /\ nextId <= MaxId /\ RoomToRobot
  /\ nextId' = nextId + 1
  /\ pending' = [i \in Outstanding \cup {nextId} |->
                   IF i = nextId THEN verb ELSE pending[i]]
  /\ sent' = Append(sent, verb)
  /\ toRobot' = Append(toRobot, Line(verb, nextId))

\* The calling thread is between calls.
Idle == wait = NotWaiting /\ resend = {}

Send(verb) ==
  /\ Idle /\ verb \in Verbs
  /\ AssignAndSend(verb)
  /\ UNCHANGED <<replyVars, pollCooling, wait, probes, toHost, faults>>

SendUnsequenced(verb) ==
  /\ Idle /\ verb \in Probes
  /\ probes < MaxProbes /\ RoomToRobot
  /\ probes' = probes + 1
  /\ toRobot' = Append(toRobot, Line(verb, NoId))
  /\ UNCHANGED <<sendVars, replyVars, pollCooling, wait, toHost, faults>>

(***************************************************************************)
(* pump() and _handle_reply()                                              *)
(***************************************************************************)

\* Mutant of RetireThrough: it drops one id too many.
RetireThroughNext(n) ==
  /\ pending' = [i \in {j \in Outstanding : j > n + 1} |-> pending[i]]
  /\ highestAcked' = IF n > highestAcked THEN n ELSE highestAcked

RetireThrough(n) ==
  /\ pending' = [i \in {j \in Outstanding : j > n} |-> pending[i]]
  /\ highestAcked' = IF n > highestAcked THEN n ELSE highestAcked

HandleAck(reply) ==
  /\ reply.kind = "ack"
  /\ RetireThrough(reply.n)
  /\ hostDone' = reply.done /\ hostReason' = reply.reason
  /\ UNCHANGED <<lastNackNext, cooling, resendFirst, resend>>

\* Mutant of HandleNack: the reason of the last completion is not updated.
HandleNackKeepingReason(reply) ==
  /\ reply.kind = "nack"
  /\ hostDone' = reply.done /\ UNCHANGED hostReason
  /\ IF lastNackNext = reply.n /\ cooling
       THEN UNCHANGED <<lastNackNext, cooling, resendFirst, resend>>
       ELSE /\ lastNackNext' = reply.n
            /\ cooling' = TRUE /\ resendFirst' = FALSE
            /\ resend' = {i \in Outstanding : i >= reply.n}
  /\ UNCHANGED <<pending, highestAcked>>

\* Mutant of HandleNack: a repeated nack is ignored for good.
HandleNackOnce(reply) ==
  /\ reply.kind = "nack"
  /\ hostDone' = reply.done /\ hostReason' = reply.reason
  /\ IF lastNackNext = reply.n
       THEN UNCHANGED <<lastNackNext, cooling, resendFirst, resend>>
       ELSE /\ lastNackNext' = reply.n
            /\ cooling' = TRUE /\ resendFirst' = FALSE
            /\ resend' = {i \in Outstanding : i >= reply.n}
  /\ UNCHANGED <<pending, highestAcked>>

\* _maybe_resend_from(): the same next id again within the cooldown is
\* ignored, anything else starts a resend of every id from next_id on.
HandleNack(reply) ==
  /\ reply.kind = "nack"
  /\ hostDone' = reply.done /\ hostReason' = reply.reason
  /\ IF lastNackNext = reply.n /\ cooling
       THEN UNCHANGED <<lastNackNext, cooling, resendFirst, resend>>
       ELSE /\ lastNackNext' = reply.n
            /\ cooling' = TRUE /\ resendFirst' = FALSE
            /\ resend' = {i \in Outstanding : i >= reply.n}
  /\ UNCHANGED <<pending, highestAcked>>

HandleInfo(reply) ==
  /\ reply.kind \notin {"ack", "nack"}
  /\ UNCHANGED <<pending, replyVars>>

PumpReply ==
  /\ toHost # << >> /\ resend = {}
  /\ LET reply == Head(toHost)
     IN  HandleAck(reply) \/ HandleNack(reply) \/ HandleInfo(reply)
  /\ toHost' = Tail(toHost)
  /\ UNCHANGED <<nextId, sent, pollCooling, wait, probes, toRobot, faults>>

\* One iteration of the resend loop, in ascending order of id.
ResendNext ==
  /\ RoomToRobot
  /\ \E id \in resend :
       /\ \A other \in resend : id <= other
       /\ toRobot' = Append(toRobot, Line(pending[id], id))
       /\ resend' = resend \ {id}
  /\ UNCHANGED <<sendVars, highestAcked, hostDone, hostReason, lastNackNext,
                 cooling, resendFirst, pollCooling, wait, probes, toHost, faults>>

\* A damaged ack or nack: _ack_nack_fields() raises out of pump(), and out of
\* the wait that called it.  The lines read in the same batch have already
\* left the transport's buffer; whatever followed the bad one is never handled.
PumpRaises ==
  /\ CanFault /\ toHost # << >> /\ resend = {}
  /\ Head(toHost).kind \in {"ack", "nack"}
  /\ \E batch \in 1..Len(toHost) :
       toHost' = SubSeq(toHost, batch + 1, Len(toHost))
  /\ wait' = NotWaiting
  /\ faults' = faults + 1
  /\ UNCHANGED <<sendVars, replyVars, pollCooling, probes, toRobot>>

(***************************************************************************)
(* wait_for_ack(), wait_for_done()                                         *)
(***************************************************************************)

StartWait(call, id) ==
  /\ Idle /\ id < nextId
  /\ wait' = [call |-> call, id |-> id]
  /\ UNCHANGED <<sendVars, replyVars, pollCooling, probes, wireVars>>

AckWaitMet  == wait.call = "ack"  /\ highestAcked >= wait.id
DoneWaitMet == wait.call = "done" /\ hostDone >= wait.id

WaitReturns ==
  /\ resend = {} /\ (AckWaitMet \/ DoneWaitMet)
  /\ wait' = NotWaiting
  /\ UNCHANGED <<sendVars, replyVars, pollCooling, probes, wireVars>>

WaitTimesOut ==
  /\ resend = {} /\ wait # NotWaiting /\ ~(AckWaitMet \/ DoneWaitMet)
  /\ wait' = NotWaiting
  /\ UNCHANGED <<sendVars, replyVars, pollCooling, probes, wireVars>>

\* _maybe_poll_status(): only wait_for_done() polls, and not with a full buffer.
PollStatus ==
  /\ wait.call = "done" /\ ~DoneWaitMet /\ resend = {}
  /\ ~pollCooling
  /\ AssignAndSend("STATUS")
  /\ pollCooling' = TRUE /\ resendFirst' = cooling
  /\ UNCHANGED <<highestAcked, hostDone, hostReason, lastNackNext, cooling,
                 resend, wait, probes, toHost, faults>>

\* Both cooldowns last resend_cooldown seconds, so they end in the order in
\* which they began.
CooldownElapses ==
  /\ cooling /\ (pollCooling => resendFirst)
  /\ cooling' = FALSE
  /\ UNCHANGED <<sendVars, highestAcked, hostDone, hostReason, lastNackNext,
                 resend, resendFirst, pollCooling, wait, probes, wireVars>>

PollCooldownElapses ==
  /\ pollCooling /\ ~(cooling /\ resendFirst)
  /\ PromptLink => toRobot = << >> /\ toHost = << >> /\ resend = {}
  /\ pollCooling' = FALSE
  /\ UNCHANGED <<sendVars, replyVars, wait, probes, wireVars>>
=============================================================================
