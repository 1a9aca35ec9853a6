------------------------ MODULE RemoteSession_proofs ------------------------
(***************************************************************************)
(* Which calls to a daemon can miss their deadlines, proved for any number *)
(* of clients and of calls and for any timeouts: no estop, no probe, and   *)
(* no call that did not stand behind another client's wait.                *)
(*                                                                         *)
(* The argument: time passes only while everybody waits.  A call under way *)
(* is always somewhere: in its socket, with its serving thread, or in the  *)
(* socket back.  So when time passes it is queued in the daemon, or it is  *)
(* the one the worker dispatches; and DaemonInv says that the worker does  *)
(* not stay with a wait while an estop is queued.                          *)
(***************************************************************************)
EXTENDS RemoteSession, DaemonServer_proofs, SequenceTheorems, FiniteSetTheorems

(***************************************************************************)
(* The inductive invariant                                                 *)
(***************************************************************************)
Requests == [id : Nat \ {0}, body : Bodies \cup {"probe"}, timeout : Nat]

RemoteTypes ==
  /\ link \in [Threads -> {"none", "open", "closed"}]
  /\ call \in [Threads -> [request : Requests \cup {NoRequest}, left : Nat]]
  /\ nextCall \in [Threads -> Nat \ {0}]
  /\ requests \in [Threads -> Seq(Requests)]
  /\ replies \in [Threads -> Seq(Requests)]
  /\ request \in [Threads -> Requests \cup {NoRequest}]
  /\ toRun \in Nat /\ behind \in [Threads -> BOOLEAN]

\* What comes after what on one connection: replies, then the request its
\* thread is with, then those it has not read, in the order of their ids.
InOrder(answered, taken, unread, next) ==
  /\ \A k \in 1..Len(unread) :
       /\ unread[k].id < next
       /\ \A j \in 1..(k - 1) : unread[j].id < unread[k].id
       /\ \A j \in 1..Len(answered) : answered[j].id < unread[k].id
       /\ \A r \in taken : r.id < unread[k].id
  /\ \A r \in taken : r.id < next /\ \A j \in 1..Len(answered) : answered[j].id < r.id
  /\ \A j \in 1..Len(answered) : answered[j].id < next

\* The request the serving thread is with, if any.
Taken(c) == IF at[c] = "idle" THEN {} ELSE {request[c]}

ConnectionInOrder(c) == InOrder(replies[c], Taken(c), requests[c], nextCall[c])

\* The thread's item is that of the request it has read.
ThreadHoldsRequest(c) ==
  at[c] # "idle" => request[c] \in Requests /\ item[c].body = request[c].body

Unread(c)   == requests[c] # << >> /\ requests[c][Len(requests[c])] = call[c].request
Answered(c) == \E k \in 1..Len(replies[c]) : replies[c][k] = call[c].request

\* A call under way is the newest of its client, and is somewhere.
CallIsUnderWay(c) ==
  InCall(c) =>
    /\ link[c] = "open" /\ call[c].request \in Requests
    /\ nextCall[c] = call[c].request.id + 1
    /\ Unread(c) \/ call[c].request \in Taken(c) \/ Answered(c)

\* Nothing is left of an earlier call.
NothingUnderWay(c) == requests[c] = << >> /\ Taken(c) = {} /\ replies[c] = << >>

OnlyThisCall(c) ==
  \/ requests[c] = <<call[c].request>> /\ Taken(c) = {} /\ replies[c] = << >>
  \/ requests[c] = << >> /\ Taken(c) = {call[c].request} /\ replies[c] = << >>
  \/ requests[c] = << >> /\ Taken(c) = {} /\ replies[c] = <<call[c].request>>

\* Only an mcp server keeps a connection after a call it gave up.
Tidy(c) ==
  /\ link[c] = "none" => NothingUnderWay(c) /\ ~InCall(c)
  /\ c \notin Tools /\ link[c] = "open" /\ ~InCall(c) => NothingUnderWay(c)
  /\ InCall(c) /\ (c \notin Tools \/ call[c].request.body = "probe") => OnlyThisCall(c)
  /\ InCall(c) /\ c \in Tools => call[c].request.body # "estop"

\* The worker has not come to it yet.
NotStarted(c) ==
  Unread(c) \/ (call[c].request \in Taken(c) /\ (at[c] = "numbered" \/ c \in heap))

\* A call that stood behind nobody has lost no more time than its own wait took.
TimeIsItsOwn(c) ==
  InCall(c) /\ ~behind[c] =>
    /\ call[c].left > 0
    /\ call[c].request.body = "wait" =>
         /\ NotStarted(c) => call[c].left >= call[c].request.timeout + Margin
         /\ BeingServed(c) => call[c].left >= toRun + Margin

UrgentHasTime(c) ==
  InCall(c) /\ call[c].request.body \in {"estop", "probe"} => call[c].left > 0

ClientInv(c) ==
  /\ ConnectionInOrder(c) /\ ThreadHoldsRequest(c) /\ CallIsUnderWay(c)
  /\ Tidy(c) /\ TimeIsItsOwn(c) /\ UrgentHasTime(c)

RemoteInv == DaemonInv /\ RemoteTypes /\ \A c \in Threads : ClientInv(c)

(***************************************************************************)
(* Lemmas on one connection                                                *)
(***************************************************************************)

\* A request with the next id is sent.
LEMMA OrderSent ==
  ASSUME NEW answered, NEW taken, NEW unread \in Seq(Requests), NEW next \in Nat,
         \A r \in taken : r \in Requests, answered \in Seq(Requests),
         NEW req \in Requests, req.id = next, InOrder(answered, taken, unread, next)
  PROVE  InOrder(answered, taken, Append(unread, req), next + 1)
<1> DEFINE all == Append(unread, req)
<1>1. /\ Len(all) = Len(unread) + 1 /\ Len(unread) \in Nat /\ all[Len(unread) + 1] = req
      /\ \A k \in 1..Len(unread) : all[k] = unread[k]
  BY AppendProperties, LenProperties
<1> HIDE DEF all
<1>2. /\ \A k \in 1..Len(unread) : unread[k].id \in Nat /\ unread[k].id < next
      /\ \A j \in 1..Len(answered) : answered[j].id \in Nat /\ answered[j].id < next
      /\ \A r \in taken : r.id \in Nat /\ r.id < next
  <2>1. /\ \A k \in 1..Len(unread) : unread[k] \in Requests
        /\ \A j \in 1..Len(answered) : answered[j] \in Requests
    BY ElementOfSeq
  <2> QED BY <2>1 DEF InOrder, Requests
<1>3. \A n \in Nat : n < next => n < next + 1
  OBVIOUS
<1>4. ASSUME NEW k \in 1..Len(all)
      PROVE  /\ all[k].id < next + 1
             /\ \A j \in 1..(k - 1) : all[j].id < all[k].id
             /\ \A j \in 1..Len(answered) : answered[j].id < all[k].id
             /\ \A r \in taken : r.id < all[k].id
  <2>1. \A j \in 1..(k - 1) : j \in 1..Len(unread)
    BY <1>1
  <2>2. CASE k \in 1..Len(unread)
    BY <1>1, <1>2, <1>3, <2>1, <2>2 DEF InOrder
  <2>3. CASE k \notin 1..Len(unread)
    <3>1. all[k] = req
      BY <1>1, <2>3
    <3>2. next < next + 1
      OBVIOUS
    <3>3. \A j \in 1..(k - 1) : all[j].id < next
      BY <1>1, <1>2, <2>1
    <3> QED BY <1>2, <3>1, <3>2, <3>3
  <2> QED BY <2>2, <2>3
<1>5. \A j \in 1..Len(answered) : answered[j].id < next + 1
  BY <1>2, <1>3
<1>6. \A r \in taken : r.id < next + 1 /\ \A j \in 1..Len(answered) : answered[j].id < r.id
  BY <1>2, <1>3 DEF InOrder
<1> QED BY <1>4, <1>5, <1>6 DEF InOrder, all

\* The serving thread takes the first unread request.
LEMMA OrderTaken ==
  ASSUME NEW answered, NEW unread \in Seq(Requests), unread # << >>, NEW next,
         InOrder(answered, {}, unread, next)
  PROVE  InOrder(answered, {Head(unread)}, Tail(unread), next)
<1>1. /\ Len(Tail(unread)) = Len(unread) - 1 /\ Len(unread) \in Nat
      /\ Head(unread) = unread[1] /\ 1 \in 1..Len(unread)
      /\ \A k \in 1..Len(Tail(unread)) : Tail(unread)[k] = unread[k + 1]
  BY HeadTailProperties, LenProperties, EmptySeq
<1>2. ASSUME NEW k \in 1..Len(Tail(unread))
      PROVE  /\ k + 1 \in 1..Len(unread) /\ 1 \in 1..(k + 1 - 1)
             /\ \A j \in 1..(k - 1) :
                  j + 1 \in 1..(k + 1 - 1) /\ j \in 1..Len(Tail(unread))
  BY <1>1
<1>3. ASSUME NEW k \in 1..Len(Tail(unread))
      PROVE  /\ Tail(unread)[k].id < next
             /\ \A j \in 1..(k - 1) : Tail(unread)[j].id < Tail(unread)[k].id
             /\ \A j \in 1..Len(answered) : answered[j].id < Tail(unread)[k].id
             /\ Head(unread).id < Tail(unread)[k].id
  <2>1. /\ unread[k + 1].id < next
        /\ \A j \in 1..(k + 1 - 1) : unread[j].id < unread[k + 1].id
        /\ \A j \in 1..Len(answered) : answered[j].id < unread[k + 1].id
    BY <1>2 DEF InOrder
  <2>2. unread[1].id < unread[k + 1].id
    BY <1>2, <2>1
  <2>3. \A j \in 1..(k - 1) : unread[j + 1].id < unread[k + 1].id
    BY <1>2, <2>1
  <2>4. \A j \in 1..(k - 1) : Tail(unread)[j] = unread[j + 1]
    BY <1>1, <1>2
  <2> QED BY <1>1, <2>1, <2>2, <2>3, <2>4
<1> QED BY <1>1, <1>3 DEF InOrder

\* Its reply goes behind the others.
LEMMA OrderAnswered ==
  ASSUME NEW answered \in Seq(Requests), NEW unread, NEW next, NEW req \in Requests,
         InOrder(answered, {req}, unread, next)
  PROVE  /\ InOrder(Append(answered, req), {}, unread, next)
         /\ InOrder(answered, {}, << >>, next)
<1> DEFINE all == Append(answered, req)
<1>1. /\ Len(all) = Len(answered) + 1 /\ Len(answered) \in Nat
      /\ all[Len(answered) + 1] = req
      /\ \A j \in 1..Len(answered) : all[j] = answered[j]
  BY AppendProperties, LenProperties
<1> HIDE DEF all
<1>2. ASSUME NEW j \in 1..Len(all)
      PROVE  all[j].id < next /\ \A k \in 1..Len(unread) : all[j].id < unread[k].id
  <2>1. CASE j \in 1..Len(answered)
    BY <1>1, <2>1 DEF InOrder
  <2>2. CASE j \notin 1..Len(answered)
    <3>1. all[j] = req
      BY <1>1, <2>2
    <3> QED BY <3>1 DEF InOrder
  <2> QED BY <2>1, <2>2
<1>3. InOrder(all, {}, unread, next)
  BY <1>2 DEF InOrder
<1>4. InOrder(answered, {}, << >>, next)
  BY EmptySeq DEF InOrder
<1> QED BY <1>3, <1>4 DEF all

\* The client reads the first reply.
LEMMA OrderReceived ==
  ASSUME NEW answered \in Seq(Requests), answered # << >>,
         NEW taken, NEW unread, NEW next, InOrder(answered, taken, unread, next)
  PROVE  InOrder(Tail(answered), taken, unread, next)
<1>1. /\ Len(Tail(answered)) = Len(answered) - 1 /\ Len(answered) \in Nat
      /\ \A j \in 1..Len(Tail(answered)) : Tail(answered)[j] = answered[j + 1]
  BY HeadTailProperties, LenProperties
<1>2. \A j \in 1..Len(Tail(answered)) : j + 1 \in 1..Len(answered)
  BY <1>1
<1> QED BY <1>1, <1>2 DEF InOrder

(***************************************************************************)
(* The clients' steps                                                      *)
(***************************************************************************)

\* A client and its connection that a step does not touch.
LEMMA Untouched ==
  ASSUME RemoteInv, NEW c \in Threads,
         link'[c] = link[c], call'[c] = call[c], nextCall'[c] = nextCall[c],
         requests'[c] = requests[c], replies'[c] = replies[c],
         request'[c] = request[c], behind'[c] = behind[c],
         at'[c] = at[c], item'[c] = item[c], c \in heap' => c \in heap,
         BeingServed(c)' => BeingServed(c) /\ toRun' = toRun
  PROVE  ClientInv(c)'
<1>1. ClientInv(c)
  BY DEF RemoteInv
<1>2. /\ Taken(c)' = Taken(c) /\ InCall(c)' = InCall(c)
      /\ Unread(c)' = Unread(c) /\ Answered(c)' = Answered(c)
  BY DEF Taken, InCall, Unread, Answered
<1>3. ConnectionInOrder(c)' /\ ThreadHoldsRequest(c)' /\ CallIsUnderWay(c)'
  BY <1>1, <1>2 DEF ClientInv, ConnectionInOrder, ThreadHoldsRequest, CallIsUnderWay
<1>4. Tidy(c)'
  BY <1>1, <1>2 DEF ClientInv, Tidy, NothingUnderWay, OnlyThisCall
<1>5. NotStarted(c)' => NotStarted(c)
  BY <1>2 DEF NotStarted
<1>6. TimeIsItsOwn(c)' /\ UrgentHasTime(c)'
  BY <1>1, <1>2, <1>5 DEF ClientInv, TimeIsItsOwn, UrgentHasTime
<1> QED BY <1>3, <1>4, <1>6 DEF ClientInv

\* A step that leaves the daemon alone keeps what DaemonServer_proofs says of it.
LEMMA DaemonAlone ==
  ASSUME RemoteInv, UNCHANGED daemonVars
  PROVE  /\ DaemonInv'
         /\ UNCHANGED <<counter, at, item, heap, current, aborted, worker, serving>>
BY DaemonInvariantKept DEF RemoteInv, daemonVars, submitVars, queueVars, workerVars

\* A call is made when nothing of the client's, or only what it gave up, is
\* under way.
LEMMA CallsKeeps ==
  ASSUME RemoteInv, NEW t \in Threads, NEW body \in Bodies \cup {"probe"},
         NEW timeout \in Nat, NEW patience \in Nat \ {0}, Calls(t, body, timeout, patience),
         ~InCall(t), link' = [link EXCEPT ![t] = "open"],
         t \notin Tools \/ body = "probe" => NothingUnderWay(t),
         t \in Tools => body # "estop",
         body = "wait" => patience >= timeout + Margin
  PROVE  RemoteInv'
<1> DEFINE req == [id |-> nextCall[t], body |-> body, timeout |-> timeout]
<1>1. /\ call' = [call EXCEPT ![t] = [request |-> req, left |-> patience]]
      /\ nextCall' = [nextCall EXCEPT ![t] = @ + 1]
      /\ requests' = [requests EXCEPT ![t] = Append(@, req)]
      /\ behind' = [behind EXCEPT ![t] = FALSE]
      /\ UNCHANGED <<daemonVars, replies, request, toRun>>
  BY DEF Calls
<1>2. RemoteTypes /\ req \in Requests /\ req.id = nextCall[t] /\ nextCall[t] \in Nat
  BY DEF RemoteInv, RemoteTypes, Requests
<1>3. /\ DaemonInv'
      /\ UNCHANGED <<counter, at, item, heap, current, aborted, worker, serving>>
  BY <1>1, DaemonAlone
<1>4. /\ Append(requests[t], req) \in Seq(Requests) /\ Append(requests[t], req) # << >>
      /\ Append(requests[t], req)[Len(Append(requests[t], req))] = req
  <2> HIDE DEF req
  <2>1. requests[t] \in Seq(Requests)
    BY <1>2 DEF RemoteTypes
  <2>2. /\ Append(requests[t], req) \in Seq(Requests)
        /\ Len(Append(requests[t], req)) = Len(requests[t]) + 1
        /\ Append(requests[t], req)[Len(requests[t]) + 1] = req
    BY <1>2, <2>1, AppendProperties
  <2>3. Append(requests[t], req) # << >>
    BY <1>2, <2>1, AppendProperties
  <2> QED BY <2>2, <2>3
<1>5. RemoteTypes'
  BY <1>1, <1>2, <1>4 DEF RemoteTypes
<1>6. /\ link'[t] = "open" /\ call'[t] = [request |-> req, left |-> patience]
      /\ nextCall'[t] = nextCall[t] + 1 /\ requests'[t] = Append(requests[t], req)
      /\ behind'[t] = FALSE /\ replies'[t] = replies[t] /\ request'[t] = request[t]
      /\ at'[t] = at[t] /\ item'[t] = item[t] /\ Taken(t)' = Taken(t)
  BY <1>1, <1>2, <1>3 DEF RemoteTypes, Taken
<1>7. ASSUME NEW c \in Threads, c # t
      PROVE  ClientInv(c)'
  <2>1. /\ link'[c] = link[c] /\ call'[c] = call[c] /\ nextCall'[c] = nextCall[c]
        /\ requests'[c] = requests[c] /\ replies'[c] = replies[c]
        /\ request'[c] = request[c] /\ behind'[c] = behind[c]
        /\ at'[c] = at[c] /\ item'[c] = item[c]
    BY <1>1, <1>2, <1>3, <1>7 DEF RemoteTypes
  <2>2. BeingServed(c)' => BeingServed(c) /\ toRun' = toRun
    BY <1>1, <1>3, <2>1 DEF BeingServed
  <2> QED BY <1>3, <2>1, <2>2, Untouched
<1> HIDE DEF req
<1>8. ClientInv(t)
  BY DEF RemoteInv
<1>9. ConnectionInOrder(t)'
  <2>1. \A r \in Taken(t) : r \in Requests
    BY <1>8 DEF Taken, ClientInv, ThreadHoldsRequest
  <2>2. InOrder(replies[t], Taken(t), Append(requests[t], req), nextCall[t] + 1)
    BY <1>2, <1>8, <2>1, OrderSent DEF ClientInv, ConnectionInOrder, RemoteTypes
  <2> QED BY <1>6, <2>2 DEF ConnectionInOrder
<1>10. ThreadHoldsRequest(t)'
  BY <1>6, <1>8 DEF ClientInv, ThreadHoldsRequest
<1>11. Unread(t)' /\ call'[t].request = req /\ call'[t].left = patience
  BY <1>4, <1>6 DEF Unread
<1>12. CallIsUnderWay(t)'
  BY <1>2, <1>6, <1>11 DEF CallIsUnderWay
<1>13. Tidy(t)'
  <2>1. req.body = body
    BY DEF req
  <2>2. ASSUME NothingUnderWay(t) PROVE OnlyThisCall(t)'
    <3>1. Append(<< >>, req) = <<req>>
      OBVIOUS
    <3> QED BY <1>6, <1>11, <2>2, <3>1 DEF NothingUnderWay, OnlyThisCall
  <2>3. InCall(t)'
    <3>1. call'[t].left # 0
      BY <1>11
    <3> QED BY <3>1 DEF InCall, NoCall
  <2> QED BY <1>6, <1>11, <2>1, <2>2, <2>3 DEF Tidy
<1>14. ~BeingServed(t)'
  <2>1. CASE at[t] = "idle"
    BY <1>3, <2>1 DEF BeingServed, RemoteInv, DaemonInv, WorkerShape
  <2>2. CASE at[t] # "idle"
    <3>1. request[t].id < nextCall[t] /\ request[t].id \in Nat
      BY <1>8, <2>2 DEF ClientInv, ThreadHoldsRequest, ConnectionInOrder, InOrder, Taken, Requests
    <3>2. request[t].id # nextCall[t]
      BY <1>2, <3>1
    <3> QED BY <1>2, <1>6, <1>11, <3>2 DEF BeingServed
  <2> QED BY <2>1, <2>2
<1>15. TimeIsItsOwn(t)' /\ UrgentHasTime(t)'
  <2>1. patience > 0 /\ req.body = body /\ req.timeout = timeout
    BY DEF req
  <2> QED BY <1>11, <1>14, <2>1 DEF TimeIsItsOwn, UrgentHasTime
<1>16. ClientInv(t)'
  BY <1>9, <1>10, <1>12, <1>13, <1>15 DEF ClientInv
<1> QED BY <1>3, <1>5, <1>7, <1>16 DEF RemoteInv

\* find_daemon(), a short call and a wait are such calls.
LEMMA ClientCallsKeep ==
  ASSUME RemoteInv, NEW t \in Threads, Find(t) \/ CallShort(t) \/ CallWait(t)
  PROVE  RemoteInv'
<1> USE RemoteAssumption, DaemonAssumption
<1>1. RemoteTypes /\ Tidy(t)
  BY DEF RemoteInv, ClientInv
<1>2. CASE Find(t)
  <2>1. /\ link[t] = "none" /\ link' = [link EXCEPT ![t] = "open"]
        /\ Calls(t, "probe", 0, FindTimeout)
    BY <1>2 DEF Find
  <2>2. NothingUnderWay(t) /\ ~InCall(t)
    BY <1>1, <2>1 DEF Tidy
  <2>3. "probe" \in Bodies \cup {"probe"} /\ "probe" # "estop" /\ "probe" # "wait" /\ 0 \in Nat
    OBVIOUS
  <2> QED BY <2>1, <2>2, <2>3, CallsKeeps
<1>3. ASSUME MayCall(t), UNCHANGED link
      PROVE  /\ link' = [link EXCEPT ![t] = "open"] /\ ~InCall(t)
             /\ t \notin Tools => NothingUnderWay(t)
  BY <1>1, <1>3 DEF MayCall, Tidy, RemoteTypes
<1>4. CASE CallShort(t)
  <2>1. PICK body \in Bodies \ {"wait"} :
          (t \in Tools => body # "estop") /\ Calls(t, body, 0, Margin)
    BY <1>4 DEF CallShort
  <2>2. MayCall(t) /\ UNCHANGED link /\ body # "probe" /\ 0 \in Nat
    BY <1>4 DEF CallShort
  <2> QED BY <1>3, <2>1, <2>2, CallsKeeps
<1>5. CASE CallWait(t)
  <2>1. PICK timeout \in WaitTimeouts : Calls(t, "wait", timeout, Patience(timeout))
    BY <1>5 DEF CallWait
  <2>2. /\ MayCall(t) /\ UNCHANGED link /\ "wait" \in Bodies
        /\ "wait" # "probe" /\ "wait" # "estop"
    BY <1>5 DEF CallWait
  <2>3. timeout \in Nat /\ Patience(timeout) \in Nat \ {0} /\ Patience(timeout) >= timeout + Margin
    BY DEF Patience
  <2> QED BY <1>3, <2>1, <2>2, <2>3, CallsKeeps
<1> QED BY <1>2, <1>4, <1>5

\* The reply to the call ends it; another one is dropped.
LEMMA ReceiveKeeps ==
  ASSUME RemoteInv, NEW t \in Threads, Receive(t)
  PROVE  RemoteInv'
<1>1. /\ InCall(t) /\ replies[t] # << >>
      /\ call' = IF Head(replies[t]).id = call[t].request.id
                   THEN [call EXCEPT ![t] = NoCall] ELSE call
      /\ replies' = [replies EXCEPT ![t] = Tail(@)]
      /\ UNCHANGED <<daemonVars, link, nextCall, requests, request, toRun, behind>>
  BY DEF Receive
<1>2. RemoteTypes /\ ClientInv(t)
  BY DEF RemoteInv
<1>3. /\ DaemonInv'
      /\ UNCHANGED <<counter, at, item, heap, current, aborted, worker, serving>>
  BY <1>1, DaemonAlone
<1>4. /\ replies[t] \in Seq(Requests) /\ Tail(replies[t]) \in Seq(Requests)
      /\ Head(replies[t]) = replies[t][1] /\ Len(replies[t]) \in Nat
      /\ Len(Tail(replies[t])) = Len(replies[t]) - 1
      /\ \A k \in 1..Len(Tail(replies[t])) : Tail(replies[t])[k] = replies[t][k + 1]
  BY <1>1, <1>2, HeadTailProperties, LenProperties DEF RemoteTypes
<1>5. NoCall \in [request : Requests \cup {NoRequest}, left : Nat]
  BY DEF NoCall
<1>6. RemoteTypes'
  BY <1>1, <1>2, <1>4, <1>5 DEF RemoteTypes
<1>7. ASSUME NEW c \in Threads, c # t
      PROVE  ClientInv(c)'
  <2>1. /\ link'[c] = link[c] /\ call'[c] = call[c] /\ nextCall'[c] = nextCall[c]
        /\ requests'[c] = requests[c] /\ replies'[c] = replies[c]
        /\ request'[c] = request[c] /\ behind'[c] = behind[c]
        /\ at'[c] = at[c] /\ item'[c] = item[c]
    BY <1>1, <1>2, <1>3, <1>7 DEF RemoteTypes
  <2>2. BeingServed(c)' => BeingServed(c) /\ toRun' = toRun
    BY <1>1, <1>3, <2>1 DEF BeingServed
  <2> QED BY <1>3, <2>1, <2>2, Untouched
<1>8. /\ replies'[t] = Tail(replies[t]) /\ Taken(t)' = Taken(t)
      /\ UNCHANGED <<link[t], nextCall[t], requests[t], request[t], behind[t]>>
      /\ UNCHANGED <<at[t], item[t]>>
  BY <1>1, <1>2, <1>3 DEF RemoteTypes, Taken
<1>9. ConnectionInOrder(t)' /\ ThreadHoldsRequest(t)'
  BY <1>1, <1>2, <1>4, <1>8, OrderReceived
  DEF ClientInv, ConnectionInOrder, ThreadHoldsRequest
<1>10. CASE Head(replies[t]).id = call[t].request.id
  <2>1. ~InCall(t)' /\ call'[t] = NoCall
    BY <1>1, <1>2, <1>10 DEF InCall, RemoteTypes
  <2>2. link[t] = "open"
    BY <1>1, <1>2 DEF ClientInv, CallIsUnderWay
  <2>3. t \notin Tools => NothingUnderWay(t)'
    <3> SUFFICES ASSUME t \notin Tools PROVE NothingUnderWay(t)'
      OBVIOUS
    <3>1. replies[t] = <<call[t].request>> /\ requests[t] = << >> /\ Taken(t) = {}
      BY <1>1, <1>2 DEF ClientInv, Tidy, OnlyThisCall
    <3>2. Tail(<<call[t].request>>) = << >>
      OBVIOUS
    <3> QED BY <1>8, <3>1, <3>2 DEF NothingUnderWay
  <2>4. Tidy(t)'
    BY <1>8, <2>1, <2>2, <2>3 DEF Tidy
  <2> QED BY <1>3, <1>6, <1>7, <1>9, <2>1, <2>4
      DEF RemoteInv, ClientInv, CallIsUnderWay, TimeIsItsOwn, UrgentHasTime
<1>11. CASE Head(replies[t]).id # call[t].request.id
  <2>1. call' = call /\ InCall(t)'
    BY <1>1, <1>11 DEF InCall
  <2>2. Answered(t) => Answered(t)'
    <3> SUFFICES ASSUME NEW k \in 1..Len(replies[t]), replies[t][k] = call[t].request
                 PROVE  Answered(t)'
      BY DEF Answered
    <3>1. k - 1 \in 1..Len(Tail(replies[t])) /\ k = (k - 1) + 1
      BY <1>4, <1>11
    <3>2. Tail(replies[t])[k - 1] = replies[t][k]
      BY <1>4, <3>1
    <3> QED BY <1>8, <2>1, <3>1, <3>2 DEF Answered
  <2>3. CallIsUnderWay(t)'
    BY <1>2, <1>8, <2>1, <2>2 DEF ClientInv, CallIsUnderWay, InCall, Unread
  <2>4. Tidy(t)'
    <3>1. ~OnlyThisCall(t)
      <4>1. replies[t] = <<call[t].request>> => Head(replies[t]) = call[t].request
        OBVIOUS
      <4> QED BY <1>1, <1>11, <4>1 DEF OnlyThisCall
    <3> QED BY <1>1, <1>2, <1>8, <2>1, <3>1 DEF ClientInv, Tidy, CallIsUnderWay
  <2>5. TimeIsItsOwn(t)' /\ UrgentHasTime(t)'
    BY <1>1, <1>2, <1>3, <1>8, <2>1
    DEF ClientInv, TimeIsItsOwn, UrgentHasTime, InCall, NotStarted, Unread, BeingServed
  <2> QED BY <1>3, <1>6, <1>7, <1>9, <2>3, <2>4, <2>5 DEF RemoteInv, ClientInv
<1> QED BY <1>10, <1>11

\* Giving up and leaving only end calls and close connections.
LEMMA EndsKeep ==
  ASSUME RemoteInv, NEW t \in Threads, GivesUp(t) \/ Leaves(t)
  PROVE  RemoteInv'
<1>1. /\ link[t] = "open" /\ link' \in {link, [link EXCEPT ![t] = "closed"]}
      /\ t \in Tools \/ link' = [link EXCEPT ![t] = "closed"]
      /\ call' = [call EXCEPT ![t] = NoCall]
      /\ UNCHANGED <<daemonVars, nextCall, requests, replies, request, toRun, behind>>
  <2>1. CASE GivesUp(t)
    BY <2>1 DEF GivesUp, socketVars, RemoteInv, ClientInv, CallIsUnderWay
  <2>2. CASE Leaves(t)
    BY <2>2 DEF Leaves, socketVars, InCall, RemoteInv, RemoteTypes
  <2> QED BY <2>1, <2>2
<1>2. RemoteTypes /\ ClientInv(t)
  BY DEF RemoteInv
<1>3. /\ DaemonInv'
      /\ UNCHANGED <<counter, at, item, heap, current, aborted, worker, serving>>
  BY <1>1, DaemonAlone
<1>4. NoCall \in [request : Requests \cup {NoRequest}, left : Nat]
  BY DEF NoCall
<1>5. RemoteTypes'
  BY <1>1, <1>2, <1>4 DEF RemoteTypes
<1>6. ASSUME NEW c \in Threads, c # t
      PROVE  ClientInv(c)'
  <2>1. /\ link'[c] = link[c] /\ call'[c] = call[c] /\ nextCall'[c] = nextCall[c]
        /\ requests'[c] = requests[c] /\ replies'[c] = replies[c]
        /\ request'[c] = request[c] /\ behind'[c] = behind[c]
        /\ at'[c] = at[c] /\ item'[c] = item[c]
    BY <1>1, <1>2, <1>3, <1>6 DEF RemoteTypes
  <2>2. BeingServed(c)' => BeingServed(c) /\ toRun' = toRun
    BY <1>1, <1>3, <2>1 DEF BeingServed
  <2> QED BY <1>3, <2>1, <2>2, Untouched
<1>7. ~InCall(t)' /\ (link'[t] = "closed" \/ (t \in Tools /\ link'[t] = "open"))
  BY <1>1, <1>2 DEF InCall, RemoteTypes
<1>8. ClientInv(t)'
  <2>1. ConnectionInOrder(t)' /\ ThreadHoldsRequest(t)'
    BY <1>1, <1>2, <1>3 DEF ClientInv, ConnectionInOrder, ThreadHoldsRequest, Taken
  <2> QED BY <1>7, <2>1 DEF ClientInv, CallIsUnderWay, Tidy, TimeIsItsOwn, UrgentHasTime
<1> QED BY <1>3, <1>5, <1>6, <1>8 DEF RemoteInv

(***************************************************************************)
(* The serving threads' steps                                              *)
(***************************************************************************)

\* What a serving thread's step does to the others: nothing.
LEMMA OthersServed ==
  ASSUME RemoteInv, NEW t \in Threads, UNCHANGED <<clientVars, toRun, behind, heap, worker, serving>>,
         \A c \in Threads \ {t} :
           /\ requests'[c] = requests[c] /\ replies'[c] = replies[c]
           /\ request'[c] = request[c] /\ at'[c] = at[c] /\ item'[c] = item[c],
         NEW c \in Threads, c # t
  PROVE  ClientInv(c)'
<1>1. BeingServed(c)' => BeingServed(c) /\ toRun' = toRun
  BY DEF BeingServed, clientVars
<1> QED BY <1>1, Untouched DEF clientVars

\* Where the requests of one connection stand when its thread is between two.
LEMMA FirstUnread ==
  ASSUME RemoteInv, NEW t \in Threads, at[t] = "idle", requests[t] # << >>
  PROVE  /\ requests[t] \in Seq(Requests) /\ Head(requests[t]) \in Requests
         /\ Tail(requests[t]) \in Seq(Requests) /\ Taken(t) = {}
         /\ InOrder(replies[t], {Head(requests[t])}, Tail(requests[t]), nextCall[t])
         /\ InCall(t) => link[t] = "open"
         /\ InCall(t) /\ Head(requests[t]) = call[t].request => Unread(t)
         /\ InCall(t) /\ Unread(t) =>
              \/ Head(requests[t]) = call[t].request
              \/ Tail(requests[t]) # << >>
                 /\ Tail(requests[t])[Len(Tail(requests[t]))] = call[t].request
         /\ Tail(requests[t]) # << >> =>
              Tail(requests[t])[Len(Tail(requests[t]))] = requests[t][Len(requests[t])]
         /\ ~NothingUnderWay(t) /\ link[t] # "none"
         /\ OnlyThisCall(t) => requests[t] = <<call[t].request>> /\ replies[t] = << >>
<1>1. RemoteTypes /\ ClientInv(t)
  BY DEF RemoteInv
<1>2. /\ requests[t] \in Seq(Requests) /\ Head(requests[t]) \in Requests
      /\ Head(requests[t]) = requests[t][1] /\ Len(requests[t]) \in Nat /\ 1 \in 1..Len(requests[t])
      /\ Tail(requests[t]) \in Seq(Requests)
      /\ Len(Tail(requests[t])) = Len(requests[t]) - 1
      /\ \A k \in 1..Len(Tail(requests[t])) : Tail(requests[t])[k] = requests[t][k + 1]
  BY <1>1, HeadTailProperties, LenProperties, EmptySeq DEF RemoteTypes
<1>3. Taken(t) = {}
  BY DEF Taken
<1>4. InOrder(replies[t], {Head(requests[t])}, Tail(requests[t]), nextCall[t])
  BY <1>1, <1>2, <1>3, OrderTaken DEF ClientInv, ConnectionInOrder
<1>5. ASSUME Tail(requests[t]) # << >>
      PROVE  Tail(requests[t])[Len(Tail(requests[t]))] = requests[t][Len(requests[t])]
  <2> DEFINE n == Len(Tail(requests[t]))
  <2>1. /\ n # 0 /\ n = Len(requests[t]) - 1 /\ n \in Nat
        /\ Len(requests[t]) \in Nat
    BY <1>2, <1>5, EmptySeq, LenProperties
  <2> HIDE DEF n
  <2>2. \A a, b \in Nat : a # 0 /\ a = b - 1 => a \in 1..a /\ a + 1 = b
    OBVIOUS
  <2>3. n \in 1..n /\ n + 1 = Len(requests[t])
    BY <2>1, <2>2
  <2> QED BY <1>2, <2>3 DEF n
<1>6. Tail(requests[t]) = << >> => Head(requests[t]) = requests[t][Len(requests[t])]
  <2>1. Tail(requests[t]) = << >> => Len(requests[t]) = 1
    <3>1. Tail(requests[t]) = << >> => Len(Tail(requests[t])) = 0
      BY EmptySeq
    <3> QED BY <1>2, <3>1
  <2> QED BY <1>2, <2>1
<1>7. ASSUME InCall(t), Head(requests[t]) = call[t].request
      PROVE  Unread(t)
  <2>1. ~Answered(t)
    <3> SUFFICES ASSUME NEW k \in 1..Len(replies[t]), replies[t][k] = call[t].request
                 PROVE  FALSE
      BY DEF Answered
    <3>1. replies[t][k].id < Head(requests[t]).id
      BY <1>4 DEF InOrder
    <3> QED BY <1>2, <1>7, <3>1 DEF Requests
  <2> QED BY <1>1, <1>3, <1>7, <2>1 DEF ClientInv, CallIsUnderWay
<1>8. ~NothingUnderWay(t) /\ link[t] # "none"
  BY <1>1 DEF ClientInv, Tidy, NothingUnderWay
<1>9. OnlyThisCall(t) => requests[t] = <<call[t].request>> /\ replies[t] = << >>
  BY DEF OnlyThisCall
<1>10. /\ InCall(t) => link[t] = "open"
       /\ InCall(t) /\ Unread(t) =>
              \/ Head(requests[t]) = call[t].request
              \/ Tail(requests[t]) # << >>
                 /\ Tail(requests[t])[Len(Tail(requests[t]))] = call[t].request
  BY <1>1, <1>5, <1>6 DEF ClientInv, CallIsUnderWay, Unread
<1> QED BY <1>2, <1>3, <1>4, <1>5, <1>7, <1>8, <1>9, <1>10

\* The probe is answered at once.
LEMMA ProbeAnswered ==
  ASSUME RemoteInv, NEW t \in Threads, at[t] = "idle", requests[t] # << >>,
         AnswersProbe(t), requests' = [requests EXCEPT ![t] = Tail(@)],
         UNCHANGED <<clientVars, toRun, behind>>
  PROVE  RemoteInv'
<1> DEFINE head == Head(requests[t])
<1>1. /\ replies' = [replies EXCEPT ![t] = Append(@, head)]
      /\ UNCHANGED <<daemonVars, request, link, call, nextCall>>
  BY DEF AnswersProbe, clientVars
<1>2. RemoteTypes /\ ClientInv(t)
  BY DEF RemoteInv
<1>3. /\ DaemonInv'
      /\ UNCHANGED <<counter, at, item, heap, current, aborted, worker, serving>>
  BY <1>1, DaemonAlone
<1>4. /\ replies[t] \in Seq(Requests) /\ head \in Requests
      /\ Append(replies[t], head) \in Seq(Requests)
      /\ Len(Append(replies[t], head)) = Len(replies[t]) + 1 /\ Len(replies[t]) \in Nat
      /\ Append(replies[t], head)[Len(replies[t]) + 1] = head
      /\ \A k \in 1..Len(replies[t]) : Append(replies[t], head)[k] = replies[t][k]
  BY <1>2, FirstUnread, AppendProperties, LenProperties DEF RemoteTypes
<1>5. RemoteTypes'
  BY <1>1, <1>2, <1>4, FirstUnread DEF RemoteTypes
<1>6. /\ requests'[t] = Tail(requests[t]) /\ replies'[t] = Append(replies[t], head)
      /\ UNCHANGED <<link[t], call[t], nextCall[t], request[t], behind[t], at[t], item[t]>>
      /\ Taken(t)' = {} /\ InCall(t)' = InCall(t)
  BY <1>1, <1>2, <1>3 DEF RemoteTypes, Taken, InCall
<1>7. ASSUME NEW c \in Threads, c # t PROVE ClientInv(c)'
  <2>1. \A d \in Threads \ {t} :
           /\ requests'[d] = requests[d] /\ replies'[d] = replies[d]
           /\ request'[d] = request[d] /\ at'[d] = at[d] /\ item'[d] = item[d]
    BY <1>1, <1>2, <1>3 DEF RemoteTypes
  <2> QED BY <1>3, <1>7, <2>1, OthersServed
<1> HIDE DEF head
<1>8. ConnectionInOrder(t)'
  <2>1. InOrder(Append(replies[t], head), {}, Tail(requests[t]), nextCall[t])
    BY <1>4, FirstUnread, OrderAnswered DEF head
  <2> QED BY <1>6, <2>1 DEF ConnectionInOrder
<1>9. ThreadHoldsRequest(t)'
  BY <1>6 DEF ThreadHoldsRequest
<1>10. CallIsUnderWay(t)'
  <2>1. Answered(t) \/ head = call[t].request => Answered(t)'
    <3>1. /\ Len(replies[t]) + 1 \in 1..Len(replies'[t])
          /\ \A k \in 1..Len(replies[t]) : k \in 1..Len(replies'[t])
      BY <1>4, <1>6
    <3> QED BY <1>4, <1>6, <3>1 DEF Answered
  <2>2. InCall(t) /\ Unread(t) => head = call[t].request \/ Unread(t)'
    BY <1>6, FirstUnread DEF head, Unread
  <2> QED BY <1>2, <1>6, <2>1, <2>2, FirstUnread DEF ClientInv, CallIsUnderWay
<1>11. Tidy(t)'
  <2>1. OnlyThisCall(t) => OnlyThisCall(t)'
    <3> SUFFICES ASSUME requests[t] = <<call[t].request>>, replies[t] = << >>
                 PROVE  OnlyThisCall(t)'
      BY FirstUnread
    <3>1. Tail(requests[t]) = << >> /\ head = call[t].request
      BY DEF head
    <3>2. Append(<< >>, head) = <<head>>
      OBVIOUS
    <3> QED BY <1>6, <3>1, <3>2 DEF OnlyThisCall
  <2> QED BY <1>2, <1>6, <2>1, FirstUnread DEF ClientInv, Tidy
<1>12. TimeIsItsOwn(t)' /\ UrgentHasTime(t)'
  <2>1. Unread(t)' => Unread(t)
    BY <1>6, FirstUnread DEF Unread
  <2>2. NotStarted(t)' => NotStarted(t)
    BY <1>6, <2>1 DEF NotStarted
  <2> QED BY <1>2, <1>3, <1>6, <2>2
      DEF ClientInv, TimeIsItsOwn, UrgentHasTime, BeingServed
<1> QED BY <1>3, <1>5, <1>7, <1>8, <1>9, <1>10, <1>11, <1>12 DEF RemoteInv, ClientInv

\* Whoever is being served waits inside submit().
LEMMA ServedWaits ==
  ASSUME RemoteInv, NEW c \in Threads, BeingServed(c)
  PROVE  at[c] = "waiting" /\ c \notin heap /\ worker = "dispatching"
BY DEF RemoteInv, DaemonInv, WorkerShape, BeingServed

\* The thread hands the request to submit().
LEMMA RequestSubmitted ==
  ASSUME RemoteInv, NEW t \in Threads, at[t] = "idle", requests[t] # << >>,
         Head(requests[t]).body # "probe", Submits(t),
         requests' = [requests EXCEPT ![t] = Tail(@)],
         UNCHANGED <<clientVars, toRun, behind>>
  PROVE  RemoteInv'
<1> DEFINE head == Head(requests[t])
<1>1. /\ Number(t, head.body) /\ request' = [request EXCEPT ![t] = head]
      /\ UNCHANGED <<replies, link, call, nextCall>>
  BY DEF Submits, clientVars
<1>2. /\ RemoteTypes /\ ClientInv(t) /\ DaemonTypeOK /\ head \in Requests
      /\ head.body \in Bodies
  BY FirstUnread DEF RemoteInv, DaemonInv, Requests
<1>3. DaemonInv'
  BY <1>1, <1>2, NumberKeeps DEF RemoteInv
<1>4. /\ at' = [at EXCEPT ![t] = "numbered"]
      /\ item' = [item EXCEPT ![t] = [body |-> head.body, priority |-> Priority(head.body),
                                      sequence |-> counter]]
      /\ UNCHANGED <<heap, worker, serving>>
  BY <1>1 DEF Number, queueVars, workerVars
<1>5. RemoteTypes'
  BY <1>1, <1>2, FirstUnread DEF RemoteTypes, clientVars
<1>6. /\ requests'[t] = Tail(requests[t]) /\ request'[t] = head
      /\ at'[t] = "numbered" /\ item'[t].body = head.body
      /\ UNCHANGED <<link[t], call[t], nextCall[t], replies[t], behind[t]>>
      /\ Taken(t)' = {head} /\ InCall(t)' = InCall(t)
  BY <1>1, <1>2, <1>4 DEF RemoteTypes, DaemonTypeOK, Taken, InCall
<1>7. ASSUME NEW c \in Threads, c # t PROVE ClientInv(c)'
  <2>1. \A d \in Threads \ {t} :
           /\ requests'[d] = requests[d] /\ replies'[d] = replies[d]
           /\ request'[d] = request[d] /\ at'[d] = at[d] /\ item'[d] = item[d]
    BY <1>1, <1>2, <1>4 DEF RemoteTypes, DaemonTypeOK
  <2> QED BY <1>4, <1>7, <2>1, OthersServed
<1> HIDE DEF head
<1>8. ConnectionInOrder(t)'
  BY <1>6, FirstUnread DEF ConnectionInOrder, head
<1>9. ThreadHoldsRequest(t)'
  BY <1>2, <1>6 DEF ThreadHoldsRequest
<1>10. CallIsUnderWay(t)'
  <2>1. Answered(t) => Answered(t)'
    BY <1>6 DEF Answered
  <2>2. InCall(t) /\ Unread(t) => call[t].request \in Taken(t)' \/ Unread(t)'
    BY <1>6, FirstUnread DEF head, Unread
  <2> QED BY <1>2, <1>6, <2>1, <2>2, FirstUnread DEF ClientInv, CallIsUnderWay
<1>11. Tidy(t)'
  <2>1. OnlyThisCall(t) => OnlyThisCall(t)'
    <3> SUFFICES ASSUME requests[t] = <<call[t].request>>, replies[t] = << >>
                 PROVE  OnlyThisCall(t)'
      BY FirstUnread
    <3>1. Tail(requests[t]) = << >> /\ head = call[t].request
      BY DEF head
    <3> QED BY <1>6, <3>1 DEF OnlyThisCall
  <2> QED BY <1>2, <1>6, <2>1, FirstUnread DEF ClientInv, Tidy
<1>12. TimeIsItsOwn(t)' /\ UrgentHasTime(t)'
  <2>1. ASSUME InCall(t), NotStarted(t)' PROVE NotStarted(t)
    <3>1. CASE Unread(t)'
      BY <1>6, <3>1, FirstUnread DEF Unread, NotStarted
    <3>2. CASE call[t].request = head
      BY <2>1, <3>2, FirstUnread DEF NotStarted, head
    <3> QED BY <1>6, <2>1, <3>1, <3>2 DEF NotStarted
  <2>2. ~BeingServed(t)'
    <3>1. worker = "dispatching" => serving # t
      BY DEF RemoteInv, DaemonInv, WorkerShape
    <3> QED BY <1>4, <3>1 DEF BeingServed
  <2> QED BY <1>2, <1>6, <2>1, <2>2 DEF ClientInv, TimeIsItsOwn, UrgentHasTime
<1> QED BY <1>3, <1>5, <1>7, <1>8, <1>9, <1>10, <1>11, <1>12 DEF RemoteInv, ClientInv

\* The thread answers or submits the next request.
LEMMA ServeNextKeeps ==
  ASSUME RemoteInv, NEW t \in Threads, ServeNext(t)
  PROVE  RemoteInv'
BY ProbeAnswered, RequestSubmitted DEF ServeNext

\* The reply is written, or the connection found closed.
LEMMA WriteReplyKeeps ==
  ASSUME RemoteInv, NEW t \in Threads, WriteReply(t)
  PROVE  RemoteInv'
<1> DEFINE req == request[t]
<1>1. /\ Returns(t) /\ request' = [request EXCEPT ![t] = NoRequest]
      /\ \/ /\ link[t] = "open" /\ UNCHANGED requests
            /\ replies' = [replies EXCEPT ![t] = Append(@, req)]
         \/ /\ link[t] # "open" /\ UNCHANGED replies
            /\ requests' = [requests EXCEPT ![t] = << >>]
      /\ UNCHANGED <<link, call, nextCall, toRun, behind>>
  BY DEF WriteReply, clientVars
<1>2. /\ at[t] = "answered" /\ at' = [at EXCEPT ![t] = "idle"]
      /\ item' = [item EXCEPT ![t] = NoItem] /\ UNCHANGED <<heap, worker, serving>>
  BY <1>1 DEF Returns, workerVars
<1>3. RemoteTypes /\ ClientInv(t) /\ DaemonTypeOK
  BY DEF RemoteInv, DaemonInv
<1>4. DaemonInv'
  BY <1>1, ReturnsKeeps DEF RemoteInv
<1>5. /\ req \in Requests /\ Taken(t) = {req}
      /\ replies[t] \in Seq(Requests) /\ requests[t] \in Seq(Requests)
  BY <1>2, <1>3 DEF ClientInv, ThreadHoldsRequest, Taken, RemoteTypes
<1>6. /\ Append(replies[t], req) \in Seq(Requests) /\ << >> \in Seq(Requests)
      /\ Len(Append(replies[t], req)) = Len(replies[t]) + 1 /\ Len(replies[t]) \in Nat
      /\ Append(replies[t], req)[Len(replies[t]) + 1] = req
      /\ \A k \in 1..Len(replies[t]) : Append(replies[t], req)[k] = replies[t][k]
  BY <1>5, AppendProperties, LenProperties, EmptySeq
<1>7. RemoteTypes'
  BY <1>1, <1>3, <1>6 DEF RemoteTypes
<1>8. /\ at'[t] = "idle" /\ Taken(t)' = {} /\ InCall(t)' = InCall(t)
      /\ UNCHANGED <<link[t], call[t], nextCall[t], behind[t]>>
      /\ \/ /\ link[t] = "open" /\ requests'[t] = requests[t]
            /\ replies'[t] = Append(replies[t], req)
         \/ link[t] # "open" /\ replies'[t] = replies[t] /\ requests'[t] = << >>
  BY <1>1, <1>2, <1>3 DEF RemoteTypes, DaemonTypeOK, Taken, InCall
<1>9. ASSUME NEW c \in Threads, c # t PROVE ClientInv(c)'
  <2>1. \A d \in Threads \ {t} :
           /\ requests'[d] = requests[d] /\ replies'[d] = replies[d]
           /\ request'[d] = request[d] /\ at'[d] = at[d] /\ item'[d] = item[d]
    BY <1>1, <1>2, <1>3 DEF RemoteTypes, DaemonTypeOK
  <2>2. UNCHANGED <<clientVars, toRun, behind, heap, worker, serving>>
    BY <1>1, <1>2 DEF clientVars
  <2> QED BY <1>9, <2>1, <2>2, OthersServed
<1> HIDE DEF req
<1>10. ConnectionInOrder(t)'
  <2>1. InOrder(replies[t], {req}, requests[t], nextCall[t])
    BY <1>3, <1>5 DEF ClientInv, ConnectionInOrder
  <2>2. /\ InOrder(Append(replies[t], req), {}, requests[t], nextCall[t])
        /\ InOrder(replies[t], {}, << >>, nextCall[t])
    BY <1>5, <2>1, OrderAnswered
  <2> QED BY <1>8, <2>2 DEF ConnectionInOrder
<1>11. ThreadHoldsRequest(t)'
  BY <1>8 DEF ThreadHoldsRequest
<1>12. CallIsUnderWay(t)'
  <2> SUFFICES ASSUME InCall(t) PROVE CallIsUnderWay(t)'
    BY <1>8 DEF CallIsUnderWay
  <2>1. /\ link[t] = "open" /\ call[t].request \in Requests
        /\ nextCall[t] = call[t].request.id + 1
        /\ Unread(t) \/ call[t].request = req \/ Answered(t)
    BY <1>3, <1>5 DEF ClientInv, CallIsUnderWay
  <2>2. Answered(t) \/ req = call[t].request => Answered(t)'
    <3>1. /\ Len(replies[t]) + 1 \in 1..Len(replies'[t])
          /\ \A k \in 1..Len(replies[t]) : k \in 1..Len(replies'[t])
      BY <1>6, <1>8, <2>1
    <3> QED BY <1>6, <1>8, <2>1, <3>1 DEF Answered
  <2>3. Unread(t) => Unread(t)'
    BY <1>8, <2>1 DEF Unread
  <2> QED BY <1>8, <2>1, <2>2, <2>3 DEF CallIsUnderWay
<1>13. Tidy(t)'
  <2>1. ~NothingUnderWay(t)
    BY <1>5 DEF NothingUnderWay
  <2>2. InCall(t) /\ OnlyThisCall(t) => OnlyThisCall(t)'
    <3> SUFFICES ASSUME InCall(t), OnlyThisCall(t) PROVE OnlyThisCall(t)'
      OBVIOUS
    <3>1. requests[t] = << >> /\ req = call[t].request /\ replies[t] = << >>
      BY <1>5 DEF OnlyThisCall
    <3>2. link[t] = "open"
      BY <1>3 DEF ClientInv, CallIsUnderWay
    <3>3. Append(<< >>, req) = <<req>>
      OBVIOUS
    <3> QED BY <1>8, <3>1, <3>2, <3>3 DEF OnlyThisCall
  <2> QED BY <1>3, <1>8, <2>1, <2>2 DEF ClientInv, Tidy
<1>14. TimeIsItsOwn(t)' /\ UrgentHasTime(t)'
  <2>1. ASSUME InCall(t), NotStarted(t)' PROVE NotStarted(t)
    <3>1. link[t] = "open"
      BY <1>3, <2>1 DEF ClientInv, CallIsUnderWay
    <3> QED BY <1>8, <2>1, <3>1 DEF NotStarted, Unread
  <2>2. ~BeingServed(t)'
    <3>1. worker = "dispatching" => serving # t
      BY <1>2 DEF RemoteInv, DaemonInv, WorkerShape
    <3> QED BY <1>2, <3>1 DEF BeingServed
  <2> QED BY <1>1, <1>3, <1>8, <2>1, <2>2 DEF ClientInv, TimeIsItsOwn, UrgentHasTime
<1> QED BY <1>4, <1>7, <1>9, <1>10, <1>11, <1>12, <1>13, <1>14 DEF RemoteInv, ClientInv

(***************************************************************************)
(* The daemon's steps                                                      *)
(***************************************************************************)

\* A client whose call the daemon moves on: a request is started once, and its
\* wait then gets all of its timeout.
LEMMA MovedOn ==
  ASSUME RemoteInv, NEW c \in Threads,
         UNCHANGED <<clientVars, socketVars, request, behind>>,
         item'[c] = item[c], at'[c] = "idle" <=> at[c] = "idle",
         NotStarted(c)' => NotStarted(c),
         InCall(c) /\ BeingServed(c)' =>
           \/ BeingServed(c) /\ toRun' = toRun
           \/ NotStarted(c) /\ toRun' = call[c].request.timeout
  PROVE  ClientInv(c)'
<1>1. ClientInv(c)
  BY DEF RemoteInv
<1>2. /\ UNCHANGED <<link, call, nextCall, requests, replies, request, behind>>
      /\ Taken(c)' = Taken(c) /\ InCall(c)' = InCall(c)
      /\ Unread(c)' = Unread(c) /\ Answered(c)' = Answered(c)
  BY DEF clientVars, socketVars, Taken, InCall, Unread, Answered
<1>3. ConnectionInOrder(c)' /\ ThreadHoldsRequest(c)' /\ CallIsUnderWay(c)'
  BY <1>1, <1>2 DEF ClientInv, ConnectionInOrder, ThreadHoldsRequest, CallIsUnderWay
<1>4. Tidy(c)'
  BY <1>1, <1>2 DEF ClientInv, Tidy, NothingUnderWay, OnlyThisCall
<1>5. TimeIsItsOwn(c)' /\ UrgentHasTime(c)'
  BY <1>1, <1>2 DEF ClientInv, TimeIsItsOwn, UrgentHasTime
<1> QED BY <1>3, <1>4, <1>5 DEF ClientInv

\* The request a thread is with is the call of its client when it has its id.
LEMMA SameIdSameRequest ==
  ASSUME RemoteInv, NEW c \in Threads, InCall(c), at[c] # "idle",
         request[c].id = call[c].request.id
  PROVE  request[c] = call[c].request /\ ~Unread(c) /\ item[c].body = request[c].body
<1>1. /\ ClientInv(c) /\ RemoteTypes /\ Taken(c) = {request[c]} /\ request[c] \in Requests
      /\ InOrder(replies[c], {request[c]}, requests[c], nextCall[c])
  BY DEF RemoteInv, ClientInv, ThreadHoldsRequest, ConnectionInOrder, Taken
<1>2. \A n \in Nat : ~(n < n)
  OBVIOUS
<1>3. request[c].id \in Nat
  BY <1>1 DEF Requests
<1>4. ~Answered(c)
  BY <1>1, <1>2, <1>3 DEF Answered, InOrder
<1>5. ~Unread(c)
  <2> SUFFICES ASSUME Unread(c) PROVE FALSE
    OBVIOUS
  <2>1. Len(requests[c]) \in 1..Len(requests[c])
    <3>1. requests[c] \in Seq(Requests) /\ requests[c] # << >>
      BY <1>1 DEF RemoteTypes, Unread
    <3>2. Len(requests[c]) \in Nat /\ Len(requests[c]) # 0
      BY <3>1, LenProperties, EmptySeq
    <3> QED BY <3>2
  <2> QED BY <1>1, <1>2, <1>3, <2>1 DEF InOrder, Unread
<1> QED BY <1>1, <1>4, <1>5 DEF ClientInv, CallIsUnderWay, ThreadHoldsRequest

\* The daemon starts at most the one request it pops, and ends no call.
LEMMA DaemonRunsKeeps ==
  ASSUME RemoteInv, DaemonRuns
  PROVE  RemoteInv'
<1>1. /\ Start \/ (\E t \in Threads : Push(t)) \/ WorkerRuns \/ WaitEnds
      /\ UNCHANGED <<clientVars, socketVars, request, behind>>
      /\ toRun' = IF worker = "idle" /\ worker' = "dispatching"
                    THEN request[serving'].timeout ELSE toRun
  BY DEF DaemonRuns
<1>2. RemoteTypes /\ DaemonInv /\ DaemonTypeOK
  BY DEF RemoteInv, DaemonInv
<1>3. DaemonNext
  BY <1>1 DEF DaemonNext
<1>4. DaemonInv'
  BY <1>2, <1>3, DaemonInvariantKept
<1>5. CASE Pop
  <2>1. PICK t \in heap : heap' = heap \ {t} /\ serving' = t
    BY <1>5 DEF Pop
  <2>2. /\ worker = "idle" /\ worker' = "dispatching" /\ UNCHANGED <<at, item>>
        /\ t \in Threads /\ at[t] = "waiting"
    BY <1>2, <1>5, <2>1 DEF Pop, submitVars, DaemonTypeOK, DaemonInv, QueueShape
  <2>3. request[t] \in Requests /\ toRun' = request[t].timeout
    BY <1>1, <2>1, <2>2 DEF RemoteInv, ClientInv, ThreadHoldsRequest
  <2>4. RemoteTypes'
    <3>1. toRun' \in Nat
      BY <2>3 DEF Requests
    <3> QED BY <1>1, <1>2, <3>1 DEF RemoteTypes, clientVars, socketVars
  <2>5. ASSUME NEW c \in Threads PROVE ClientInv(c)'
    <3>1. NotStarted(c)' => NotStarted(c)
      BY <1>1, <2>1, <2>2 DEF NotStarted, Unread, Taken, clientVars, socketVars
    <3>2. ASSUME InCall(c), BeingServed(c)'
          PROVE  NotStarted(c) /\ toRun' = call[c].request.timeout
      <4>1. c = t /\ request[c].id = call[c].request.id
        BY <1>1, <2>1, <3>2 DEF BeingServed, clientVars
      <4>2. request[c] = call[c].request
        BY <2>2, <3>2, <4>1, SameIdSameRequest
      <4> QED BY <2>2, <2>3, <4>1, <4>2 DEF NotStarted, Taken
    <3> QED BY <1>1, <2>2, <3>1, <3>2, MovedOn
  <2> QED BY <1>4, <2>4, <2>5 DEF RemoteInv
<1>6. CASE ~Pop
  <2>1. /\ \A c \in Threads : item'[c] = item[c] /\ (at'[c] = "idle" <=> at[c] = "idle")
        /\ \A c \in Threads : at'[c] = "numbered" => at[c] = "numbered"
        /\ \A c \in Threads : c \in heap' => c \in heap \/ at[c] = "numbered"
        /\ worker' = "dispatching" => worker = "dispatching" /\ serving' = serving
    <3>1. ASSUME NEW t \in Threads, Push(t) PROVE <2>1!:
      BY <1>2, <3>1 DEF Push, submitVars, workerVars, DaemonTypeOK
    <3>2. CASE HandBack
      <4>1. serving \in Threads /\ at[serving] = "waiting"
        BY <1>2, <3>2 DEF HandBack, DaemonInv, WorkerShape
      <4> QED BY <1>2, <3>2, <4>1 DEF HandBack, submitVars, queueVars, DaemonTypeOK
    <3>3. CASE Start \/ Exit \/ ShortBodyEnds \/ WaitYields \/ WaitEnds \/ ClearCurrent
      BY <3>3 DEF Start, Exit, ShortBodyEnds, WaitYields, WaitEnds, Executed, ClearCurrent,
                  submitVars, queueVars
    <3> QED BY <1>1, <1>6, <3>1, <3>2, <3>3 DEF WorkerRuns
  <2>2. toRun' = toRun
    BY <1>1, <2>1
  <2>3. RemoteTypes'
    BY <1>1, <1>2, <2>2 DEF RemoteTypes, clientVars, socketVars
  <2>4. ASSUME NEW c \in Threads PROVE ClientInv(c)'
    <3>1. NotStarted(c)' => NotStarted(c)
      BY <1>1, <2>1 DEF NotStarted, Unread, Taken, clientVars, socketVars
    <3>2. BeingServed(c)' => BeingServed(c)
      BY <1>1, <2>1 DEF BeingServed, clientVars
    <3> QED BY <1>1, <2>1, <2>2, <3>1, <3>2, MovedOn
  <2> QED BY <1>4, <2>3, <2>4 DEF RemoteInv
<1> QED BY <1>5, <1>6

(***************************************************************************)
(* Time                                                                    *)
(***************************************************************************)

\* When time passes with a call under way, the worker is with a wait that nobody
\* told to end, the call is behind it or is that wait, and it is not urgent.
LEMMA WhenTimePasses ==
  ASSUME RemoteInv, AllWait, NEW c \in Threads, InCall(c)
  PROVE  /\ call[c].left \in Nat \ {0} /\ at[c] = "waiting"
         /\ WaitHoldsWorker /\ toRun \in Nat \ {0}
         /\ call[c].request \in Requests
         /\ call[c].request.body \notin {"estop", "probe"}
<1>1. ClientInv(c) /\ RemoteTypes /\ DaemonInv /\ DaemonTypeOK
  BY DEF RemoteInv, DaemonInv
<1>2. replies[c] = << >> /\ call[c].left > 0
  BY DEF AllWait, Waiting
<1>3. call[c].left \in Nat
  BY <1>1 DEF RemoteTypes
<1>4. ~Answered(c)
  BY <1>2 DEF Answered
<1>5. at[c] = "waiting"
  <2> SUFFICES ASSUME at[c] = "idle", requests[c] = << >> PROVE FALSE
    BY DEF AllWait
  <2> QED BY <1>1, <1>4 DEF ClientInv, CallIsUnderWay, Unread, Taken
<1>6. c \in heap \/ c = serving
  BY <1>1, <1>5 DEF DaemonInv, QueueShape
<1>7. WaitHoldsWorker /\ toRun > 0
  <2> SUFFICES ASSUME worker = "idle", heap = {} PROVE FALSE
    BY DEF AllWait
  <2>1. serving = NoThread
    BY <1>1 DEF DaemonInv, WorkerShape
  <2> QED BY <1>6, <2>1, DaemonAssumption
<1>8. call[c].request.body \notin {"estop", "probe"}
  <2> SUFFICES ASSUME call[c].request.body \in {"estop", "probe"} PROVE FALSE
    OBVIOUS
  <2>1. OnlyThisCall(c)
    BY <1>1 DEF ClientInv, Tidy
  <2>2. request[c] = call[c].request
    BY <1>5, <2>1 DEF OnlyThisCall, Taken
  <2>3. item[c].body = call[c].request.body
    BY <1>1, <1>5, <2>2 DEF ClientInv, ThreadHoldsRequest
  <2>4. item[c].body \in Bodies \cup {"none"} /\ "probe" \notin Bodies \cup {"none"}
    BY <1>1, DaemonAssumption DEF DaemonTypeOK
  <2>5. item[c].body = "estop"
    BY <2>3, <2>4
  <2>6. worker = "dispatching" /\ item[serving].body = "wait" /\ serving \notin aborted
    BY <1>7 DEF WaitHoldsWorker, Dispatching
  <2>7. EstopQueued
    BY <1>6, <2>5, <2>6 DEF EstopQueued
  <2> QED BY <1>1, <2>6, <2>7 DEF DaemonInv, AbortedIffEstopWaits
<1>9. call[c].request \in Requests
  BY <1>1 DEF ClientInv, CallIsUnderWay
<1> QED BY <1>1, <1>2, <1>3, <1>5, <1>7, <1>8, <1>9 DEF RemoteTypes

\* A second takes time only from calls behind a wait and from that wait itself.
LEMMA TickKeeps ==
  ASSUME RemoteInv, Tick
  PROVE  RemoteInv'
<1> USE RemoteAssumption
<1>1. /\ AllWait /\ Waiting # {}
      /\ call' = [c \in Threads |->
                    IF InCall(c) THEN [call[c] EXCEPT !.left = @ - 1] ELSE call[c]]
      /\ toRun' = IF WaitHoldsWorker THEN toRun - 1 ELSE toRun
      /\ behind' = [c \in Threads |-> behind[c] \/ (WaitHoldsWorker /\ ~BeingServed(c))]
      /\ UNCHANGED <<daemonVars, link, nextCall, requests, replies, request>>
  BY DEF Tick, socketVars
<1>2. RemoteTypes /\ DaemonInv
  BY DEF RemoteInv
<1>3. /\ DaemonInv'
      /\ UNCHANGED <<counter, at, item, heap, current, aborted, worker, serving>>
  BY <1>1, DaemonAlone
<1>4. WaitHoldsWorker /\ toRun \in Nat \ {0} /\ toRun' = toRun - 1
  <2>1. PICK c \in Threads : InCall(c)
    BY <1>1 DEF Waiting
  <2> QED BY <1>1, <2>1, WhenTimePasses
<1>5. ASSUME NEW c \in Threads, InCall(c)
      PROVE  /\ call[c].left \in Nat \ {0}
             /\ call'[c] = [call[c] EXCEPT !.left = @ - 1]
             /\ call'[c].request = call[c].request /\ call'[c].left = call[c].left - 1
             /\ InCall(c)' /\ call'[c] \in [request : Requests \cup {NoRequest}, left : Nat]
  <2>1. call[c] \in [request : Requests \cup {NoRequest}, left : Nat]
    BY <1>2 DEF RemoteTypes
  <2>2. call[c].left \in Nat \ {0} /\ call[c].request \in Requests
    BY <1>1, <1>5, WhenTimePasses
  <2>3. call'[c] = [call[c] EXCEPT !.left = @ - 1]
    BY <1>1, <1>5
  <2>4. call'[c].request = call[c].request /\ call'[c].left = call[c].left - 1
    BY <2>1, <2>3
  <2>5. call[c].left - 1 \in Nat
    BY <2>2
  <2>6. call'[c] \in [request : Requests \cup {NoRequest}, left : Nat]
    BY <2>1, <2>3, <2>5
  <2>7. call[c].request # NoRequest
    BY <2>2 DEF Requests, NoRequest
  <2>8. InCall(c)'
    BY <2>4, <2>7 DEF InCall, NoCall
  <2> QED BY <2>2, <2>3, <2>4, <2>6, <2>8
<1>6. ASSUME NEW c \in Threads, ~InCall(c)
      PROVE  call'[c] = call[c] /\ ~InCall(c)'
  BY <1>1, <1>6 DEF InCall
<1>7. RemoteTypes'
  <2>1. call' \in [Threads -> [request : Requests \cup {NoRequest}, left : Nat]]
    <3>1. \A c \in Threads : call'[c] \in [request : Requests \cup {NoRequest}, left : Nat]
      BY <1>2, <1>5, <1>6 DEF RemoteTypes
    <3>2. DOMAIN call' = Threads /\ call' = [c \in Threads |-> call'[c]]
      BY <1>1
    <3> QED BY <3>1, <3>2
  <2>2. behind' \in [Threads -> BOOLEAN]
    BY <1>1
  <2>3. toRun' \in Nat
    BY <1>4
  <2> QED BY <1>1, <1>2, <2>1, <2>2, <2>3 DEF RemoteTypes
<1>8. ASSUME NEW c \in Threads PROVE ClientInv(c)'
  <2>1. ClientInv(c) /\ call'[c].request = call[c].request /\ InCall(c)' = InCall(c)
    <3>1. ClientInv(c)
      BY DEF RemoteInv
    <3>2. CASE InCall(c)
      BY <1>5, <3>1, <3>2 DEF InCall
    <3>3. CASE ~InCall(c)
      BY <1>6, <3>1, <3>3 DEF InCall
    <3> QED BY <3>2, <3>3
  <2>2. /\ Taken(c)' = Taken(c) /\ Unread(c)' = Unread(c) /\ Answered(c)' = Answered(c)
        /\ UNCHANGED <<link[c], nextCall[c], requests[c], replies[c], request[c], at[c], item[c]>>
    BY <1>1, <1>3, <2>1 DEF Taken, Unread, Answered
  <2>3. ConnectionInOrder(c)' /\ ThreadHoldsRequest(c)' /\ CallIsUnderWay(c)'
    BY <2>1, <2>2 DEF ClientInv, ConnectionInOrder, ThreadHoldsRequest, CallIsUnderWay
  <2>4. Tidy(c)'
    BY <2>1, <2>2 DEF ClientInv, Tidy, NothingUnderWay, OnlyThisCall
  <2>5. UrgentHasTime(c)'
    BY <1>1, <2>1, WhenTimePasses DEF UrgentHasTime
  <2>6. TimeIsItsOwn(c)'
    <3> SUFFICES ASSUME InCall(c), ~behind'[c]
                 PROVE  /\ call'[c].left > 0 /\ ~NotStarted(c)'
                        /\ call'[c].left >= toRun' + Margin
      BY <2>1 DEF TimeIsItsOwn
    <3>1. ~behind[c] /\ BeingServed(c)
      BY <1>1, <1>4
    <3>2. at[c] = "waiting" /\ c \notin heap /\ serving = c
      BY <3>1, ServedWaits DEF BeingServed
    <3>3. request[c] = call[c].request /\ ~Unread(c) /\ item[c].body = request[c].body
      BY <3>1, <3>2, SameIdSameRequest DEF BeingServed
    <3>4. call[c].request.body = "wait"
      BY <1>4, <3>2, <3>3 DEF WaitHoldsWorker, Dispatching
    <3>5. call[c].left >= toRun + Margin
      BY <2>1, <3>1, <3>4 DEF ClientInv, TimeIsItsOwn
    <3>6. call'[c].left = call[c].left - 1 /\ call[c].left \in Nat
      BY <1>5
    <3>7. ~NotStarted(c)'
      BY <1>3, <2>2, <3>2, <3>3 DEF NotStarted
    <3>8. \A left, run, margin \in Nat :
            left >= run + margin /\ run # 0 /\ margin # 0 =>
              left - 1 > 0 /\ left - 1 >= (run - 1) + margin
      OBVIOUS
    <3> QED BY <1>4, <3>5, <3>6, <3>7, <3>8
  <2> QED BY <2>3, <2>4, <2>5, <2>6 DEF ClientInv
<1> QED BY <1>3, <1>7, <1>8 DEF RemoteInv

(***************************************************************************)
(* The theorems                                                            *)
(***************************************************************************)

\* Before the first connection nothing is under way.
LEMMA RemoteInitHolds == RemoteInit => RemoteInv
<1> SUFFICES ASSUME RemoteInit PROVE RemoteInv
  OBVIOUS
<1> USE DEF RemoteInit
<1>1. DaemonInv
  BY InitHolds
<1>2. NoCall \in [request : Requests \cup {NoRequest}, left : Nat]
  BY DEF NoCall
<1>3. << >> \in Seq(Requests)
  BY EmptySeq
<1>4. RemoteTypes
  BY <1>2, <1>3 DEF RemoteTypes
<1>5. ASSUME NEW c \in Threads PROVE ClientInv(c)
  <2>1. at[c] = "idle" /\ ~InCall(c) /\ Taken(c) = {}
    BY DEF DaemonInit, InCall, Taken
  <2>2. ConnectionInOrder(c)
    BY <2>1 DEF ConnectionInOrder, InOrder
  <2> QED BY <2>1, <2>2 DEF ClientInv, ThreadHoldsRequest, CallIsUnderWay, Tidy, TimeIsItsOwn,
                            UrgentHasTime, NothingUnderWay
<1> QED BY <1>1, <1>4, <1>5 DEF RemoteInv

\* Every step of a client, a serving thread, the daemon and the clock.
LEMMA RemoteInvariantKept ==
  ASSUME RemoteInv, [RemoteNext]_remoteVars
  PROVE  RemoteInv'
<1>1. CASE UNCHANGED remoteVars
  <2>1. /\ UNCHANGED <<daemonVars, clientVars, socketVars, request, toRun, behind>>
        /\ UNCHANGED <<link, call, nextCall, requests, replies>>
    BY <1>1 DEF remoteVars, clientVars, socketVars
  <2>2. DaemonInv' /\ UNCHANGED <<counter, at, item, heap, current, aborted, worker, serving>>
    BY <2>1, DaemonAlone
  <2>3. RemoteTypes'
    BY <2>1 DEF RemoteInv, RemoteTypes
  <2>4. ASSUME NEW c \in Threads PROVE ClientInv(c)'
    BY <2>1, <2>2, Untouched DEF BeingServed
  <2> QED BY <2>2, <2>3, <2>4 DEF RemoteInv
<1>2. CASE \E c \in Threads : Find(c) \/ CallShort(c) \/ CallWait(c)
  BY <1>2, ClientCallsKeep
<1>3. CASE \E c \in Threads : Receive(c) \/ GivesUp(c) \/ Leaves(c)
  BY <1>3, ReceiveKeeps, EndsKeep
<1>4. CASE \E c \in Threads : ServeNext(c) \/ WriteReply(c)
  BY <1>4, ServeNextKeeps, WriteReplyKeeps
<1>5. CASE DaemonRuns \/ Tick
  BY <1>5, DaemonRunsKeeps, TickKeeps
<1> QED BY <1>1, <1>2, <1>3, <1>4, <1>5 DEF RemoteNext

\* Every call under way is somewhere, in the order of the ids, and has lost no
\* more of its time than its own wait took unless it stood behind another's.
THEOREM RemoteInvariantHolds == RemoteSpec => []RemoteInv
<1>1. RemoteInit => RemoteInv
  BY RemoteInitHolds
<1>2. RemoteInv /\ [RemoteNext]_remoteVars => RemoteInv'
  BY RemoteInvariantKept
<1> QED BY <1>1, <1>2, PTL DEF RemoteSpec

\* However many clients wait for whatever they wait for, an estop and the probe
\* before it are answered within their deadlines (daemon.py:158-203, 395-433,
\* daemon_client.py:510-519, 564-599).
THEOREM UrgentCallsInTime == RemoteSpec => []EstopAndProbeInTime
<1>1. RemoteInv => EstopAndProbeInTime
  BY DEF RemoteInv, ClientInv, UrgentHasTime, EstopAndProbeInTime
<1> QED BY <1>1, RemoteInvariantHolds, PTL

\* With the margin the client adds to a wait's own timeout, no call misses its
\* deadline that did not stand behind another's wait (daemon_client.py:179-183,
\* 353-373).
THEOREM CallsExpireBehindOthers == RemoteSpec => []ExpiresOnlyBehindAnother
<1>1. RemoteInv => ExpiresOnlyBehindAnother
  <2> SUFFICES ASSUME RemoteInv, NEW c \in Threads, InCall(c), call[c].left = 0, ~behind[c]
               PROVE  FALSE
    BY DEF ExpiresOnlyBehindAnother, RemoteInv, RemoteTypes
  <2>1. call[c].left > 0
    BY DEF RemoteInv, ClientInv, TimeIsItsOwn
  <2> QED BY <2>1
<1> QED BY <1>1, RemoteInvariantHolds, PTL

(***************************************************************************)
(* Bounds                                                                  *)
(***************************************************************************)

\* Every call is counted, and what of a connection's calls is still under way
\* is no more than it made.
WithThread(c) == IF at[c] = "idle" THEN 0 ELSE 1
Outstanding(c) == Len(requests[c]) + WithThread(c) + Len(replies[c])

Bounded == \A c \in Threads : Outstanding(c) < nextCall[c] /\ nextCall[c] <= MaxCalls + 1

\* A client makes a call only while fewer than MaxCalls have been made, so its
\* own are fewer.
LEMMA OwnCallsCount ==
  ASSUME IsFiniteSet(Threads), RemoteTypes, Bounded, NEW c \in Threads, CallsMade < MaxCalls
  PROVE  nextCall[c] <= MaxCalls
<1> USE RemoteAssumption
<1> DEFINE all == {made \in Threads \X (1..MaxCalls) : made[2] < nextCall[made[1]]}
           own == {c} \X (1..MaxCalls)
<1> SUFFICES ASSUME ~(nextCall[c] <= MaxCalls) PROVE FALSE
  OBVIOUS
<1>1. nextCall[c] = MaxCalls + 1
  BY DEF RemoteTypes, Bounded
<1>2. own \subseteq all
  BY <1>1
<1>3. IsFiniteSet(1..MaxCalls) /\ Cardinality(1..MaxCalls) = MaxCalls
  BY FS_Interval
<1>4. IsFiniteSet(all)
  <2>1. IsFiniteSet(Threads \X (1..MaxCalls))
    BY <1>3, FS_Product
  <2> QED BY <2>1, FS_Subset
<1>5. Cardinality(own) = MaxCalls
  <2>1. IsFiniteSet({c}) /\ Cardinality({c}) = 1
    BY FS_Singleton
  <2>2. Cardinality(own) = Cardinality({c}) * Cardinality(1..MaxCalls)
    BY <1>3, <2>1, FS_Product
  <2>3. 1 * MaxCalls = MaxCalls
    OBVIOUS
  <2> QED BY <1>3, <2>1, <2>2, <2>3
<1>6. MaxCalls <= CallsMade /\ CallsMade \in Nat
  BY <1>2, <1>4, <1>5, FS_Subset, FS_CardinalityType DEF CallsMade
<1> QED BY <1>6

\* What the daemon does neither makes a thread idle nor an idle one busy.
LEMMA DaemonRunsIdle ==
  ASSUME RemoteInv, DaemonRuns, NEW c \in Threads
  PROVE  at'[c] = "idle" <=> at[c] = "idle"
<1>1. Start \/ (\E t \in Threads : Push(t)) \/ WorkerRuns \/ WaitEnds
  BY DEF DaemonRuns
<1>2. DaemonInv /\ DaemonTypeOK
  BY DEF RemoteInv, DaemonInv
<1>3. ASSUME NEW t \in Threads, Push(t) PROVE at'[c] = "idle" <=> at[c] = "idle"
  BY <1>2, <1>3 DEF Push, DaemonTypeOK
<1>4. CASE HandBack
  <2>1. serving \in Threads /\ at[serving] = "waiting"
    BY <1>2, <1>4 DEF HandBack, DaemonInv, WorkerShape
  <2> QED BY <1>2, <1>4, <2>1 DEF HandBack, DaemonTypeOK
<1>5. CASE Start \/ Pop \/ Exit \/ ShortBodyEnds \/ WaitYields \/ WaitEnds \/ ClearCurrent
  BY <1>5 DEF Start, Pop, Exit, ShortBodyEnds, WaitYields, WaitEnds, Executed, ClearCurrent,
              submitVars, queueVars
<1> QED BY <1>1, <1>3, <1>4, <1>5 DEF WorkerRuns

\* A step that leaves what is under way on a connection, or takes from it.
LEMMA FewerUnderWay ==
  ASSUME Bounded, NEW c \in Threads, RemoteTypes, RemoteTypes', nextCall'[c] = nextCall[c],
         Outstanding(c)' <= Outstanding(c)
  PROVE  Outstanding(c)' < nextCall'[c] /\ nextCall'[c] <= MaxCalls + 1
<1>1. Outstanding(c) \in Nat /\ Outstanding(c)' \in Nat /\ nextCall[c] \in Nat
  BY LenProperties DEF Outstanding, WithThread, RemoteTypes
<1>2. Outstanding(c) < nextCall[c] /\ nextCall[c] <= MaxCalls + 1
  BY DEF Bounded
<1> QED BY <1>1, <1>2

\* What a request taken, a reply sent and a reply read do to it.
LEMMA OutstandingMoves ==
  ASSUME NEW c \in Threads, RemoteTypes, RemoteTypes'
  PROVE  /\ Outstanding(c) \in Nat
         /\ Len(requests'[c]) = Len(requests[c]) + 1 /\ WithThread(c)' = WithThread(c)
              /\ Len(replies'[c]) = Len(replies[c]) => Outstanding(c)' = Outstanding(c) + 1
         /\ \/ /\ Len(requests'[c]) = Len(requests[c]) /\ WithThread(c)' = WithThread(c)
               /\ Len(replies'[c]) = Len(replies[c]) - 1
            \/ /\ Len(requests'[c]) = Len(requests[c]) - 1 /\ WithThread(c)' = WithThread(c)
               /\ Len(replies'[c]) = Len(replies[c]) + 1
            \/ /\ Len(requests'[c]) = Len(requests[c]) - 1 /\ WithThread(c)' = WithThread(c) + 1
               /\ Len(replies'[c]) = Len(replies[c])
            \/ /\ Len(requests'[c]) = Len(requests[c]) \/ Len(requests'[c]) = 0
               /\ WithThread(c)' = WithThread(c) - 1
               /\ Len(replies'[c]) = Len(replies[c]) + 1 \/ Len(replies'[c]) = Len(replies[c])
            => Outstanding(c)' <= Outstanding(c)
<1>1. /\ Len(requests[c]) \in Nat /\ Len(replies[c]) \in Nat
      /\ Len(requests'[c]) \in Nat /\ Len(replies'[c]) \in Nat
  BY LenProperties DEF RemoteTypes
<1>2. \A a, aNew, b, bNew \in Nat : \A w, wNew \in {0, 1} :
         /\ a + w + b \in Nat
         /\ aNew = a + 1 /\ wNew = w /\ bNew = b => aNew + wNew + bNew = a + w + b + 1
         /\ \/ aNew = a /\ wNew = w /\ bNew = b - 1
            \/ aNew = a - 1 /\ wNew = w /\ bNew = b + 1
            \/ aNew = a - 1 /\ wNew = w + 1 /\ bNew = b
            \/ (aNew = a \/ aNew = 0) /\ wNew = w - 1 /\ (bNew = b + 1 \/ bNew = b)
            => aNew + wNew + bNew <= a + w + b
  OBVIOUS
<1>3. /\ WithThread(c) \in {0, 1} /\ WithThread(c)' \in {0, 1}
      /\ Outstanding(c) = Len(requests[c]) + WithThread(c) + Len(replies[c])
      /\ Outstanding(c)' = Len(requests'[c]) + WithThread(c)' + Len(replies'[c])
  BY DEF Outstanding, WithThread
<1> DEFINE a == Len(requests[c])  aNew == Len(requests'[c])  w == WithThread(c)
           wNew == WithThread(c)'  b == Len(replies[c])  bNew == Len(replies'[c])
<1>4. /\ a \in Nat /\ aNew \in Nat /\ b \in Nat /\ bNew \in Nat
      /\ w \in {0, 1} /\ wNew \in {0, 1}
      /\ Outstanding(c) = a + w + b /\ Outstanding(c)' = aNew + wNew + bNew
  BY <1>1, <1>3
<1> HIDE DEF a, aNew, w, wNew, b, bNew
<1>5. /\ Outstanding(c) \in Nat
      /\ aNew = a + 1 /\ wNew = w /\ bNew = b => Outstanding(c)' = Outstanding(c) + 1
      /\ \/ aNew = a /\ wNew = w /\ bNew = b - 1
         \/ aNew = a - 1 /\ wNew = w /\ bNew = b + 1
         \/ aNew = a - 1 /\ wNew = w + 1 /\ bNew = b
         \/ (aNew = a \/ aNew = 0) /\ wNew = w - 1 /\ (bNew = b + 1 \/ bNew = b)
         => Outstanding(c)' <= Outstanding(c)
  BY <1>2, <1>4
<1> QED BY <1>5 DEF a, aNew, w, wNew, b, bNew

\* Every call adds one to both; a request becomes a thread's, and then a reply.
LEMMA BoundedKept ==
  ASSUME IsFiniteSet(Threads), RemoteInv, RemoteInv', Bounded, [RemoteNext]_remoteVars
  PROVE  Bounded'
<1> USE RemoteAssumption
<1>1. RemoteTypes /\ RemoteTypes' /\ DaemonTypeOK /\ DaemonTypeOK'
  BY DEF RemoteInv, DaemonInv
<1>2. SUFFICES ASSUME NEW c \in Threads
               PROVE  Outstanding(c)' < nextCall'[c] /\ nextCall'[c] <= MaxCalls + 1
  BY DEF Bounded
<1>3. /\ Len(requests[c]) \in Nat /\ Len(replies[c]) \in Nat /\ nextCall[c] \in Nat
      /\ requests[c] \in Seq(Requests) /\ replies[c] \in Seq(Requests)
  BY <1>1, LenProperties DEF RemoteTypes
<1>4. /\ DOMAIN requests = Threads /\ DOMAIN replies = Threads
      /\ DOMAIN at = Threads /\ DOMAIN nextCall = Threads
  BY <1>1 DEF RemoteTypes, DaemonTypeOK
<1>5. ASSUME UNCHANGED <<nextCall, requests, replies, at>>
      PROVE  Outstanding(c)' < nextCall'[c] /\ nextCall'[c] <= MaxCalls + 1
  BY <1>5 DEF Outstanding, WithThread, Bounded
<1>6. ASSUME NEW t \in Threads, NEW body, NEW timeout, NEW patience,
             Calls(t, body, timeout, patience), CallsMade < MaxCalls
      PROVE  Outstanding(c)' < nextCall'[c] /\ nextCall'[c] <= MaxCalls + 1
  <2> DEFINE req == [id |-> nextCall[t], body |-> body, timeout |-> timeout]
  <2>1. /\ nextCall' = [nextCall EXCEPT ![t] = @ + 1]
        /\ requests' = [requests EXCEPT ![t] = Append(@, req)]
        /\ replies' = replies /\ at' = at
    BY <1>6 DEF Calls, daemonVars
  <2> HIDE DEF req
  <2>2. CASE c # t
    <3>1. nextCall'[c] = nextCall[c] /\ requests'[c] = requests[c]
      BY <1>4, <2>1, <2>2
    <3> QED BY <2>1, <3>1 DEF Outstanding, WithThread, Bounded
  <2>3. CASE c = t
    <3>1. nextCall'[c] = nextCall[c] + 1 /\ requests'[c] = Append(requests[c], req)
      BY <1>4, <2>1, <2>3
    <3>2. Len(requests'[c]) = Len(requests[c]) + 1
      BY <3>1, <1>3
    <3>3. Outstanding(c)' = Outstanding(c) + 1 /\ Outstanding(c) \in Nat
      <4>1. WithThread(c)' = WithThread(c) /\ WithThread(c) \in {0, 1}
        BY <2>1 DEF WithThread
      <4>2. Len(replies'[c]) = Len(replies[c])
        BY <2>1
      <4> QED BY <1>1, OutstandingMoves, <3>2, <4>1, <4>2
    <3>4. Outstanding(c) < nextCall[c] /\ nextCall[c] <= MaxCalls
      BY <1>1, <1>6, OwnCallsCount DEF Bounded
    <3> QED BY <1>3, <3>1, <3>3, <3>4
  <2> QED BY <2>2, <2>3
<1>7. CASE \E t \in Threads : Find(t) \/ CallShort(t) \/ CallWait(t)
  BY <1>6, <1>7 DEF Find, CallShort, CallWait, MayCall
<1>8. ASSUME NEW t \in Threads, Receive(t)
      PROVE  Outstanding(c)' < nextCall'[c] /\ nextCall'[c] <= MaxCalls + 1
  <2>1. /\ replies[t] # << >> /\ replies' = [replies EXCEPT ![t] = Tail(@)]
        /\ UNCHANGED <<nextCall, requests, at>>
    BY <1>8 DEF Receive, daemonVars
  <2>2. CASE c # t
    <3>1. replies'[c] = replies[c]
      BY <1>4, <2>1, <2>2
    <3> QED BY <2>1, <3>1 DEF Outstanding, WithThread, Bounded
  <2>3. CASE c = t
    <3>1. replies'[c] = Tail(replies[c])
      BY <1>4, <2>1, <2>3
    <3>2. Len(replies'[c]) = Len(replies[c]) - 1
      BY <1>3, <2>1, <2>3, <3>1, HeadTailProperties
    <3>3. Outstanding(c)' <= Outstanding(c)
      BY <1>1, OutstandingMoves, <2>1, <3>2 DEF WithThread
    <3> QED BY <1>1, <2>1, <3>3, FewerUnderWay
  <2> QED BY <2>2, <2>3
<1>9. CASE \E t \in Threads : GivesUp(t) \/ Leaves(t)
  BY <1>5, <1>9 DEF GivesUp, Leaves, socketVars, daemonVars
<1>10. ASSUME NEW t \in Threads, ServeNext(t)
      PROVE  Outstanding(c)' < nextCall'[c] /\ nextCall'[c] <= MaxCalls + 1
  <2>1. /\ at[t] = "idle" /\ requests[t] # << >> /\ nextCall' = nextCall
        /\ requests' = [requests EXCEPT ![t] = Tail(@)]
    BY <1>10 DEF ServeNext, clientVars
  <2>2. \/ /\ replies' = [replies EXCEPT ![t] = Append(@, Head(requests[t]))] /\ at' = at
        \/ /\ at' = [at EXCEPT ![t] = "numbered"] /\ replies' = replies
    BY <1>10 DEF ServeNext, AnswersProbe, Submits, Number, daemonVars
  <2>3. CASE c # t
    <3>1. requests'[c] = requests[c] /\ replies'[c] = replies[c] /\ at'[c] = at[c]
      BY <1>4, <2>1, <2>2, <2>3
    <3> QED BY <2>1, <3>1 DEF Outstanding, WithThread, Bounded
  <2>4. CASE c = t
    <3>1. requests'[c] = Tail(requests[c])
      BY <1>4, <2>1, <2>4
    <3>2. Len(requests'[c]) = Len(requests[c]) - 1
      BY <1>3, <2>1, <2>4, <3>1, HeadTailProperties
    <3>3. \/ at'[c] = "idle" /\ Len(replies'[c]) = Len(replies[c]) + 1
          \/ at'[c] = "numbered" /\ Len(replies'[c]) = Len(replies[c])
      <4> DEFINE first == Head(requests[t])
      <4>1. Len(Append(replies[c], first)) = Len(replies[c]) + 1
        <5> HIDE DEF first
        <5> QED BY <1>3
      <4> QED BY <1>1, <2>1, <2>2, <2>4, <4>1 DEF RemoteTypes, DaemonTypeOK
    <3>4. Outstanding(c)' <= Outstanding(c)
      <4>1. /\ Len(requests[c]) # 0 /\ WithThread(c) = 0
            /\ \/ WithThread(c)' = 0 /\ Len(replies'[c]) = Len(replies[c]) + 1
               \/ WithThread(c)' = 1 /\ Len(replies'[c]) = Len(replies[c])
        BY <1>3, <2>1, <2>4, <3>3, EmptySeq DEF WithThread
      <4> QED BY <1>1, OutstandingMoves, <3>2, <4>1
    <3> QED BY <1>1, <2>1, <3>4, FewerUnderWay
  <2> QED BY <2>3, <2>4
<1>11. ASSUME NEW t \in Threads, WriteReply(t)
       PROVE  Outstanding(c)' < nextCall'[c] /\ nextCall'[c] <= MaxCalls + 1
  <2>1. /\ at[t] = "answered" /\ at' = [at EXCEPT ![t] = "idle"] /\ nextCall' = nextCall
        /\ \/ replies' = [replies EXCEPT ![t] = Append(@, request[t])] /\ requests' = requests
           \/ requests' = [requests EXCEPT ![t] = << >>] /\ replies' = replies
    BY <1>11 DEF WriteReply, Returns, clientVars
  <2>2. CASE c # t
    <3>1. requests'[c] = requests[c] /\ replies'[c] = replies[c] /\ at'[c] = at[c]
      BY <1>4, <2>1, <2>2
    <3> QED BY <2>1, <3>1 DEF Outstanding, WithThread, Bounded
  <2>3. CASE c = t
    <3>1. at'[c] = "idle" /\ at[c] # "idle"
      BY <1>1, <2>1, <2>3 DEF DaemonTypeOK
    <3>2. \/ /\ Len(replies'[c]) = Len(replies[c]) + 1
             /\ Len(requests'[c]) = Len(requests[c])
          \/ /\ Len(replies'[c]) = Len(replies[c])
             /\ Len(requests'[c]) = 0
      <4> DEFINE done == request[t]
      <4>1. Len(Append(replies[c], done)) = Len(replies[c]) + 1
        <5> HIDE DEF done
        <5> QED BY <1>3
      <4> QED BY <1>1, <2>1, <2>3, <4>1, EmptySeq DEF RemoteTypes
    <3>3. Outstanding(c)' <= Outstanding(c)
      <4>1. WithThread(c) = 1 /\ WithThread(c)' = 0
        BY <3>1 DEF WithThread
      <4>2. CASE Len(replies'[c]) = Len(replies[c]) + 1 /\ Len(requests'[c]) = Len(requests[c])
        BY <1>1, OutstandingMoves, <4>1, <4>2
      <4>3. CASE Len(replies'[c]) = Len(replies[c]) /\ Len(requests'[c]) = 0
        BY <1>1, OutstandingMoves, <4>1, <4>3
      <4> QED BY <3>2, <4>2, <4>3
    <3> QED BY <1>1, <2>1, <3>3, FewerUnderWay
  <2> QED BY <2>2, <2>3
<1>12. CASE DaemonRuns
  <2>1. UNCHANGED <<nextCall, requests, replies>> /\ (at'[c] = "idle" <=> at[c] = "idle")
    BY <1>12, DaemonRunsIdle DEF DaemonRuns, clientVars, socketVars
  <2> QED BY <2>1 DEF Outstanding, WithThread, Bounded
<1>13. CASE Tick \/ UNCHANGED remoteVars
  BY <1>5, <1>13 DEF Tick, remoteVars, clientVars, socketVars, daemonVars
<1> QED BY <1>7, <1>8, <1>9, <1>10, <1>11, <1>12, <1>13 DEF RemoteNext

\* Every variable stays within its type, and no socket ever holds more than the
\* calls of its client (daemon_client.py:266-276, 322-373).
THEOREM RemoteTypeCorrect ==
  ASSUME IsFiniteSet(Threads)
  PROVE  RemoteSpec => []RemoteTypeOK
<1>1. RemoteInit => Bounded
  <2> SUFFICES ASSUME RemoteInit, NEW c \in Threads
               PROVE  Outstanding(c) < nextCall[c] /\ nextCall[c] <= MaxCalls + 1
    BY DEF Bounded
  <2>1. requests[c] = << >> /\ replies[c] = << >> /\ at[c] = "idle" /\ nextCall[c] = 1
    BY DEF RemoteInit, DaemonInit
  <2> QED BY <2>1, EmptySeq, RemoteAssumption DEF Outstanding, WithThread
<1>2. RemoteInv /\ RemoteInv' /\ Bounded /\ [RemoteNext]_remoteVars => Bounded'
  BY BoundedKept
<1>3. RemoteInv /\ Bounded => RemoteTypeOK
  <2> SUFFICES ASSUME RemoteInv, Bounded PROVE RemoteTypeOK
    OBVIOUS
  <2>1. RemoteTypes /\ DaemonTypeOK
    BY DEF RemoteInv, DaemonInv
  <2>2. ASSUME NEW c \in Threads
        PROVE  /\ link[c] \in {"none", "open", "closed"}
               /\ call[c].left \in Nat /\ nextCall[c] \in 1..(MaxCalls + 1)
               /\ Len(requests[c]) <= MaxCalls /\ Len(replies[c]) <= MaxCalls
    <3>1. /\ Len(requests[c]) \in Nat /\ Len(replies[c]) \in Nat
          /\ nextCall[c] \in Nat \ {0}
      BY <2>1, LenProperties DEF RemoteTypes
    <3>2. /\ Len(requests[c]) + WithThread(c) + Len(replies[c]) < nextCall[c]
          /\ nextCall[c] <= MaxCalls + 1 /\ WithThread(c) \in {0, 1}
      BY DEF Bounded, Outstanding, WithThread
    <3>3. \A a, b, n, m \in Nat : \A w \in {0, 1} :
            n # 0 /\ a + w + b < n /\ n <= m + 1 => n \in 1..(m + 1) /\ a <= m /\ b <= m
      OBVIOUS
    <3>4. nextCall[c] \in 1..(MaxCalls + 1) /\ Len(requests[c]) <= MaxCalls /\ Len(replies[c]) <= MaxCalls
      BY <3>1, <3>2, <3>3, RemoteAssumption
    <3> QED BY <2>1, <3>4 DEF RemoteTypes
  <2> QED BY <2>1, <2>2 DEF RemoteTypeOK, RemoteTypes
<1> QED BY <1>1, <1>2, <1>3, RemoteInvariantHolds, PTL DEF RemoteSpec
=============================================================================
