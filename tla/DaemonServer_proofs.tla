------------------------ MODULE DaemonServer_proofs ------------------------
(***************************************************************************)
(* What DaemonServer promises for any number of threads and requests: its  *)
(* types, the meaning of the abort event, the order of service, and that   *)
(* it implements RequestDesk.                                              *)
(***************************************************************************)
EXTENDS DaemonServer, TLAPS

\* _heap holds exactly the queued requests; the one popped is in `item`.
QueueShape ==
  /\ \A t \in heap : at[t] = "waiting"
  /\ \A t \in Threads : at[t] = "waiting" => t \in heap \/ t = serving

\* _current_abort_event belongs to the local `item` from pop to reply.
WorkerShape ==
  /\ worker \in {"dispatching", "executed"} => current = serving
  /\ worker \notin {"dispatching", "executed"} => current = NoThread
  /\ worker \in {"dispatching", "executed", "handing"} =>
       serving \in Threads /\ at[serving] = "waiting" /\ serving \notin heap
  /\ worker \notin {"dispatching", "executed", "handing"} => serving = NoThread

\* Only a request that has been dispatched can have its abort event set.
AbortShape == \A t \in aborted : at[t] = "answered" \/ t = serving

\* Items carry the priority of their body and a number already handed out.
ItemShape ==
  \A t \in Threads : at[t] # "idle" =>
    item[t].sequence < counter /\ item[t].priority = Priority(item[t].body)

\* Whoever was ahead of a request is still queued, with a smaller number.
AheadShape ==
  \A t \in Threads : \A u \in ahead[t] :
    /\ u \in heap
    /\ at[t] \in {"numbered", "waiting"} =>
         item[u].priority = item[t].priority /\ item[u].sequence < item[t].sequence

DaemonInv ==
  /\ DaemonTypeOK /\ QueueShape /\ WorkerShape /\ AbortShape /\ ItemShape /\ AheadShape
  /\ AbortedIffEstopWaits /\ ServedInArrivalOrder

\* Before start() nothing is queued and nobody is in submit().
LEMMA InitHolds == DaemonInit => DaemonInv
<1> SUFFICES ASSUME DaemonInit PROVE DaemonInv
  OBVIOUS
<1> USE DEF DaemonInit
<1>1. NoItem \in [body : Bodies \cup {"none"}, priority : {0, 1}, sequence : Nat]
  BY DEF NoItem
<1>2. DaemonTypeOK BY <1>1 DEF DaemonTypeOK
<1>3. QueueShape /\ WorkerShape /\ AbortShape BY DEF QueueShape, WorkerShape, AbortShape
<1>4. ItemShape /\ AheadShape BY DEF ItemShape, AheadShape
<1>5. AbortedIffEstopWaits /\ ServedInArrivalOrder
  BY DEF AbortedIffEstopWaits, ServedInArrivalOrder
<1> QED BY <1>2, <1>3, <1>4, <1>5 DEF DaemonInv

\* A new request's number exceeds every number on the heap.
LEMMA NumberKeeps ==
  ASSUME DaemonInv, NEW t \in Threads, NEW body \in Bodies, Number(t, body)
  PROVE  DaemonInv'
<1> USE DaemonAssumption
<1> DEFINE new == [body |-> body, priority |-> Priority(body), sequence |-> counter]
<1>1. /\ at[t] = "idle" /\ at' = [at EXCEPT ![t] = "numbered"]
      /\ item' = [item EXCEPT ![t] = new] /\ counter' = counter + 1
      /\ ahead' = [ahead EXCEPT ![t] = {u \in heap : item[u].priority = new.priority}]
      /\ UNCHANGED <<heap, current, aborted, worker, serving, stopRequested>>
  BY DEF Number, queueVars, workerVars
<1>2. worker \in {"dispatching", "executed", "handing"} => t # serving
  BY <1>1 DEF DaemonInv, WorkerShape
<1>3. t \notin heap BY <1>1 DEF DaemonInv, QueueShape
<1>4. new \in [body : Bodies \cup {"none"}, priority : {0, 1}, sequence : Nat]
  BY DEF Priority, DaemonInv, DaemonTypeOK
<1>5. DaemonTypeOK' BY <1>1, <1>4 DEF DaemonInv, DaemonTypeOK
<1>6. QueueShape' /\ WorkerShape' /\ AbortShape'
  BY <1>1, <1>2, <1>3 DEF DaemonInv, DaemonTypeOK, QueueShape, WorkerShape, AbortShape
<1>7. ItemShape'
  BY <1>1 DEF DaemonInv, DaemonTypeOK, ItemShape, Priority
<1>8. AheadShape'
  <2> SUFFICES ASSUME NEW x \in Threads, NEW u \in ahead'[x]
      PROVE  /\ u \in heap
             /\ at'[x] \in {"numbered", "waiting"} =>
                  item'[u].priority = item'[x].priority /\ item'[u].sequence < item'[x].sequence
    BY <1>1 DEF AheadShape
  <2>1. CASE x = t
    <3>1. u \in heap /\ item[u].priority = new.priority BY <1>1, <2>1 DEF DaemonInv, DaemonTypeOK
    <3>2. u \in Threads /\ u # t /\ item'[u] = item[u] /\ item'[t] = new
      BY <1>1, <1>3, <3>1 DEF DaemonInv, DaemonTypeOK
    <3>3. item[u].sequence < counter
      BY <3>1, <3>2 DEF DaemonInv, QueueShape, ItemShape
    <3> QED BY <2>1, <3>1, <3>2, <3>3
  <2>2. CASE x # t
    <3>1. ahead'[x] = ahead[x] /\ at'[x] = at[x] /\ item'[x] = item[x]
      BY <1>1, <2>2 DEF DaemonInv, DaemonTypeOK
    <3>2. u \in heap /\ u # t /\ u \in Threads BY <1>3, <3>1 DEF DaemonInv, AheadShape, DaemonTypeOK
    <3>3. item'[u] = item[u] BY <1>1, <3>2 DEF DaemonInv, DaemonTypeOK
    <3> QED BY <3>1, <3>2, <3>3 DEF DaemonInv, AheadShape
  <2> QED BY <2>1, <2>2
<1>9. AbortedIffEstopWaits' /\ ServedInArrivalOrder'
  <2> SUFFICES ASSUME worker = "dispatching"
      PROVE  /\ serving \in aborted => EstopQueued'
             /\ item'[serving].body # "estop" /\ EstopQueued' => serving \in aborted
             /\ ahead'[serving] = {}
    BY <1>1 DEF AbortedIffEstopWaits, ServedInArrivalOrder
  <2>1. serving \in Threads /\ serving # t BY <1>1 DEF DaemonInv, WorkerShape
  <2>2. item'[serving] = item[serving] /\ ahead'[serving] = ahead[serving]
    BY <1>1, <2>1 DEF DaemonInv, DaemonTypeOK
  <2>3. \A u \in heap : item'[u] = item[u]
    BY <1>1, <1>3 DEF DaemonInv, DaemonTypeOK
  <2>4. EstopQueued' <=> EstopQueued BY <1>1, <2>3 DEF EstopQueued
  <2> QED BY <2>2, <2>4 DEF DaemonInv, AbortedIffEstopWaits, ServedInArrivalOrder
<1> QED BY <1>5, <1>6, <1>7, <1>8, <1>9 DEF DaemonInv

\* Pushing an estop tells the request being dispatched; pushing anything else
\* changes nothing for it.
LEMMA PushKeeps ==
  ASSUME DaemonInv, NEW t \in Threads, Push(t)
  PROVE  DaemonInv'
<1> USE DaemonAssumption
<1>1. /\ at[t] = "numbered" /\ at' = [at EXCEPT ![t] = "waiting"]
      /\ heap' = heap \cup {t}
      /\ aborted' = IF item[t].priority = 0 /\ current # NoThread
                      THEN aborted \cup {current} ELSE aborted
      /\ UNCHANGED <<counter, item, current, worker, serving, stopRequested, ahead>>
  BY DEF Push, submitVars, workerVars
<1>2. t \notin heap BY <1>1 DEF DaemonInv, QueueShape
<1>3. worker \in {"dispatching", "executed", "handing"} => t # serving
  BY <1>1 DEF DaemonInv, WorkerShape
<1>4. current # NoThread =>
        worker \in {"dispatching", "executed"} /\ current = serving /\ current \in Threads
  BY DEF DaemonInv, WorkerShape
<1>5. DaemonTypeOK' BY <1>1, <1>4 DEF DaemonInv, DaemonTypeOK
<1>6. QueueShape' BY <1>1 DEF DaemonInv, DaemonTypeOK, QueueShape
<1>7. WorkerShape' BY <1>1, <1>3 DEF DaemonInv, DaemonTypeOK, WorkerShape
<1>8. AbortShape' BY <1>1, <1>4 DEF DaemonInv, DaemonTypeOK, AbortShape
<1>9. ItemShape' BY <1>1 DEF DaemonInv, DaemonTypeOK, ItemShape
<1>10. AheadShape' BY <1>1 DEF DaemonInv, DaemonTypeOK, AheadShape
<1>11. AbortedIffEstopWaits'
  <2> SUFFICES ASSUME worker = "dispatching"
      PROVE  /\ serving \in aborted' => EstopQueued'
             /\ item[serving].body # "estop" /\ EstopQueued' => serving \in aborted'
    BY <1>1 DEF AbortedIffEstopWaits
  <2>1. current = serving /\ current # NoThread BY DEF DaemonInv, WorkerShape
  <2>2. item[t].priority = 0 <=> item[t].body = "estop"
    BY <1>1 DEF DaemonInv, ItemShape, Priority
  <2>3. EstopQueued' <=> EstopQueued \/ item[t].body = "estop" BY <1>1 DEF EstopQueued
  <2>4. CASE item[t].body = "estop" BY <1>1, <2>1, <2>2, <2>3, <2>4
  <2>5. CASE item[t].body # "estop"
    BY <1>1, <2>2, <2>3, <2>5 DEF DaemonInv, AbortedIffEstopWaits
  <2> QED BY <2>4, <2>5
<1>12. ServedInArrivalOrder' BY <1>1 DEF DaemonInv, ServedInArrivalOrder
<1> QED BY <1>5, <1>6, <1>7, <1>8, <1>9, <1>10, <1>11, <1>12 DEF DaemonInv

\* A thread that returns has nothing queued and is not being served.
LEMMA ReturnsKeeps ==
  ASSUME DaemonInv, NEW t \in Threads, Returns(t)
  PROVE  DaemonInv'
<1> USE DaemonAssumption
<1>1. /\ at[t] = "answered" /\ at' = [at EXCEPT ![t] = "idle"]
      /\ item' = [item EXCEPT ![t] = NoItem] /\ aborted' = aborted \ {t}
      /\ UNCHANGED <<counter, heap, current, worker, serving, stopRequested, ahead>>
  BY DEF Returns, workerVars
<1>2. t \notin heap BY <1>1 DEF DaemonInv, QueueShape
<1>3. worker \in {"dispatching", "executed", "handing"} => t # serving
  BY <1>1 DEF DaemonInv, WorkerShape
<1>4. \A u \in Threads : u # t => item'[u] = item[u] /\ at'[u] = at[u]
  BY <1>1 DEF DaemonInv, DaemonTypeOK
<1>5. DaemonTypeOK' BY <1>1 DEF DaemonInv, DaemonTypeOK, NoItem
<1>6. QueueShape' /\ WorkerShape' /\ AbortShape'
  BY <1>1, <1>2, <1>3 DEF DaemonInv, DaemonTypeOK, QueueShape, WorkerShape, AbortShape
<1>7. ItemShape' BY <1>1, <1>4 DEF DaemonInv, DaemonTypeOK, ItemShape
<1>8. AheadShape'
  <2> SUFFICES ASSUME NEW x \in Threads, NEW u \in ahead[x]
      PROVE  /\ u \in heap
             /\ at'[x] \in {"numbered", "waiting"} =>
                  item'[u].priority = item'[x].priority /\ item'[u].sequence < item'[x].sequence
    BY <1>1 DEF AheadShape
  <2>1. u \in heap /\ u \in Threads /\ u # t BY <1>2 DEF DaemonInv, AheadShape, DaemonTypeOK
  <2>2. at'[x] \in {"numbered", "waiting"} => x # t BY <1>1 DEF DaemonInv, DaemonTypeOK
  <2> QED BY <1>4, <2>1, <2>2 DEF DaemonInv, AheadShape
<1>9. AbortedIffEstopWaits' /\ ServedInArrivalOrder'
  <2> SUFFICES ASSUME worker = "dispatching"
      PROVE  /\ serving \in aborted' => EstopQueued'
             /\ item'[serving].body # "estop" /\ EstopQueued' => serving \in aborted'
             /\ ahead[serving] = {}
    BY <1>1 DEF AbortedIffEstopWaits, ServedInArrivalOrder
  <2>1. serving # t /\ item'[serving] = item[serving]
    BY <1>3, <1>4 DEF DaemonInv, WorkerShape
  <2>2. EstopQueued' <=> EstopQueued
    BY <1>1, <1>2, <1>4 DEF EstopQueued, DaemonInv, DaemonTypeOK
  <2> QED BY <1>1, <2>1, <2>2 DEF DaemonInv, AbortedIffEstopWaits, ServedInArrivalOrder
<1> QED BY <1>5, <1>6, <1>7, <1>8, <1>9 DEF DaemonInv

\* The request taken is the first: no estop stays behind an ordinary request,
\* and none of its class that was ahead of it stays behind it.
LEMMA PopKeeps ==
  ASSUME DaemonInv, Pop
  PROVE  DaemonInv'
<1> USE DaemonAssumption
<1>1. worker = "idle" /\ worker' = "dispatching"
  BY DEF Pop
<1>2. PICK t \in heap :
        /\ First(t) /\ heap' = heap \ {t} /\ current' = t /\ serving' = t
        /\ ahead' = [u \in Threads |-> ahead[u] \ {t}]
  BY DEF Pop
<1>3. UNCHANGED <<counter, item, at, aborted, stopRequested>> BY DEF Pop, submitVars
<1>4. t \in Threads /\ at[t] = "waiting" /\ current = NoThread /\ serving = NoThread
  BY <1>1, <1>2 DEF DaemonInv, DaemonTypeOK, QueueShape, WorkerShape
<1>5. t \notin aborted BY <1>4 DEF DaemonInv, AbortShape
<1>6. DaemonTypeOK' BY <1>1, <1>2, <1>3, <1>4 DEF DaemonInv, DaemonTypeOK
<1>7. QueueShape' /\ WorkerShape' /\ AbortShape' /\ ItemShape'
  BY <1>1, <1>2, <1>3, <1>4
  DEF DaemonInv, DaemonTypeOK, QueueShape, WorkerShape, AbortShape, ItemShape
<1>8. AheadShape' BY <1>1, <1>2, <1>3 DEF DaemonInv, DaemonTypeOK, AheadShape
<1>9. AbortedIffEstopWaits'
  <2>1. item[t].body # "estop" => ~EstopQueued'
    <3> SUFFICES ASSUME item[t].body # "estop", NEW u \in heap \ {t}, item[u].body = "estop"
        PROVE  FALSE
      BY <1>2, <1>3 DEF EstopQueued
    <3>1. u \in Threads /\ at[u] = "waiting" BY DEF DaemonInv, DaemonTypeOK, QueueShape
    <3>2. item[u].priority = 0 /\ item[t].priority = 1
      BY <1>4, <3>1 DEF DaemonInv, ItemShape, Priority
    <3> QED BY <1>2, <3>2 DEF First, Before
  <2> QED BY <1>1, <1>2, <1>3, <1>5, <2>1 DEF AbortedIffEstopWaits
<1>10. ServedInArrivalOrder'
  <2> SUFFICES ASSUME NEW u \in ahead[t] \ {t} PROVE FALSE
    BY <1>2, <1>4 DEF ServedInArrivalOrder
  <2>1. /\ u \in heap /\ item[u].priority = item[t].priority
        /\ item[u].sequence < item[t].sequence
    BY <1>4 DEF DaemonInv, AheadShape
  <2>2. item[t].sequence \in Nat /\ item[u].sequence \in Nat /\ item[t].priority \in {0, 1}
    BY <1>4, <2>1 DEF DaemonInv, DaemonTypeOK
  <2> QED BY <1>2, <2>1, <2>2 DEF First, Before
<1> QED BY <1>6, <1>7, <1>8, <1>9, <1>10 DEF DaemonInv

\* The rest of the worker's steps, start() and stop() only move the worker on.
LEMMA WorkerStepKeeps ==
  ASSUME DaemonInv, Start \/ Stop \/ Exit \/ ShortBodyEnds \/ WaitEnds \/ WaitYields
                      \/ ClearCurrent \/ HandBack
  PROVE  DaemonInv'
<1> USE DaemonAssumption
<1>1. ASSUME ShortBodyEnds \/ WaitEnds \/ WaitYields PROVE DaemonInv'
  <2>1. worker = "dispatching" /\ worker' = "executed"
        /\ UNCHANGED <<counter, item, at, heap, current, aborted, serving, stopRequested, ahead>>
    BY <1>1 DEF ShortBodyEnds, WaitEnds, WaitYields, Executed, Dispatching, submitVars, queueVars
  <2> QED BY <2>1
      DEF DaemonInv, DaemonTypeOK, QueueShape, WorkerShape, AbortShape, ItemShape, AheadShape,
          AbortedIffEstopWaits, ServedInArrivalOrder
<1>2. ASSUME Start \/ Exit PROVE DaemonInv'
  <2>1. worker \in {"none", "idle"} /\ worker' \in {"idle", "exited"}
        /\ UNCHANGED <<counter, item, at, heap, current, aborted, serving, stopRequested, ahead>>
    BY <1>2 DEF Start, Exit, submitVars, queueVars
  <2> QED BY <2>1
      DEF DaemonInv, DaemonTypeOK, QueueShape, WorkerShape, AbortShape, ItemShape, AheadShape,
          AbortedIffEstopWaits, ServedInArrivalOrder
<1>3. ASSUME Stop PROVE DaemonInv'
  BY <1>3
  DEF Stop, submitVars, queueVars, DaemonInv, DaemonTypeOK, QueueShape, WorkerShape, AbortShape,
      ItemShape, AheadShape, AbortedIffEstopWaits, ServedInArrivalOrder, EstopQueued
<1>4. ASSUME ClearCurrent PROVE DaemonInv'
  BY <1>4
  DEF ClearCurrent, submitVars, DaemonInv, DaemonTypeOK, QueueShape, WorkerShape, AbortShape,
      ItemShape, AheadShape, AbortedIffEstopWaits, ServedInArrivalOrder
<1>5. ASSUME HandBack PROVE DaemonInv'
  <2>1. /\ worker = "handing" /\ worker' = "idle" /\ serving' = NoThread
        /\ at' = [at EXCEPT ![serving] = "answered"]
        /\ UNCHANGED <<counter, item, heap, current, aborted, stopRequested, ahead>>
    BY <1>5 DEF HandBack, submitVars, queueVars
  <2>2. serving \in Threads /\ at[serving] = "waiting" /\ serving \notin heap /\ current = NoThread
    BY <2>1 DEF DaemonInv, WorkerShape
  <2> QED BY <2>1, <2>2
      DEF DaemonInv, DaemonTypeOK, QueueShape, WorkerShape, AbortShape, ItemShape, AheadShape,
          AbortedIffEstopWaits, ServedInArrivalOrder
<1> QED BY <1>1, <1>2, <1>3, <1>4, <1>5

\* Every step of the daemon keeps the inductive invariant.
LEMMA DaemonInvariantKept ==
  ASSUME DaemonInv, [DaemonNext]_daemonVars
  PROVE  DaemonInv'
<1>1. CASE UNCHANGED daemonVars
  BY <1>1
  DEF daemonVars, submitVars, queueVars, workerVars, DaemonInv, DaemonTypeOK, QueueShape,
      WorkerShape, AbortShape, ItemShape, AheadShape, AbortedIffEstopWaits,
      ServedInArrivalOrder, EstopQueued
<1>2. CASE \E t \in Threads : \E body \in Bodies : Number(t, body) BY <1>2, NumberKeeps
<1>3. CASE \E t \in Threads : Push(t) BY <1>3, PushKeeps
<1>4. CASE \E t \in Threads : Returns(t) BY <1>4, ReturnsKeeps
<1>5. CASE Pop BY <1>5, PopKeeps
<1>6. CASE Start \/ Stop \/ Exit \/ ShortBodyEnds \/ WaitEnds \/ WaitYields
             \/ ClearCurrent \/ HandBack
  BY <1>6, WorkerStepKeeps
<1> QED BY <1>1, <1>2, <1>3, <1>4, <1>5, <1>6 DEF DaemonNext, WorkerRuns

\* The inductive invariant holds of every reachable state of the daemon.
THEOREM DaemonInvariantHolds == DaemonSpec => []DaemonInv
<1>1. DaemonInit => DaemonInv BY InitHolds
<1>2. DaemonInv /\ [DaemonNext]_daemonVars => DaemonInv' BY DaemonInvariantKept
<1> QED BY <1>1, <1>2, PTL DEF DaemonSpec

\* Every variable keeps its type.
THEOREM DaemonTypeCorrect == DaemonSpec => []DaemonTypeOK
<1>1. DaemonInv => DaemonTypeOK BY DEF DaemonInv
<1> QED BY <1>1, DaemonInvariantHolds, PTL

\* However many threads call submit(), the request being dispatched has been
\* told to give way if and only if an estop is queued (daemon.py:395-452).
THEOREM AbortMeansEstop == DaemonSpec => []AbortedIffEstopWaits
<1>1. DaemonInv => AbortedIffEstopWaits BY DEF DaemonInv
<1> QED BY <1>1, DaemonInvariantHolds, PTL

\* Within a class, requests whose submit() calls do not overlap are served in
\* the order of the calls (daemon.py:259-272, 423-432).
THEOREM ServiceIsInOrder == DaemonSpec => []ServedInArrivalOrder
<1>1. DaemonInv => ServedInArrivalOrder BY DEF DaemonInv
<1> QED BY <1>1, DaemonInvariantHolds, PTL

(***************************************************************************)
(* DaemonServer implements RequestDesk.                                    *)
(*                                                                         *)
(* Number asks, Push enters, Pop serves, the end of the body finishes,     *)
(* HandBack answers, Returns leaves and Exit closes the desk; what start(), *)
(* stop() and the clearing of _current_abort_event do is not seen there.   *)
(***************************************************************************)

\* The queue of the desk is the heap, and at the desk is whom the worker holds.
LEMMA DeskIsTheWorker ==
  ASSUME DaemonInv
  PROVE  /\ Desk!Queued = heap
         /\ Desk!Served = IF worker = "dispatching" THEN {serving} ELSE {}
         /\ Desk!AtDesk = {t \in Threads : t = serving}
<1> USE DaemonAssumption DEF StageOf
<1>1. /\ \A t \in Threads : at[t] \in {"idle", "numbered", "waiting", "answered"}
      /\ heap \subseteq Threads /\ serving \notin heap
      /\ worker = "dispatching" => serving \in Threads
  BY DEF DaemonInv, DaemonTypeOK, WorkerShape
<1>2. Desk!Queued = heap BY <1>1 DEF Desk!Queued
<1>3. Desk!Served = IF worker = "dispatching" THEN {serving} ELSE {} BY <1>1 DEF Desk!Served
<1>4. Desk!AtDesk = {t \in Threads : t = serving} BY <1>1 DEF Desk!AtDesk
<1> QED BY <1>2, <1>3, <1>4

\* A thread's own step moves its own request only.
LEMMA StageMoves ==
  ASSUME NEW t \in Threads, NEW from, NEW to,
         StageOf(t) = from, StageOf(t)' = to,
         \A u \in Threads \ {t} : StageOf(u)' = StageOf(u)
  PROVE  Desk!Moves(t, from, to)
BY DEF Desk!Moves

\* A number is drawn: the request asks behind those of its class on the heap.
LEMMA NumberAsks ==
  ASSUME DaemonInv, NEW t \in Threads, NEW body \in Bodies, Number(t, body)
  PROVE  Desk!Ask(t, body)
<1> USE DaemonAssumption
<1> DEFINE new == [body |-> body, priority |-> Priority(body), sequence |-> counter]
<1>1. /\ at[t] = "idle" /\ at' = [at EXCEPT ![t] = "numbered"]
      /\ item' = [item EXCEPT ![t] = new]
      /\ ahead' = [ahead EXCEPT ![t] = {u \in heap : item[u].priority = Priority(body)}]
      /\ UNCHANGED <<heap, current, aborted, worker, serving, stopRequested>>
  BY DEF Number, queueVars, workerVars
<1>2. t \notin heap /\ t # serving
  BY <1>1 DEF DaemonInv, QueueShape, WorkerShape
<1>3. /\ at \in [Threads -> {"idle", "numbered", "waiting", "answered"}]
      /\ ahead \in [Threads -> SUBSET Threads]
      /\ item \in [Threads -> [body : Bodies \cup {"none"}, priority : {0, 1}, sequence : Nat]]
      /\ heap \subseteq Threads
  BY DEF DaemonInv, DaemonTypeOK
<1>4. Desk!Moves(t, "idle", "asked")
  <2>1. StageOf(t) = "idle" /\ StageOf(t)' = "asked" BY <1>1, <1>2, <1>3 DEF StageOf
  <2>2. \A u \in Threads \ {t} : StageOf(u)' = StageOf(u) BY <1>1, <1>3 DEF StageOf
  <2> QED BY <2>1, <2>2, StageMoves
<1>5. [u \in Threads |-> item'[u].body] = [[u \in Threads |-> item[u].body] EXCEPT ![t] = body]
  BY <1>1, <1>3
<1>6. Desk!Equals(body) = {u \in heap : item[u].priority = Priority(body)}
  <2>1. \A u \in heap : item[u].priority = Priority(item[u].body)
    BY <1>3 DEF DaemonInv, QueueShape, ItemShape
  <2> QED BY <1>3, <2>1, DeskIsTheWorker DEF Desk!Equals, Desk!Urgent, Priority
<1>7. UNCHANGED <<worker = "dispatching" /\ serving \in aborted, worker = "exited">> BY <1>1
<1> QED BY <1>1, <1>4, <1>5, <1>6, <1>7 DEF Desk!Ask

\* The request enters the queue; an estop tells the one being served.
LEMMA PushEnters ==
  ASSUME DaemonInv, NEW t \in Threads, Push(t)
  PROVE  Desk!Enter(t)
<1> USE DaemonAssumption
<1>1. /\ at[t] = "numbered" /\ at' = [at EXCEPT ![t] = "waiting"]
      /\ heap' = heap \cup {t}
      /\ aborted' = IF item[t].priority = 0 /\ current # NoThread
                      THEN aborted \cup {current} ELSE aborted
      /\ UNCHANGED <<counter, item, current, worker, serving, stopRequested, ahead>>
  BY DEF Push, submitVars, workerVars
<1>2. t \notin heap /\ t # serving
  BY <1>1 DEF DaemonInv, QueueShape, WorkerShape
<1>3. at \in [Threads -> {"idle", "numbered", "waiting", "answered"}]
  BY DEF DaemonInv, DaemonTypeOK
<1>4. Desk!Moves(t, "asked", "queued")
  <2>1. StageOf(t) = "asked" /\ StageOf(t)' = "queued" BY <1>1, <1>2, <1>3 DEF StageOf
  <2>2. \A u \in Threads \ {t} : StageOf(u)' = StageOf(u) BY <1>1, <1>3 DEF StageOf
  <2> QED BY <2>1, <2>2, StageMoves
<1>5. (worker = "dispatching" /\ serving \in aborted)'
        <=> \/ worker = "dispatching" /\ serving \in aborted
            \/ item[t].body = "estop" /\ Desk!Served # {}
  <2>1. item[t].priority = 0 <=> item[t].body = "estop"
    BY <1>1 DEF DaemonInv, ItemShape, Priority
  <2>2. worker = "dispatching" => current = serving /\ current # NoThread
    BY DEF DaemonInv, WorkerShape
  <2>3. Desk!Served # {} <=> worker = "dispatching" BY DeskIsTheWorker
  <2>4. CASE worker = "dispatching" BY <1>1, <2>1, <2>2, <2>3, <2>4
  <2>5. CASE worker # "dispatching" BY <1>1, <2>3, <2>5
  <2> QED BY <2>4, <2>5
<1> QED BY <1>1, <1>4, <1>5 DEF Desk!Enter, Desk!Urgent

\* The first of the heap is served: no estop waits behind an ordinary request,
\* and nobody it must not overtake is still queued.
LEMMA PopServes ==
  ASSUME DaemonInv, Pop
  PROVE  \E t \in Threads : Desk!Serve(t)
<1> USE DaemonAssumption
<1>1. worker = "idle" /\ worker' = "dispatching"
      /\ UNCHANGED <<counter, item, at, aborted, stopRequested>>
  BY DEF Pop, submitVars
<1>2. PICK t \in heap :
        /\ First(t) /\ heap' = heap \ {t} /\ current' = t /\ serving' = t
        /\ ahead' = [u \in Threads |-> ahead[u] \ {t}]
  BY DEF Pop
<1>3. /\ t \in Threads /\ at[t] = "waiting" /\ serving = NoThread
      /\ at \in [Threads -> {"idle", "numbered", "waiting", "answered"}]
      /\ heap \subseteq Threads
  BY <1>1, <1>2 DEF DaemonInv, DaemonTypeOK, QueueShape, WorkerShape
<1>4. t \notin aborted BY <1>3 DEF DaemonInv, AbortShape
<1>5. Desk!AtDesk = {} BY <1>3, DeskIsTheWorker
<1>6. Desk!Moves(t, "queued", "served")
  <2>1. StageOf(t) = "queued" /\ StageOf(t)' = "served" BY <1>1, <1>2, <1>3 DEF StageOf
  <2>2. \A u \in Threads \ {t} : StageOf(u)' = StageOf(u) BY <1>1, <1>2, <1>3 DEF StageOf
  <2> QED BY <1>3, <2>1, <2>2, StageMoves
<1>7. ASSUME item[t].body # "estop", NEW u \in heap PROVE item[u].body # "estop"
  <2> SUFFICES ASSUME u # t, item[u].body = "estop" PROVE FALSE
    BY <1>7
  <2>1. u \in Threads /\ at[u] = "waiting" BY <1>3 DEF DaemonInv, QueueShape
  <2>2. item[u].priority = 0 /\ item[t].priority = 1
    BY <1>3, <1>7, <2>1 DEF DaemonInv, ItemShape, Priority
  <2> QED BY <1>2, <2>2 DEF First, Before
<1>8. ahead[t] = {}
  <2> SUFFICES ASSUME NEW u \in ahead[t] PROVE FALSE
    OBVIOUS
  <2>1. /\ u \in heap /\ item[u].priority = item[t].priority
        /\ item[u].sequence < item[t].sequence
    BY <1>3 DEF DaemonInv, AheadShape
  <2>2. item[t].sequence \in Nat /\ item[u].sequence \in Nat /\ item[t].priority \in {0, 1}
    BY <1>3, <2>1 DEF DaemonInv, DaemonTypeOK
  <2> QED BY <1>2, <2>1, <2>2 DEF First, Before
<1>9. ~Desk!Urgent(item[t].body) => \A u \in Desk!Queued : ~Desk!Urgent(item[u].body)
  BY <1>7, DeskIsTheWorker DEF Desk!Urgent
<1>10. /\ worker # "exited" /\ worker' # "exited"
       /\ ~(worker = "dispatching" /\ serving \in aborted)'
  BY <1>1, <1>2, <1>4
<1>11. Desk!Queued \subseteq Threads BY <1>3, DeskIsTheWorker
<1>12. Desk!Serve(t) BY <1>1, <1>2, <1>3, <1>5, <1>6, <1>8, <1>9, <1>10, <1>11 DEF Desk!Serve
<1> QED BY <1>3, <1>12

\* The body is over, whoever ended it, and its abort event means nothing any more.
LEMMA BodyFinishes ==
  ASSUME DaemonInv, ShortBodyEnds \/ WaitEnds \/ WaitYields
  PROVE  \E t \in Threads : Desk!Finish(t)
<1>1. worker = "dispatching" /\ worker' = "executed"
      /\ UNCHANGED <<counter, item, at, heap, current, aborted, serving, stopRequested, ahead>>
  BY DEF ShortBodyEnds, WaitEnds, WaitYields, Executed, Dispatching, submitVars, queueVars
<1>2. PICK t \in Threads : t = serving BY <1>1 DEF DaemonInv, WorkerShape
<1>3. Desk!Moves(t, "served", "over")
  <2>1. StageOf(t) = "served" /\ StageOf(t)' = "over" BY <1>1, <1>2 DEF StageOf
  <2>2. \A u \in Threads \ {t} : StageOf(u)' = StageOf(u) BY <1>1, <1>2 DEF StageOf
  <2> QED BY <1>2, <2>1, <2>2, StageMoves
<1>4. Desk!Finish(t) BY <1>1, <1>3 DEF Desk!Finish
<1> QED BY <1>2, <1>4

\* The reply is handed to the one who was served.
LEMMA HandBackAnswers ==
  ASSUME DaemonInv, HandBack
  PROVE  \E t \in Threads : Desk!Answer(t)
<1> USE DaemonAssumption
<1>1. /\ worker = "handing" /\ worker' = "idle" /\ serving' = NoThread
      /\ at' = [at EXCEPT ![serving] = "answered"]
      /\ UNCHANGED <<counter, item, heap, current, aborted, stopRequested, ahead>>
  BY DEF HandBack, submitVars, queueVars
<1>2. PICK t \in Threads : t = serving /\ t \notin heap
  BY <1>1 DEF DaemonInv, WorkerShape
<1>3. at \in [Threads -> {"idle", "numbered", "waiting", "answered"}]
  BY DEF DaemonInv, DaemonTypeOK
<1>4. Desk!Moves(t, "over", "answered")
  <2>1. StageOf(t) = "over" /\ StageOf(t)' = "answered"
    BY <1>1, <1>2, <1>3 DEF StageOf
  <2>2. \A u \in Threads \ {t} : StageOf(u)' = StageOf(u) BY <1>1, <1>2, <1>3 DEF StageOf
  <2> QED BY <1>2, <2>1, <2>2, StageMoves
<1>5. Desk!Answer(t) BY <1>1, <1>4 DEF Desk!Answer
<1> QED BY <1>2, <1>5

\* submit() returns, and its thread may ask again.
LEMMA ReturnsLeaves ==
  ASSUME DaemonInv, NEW t \in Threads, Returns(t)
  PROVE  Desk!Leave(t)
<1> USE DaemonAssumption
<1>1. /\ at[t] = "answered" /\ at' = [at EXCEPT ![t] = "idle"]
      /\ item' = [item EXCEPT ![t] = NoItem] /\ aborted' = aborted \ {t}
      /\ UNCHANGED <<counter, heap, current, worker, serving, stopRequested, ahead>>
  BY DEF Returns, workerVars
<1>2. t \notin heap /\ t # serving
  BY <1>1 DEF DaemonInv, QueueShape, WorkerShape
<1>3. /\ at \in [Threads -> {"idle", "numbered", "waiting", "answered"}]
      /\ item \in [Threads -> [body : Bodies \cup {"none"}, priority : {0, 1}, sequence : Nat]]
  BY DEF DaemonInv, DaemonTypeOK
<1>4. Desk!Moves(t, "answered", "idle")
  <2>1. StageOf(t) = "answered" /\ StageOf(t)' = "idle" BY <1>1, <1>2, <1>3 DEF StageOf
  <2>2. \A u \in Threads \ {t} : StageOf(u)' = StageOf(u) BY <1>1, <1>3 DEF StageOf
  <2> QED BY <2>1, <2>2, StageMoves
<1>5. [u \in Threads |-> item'[u].body] = [[u \in Threads |-> item[u].body] EXCEPT ![t] = "none"]
  BY <1>1, <1>3 DEF NoItem
<1>6. UNCHANGED <<worker = "dispatching" /\ serving \in aborted, worker = "exited">>
  BY <1>1, <1>2
<1> QED BY <1>1, <1>4, <1>5, <1>6 DEF Desk!Leave

\* The worker ends only when nobody is queued.
LEMMA ExitCloses ==
  ASSUME DaemonInv, Exit
  PROVE  Desk!Close
<1>1. /\ worker = "idle" /\ heap = {} /\ worker' = "exited"
      /\ UNCHANGED <<counter, item, at, heap, current, aborted, serving, stopRequested, ahead>>
  BY DEF Exit, submitVars, queueVars
<1>2. serving = NoThread BY <1>1 DEF DaemonInv, WorkerShape
<1>3. Desk!Queued = {} /\ Desk!AtDesk = {} BY <1>1, <1>2, DeskIsTheWorker, DaemonAssumption
<1>4. [t \in Threads |-> StageOf(t)]' = [t \in Threads |-> StageOf(t)]
  <2>1. \A t \in Threads : StageOf(t)' = StageOf(t) BY <1>1, <1>2, DaemonAssumption DEF StageOf
  <2> QED BY <2>1
<1> QED BY <1>1, <1>3, <1>4 DEF Desk!Close

\* start(), stop() and the clearing of _current_abort_event change nothing a
\* client could tell.
LEMMA UnseenAtTheDesk ==
  ASSUME DaemonInv, Start \/ Stop \/ ClearCurrent \/ UNCHANGED daemonVars
  PROVE  UNCHANGED Desk!vars
<1>1. /\ UNCHANGED <<item, at, heap, aborted, serving, ahead>>
      /\ (worker' = "dispatching") <=> (worker = "dispatching")
      /\ (worker' = "exited") <=> (worker = "exited")
  BY DEF Start, Stop, ClearCurrent, daemonVars, submitVars, queueVars, workerVars
<1>2. [t \in Threads |-> StageOf(t)]' = [t \in Threads |-> StageOf(t)]
  <2>1. \A t \in Threads : StageOf(t)' = StageOf(t) BY <1>1 DEF StageOf
  <2> QED BY <2>1
<1> QED BY <1>1, <1>2 DEF Desk!vars

\* However many threads call submit(), the daemon serves its clients as RequestDesk
\* says: one at a time and each once, an estop before everything else and told at
\* once to the one being served, equals in the order they came, and nobody left in
\* the queue when the worker ends (daemon.py:259-272, 374-459).
THEOREM DaemonIsTheDesk == DaemonSpec => ImplementsRequestDesk
<1>1. DaemonInit => Desk!Init
  BY DaemonAssumption DEF DaemonInit, NoItem, StageOf, Desk!Init
<1>2. DaemonInv /\ [DaemonNext]_daemonVars => [Desk!Next]_(Desk!vars)
  <2> SUFFICES ASSUME DaemonInv, [DaemonNext]_daemonVars
      PROVE  Desk!Next \/ UNCHANGED Desk!vars
    OBVIOUS
  <2>1. CASE \E t \in Threads : \E body \in Bodies : Number(t, body)
    BY <2>1, NumberAsks DEF Desk!Next
  <2>2. CASE \E t \in Threads : Push(t) BY <2>2, PushEnters DEF Desk!Next
  <2>3. CASE \E t \in Threads : Returns(t) BY <2>3, ReturnsLeaves DEF Desk!Next
  <2>4. CASE Pop BY <2>4, PopServes DEF Desk!Next
  <2>5. CASE ShortBodyEnds \/ WaitEnds \/ WaitYields BY <2>5, BodyFinishes DEF Desk!Next
  <2>6. CASE HandBack BY <2>6, HandBackAnswers DEF Desk!Next
  <2>7. CASE Exit BY <2>7, ExitCloses DEF Desk!Next
  <2>8. CASE Start \/ Stop \/ ClearCurrent \/ UNCHANGED daemonVars
    BY <2>8, UnseenAtTheDesk
  <2> QED BY <2>1, <2>2, <2>3, <2>4, <2>5, <2>6, <2>7, <2>8 DEF DaemonNext, WorkerRuns
<1> QED
  BY <1>1, <1>2, DaemonInvariantHolds, PTL DEF DaemonSpec, ImplementsRequestDesk, Desk!Spec
=============================================================================
