---------------------------- MODULE DaemonServer ----------------------------
(***************************************************************************)
(* rogo's daemon core, host/rogo/daemon.py: any number of threads hand     *)
(* requests to one DaemonServer, and its one worker thread, the only one   *)
(* that touches the robot's Session, dispatches them in the order of       *)
(* (priority, sequence).  An estop-class request goes first and sets the   *)
(* abort event of whatever the worker is dispatching.                      *)
(*                                                                         *)
(* A thread is its own request's name: submit() blocks it until the reply  *)
(* is there, so it has at most one.  The dispatch bodies are those of      *)
(* daemon_client.build_session_dispatch_table():                           *)
(*   "estop"  session_send_unsequenced carrying ESTOP;                     *)
(*   "quick"  a send, pump or highest_acked: short, and deaf to abort;     *)
(*   "wait"   wait_for_ack or wait_for_done: as long as its caller's       *)
(*            timeout, which may be None; looks at abort every 0.1 s.      *)
(***************************************************************************)
EXTENDS Naturals, FiniteSets

CONSTANTS Threads,      \* the threads that call submit()
          Bodies,       \* the kinds of request they make
          MaxRequests,  \* bound: requests submitted
          NoThread

ASSUME DaemonAssumption ==
  /\ Bodies \subseteq {"estop", "quick", "wait"}
  /\ MaxRequests \in Nat /\ NoThread \notin Threads

VARIABLES
  counter,        \* _sequence_counter
  at,             \* where each thread is in submit()
  item,           \* the thread's _QueueItem
  heap,           \* threads whose item is on _heap
  current,        \* the thread whose abort event is _current_abort_event
  aborted,        \* threads whose item's abort event is set
  worker,         \* where _run_worker() is
  serving,        \* its local variable `item`
  stopRequested,
  ahead           \* history: like requests queued when the thread's submit() began

submitVars == <<counter, item>>
queueVars  == <<heap, current, aborted>>
workerVars == <<worker, serving, stopRequested>>
daemonVars == <<submitVars, at, queueVars, workerVars, ahead>>

\* Mutant of Priority: is_estop looks at the request's own verb, and every
\* request of a session proxy is a session_* call.
PriorityByVerb(body) == IF body = "halt" THEN 0 ELSE 1

\* is_estop_request() recognises the ESTOP inside the call.
Priority(body) == IF body = "estop" THEN 0 ELSE 1

NoItem == [body |-> "none", priority |-> 1, sequence |-> 0]

DaemonInit ==
  /\ counter = 0 /\ at = [t \in Threads |-> "idle"]
  /\ item = [t \in Threads |-> NoItem]
  /\ heap = {} /\ current = NoThread /\ aborted = {}
  /\ worker = "none" /\ serving = NoThread /\ stopRequested = FALSE
  /\ ahead = [t \in Threads |-> {}]

(***************************************************************************)
(* start(), stop(), submit()                                               *)
(***************************************************************************)
Start ==
  /\ worker = "none" /\ worker' = "idle"
  /\ UNCHANGED <<submitVars, at, queueVars, serving, stopRequested, ahead>>

Stop ==
  /\ ~stopRequested /\ stopRequested' = TRUE
  /\ UNCHANGED <<submitVars, at, queueVars, worker, serving, ahead>>

\* The item is built, sequence number and all, before the lock is taken.
Number(t, body) ==
  /\ at[t] = "idle" /\ worker # "none" /\ counter < MaxRequests
  /\ at' = [at EXCEPT ![t] = "numbered"]
  /\ item' = [item EXCEPT ![t] = [body |-> body, priority |-> Priority(body),
                                  sequence |-> counter]]
  /\ counter' = counter + 1
  /\ ahead' = [ahead EXCEPT ![t] = {u \in heap : item[u].priority = Priority(body)}]
  /\ UNCHANGED <<queueVars, workerVars>>

\* Mutant of Push: it forgets that nothing may be running.
PushUnchecked(t) ==
  /\ at[t] = "numbered"
  /\ at' = [at EXCEPT ![t] = "waiting"]
  /\ heap' = heap \cup {t}
  /\ aborted' = IF item[t].priority = 0 THEN aborted \cup {current} ELSE aborted
  /\ UNCHANGED <<submitVars, current, workerVars, ahead>>

\* Under the lock; an estop aborts whatever is being dispatched, even another
\* estop.
Push(t) ==
  /\ at[t] = "numbered"
  /\ at' = [at EXCEPT ![t] = "waiting"]
  /\ heap' = heap \cup {t}
  /\ aborted' = IF item[t].priority = 0 /\ current # NoThread
                  THEN aborted \cup {current} ELSE aborted
  /\ UNCHANGED <<submitVars, current, workerVars, ahead>>

\* submit() returns the reply; the item and its events go with it.
Returns(t) ==
  /\ at[t] = "answered"
  /\ at' = [at EXCEPT ![t] = "idle"]
  /\ item' = [item EXCEPT ![t] = NoItem]
  /\ aborted' = aborted \ {t}
  /\ UNCHANGED <<counter, heap, current, workerVars, ahead>>

(***************************************************************************)
(* _run_worker(), _execute()                                               *)
(***************************************************************************)

\* _QueueItem's order.
Before(t, u) ==
  \/ item[t].priority < item[u].priority
  \/ item[t].priority = item[u].priority /\ item[t].sequence < item[u].sequence

\* Mutant of First: only the priority is compared.
FirstByPriority(t) == \A u \in heap : item[t].priority <= item[u].priority

First(t) == \A u \in heap \ {t} : Before(t, u)

Pop ==
  /\ worker = "idle"
  /\ \E t \in heap :
       /\ First(t)
       /\ heap' = heap \ {t} /\ current' = t /\ serving' = t
       /\ ahead' = [u \in Threads |-> ahead[u] \ {t}]
  /\ worker' = "dispatching"
  /\ UNCHANGED <<submitVars, at, aborted, stopRequested>>

\* Mutant of Exit: stop() abandons what is queued.
ExitAbandoning ==
  /\ worker = "idle" /\ stopRequested
  /\ worker' = "exited"
  /\ UNCHANGED <<submitVars, at, queueVars, serving, stopRequested, ahead>>

Exit ==
  /\ worker = "idle" /\ heap = {} /\ stopRequested
  /\ worker' = "exited"
  /\ UNCHANGED <<submitVars, at, queueVars, serving, stopRequested, ahead>>

Dispatching(body) == worker = "dispatching" /\ item[serving].body = body

Executed ==
  /\ worker' = "executed"
  /\ UNCHANGED <<submitVars, at, queueVars, serving, stopRequested, ahead>>

\* A short body returns or raises; either becomes a Reply.
ShortBodyEnds == (Dispatching("estop") \/ Dispatching("quick")) /\ Executed

\* What is waited for happens, or the caller's timeout runs out.
WaitEnds == Dispatching("wait") /\ Executed

\* Mutant of WaitYields: the body discards its abort argument.
WaitYieldsNever == Dispatching("wait") /\ serving \notin Threads /\ Executed

\* The wait finds its abort event set.
WaitYields == Dispatching("wait") /\ serving \in aborted /\ Executed

ClearCurrent ==
  /\ worker = "executed" /\ worker' = "handing"
  /\ current' = NoThread
  /\ UNCHANGED <<submitVars, at, heap, aborted, serving, stopRequested, ahead>>

HandBack ==
  /\ worker = "handing" /\ worker' = "idle"
  /\ at' = [at EXCEPT ![serving] = "answered"]
  /\ serving' = NoThread
  /\ UNCHANGED <<submitVars, queueVars, stopRequested, ahead>>

WorkerRuns == Pop \/ Exit \/ ShortBodyEnds \/ WaitYields \/ ClearCurrent \/ HandBack

DaemonNext ==
  \/ Start \/ Stop
  \/ \E t \in Threads :
       \/ \E body \in Bodies : Number(t, body)
       \/ Push(t) \/ Returns(t)
  \/ WorkerRuns \/ WaitEnds

DaemonSpec == DaemonInit /\ [][DaemonNext]_daemonVars

\* Threads that are in the middle of something go on.  Nothing makes the robot
\* finish what a wait is waiting for.
DaemonFairness ==
  /\ WF_daemonVars(WorkerRuns)
  /\ \A t \in Threads : WF_daemonVars(Push(t)) /\ WF_daemonVars(Returns(t))

FairDaemonSpec == DaemonSpec /\ DaemonFairness

(***************************************************************************)
(* Properties                                                              *)
(***************************************************************************)

\* Every variable stays within its type (daemon.py:259-278, 313-323).
DaemonTypeOK ==
  /\ counter \in Nat
  /\ at \in [Threads -> {"idle", "numbered", "waiting", "answered"}]
  /\ item \in [Threads -> [body : Bodies \cup {"none"}, priority : {0, 1}, sequence : Nat]]
  /\ heap \subseteq Threads /\ aborted \subseteq Threads
  /\ current \in Threads \cup {NoThread} /\ serving \in Threads \cup {NoThread}
  /\ worker \in {"none", "idle", "dispatching", "executed", "handing", "exited"}
  /\ stopRequested \in BOOLEAN
  /\ ahead \in [Threads -> SUBSET Threads]

EstopQueued == \E t \in heap : item[t].body = "estop"

\* The request being dispatched has been told to give way exactly when an
\* estop is waiting for the worker, so no estop stands behind a body that has
\* not been told and no body is cut short for nothing (daemon.py:395-433,
\* 445-452).  An estop that began while another was queued is not told.
AbortedIffEstopWaits ==
  worker = "dispatching" =>
    /\ serving \in aborted => EstopQueued
    /\ item[serving].body # "estop" /\ EstopQueued => serving \in aborted

\* First come, first served within a class: no request is dispatched while a
\* request of its class still waits that was queued before this one's submit()
\* began (daemon.py:259-272).  Two submit() calls that overlap may be served in
\* either order, because the number is taken outside the lock (daemon.py:423-432).
ServedInArrivalOrder == worker = "dispatching" => ahead[serving] = {}

\* A queued estop is served even while the robot never finishes the motion
\* another request is waiting for (daemon.py:95-120, daemon_client.py:437-465).
EstopIsServed ==
  \A t \in Threads :
    (at[t] = "waiting" /\ item[t].body = "estop" /\ worker # "exited") ~> at[t] = "idle"

WaitHoldsWorker == Dispatching("wait") /\ serving \notin aborted

\* Whatever was queued while the worker lives is answered, stop() or not, unless
\* it stands behind a wait that does not end (daemon.py:374-384, 440-459).
QueuedIsAnswered ==
  \A t \in Threads :
    (t \in heap /\ worker # "exited") ~> (at[t] = "idle" \/ WaitHoldsWorker)

\* The daemon is the desk it promises its clients to be: one request of one client
\* is at the robot at a time, an estop first, like requests in the order of their
\* submit() calls, and the worker leaves nobody in the queue (daemon.py:87-120,
\* 259-272, 374-384, 395-459).
StageOf(t) ==
  IF t = serving THEN (IF worker = "dispatching" THEN "served" ELSE "over")
  ELSE IF t \in heap THEN "queued"
  ELSE IF at[t] = "numbered" THEN "asked" ELSE at[t]

Desk == INSTANCE RequestDesk WITH
  Clients <- Threads,
  Kinds   <- Bodies,
  stage   <- [t \in Threads |-> StageOf(t)],
  kind    <- [t \in Threads |-> item[t].body],
  earlier <- ahead,
  told    <- worker = "dispatching" /\ serving \in aborted,
  closed  <- worker = "exited"

ImplementsRequestDesk == Desk!Spec
=============================================================================
