---------------------------- MODULE MotionAdapter ----------------------------
(***************************************************************************)
(* The adapter behind tools/sim: FakeMotionAdapter, a bounded FIFO of      *)
(* motions run one at a time (src/tests/protocol/fake_motion_adapter.h).   *)
(* Its countdown is abstracted to a completion at any later step(); the    *)
(* fields a test records are left out, and so is forceAbort(), which no    *)
(* program calls.                                                          *)
(***************************************************************************)
EXTENDS Integers, Sequences

CONSTANTS MaxQueueDepth,       \* kMaxQueueDepth
          CompletionReasons    \* what a motion that runs to its end reports

ASSUME AdapterAssumption ==
  /\ MaxQueueDepth \in Nat
  /\ CompletionReasons \subseteq {"stop", "timeout", "aborted"}

VARIABLES active,          \* id of the running motion, 0 when idle
          queue,           \* ids waiting behind it
          lastDone, lastDoneReason,
          taken,           \* history: ids acceptMotion() took
          completed        \* history: [id, reason] of each completion

adapterVars == <<active, queue, lastDone, lastDoneReason, taken, completed>>

Reasons == {"none", "estop"} \cup CompletionReasons \cup {"stop"}

AdapterInit ==
  /\ active = 0 /\ queue = << >>
  /\ lastDone = 0 /\ lastDoneReason = "none"
  /\ taken = {} /\ completed = {}

\* A new adapter, in a new or rebooted robot.
NewAdapter ==
  /\ active' = 0 /\ queue' = << >>
  /\ lastDone' = 0 /\ lastDoneReason' = "none"
  /\ taken' = {} /\ completed' = {}

QueueFull == active # 0 /\ Len(queue) >= MaxQueueDepth

\* acceptMotion(): start at once when idle, else wait in the queue.
AcceptMotion(id) ==
  /\ ~QueueFull
  /\ IF active = 0
       THEN active' = id /\ UNCHANGED queue
       ELSE queue' = Append(queue, id) /\ UNCHANGED active
  /\ taken' = taken \cup {id}
  /\ UNCHANGED <<lastDone, lastDoneReason, completed>>

\* finishActiveOnly(): record the completion of the running motion.
FinishActive(reason) ==
  /\ lastDone' = active
  /\ lastDoneReason' = reason
  /\ completed' = completed \cup {[id |-> active, reason |-> reason]}
  /\ UNCHANGED taken

\* Mutant of EndAllMotion: a completion is recorded even when nothing runs.
EndAllMotionUnguarded(reason) ==
  FinishActive(reason) /\ active' = 0 /\ queue' = << >>

\* onStop() and onEstop(): end the running motion, drain the queue.
EndAllMotion(reason) ==
  /\ IF active # 0
       THEN FinishActive(reason)
       ELSE UNCHANGED <<lastDone, lastDoneReason, taken, completed>>
  /\ active' = 0
  /\ queue' = << >>

\* Mutant of MotionCompletes: the next motion is promoted before the one that
\* ended is recorded.
MotionCompletesAfterPromotion ==
  /\ active # 0
  /\ active' = IF queue = << >> THEN 0 ELSE Head(queue)
  /\ queue' = IF queue = << >> THEN << >> ELSE Tail(queue)
  /\ \E reason \in CompletionReasons :
       /\ lastDone' = IF queue = << >> THEN active ELSE Head(queue)
       /\ lastDoneReason' = reason
       /\ completed' = completed \cup {[id |-> lastDone', reason |-> reason]}
  /\ UNCHANGED taken

\* step() on the tick that ends the running motion: promote the next one.
MotionCompletes ==
  /\ active # 0
  /\ \E reason \in CompletionReasons : FinishActive(reason)
  /\ IF queue = << >>
       THEN active' = 0 /\ UNCHANGED queue
       ELSE active' = Head(queue) /\ queue' = Tail(queue)
=============================================================================
