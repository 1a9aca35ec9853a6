---------------------------- MODULE LeasedDrive ----------------------------
(***************************************************************************)
(* What the wheel kernel promises to whoever drives through it: motion is  *)
(* lent to the caller, never given.  A wheel is set moving only on a       *)
(* command that is still fresh and while nothing has told it to halt, but  *)
(* for the time one cycle takes to reach the wheels; and the clock never   *)
(* shows a wheel moving beyond its lease, or beyond a reason to halt, by   *)
(* more than the reaction time.  Nothing is said of mailboxes, gates,      *)
(* fibers or bus writes.                                                   *)
(***************************************************************************)
EXTENDS Integers

CONSTANTS
  Wheels,
  Kept,        \* what a wheel does that kept moving while the controller was off
  Leases,      \* durations that callers ask for, in ms
  LeaseMax,    \* the longest that is granted
  Response,    \* ms a wheel may still be set moving by a decision that is past
  Reaction     \* ms that motion may outlast its permission

VARIABLES
  wheel,       \* 0 at rest, 1 driven, or Kept
  running,     \* the kernel has been started
  idle, lease, \* ms since the last motion command, and what it was granted
  haltedFor,   \* ms there has been a reason to halt, -1 if there is none
  emergency    \* the motors were cut off, and not released since

vars == <<wheel, running, idle, lease, haltedFor, emergency>>

AtRest  == [w \in Wheels |-> 0]
Granted == {IF l > LeaseMax THEN LeaseMax ELSE l : l \in Leases}

Init ==
  /\ wheel \in [Wheels -> {0, Kept}] /\ running = FALSE
  /\ idle = 0 /\ lease = 0
  /\ haltedFor = 0 /\ emergency = FALSE

Start ==
  /\ running' = TRUE
  /\ UNCHANGED <<wheel, idle, lease, haltedFor, emergency>>

\* A motion command starts the lease anew and takes a commanded stop back; it is
\* no answer to a cut-off.
Command ==
  /\ ~emergency
  /\ idle' = 0 /\ lease' \in Granted
  /\ haltedFor' \in {haltedFor, -1}
  /\ UNCHANGED <<wheel, running, emergency>>

\* A stop, an estop, a stall, a configuration without authority.
Halt ==
  /\ haltedFor = -1 /\ haltedFor' = 0
  /\ UNCHANGED <<wheel, running, idle, lease, emergency>>

\* Reasons to halt are withdrawn; the last one, or not.
Release ==
  /\ haltedFor' \in {haltedFor, -1} /\ emergency' = FALSE
  /\ UNCHANGED <<wheel, running, idle, lease>>

\* Every motor is cut off at once.
CutOff ==
  /\ wheel' = AtRest /\ emergency' = TRUE
  /\ haltedFor' = IF haltedFor = -1 THEN 0 ELSE haltedFor
  /\ UNCHANGED <<running, idle, lease>>

SetMoving(w) ==
  /\ running /\ ~emergency
  /\ idle <= lease + Response /\ haltedFor <= Response
  /\ wheel' = [wheel EXCEPT ![w] = 1]
  /\ UNCHANGED <<running, idle, lease, haltedFor, emergency>>

Stop(w) ==
  /\ running
  /\ wheel' = [wheel EXCEPT ![w] = 0]
  /\ UNCHANGED <<running, idle, lease, haltedFor, emergency>>

\* A millisecond passes only if no wheel should have stopped by then.
TimePasses ==
  /\ idle' = idle + 1
  /\ haltedFor' = IF haltedFor = -1 \/ ~running \/ haltedFor > Reaction THEN haltedFor
                  ELSE haltedFor + 1
  /\ (\E w \in Wheels : wheel[w] = 1) => idle' <= lease + Reaction
  /\ haltedFor' > Reaction => wheel = AtRest
  /\ UNCHANGED <<wheel, running, lease, emergency>>

Next ==
  \/ Start \/ Command \/ Halt \/ Release \/ CutOff \/ TimePasses
  \/ \E w \in Wheels : SetMoving(w) \/ Stop(w)

Spec == Init /\ [][Next]_vars
=============================================================================
