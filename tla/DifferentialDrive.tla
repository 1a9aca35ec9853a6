-------------------------- MODULE DifferentialDrive --------------------------
(***************************************************************************)
(* The wheel kernel, DiffDrive::DifferentialDrive                          *)
(* (src/src/diffdrive/differential_drive.cpp).  Two fibers share it: the   *)
(* kernel fiber runs step() for ever, and the main fiber issues commands.  *)
(* Scheduling is cooperative, so the main fiber runs only while the kernel *)
(* sleeps: in the two encoder settles inside step(), or in run()'s pacing  *)
(* between two cycles.                                                     *)
(*                                                                         *)
(* A duty is abstracted to 0 or 1 (any drive at all): the control law only *)
(* decides how hard a wheel is driven.  What the encoders say is chosen    *)
(* anew whenever it is read.  Time passes a millisecond at a time, on a    *)
(* clock that wraps.                                                       *)
(***************************************************************************)
EXTENDS Integers

CONSTANTS
  ClockSpan,        \* uint32_t milliseconds: 2^32
  LeaseMax,         \* kLeaseMax
  StopEnforceTicks, \* kStopEnforceTicks
  Settle,           \* kSettle
  CyclePeriod,      \* Config::cyclePeriod
  StallWindow,      \* Config::stallWindow; 0 turns the detector off
  Leases,           \* durations that callers ask for
  Calls,            \* which of the kernel's calls the application makes
  Configs,          \* how it is configured: what has been given a value
  BootDuty,         \* the duty at the wheels at power-up: 0, or Kept
  MaxLate,          \* bound: ms the main fiber keeps the kernel from waking
  MaxIdle,          \* bound: ms that pass without a new motion command
  MaxFaults         \* bound: bus writes that do not land

ASSUME DriveAssumption ==
  /\ ClockSpan \in Nat \ {0, 1} /\ LeaseMax \in Nat /\ 2 * LeaseMax < ClockSpan
  /\ StopEnforceTicks \in Nat \ {0} /\ Settle \in Nat \ {0}
  /\ CyclePeriod \in Nat /\ StallWindow \in Nat /\ Leases \subseteq Nat
  /\ Calls \subseteq {"drive", "driveDuty", "neutral", "estop", "estopClear",
                     "emergency", "clearStall"}
  /\ Configs \subseteq {"nothing", "maxDuty", "everything"}
  /\ BootDuty \in {0, 2} /\ MaxLate \in Nat /\ MaxIdle \in Nat /\ MaxFaults \in Nat

VARIABLES
  now,              \* the millisecond clock
  begun,            \* begun_
  config,           \* staged_: which of maxDuty, fullDutyVelocity are positive
  command,          \* command_
  estopLatch, stallHalted, stallSince,
  clearRequested,   \* clearStallReq_ # seenClearStallReq_
  wasForcedStop,
  written,          \* writtenLeft_, writtenRight_
  countdown,        \* stopEnforceCountdown_
  phase,            \* where the kernel fiber sleeps
  due, late, spent, \* ms until it wakes, since it was due, since the cycle began
  staged, applied,  \* the motors: duty waiting for tick(), duty at the wheel
  faults,
  elapsed, granted, \* history: ms since a motion command was taken, its lease
  haltedFor,        \* history: ms a reason to halt has held, -1 if none does
  emergency         \* history: emergencyStopMotors() since the latch was clear

fiberVars   == <<phase, due, late, spent>>
motorVars   == <<staged, applied, faults>>
mailboxVars == <<config, command, estopLatch, clearRequested>>
kernelVars  == <<stallHalted, stallSince, wasForcedStop, written, countdown>>
historyVars == <<elapsed, granted, emergency>>
vars == <<now, begun, fiberVars, motorVars, mailboxVars, kernelVars, historyVars,
          haltedFor>>

Wheels  == {"left", "right"}
Duties  == {0, 1}
Kept    == 2            \* the motor brick keeps its duty across a reset of the controller
Zero    == [w \in Wheels |-> 0]
NoWrite == -1           \* nothing staged
Authority  == {"maxDuty", "everything"}     \* maxDuty > 0
Calibrated == {"everything"}                \* fullDutyVelocity > 0
Demands == {FALSE, StallWindow > 0}   \* beyond stallDemand, when it is on
Neutral == [mode |-> "neutral", raw |-> Zero, demanding |-> FALSE, validUntil |-> 0]

Init ==
  /\ now = 0 /\ begun = FALSE
  /\ config = "nothing"
  /\ command = Neutral
  /\ estopLatch = FALSE /\ stallHalted = FALSE /\ stallSince = 0
  /\ clearRequested = FALSE /\ wasForcedStop = FALSE
  /\ written = Zero /\ countdown = 0
  /\ phase = "off" /\ due = 0 /\ late = 0 /\ spent = 0
  /\ staged = [w \in Wheels |-> NoWrite] /\ applied = [w \in Wheels |-> BootDuty]
  /\ faults = 0
  /\ elapsed = 0 /\ granted = 0 /\ haltedFor = 0 /\ emergency = FALSE

(***************************************************************************)
(* The main fiber: configuration, lifecycle and commands                   *)
(***************************************************************************)

SetConfig(c) ==
  /\ config' = c
  /\ UNCHANGED <<now, begun, fiberVars, motorVars, command, estopLatch,
                 clearRequested, kernelVars, historyVars>>

Begin ==
  /\ ~begun
  /\ begun' = TRUE
  /\ countdown' = StopEnforceTicks
  /\ UNCHANGED <<now, fiberVars, motorVars, mailboxVars, stallHalted, stallSince,
                 wasForcedStop, written, historyVars>>

Start ==
  /\ begun /\ phase = "off"
  /\ phase' = "pace"
  /\ UNCHANGED <<now, begun, due, late, spent, motorVars, mailboxVars, kernelVars,
                 historyVars>>

\* Mutant of Commandable: the estop latch stops the wheels, but refuses nothing.
CommandableDespiteEstop == begun /\ config \in Authority

\* checkCommandable(): a refused command changes nothing.
Commandable == begun /\ ~estopLatch /\ config \in Authority

\* Mutant of ValidUntil: the lease is not clamped.
ValidUntilUnclamped(lease) == (now + lease) % ClockSpan

\* Mutant of ValidUntil: the deadline does not wrap with the clock.
ValidUntilUnwrapped(lease) == now + IF lease > LeaseMax THEN LeaseMax ELSE lease

\* The lease is clamped, and becomes a moment on the wrapping clock.
ValidUntil(lease) == (now + IF lease > LeaseMax THEN LeaseMax ELSE lease) % ClockSpan

TakeCommand(c, lease) ==
  /\ command' = c
  /\ elapsed' = 0 /\ granted' = lease
  /\ UNCHANGED <<now, begun, fiberVars, motorVars, config, estopLatch,
                 clearRequested, kernelVars, emergency>>

Drive(demanding, lease) ==
  /\ Commandable /\ config \in Calibrated
  /\ TakeCommand([mode |-> "velocity", raw |-> Zero, demanding |-> demanding,
                  validUntil |-> ValidUntil(lease)], lease)

DriveDuty(raw, lease) ==
  /\ Commandable
  /\ TakeCommand([mode |-> "rawDuty", raw |-> raw, demanding |-> FALSE,
                  validUntil |-> ValidUntil(lease)], lease)

CommandNeutral ==
  /\ command' = Neutral
  /\ UNCHANGED <<now, begun, fiberVars, motorVars, config, estopLatch,
                 clearRequested, kernelVars, historyVars>>

Estop ==
  /\ estopLatch' = TRUE
  /\ UNCHANGED <<now, begun, fiberVars, motorVars, config, command, clearRequested,
                 kernelVars, historyVars>>

EstopClear ==
  /\ estopLatch' = FALSE
  /\ emergency' = FALSE
  /\ UNCHANGED <<now, begun, fiberVars, motorVars, config, command, clearRequested,
                 kernelVars, elapsed, granted>>

\* Mutant of EmergencyStop: what was staged is still to be written.
EmergencyStopKeepingStaged == applied' = Zero /\ UNCHANGED staged

\* Motor::emergencyStop() writes zero now and drops what was staged.
EmergencyStop ==
  /\ staged' = [w \in Wheels |-> NoWrite]
  /\ applied' = Zero

EmergencyStopMotors ==
  /\ estopLatch' = TRUE
  /\ EmergencyStop
  /\ emergency' = TRUE
  /\ UNCHANGED <<now, begun, fiberVars, faults, config, command, clearRequested,
                 kernelVars, elapsed, granted>>

ClearStallLatch ==
  /\ clearRequested' = TRUE
  /\ UNCHANGED <<now, begun, fiberVars, motorVars, config, command, estopLatch,
                 kernelVars, historyVars>>

MainFiber ==
  \/ \E c \in Configs : SetConfig(c)
  \/ Begin \/ Start
  \/ \E lease \in Leases :
       \/ "drive" \in Calls /\ \E demanding \in Demands : Drive(demanding, lease)
       \/ "driveDuty" \in Calls /\ \E raw \in [Wheels -> Duties] : DriveDuty(raw, lease)
  \/ "neutral" \in Calls /\ CommandNeutral
  \/ "estop" \in Calls /\ Estop
  \/ "estopClear" \in Calls /\ EstopClear
  \/ "emergency" \in Calls /\ EmergencyStopMotors
  \/ "clearStall" \in Calls /\ ClearStallLatch

(***************************************************************************)
(* The kernel fiber                                                        *)
(***************************************************************************)

\* Mutant of LeaseLive: the comparison is unsigned.
LeaseLiveUnsigned(c) == c.mode # "neutral" /\ (c.validUntil - now) % ClockSpan > 0

\* static_cast<int32_t>(validUntil - now) > 0
LeaseLive(c) ==
  c.mode # "neutral" /\ (c.validUntil - now) % ClockSpan \in 1..((ClockSpan \div 2) - 1)

\* Mutant of Effective: the estop latch only refuses new commands.
EffectiveDespiteEstop(stalled, cfg) ==
  IF \/ ~LeaseLive(command) \/ stalled
     \/ command.mode = "velocity" /\ cfg \notin Calibrated
    THEN "neutral" ELSE command.mode

\* The safety gates: the mode this cycle really runs in.
Effective(stalled, cfg) ==
  IF \/ ~LeaseLive(command) \/ stalled \/ estopLatch
     \/ command.mode = "velocity" /\ cfg \notin Calibrated
    THEN "neutral" ELSE command.mode

\* Mutant of StageDuty: a new stop does not reload the countdown.
StageDutyOnce(duty, ticks) ==
  LET commandedStop == duty = Zero
      alreadyQuiet  == commandedStop /\ written = Zero
  IN \E wheelsMoving \in BOOLEAN :
       /\ countdown' = IF ticks > 0 THEN ticks - 1 ELSE 0
       /\ IF alreadyQuiet /\ ticks = 0 /\ ~wheelsMoving
            THEN UNCHANGED <<staged, written>>
            ELSE staged' = duty /\ written' = duty

\* stageDuty(): a stop is written again for StopEnforceTicks more cycles, and
\* for as long as the encoders still read motion.
StageDuty(duty, ticks) ==
  LET commandedStop == duty = Zero
      alreadyQuiet  == commandedStop /\ written = Zero
  IN \E wheelsMoving \in BOOLEAN :
       /\ countdown' = IF commandedStop /\ ~alreadyQuiet THEN StopEnforceTicks
                       ELSE IF ticks > 0 THEN ticks - 1 ELSE 0
       /\ IF alreadyQuiet /\ ticks = 0 /\ ~wheelsMoving
            THEN UNCHANGED <<staged, written>>
            ELSE staged' = duty /\ written' = duty

\* updateLatch() for the stall detector, then the kernel's self-halt.
DetectStall(condition, since, stalled) ==
  LET start == IF since = 0 THEN now ELSE since
      latched == StallWindow > 0 /\ condition /\ (now - start) % ClockSpan >= StallWindow
  IN /\ stallSince' = IF StallWindow > 0 /\ condition THEN start ELSE 0
     /\ stallHalted' = (stalled \/ latched)

\* controlStep(), by effective mode.  With no authority the rail is zero and so
\* is every duty.
Permitted(duty, cfg) == IF cfg \in Authority THEN duty ELSE Zero

ControlStep(mode, cfg, ticks, since, stalled) ==
  \/ /\ mode = "neutral"
     /\ StageDuty(Zero, ticks)
     /\ stallSince' = 0 /\ stallHalted' = stalled
  \/ /\ mode = "rawDuty"
     /\ StageDuty(Permitted(command.raw, cfg), ticks)
     /\ stallSince' = since /\ stallHalted' = stalled
  \/ /\ mode = "velocity"
     /\ \E duty \in [Wheels -> Duties] : StageDuty(Permitted(duty, cfg), ticks)
     /\ \E encoderStill \in BOOLEAN :
          DetectStall(command.demanding /\ encoderStill, since, stalled)

\* step() up to the first settle: snapshots, requests, gates, control step.
\* The snapshots of config and command are used up before the first settle.
CycleStarts ==
  /\ phase = "pace" /\ due = 0
  /\ clearRequested' = FALSE
  /\ LET stalled == stallHalted /\ ~clearRequested
         halted  == estopLatch \/ stalled
         entered == halted /\ ~wasForcedStop      \* resetAdaptiveState()
         ticks   == IF entered THEN StopEnforceTicks ELSE countdown
         since   == IF entered \/ clearRequested THEN 0 ELSE stallSince
         mode    == Effective(stalled, config)
     IN /\ wasForcedStop' = halted
        /\ ControlStep(mode, config, ticks, since, stalled)
  /\ phase' = "left" /\ due' = Settle /\ late' = 0 /\ spent' = 0
  /\ UNCHANGED <<now, begun, applied, faults, config, command, estopLatch,
                 elapsed, granted, emergency>>

\* Motor::tick(): the staged write reaches the wheel, or fails on the bus.
MotorTick(w) ==
  \/ /\ applied' = [applied EXCEPT ![w] = IF staged[w] = NoWrite THEN @ ELSE staged[w]]
     /\ UNCHANGED faults
  \/ /\ staged[w] # NoWrite /\ faults < MaxFaults
     /\ faults' = faults + 1
     /\ UNCHANGED applied

LeftTicks ==
  /\ phase = "left" /\ due = 0
  /\ MotorTick("left")
  /\ staged' = [staged EXCEPT !["left"] = NoWrite]
  /\ phase' = "right" /\ due' = Settle /\ late' = 0
  /\ UNCHANGED <<now, begun, spent, mailboxVars, kernelVars, historyVars>>

\* The end of step(), and run()'s pacing to the absolute deadline.
RightTicks ==
  /\ phase = "right" /\ due = 0
  /\ MotorTick("right")
  /\ staged' = [staged EXCEPT !["right"] = NoWrite]
  /\ phase' = "pace" /\ late' = 0
  /\ due' = IF spent < CyclePeriod THEN CyclePeriod - spent ELSE 0
  /\ UNCHANGED <<now, begun, spent, mailboxVars, kernelVars, historyVars>>

KernelFiber == CycleStarts \/ LeftTicks \/ RightTicks

\* A millisecond passes while the kernel sleeps, or is kept from waking.
TimePasses ==
  /\ elapsed < MaxIdle
  /\ now' = (now + 1) % ClockSpan
  /\ elapsed' = elapsed + 1
  /\ IF phase = "off" THEN UNCHANGED fiberVars
     ELSE /\ IF due > 0
               THEN due' = due - 1 /\ UNCHANGED late
               ELSE late < MaxLate /\ late' = late + 1 /\ UNCHANGED due
          /\ spent' = IF phase = "pace" THEN spent ELSE spent + 1
          /\ UNCHANGED phase
  /\ UNCHANGED <<begun, motorVars, mailboxVars, kernelVars, granted, emergency>>

\* From a reason to halt to the last wheel's zero: the rest of a cycle that
\* has already read its gates, one more for every write that is lost, then the
\* two settles of the cycle that stops the wheels.
SettleTime == 2 * (Settle + MaxLate)
Cycle      == MaxLate + IF SettleTime > CyclePeriod THEN SettleTime ELSE CyclePeriod
Reaction   == (MaxFaults + 1) * Cycle + SettleTime

\* Reasons to halt: a latch, a stop in the mailbox, or no authority to drive.
Halted ==
  \/ estopLatch \/ (stallHalted /\ ~clearRequested)
  \/ command.mode = "neutral" \/ config \notin Authority

HaltClock ==
  haltedFor' = IF ~Halted' THEN -1
               ELSE IF haltedFor = -1 THEN 0
               ELSE IF now' # now /\ phase # "off" /\ haltedFor <= Reaction
                      THEN haltedFor + 1 ELSE haltedFor

Next == (MainFiber \/ KernelFiber \/ TimePasses) /\ HaltClock

Spec == Init /\ [][Next]_vars

(***************************************************************************)
(* Properties                                                              *)
(***************************************************************************)

\* Every variable stays within its type (differential_drive.h:380-556).
DriveTypeOK ==
  /\ now \in 0..(ClockSpan - 1) /\ begun \in BOOLEAN
  /\ config \in Configs \cup {"nothing"}
  /\ command \in [mode : {"neutral", "velocity", "rawDuty"}, raw : [Wheels -> Duties],
                  demanding : BOOLEAN, validUntil : 0..(ClockSpan - 1)]
  /\ estopLatch \in BOOLEAN /\ stallHalted \in BOOLEAN
  /\ stallSince \in 0..(ClockSpan - 1)
  /\ clearRequested \in BOOLEAN /\ wasForcedStop \in BOOLEAN
  /\ written \in [Wheels -> Duties] /\ countdown \in 0..StopEnforceTicks
  /\ phase \in {"off", "pace", "left", "right"}
  /\ due \in Nat /\ late \in 0..MaxLate /\ spent \in 0..SettleTime
  /\ staged \in [Wheels -> Duties \cup {NoWrite}] /\ applied \in [Wheels -> Duties \cup {Kept}]
  /\ faults \in 0..MaxFaults /\ elapsed \in 0..MaxIdle /\ granted \in Leases \cup {0}
  /\ haltedFor \in -1..(Reaction + 1) /\ emergency \in BOOLEAN

\* The kernel drives a wheel only within the lease of the last motion command
\* that was taken, and the time it needs to notice its end: a caller that died
\* cannot mean a runaway (differential_drive.cpp:410-413, 560-569;
\* diffdrive.md:104-106).
MotionIsLeased ==
  (\E w \in Wheels : applied[w] = 1) =>
    elapsed <= (IF granted > LeaseMax THEN LeaseMax ELSE granted) + Reaction

\* A commanded stop, an estop, a stall halt or a configuration with no authority
\* stop both wheels within Reaction; the stop holds them until the next motion
\* command, the other reasons whichever commands keep arriving
\* (differential_drive.cpp:446-458, 569-582).
HaltStopsInTime == haltedFor > Reaction => applied = Zero

\* After emergencyStopMotors() nothing drives a wheel until the latch is
\* cleared, not even the duty that was staged when it was called
\* (differential_drive.cpp:464-471).
NothingAfterEmergency == emergency => applied = Zero

\* The kernel implements the lease it promises, seen from the wheels: every step
\* of the two fibers, and of the clock, is one the caller was told of.  A wheel is
\* set moving only within the cycle that found its command alive and nothing
\* against it, and no command is taken after a cut-off (diffdrive.md:104-111,
\* differential_drive.cpp:384-396, 500-594).
Promise == INSTANCE LeasedDrive WITH
  wheel    <- applied,
  running  <- phase # "off",
  idle     <- elapsed,
  lease    <- IF granted > LeaseMax THEN LeaseMax ELSE granted,
  Response <- SettleTime

ImplementsLeasedDrive == Promise!Spec

\* The kernel stops repeating a stop only once the stop has reached the wheels,
\* as long as fewer writes fail than it repeats (differential_drive.cpp:868-889).
QuietMeansStopped ==
  phase = "pace" /\ written = Zero /\ countdown = 0 => applied = Zero
=============================================================================
