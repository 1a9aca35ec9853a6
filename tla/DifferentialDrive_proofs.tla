---------------------- MODULE DifferentialDrive_proofs ----------------------
(***************************************************************************)
(* What the wheel kernel promises for any clock, lease, cycle and stop     *)
(* repetition, and any number of lost writes and late wake-ups: its types, *)
(* and that emergencyStopMotors() is final until the latch is cleared.     *)
(*                                                                         *)
(* And about stops, on a bus that loses fewer writes than a stop is        *)
(* repeated: a stop that is no longer repeated has reached the wheels,     *)
(* motion ends with its lease, and a stop or halt stops the wheels, within *)
(* Reaction.  The last two follow from one account of the kernel's cycle,  *)
(* kept for two clocks: the time since the lease ran out and the time      *)
(* since there is a reason to halt.  The same account shows, step by step, *)
(* that the kernel implements LeasedDrive.                                 *)
(***************************************************************************)
EXTENDS DifferentialDrive, TLAPS

\* Between its gates and the end of the cycle the kernel sleeps twice, and is
\* late twice at most by MaxLate.
FiberOnTime ==
  /\ phase = "left" => spent + due <= Settle + late
  /\ phase = "right" => spent + due <= 2 * Settle + MaxLate + late

\* After an emergency stop the latch is set, and all that is on its way to
\* a wheel is a stop.
OnlyStopsAfterEmergency ==
  emergency => /\ estopLatch /\ applied = Zero
               /\ \A w \in Wheels : staged[w] \in {0, NoWrite}

DriveInv == DriveTypeOK /\ FiberOnTime /\ OnlyStopsAfterEmergency

\* The time constants are lengths of time.
LEMMA TimesAreNatural ==
  SettleTime \in Nat /\ Cycle \in Nat /\ Reaction \in Nat
<1> USE DriveAssumption
<1>1. SettleTime \in Nat BY DEF SettleTime
<1>2. Cycle \in Nat BY <1>1 DEF Cycle
<1>3. \A a, b \in Nat : (a + 1) * b \in Nat OBVIOUS
<1>4. (MaxFaults + 1) * Cycle \in Nat BY <1>2, <1>3
<1> QED BY <1>1, <1>2, <1>4 DEF Reaction

\* The wrapping clock stays on its face.
LEMMA ClockWraps ==
  \A t \in Int : t % ClockSpan \in 0..(ClockSpan - 1)
  BY DriveAssumption

\* What stageDuty() writes, and that a stop stages nothing else.
LEMMA StageDutyKeeps ==
  ASSUME DriveTypeOK, NEW duty \in [Wheels -> Duties],
         NEW ticks \in 0..StopEnforceTicks, StageDuty(duty, ticks)
  PROVE  /\ countdown' \in 0..StopEnforceTicks
         /\ staged' \in [Wheels -> Duties \cup {NoWrite}]
         /\ written' \in [Wheels -> Duties]
         /\ staged' = staged \/ staged' = duty
<1> USE DriveAssumption
<1>1. countdown' \in 0..StopEnforceTicks BY DEF StageDuty
<1>2. staged' = staged \/ staged' = duty BY DEF StageDuty
<1>3. written' = written \/ written' = duty BY DEF StageDuty
<1> QED BY <1>1, <1>2, <1>3 DEF DriveTypeOK, Duties

\* What the control step leaves behind, whichever mode it runs in.
LEMMA ControlStepKeeps ==
  ASSUME DriveTypeOK, NEW mode \in {"neutral", "velocity", "rawDuty"},
         NEW cfg \in Configs \cup {"nothing"},
         NEW ticks \in 0..StopEnforceTicks, NEW since \in 0..(ClockSpan - 1),
         NEW stalled \in BOOLEAN, ControlStep(mode, cfg, ticks, since, stalled)
  PROVE  /\ countdown' \in 0..StopEnforceTicks
         /\ staged' \in [Wheels -> Duties \cup {NoWrite}]
         /\ written' \in [Wheels -> Duties]
         /\ stallSince' \in 0..(ClockSpan - 1) /\ stallHalted' \in BOOLEAN
         /\ mode = "neutral" => staged' = staged \/ staged' = Zero
<1> USE DriveAssumption
<1>1. Zero \in [Wheels -> Duties] BY DEF Zero, Duties
<1>2. command.raw \in [Wheels -> Duties] BY DEF DriveTypeOK
<1>3. PICK duty \in [Wheels -> Duties] :
        StageDuty(duty, ticks) /\ (mode = "neutral" => duty = Zero)
  <2>1. CASE mode = "neutral" BY <1>1, <2>1 DEF ControlStep
  <2>2. CASE mode = "rawDuty" BY <1>1, <1>2, <2>2 DEF ControlStep, Permitted
  <2>3. CASE mode = "velocity" BY <1>1, <2>3 DEF ControlStep, Permitted
  <2> QED BY <2>1, <2>2, <2>3
<1>4. now \in 0..(ClockSpan - 1) BY DEF DriveTypeOK
<1>5. stallSince' \in 0..(ClockSpan - 1) /\ stallHalted' \in BOOLEAN
  <2>1. CASE mode # "velocity" BY <2>1 DEF ControlStep
  <2>2. CASE mode = "velocity" BY <1>4, <2>2 DEF ControlStep, DetectStall
  <2> QED BY <2>1, <2>2
<1> QED BY <1>3, <1>5, StageDutyKeeps

\* At power-up everything rests, but perhaps the motors.
LEMMA DriveInitHolds == Init => DriveInv
<1> SUFFICES ASSUME Init PROVE DriveInv
  OBVIOUS
<1> USE DriveAssumption, TimesAreNatural
<1>1. command \in [mode : {"neutral", "velocity", "rawDuty"}, raw : [Wheels -> Duties],
                   demanding : BOOLEAN, validUntil : 0..(ClockSpan - 1)]
  BY DEF Init, Neutral, Zero, Duties
<1>2. /\ written \in [Wheels -> Duties]
      /\ staged \in [Wheels -> Duties \cup {NoWrite}]
      /\ applied \in [Wheels -> Duties \cup {Kept}]
  BY DEF Init, Zero, Duties, Kept
<1>3. /\ begun \in BOOLEAN /\ estopLatch \in BOOLEAN /\ stallHalted \in BOOLEAN
      /\ clearRequested \in BOOLEAN /\ wasForcedStop \in BOOLEAN /\ emergency \in BOOLEAN
  BY DEF Init
<1>4. /\ now \in 0..(ClockSpan - 1) /\ config \in Configs \cup {"nothing"}
      /\ stallSince \in 0..(ClockSpan - 1) /\ countdown \in 0..StopEnforceTicks
      /\ phase = "off" /\ due \in Nat /\ late \in 0..MaxLate /\ spent \in 0..SettleTime
      /\ faults \in 0..MaxFaults /\ elapsed \in 0..MaxIdle /\ granted \in Leases \cup {0}
      /\ haltedFor \in -1..(Reaction + 1)
  BY DEF Init
<1>5. ~emergency BY DEF Init
<1>6. DriveTypeOK BY <1>1, <1>2, <1>3, <1>4 DEF DriveTypeOK
<1> QED BY <1>4, <1>5, <1>6 DEF DriveInv, FiberOnTime, OnlyStopsAfterEmergency

\* The halt clock is an instrument of the model and stays in range.
LEMMA HaltClockKeeps ==
  ASSUME DriveTypeOK, HaltClock
  PROVE  haltedFor' \in -1..(Reaction + 1)
  BY TimesAreNatural DEF DriveTypeOK, HaltClock

\* Whatever the main fiber calls, in whatever order.
LEMMA MainFiberKeeps ==
  ASSUME DriveInv, MainFiber, HaltClock
  PROVE  DriveInv'
<1> USE DriveAssumption DEF DriveInv, DriveTypeOK, FiberOnTime, OnlyStopsAfterEmergency,
        fiberVars, motorVars, mailboxVars, kernelVars, historyVars
<1>0. haltedFor' \in -1..(Reaction + 1) BY HaltClockKeeps
<1>1. Zero \in [Wheels -> Duties] BY DEF Zero, Duties
<1>2. CASE \E c \in Configs : SetConfig(c) BY <1>0, <1>2 DEF SetConfig
<1>3. CASE Begin BY <1>0, <1>3 DEF Begin
<1>4. CASE Start BY <1>0, <1>4 DEF Start
<1>5. ASSUME NEW c \in [mode : {"neutral", "velocity", "rawDuty"}, raw : [Wheels -> Duties],
                        demanding : BOOLEAN, validUntil : 0..(ClockSpan - 1)],
             NEW lease \in Leases, TakeCommand(c, lease)
      PROVE  DriveInv'
  BY <1>0, <1>5 DEF TakeCommand
<1>6. \A lease \in Leases : ValidUntil(lease) \in 0..(ClockSpan - 1)
  BY ClockWraps DEF ValidUntil
<1>7. ASSUME NEW lease \in Leases, NEW demanding \in Demands, Drive(demanding, lease)
      PROVE  DriveInv'
  <2>1. (StallWindow > 0) \in BOOLEAN OBVIOUS
  <2>2. demanding \in BOOLEAN BY <2>1, Zenon DEF Demands
  <2> QED BY <1>1, <1>5, <1>6, <1>7, <2>2 DEF Drive
<1>8. ASSUME NEW lease \in Leases, NEW raw \in [Wheels -> Duties], DriveDuty(raw, lease)
      PROVE  DriveInv'
  BY <1>5, <1>6, <1>8 DEF DriveDuty
<1>9. CASE CommandNeutral
  <2>1. Neutral \in [mode : {"neutral", "velocity", "rawDuty"}, raw : [Wheels -> Duties],
                     demanding : BOOLEAN, validUntil : 0..(ClockSpan - 1)]
    BY <1>1 DEF Neutral
  <2> QED BY <1>0, <1>9, <2>1 DEF CommandNeutral
<1>10. CASE Estop BY <1>0, <1>10 DEF Estop
<1>11. CASE EstopClear
  <2>1. ~emergency' /\ emergency' \in BOOLEAN /\ estopLatch' \in BOOLEAN
    BY <1>11 DEF EstopClear
  <2>2. UNCHANGED <<now, begun, fiberVars, motorVars, config, command, clearRequested,
                    kernelVars, elapsed, granted>>
    BY <1>11 DEF EstopClear
  <2> QED BY <1>0, <2>1, <2>2
<1>12. CASE EmergencyStopMotors
  <2>1. /\ staged' = [w \in Wheels |-> NoWrite] /\ applied' = Zero
    BY <1>12 DEF EmergencyStopMotors, EmergencyStop
  <2>2. applied' \in [Wheels -> Duties \cup {Kept}] BY <1>1, <2>1
  <2> QED BY <1>0, <1>12, <2>1, <2>2 DEF EmergencyStopMotors
<1>13. CASE ClearStallLatch BY <1>0, <1>13 DEF ClearStallLatch
<1> QED BY <1>2, <1>3, <1>4, <1>7, <1>8, <1>9, <1>10, <1>11, <1>12, <1>13 DEF MainFiber

\* A millisecond, of the kernel's sleep or of somebody else's work.
LEMMA TimePassesKeeps ==
  ASSUME DriveInv, TimePasses, HaltClock
  PROVE  DriveInv'
<1> USE DriveAssumption DEF DriveInv, DriveTypeOK, OnlyStopsAfterEmergency,
        fiberVars, motorVars, mailboxVars, kernelVars, historyVars
<1>0. haltedFor' \in -1..(Reaction + 1) BY HaltClockKeeps
<1>1. now' \in 0..(ClockSpan - 1) BY ClockWraps DEF TimePasses
<1>2. elapsed' \in 0..MaxIdle BY DEF TimePasses
<1>3. UNCHANGED <<begun, motorVars, mailboxVars, kernelVars, granted, emergency>>
  BY DEF TimePasses
<1>4. /\ phase' \in {"off", "pace", "left", "right"} /\ due' \in Nat
      /\ late' \in 0..MaxLate /\ spent' \in 0..SettleTime /\ FiberOnTime'
  BY DEF TimePasses, FiberOnTime, SettleTime
<1> QED BY <1>0, <1>1, <1>2, <1>3, <1>4

\* The gates and the control step: after an emergency stop they choose neutral.
LEMMA CycleStartsKeeps ==
  ASSUME DriveInv, CycleStarts, HaltClock
  PROVE  DriveInv'
<1> USE DriveAssumption
<1>0. haltedFor' \in -1..(Reaction + 1) BY HaltClockKeeps DEF DriveInv
<1> DEFINE stalled == stallHalted /\ ~clearRequested
           halted  == estopLatch \/ stalled
           entered == halted /\ ~wasForcedStop
           ticks   == IF entered THEN StopEnforceTicks ELSE countdown
           since   == IF entered \/ clearRequested THEN 0 ELSE stallSince
           mode    == Effective(stalled, config)
<1>1. wasForcedStop' = halted /\ ControlStep(mode, config, ticks, since, stalled)
  BY DEF CycleStarts
<1>2. stalled \in BOOLEAN /\ halted \in BOOLEAN OBVIOUS
<1>3. ticks \in 0..StopEnforceTicks /\ since \in 0..(ClockSpan - 1)
  BY DEF DriveInv, DriveTypeOK
<1>4. /\ mode \in {"neutral", "velocity", "rawDuty"}
      /\ estopLatch => mode = "neutral"
  BY DEF DriveInv, DriveTypeOK, Effective
<1>5. PICK m \in {"neutral", "velocity", "rawDuty"}, t \in 0..StopEnforceTicks,
           f \in 0..(ClockSpan - 1), b \in BOOLEAN,
           c \in Configs \cup {"nothing"} :
        ControlStep(m, c, t, f, b) /\ (estopLatch => m = "neutral")
  <2> HIDE DEF stalled, halted, entered, ticks, since, mode
  <2>1. config \in Configs \cup {"nothing"} BY DEF DriveInv, DriveTypeOK
  <2> QED BY <2>1, <1>1, <1>2, <1>3, <1>4
<1>6. /\ countdown' \in 0..StopEnforceTicks
      /\ staged' \in [Wheels -> Duties \cup {NoWrite}]
      /\ written' \in [Wheels -> Duties]
      /\ stallSince' \in 0..(ClockSpan - 1) /\ stallHalted' \in BOOLEAN
      /\ m = "neutral" => staged' = staged \/ staged' = Zero
  <2>1. DriveTypeOK BY DEF DriveInv
  <2>2. ControlStep(m, c, t, f, b) BY <1>5
  <2> HIDE DEF stalled, halted, entered, ticks, since, mode
  <2> QED BY <2>1, <2>2, ControlStepKeeps
<1>7. wasForcedStop' \in BOOLEAN BY <1>1, <1>2, Zenon
<1> HIDE DEF stalled, halted, ticks, since, mode
<1>8. /\ clearRequested' \in BOOLEAN /\ phase' = "left" /\ due' = Settle /\ late' = 0 /\ spent' = 0
      /\ UNCHANGED <<now, begun, applied, faults, config, command, estopLatch,
                     elapsed, granted, emergency>>
  BY DEF CycleStarts
<1>9. DriveTypeOK'
  BY <1>0, <1>6, <1>7, <1>8, TimesAreNatural DEF DriveInv, DriveTypeOK
<1>10. FiberOnTime' BY <1>8 DEF FiberOnTime
<1>11. OnlyStopsAfterEmergency'
  <2> SUFFICES ASSUME emergency' PROVE OnlyStopsAfterEmergency'
    BY DEF OnlyStopsAfterEmergency
  <2>1. emergency BY <1>8
  <2>2. estopLatch /\ applied = Zero /\ \A w \in Wheels : staged[w] \in {0, NoWrite}
    BY <2>1 DEF DriveInv, OnlyStopsAfterEmergency
  <2>3. staged' = staged \/ staged' = Zero BY <1>5, <1>6, <2>2
  <2>4. \A w \in Wheels : staged'[w] \in {0, NoWrite} BY <2>2, <2>3 DEF Zero
  <2> QED BY <1>8, <2>2, <2>4 DEF OnlyStopsAfterEmergency
<1> QED BY <1>9, <1>10, <1>11 DEF DriveInv

\* What a tick of one motor does to both wheels.
LEMMA MotorTickKeeps ==
  ASSUME DriveInv, NEW w \in Wheels, MotorTick(w)
  PROVE  /\ applied' \in [Wheels -> Duties \cup {Kept}] /\ faults' \in 0..MaxFaults
         /\ emergency => applied' = Zero
<1> USE DriveAssumption DEF DriveInv, DriveTypeOK
<1>1. applied' \in [Wheels -> Duties \cup {Kept}] BY DEF MotorTick
<1>2. faults' \in 0..MaxFaults BY DEF MotorTick
<1>3. ASSUME emergency PROVE applied' = Zero
  <2>1. applied = Zero /\ staged[w] \in {0, NoWrite}
    BY <1>3 DEF OnlyStopsAfterEmergency
  <2>2. applied' = applied \/ applied' = [applied EXCEPT ![w] = 0]
    BY <2>1 DEF MotorTick, Zero
  <2> QED BY <2>1, <2>2 DEF Zero
<1> QED BY <1>1, <1>2, <1>3

\* The two motors' ticks, at the end of the two sleeps.
LEMMA TicksKeep ==
  ASSUME DriveInv, LeftTicks \/ RightTicks, HaltClock
  PROVE  DriveInv'
<1> USE DriveAssumption DEF DriveInv, DriveTypeOK, mailboxVars, kernelVars, historyVars
<1>0. haltedFor' \in -1..(Reaction + 1) BY HaltClockKeeps
<1>1. PICK w \in Wheels : MotorTick(w) /\ staged' = [staged EXCEPT ![w] = NoWrite]
  BY DEF LeftTicks, RightTicks, Wheels
<1>2. /\ applied' \in [Wheels -> Duties \cup {Kept}] /\ faults' \in 0..MaxFaults
      /\ emergency => applied' = Zero
  BY <1>1, MotorTickKeeps
<1>3. UNCHANGED <<now, begun, spent, mailboxVars, kernelVars, historyVars>>
  BY DEF LeftTicks, RightTicks
<1>4. /\ phase' \in {"pace", "right"} /\ due' \in Nat /\ late' = 0 /\ FiberOnTime'
  BY DEF LeftTicks, RightTicks, FiberOnTime, SettleTime
<1>5. staged' \in [Wheels -> Duties \cup {NoWrite}] BY <1>1
<1>6. OnlyStopsAfterEmergency' BY <1>1, <1>2, <1>3 DEF OnlyStopsAfterEmergency
<1> QED BY <1>0, <1>2, <1>3, <1>4, <1>5, <1>6

\* The inductive invariant holds in every reachable state.
THEOREM DriveInvariantHolds == Spec => []DriveInv
<1>1. Init => DriveInv BY DriveInitHolds
<1>2. DriveInv /\ [Next]_vars => DriveInv'
  <2> SUFFICES ASSUME DriveInv, [Next]_vars PROVE DriveInv'
    OBVIOUS
  <2>1. CASE Next
    BY <2>1, MainFiberKeeps, TimePassesKeeps, CycleStartsKeeps, TicksKeep
       DEF Next, KernelFiber
  <2>2. CASE UNCHANGED vars
    BY <2>2 DEF vars, fiberVars, motorVars, mailboxVars, kernelVars, historyVars,
                DriveInv, DriveTypeOK, FiberOnTime, OnlyStopsAfterEmergency
  <2> QED BY <2>1, <2>2
<1> QED BY <1>1, <1>2, PTL DEF Spec

\* Every variable of the kernel keeps its type, whatever the clock's span and
\* however late the kernel wakes (differential_drive.h:380-556).
THEOREM DriveTypeCorrect == Spec => []DriveTypeOK
<1>1. DriveInv => DriveTypeOK BY DEF DriveInv
<1> QED BY <1>1, DriveInvariantHolds, PTL

\* Whatever is called in whatever order, after emergencyStopMotors() no wheel is
\* driven until the latch is cleared (differential_drive.cpp:464-471).
THEOREM EmergencyIsFinal == Spec => []NothingAfterEmergency
<1>1. DriveInv => NothingAfterEmergency
  BY DEF DriveInv, OnlyStopsAfterEmergency, NothingAfterEmergency
<1> QED BY <1>1, DriveInvariantHolds, PTL

(***************************************************************************)
(* Stops                                                                   *)
(***************************************************************************)

\* The conditions the results are stated under: fewer writes are lost than a
\* stop is repeated, and a caller is silent for half the clock's span at most.
FewerLostThanRepeated == MaxFaults < StopEnforceTicks
SilentForHalfTheClock == 2 * MaxIdle <= ClockSpan

Lease == IF granted > LeaseMax THEN LeaseMax ELSE granted

\* The deadline in the mailbox is as far ahead as the lease says, or a whole turn
\* of the clock from there.
DeadlineIsLease ==
  command.mode # "neutral" =>
    command.validUntil - now \in {Lease - elapsed - ClockSpan, Lease - elapsed,
                                  Lease - elapsed + ClockSpan}

\* What is staged is what the kernel last wrote, and is ticked within its cycle.
StagedIsWritten ==
  /\ \A w \in Wheels : staged[w] # NoWrite => staged[w] = written[w]
  /\ phase \in {"off", "pace"} => \A w \in Wheels : staged[w] = NoWrite
  /\ phase = "right" => staged["left"] = NoWrite
  /\ phase = "off" => written = Zero /\ \A w \in Wheels : applied[w] # 1
  /\ ~begun => phase = "off"

\* A wheel that was told to stop and still drives has lost a write for every
\* repetition that was counted down, but for one that is still staged.
StopsRepeated ==
  \A w \in Wheels : begun /\ written = Zero /\ applied[w] # 0 =>
    IF staged[w] = NoWrite THEN faults + countdown >= StopEnforceTicks
    ELSE faults + countdown + 1 >= StopEnforceTicks

\* How long after its beginning a cycle is followed by the next.
Longest == IF spent < CyclePeriod THEN CyclePeriod ELSE spent

PacedInTime == phase \in {"off", "pace"} => due <= Longest

\* What a number of lost writes costs.
Delay(n) == n * Cycle

\* A clock that ran when no drive was written: a drive was written at the start
\* of a cycle at the latest, and a wheel with one of the duties in D was to be
\* stopped in the cycle after that, or in one more for every lost write.
OnTime(x, D) ==
  /\ phase \in {"left", "right"} /\ written # Zero => x <= spent
  /\ phase = "pace" /\ written # Zero => x + due <= Longest + late
  /\ \A w \in Wheels : applied[w] \in D /\ written = Zero =>
       /\ phase = "off" => x <= 0
       /\ phase = "pace" => x + due <= Delay(faults) + Longest + late
       /\ phase \in {"left", "right"} =>
            x <= Delay(IF staged[w] = NoWrite THEN faults ELSE faults + 1) + spent

\* The clock of the reasons to halt runs exactly while there is one.
HaltIsCounted == haltedFor # -1 <=> Halted

StopInv  == DriveInv /\ StagedIsWritten /\ PacedInTime /\ StopsRepeated
LeaseInv == StopInv /\ DeadlineIsLease /\ OnTime(elapsed - Lease, {1})
HaltInv  == StopInv /\ HaltIsCounted /\ OnTime(haltedFor, {1, Kept})

\* The constants, as the arithmetic below needs them.
LEMMA CycleIsLongEnough ==
  /\ SettleTime \in Nat /\ Cycle \in Nat
  /\ SettleTime <= Cycle /\ MaxLate + SettleTime <= Cycle
  /\ MaxLate + CyclePeriod <= Cycle
  BY DriveAssumption, TimesAreNatural DEF Cycle

\* Delays add up, and are those of MaxFaults at most.
LEMMA DelaysAdd ==
  /\ \A n \in Nat : Delay(n) \in Nat /\ Delay(n + 1) = Delay(n) + Cycle
  /\ \A n \in 0..MaxFaults : Delay(n) <= Delay(MaxFaults)
  /\ Reaction = Delay(MaxFaults) + Cycle + SettleTime
<1> USE CycleIsLongEnough, DriveAssumption
<1>1. \A n, c \in Nat : n * c \in Nat /\ (n + 1) * c = n * c + c OBVIOUS
<1>2. \A n, m, c \in Nat : n <= m => n * c <= m * c OBVIOUS
<1>3. MaxFaults \in Nat OBVIOUS
<1>4. Cycle \in Nat OBVIOUS
<1>5. \A n \in Nat : Delay(n) \in Nat /\ Delay(n + 1) = Delay(n) + Cycle
  BY <1>1, <1>4 DEF Delay
<1>6. \A n \in 0..MaxFaults : Delay(n) <= Delay(MaxFaults)
  BY <1>2, <1>3, <1>4 DEF Delay
<1>7. Reaction = Delay(MaxFaults) + Cycle + SettleTime
  BY <1>1, <1>3, <1>4 DEF Delay, Reaction
<1> QED BY <1>5, <1>6, <1>7

\* What the control step writes, it stages; what it does not write was a stop
\* that needed no repeating.
LEMMA StageDutyWrites ==
  ASSUME DriveTypeOK, NEW duty \in [Wheels -> Duties],
         NEW ticks \in 0..StopEnforceTicks, StageDuty(duty, ticks)
  PROVE  /\ \/ staged' = duty /\ written' = duty
            \/ /\ staged' = staged /\ written' = written
               /\ written = Zero /\ duty = Zero /\ ticks = 0
         /\ countdown' \in 0..StopEnforceTicks
         /\ duty = Zero => \/ countdown' = StopEnforceTicks
                           \/ written = Zero /\ countdown' + 1 >= ticks
  BY DriveAssumption DEF StageDuty

\* The control step writes a drive in a driving mode only, under authority.
LEMMA ControlStepWrites ==
  ASSUME DriveTypeOK, NEW mode, NEW cfg, NEW ticks, NEW since, NEW stalled,
         ControlStep(mode, cfg, ticks, since, stalled)
  PROVE  \E duty \in [Wheels -> Duties] :
           /\ StageDuty(duty, ticks)
           /\ duty # Zero => mode # "neutral" /\ cfg \in Authority
<1>1. Zero \in [Wheels -> Duties] BY DEF Zero, Duties
<1>2. command.raw \in [Wheels -> Duties] BY DEF DriveTypeOK
<1>3. CASE mode = "neutral" BY <1>1, <1>3 DEF ControlStep
<1>4. CASE mode = "rawDuty" BY <1>1, <1>2, <1>4 DEF ControlStep, Permitted
<1>5. CASE mode = "velocity" BY <1>1, <1>5 DEF ControlStep, Permitted
<1> QED BY <1>3, <1>4, <1>5 DEF ControlStep

\* The start of a cycle, as far as stops depend on it: it repeats a stop while
\* the countdown runs, and writes a drive only if the lease is live and there is
\* no reason to halt.
LEMMA CycleStartsWrites ==
  ASSUME DriveTypeOK, CycleStarts
  PROVE  \E duty \in [Wheels -> Duties] :
           /\ \/ staged' = duty /\ written' = duty
              \/ /\ staged' = staged /\ written' = written
                 /\ written = Zero /\ duty = Zero /\ countdown = 0
           /\ countdown' \in 0..StopEnforceTicks
           /\ duty = Zero => \/ countdown' = StopEnforceTicks
                             \/ written = Zero /\ countdown' + 1 >= countdown
           /\ duty # Zero => LeaseLive(command) /\ ~Halted
<1> DEFINE stalled == stallHalted /\ ~clearRequested
           halted  == estopLatch \/ stalled
           entered == halted /\ ~wasForcedStop
           ticks   == IF entered THEN StopEnforceTicks ELSE countdown
           since   == IF entered \/ clearRequested THEN 0 ELSE stallSince
           mode    == Effective(stalled, config)
<1>1. ControlStep(mode, config, ticks, since, stalled) BY DEF CycleStarts
<1>2. mode # "neutral" =>
        LeaseLive(command) /\ command.mode # "neutral" /\ ~stalled /\ ~estopLatch
  BY DEF Effective, LeaseLive
<1>3. (mode # "neutral" /\ config \in Authority) => LeaseLive(command) /\ ~Halted
  BY <1>2 DEF Halted
<1>4. /\ ticks \in 0..StopEnforceTicks /\ countdown \in 0..StopEnforceTicks
      /\ ticks >= countdown
  BY DriveAssumption DEF DriveTypeOK
<1>5. PICK duty \in [Wheels -> Duties] :
        /\ StageDuty(duty, ticks)
        /\ duty # Zero => mode # "neutral" /\ config \in Authority
  <2> HIDE DEF stalled, halted, entered, ticks, since, mode
  <2> QED BY <1>1, ControlStepWrites
<1> HIDE DEF stalled, halted, entered, ticks, since, mode
<1>6. /\ \/ staged' = duty /\ written' = duty
         \/ /\ staged' = staged /\ written' = written
            /\ written = Zero /\ duty = Zero /\ ticks = 0
      /\ countdown' \in 0..StopEnforceTicks
      /\ duty = Zero => \/ countdown' = StopEnforceTicks
                        \/ written = Zero /\ countdown' + 1 >= ticks
  BY <1>4, <1>5, StageDutyWrites
<1>7. ticks = 0 => countdown = 0 BY <1>4
<1>8. countdown' + 1 >= ticks => countdown' + 1 >= countdown
  <2>1. \A a, b, c \in Nat : a + 1 >= b /\ b >= c => a + 1 >= c OBVIOUS
  <2>2. countdown' \in Nat BY <1>6
  <2>3. ticks \in Nat /\ countdown \in Nat BY <1>4
  <2> QED BY <1>4, <2>1, <2>2, <2>3
<1> QED BY <1>3, <1>5, <1>6, <1>7, <1>8

\* Every step keeps the kernel's own invariant.
LEMMA NextKeepsDriveInv ==
  ASSUME DriveInv, Next
  PROVE  DriveInv'
  BY MainFiberKeeps, TimePassesKeeps, CycleStartsKeeps, TicksKeep DEF Next, KernelFiber

\* The main fiber at most drops what is staged, and stops the wheels with it; the
\* kernel fiber starts after begin(), which has stops repeated.
LEMMA MainFiberLeaves ==
  ASSUME MainFiber
  PROVE  /\ UNCHANGED <<due, late, spent, written, now, faults>>
         /\ \/ UNCHANGED <<phase, begun, countdown>>
            \/ UNCHANGED <<phase, staged, applied>> /\ begun' = TRUE /\ ~begun
                 /\ countdown' = StopEnforceTicks
            \/ UNCHANGED <<begun, countdown>> /\ begun /\ phase = "off" /\ phase' = "pace"
         /\ \/ UNCHANGED <<staged, applied>>
            \/ staged' = [w \in Wheels |-> NoWrite] /\ applied' = Zero
  BY DEF MainFiber, SetConfig, Begin, Start, Drive, DriveDuty, TakeCommand,
         CommandNeutral, Estop, EstopClear, EmergencyStopMotors, EmergencyStop,
         ClearStallLatch, fiberVars, motorVars, mailboxVars, kernelVars, historyVars

\* No call both stops the motors and starts the kernel.
LEMMA MainFiberNeverBoth ==
  ASSUME MainFiber
  PROVE  UNCHANGED <<staged, applied>> \/ (applied' = Zero /\ UNCHANGED <<begun, phase>>)
  BY DEF MainFiber, SetConfig, Begin, Start, Drive, DriveDuty, TakeCommand,
         CommandNeutral, Estop, EstopClear, EmergencyStopMotors, EmergencyStop,
         ClearStallLatch, fiberVars, motorVars, mailboxVars, kernelVars, historyVars

\* A tick takes the write from the motor; the wheel gets it, or it is lost.
LEMMA TickMoves ==
  ASSUME DriveTypeOK, NEW w \in Wheels, MotorTick(w),
         staged' = [staged EXCEPT ![w] = NoWrite]
  PROVE  /\ staged'[w] = NoWrite
         /\ \A v \in Wheels : v # w => staged'[v] = staged[v] /\ applied'[v] = applied[v]
         /\ \/ faults' = faults /\ staged[w] = NoWrite /\ applied'[w] = applied[w]
            \/ faults' = faults /\ staged[w] # NoWrite /\ applied'[w] = staged[w]
            \/ faults' = faults + 1 /\ staged[w] # NoWrite /\ applied'[w] = applied[w]
  BY DEF DriveTypeOK, MotorTick

\* At power-up nothing has been written.
LEMMA StopInitHolds == Init => StopInv
<1> SUFFICES ASSUME Init PROVE StopInv
  OBVIOUS
<1>1. DriveInv BY DriveInitHolds
<1>2. StagedIsWritten BY DriveAssumption DEF Init, StagedIsWritten, Zero, NoWrite
<1>3. PacedInTime BY DriveAssumption DEF Init, PacedInTime, Longest
<1>4. StopsRepeated BY DEF Init, StopsRepeated
<1> QED BY <1>1, <1>2, <1>3, <1>4 DEF StopInv

\* What is staged stays what was written.
LEMMA StagedStaysWritten ==
  ASSUME StopInv, Next
  PROVE  StagedIsWritten'
<1> USE DEF StopInv
<1>0. DriveTypeOK BY DEF DriveInv
<1>1. CASE MainFiber
  <2>1. CASE UNCHANGED <<staged, applied>>
    BY <1>1, <2>1, MainFiberLeaves DEF StagedIsWritten
  <2>2. CASE staged' = [w \in Wheels |-> NoWrite] /\ applied' = Zero
    <3>1. \A w \in Wheels : staged'[w] = NoWrite /\ applied'[w] = 0
      BY <2>2 DEF Zero
    <3>2. "left" \in Wheels BY DEF Wheels
    <3>3. UNCHANGED written /\ (phase' = "off" => phase = "off") /\ (~begun' => phase' = "off")
      BY <1>1, MainFiberLeaves DEF StagedIsWritten
    <3> QED BY <3>1, <3>2, <3>3 DEF StagedIsWritten
  <2> QED BY <1>1, <2>1, <2>2, MainFiberLeaves
<1>2. CASE CycleStarts
  <2>1. /\ phase = "pace" /\ phase' = "left" /\ UNCHANGED <<applied, begun>>
    BY <1>2 DEF CycleStarts
  <2>2. PICK duty \in [Wheels -> Duties] :
          \/ staged' = duty /\ written' = duty
          \/ staged' = staged /\ written' = written
    BY <1>0, <1>2, CycleStartsWrites
  <2> QED BY <2>1, <2>2 DEF StagedIsWritten
<1>3. CASE LeftTicks
  <2>1. /\ phase = "left" /\ phase' = "right" /\ UNCHANGED <<written, begun>>
        /\ staged' = [staged EXCEPT !["left"] = NoWrite]
        /\ MotorTick("left")
    BY <1>3 DEF LeftTicks, kernelVars
  <2>2. /\ staged'["left"] = NoWrite
        /\ \A v \in Wheels : v # "left" => staged'[v] = staged[v]
    BY <1>0, <2>1, TickMoves DEF Wheels
  <2> QED BY <2>1, <2>2 DEF StagedIsWritten, Wheels
<1>4. CASE RightTicks
  <2>1. /\ phase = "right" /\ phase' = "pace" /\ UNCHANGED <<written, begun>>
        /\ staged' = [staged EXCEPT !["right"] = NoWrite]
        /\ MotorTick("right")
    BY <1>4 DEF RightTicks, kernelVars
  <2>2. /\ staged'["right"] = NoWrite
        /\ \A v \in Wheels : v # "right" => staged'[v] = staged[v]
    BY <1>0, <2>1, TickMoves DEF Wheels
  <2> QED BY <2>1, <2>2 DEF StagedIsWritten, Wheels
<1>5. CASE TimePasses
  BY <1>5 DEF TimePasses, motorVars, kernelVars, fiberVars, StagedIsWritten
<1> QED BY <1>1, <1>2, <1>3, <1>4, <1>5 DEF Next, KernelFiber

\* Between two cycles the kernel sleeps to its deadline, not longer.
LEMMA PaceStaysInTime ==
  ASSUME StopInv, Next
  PROVE  PacedInTime'
<1> USE DriveAssumption DEF StopInv
<1>1. CASE MainFiber
  BY <1>1, MainFiberLeaves DEF PacedInTime, Longest
<1>2. CASE CycleStarts \/ LeftTicks
  BY <1>2 DEF CycleStarts, LeftTicks, PacedInTime
<1>3. CASE RightTicks
  BY <1>3 DEF RightTicks, PacedInTime, Longest, DriveInv, DriveTypeOK
<1>4. CASE TimePasses
  BY <1>4 DEF TimePasses, PacedInTime, Longest, fiberVars, DriveInv, DriveTypeOK
<1> QED BY <1>1, <1>2, <1>3, <1>4 DEF Next, KernelFiber

\* A write that is lost is counted against its repetition.
LEMMA StopsStayRepeated ==
  ASSUME StopInv, Next
  PROVE  StopsRepeated'
<1> USE DEF StopInv
<1>0. /\ DriveTypeOK /\ faults \in Nat /\ countdown \in Nat /\ StopEnforceTicks \in Nat
  BY DriveAssumption DEF DriveInv, DriveTypeOK
<1> DEFINE Owed(w) == IF staged[w] = NoWrite THEN faults + countdown >= StopEnforceTicks
                      ELSE faults + countdown + 1 >= StopEnforceTicks
<1> SUFFICES ASSUME NEW w \in Wheels, begun', written' = Zero, applied'[w] # 0
             PROVE  Owed(w)'
  BY DEF StopsRepeated
<1>1. CASE MainFiber
  <2>1. applied' = applied /\ staged' = staged /\ written' = written /\ faults' = faults
    BY <1>1, MainFiberLeaves DEF Zero
  <2>2. CASE UNCHANGED <<begun, countdown>>
    BY <2>1, <2>2 DEF StopsRepeated
  <2>3. CASE countdown' = StopEnforceTicks
    <3>1. \A a, b \in Nat : a + b >= b /\ a + b + 1 >= b OBVIOUS
    <3> QED BY <1>0, <2>1, <2>3, <3>1
  <2> QED BY <1>1, <2>2, <2>3, MainFiberLeaves
<1>2. CASE CycleStarts
  <2>1. /\ phase = "pace" /\ UNCHANGED <<applied, begun, faults>>
    BY <1>2 DEF CycleStarts
  <2>2. PICK duty \in [Wheels -> Duties] :
           /\ \/ staged' = duty /\ written' = duty
              \/ /\ staged' = staged /\ written' = written
                 /\ written = Zero /\ duty = Zero /\ countdown = 0
           /\ countdown' \in 0..StopEnforceTicks
           /\ duty = Zero => \/ countdown' = StopEnforceTicks
                             \/ written = Zero /\ countdown' + 1 >= countdown
    BY <1>0, <1>2, CycleStartsWrites
  <2>3. staged[w] = NoWrite BY <2>1 DEF StagedIsWritten
  <2>4. written = Zero => faults + countdown >= StopEnforceTicks
    BY <2>1, <2>3 DEF StopsRepeated
  <2>5. duty = Zero BY <2>2
  <2>6. countdown' \in Nat BY <1>0, <2>2
  <2>7. CASE countdown' = StopEnforceTicks
    <3>1. \A a, b \in Nat : a + b >= b /\ a + b + 1 >= b OBVIOUS
    <3> QED BY <1>0, <2>1, <2>7, <3>1
  <2>8. CASE written = Zero /\ countdown' + 1 >= countdown /\ staged' = duty
    <3>1. staged'[w] # NoWrite BY <2>5, <2>8 DEF Zero, NoWrite
    <3>2. \A f, c, d, n \in Nat : f + c >= n /\ d + 1 >= c => f + d + 1 >= n OBVIOUS
    <3>3. faults + countdown' + 1 >= StopEnforceTicks
      BY <1>0, <2>4, <2>6, <2>8, <3>2
    <3> QED BY <2>1, <3>1, <3>3
  <2>9. CASE staged' = staged /\ countdown = 0 /\ written = Zero
    <3>1. \A f, d, n \in Nat : f + 0 >= n => f + d >= n OBVIOUS
    <3>2. faults + countdown' >= StopEnforceTicks BY <1>0, <2>4, <2>6, <2>9, <3>1
    <3> QED BY <2>1, <2>3, <2>9, <3>2
  <2> QED BY <2>2, <2>5, <2>7, <2>8, <2>9
<1>3. CASE LeftTicks \/ RightTicks
  <2>1. PICK m \in Wheels : MotorTick(m) /\ staged' = [staged EXCEPT ![m] = NoWrite]
    BY <1>3 DEF LeftTicks, RightTicks, Wheels
  <2>2. UNCHANGED <<begun, written, countdown>>
    BY <1>3 DEF LeftTicks, RightTicks, kernelVars
  <2>3. /\ staged'[m] = NoWrite
        /\ \A v \in Wheels : v # m => staged'[v] = staged[v] /\ applied'[v] = applied[v]
        /\ \/ faults' = faults /\ staged[m] = NoWrite /\ applied'[m] = applied[m]
           \/ faults' = faults /\ staged[m] # NoWrite /\ applied'[m] = staged[m]
           \/ faults' = faults + 1 /\ staged[m] # NoWrite /\ applied'[m] = applied[m]
    BY <1>0, <2>1, TickMoves
  <2>4. applied'[w] = applied[w]
    <3>1. staged[w] # NoWrite => staged[w] = 0 BY <2>2 DEF StagedIsWritten, Zero
    <3> QED BY <2>3, <3>1
  <2>5. Owed(w) BY <2>2, <2>4 DEF StopsRepeated
  <2>6. \A f, c, n \in Nat : /\ f + c >= n => f + 1 + c >= n /\ f + c + 1 >= n
                             /\ f + c + 1 >= n => f + 1 + c >= n /\ f + 1 + c + 1 >= n
    OBVIOUS
  <2>7. CASE w = m
    <3>1. CASE staged[w] = NoWrite BY <2>2, <2>3, <2>5, <2>7, <3>1
    <3>2. CASE staged[w] # NoWrite
      <4>1. staged[w] = 0 BY <2>2, <3>2 DEF StagedIsWritten, Zero
      <4>2. faults' = faults + 1 BY <2>3, <2>7, <3>2, <4>1
      <4>3. faults + countdown + 1 >= StopEnforceTicks BY <2>5, <3>2
      <4>4. faults + 1 + countdown >= StopEnforceTicks BY <1>0, <2>6, <4>3
      <4> QED BY <2>2, <2>3, <2>7, <4>2, <4>4
    <3> QED BY <3>1, <3>2
  <2>8. CASE w # m
    <3>1. staged'[w] = staged[w] BY <2>3, <2>8
    <3>2. faults' = faults \/ faults' = faults + 1 BY <2>3
    <3> QED BY <1>0, <2>2, <2>5, <2>6, <3>1, <3>2
  <2> QED BY <2>7, <2>8
<1>4. CASE TimePasses
  BY <1>4 DEF TimePasses, motorVars, kernelVars, StopsRepeated
<1> QED BY <1>1, <1>2, <1>3, <1>4 DEF Next, KernelFiber

\* Together: every step keeps the account of stops.
LEMMA StopInvKept ==
  ASSUME StopInv, Next
  PROVE  StopInv'
  BY NextKeepsDriveInv, StagedStaysWritten, PaceStaysInTime, StopsStayRepeated DEF StopInv

\* A clock that was reset is on time.
LEMMA ResetIsOnTime ==
  ASSUME StopInv, StopInv', NEW y \in Int, y <= 0, NEW D
  PROVE  OnTime(y, D)'
<1>1. spent' \in Nat /\ late' \in Nat /\ due' \in Nat /\ faults' \in Nat
  BY CycleIsLongEnough, DriveAssumption DEF StopInv, DriveInv, DriveTypeOK
<1>2. phase' = "pace" => due' <= Longest'
  BY DEF StopInv, PacedInTime
<1>3. Longest' \in Nat BY <1>1, DriveAssumption DEF Longest
<1>4. \A a, b, c, d \in Nat : a <= b => y + a <= b + c /\ y + a <= d + b + c OBVIOUS
<1>5. \A a, b \in Nat : y <= a /\ y <= b + a OBVIOUS
<1>6. Delay(faults)' \in Nat /\ Delay(faults + 1)' \in Nat
  <2>1. \A n \in Nat : Delay(n) \in Nat /\ Delay(n + 1) \in Nat BY DelaysAdd
  <2> QED BY <1>1, <2>1 DEF Delay, Cycle, SettleTime
<1>7. phase' = "pace" => /\ y + due' <= Longest' + late'
                         /\ y + due' <= Delay(faults)' + Longest' + late'
  BY <1>1, <1>2, <1>3, <1>4, <1>6
<1>8. /\ y <= spent' /\ y <= Delay(faults)' + spent' /\ y <= Delay(faults + 1)' + spent'
  BY <1>1, <1>5, <1>6
<1> QED BY <1>7, <1>8 DEF OnTime

\* A wheel that was to be stopped has not waited for nothing: what is not staged
\* in a cycle need not be.
LEMMA QuietIsStopped ==
  ASSUME FewerLostThanRepeated, StopInv, phase = "pace", written = Zero, countdown = 0,
         NEW w \in Wheels
  PROVE  applied[w] = 0
<1>1. staged[w] = NoWrite /\ begun BY DEF StopInv, StagedIsWritten
<1>2. faults \in 0..MaxFaults BY DEF StopInv, DriveInv, DriveTypeOK
<1>3. applied[w] # 0 => faults + 0 >= StopEnforceTicks
  BY <1>1 DEF StopInv, StopsRepeated
<1> QED BY <1>2, <1>3, DriveAssumption DEF FewerLostThanRepeated

\* A clock that stands still stays on time, if no cycle starts to drive.
LEMMA StillIsOnTime ==
  ASSUME FewerLostThanRepeated, StopInv, StopInv', Next, ~TimePasses,
         NEW x \in Int, NEW y \in Int, y <= x,
         NEW D, 0 \notin D, OnTime(x, D),
         CycleStarts => written' = Zero \/ y <= 0
  PROVE  OnTime(y, D)'
<1> USE DriveAssumption DEF StopInv
<1>0. /\ spent \in 0..SettleTime /\ late \in 0..MaxLate /\ due \in Nat
      /\ faults \in Nat /\ DriveTypeOK
  BY DEF DriveInv, DriveTypeOK
<1>1. Delay(faults) \in Nat /\ Delay(faults + 1) = Delay(faults) + Cycle /\ Cycle \in Nat
  BY <1>0, DelaysAdd, CycleIsLongEnough
<1>2. CASE MainFiber
  <2>1. /\ UNCHANGED <<due, late, spent, written, faults>>
        /\ phase' = phase \/ (phase = "off" /\ phase' = "pace" /\ UNCHANGED <<staged, applied>>)
        /\ \A w \in Wheels : applied'[w] \in D =>
             staged'[w] = staged[w] /\ applied'[w] = applied[w]
    <3>1. UNCHANGED <<staged, applied>> \/ (applied' = Zero /\ UNCHANGED <<begun, phase>>)
      BY <1>2, MainFiberNeverBoth
    <3> QED BY <1>2, <3>1, MainFiberLeaves DEF Zero
  <2>2. CASE phase' = phase BY <1>0, <1>1, <2>1, <2>2 DEF OnTime, Longest, Delay
  <2>3. CASE phase = "off" /\ phase' = "pace"
    <3>1. written' = Zero /\ due <= Longest BY <2>1, <2>3 DEF StagedIsWritten, PacedInTime
    <3>2. \A w \in Wheels : applied'[w] \in D => x <= 0
      BY <2>1, <2>3, <3>1 DEF OnTime
    <3>3. x <= 0 => OnTime(y, D)' BY ResetIsOnTime
    <3> QED BY <2>3, <3>1, <3>2, <3>3 DEF OnTime
  <2> QED BY <2>1, <2>2, <2>3
<1>3. CASE CycleStarts
  <2>1. /\ phase = "pace" /\ phase' = "left" /\ due = 0 /\ spent' = 0
        /\ UNCHANGED <<applied, faults>>
    BY <1>3 DEF CycleStarts
  <2>2. CASE y <= 0 BY <2>2, ResetIsOnTime
  <2>3. CASE written' = Zero
    <3>1. SUFFICES ASSUME NEW w \in Wheels, applied[w] \in D
                   PROVE  /\ staged'[w] # NoWrite
                          /\ y <= Delay(faults + 1) + 0
      BY <2>1, <2>3 DEF OnTime, Delay
    <3>2. Longest + late <= Cycle
      BY <1>0, CycleIsLongEnough DEF Longest, Cycle
    <3>3. x <= Delay(faults) + Cycle
      <4>1. CASE written = Zero
        <5>1. x + 0 <= Delay(faults) + Longest + late
          BY <2>1, <3>1, <4>1 DEF OnTime
        <5>2. Longest \in Nat BY <1>0, CycleIsLongEnough DEF Longest
        <5> QED BY <1>0, <1>1, <3>2, <5>1, <5>2
      <4>2. CASE written # Zero
        <5>1. x + 0 <= Longest + late BY <2>1, <4>2 DEF OnTime
        <5>2. Longest \in Nat BY <1>0, CycleIsLongEnough DEF Longest
        <5> QED BY <1>0, <1>1, <3>2, <5>1, <5>2
      <4> QED BY <4>1, <4>2
    <3>4. PICK duty \in [Wheels -> Duties] :
            \/ staged' = duty /\ written' = duty
            \/ written = Zero /\ countdown = 0
      BY <1>0, <1>3, CycleStartsWrites
    <3>5. ~(written = Zero /\ countdown = 0)
      BY <2>1, <3>1, QuietIsStopped
    <3>6. staged'[w] # NoWrite BY <2>3, <3>4, <3>5 DEF Zero, NoWrite
    <3>7. y <= Delay(faults + 1) + 0 BY <1>1, <3>3
    <3> QED BY <3>6, <3>7
  <2> QED BY <1>3, <2>2, <2>3
<1>4. CASE LeftTicks \/ RightTicks
  <2>1. PICK m \in Wheels : /\ MotorTick(m) /\ staged' = [staged EXCEPT ![m] = NoWrite]
                            /\ \/ phase = "left" /\ phase' = "right" /\ m = "left"
                               \/ /\ phase = "right" /\ phase' = "pace" /\ m = "right"
                                  /\ late' = 0
                                  /\ due' = IF spent < CyclePeriod THEN CyclePeriod - spent ELSE 0
    BY <1>4 DEF LeftTicks, RightTicks, Wheels
  <2>2. UNCHANGED <<written, spent>>
    BY <1>4 DEF LeftTicks, RightTicks, kernelVars
  <2>3. /\ staged'[m] = NoWrite
        /\ \A v \in Wheels : v # m => staged'[v] = staged[v] /\ applied'[v] = applied[v]
        /\ \/ faults' = faults /\ staged[m] = NoWrite /\ applied'[m] = applied[m]
           \/ faults' = faults /\ staged[m] # NoWrite /\ applied'[m] = staged[m]
           \/ faults' = faults + 1 /\ staged[m] # NoWrite /\ applied'[m] = applied[m]
    BY <1>0, <2>1, TickMoves
  <2>4. ASSUME NEW w \in Wheels, applied'[w] \in D, written = Zero
        PROVE  y <= Delay(IF staged'[w] = NoWrite THEN faults' ELSE faults' + 1) + spent
    <3>1. applied'[w] = applied[w]
      <4>1. staged[w] # NoWrite => staged[w] = 0 BY <2>4 DEF StagedIsWritten, Zero
      <4> QED BY <2>3, <2>4, <4>1
    <3>2. x <= Delay(IF staged[w] = NoWrite THEN faults ELSE faults + 1) + spent
      BY <2>1, <2>4, <3>1 DEF OnTime
    <3>3. faults' = faults \/ faults' = faults + 1 BY <2>3
    <3>4. Delay(faults + 1) \in Nat /\ Delay(faults + 1 + 1) = Delay(faults + 1) + Cycle
      BY <1>0, <1>1, DelaysAdd
    <3>5. Delay(faults) <= Delay(faults + 1) /\ Delay(faults + 1) <= Delay(faults + 1 + 1)
      BY <1>1, <3>4
    <3>6. spent \in Nat BY <1>0, CycleIsLongEnough
    <3>7. CASE staged[w] = NoWrite
      <4>1. staged'[w] = NoWrite BY <2>3, <3>7
      <4>2. x <= Delay(faults) + spent BY <3>2, <3>7
      <4>3. y <= Delay(faults) + spent /\ y <= Delay(faults + 1) + spent
        BY <1>1, <3>4, <3>5, <3>6, <4>2
      <4> QED BY <3>3, <4>1, <4>3
    <3>8. CASE staged[w] # NoWrite
      <4>1. x <= Delay(faults + 1) + spent BY <3>2, <3>8
      <4>2. y <= Delay(faults + 1) + spent /\ y <= Delay(faults + 1 + 1) + spent
        BY <1>1, <3>4, <3>5, <3>6, <4>1
      <4>3. CASE w # m
        <5>1. staged'[w] # NoWrite BY <2>3, <3>8, <4>3
        <5> QED BY <3>3, <4>2, <5>1
      <4>4. CASE w = m
        <5>1. staged[w] = 0 BY <2>4, <3>8 DEF StagedIsWritten, Zero
        <5>2. faults' = faults + 1 BY <2>3, <2>4, <3>1, <3>8, <4>4, <5>1
        <5> QED BY <2>3, <4>2, <4>4, <5>2
      <4> QED BY <4>3, <4>4
    <3> QED BY <3>7, <3>8
  <2>5. written # Zero => x <= spent BY <2>1 DEF OnTime
  <2>6. CASE phase' = "right"
    <3>1. \A w \in Wheels : applied'[w] \in D /\ written = Zero =>
            y <= Delay(IF staged'[w] = NoWrite THEN faults' ELSE faults' + 1) + spent'
      BY <2>2, <2>4
    <3>2. written # Zero => y <= spent
      BY <1>0, <2>5, CycleIsLongEnough
    <3> QED BY <2>2, <2>6, <3>1, <3>2 DEF OnTime, Delay, Cycle, SettleTime
  <2>7. CASE phase' = "pace"
    <3>1. spent \in Nat BY <1>0, CycleIsLongEnough
    <3>2. due' \in Nat /\ spent + due' = Longest' /\ late' = 0
      BY <2>1, <2>2, <2>7, <3>1 DEF Longest
    <3>3. \A w \in Wheels : staged'[w] = NoWrite
      BY <2>7 DEF StagedIsWritten
    <3>4. faults' \in Nat BY <1>0, <2>3
    <3>5. Delay(faults') \in Nat BY <3>4, DelaysAdd
    <3>6. ASSUME NEW w \in Wheels, applied'[w] \in D, written = Zero
          PROVE  y + due' <= Delay(faults') + Longest' + late'
      <4>1. y <= Delay(faults') + spent BY <2>4, <3>3, <3>6
      <4>2. y + due' <= Delay(faults') + (spent + due') BY <3>1, <3>2, <3>5, <4>1
      <4>3. Longest' \in Nat BY <3>1, <3>2
      <4>4. Delay(faults') + Longest' + late' = Delay(faults') + Longest'
        BY <3>2, <3>5, <4>3
      <4> QED BY <3>2, <4>2, <4>4
    <3>7. written # Zero => y + due' <= Longest' + late'
      <4>1. Longest' \in Nat BY <3>1, <3>2
      <4>2. \A d, l \in Nat : x <= spent /\ spent + d = l => y + d <= l + 0 BY <3>1
      <4> QED BY <2>5, <3>2, <4>1, <4>2
    <3> QED BY <2>2, <2>7, <3>6, <3>7 DEF OnTime, Delay, Cycle, SettleTime
  <2> QED BY <2>1, <2>6, <2>7
<1> QED BY <1>2, <1>3, <1>4 DEF Next, KernelFiber

\* A clock that runs with the milliseconds once the kernel runs stays on time.
LEMMA RunningIsOnTime ==
  ASSUME StopInv, TimePasses,
         NEW x \in Int, NEW y \in Int, y <= x + 1,
         NEW D, OnTime(x, D), phase = "off" => y <= x \/ D = {1}
  PROVE  OnTime(y, D)'
<1> USE DEF StopInv
<1>0. /\ spent \in Nat /\ late \in Nat /\ due \in Nat /\ faults \in Nat
      /\ phase \in {"off", "pace", "left", "right"} /\ Longest \in Nat
  BY DriveAssumption, CycleIsLongEnough DEF DriveInv, DriveTypeOK, Longest
<1>1. UNCHANGED <<staged, applied, written, phase, faults>>
  BY DEF TimePasses, motorVars, kernelVars, fiberVars
<1>2. Delay(faults) \in Nat /\ Delay(faults + 1) \in Nat
  BY <1>0, DelaysAdd, CycleIsLongEnough
<1>3. CASE phase = "off"
  <2>1. \A w \in Wheels : applied[w] # 1 BY <1>3 DEF StagedIsWritten
  <2>2. written = Zero BY <1>3 DEF StagedIsWritten
  <2>3. \A w \in Wheels : applied[w] \in D => y <= 0
    BY <1>3, <2>1, <2>2 DEF OnTime
  <2> QED BY <1>1, <1>3, <2>2, <2>3 DEF OnTime
<1>4. CASE phase = "pace"
  <2>1. /\ spent' = spent
        /\ \/ due' = due - 1 /\ late' = late /\ due > 0
           \/ due' = due /\ late' = late + 1
    BY <1>4 DEF TimePasses
  <2>2. Longest' = Longest BY <2>1 DEF Longest
  <2>3. \A b \in Nat : x + due <= b + late => y + due' <= b + late'
    BY <1>0, <2>1
  <2>4. Delay(faults) + Longest \in Nat BY <1>0, <1>2
  <2>5. x + due <= Longest + late => y + due' <= Longest + late'
    BY <1>0, <2>3
  <2>6. x + due <= Delay(faults) + Longest + late => y + due' <= Delay(faults) + Longest + late'
    BY <2>3, <2>4
  <2> QED BY <1>1, <1>4, <2>2, <2>5, <2>6 DEF OnTime, Delay, Cycle, SettleTime
<1>5. CASE phase \in {"left", "right"}
  <2>1. spent' = spent + 1 BY <1>5 DEF TimePasses
  <2>2. x <= spent => y <= spent' BY <1>0, <2>1
  <2>3. \A b \in Nat : x <= b + spent => y <= b + spent' BY <1>0, <2>1
  <2>4. \A w \in Wheels :
          x <= Delay(IF staged[w] = NoWrite THEN faults ELSE faults + 1) + spent =>
          y <= Delay(IF staged[w] = NoWrite THEN faults ELSE faults + 1) + spent'
    BY <1>2, <2>3
  <2> QED BY <1>1, <1>5, <2>2, <2>4 DEF OnTime, Delay, Cycle, SettleTime
<1> QED BY <1>0, <1>3, <1>4, <1>5

\* A wheel still drives for the cycles that the lost writes cost, the rest of
\* a cycle that began before, and the two settles of the one that stops it.
LEMMA OnTimeStops ==
  ASSUME StopInv, NEW x \in Int, NEW D, OnTime(x, D),
         NEW w \in Wheels, applied[w] \in D
  PROVE  x <= Reaction
<1> USE DriveAssumption DEF StopInv
<1>1. /\ spent \in Nat /\ spent <= SettleTime /\ late \in Nat /\ late <= MaxLate
      /\ due \in Nat /\ faults \in 0..MaxFaults /\ Longest \in Nat
      /\ phase \in {"off", "pace", "left", "right"}
  BY CycleIsLongEnough DEF DriveInv, DriveTypeOK, Longest
<1>2. /\ Reaction = Delay(MaxFaults) + Cycle + SettleTime
      /\ Delay(faults) \in Nat /\ Delay(MaxFaults) \in Nat /\ Delay(faults) <= Delay(MaxFaults)
      /\ Delay(faults + 1) = Delay(faults) + Cycle
      /\ Cycle \in Nat /\ SettleTime \in Nat
  BY <1>1, DelaysAdd, CycleIsLongEnough
<1>3. Longest + late <= Cycle
  BY <1>1, CycleIsLongEnough DEF Longest
<1>4. \/ x <= spent \/ x + due <= Longest + late \/ x <= 0
      \/ x + due <= Delay(faults) + Longest + late
      \/ x <= Delay(faults) + spent \/ x <= Delay(faults + 1) + spent
  <2>1. CASE written # Zero
    <3>1. phase # "off" BY <2>1 DEF StagedIsWritten
    <3> QED BY <1>1, <2>1, <3>1 DEF OnTime
  <2>2. CASE written = Zero
    BY <1>1, <2>2 DEF OnTime
  <2> QED BY <2>1, <2>2
<1> HIDE DEF StopInv
<1> QED BY <1>1, <1>2, <1>3, <1>4

\* Differences on the clock's face.
LEMMA Wraps ==
  \A d \in Int : /\ 0 <= d /\ d < ClockSpan => d % ClockSpan = d
                 /\ -ClockSpan <= d /\ d < 0 => d % ClockSpan = d + ClockSpan
                 /\ ClockSpan <= d /\ d < 2 * ClockSpan => d % ClockSpan = d - ClockSpan
  BY DriveAssumption

\* Only time moves the clock.
LEMMA TimeMoves ==
  ASSUME DriveTypeOK, TimePasses
  PROVE  now' # now /\ now' \in {now + 1, now + 1 - ClockSpan}
<1>1. now \in 0..(ClockSpan - 1) BY DEF DriveTypeOK
<1>2. PICK d \in Int : d = now + 1 BY <1>1, DriveAssumption
<1>3. 0 <= d /\ d < 2 * ClockSpan BY <1>1, <1>2, DriveAssumption
<1>4. d % ClockSpan \in {d, d - ClockSpan} BY <1>3, Wraps, DriveAssumption
<1>5. now' = d % ClockSpan BY <1>2 DEF TimePasses
<1> QED BY <1>1, <1>2, <1>4, <1>5, DriveAssumption

\* What a caller gets of the lease it asked for.
LEMMA LeaseIsShort ==
  ASSUME DriveTypeOK
  PROVE  Lease \in 0..LeaseMax
  BY DriveAssumption DEF DriveTypeOK, Lease

\* A lease is live only before it has run out: half the clock's span tells the
\* past from the future.
LEMMA LiveIsEarly ==
  ASSUME DriveTypeOK, SilentForHalfTheClock, DeadlineIsLease, LeaseLive(command)
  PROVE  elapsed < Lease
<1> USE DriveAssumption, LeaseIsShort
<1> DEFINE d == command.validUntil - now
<1>1. /\ d \in Int /\ -ClockSpan < d /\ d < ClockSpan
      /\ elapsed \in 0..MaxIdle /\ now \in Int
  BY DEF DriveTypeOK
<1>2. d % ClockSpan \in 1..((ClockSpan \div 2) - 1) /\ command.mode # "neutral"
  BY DEF LeaseLive
<1>3. d \in {Lease - elapsed - ClockSpan, Lease - elapsed, Lease - elapsed + ClockSpan}
  BY <1>2 DEF DeadlineIsLease
<1>4. 2 * (d % ClockSpan) < ClockSpan
  <2>1. 2 * (ClockSpan \div 2) <= ClockSpan OBVIOUS
  <2> HIDE DEF d
  <2> QED BY <1>2, <2>1
<1>5. 2 * elapsed <= ClockSpan BY <1>1 DEF SilentForHalfTheClock
<1>6. /\ 0 <= d => d % ClockSpan = d
      /\ d < 0 => d % ClockSpan = d + ClockSpan
  <2> HIDE DEF d
  <2> QED BY <1>1, Wraps
<1> HIDE DEF d
<1> QED BY <1>1, <1>2, <1>3, <1>4, <1>5, <1>6

\* The caller's silence fits in half the clock's span.
LEMMA EarlyEnough ==
  ASSUME SilentForHalfTheClock
  PROVE  \A e \in 0..MaxIdle : 2 * e <= ClockSpan
<1>1. MaxIdle \in Nat /\ ClockSpan \in Nat /\ 2 * MaxIdle <= ClockSpan
  BY DriveAssumption DEF SilentForHalfTheClock
<1>2. \A e \in 0..MaxIdle : 2 * e <= 2 * MaxIdle BY <1>1
<1> QED BY <1>1, <1>2

\* A new command sets both clocks; nothing else but time moves them apart.
LEMMA DeadlineStaysLease ==
  ASSUME DriveTypeOK, DriveTypeOK', SilentForHalfTheClock, DeadlineIsLease, Next
  PROVE  /\ DeadlineIsLease'
         /\ \/ elapsed' - Lease' <= 0
            \/ ~TimePasses /\ elapsed' - Lease' = elapsed - Lease
            \/ TimePasses /\ elapsed' - Lease' = elapsed - Lease + 1
<1> USE DriveAssumption, LeaseIsShort DEF fiberVars, motorVars, mailboxVars, kernelVars,
        historyVars
<1>0. elapsed \in 0..MaxIdle /\ now \in 0..(ClockSpan - 1) /\ command'.validUntil \in 0..(ClockSpan - 1)
  BY DEF DriveTypeOK
<1>1. ASSUME NEW c, NEW lease \in Leases, TakeCommand(c, lease),
             c.validUntil = ValidUntil(lease)
      PROVE  DeadlineIsLease' /\ elapsed' - Lease' <= 0
  <2>1. /\ command' = c /\ elapsed' = 0 /\ now' = now
        /\ Lease' = IF lease > LeaseMax THEN LeaseMax ELSE lease
    BY <1>1 DEF TakeCommand, Lease
  <2>2. PICK l \in 0..LeaseMax : l = Lease' BY <2>1
  <2>3. command'.validUntil = (now + l) % ClockSpan
    BY <1>1, <2>1, <2>2 DEF ValidUntil
  <2>4. PICK d \in Int : d = now + l BY <1>0
  <2>5. d % ClockSpan \in {d, d - ClockSpan}
    <3>1. 0 <= d /\ d < 2 * ClockSpan BY <1>0, <2>4
    <3> QED BY <3>1, Wraps
  <2>6. command'.validUntil - now \in {l, l - ClockSpan} BY <1>0, <2>3, <2>4, <2>5
  <2>7. /\ command'.validUntil - now' \in {l - elapsed', l - elapsed' - ClockSpan}
        /\ elapsed' - l <= 0
    BY <2>1, <2>6
  <2> QED BY <2>2, <2>7 DEF DeadlineIsLease
<1>2. CASE TimePasses
  <2>1. UNCHANGED <<command, granted>> /\ elapsed' = elapsed + 1 /\ now' = (now + 1) % ClockSpan
    BY <1>2 DEF TimePasses
  <2>2. Lease' = Lease BY <2>1 DEF Lease
  <2>3. now' \in {now + 1, now + 1 - ClockSpan} BY <1>2, TimeMoves
  <2>4. 2 * elapsed' <= ClockSpan BY EarlyEnough DEF DriveTypeOK
  <2>5. ASSUME command.mode # "neutral"
        PROVE  command.validUntil - now' \in {Lease - elapsed' - ClockSpan, Lease - elapsed',
                                              Lease - elapsed' + ClockSpan}
    <3>1. command.validUntil - now \in {Lease - elapsed - ClockSpan, Lease - elapsed,
                                        Lease - elapsed + ClockSpan}
      BY <2>5 DEF DeadlineIsLease
    <3>2. now' \in 0..(ClockSpan - 1) BY DEF DriveTypeOK
    <3> QED BY <1>0, <2>1, <2>3, <2>4, <3>1, <3>2
  <2>6. elapsed' - Lease' = elapsed - Lease + 1 BY <1>0, <2>1, <2>2
  <2>7. DeadlineIsLease' BY <2>1, <2>2, <2>5 DEF DeadlineIsLease
  <2> QED BY <1>2, <2>6, <2>7
<1>3. CASE CommandNeutral
  BY <1>0, <1>3 DEF CommandNeutral, Neutral, DeadlineIsLease, Lease, TimePasses
<1>4. ASSUME UNCHANGED <<command, now, elapsed, granted>>
      PROVE  DeadlineIsLease' /\ elapsed' - Lease' = elapsed - Lease
  BY <1>4 DEF DeadlineIsLease, Lease
<1>5. CASE KernelFiber
  BY <1>4, <1>5 DEF KernelFiber, CycleStarts, LeftTicks, RightTicks, TimePasses
<1>6. CASE MainFiber
  <2>1. ASSUME NEW lease \in Leases, NEW demanding, Drive(demanding, lease)
        PROVE  DeadlineIsLease' /\ elapsed' - Lease' <= 0
    BY <1>1, <2>1 DEF Drive
  <2>2. ASSUME NEW lease \in Leases, NEW raw, DriveDuty(raw, lease)
        PROVE  DeadlineIsLease' /\ elapsed' - Lease' <= 0
    BY <1>1, <2>2 DEF DriveDuty
  <2>3. \/ \E c \in Configs : SetConfig(c)
        \/ Begin \/ Start \/ Estop \/ EstopClear \/ EmergencyStopMotors \/ ClearStallLatch
        \/ CommandNeutral
        \/ \E lease \in Leases : \/ \E demanding \in Demands : Drive(demanding, lease)
                                 \/ \E raw \in [Wheels -> Duties] : DriveDuty(raw, lease)
    BY <1>6 DEF MainFiber
  <2>4. ASSUME \/ \E c \in Configs : SetConfig(c)
               \/ Begin \/ Start \/ Estop \/ EstopClear \/ EmergencyStopMotors
               \/ ClearStallLatch
        PROVE  UNCHANGED <<command, now, elapsed, granted>>
    BY <2>4 DEF SetConfig, Begin, Start, Estop, EstopClear, EmergencyStopMotors,
                ClearStallLatch
  <2>5. now' = now BY <1>6, MainFiberLeaves
  <2>6. ~TimePasses BY <2>5, TimeMoves
  <2> QED BY <1>3, <1>4, <2>1, <2>2, <2>3, <2>4, <2>6
<1> QED BY <1>2, <1>5, <1>6 DEF Next

\* The lease's clock is on time, whatever happens.
LEMMA LeaseInvKept ==
  ASSUME FewerLostThanRepeated, SilentForHalfTheClock, LeaseInv, Next
  PROVE  LeaseInv'
<1>1. StopInv /\ DriveTypeOK BY DEF LeaseInv, StopInv, DriveInv
<1>2. StopInv' BY <1>1, StopInvKept
<1>3. DriveTypeOK' BY <1>2 DEF StopInv, DriveInv
<1>4. PICK x \in Int : x = elapsed - Lease
  BY <1>1, LeaseIsShort, DriveAssumption DEF DriveTypeOK
<1>5. elapsed' - Lease' \in Int
  <2>1. granted' \in Leases \cup {0} /\ elapsed' \in Int BY <1>3 DEF DriveTypeOK
  <2>2. Lease' = IF granted' > LeaseMax THEN LeaseMax ELSE granted' BY DEF Lease
  <2>3. Lease' \in Int BY <2>1, <2>2, DriveAssumption
  <2> QED BY <2>1, <2>3
<1>6. PICK y \in Int : y = elapsed' - Lease' BY <1>5
<1>7. /\ DeadlineIsLease'
      /\ y <= 0 \/ (~TimePasses /\ y = x) \/ (TimePasses /\ y = x + 1)
  BY <1>1, <1>3, <1>4, <1>6, DeadlineStaysLease DEF LeaseInv
<1>8. OnTime(x, {1}) BY <1>4 DEF LeaseInv
<1>9. CycleStarts => written' = Zero \/ y <= 0
  <2> SUFFICES ASSUME CycleStarts, written' # Zero PROVE y <= 0
    OBVIOUS
  <2>1. LeaseLive(command) BY <1>1, CycleStartsWrites
  <2>2. elapsed < Lease BY <1>1, <2>1, LiveIsEarly DEF LeaseInv
  <2>3. elapsed \in Int /\ Lease \in Int
    BY <1>1, LeaseIsShort, DriveAssumption DEF DriveTypeOK
  <2>4. x < 0 BY <1>4, <2>2, <2>3
  <2> QED BY <1>7, <2>4
<1>10. OnTime(y, {1})'
  <2>1. CASE y <= 0 BY <1>1, <1>2, <2>1, ResetIsOnTime
  <2>2. CASE ~TimePasses /\ y = x
    BY <1>1, <1>2, <1>8, <1>9, <2>2, StillIsOnTime
  <2>3. CASE TimePasses /\ y = x + 1
    BY <1>1, <1>8, <2>3, RunningIsOnTime
  <2> QED BY <1>7, <2>1, <2>2, <2>3
<1>11. OnTime(elapsed - Lease, {1})' BY <1>6, <1>10 DEF OnTime
<1> QED BY <1>2, <1>7, <1>11 DEF LeaseInv

\* So is the clock of the reasons to halt.
LEMMA HaltInvKept ==
  ASSUME FewerLostThanRepeated, HaltInv, Next
  PROVE  HaltInv'
<1>1. StopInv /\ DriveTypeOK BY DEF HaltInv, StopInv, DriveInv
<1>2. StopInv' BY <1>1, StopInvKept
<1>3. DriveTypeOK' BY <1>2 DEF StopInv, DriveInv
<1>4. PICK x \in Int : x = haltedFor BY <1>1 DEF DriveTypeOK
<1>5. PICK y \in Int : y = haltedFor' BY <1>3 DEF DriveTypeOK
<1>6. HaltIsCounted'
  BY <1>1 DEF HaltInv, HaltIsCounted, Next, HaltClock, DriveTypeOK
<1>7. y <= 0 \/ y <= x \/ (now' # now /\ phase # "off" /\ y <= x + 1)
  BY <1>4, <1>5 DEF Next, HaltClock
<1>8. now' # now => TimePasses
  BY MainFiberLeaves DEF Next, KernelFiber, CycleStarts, LeftTicks, RightTicks
<1>9. OnTime(x, {1, Kept}) BY <1>4 DEF HaltInv
<1>10. CycleStarts => written' = Zero \/ y <= 0
  <2> SUFFICES ASSUME CycleStarts, written' # Zero PROVE y <= 0
    OBVIOUS
  <2>1. ~Halted BY <1>1, CycleStartsWrites
  <2>2. haltedFor = -1 BY <2>1 DEF HaltInv, HaltIsCounted
  <2> QED BY <1>5, <2>2 DEF Next, HaltClock
<1>11. OnTime(y, {1, Kept})'
  <2>1. CASE y <= 0 BY <1>1, <1>2, <2>1, ResetIsOnTime
  <2>2. CASE ~TimePasses /\ y <= x
    <3>1. 0 \notin {1, Kept} BY DEF Kept
    <3> QED BY <1>1, <1>2, <1>9, <1>10, <2>2, <3>1, StillIsOnTime
  <2>3. CASE TimePasses /\ y <= x
    <3>1. y <= x + 1 BY <2>3
    <3> QED BY <1>1, <1>9, <2>3, <3>1, RunningIsOnTime
  <2>4. CASE TimePasses /\ phase # "off" /\ y <= x + 1
    BY <1>1, <1>9, <2>4, RunningIsOnTime
  <2> QED BY <1>7, <1>8, <2>1, <2>2, <2>3, <2>4
<1>12. OnTime(haltedFor, {1, Kept})' BY <1>5, <1>11 DEF OnTime
<1> QED BY <1>2, <1>6, <1>12 DEF HaltInv

\* At power-up both clocks stand at zero.
LEMMA TimingInitHolds == Init => LeaseInv /\ HaltInv
<1> SUFFICES ASSUME Init PROVE LeaseInv /\ HaltInv
  OBVIOUS
<1>1. StopInv BY StopInitHolds
<1>2. DeadlineIsLease /\ Lease = 0
  BY DriveAssumption DEF Init, Neutral, DeadlineIsLease, Lease
<1>3. elapsed - Lease = 0 /\ haltedFor = 0 BY <1>2 DEF Init
<1>4. OnTime(0, {1}) /\ OnTime(0, {1, Kept})
  BY DEF Init, OnTime
<1>5. HaltIsCounted BY DEF Init, HaltIsCounted, Halted, Authority, Neutral
<1> QED BY <1>1, <1>2, <1>3, <1>4, <1>5 DEF LeaseInv, HaltInv

\* A kernel that does not move keeps everything.
LEMMA TimingStutters ==
  ASSUME UNCHANGED vars
  PROVE  (StopInv => StopInv') /\ (LeaseInv => LeaseInv') /\ (HaltInv => HaltInv')
<1> USE DEF vars, fiberVars, motorVars, mailboxVars, kernelVars, historyVars
<1>1. StopInv => StopInv'
  BY DEF StopInv, DriveInv, DriveTypeOK, FiberOnTime, OnlyStopsAfterEmergency,
         StagedIsWritten, PacedInTime, StopsRepeated, Longest
<1>2. DeadlineIsLease => DeadlineIsLease' BY DEF DeadlineIsLease, Lease
<1>3. HaltIsCounted => HaltIsCounted' BY DEF HaltIsCounted, Halted
<1>4. OnTime(elapsed - Lease, {1}) => OnTime(elapsed - Lease, {1})'
  BY DEF OnTime, Longest, Lease, Delay, Cycle, SettleTime
<1>5. OnTime(haltedFor, {1, Kept}) => OnTime(haltedFor, {1, Kept})'
  BY DEF OnTime, Longest, Delay, Cycle, SettleTime
<1> QED BY <1>1, <1>2, <1>3, <1>4, <1>5 DEF LeaseInv, HaltInv

\* What the lease's clock and the halts' clock say of the wheels.
LEMMA LeaseInvMeans == LeaseInv => MotionIsLeased
<1> SUFFICES ASSUME LeaseInv, NEW w \in Wheels, applied[w] = 1
             PROVE  elapsed <= Lease + Reaction
  BY DEF MotionIsLeased, Lease
<1>1. StopInv /\ DriveTypeOK BY DEF LeaseInv, StopInv, DriveInv
<1>2. Lease \in Int /\ elapsed \in Int /\ Reaction \in Int
  BY <1>1, LeaseIsShort, TimesAreNatural, DriveAssumption DEF DriveTypeOK
<1>3. PICK x \in Int : x = elapsed - Lease BY <1>2
<1>4. OnTime(x, {1}) BY <1>3 DEF LeaseInv
<1>5. x <= Reaction BY <1>1, <1>4, OnTimeStops
<1> QED BY <1>2, <1>3, <1>5

LEMMA HaltInvMeans == HaltInv => HaltStopsInTime
<1> SUFFICES ASSUME HaltInv, haltedFor > Reaction PROVE applied = Zero
  BY DEF HaltStopsInTime
<1>1. StopInv /\ DriveTypeOK BY DEF HaltInv, StopInv, DriveInv
<1>2. Reaction \in Int /\ haltedFor \in Int
  BY <1>1, TimesAreNatural DEF DriveTypeOK
<1>3. PICK x \in Int : x = haltedFor BY <1>2
<1>4. OnTime(x, {1, Kept}) BY <1>3 DEF HaltInv
<1>5. \A w \in Wheels : applied[w] \notin {1, Kept}
  BY <1>1, <1>2, <1>3, <1>4, OnTimeStops
<1>6. \A w \in Wheels : applied[w] = 0
  BY <1>1, <1>5 DEF DriveTypeOK, Duties
<1> QED BY <1>1, <1>6 DEF DriveTypeOK, Zero

\* A stop survives the loss of fewer writes than it is repeated: when the kernel
\* stops repeating it, both wheels have it (differential_drive.cpp:868-889).
THEOREM QuietWheelsRest ==
  ASSUME FewerLostThanRepeated
  PROVE  Spec => []QuietMeansStopped
<1>1. Init => StopInv BY StopInitHolds
<1>2. StopInv /\ [Next]_vars => StopInv'
  BY StopInvKept, TimingStutters
<1>3. StopInv => QuietMeansStopped
  <2> SUFFICES ASSUME StopInv, phase = "pace", written = Zero, countdown = 0
               PROVE  applied = Zero
    BY DEF QuietMeansStopped
  <2>1. \A w \in Wheels : applied[w] = 0 BY QuietIsStopped
  <2> QED BY <2>1 DEF StopInv, DriveInv, DriveTypeOK, Zero
<1> QED BY <1>1, <1>2, <1>3, PTL DEF Spec

\* A caller that died cannot mean a runaway: no wheel is driven longer than the
\* lease of the last motion command and the kernel's reaction time
\* (differential_drive.cpp:410-413, 560-569).
THEOREM MotionEndsWithLease ==
  ASSUME FewerLostThanRepeated, SilentForHalfTheClock
  PROVE  Spec => []MotionIsLeased
<1>1. Init => LeaseInv BY TimingInitHolds
<1>2. LeaseInv /\ [Next]_vars => LeaseInv'
  BY LeaseInvKept, TimingStutters
<1> QED BY <1>1, <1>2, LeaseInvMeans, PTL DEF Spec

\* A commanded stop, an estop, a stall halt or a configuration with no authority
\* stop both wheels within the reaction time and hold them for as long as the
\* reason stands, though the motors come up driving
\* (differential_drive.cpp:446-458, 569-582).
THEOREM HaltsStopInTime ==
  ASSUME FewerLostThanRepeated
  PROVE  Spec => []HaltStopsInTime
<1>1. Init => HaltInv BY TimingInitHolds
<1>2. HaltInv /\ [Next]_vars => HaltInv'
  BY HaltInvKept, TimingStutters
<1> QED BY <1>1, <1>2, HaltInvMeans, PTL DEF Spec

(***************************************************************************)
(* The kernel implements LeasedDrive                                       *)
(***************************************************************************)

\* A step that moves no wheel, no clock and no command is at most a reason to
\* halt that arises or is withdrawn.
LEMMA HaltingIsPromised ==
  ASSUME DriveInv, DriveInv', HaltIsCounted, HaltClock,
         UNCHANGED <<applied, elapsed, granted, emergency, now>>,
         (phase' # "off") = (phase # "off")
  PROVE  Promise!Halt \/ Promise!Release \/ UNCHANGED Promise!vars
<1>1. UNCHANGED <<applied, phase # "off", elapsed, Lease, emergency>>
  BY DEF Lease
<1>2. haltedFor' \in {-1, haltedFor} \/ (haltedFor = -1 /\ haltedFor' = 0)
  BY DEF HaltClock
<1>3. CASE haltedFor' = haltedFor
  BY <1>1, <1>3 DEF Promise!vars, Lease
<1>4. CASE haltedFor = -1 /\ haltedFor' = 0
  BY <1>1, <1>4 DEF Promise!Halt, Lease
<1>5. CASE haltedFor' = -1 /\ haltedFor # -1
  <2>1. ~Halted' BY <1>5 DEF HaltClock, DriveInv, DriveTypeOK
  <2>2. ~emergency'
    BY <2>1 DEF Halted, DriveInv, OnlyStopsAfterEmergency
  <2>3. emergency' = FALSE BY <2>2 DEF DriveInv, DriveTypeOK
  <2> QED BY <1>1, <1>5, <2>3 DEF Promise!Release, Lease
<1> QED BY <1>2, <1>3, <1>4, <1>5

\* A motion command that is taken is one the caller was promised.
LEMMA CommandIsPromised ==
  ASSUME DriveInv, HaltIsCounted, HaltClock, Commandable,
         NEW c, c.mode # "neutral", NEW lease \in Leases, TakeCommand(c, lease)
  PROVE  Promise!Command
<1>1. /\ elapsed' = 0 /\ granted' = lease /\ now' = now
      /\ UNCHANGED <<applied, phase, emergency, estopLatch, config, stallHalted,
                     clearRequested>>
      /\ command' = c
  BY DEF TakeCommand, fiberVars, motorVars, kernelVars
<1>2. ~emergency BY DEF Commandable, DriveInv, OnlyStopsAfterEmergency
<1>3. Halted' => Halted BY <1>1 DEF Halted
<1>4. haltedFor' \in {haltedFor, -1}
  BY <1>1, <1>3 DEF HaltClock, HaltIsCounted
<1>5. Lease' \in Promise!Granted
  BY <1>1 DEF Lease, Promise!Granted
<1> QED BY <1>1, <1>2, <1>4, <1>5 DEF Promise!Command, Lease

\* A wheel that a tick sets moving was told to in this cycle: its command was
\* alive, and nothing against it, not longer ago than the two settles.
LEMMA TickIsPromised ==
  ASSUME LeaseInv, HaltInv, NEW w \in Wheels, MotorTick(w),
         phase \in {"left", "right"}, phase' # "off",
         UNCHANGED <<haltedFor, elapsed, granted, emergency>>
  PROVE  Promise!SetMoving(w) \/ Promise!Stop(w) \/ UNCHANGED Promise!vars
<1>1. DriveTypeOK /\ DriveInv /\ StagedIsWritten
  BY DEF LeaseInv, StopInv, DriveInv
<1>2. phase # "off" /\ phase' # "off" OBVIOUS
<1>3. UNCHANGED <<phase # "off", elapsed, Lease, haltedFor, emergency>>
  BY <1>2 DEF Lease
<1>4. /\ applied' = applied \/ applied' = [applied EXCEPT ![w] = staged[w]]
      /\ staged[w] = NoWrite => applied' = applied
  BY <1>1 DEF MotorTick, DriveTypeOK
<1>5. CASE applied' = applied
  BY <1>3, <1>5 DEF Promise!vars, Lease
<1>6. CASE applied' = [applied EXCEPT ![w] = 0]
  BY <1>2, <1>3, <1>6 DEF Promise!Stop, Lease
<1>7. CASE applied' = [applied EXCEPT ![w] = 1] /\ staged[w] = 1
  <2>1. written # Zero BY <1>1, <1>7 DEF StagedIsWritten, Zero, NoWrite
  <2>2. ~emergency BY <1>1, <1>7 DEF DriveInv, OnlyStopsAfterEmergency, NoWrite
  <2>3. elapsed - Lease <= spent /\ haltedFor <= spent
    BY <2>1 DEF LeaseInv, HaltInv, OnTime
  <2>4. /\ spent \in 0..SettleTime /\ elapsed \in Int /\ haltedFor \in Int
        /\ Lease \in Int /\ SettleTime \in Int
    BY <1>1, LeaseIsShort, CycleIsLongEnough, DriveAssumption DEF DriveTypeOK
  <2>5. elapsed <= Lease + SettleTime /\ haltedFor <= SettleTime
    BY <2>3, <2>4
  <2> QED BY <1>2, <1>3, <1>7, <2>2, <2>5 DEF Promise!SetMoving, Lease
<1>8. staged[w] \in {0, 1, NoWrite} BY <1>1 DEF DriveTypeOK, Duties
<1> QED BY <1>4, <1>5, <1>6, <1>7, <1>8

\* A millisecond passes only where the two clocks allow it.
LEMMA TimeIsPromised ==
  ASSUME DriveTypeOK, HaltIsCounted, TimePasses, HaltClock,
         MotionIsLeased', HaltStopsInTime'
  PROVE  Promise!TimePasses
<1>1. /\ elapsed' = elapsed + 1 /\ now' # now
      /\ UNCHANGED <<applied, phase, estopLatch, stallHalted, clearRequested, command, config,
                     granted, emergency>>
  BY TimeMoves DEF TimePasses, fiberVars, motorVars, mailboxVars, kernelVars
<1>2. Halted' = Halted /\ UNCHANGED <<Lease, phase # "off">>
  BY <1>1 DEF Halted, Lease
<1>3. haltedFor' = IF haltedFor = -1 \/ ~(phase # "off") \/ haltedFor > Reaction
                   THEN haltedFor ELSE haltedFor + 1
  <2>1. haltedFor \in Int /\ Reaction \in Int BY TimesAreNatural DEF DriveTypeOK
  <2>2. CASE haltedFor = -1 BY <1>2, <2>2 DEF HaltClock, HaltIsCounted
  <2>3. CASE haltedFor # -1
    <3>1. Halted' BY <1>2, <2>3 DEF HaltIsCounted
    <3> QED BY <1>1, <2>1, <2>3, <3>1 DEF HaltClock
  <2> QED BY <2>2, <2>3
<1>4. (\E w \in Wheels : applied[w] = 1) => elapsed' <= Lease + Reaction
  BY <1>1, <1>2 DEF MotionIsLeased, Lease, Reaction, Cycle, SettleTime
<1>5. haltedFor' > Reaction => applied = Promise!AtRest
  BY <1>1 DEF HaltStopsInTime, Zero, Promise!AtRest, Reaction, Cycle, SettleTime
<1> QED BY <1>1, <1>2, <1>3, <1>4, <1>5 DEF Promise!TimePasses, Lease

\* The calls of the main fiber, one by one.
LEMMA MainFiberIsPromised ==
  ASSUME DriveInv, DriveInv', HaltIsCounted, HaltClock, MainFiber
  PROVE  Promise!Next \/ UNCHANGED Promise!vars
<1> USE DEF fiberVars, motorVars, mailboxVars, kernelVars, historyVars
<1>1. CASE UNCHANGED <<applied, elapsed, granted, emergency, phase>>
  <2>1. now' = now /\ (phase' # "off") = (phase # "off") BY <1>1, MainFiberLeaves
  <2> QED BY <1>1, <2>1, HaltingIsPromised DEF Promise!Next
<1>2. CASE Start
  <2>1. /\ phase' # "off" /\ Halted' = Halted /\ now' = now
        /\ UNCHANGED <<applied, elapsed, Lease, emergency>>
    BY <1>2 DEF Start, Halted, Lease
  <2>2. haltedFor' = haltedFor
    BY <2>1 DEF HaltClock, HaltIsCounted
  <2>3. Promise!Start BY <2>1, <2>2 DEF Promise!Start, Lease
  <2> QED BY <2>3 DEF Promise!Next
<1>3. ASSUME NEW lease \in Leases, NEW demanding \in Demands, Drive(demanding, lease)
      PROVE  Promise!Command
  BY <1>3, CommandIsPromised DEF Drive
<1>4. ASSUME NEW lease \in Leases, NEW raw \in [Wheels -> Duties], DriveDuty(raw, lease)
      PROVE  Promise!Command
  BY <1>4, CommandIsPromised DEF DriveDuty
<1>5. CASE EstopClear
  <2>1. /\ emergency' = FALSE /\ now' = now /\ (Halted' => Halted)
        /\ UNCHANGED <<applied, phase # "off", elapsed, Lease>>
    BY <1>5 DEF EstopClear, Halted, Lease
  <2>2. haltedFor' \in {haltedFor, -1}
    BY <2>1 DEF HaltClock, HaltIsCounted
  <2>3. Promise!Release BY <2>1, <2>2 DEF Promise!Release, Lease
  <2> QED BY <2>3 DEF Promise!Next
<1>6. CASE EmergencyStopMotors
  <2>1. /\ applied' = Zero /\ emergency' = TRUE /\ now' = now /\ Halted'
        /\ UNCHANGED <<phase # "off", elapsed, Lease>>
    BY <1>6 DEF EmergencyStopMotors, EmergencyStop, Halted, Lease
  <2>2. haltedFor' = IF haltedFor = -1 THEN 0 ELSE haltedFor
    BY <2>1 DEF HaltClock
  <2>3. Promise!CutOff BY <2>1, <2>2 DEF Promise!CutOff, Promise!AtRest, Zero, Lease
  <2> QED BY <2>3 DEF Promise!Next
<1>7. \/ UNCHANGED <<applied, elapsed, granted, emergency, phase>>
      \/ Start \/ EstopClear \/ EmergencyStopMotors
      \/ \E lease \in Leases : \/ \E demanding \in Demands : Drive(demanding, lease)
                               \/ \E raw \in [Wheels -> Duties] : DriveDuty(raw, lease)
  BY DEF MainFiber, SetConfig, Begin, CommandNeutral, Estop, ClearStallLatch
<1> QED BY <1>1, <1>2, <1>3, <1>4, <1>5, <1>6, <1>7 DEF Promise!Next

\* Every step of the kernel is one LeasedDrive allows, or none of its concern.
LEMMA StepIsPromised ==
  ASSUME LeaseInv, HaltInv, LeaseInv', HaltInv', MotionIsLeased', HaltStopsInTime', Next
  PROVE  Promise!Next \/ UNCHANGED Promise!vars
<1>1. DriveInv /\ DriveTypeOK /\ HaltIsCounted /\ HaltClock
  BY DEF LeaseInv, StopInv, DriveInv, HaltInv, Next
<1>2. DriveInv' BY DEF LeaseInv, StopInv
<1>3. CASE MainFiber BY <1>1, <1>2, <1>3, MainFiberIsPromised
<1>4. CASE CycleStarts
  <2>1. UNCHANGED <<applied, elapsed, granted, emergency, now>>
        /\ (phase' # "off") = (phase # "off")
    BY <1>4 DEF CycleStarts
  <2> QED BY <1>1, <1>2, <2>1, HaltingIsPromised DEF Promise!Next
<1>5. CASE LeftTicks \/ RightTicks
  <2>1. PICK w \in Wheels : MotorTick(w) BY <1>5 DEF LeftTicks, RightTicks, Wheels
  <2>2. /\ phase \in {"left", "right"} /\ phase' # "off" /\ now' = now
        /\ UNCHANGED <<elapsed, granted, emergency, estopLatch, stallHalted, clearRequested,
                       command, config>>
    BY <1>5 DEF LeftTicks, RightTicks, mailboxVars, kernelVars, historyVars
  <2>3. Halted' = Halted BY <2>2 DEF Halted
  <2>4. haltedFor' = haltedFor BY <1>1, <2>2, <2>3 DEF HaltClock, HaltIsCounted
  <2>5. Promise!SetMoving(w) \/ Promise!Stop(w) \/ UNCHANGED Promise!vars
    BY <2>1, <2>2, <2>4, TickIsPromised
  <2> QED BY <2>5 DEF Promise!Next
<1>6. CASE TimePasses BY <1>1, <1>6, TimeIsPromised DEF Promise!Next
<1> QED BY <1>3, <1>4, <1>5, <1>6 DEF Next, KernelFiber

\* The kernel keeps the promise it makes to its callers, whatever the clock's
\* width, the leases and the cycle, and though writes are lost and wake-ups late:
\* motion is lent, and every wheel that moves answers to a command that was alive
\* (differential_drive.cpp:384-594; diffdrive.md:104-111).
THEOREM KernelKeepsItsPromise ==
  ASSUME FewerLostThanRepeated, SilentForHalfTheClock
  PROVE  Spec => ImplementsLeasedDrive
<1> DEFINE Inv == LeaseInv /\ HaltInv
<1>1. Init => Inv BY TimingInitHolds
<1>2. Inv /\ [Next]_vars => Inv'
  BY LeaseInvKept, HaltInvKept, TimingStutters
<1>3. Init => Promise!Init
  <2> SUFFICES ASSUME Init PROVE Promise!Init
    OBVIOUS
  <2>1. applied \in [Wheels -> {0, Kept}] BY DriveAssumption DEF Init, Kept
  <2>2. (IF granted > LeaseMax THEN LeaseMax ELSE granted) = 0
    BY DriveAssumption DEF Init
  <2> QED BY <2>1, <2>2 DEF Init, Promise!Init
<1>4. Inv => MotionIsLeased /\ HaltStopsInTime BY LeaseInvMeans, HaltInvMeans
<1>5. Inv /\ Inv' /\ (MotionIsLeased /\ HaltStopsInTime)' /\ [Next]_vars
        => [Promise!Next]_(Promise!vars)
  <2>1. UNCHANGED vars => UNCHANGED Promise!vars
    BY DEF vars, fiberVars, motorVars, historyVars, Promise!vars
  <2> QED BY <2>1, StepIsPromised
<1> HIDE DEF Inv
<1> QED BY <1>1, <1>2, <1>3, <1>4, <1>5, PTL DEF Spec, ImplementsLeasedDrive, Promise!Spec
=============================================================================
