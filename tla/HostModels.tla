------------------------------ MODULE HostModels ------------------------------
(***************************************************************************)
(* The arithmetic the host does before a command is sent and after its     *)
(* trials are measured: the field values of the motion verbs, the turn     *)
(* model, the straight-line model, and the calibration computed from       *)
(* measurements.  Pure functions of small integers; the code's floats are  *)
(* kept exact by fixed units: slips and scales in hundredths, wheel speeds *)
(* that may have a fraction in tenths of mm/s, angles in milliradians.     *)
(***************************************************************************)
EXTENDS Integers, Sequences, Functions

CONSTANTS Refused,      \* the function raises, or exits before anything is sent
          None,         \* Python's None
          MinTrials     \* _MIN_TRIALS, 3 in the code

ASSUME ModelsAssumption ==
  MinTrials \in Nat \ {0} /\ None # Refused /\ None \notin Int /\ Refused \notin Int

Abs(n) == IF n < 0 THEN -n ELSE n
Largest(a, b) == IF a > b THEN a ELSE b
Least(a, b) == IF a < b THEN a ELSE b
Total(values) == FoldFunction(LAMBDA a, b : a + b, 0, values)

\* round(n / d), d > 0: to the nearest integer, ties to the even one.
Round(n, d) ==
  LET q == n \div d  r == n % d
  IN  IF 2 * r < d \/ (2 * r = d /\ q % 2 = 0) THEN q ELSE q + 1

(***************************************************************************)
(* Fields of the motion verbs                                              *)
(***************************************************************************)

\* Three times the time the motion takes, one second at least [ms].
Backstop(distance, speed) == Largest(1000, Round(3 * 1000 * distance, speed))

\* Mutant of WheelsXFields: the slower wheel sets the cruise speed.
WheelsXFieldsSlow(left, right, mm) ==
  LET cruise == Least(Abs(left), Abs(right))
  IN  IF left = 0 /\ right = 0 THEN Refused
      ELSE [left |-> IF left >= 0 THEN mm ELSE -mm,
            right |-> IF right >= 0 THEN mm ELSE -mm,
            cruise |-> cruise, timeout |-> Backstop(Abs(mm), Largest(cruise, 1))]

\* _wheels_x_fields(): the faster wheel's speed is the cruise speed, and each
\* wheel goes mm in its own direction.
WheelsXFields(left, right, mm) ==
  LET cruise == Largest(Abs(left), Abs(right))
  IN  IF cruise <= 0 THEN Refused
      ELSE [left |-> IF left >= 0 THEN mm ELSE -mm,
            right |-> IF right >= 0 THEN mm ELSE -mm,
            cruise |-> cruise, timeout |-> Backstop(Abs(mm), cruise)]

\* _prepare_goto(), given the distance math.hypot(x, y) rounded to a millimetre.
PrepareGoto(distance, speed, timeout) ==
  IF speed <= 0 THEN Refused
  ELSE LET ms == IF timeout = None THEN Backstop(distance, speed) ELSE timeout
       IN  IF ms <= 0 THEN Refused ELSE ms

\* _validate_drive_args() and the lease of _cmd_drive_stream().
StreamLease(resend) ==
  IF resend <= 0 THEN Refused ELSE Least(5000, Largest(500, 3 * resend))

(***************************************************************************)
(* The turn and distance models                                            *)
(***************************************************************************)

\* Mutant of ComputeTurn: the arc is divided by the whole slip, not twice it.
ComputeTurnOneWheel(angle, speed, track, slip) ==
  LET used == IF slip = None THEN 100 ELSE slip
      sign == IF angle >= 0 THEN 1 ELSE -1
  IN  IF track = None \/ track <= 0 \/ speed <= 0 THEN Refused
      ELSE [left |-> Round(-sign * speed, 10), right |-> Round(sign * speed, 10),
            duration |-> Round(1000 * Abs(angle) * track, used * speed)]

\* compute_turn(): angle in milliradians, speed in tenths, slip in hundredths.
\* Its callers never pass a gain or an offset.
ComputeTurn(angle, speed, track, slip) ==
  LET used == IF slip = None THEN 100 ELSE slip
      sign == IF angle >= 0 THEN 1 ELSE -1
  IN  IF track = None \/ track <= 0 \/ speed <= 0 THEN Refused
      ELSE [left |-> Round(-sign * speed, 10), right |-> Round(sign * speed, 10),
            duration |-> Round(1000 * Abs(angle) * track, 2 * used * speed)]

\* compute_distance_trial()
ComputeDistanceTrial(distance, speed, scale) ==
  LET used == IF scale = None \/ scale <= 0 THEN 100 ELSE scale
  IN  IF distance <= 0 \/ speed <= 0 THEN Refused
      ELSE [left |-> Round(speed, 10), right |-> Round(speed, 10),
            duration |-> Round(1000000 * distance, used * speed)]

(***************************************************************************)
(* Calibration                                                             *)
(***************************************************************************)

\* SLIP_SANE_RANGE and DISTANCE_SCALE_SANE_RANGE, in hundredths.
SaneRatio(exact, unit) == 50 * unit <= exact /\ exact <= 150 * unit

\* Mutant of ComputeCalibration: the ratio is the wrong way up.
ComputeCalibrationInverted(current, target, measured) ==
  LET usable == SelectSeq(measured, LAMBDA m : m > 0)
      starting == IF current = None THEN 100 ELSE current
      exact == starting * target * Len(usable)  unit == Total(usable)
  IN  IF Len(usable) < MinTrials THEN None
      ELSE IF SaneRatio(exact, unit) THEN Round(exact, unit) ELSE Refused

\* compute_calibration(): the starting value times the mean of measured/target;
\* None when there are too few trials, Refused outside the sane range.
ComputeCalibration(current, target, measured) ==
  LET usable == SelectSeq(measured, LAMBDA m : m > 0)
      starting == IF current = None THEN 100 ELSE current
      exact == starting * Total(usable)  unit == target * Len(usable)
  IN  IF Len(usable) < MinTrials THEN None
      ELSE IF SaneRatio(exact, unit) THEN Round(exact, unit) ELSE Refused

(***************************************************************************)
(* The robot's configuration file, config.py                               *)
(***************************************************************************)

Fields == {"slip", "scale"}

\* What _read_json() makes of an empty or malformed file is taken for {}: no
\* calibration, and none of the other entries, the trackwidth among them.
Unreadable ==
  [calibration |-> [f \in Fields |-> None], geometry |-> [f \in Fields |-> None], others |-> FALSE]

\* _parse_robot_config(): a group named calibration would win over geometry.
ParseRobotConfig(file) ==
  [f \in Fields |-> IF file.calibration[f] # None THEN file.calibration[f]
                    ELSE file.geometry[f]]

\* Mutant of SaveRobotConfig: a field that is None is cleared.
SaveRobotConfigClearing(contents, config) == [contents EXCEPT !.geometry = config]

\* What save_robot_config() writes, given the contents it read: into geometry; a
\* field that is None is written as it was read.
SaveRobotConfig(contents, config) ==
  [contents EXCEPT !.geometry =
     [f \in Fields |-> IF config[f] # None THEN config[f] ELSE contents.geometry[f]]]

(***************************************************************************)
(* What the numbers are good for                                           *)
(***************************************************************************)

\* Some wheel cruises, none is asked to go faster than the user said, and the
\* backstop leaves twice the time the motion takes.
SoundWheelsX(left, right, mm) ==
  LET f == WheelsXFields(left, right, mm)
  IN  IF left = 0 /\ right = 0 THEN f = Refused
      ELSE /\ f.cruise > 0 /\ f.cruise \in {Abs(left), Abs(right)}
           /\ f.cruise >= Abs(left) /\ f.cruise >= Abs(right)
           /\ f.timeout >= 1000 /\ f.timeout * f.cruise >= 2000 * Abs(f.left)
           /\ Abs(f.left) = Abs(mm) /\ Abs(f.right) = Abs(mm)
           /\ mm > 0 /\ left # 0 => (f.left > 0 <=> left > 0)

SoundGoto(distance, speed, timeout) ==
  LET ms == PrepareGoto(distance, speed, timeout)
  IN  IF speed <= 0 \/ (timeout # None /\ timeout <= 0) THEN ms = Refused
      ELSE ms > 0 /\ (timeout = None => ms * speed >= 2000 * distance)

\* A lease outlives its resend as far as the 5000 ms ceiling lets it.
SoundStream(resend) ==
  LET lease == StreamLease(resend)
  IN  IF resend <= 0 THEN lease = Refused
      ELSE lease <= 5000 /\ lease >= Least(resend, 5000) /\ (resend < 1667 => lease >= 3 * resend)

Speeds == {-200, -7, 0, 7, 100}      \* [mm/s]
Lengths == {-300, 0, 1, 333, 2000}   \* [mm]

WheelsXSound == \A left, right \in Speeds, mm \in Lengths : SoundWheelsX(left, right, mm)
GotoSound    == \A mm \in Lengths, speed \in Speeds, timeout \in {None, -1, 0, 50} :
                  SoundGoto(Abs(mm), speed, timeout)
StreamSound  == \A resend \in -1..5200 : SoundStream(resend)

\* What a robot of true slip or scale does with a prepared trial.
Turned(trial, track, true) == Round(2 * true * trial.right * trial.duration, 100 * track)
Travelled(trial, true) == Round(true * trial.right * trial.duration, 100000)

\* True values, starting values and speeds the calibrations are tried with.
TrueValues == {55, 90, 100, 118, 145}
Starting == {None, 50, 92, 150}
TrialSpeeds == {1000, 2004}

\* Slow speeds are left out: the robot is sent whole millimetres per second, and
\* what rounding takes from a slow one is calibrated into the slip.
TurnsConverge ==
  \A true \in TrueValues, starting \in Starting, speed \in TrialSpeeds,
     angle \in {785, 1571}, track \in {128, 150} :
    LET turned == Turned(ComputeTurn(angle, speed, track, starting), track, true)
    IN  ComputeCalibration(starting, angle, [i \in 1..MinTrials |-> turned])
          \in (true - 1)..(true + 1)

DistancesConverge ==
  \A true \in TrueValues, starting \in Starting, speed \in TrialSpeeds, distance \in {400, 777} :
    LET gone == Travelled(ComputeDistanceTrial(distance, speed, starting), true)
    IN  ComputeCalibration(starting, distance, [i \in 1..MinTrials |-> gone])
          \in (true - 1)..(true + 1)
=============================================================================
