CONSTANTS
  ClockSpan = 32
  LeaseMax = 1
  StopEnforceTicks = 2
  Settle = 1
  CyclePeriod = 1
  StallWindow = 0
  Leases = {1}
  BootDuty = 2
  MaxLate = 1
  MaxIdle = 16
  MaxFaults = 1
  Calls = {"driveDuty", "estop"}
  Configs = {"maxDuty"}
SPECIFICATION Spec
INVARIANTS QuietMeansStopped MotionIsLeased
CHECK_DEADLOCK FALSE
