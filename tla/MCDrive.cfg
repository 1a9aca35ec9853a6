CONSTANTS
  ClockSpan = 16
  LeaseMax = 2
  StopEnforceTicks = 1
  Settle = 1
  CyclePeriod = 3
  StallWindow = 1
  Leases = {1, 4}
  BootDuty = 0
  MaxLate = 0
  MaxIdle = 8
  MaxFaults = 0
  Calls = {"drive", "neutral", "estop", "estopClear", "emergency", "clearStall"}
  Configs = {"nothing", "everything"}
SPECIFICATION Spec
INVARIANTS DriveTypeOK HaltStopsInTime NothingAfterEmergency
PROPERTY ImplementsLeasedDrive
CHECK_DEADLOCK FALSE
