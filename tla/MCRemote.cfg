CONSTANTS
  Threads = {mcp, cli, panic}
  Tools = {mcp}
  Bodies = {"estop", "quick", "wait"}
  WaitTimeouts = {1, 5}
  Margin = 3
  FindTimeout = 1
  MaxRequests = 6
  MaxCalls = 6
  NoThread = NoThread
SPECIFICATION RemoteSpec
INVARIANTS RemoteTypeOK EstopAndProbeInTime ExpiresOnlyBehindAnother
CHECK_DEADLOCK FALSE
