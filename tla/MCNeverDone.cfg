CONSTANTS
  Refused = Refused
  None = None
  Nobody = Nobody
  t1 = t1
  s1 = s1
  MinTrials = 1
  Trials = 1
  MaxQueueDepth = 1
  CompletionReasons = {"timeout"}
  Terminals = {t1}
  Servers = {}
  TerminalCommands = {"drive_ms", "turn", "stop"}
  ServerTools = {}
  AdapterKinds = {"kernel"}
  MaxCommands = 2
  MaxTools = 0
  MaxStream = 0
  LinkMayClose = FALSE
SPECIFICATION FairRogoSpec
INVARIANTS
  AcceptedDriveCompletes
CHECK_DEADLOCK FALSE
