CONSTANTS
  LineCap = 3
  ReplyCap = 4
  MaxFaults = 1
  MaxQueueDepth = 1
  CompletionReasons = {"stop"}
  IdSpace = 100
  MaxPending = 3
  MaxId = 2
  Verbs = {"STATUS", "STOP"}
  Probes = {}
  MaxProbes = 0
  PromptLink = FALSE
  Connects = {"sim", "hello"}
  FreshChannel = FALSE
  HelloOutlives = FALSE
  MaxSessions = 4
  MaxReboots = 0
SPECIFICATION LifecycleSpec
INVARIANTS NothingForeign
PROPERTIES ExecutesAtMostOnce
CHECK_DEADLOCK FALSE
