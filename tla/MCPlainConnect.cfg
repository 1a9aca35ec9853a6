CONSTANTS
  LineCap = 3
  ReplyCap = 4
  MaxFaults = 1
  MaxQueueDepth = 1
  CompletionReasons = {"stop"}
  IdSpace = 100
  MaxPending = 3
  MaxId = 2
  Verbs = {"STATUS", "STOP"}
  Probes = {}
  MaxProbes = 0
  PromptLink = FALSE
  Connects = {"plain"}
  FreshChannel = TRUE
  HelloOutlives = FALSE
  MaxSessions = 2
  MaxReboots = 0
SPECIFICATION LifecycleSpec
INVARIANTS AckedWasExecuted
CHECK_DEADLOCK FALSE
