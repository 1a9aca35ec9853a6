CONSTANTS
  LineCap = 3
  ReplyCap = 4
  MaxFaults = 1
  MaxQueueDepth = 1
  CompletionReasons = {"stop"}
  IdSpace = 100
  MaxPending = 3
  MaxId = 2
  Verbs = {"STATUS"}
  Probes = {}
  MaxProbes = 0
  PromptLink = FALSE
  Connects = {"sim", "hello"}
  FreshChannel = TRUE
  HelloOutlives = FALSE
  MaxSessions = 2
  MaxReboots = 1
SPECIFICATION LifecycleSpec
INVARIANTS AckedWasExecuted
CHECK_DEADLOCK FALSE
