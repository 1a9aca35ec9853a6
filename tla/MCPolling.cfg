CONSTANTS
  LineCap = 4
  ReplyCap = 5
  MaxFaults = 2
  MaxQueueDepth = 1
  CompletionReasons = {"stop"}
  IdSpace = 100
  MaxPending = 4
  MaxId = 4
  Verbs = {"STATUS"}
  Probes = {}
  MaxProbes = 0
  PromptLink = TRUE
SPECIFICATION FairSpec
PROPERTIES PollingRecovers
CHECK_DEADLOCK FALSE
