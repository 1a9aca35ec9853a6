CONSTANTS
  LineCap = 3
  ReplyCap = 4
  MaxFaults = 1
  MaxQueueDepth = 1
  CompletionReasons = {"stop"}
  IdSpace = 100
  MaxPending = 3
  MaxId = 3
  Verbs = {"MOVE", "STOP", "STATUS"}
  Probes = {"ESTOP", "PING"}
  MaxProbes = 1
  PromptLink = FALSE
SPECIFICATION Spec
INVARIANTS TypeOK ExecutesInOrder AckedMeansExecuted CanResendWhatIsMissing NacksCanBeAnswered DoneMeansOver DoneReasonIsItsOwn
PROPERTIES ExecutesOneAtATime DoneNeverRegresses ImplementsInOrderDelivery
CHECK_DEADLOCK FALSE
