CONSTANTS
  Threads = {t1, t2, t3}
  Bodies = {"estop", "quick", "wait"}
  MaxRequests = 4
  NoThread = NoThread
SPECIFICATION FairDaemonSpec
INVARIANTS DaemonTypeOK AbortedIffEstopWaits ServedInArrivalOrder
PROPERTIES EstopIsServed QueuedIsAnswered
CHECK_DEADLOCK FALSE
