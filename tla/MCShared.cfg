CONSTANTS
  Refused = Refused
  None = None
  Nobody = Nobody
  t1 = t1
  s1 = s1
  MinTrials = 1
  Trials = 1
  MaxQueueDepth = 1
  CompletionReasons = {"timeout"}
  Terminals = {t1}
  Servers = {s1}
  TerminalCommands = {"hello", "stop", "estop", "drive_negative", "drive_mm", "goto", "stream", "config_get", "config_set", "calibrate_distance"}
  ServerTools = {"turn", "calibrate_turns"}
  AdapterKinds = {"sim", "kernel"}
  MaxCommands = 1
  MaxTools = 2
  MaxStream = 1
  LinkMayClose = TRUE
SPECIFICATION FairRogoSpec
INVARIANTS
  SharedTypeOK
  ReportsAreTrue
  AloneIsTruthful
  UnackedHasCause
  WhatEndedIsOver
  PreparedMotionIsSound
  CalibrationConverges
  SavedIsKept
PROPERTIES
  CommandsEnd
CHECK_DEADLOCK FALSE
