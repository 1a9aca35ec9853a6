CONSTANTS
  Nobody = Nobody
  repl = repl
  hello = hello
  serve = serve
  pipe = pipe
  Spawners = {repl}
  OneShots = {hello}
  FieldCommands = {}
  Served = {serve, pipe}
  Piped = {pipe}
  Targets = {"sim", "robot"}
  MaxCalls = 2
  MaxKills = 1
SPECIFICATION FairDaemonLife
INVARIANTS
  DaemonLifeTypeOK
  OneMasterUnlessOverlap
PROPERTIES
  EverythingEnds
CHECK_DEADLOCK FALSE
