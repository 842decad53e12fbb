SPECIFICATION AnySpec
CONSTANTS
  t1 = t1
  t2 = t2
  t3 = t3
  Tasks = {t1, t2, t3}
  KeyOf <- JobKey
  NoKey = NoKey
  NoTask = NoTask
  Callers = {x, y}
  Threads = {1}
  PoolLimit = 2
  MaxCycles = 1
  SelfStops = {t3}
  MaxIsolated = 2
  MaxRefusals = 2
  MAX_DOCUMENT_DEPTH = 4
  MAX_SCHEMA_NODES = 8
  RecursionLimit = 5
  MaxSaves = 1
  SchemaTexts <- SomeSchemas
  ArgumentTexts <- SomeArguments
  TimelineJobs = {1, 2, 3}
  RunnerOf <- Runners3
  FillerJobs = {2}
  ProfileOf <- Profiles3
  LongRunning = {1}
  MaxClock = 2
CHECK_DEADLOCK FALSE
INVARIANTS FuturesIntact CountedOnce PoolIsBounded 
PROPERTY WaitersReturn
