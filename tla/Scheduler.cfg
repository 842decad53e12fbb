SPECIFICATION AnySpec
CONSTANTS
  Kinds = {"provider", "custom"}
  Output <- SomeLines
  LIMIT = 3
  MaxFaults = 1
  Authors = {"u1", "u2"}
  Operator = "op"
  Settings <- SomeSettings
  LIMITS_MAX_FLEETS = 2
  JobsPerUser = 2
  JobsPerTick = 2
  RETRY_AFTER_LOOPS = 1
  MaxRows = 3
  MaxEdits = 1
  MaxTroubles = 1
  NoFunction = NoFunction
  FleetProject <- InProject
  FleetRegion <- InRegions
  UNASSIGNED_PROJECT = "unassigned"
  Quota = 3
  ForceAtPercent = 80
  MaxDeletes = 1
  MaxAttempts = 2
  MaxTracked = 1
  Lifeless = {"west"}
  Refused = {2}
  Elsewhere = {4}
  MaxMishaps = 1
CHECK_DEADLOCK FALSE
INVARIANTS LogsAreFaithful CapacityIsShared CleanupIsSafe
PROPERTIES WrapperExits 
