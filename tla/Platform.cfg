SPECIFICATION Spec
CONSTANTS
  Queues = {"e1", "e2"}
  RegionOf <- InRegion
  ReasonOf <- ForReason
  EventLog <- History
  Regions <- InOrder
  DownRegions = {"lost"}
  Crns <- SomeCrns
  MaxBatch = 2
  MaxEventFaults = 2
  Users = {"u1"}
  Providers = {}
  Titles = {}
  FunctionIds = {"f1"}
  None = None
  Entitlements = {}
  MaxChanges = 0
  GroupGrants = {}
  AccessGroups = {"g1"}
  Headers <- SomeHeaders
  Logins = {1, 2}
  Unset = Unset
  BackoffSteps <- Doubling
  RetryTime = 3
  TokenReuse = 2
  TokenMaxAge = 2
  RequestTimeout = 1
  WaitTimeouts <- SomeTimeouts
  ArtifactJobs = {"j1", "j2"}
  Casts <- SomeCasts
  ProgramRows <- SomePrograms
  ProjectRows <- SomeProjects
  Members <- Versions
  MaxMoves = 1
  Null = Null
  Contents <- SomeContents
  ChunkSizes = {1, 2, 5}
  LogLimit = 3
  LogAttempts = 2
CHECK_DEADLOCK FALSE
INVARIANTS BlocksAreKept GroupsWereAnswered ClientIsTrue 
PROPERTIES Converges GroupsFollow WaitsEnd
