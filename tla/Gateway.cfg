SPECIFICATION Spec
CONSTANTS
  Users = {"u1", "u2"}
  Providers = {"p1"}
  Titles = {"t1", "t2"}
  FunctionIds = {"f1", "f2", "f3", "f4", "f5"}
  None = None
  Entitlements <- Granted
  GroupGrants <- Grants
  MaxChanges = 3
  JobIds = {1, 2, 3, 4}
  JobKind <- Kinds
  SubStatuses = {"MAPPING", "EXECUTING"}
  RuntimeJobs = {"x1", "x2", "x3"}
  SessionOf <- Sessions
  Reqs = {1, 2}
  MaxRequests = 2
  PageSize = 2
  Profiles = {"small", "large"}
  DefaultSize = "S"
  DefaultProfile = "small"
  DefaultProject = "shared"
  ProjectOf <- OwnProject
  Forms <- SomeForms
  Uploaders = {1, 2}
  MaxUploads = 3
  MaxSizes = 9
  MaxEdits = 1
  Runs = {1, 2}
  RunIds = {1, 2, 3}
  ActiveLimit = 1
  RawNames <- Names
  RawSubPaths <- SubPaths
  Characters = {"a", ".", "+", "/"}
  MaxNameLength = 5
  MaxFileUploads = 2
CHECK_DEADLOCK FALSE
INVARIANTS RightsAreKept   CatalogIsKept  FilesAreKept
PROPERTY SettledRightsAreFollowed
