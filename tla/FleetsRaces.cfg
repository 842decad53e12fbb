SPECIFICATION RaceSpec
CONSTANTS
  j1 = j1
  j2 = j2
  r1 = r1
  r2 = r2
  Jobs = {j1, j2}
  Filler = {j2}
  Billable = {j1}
  FeeBillable = {j1}
  Mirrored = {j1}
  Requests = {r1, r2}
  Backoffice = {r2}
  MayBlock = {}
  MayLoseProgram = {j1}
  Scheduler = Scheduler
  NoJob = NoJob
  Region <- OneRegion
  LIMITS_MAX_FLEETS = 1
  MaxCrashes = 0
INVARIANT AnswersAreTrue
INVARIANT NoSilentOrphan
 
INVARIANT OutboxExact
PROPERTY CreatedWithEnvVars
