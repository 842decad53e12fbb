SPECIFICATION Spec
CONSTANTS
  j1 = j1
  r1 = r1
  Jobs = {j1}
  Filler = {}
  Billable = {j1}
  FeeBillable = {j1}
  Mirrored = {j1}
  Requests = {r1}
  Backoffice = {}
  MayBlock = {}
  MayLoseProgram = {}
  Scheduler = Scheduler
  NoJob = NoJob
  Region <- OneRegion
  LIMITS_MAX_FLEETS = 1
  MaxCrashes = 0
INVARIANT UsageOwed
