SPECIFICATION Spec
CONSTANTS
  Jobs <- Two
  MaxClusters = 1
  NoDelete = FALSE
  MaxStops = 1
  MaxFaults = 1
 
PROPERTY FinalWhenRead
PROPERTY RayJobsSettle
