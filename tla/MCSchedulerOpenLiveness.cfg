SPECIFICATION FairSpec
CONSTANTS
  NumCores = 3
  MaxThreads = 3
  NumTasks = 2
  CoreRequirement <- Req2
  Arrival <- ArrivalLate2
  MappingEpoch = 2
  CoreMask <- Mask3
  MaxSkew = 1
  Workload = {}
  Migrates = FALSE
PROPERTIES
  EveryTaskCompletes
