SPECIFICATION Spec
CONSTANTS
  NumCores = 1
  MaxThreads = 2
  NumTasks = 2
  CoreRequirement <- ReqOne2
  Arrival <- ArrivalNow2
  MappingEpoch = 2
  CoreMask <- Mask1
  MaxSkew = 1
  Workload = {}
  Migrates = FALSE
INVARIANTS
  NoStrandedTask
CHECK_DEADLOCK FALSE
