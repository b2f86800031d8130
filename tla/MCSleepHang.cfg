SPECIFICATION FairSleepSpec
CONSTANTS
  NumCores = 2
  MaxThreads = 2
  NumTasks = 2
  CoreRequirement <- ReqOne2
  Arrival <- ArrivalNow2
  MappingEpoch = 2
  CoreMask <- Mask2
  MaxSkew = 1
  Workload = {"sleep"}
  Migrates = FALSE
PROPERTIES
  SleepersWake
CHECK_DEADLOCK FALSE
