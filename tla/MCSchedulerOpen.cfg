SPECIFICATION Spec
CONSTANTS
  NumCores = 3
  MaxThreads = 4
  NumTasks = 3
  CoreRequirement <- Req3
  Arrival <- Arrival3
  MappingEpoch = 1
  CoreMask <- Mask3
  MaxSkew = 1
  Workload = {"sleep", "syscall"}
  Migrates = TRUE
INVARIANTS
  TypeOK
  ArrivalsFetched
  CoreOwnership
  RunningInverse
  AssignedAffinity
  UncontestedCores
  RunsWhereItBelongs
  ThreadsGetCores
  NoLostWakeup
PROPERTIES
  ImplementsTaskQueue
CHECK_DEADLOCK FALSE
