SPECIFICATION FairSpec
CONSTANTS
  c1 = c1
  c2 = c2
  c3 = c3
  c4 = c4
  t1 = t1
  t2 = t2
  t3 = t3
  t4 = t4
  None = None
  Cores = {c1, c2}
  Threads = {t1, t2, t3}
  HostCores = 1
  MaxAhead = 1
  Preempts = TRUE
  Disables = FALSE
INVARIANTS
  WakeupForEachWaiter
  NobodyBeyondBarrier
PROPERTIES
  WaitersLeave
  AdvanceEnds
