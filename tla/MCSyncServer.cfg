SPECIFICATION FairSpec
CONSTANTS
  t1 = t1
  t2 = t2
  t3 = t3
  m1 = m1
  m2 = m2
  c1 = c1
  b1 = b1
  None = None
  Threads = {t1, t2, t3}
  Mutexes = {m1, m2}
  Conds = {c1}
  Barriers = {b1}
  BarrierCount <- Count3
INVARIANTS
  TypeOK
  OneEntryEach
PROPERTIES
  WokenOwnsMutex
  NoOvertaking
  BarrierReleasesAll
  MutexWaitersServed
CHECK_DEADLOCK FALSE
