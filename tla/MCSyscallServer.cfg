SPECIFICATION FairSpec
CONSTANTS
  t1 = t1
  t2 = t2
  t3 = t3
  f1 = f1
  f2 = f2
  b1 = b1
  Threads = {t1, t2, t3}
  Futexes = {f1, f2}
  Bits = {b1}
  MaxTimeout = 1
  WakeOps <- MCWakeOps
INVARIANTS
  TypeOK
  OneEntryEach
  NextTimeoutExists
PROPERTIES
  NoEarlyTimeout
  WakesInOrder
  TimeoutsEnd
