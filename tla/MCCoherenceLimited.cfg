SPECIFICATION Spec
CONSTANTS
  LLC = {0, 1, 2}
  Values = {0}
  Junk = 0
  NoData = NoData
  NoCore = NoCore
  Sharers = 1
  MaxQueue = 0
  Configs <- Limited
  Idle = Idle
  Absent = Absent
  Unset = Unset
INVARIANTS
  NoAssertionFails
