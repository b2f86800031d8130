SPECIFICATION Spec
CONSTANTS
  LLC = {0, 1, 2}
  Values = {0}
  Junk = 0
  NoData = NoData
  NoCore = NoCore
  Sharers = 1
  MaxQueue = 0
  Configs <- FullMaps
  Idle = Idle
  Absent = Absent
  Unset = Unset
INVARIANTS
  TypeOK
  NoAssertionFails
  DirectoryTracksCopies
PROPERTIES
  ImplementsLineAccess
  WaitersServed
