SPECIFICATION Spec
CONSTANTS
  N = 2
INVARIANTS
  TypeOK
  NoAssertionFails
  Inclusion
PROPERTIES
  ImplementsStackLock
  AccessesEnd
