SPECIFICATION Spec
CONSTANTS
  N = 2
INVARIANT ReadersShare
