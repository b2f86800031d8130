SPECIFICATION Spec
CONSTANTS
  c1 = c1
  c2 = c2
  c3 = c3
  c4 = c4
  t1 = t1
  t2 = t2
  t3 = t3
  t4 = t4
  None = None
  Cores = {c1, c2, c3, c4}
  Threads = {t1, t2, t3, t4}
  HostCores = 1
  MaxAhead = 1
  Preempts = FALSE
  Disables = TRUE
SYMMETRY Symmetry
INVARIANTS
  TypeOK
  NoAssertionFails
  ReleaseGoesOn
