SPECIFICATION Spec
CONSTANTS
  j1 = j1
  j2 = j2
  k1 = k1
  p1 = p1
  p2 = p2
  w1 = w1
  w2 = w2
  None = None
  Jobs = {j1, j2}
  Keys = {k1}
  Limits <- OneLimit
  Producers = {p1, p2}
  Workers = {w1, w2}
  IdOf <- OwnIds
  MaxExpiries = 1
SYMMETRY Symmetry
INVARIANTS RowsAreExclusive TrailTellsOutcome
PROPERTIES StaleRunsAreRefused LifecycleSpec
CHECK_DEADLOCK FALSE
