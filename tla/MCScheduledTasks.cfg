SPECIFICATION Spec
CONSTANTS
  Tasks = {t1}
  Calls = {c1, c2}
  Polls = {p1, p2}
  Jobs = {j1, j2}
  MaxRuns = 1
  MaxTicks = 1
  MaxFaults = 0
  MaxRestarts = 1
SYMMETRY TaskSymmetry
INVARIANTS
  TypeOK
  RunNeedsApproval
PROPERTIES
  KeepsPromise
CHECK_DEADLOCK FALSE
