SPECIFICATION FairSpec
CONSTANTS
  Tasks = {t1}
  Calls = {c1}
  Polls = {p1, p2}
  Jobs = {j1}
  MaxRuns = 2
  MaxTicks = 3
  MaxFaults = 1
  MaxRestarts = 1
INVARIANTS
  ClosedForCause
PROPERTIES
  DueIsHandled
CHECK_DEADLOCK FALSE
