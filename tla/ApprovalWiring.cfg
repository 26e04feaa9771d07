SPECIFICATION FairSpec
CONSTANTS
  Approvals = {a1}
  Calls = {c1}
  Sweeps = {s1}
  TimeoutPolicy = "none"
  MaxFaults = 0
  MaxRestarts = 1
PROPERTIES
  StaleIsResolved
CHECK_DEADLOCK FALSE
