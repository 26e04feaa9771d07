SPECIFICATION MCSpec
CONSTANTS
  c1 = c1
  c2 = c2
  Approvals = {a1}
  Calls = {c1, c2}
  Sweeps = {s1}
  TimeoutPolicy = "escalate"
  MaxFaults = 1
  MaxRestarts = 1
INVARIANTS
  TypeOK
  RestResumeWasDecided
  LateCallsBounce
PROPERTIES
  ImplementsPromise
  OverdueIsSettled
CHECK_DEADLOCK FALSE
