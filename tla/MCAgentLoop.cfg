SPECIFICATION FairSpec
CONSTANTS
  Runs = {r1, r2}
  Tools = {t1, t2}
  Risky = {t2}
  MaxTurns = 2
  MaxToolCalls = 2
  MaxRetries = 1
  HasFallback = TRUE
  Budget = 2
  MaxCost = 2
  MaxRequests = 1
INVARIANTS
  TypeOK
  LimitsHold
  ApprovalStopsRun
  AbortIsHeeded
  CallsAreBounded
PROPERTIES
  RunsEnd
