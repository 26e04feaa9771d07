SPECIFICATION FairSpec
CONSTANTS
  MaxSessions = 2
  MaxPosted = 1
  N = 2
  Patient = {2}
  Calls = {c1}
  Deliveries = {d1}
  Messages = {m1, m2}
  OptOuts = {m2}
  MaxAttempts = 2
  MaxPosts = 3
  MaxRetries = 2
  MaxFaults = 1
INVARIANTS
  TypeOK
  SentOnce
  TimeoutIsTrue
  AnalysedIsWhole
PROPERTIES
  KeepsPromise
  RunsFinish
CHECK_DEADLOCK FALSE
