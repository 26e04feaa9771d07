SPECIFICATION Spec
CONSTANTS
  MaxSessions = 1
  MaxPosted = 1
  N = 2
  Patient = {}
  Calls = {}
  Deliveries = {d1}
  Messages = {m1, m2}
  OptOuts = {m2}
  MaxAttempts = 1
  MaxPosts = 3
  MaxRetries = 2
  MaxFaults = 0
PROPERTIES
  NoTurnAfterOptOut
CHECK_DEADLOCK FALSE
