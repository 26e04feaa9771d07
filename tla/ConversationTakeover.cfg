SPECIFICATION Spec
CONSTANTS
  Messages = {m1, m2}
  Resets = {}
  Keywords = {}
  Decisions = {}
  Mute = {}
  MaxHandlers = 1
  MaxTries = 2
  MaxSessions = 2
  MaxRepeats = 0
  MaxOps = 1
  MaxFaults = 0
PROPERTIES
  TakeoverHolds
CHECK_DEADLOCK FALSE
