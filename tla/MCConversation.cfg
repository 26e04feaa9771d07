SPECIFICATION FairSpec
CONSTANTS
  Messages = {m1, m2}
  Resets = {m2}
  Keywords = {m2}
  Decisions = {d1}
  Mute = {m1}
  MaxHandlers = 2
  MaxTries = 2
  MaxSessions = 3
  MaxRepeats = 1
  MaxOps = 1
  MaxFaults = 1
INVARIANTS
  TypeOK
  AnsweredOnce
  SilenceIsExplained
  SaidIsRecorded
  PausedIsQuiet
  SessionsDoNotPileUp
PROPERTIES
  KeepsPromise
  HandlersEnd
CHECK_DEADLOCK FALSE
