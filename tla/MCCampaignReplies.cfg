SPECIFICATION Spec
CONSTANTS
  Campaigns = {k1}
  Contacts = {c1, c2}
  Rows = {w1, w2}
  Unreachable = {c2}
  Runs = {r1}
  Calls = {}
  Marks = {m1}
  Messages = {i1, i2}
  Batch = 1
  MaxTries = 2
  MaxFaults = 1
SYMMETRY CampaignSymmetry
INVARIANTS
  MetricsAreReal
PROPERTIES
  KeepsPromise
CHECK_DEADLOCK FALSE
