SPECIFICATION Spec
CONSTANTS
  Campaigns = {k1}
  Contacts = {c1}
  Rows = {w1, w2}
  Unreachable = {}
  Runs = {r1, r2}
  Calls = {o1, o2}
  Marks = {}
  Messages = {}
  Batch = 1
  MaxTries = 1
  MaxFaults = 1
SYMMETRY CampaignSymmetry
INVARIANTS
  TypeOK
  StopIsHeeded
  CompletedIsServed
CHECK_DEADLOCK FALSE
