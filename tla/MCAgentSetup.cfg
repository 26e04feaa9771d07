SPECIFICATION Spec
CONSTANTS
  Agents = {a1, a2}
  Channels = {ch1}
  N = 2
  MaxLayers = 2
  Calls = {c1, c2}
  Readers = {r1}
  TTL = 1
  MaxWait = 1
  MaxFaults = 1
SYMMETRY SetupSymmetry
INVARIANTS
  TypeOK
  StaleIsBounded
  InvalidateIsHeeded
  ClaimsAreExplained
  LayersAreExplained
