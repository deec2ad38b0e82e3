SPECIFICATION Spec
CONSTANTS
  Publishers = {p1, p2}
  Consumers = {c1}
  MaxEvents = 3
  MaxInserts = 3
  ReplayBatch = 1
  BufSize = 1
  Matching = {1, 2}
  Retention = TRUE
  MaxFaults = 2
  Tiers = {}
  Poison = {}
INVARIANTS
  ReplayIsComplete
  LiveIsComplete
SYMMETRY Symmetry
CHECK_DEADLOCK FALSE
