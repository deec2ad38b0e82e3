CONSTANTS
  Hosts = {h1, h2}
  MaxBoots = 1
  MaxGen = 1
  MaxWrites = 2
  MaxEarly = 0
  MaxFaults = 0
SPECIFICATION Spec
CHECK_DEADLOCK FALSE
INVARIANT AckedSurvives
