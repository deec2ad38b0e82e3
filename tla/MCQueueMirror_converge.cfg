CONSTANTS
  Hosts = {h1, h2}
  MaxBoots = 2
  MaxGen = 1
  MaxWrites = 2
  MaxEarly = 0
  MaxFaults = 1
SPECIFICATION FairSpec
CHECK_DEADLOCK FALSE
PROPERTY Converges
