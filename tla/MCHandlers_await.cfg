SPECIFICATION FairSpec
CONSTANTS
  Calls = {1}
  Places <- MCPlaces
  Children = {k1, k2}
  Wired = FALSE
  MaxFaults = 2
CHECK_DEADLOCK FALSE
PROPERTIES AwaitSeesAll AwaitEnds
