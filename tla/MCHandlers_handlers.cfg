SPECIFICATION FairSpec
CONSTANTS
  Calls = {1, 2}
  Places <- MCPlaces
  Children = {k1}
  Wired = TRUE
  MaxFaults = 1
CHECK_DEADLOCK FALSE
INVARIANTS OwnChildrenKnown
PROPERTIES ImplementsAssignment UnpausedCallEnds DecidedWaitEnds
