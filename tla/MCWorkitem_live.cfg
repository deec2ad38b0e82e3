SPECIFICATION FairSpec
CONSTANTS
  w1 = w1  w2 = w2  n1 = n1  n2 = n2  None = None
  Workitems = {w1}
  Nodes = {n1, n2}
  EntryNodes = {n1}
  ExitNodes = {n2}
  Outputs <- MCOutputs
  Submittable <- MCAll
  Routable <- MCRoutes
  MaxVisits = 2
  Workers = 1
  TimeoutOn = TRUE
  Obedient = FALSE
  MaxFaults = 1
CHECK_DEADLOCK FALSE
INVARIANTS WithinBudget HandlerOwnsItem
PROPERTIES NoLostUpdate RunningEnds
