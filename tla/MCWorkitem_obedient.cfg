SPECIFICATION FairSpec
CONSTANTS
  w1 = w1  w2 = w2  n1 = n1  n2 = n2  None = None
  Workitems = {w1, w2}
  Nodes = {n1, n2}
  EntryNodes = {n1}
  ExitNodes = {n2}
  Outputs <- MCOutputs
  Submittable <- MCNamed
  Routable <- MCRoutes
  MaxVisits = 2
  Workers = 2
  TimeoutOn = TRUE
  Obedient = TRUE
  MaxFaults = 0
CHECK_DEADLOCK FALSE
PROPERTIES RootCompletesAtExit TerminalIsFinal FollowsInstruction AwaitEnds
