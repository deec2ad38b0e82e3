SPECIFICATION FairSpec
CONSTANTS
  g1 = g1
  g2 = g2
  r1 = r1
  r2 = r2
  k1 = k1
  Goals = {g1, g2}
  Tiers = {1, 2}
  Reps = {r1, r2}
  Kinds = {k1}
  Specs <- MCSpecs
  MaxEdits = 3
  MaxPetitions = 1
  MaxFaults = 1
CHECK_DEADLOCK FALSE
INVARIANTS LibraryFollowsCluster
PROPERTIES DeletedLeaves Settles
