CONSTANTS
  Hosts = {h1, h2, h3}
  MaxBoots = 1
  MaxGen = 2
  MaxWrites = 3
  MaxEarly = 1
  MaxFaults = 1
SPECIFICATION Spec
CHECK_DEADLOCK FALSE
SYMMETRY Symmetry
INVARIANTS AckedIsVisible ClaimIsExclusiveApart
PROPERTY GenerationFallsOnlyOvertaken
