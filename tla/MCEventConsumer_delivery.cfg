SPECIFICATION FairSpec
CONSTANTS
  Publishers = {p1, p2}
  Consumers = {c1}
  MaxEvents = 3
  MaxInserts = 3
  ReplayBatch = 2
  BufSize = 1
  Matching = {1, 2, 3}
  Retention = FALSE
  MaxFaults = 2
  Tiers = {1, 2}
  Poison = {1}
INVARIANTS
  StreamInOrder
  CheckpointWasHandled
  CrossingIsAnnounced
PROPERTIES
  Resumes
  BufferedIsHandled
CHECK_DEADLOCK FALSE
