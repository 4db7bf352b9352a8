SPECIFICATION FairSpec
CONSTANTS
  Node = {1, 2, 3}
  Batch = 2
  Prefetch = 4
  PerPeer = 1
  AtOnce = 1
  Backlog = 1
  Worlds <- OnlyTwoSources
INVARIANTS BacklogDrained NeverStalled
CHECK_DEADLOCK FALSE
