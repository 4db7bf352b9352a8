SPECIFICATION FairSpec
CONSTANTS
  Node = {1, 2, 3}
  Batch = 2
  Prefetch = 4
  PerPeer = 1
  AtOnce = 1
  Backlog = 1
  Worlds <- Networks
INVARIANTS RequestsOwned HonestNotBlamed
PROPERTY SyncSettles
CHECK_DEADLOCK FALSE
