SPECIFICATION FairSpec
CONSTANTS
  Node = {1, 2, 3}
  Batch = 2
  Prefetch = 4
  PerPeer = 1
  AtOnce = 1
  Backlog = 1
  Worlds <- OnlyOvertaken
INVARIANT AnswersSynopsisSent
CHECK_DEADLOCK FALSE
