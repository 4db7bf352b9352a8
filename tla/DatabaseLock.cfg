SPECIFICATION QueueSpec
CONSTANTS
  NoCaller = NoCaller
  Caller = {c1, c2}
  Reader = {r1, r2}
  NumLocks = 2
INVARIANT
  ReadersExcluded
CHECK_DEADLOCK FALSE
