SPECIFICATION FairThreadsSpec
CONSTANTS
  NoCaller = NoCaller
  Caller <- MCCaller
  Worker <- MCWorker
  Reader <- MCReader
  NumLocks = 2
  Tx <- MCTx
  Expiration <- MCExpiration
  Ours <- MCOurs
  Order <- OtherOrder
  Scenarios <- MCScenarios
  Future = 1
  MaxClock = 2
PROPERTY
  ShutdownCompletes
\* The node stops at the end of its shutdown.
CHECK_DEADLOCK FALSE
