SPECIFICATION FairSpec
CONSTANTS
  NoBlock = NoBlock
  Start <- OneBlock
  Txs <- MCTxs
  Expiration <- MCExpiration
  Needs <- MCNeeds
  MaxBlockTxs = 1
  Worlds <- MCWorlds
INVARIANTS
  FailedPushUnwound
  NoTransactionTwice
  NoTransactionLost
  PendingApplies
  OnLongestBranch
  UndoReachesIrreversible
  FetchedIsOnChain
  LogIsOnChain
  IrreversibleStays
PROPERTY
  PushReturns
