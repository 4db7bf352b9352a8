SPECIFICATION Spec
CONSTANTS
  NoBlock = NoBlock
  Start <- OneBlock
  Txs <- MCTxs
  Expiration <- MCExpiration
  Needs <- MCNeeds
  MaxBlockTxs = 1
  Worlds <- StaleHeadWorlds
INVARIANTS
  HighestBlockReturned
  LogIsOnChain
