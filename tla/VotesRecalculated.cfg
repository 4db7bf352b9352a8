SPECIFICATION VotesSpec
CONSTANTS
  Accounts = {a, b}
  Witnesses = {w}
  NoProxy = NoProxy
  MaxProxyDepth = 2
  MaxWitnessVotes = 1
  Targets = {b}
  MaxSupply = 2
INVARIANT
  VotesWithinSupply
