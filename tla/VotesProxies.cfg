SPECIFICATION VotesSpec
CONSTANTS
  Accounts = {a, b, c, d, e}
  Witnesses = {w}
  NoProxy = NoProxy
  MaxProxyDepth = 3
  MaxWitnessVotes = 1
  Targets = {a, b, c, d, e}
  MaxSupply = 1
INVARIANTS
  NoProxyLoop
  ProxiedExact
  VotesExact
SYMMETRY
  AccountSymmetry
