--------------------------- MODULE MCWitnessVotes ---------------------------
\* WitnessVotes for TLC.
EXTENDS WitnessVotes, TLC

\* Nothing tells the accounts apart when all of them may be proxies.
AccountSymmetry == Permutations(Accounts)
=============================================================================
