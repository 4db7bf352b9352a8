------------------------- MODULE MCAccountRecovery --------------------------
\* AccountRecovery for TLC.
EXTENDS AccountRecovery, TLC

\* Nothing tells the authorities apart that an account may have.
AuthoritySymmetry == Permutations(Authorities)
=============================================================================
