------------------------------ MODULE MCLedger ------------------------------
\* Ledger for TLC: the initial miner, a user and the null account.
EXTENDS Ledger

MCAccounts == {"null", "initminer", "user"}

MCIdOf == [a \in MCAccounts |-> CASE a = "null" -> 0 [] a = "initminer" -> 1 [] a = "user" -> 2]

MCBalance == [a \in MCAccounts |-> CASE a = "null" -> 0 [] a = "initminer" -> 10 [] a = "user" -> 20]
=============================================================================
