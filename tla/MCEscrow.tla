------------------------------ MODULE MCEscrow ------------------------------
\* Escrow for TLC: one account pays for escrows under two ids, and another for one.
EXTENDS Escrow

CONSTANTS Alice, Bob, Sam

MCAccounts == {Alice, Bob, Sam}

MCKeys == {<<Alice, 1>>, <<Alice, 2>>, <<Bob, 1>>}

MCBalance == [a \in MCAccounts |-> IF a = Alice THEN 5 ELSE 0]

\* To two different accounts, with different amounts and deadlines.
MCTerms ==
  {[to |-> Bob, agent |-> Sam, sophiatx_amount |-> 2, escrow_fee |-> 1,
    ratification_deadline |-> 2, escrow_expiration |-> 3],
   [to |-> Alice, agent |-> Sam, sophiatx_amount |-> 1, escrow_fee |-> 1,
    ratification_deadline |-> 1, escrow_expiration |-> 2]}
=============================================================================
