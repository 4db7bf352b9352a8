------------------------------- MODULE Ledger -------------------------------
(***************************************************************************)
(* The coins of the accounts: the operations that move them, and what each *)
(* block does to them (database::_apply_block from process_interests to    *)
(* process_vesting_withdrawals).  Escrows have a module of their own.      *)
(*                                                                         *)
(* The ledger is a record l of                                             *)
(*   balance, vesting    of each account                                   *)
(*   considered          holdings_considered_for_interests                 *)
(*   power_down          the withdrawal of vesting shares under way        *)
(*   current_supply, total_vesting_shares                                  *)
(*   econ, historic      the economic model and its historic_supply        *)
(* Time is counted in blocks.                                              *)
(***************************************************************************)
EXTENDS Economics, FiniteSets, Functions

CONSTANTS
  Accounts,
  Null,             \* SOPHIATX_NULL_ACCOUNT, from which nobody can spend
  InitMiner,        \* SOPHIATX_INIT_MINER_NAME, whose witness is always active
  Witness,          \* an account that may become a witness
  IdOf,             \* account_object::id, numbered from 0
  InitBalance,      \* the balances of genesis
  Intervals,        \* SOPHIATX_VESTING_WITHDRAW_INTERVALS
  IntervalBlocks,   \* SOPHIATX_VESTING_WITHDRAW_INTERVAL_SECONDS, in blocks
  RequiredVesting,  \* dgp.witness_required_vesting
  Weights,          \* wso.timeshare_weight and wso.top19_weight
  Normalization,    \* wso.witness_pay_normalization_factor
  Spenders,         \* the accounts that send operations
  Receivers,        \* the accounts that transfers go to
  Amounts,          \* bounds: the amounts of transfers and of vesting,
  WithdrawAmounts,  \* of withdrawals,
  FeeAmounts,       \* and of fees,
  MaxOps,           \* the operations in one block,
  MaxBlocks         \* and the blocks

ASSUME LedgerAssumption ==
  /\ IsFiniteSet(Accounts)
  /\ {Null, InitMiner, Witness} \cup Receivers \cup Spenders \subseteq Accounts
  /\ Null \notin Spenders
  /\ IdOf \in Bijection(Accounts, 0 .. Cardinality(Accounts) - 1)
  /\ InitBalance \in [Accounts -> Nat]
  /\ SumFunction(InitBalance) = InitSupply
  /\ Intervals \in Nat \ {0} /\ IntervalBlocks \in Nat \ {0} /\ RequiredVesting \in Nat
  /\ Weights \subseteq Nat /\ Normalization \in Nat \ {0}
  /\ Amounts \subseteq Nat \ {0} /\ WithdrawAmounts \subseteq Nat /\ FeeAmounts \subseteq Nat \ {0}
  /\ MaxOps \in Nat /\ MaxBlocks \in Nat

VARIABLES
  ledger,  \* see above
  head,    \* dgp.head_block_number
  active,  \* whether the witness of Witness has a signing key
  halted,  \* the next block cannot be applied: an assertion fails in it
  burned,  \* history variable: what clear_null_account_balance has taken
  ops      \* the operations of the block that is being filled

vars == <<ledger, head, active, halted, burned, ops>>

Never == -1  \* time_point_sec::maximum()

total_balance(l, a) == l.balance[a] + l.vesting[a]

AccumulatedSupply(l) == SumFunction(l.historic)

\* The blocks until the account's turn; 0, not InterestBlocks, right after it.
ToMyTurn(a, block) == (IdOf[a] - block) % InterestBlocks

\* modify_balance, also with a negative amount.
adjust_balance(l, a, x, block) ==
  [l EXCEPT !.balance[a] = @ + x, !.considered[a] = @ + x * ToMyTurn(a, block)]

adjust_supply(l, x) == [l EXCEPT !.current_supply = @ + x]

vest(l, a, x) ==
  [l EXCEPT !.balance[a] = @ - x, !.vesting[a] = @ + x, !.total_vesting_shares = @ + x]

create_vesting(l, a, x, block) ==
  [l EXCEPT !.vesting[a] = @ + x, !.considered[a] = @ + x * ToMyTurn(a, block)]

NoWithdrawal == [rate |-> 0, to_withdraw |-> 0, withdrawn |-> 0, next |-> Never]

Init ==
  /\ ledger = [balance |-> InitBalance, vesting |-> [a \in Accounts |-> 0],
               considered |-> [a \in Accounts |-> 2 * InitBalance[a]],
               power_down |-> [a \in Accounts |-> NoWithdrawal],
               current_supply |-> InitSupply,
               total_vesting_shares |-> 0,
               econ |-> init_economics,
               historic |-> [k \in 0 .. InterestBlocks - 1 |-> 0]]
  /\ head = 0 /\ active = FALSE /\ halted = FALSE /\ burned = 0 /\ ops = 0

-----------------------------------------------------------------------------
\* Operations.  Their transactions see the head block of before their own block.

Operation(l) ==
  /\ ~ halted /\ ops < MaxOps /\ head < MaxBlocks
  /\ ledger' = l /\ ops' = ops + 1
  /\ UNCHANGED <<head, halted, burned>>

transfer(from, to, x) ==
  /\ ledger.balance[from] >= x
  /\ Operation(adjust_balance(adjust_balance(ledger, from, -x, head), to, x, head))
  /\ UNCHANGED active

\* Mutant: the shares go to an account without a transfer to it.
transfer_to_vesting_NoTransfer(from, to, x) ==
  /\ ledger.balance[from] >= x
  /\ Operation(IF from = to THEN vest(ledger, from, x)
               ELSE vest(adjust_balance(ledger, to, x, head), to, x))
  /\ UNCHANGED active

transfer_to_vesting(from, to, x) ==
  /\ ledger.balance[from] >= x
  /\ Operation(IF from = to THEN vest(ledger, from, x)
               ELSE vest(adjust_balance(adjust_balance(ledger, from, -x, head), to, x, head),
                         to, x))
  /\ UNCHANGED active

\* withdraw_vesting_evaluator: 0 stops the withdrawal.  A witness must keep enough.
withdraw_vesting(a, x) ==
  LET rate == IF x \div Intervals = 0 THEN 1 ELSE x \div Intervals
  IN /\ ledger.vesting[a] >= x
     /\ IF x = 0
        THEN /\ ledger.power_down[a].rate # 0
             /\ Operation([ledger EXCEPT !.power_down[a] = NoWithdrawal])
        ELSE /\ ledger.power_down[a].rate # rate
             /\ a # Witness \/ ~ active \/ ledger.vesting[a] - x >= RequiredVesting
             /\ Operation([ledger EXCEPT !.power_down[a] =
                            [rate |-> rate, to_withdraw |-> x, withdrawn |-> 0,
                             next |-> head + IntervalBlocks]])
     /\ UNCHANGED active

\* pay_fee for an operation's fee payer, or the sponsor of that account.
pay_fee(payer, fee) ==
  /\ ledger.balance[payer] >= fee
  /\ Operation([adjust_supply(adjust_balance(ledger, payer, -fee, head), -fee)
                  EXCEPT !.econ = add_fee(@, fee)])
  /\ UNCHANGED active

transfer_from_promotion_pool(to, x) ==
  /\ CanWithdrawPromotion(ledger.econ, x, head)
  /\ LET withdrawn == Least(get_available_promotion_pool(ledger.econ, head), x)
     IN Operation([adjust_supply(adjust_balance(ledger, to, withdrawn, head), withdrawn)
                     EXCEPT !.econ = withdraw_from_promotion_pool(@, withdrawn)])
  /\ UNCHANGED active

\* witness_update, with a signing key, and witness_stop.
witness_update ==
  /\ ~ active /\ ledger.vesting[Witness] >= RequiredVesting
  /\ Operation(ledger) /\ active' = TRUE

witness_stop == active /\ Operation(ledger) /\ active' = FALSE

-----------------------------------------------------------------------------
\* What every block does.

\* The accounts whose turn it is.
Batch(block) == {a \in Accounts : IdOf[a] % InterestBlocks = block % InterestBlocks}

\* The interest of account a for the period that ends with the block.
InterestOf(l, a, block) ==
  IF block <= InterestDelay THEN [coinbase |-> 0, fees |-> 0]
  ELSE interest(l.econ, l.considered[a], Least(InterestBlocks, block), AccumulatedSupply(l))

PayInterest(l, a, block) ==
  LET r == InterestOf(l, a, block)
      paid == r.coinbase + r.fees
  IN [l EXCEPT !.econ = withdraw_interests(@, r),
               !.balance[a] = @ + paid,
               !.considered[a] = (total_balance(l, a) + paid) * InterestBlocks,
               !.current_supply = @ + paid]

\* In the order of the ids: paid[n] is the ledger when those below n have had
\* their turn.
process_interests(l, block) ==
  LET paid[n \in 0 .. Cardinality(Accounts)] ==
        IF n = 0 THEN l
        ELSE LET a == CHOOSE b \in Accounts : IdOf[b] = n - 1
             IN IF a \in Batch(block) THEN PayInterest(paid[n - 1], a, block) ELSE paid[n - 1]
  IN paid[Cardinality(Accounts)]

\* What null has been sent leaves the supply, but enters no pool.
NullBalance(l) == total_balance(l, Null)

clear_null_account_balance(l, block) ==
  LET m == adjust_balance(l, Null, - l.balance[Null], block)
  IN adjust_supply([m EXCEPT !.total_vesting_shares = @ - l.vesting[Null], !.vesting[Null] = 0],
                   - NullBalance(l))

\* process_funds pays the witness in vesting shares.
process_funds(l, witness, block, weight) ==
  LET r == mining_reward(l.econ, block, weight, Normalization)
      paid == r.coinbase + r.fees
      m == create_vesting([l EXCEPT !.econ = withdraw_mining_reward(@, r)], witness, paid, block)
  IN [m EXCEPT !.current_supply = @ + paid, !.total_vesting_shares = @ + paid]

\* Mutant: the last payment of a withdrawal is a full one.
ToWithdraw_Full(l, a) == Least(l.vesting[a], l.power_down[a].rate)

\* What the withdrawal of account a pays this time.
ToWithdraw(l, a) ==
  LET p == l.power_down[a]
  IN IF p.to_withdraw - p.withdrawn < p.rate
     THEN Least(l.vesting[a], p.to_withdraw % p.rate)
     ELSE Least(l.vesting[a], p.rate)

\* The withdrawal of account a after it has paid x.
Withdraw(l, a, x) ==
  LET p == l.power_down[a]
      over == p.withdrawn + x >= p.to_withdraw \/ l.vesting[a] = x
  IN [p EXCEPT !.withdrawn = @ + x,
               !.rate = IF over THEN 0 ELSE @,
               !.next = IF over THEN Never ELSE @ + IntervalBlocks]

\* Each account that is due is paid from its own shares.
process_vesting_withdrawals(l, block) ==
  LET due == {a \in Accounts : l.power_down[a].next # Never /\ l.power_down[a].next <= block}
      x == [a \in Accounts |-> IF a \in due THEN ToWithdraw(l, a) ELSE 0]
  IN [l EXCEPT !.vesting = [a \in Accounts |-> @[a] - x[a]],
               !.balance = [a \in Accounts |-> @[a] + x[a]],
               !.total_vesting_shares = @ - SumFunction(x),
               !.power_down = [a \in Accounts |-> IF a \in due THEN Withdraw(l, a, x[a]) ELSE @[a]]]

\* The witnesses with a signing key.
Producers == {InitMiner} \cup {w \in {Witness} : active}

\* _apply_block: the witness is of either kind.  When an account of the batch
\* has a holding that withdraw_interests does not accept, no block of this number
\* can be applied.
apply_block ==
  /\ ~ halted /\ head < MaxBlocks
  /\ IF head + 1 > InterestDelay
        /\ \E a \in Batch(head + 1) :
              ~ InterestDefined(ledger.considered[a], AccumulatedSupply(ledger))
     THEN halted' = TRUE /\ UNCHANGED <<ledger, head, active, burned, ops>>
     ELSE \E witness \in Producers, weight \in Weights :
            LET block == head + 1
                l1 == process_interests(ledger, block)
                l2 == clear_null_account_balance(l1, block)
                l3 == process_funds(l2, witness, block, weight)
                l4 == process_vesting_withdrawals(l3, block)
            IN /\ ledger' = [l4 EXCEPT !.historic =
                              record_block(@, block, l4.current_supply)]
               /\ burned' = burned + NullBalance(l1)
               /\ head' = block /\ ops' = 0
               /\ UNCHANGED <<active, halted>>

Next ==
  \/ \E a \in Spenders, b \in Receivers, x \in Amounts :
        transfer(a, b, x) \/ transfer_to_vesting(a, b, x)
  \/ \E a \in Spenders, x \in WithdrawAmounts : withdraw_vesting(a, x)
  \/ \E a \in Spenders, x \in FeeAmounts : pay_fee(a, x)
  \/ \E a \in Receivers, x \in Amounts : transfer_from_promotion_pool(a, x)
  \/ witness_update
  \/ witness_stop
  \/ apply_block

Spec == Init /\ [][Next]_vars

-----------------------------------------------------------------------------
(***************************************************************************)
(* Properties.                                                             *)
(***************************************************************************)

\* validate_invariants: the current supply is what the accounts hold, and the total
\* of vesting shares what they have vested, after every operation and every block; no
\* account is overdrawn.
SupplyIsHeld ==
  /\ \A a \in Accounts : ledger.balance[a] >= 0 /\ ledger.vesting[a] >= 0
  /\ ledger.current_supply = SumFunction([a \in Accounts |-> total_balance(ledger, a)])
  /\ ledger.total_vesting_shares = SumFunction(ledger.vesting)

\* Every coin of the total supply is in the current supply, in a pool, or was sent
\* to the null account; no pool is emptied below zero.
TotalIsAccounted ==
  /\ ledger.current_supply + Pools(ledger.econ) + burned = TotalSupply
  /\ \A f \in DOMAIN ledger.econ : ledger.econ[f] >= 0

\* A withdrawal pays out exactly what was asked for: it stays within the account's
\* shares while it runs and ends with the last of them paid.
WithdrawalIsExact ==
  \A a \in Accounts :
     LET p == ledger.power_down[a]
     IN IF p.rate > 0
        THEN /\ p.withdrawn < p.to_withdraw /\ p.withdrawn % p.rate = 0
             /\ p.to_withdraw - p.withdrawn <= ledger.vesting[a]
        ELSE p.withdrawn = p.to_withdraw

\* What validate_invariants asserts of the total supply.
PoolsCoverTotal == ledger.current_supply + Pools(ledger.econ) = TotalSupply

\* What withdraw_interests asserts of the holdings: the interest of each account can
\* be computed in every block.
NeverHalts == ~ halted

\* "witness requires at least ${a} of vested balance"
WitnessIsVested == active => ledger.vesting[Witness] >= RequiredVesting
=============================================================================
