---------------------------- MODULE LedgerProofs -----------------------------
(***************************************************************************)
(* The economic model and the ledger, proved for every configuration, any  *)
(* number of accounts and any sequence of operations and blocks.  Of the   *)
(* model: whatever leaves its pools enters the supply and the other way    *)
(* round, and no pool goes below zero.  Of the ledger: every coin is       *)
(* accounted for, the current supply is what the accounts hold, and a      *)
(* withdrawal pays exactly what was asked for.                             *)
(***************************************************************************)
EXTENDS Ledger, SumTheorems

\* The steps late in a module of this size need more than the default time.
USE SMTT(30), ZenonT(30), SMTT(60)

-----------------------------------------------------------------------------
\* The pools of the economic model.

\* The state of the model: six pools, none of them negative.
Economy ==
  [mining_pool_from_coinbase : Nat, mining_pool_from_fees : Nat,
   interest_pool_from_coinbase : Nat, interest_pool_from_fees : Nat,
   promotion_pool : Nat, burn_pool : Nat]

\* What the integer division of the code does: it rounds towards zero.
LEMMA DivisionRoundsDown ==
  ASSUME NEW x \in Nat, NEW y \in Nat \ {0}
  PROVE  x \div y \in Nat /\ y * (x \div y) <= x
<1>1. x = (y * (x \div y)) + (x % y) /\ x % y \in 0 .. y - 1 /\ x \div y \in Int
  OBVIOUS
<1>2. ASSUME NEW q \in Int, NEW r \in 0 .. y - 1, x = (y * q) + r
      PROVE  q >= 0 /\ y * q <= x
  <2>1. CASE q <= -1
    <3>1. y * q <= y * (-1)
      BY <2>1, Z3
    <3> QED
      BY <3>1, <1>2, Z3
  <2>2. CASE q >= 0
    BY <1>2, <2>2, Z3
  <2> QED
    BY <2>1, <2>2
<1> QED
  BY <1>1, <1>2

\* A quotient of a product of which one factor is at most the divisor is at most
\* the other factor.
LEMMA PartOfProduct ==
  ASSUME NEW x \in Nat, NEW p \in Nat, NEW y \in Nat \ {0}, p <= y
  PROVE  (x * p) \div y \in Nat /\ (x * p) \div y <= x
<1>1. x * p \in Nat
  OBVIOUS
<1> DEFINE q == (x * p) \div y
<1>2. q \in Nat /\ y * q <= x * p
  BY <1>1, DivisionRoundsDown
<1>3. x * p <= y * x
  BY Z3
<1>4. ASSUME NEW k \in Nat, y * k <= y * x
      PROVE  k <= x
  BY <1>4, Z3
<1> HIDE DEF q
<1>5. y * q <= y * x
  BY <1>2, <1>3, <1>1
<1> QED
  BY <1>2, <1>4, <1>5 DEF q

\* A number has one remainder.
LEMMA Remainder ==
  \A r \in Nat \ {0}, q \in Int, x \in Int : \A s \in 0 .. r - 1 : x = (r * q) + s => x % r = s
<1> SUFFICES ASSUME NEW r \in Nat \ {0}, NEW q \in Int, NEW x \in Int, NEW s \in 0 .. r - 1,
                    x = (r * q) + s
             PROVE  x % r = s
  OBVIOUS
<1>1. x = (r * (x \div r)) + (x % r) /\ x % r \in 0 .. r - 1 /\ x \div r \in Int
  OBVIOUS
<1>2. ASSUME NEW p \in Int, NEW t \in 0 .. r - 1, x = (r * p) + t
      PROVE  t = s
  <2>1. CASE p > q
    <3>1. r * (p - q) >= r
      BY <2>1, Z3
    <3> QED
      BY <3>1, <1>2, Z3
  <2>2. CASE p < q
    <3>1. r * (q - p) >= r
      BY <2>2, Z3
    <3> QED
      BY <3>1, <1>2, Z3
  <2>3. CASE p = q
    <3>1. r * p \in Int
      OBVIOUS
    <3> QED
      BY <2>3, <3>1, <1>2
  <2> QED
    BY <2>1, <2>2, <2>3
<1> QED
  BY <1>1, <1>2

\* What follows a number of full payments of r.
LEMMA AfterFullPayments ==
  ASSUME NEW r \in Nat \ {0}, NEW k \in Nat, k % r = 0, NEW s \in 0 .. r - 1
  PROVE  (k + s) % r = s /\ (k + r) % r = 0
<1>1. k = (r * (k \div r)) + (k % r) /\ k \div r \in Int
  OBVIOUS
<1>2. PICK q \in Int : k = r * q
  <2>1. r * (k \div r) \in Int
    BY <1>1
  <2> QED
    BY <1>1, <2>1
<1>3. (k + s) % r = s
  <2>1. k + s \in Int /\ k + s = (r * q) + s
    BY <1>2
  <2> QED
    BY <2>1, Remainder, Zenon
<1>4. (k + r) % r = 0
  <2>1. k + r \in Int /\ q + 1 \in Int /\ 0 \in 0 .. r - 1
    OBVIOUS
  <2>2. k + r = (r * (q + 1)) + 0
    <3>1. r * (q + 1) = r * q + r
      BY Z3
    <3> QED
      BY <1>2, <3>1
  <2>3. ASSUME NEW p \in Int, NEW y \in Int, y = (r * p) + 0
        PROVE  y % r = 0
    BY <2>1, <2>3, Remainder, Zenon
  <2> DEFINE y == k + r
             p == q + 1
  <2> HIDE DEF y, p
  <2>4. y = (r * p) + 0 /\ y \in Int /\ p \in Int
    BY <2>1, <2>2 DEF y, p
  <2>5. y % r = 0
    BY <2>3, <2>4
  <2> QED
    BY <2>5 DEF y
<1> QED
  BY <1>3, <1>4

\* init_economics: the pools hold everything that genesis does not give out.
THEOREM InitialPools == Pools(init_economics) = Coinbase /\ init_economics \in Economy
<1>1. Coinbase \in Nat
  BY EconomicsAssumption DEF Coinbase
<1>2. ASSUME NEW pct \in Nat
      PROVE  Share(Coinbase, pct) \in Nat
  <2>1. Coinbase * pct \in Nat
    BY <1>1
  <2> QED
    BY <2>1, DivisionRoundsDown, EconomicsAssumption DEF Share
<1>3. /\ Share(Coinbase, MiningPct) \in Nat /\ Share(Coinbase, InterestPct) \in Nat
      /\ Share(Coinbase, PromotionPct) \in Nat
  BY <1>2, EconomicsAssumption
<1>4. Share(Coinbase, MiningPct) + Share(Coinbase, InterestPct)
        + Share(Coinbase, PromotionPct) = Coinbase
  BY EconomicsAssumption DEF Share
<1> HIDE DEF Share, Coinbase
<1> QED
  BY <1>1, <1>3, <1>4 DEF Pools, init_economics, Economy

\* add_fee: the parts into which a fee is divided add up to the fee, whatever is
\* lost in rounding, and none of them is negative.
THEOREM FeeIsShared ==
  ASSUME NEW e \in Economy, NEW fee \in Nat
  PROVE  add_fee(e, fee) \in Economy /\ Pools(add_fee(e, fee)) = Pools(e) + fee
<1> DEFINE burn == Share(fee, BurnPct)
           rest == fee - burn
           mining == Share(rest, MiningPct)
           promotion == Share(rest, PromotionPct)
<1>1. burn \in Nat /\ burn <= fee
  BY PartOfProduct, EconomicsAssumption DEF Share
<1>2. rest \in Nat
  BY <1>1
<1> HIDE DEF rest, burn
<1>3. mining \in Nat /\ promotion \in Nat /\ mining + promotion <= rest
  <2>1. rest * MiningPct \in Nat /\ rest * PromotionPct \in Nat /\ Hundred \in Nat \ {0}
    BY <1>2, EconomicsAssumption
  <2>2. /\ mining \in Nat /\ Hundred * mining <= rest * MiningPct
        /\ promotion \in Nat /\ Hundred * promotion <= rest * PromotionPct
    BY <2>1, DivisionRoundsDown DEF Share
  <2>3. ASSUME NEW a \in Nat, NEW b \in Nat, NEW x \in Nat, NEW m \in Nat, NEW p \in Nat,
               NEW h \in Nat \ {0}, m + p <= h, h * a <= x * m, h * b <= x * p
        PROVE  a + b <= x
    <3>1. h * (a + b) <= x * (m + p)
      BY <2>3, Z3
    <3>2. x * (m + p) <= x * h
      BY <2>3, Z3
    <3>3. h * (a + b) <= h * x
      BY <3>1, <3>2, Z3
    <3>4. ASSUME NEW k \in Nat, h * k <= h * x
          PROVE  k <= x
      BY <3>4, Z3
    <3> QED
      BY <3>3, <3>4
  <2>4. MiningPct \in Nat /\ PromotionPct \in Nat /\ MiningPct + PromotionPct <= Hundred
    BY EconomicsAssumption
  <2> HIDE DEF mining, promotion
  <2> QED
    BY <2>1, <2>2, <2>3, <2>4, <1>2
<1>4. add_fee(e, fee) =
        [e EXCEPT !.mining_pool_from_fees = @ + mining,
                  !.promotion_pool = @ + promotion,
                  !.burn_pool = @ + burn,
                  !.interest_pool_from_fees = @ + rest - mining - promotion]
  BY DEF add_fee, rest, burn
<1>5. rest + burn = fee /\ burn \in Nat
  BY <1>1 DEF rest
<1> HIDE DEF mining, promotion
<1>6. add_fee(e, fee) \in Economy
  <2> DEFINE m == e.mining_pool_from_fees + mining
             p == e.promotion_pool + promotion
             q == e.burn_pool + burn
             i == e.interest_pool_from_fees + rest - mining - promotion
  <2>1. /\ e.mining_pool_from_fees \in Nat /\ e.promotion_pool \in Nat
        /\ e.burn_pool \in Nat /\ e.interest_pool_from_fees \in Nat
    BY DEF Economy
  <2>2. m \in Nat /\ p \in Nat /\ q \in Nat /\ i \in Nat
    BY <2>1, <1>1, <1>2, <1>3
  <2>3. add_fee(e, fee) = [e EXCEPT !.mining_pool_from_fees = m, !.promotion_pool = p,
                                    !.burn_pool = q, !.interest_pool_from_fees = i]
    BY <1>4, Zenon
  <2> HIDE DEF m, p, q, i
  <2> QED
    BY <2>2, <2>3, Zenon DEF Economy
<1> QED
  BY <1>2, <1>3, <1>4, <1>5, <1>6 DEF Economy, Pools

\* withdraw_mining_reward: the reward of a block is what the two mining pools lose,
\* and is never more than they hold, whatever the weight of the witness is.
THEOREM MiningRewardIsCovered ==
  ASSUME NEW e \in Economy, NEW block \in Nat, NEW nominator \in Nat,
         NEW denominator \in Nat \ {0}
  PROVE  LET r == mining_reward(e, block, nominator, denominator)
             f == withdraw_mining_reward(e, r)
         IN r.coinbase \in Nat /\ r.fees \in Nat /\ f \in Economy
              /\ Pools(f) + r.coinbase + r.fees = Pools(e)
<1> DEFINE c == (coinbase_block_reward * nominator) \div denominator
           d == ((e.mining_pool_from_fees \div BlocksPerWeek) * nominator) \div denominator
           r == mining_reward(e, block, nominator, denominator)
<1>1. c \in Nat
  <2>1. Coinbase * MiningPct \in Nat
    BY EconomicsAssumption DEF Coinbase
  <2>2. Share(Coinbase, MiningPct) \in Nat
    BY <2>1, EconomicsAssumption, DivisionRoundsDown DEF Share
  <2>3. coinbase_block_reward \in Nat
    BY <2>2, EconomicsAssumption, DivisionRoundsDown DEF coinbase_block_reward
  <2>4. coinbase_block_reward * nominator \in Nat
    BY <2>3
  <2> QED
    BY <2>4, DivisionRoundsDown
<1>2. d \in Nat
  <2>1. e.mining_pool_from_fees \in Nat
    BY DEF Economy
  <2>2. e.mining_pool_from_fees \div BlocksPerWeek \in Nat
    BY <2>1, EconomicsAssumption, DivisionRoundsDown
  <2>3. (e.mining_pool_from_fees \div BlocksPerWeek) * nominator \in Nat
    BY <2>2
  <2> QED
    BY <2>3, DivisionRoundsDown
<1>3. r = IF block <= InterestDelay THEN [coinbase |-> 0, fees |-> 0]
          ELSE [coinbase |-> Least(c, e.mining_pool_from_coinbase),
                fees |-> Least(d, e.mining_pool_from_fees)]
  BY DEF mining_reward
<1> HIDE DEF c, d, r
<1>4. /\ r.coinbase \in Nat /\ r.coinbase <= e.mining_pool_from_coinbase
      /\ r.fees \in Nat /\ r.fees <= e.mining_pool_from_fees
  BY <1>1, <1>2, <1>3 DEF Least, Economy
<1>5. withdraw_mining_reward(e, r) \in Economy
  <2>1. ASSUME NEW a \in Nat, NEW b \in Nat
        PROVE  [e EXCEPT !.mining_pool_from_coinbase = a, !.mining_pool_from_fees = b] \in Economy
    BY Zenon DEF Economy
  <2>2. /\ e.mining_pool_from_coinbase - r.coinbase \in Nat
        /\ e.mining_pool_from_fees - r.fees \in Nat
    BY <1>4 DEF Economy
  <2> QED
    BY <2>1, <2>2, Zenon DEF withdraw_mining_reward
<1>6. Pools(withdraw_mining_reward(e, r)) + r.coinbase + r.fees = Pools(e)
  BY <1>4 DEF withdraw_mining_reward, Economy, Pools
<1> QED
  BY <1>4, <1>5, <1>6 DEF r

\* withdraw_interests: the interest of an account is what the two interest pools
\* lose, and a holding that the assertion accepts is never paid more than they hold.
THEOREM InterestIsCovered ==
  ASSUME NEW e \in Economy, NEW holding \in Int, NEW supply \in Int, NEW period \in Nat,
         InterestDefined(holding, supply)
  PROVE  LET r == interest(e, holding, period, supply)
             f == withdraw_interests(e, r)
         IN r.coinbase \in Nat /\ r.fees \in Nat /\ f \in Economy
              /\ Pools(f) + r.coinbase + r.fees = Pools(e)
<1> DEFINE r == interest(e, holding, period, supply)
           for_period == Least(e.interest_pool_from_coinbase,
                               (Share(Coinbase, InterestPct) * period) \div CoinbaseBlocks)
           from_fees == (e.interest_pool_from_fees * InterestBlocks) \div InterestFeesTime
<1>0. e.interest_pool_from_coinbase \in Nat /\ e.interest_pool_from_fees \in Nat
  BY DEF Economy
<1>1. for_period \in Nat /\ for_period <= e.interest_pool_from_coinbase
  <2>1. Coinbase * InterestPct \in Nat
    BY EconomicsAssumption DEF Coinbase
  <2>2. Share(Coinbase, InterestPct) \in Nat
    BY <2>1, EconomicsAssumption, DivisionRoundsDown DEF Share
  <2>3. Share(Coinbase, InterestPct) * period \in Nat
    BY <2>2
  <2>4. (Share(Coinbase, InterestPct) * period) \div CoinbaseBlocks \in Nat
    BY <2>3, EconomicsAssumption, DivisionRoundsDown
  <2> QED
    BY <2>4, <1>0 DEF Least
<1>2. from_fees \in Nat /\ from_fees <= e.interest_pool_from_fees
  BY <1>0, EconomicsAssumption, PartOfProduct
<1>3. r = IF holding = 0 THEN [coinbase |-> 0, fees |-> 0]
          ELSE [coinbase |-> (holding * for_period) \div supply,
                fees |-> (from_fees * holding) \div supply]
  BY DEF interest
<1> HIDE DEF r, for_period, from_fees
<1>4. /\ r.coinbase \in Nat /\ r.coinbase <= e.interest_pool_from_coinbase
      /\ r.fees \in Nat /\ r.fees <= e.interest_pool_from_fees
  <2>1. CASE holding = 0
    BY <2>1, <1>0, <1>3
  <2>2. CASE holding # 0
    <3>1. holding \in Nat /\ supply \in Nat \ {0} /\ holding <= supply
      BY <2>2 DEF InterestDefined
    <3>2. holding * for_period = for_period * holding
      BY <1>1, <3>1
    <3>3. r.coinbase \in Nat /\ r.coinbase <= for_period
      BY <1>1, <1>3, <2>2, <3>1, <3>2, PartOfProduct
    <3>4. r.fees \in Nat /\ r.fees <= from_fees
      BY <1>2, <1>3, <2>2, <3>1, PartOfProduct
    <3> QED
      BY <1>0, <1>1, <1>2, <3>3, <3>4
  <2> QED
    BY <2>1, <2>2
<1>5. withdraw_interests(e, r) \in Economy
  <2>1. ASSUME NEW a \in Nat, NEW b \in Nat
        PROVE  [e EXCEPT !.interest_pool_from_coinbase = a,
                         !.interest_pool_from_fees = b] \in Economy
    BY Zenon DEF Economy
  <2>2. /\ e.interest_pool_from_coinbase - r.coinbase \in Nat
        /\ e.interest_pool_from_fees - r.fees \in Nat
    BY <1>0, <1>4
  <2> QED
    BY <2>1, <2>2, Zenon DEF withdraw_interests
<1>6. Pools(withdraw_interests(e, r)) + r.coinbase + r.fees = Pools(e)
  BY <1>4 DEF withdraw_interests, Economy, Pools
<1> QED
  BY <1>4, <1>5, <1>6 DEF r

\* withdraw_from_promotion_pool: what it pays comes out of the promotion pool and
\* leaves at least the locked part of it.
THEOREM PromotionIsCovered ==
  ASSUME NEW e \in Economy, NEW amount \in Nat, NEW block \in Nat,
         CanWithdrawPromotion(e, amount, block)
  PROVE  LET x == Least(get_available_promotion_pool(e, block), amount)
             f == withdraw_from_promotion_pool(e, x)
         IN x \in Nat /\ f \in Economy /\ Pools(f) + x = Pools(e)
              /\ f.promotion_pool >= LockedPool(block)
<1> DEFINE x == Least(get_available_promotion_pool(e, block), amount)
<1>1. LockedPool(block) \in Nat
  <2>1. Coinbase * PromotionPct \in Nat
    BY EconomicsAssumption DEF Coinbase
  <2>2. Share(Coinbase, PromotionPct) \in Nat
    BY <2>1, EconomicsAssumption, DivisionRoundsDown DEF Share
  <2>3. Share(Coinbase, PromotionPct) * Scale \in Nat /\ Scale \in Nat \ {0}
    BY <2>2 DEF Scale
  <2>4. (Share(Coinbase, PromotionPct) * Scale) \div CoinbaseBlocks \in Nat
    BY <2>3, EconomicsAssumption, DivisionRoundsDown
  <2>5. CoinbaseBlocks - block \in Nat
    BY EconomicsAssumption DEF CanWithdrawPromotion
  <2>6. ((Share(Coinbase, PromotionPct) * Scale) \div CoinbaseBlocks)
           * (CoinbaseBlocks - block) \in Nat
    BY <2>4, <2>5
  <2> QED
    BY <2>3, <2>6, DivisionRoundsDown DEF LockedPool
<1>2. e.promotion_pool \in Nat
  BY DEF Economy
<1>3. x \in Nat /\ x <= e.promotion_pool - LockedPool(block)
  BY <1>1, <1>2 DEF Least, get_available_promotion_pool, CanWithdrawPromotion
<1> HIDE DEF x
<1>4. e.promotion_pool - x \in Nat
  BY <1>1, <1>2, <1>3
<1>5. withdraw_from_promotion_pool(e, x) \in Economy
  BY <1>4 DEF withdraw_from_promotion_pool, Economy
<1>6. Pools(withdraw_from_promotion_pool(e, x)) + x = Pools(e)
  BY <1>3, <1>4 DEF withdraw_from_promotion_pool, Economy, Pools
<1>7. withdraw_from_promotion_pool(e, x).promotion_pool = e.promotion_pool - x
  BY DEF withdraw_from_promotion_pool, Economy
<1>8. withdraw_from_promotion_pool(e, x).promotion_pool >= LockedPool(block)
  BY <1>1, <1>2, <1>3, <1>7
<1> QED
  BY <1>3, <1>5, <1>6, <1>8 DEF x

-----------------------------------------------------------------------------
\* The ledger.


Withdrawals == [rate : Nat, to_withdraw : Nat, withdrawn : Nat, next : Int]

\* No account is overdrawn and no pool is below zero.
Ledgers ==
  [balance : [Accounts -> Nat], vesting : [Accounts -> Nat], considered : [Accounts -> Int],
   power_down : [Accounts -> Withdrawals], current_supply : Int, total_vesting_shares : Int,
   econ : Economy, historic : [0 .. InterestBlocks - 1 -> Int]]

Total(f) == SumFunctionOnSet(f, Accounts)

Balanced(l) ==
  /\ l.current_supply = Total(l.balance) + Total(l.vesting)
  /\ l.total_vesting_shares = Total(l.vesting)

\* What is left of a withdrawal p is a number of full payments and a rest, and is
\* covered by the shares v of the account.  Only one that is under way has a time.
Covered(p, v) ==
  IF p.rate > 0
  THEN p.withdrawn < p.to_withdraw /\ p.withdrawn % p.rate = 0 /\ p.to_withdraw - p.withdrawn <= v
  ELSE p.withdrawn = p.to_withdraw /\ p.next = Never

\* The null account, whose shares are taken away, withdraws nothing.
AllCovered(l) ==
  /\ l.power_down[Null] = NoWithdrawal
  /\ \A a \in Accounts : Covered(l.power_down[a], l.vesting[a])

\* The coins that exist and those that are still to be given out.
Worth(l) == l.current_supply + Pools(l.econ)

\* The inductive invariant.
LedgerInv ==
  /\ ledger \in Ledgers /\ Balanced(ledger) /\ AllCovered(ledger)
  /\ head \in Nat /\ burned \in Int
  /\ Worth(ledger) + burned = TotalSupply

\* What the assumptions on the configuration say of the ledger's constants.
LEMMA Constants ==
  /\ IsFiniteSet(Accounts) /\ InterestBlocks \in Nat \ {0}
  /\ \A a \in Accounts : IdOf[a] \in 0 .. Cardinality(Accounts) - 1
  /\ \A a \in Accounts, b \in Accounts : IdOf[a] = IdOf[b] => a = b
  /\ \A n \in 0 .. Cardinality(Accounts) - 1 : \E a \in Accounts : IdOf[a] = n
  /\ Cardinality(Accounts) \in Nat
<1>1. IdOf \in Bijection(Accounts, 0 .. Cardinality(Accounts) - 1) /\ IsFiniteSet(Accounts)
  BY LedgerAssumption
<1>2. Cardinality(Accounts) \in Nat
  BY <1>1, FS_CardinalityType
<1>3. IdOf \in [Accounts -> 0 .. Cardinality(Accounts) - 1]
  BY <1>1 DEF Bijection, Injection, Surjection
<1>4. \A a \in Accounts, b \in Accounts : IdOf[a] = IdOf[b] => a = b
  BY <1>1 DEF Bijection, Injection, IsInjective
<1>5. \A n \in 0 .. Cardinality(Accounts) - 1 : \E a \in Accounts : IdOf[a] = n
  BY <1>1 DEF Bijection, Surjection
<1> QED
  BY <1>1, <1>2, <1>3, <1>4, <1>5, EconomicsAssumption

\* The sum of the balances, or of the shares, is a number.
LEMMA TotalType ==
  ASSUME NEW f \in [Accounts -> Nat]
  PROVE  Total(f) \in Nat
<1>1. \A a \in Accounts : f[a] \in Nat
  OBVIOUS
<1> QED
  BY <1>1, SumType, Constants DEF Total

\* The sum changes with the one entry that changes.
LEMMA TotalChange ==
  ASSUME NEW f \in [Accounts -> Nat], NEW g \in [Accounts -> Nat], NEW a \in Accounts,
         \A b \in Accounts \ {a} : g[b] = f[b]
  PROVE  Total(g) = Total(f) + g[a] - f[a]
<1>1. \A b \in Accounts : f[b] \in Int /\ g[b] \in Int
  OBVIOUS
<1>2. \A b \in Accounts \ {a} : f[b] = g[b]
  OBVIOUS
<1> QED
  BY <1>1, <1>2, SumChange, Constants DEF Total

\* Two holdings of every account together.
LEMMA TotalAdd ==
  ASSUME NEW f, NEW g, NEW h,
         \A a \in Accounts : f[a] \in Int /\ g[a] \in Int /\ h[a] = f[a] + g[a]
  PROVE  Total(h) = Total(f) + Total(g)
  BY SumAdd, Constants DEF Total

LEMMA TurnType ==
  ASSUME NEW a \in Accounts, NEW block \in Int
  PROVE  ToMyTurn(a, block) \in Int
<1>1. IdOf[a] \in Int
  BY Constants
<1> QED
  BY <1>1, Constants DEF ToMyTurn

\* Nothing but the balances and the considered holdings of l and m differs.
OnlyBalances(l, m) ==
  /\ m.vesting = l.vesting /\ m.power_down = l.power_down /\ m.historic = l.historic
  /\ m.current_supply = l.current_supply /\ m.total_vesting_shares = l.total_vesting_shares
  /\ m.econ = l.econ

\* modify_balance, for an amount that the account can bear.
LEMMA AdjustBalance ==
  ASSUME NEW l \in Ledgers, NEW a \in Accounts, NEW x \in Int, NEW block \in Int,
         l.balance[a] + x >= 0
  PROVE  LET m == adjust_balance(l, a, x, block)
         IN /\ m \in Ledgers /\ OnlyBalances(l, m)
            /\ m.balance[a] = l.balance[a] + x
            /\ Total(m.balance) = Total(l.balance) + x
<1> DEFINE m == adjust_balance(l, a, x, block)
           y == x * ToMyTurn(a, block)
<1>1. y \in Int
  BY TurnType
<1>2. m = [l EXCEPT !.balance = [l.balance EXCEPT ![a] = @ + x],
                    !.considered = [l.considered EXCEPT ![a] = @ + y]]
  BY DEF adjust_balance, Ledgers
<1> HIDE DEF y
<1>3. l.balance \in [Accounts -> Nat] /\ l.considered \in [Accounts -> Int]
  BY DEF Ledgers
<1>4. [l.balance EXCEPT ![a] = @ + x] \in [Accounts -> Nat]
  BY <1>3
<1>5. [l.considered EXCEPT ![a] = @ + y] \in [Accounts -> Int]
  BY <1>1, <1>3
<1>6. m \in Ledgers
  BY <1>2, <1>4, <1>5, Zenon DEF Ledgers
<1>7. OnlyBalances(l, m) /\ m.balance = [l.balance EXCEPT ![a] = @ + x]
  BY <1>2 DEF Ledgers, OnlyBalances
<1> HIDE DEF m
<1>8. m.balance[a] = l.balance[a] + x /\ \A b \in Accounts \ {a} : m.balance[b] = l.balance[b]
  BY <1>3, <1>7
<1>9. m.balance \in [Accounts -> Nat]
  BY <1>4, <1>7
<1>10. Total(m.balance) = Total(l.balance) + m.balance[a] - l.balance[a]
  BY <1>3, <1>8, <1>9, TotalChange
<1>11. Total(l.balance) \in Nat /\ l.balance[a] \in Nat
  BY <1>3, TotalType
<1>12. Total(m.balance) = Total(l.balance) + x
  BY <1>8, <1>10, <1>11
<1> QED
  BY <1>6, <1>7, <1>8, <1>12 DEF m

\* adjust_supply.
LEMMA AdjustSupply ==
  ASSUME NEW l \in Ledgers, NEW x \in Int
  PROVE  LET m == adjust_supply(l, x)
         IN /\ m \in Ledgers /\ m.current_supply = l.current_supply + x
            /\ m.balance = l.balance /\ m.vesting = l.vesting /\ m.power_down = l.power_down
            /\ m.total_vesting_shares = l.total_vesting_shares /\ m.econ = l.econ
            /\ m.historic = l.historic /\ m.considered = l.considered
<1> DEFINE s == l.current_supply + x
<1>1. s \in Int
  BY DEF Ledgers
<1>2. adjust_supply(l, x) = [l EXCEPT !.current_supply = s]
  BY DEF adjust_supply, Ledgers
<1> HIDE DEF s
<1>3. [l EXCEPT !.current_supply = s] \in Ledgers
  BY <1>1, Zenon DEF Ledgers
<1>4. LET m == [l EXCEPT !.current_supply = s]
      IN /\ m.current_supply = s
         /\ m.balance = l.balance /\ m.vesting = l.vesting /\ m.power_down = l.power_down
         /\ m.total_vesting_shares = l.total_vesting_shares /\ m.econ = l.econ
         /\ m.historic = l.historic /\ m.considered = l.considered
  BY DEF Ledgers
<1> QED
  BY <1>2, <1>3, <1>4 DEF s

\* The withdrawals of l and m are the same, and no shares have gone.
SharesKept(l, m) ==
  m.power_down = l.power_down /\ \A a \in Accounts : m.vesting[a] >= l.vesting[a]

\* A withdrawal stays covered while the shares of its account do not shrink.
LEMMA StaysCovered ==
  ASSUME NEW l \in Ledgers, NEW m \in Ledgers, AllCovered(l), SharesKept(l, m)
  PROVE  AllCovered(m)
<1>1. ASSUME NEW a \in Accounts
      PROVE  Covered(m.power_down[a], m.vesting[a])
  <2>1. /\ Covered(l.power_down[a], l.vesting[a]) /\ m.power_down[a] = l.power_down[a]
        /\ m.vesting[a] >= l.vesting[a]
    BY DEF AllCovered, SharesKept
  <2>2. /\ l.vesting[a] \in Nat /\ m.vesting[a] \in Nat /\ l.power_down[a] \in Withdrawals
    BY DEF Ledgers
  <2>3. l.power_down[a].to_withdraw \in Nat /\ l.power_down[a].withdrawn \in Nat
    BY <2>2 DEF Withdrawals
  <2> QED
    BY <2>1, <2>2, <2>3 DEF Covered
<1> QED
  BY <1>1 DEF AllCovered, SharesKept

\* One account's shares grow.
LEMMA MoreShares ==
  ASSUME NEW l \in Ledgers, NEW m \in Ledgers, NEW a \in Accounts, NEW x \in Nat,
         m.vesting = [l.vesting EXCEPT ![a] = @ + x], m.power_down = l.power_down
  PROVE  SharesKept(l, m) /\ Total(m.vesting) = Total(l.vesting) + x
<1>1. l.vesting \in [Accounts -> Nat] /\ m.vesting \in [Accounts -> Nat]
  BY DEF Ledgers
<1>2. m.vesting[a] = l.vesting[a] + x /\ \A b \in Accounts \ {a} : m.vesting[b] = l.vesting[b]
  BY <1>1
<1>3. Total(m.vesting) = Total(l.vesting) + m.vesting[a] - l.vesting[a]
  BY <1>1, <1>2, TotalChange
<1>4. Total(l.vesting) \in Nat /\ l.vesting[a] \in Nat
  BY <1>1, TotalType
<1>5. \A b \in Accounts : m.vesting[b] >= l.vesting[b]
  BY <1>1, <1>2
<1> QED
  BY <1>2, <1>3, <1>4, <1>5 DEF SharesKept

\* vest: shares for coins of the same account.
LEMMA Vest ==
  ASSUME NEW l \in Ledgers, NEW a \in Accounts, NEW x \in Nat, l.balance[a] >= x
  PROVE  LET m == vest(l, a, x)
         IN /\ m \in Ledgers /\ SharesKept(l, m)
            /\ Total(m.balance) = Total(l.balance) - x
            /\ Total(m.vesting) = Total(l.vesting) + x
            /\ m.total_vesting_shares = l.total_vesting_shares + x
            /\ m.current_supply = l.current_supply /\ m.econ = l.econ
<1> DEFINE m == vest(l, a, x)
           b == [l.balance EXCEPT ![a] = @ - x]
           v == [l.vesting EXCEPT ![a] = @ + x]
           t == l.total_vesting_shares + x
<1>1. m = [l EXCEPT !.balance = b, !.vesting = v, !.total_vesting_shares = t]
  BY DEF vest, Ledgers
<1>2. l.balance \in [Accounts -> Nat] /\ l.vesting \in [Accounts -> Nat] /\ t \in Int
  BY DEF Ledgers
<1>3. b \in [Accounts -> Nat]
  BY <1>2
<1>4. v \in [Accounts -> Nat]
  BY <1>2
<1>5. m \in Ledgers
  <2> HIDE DEF b, v, t, m
  <2> QED
    BY <1>1, <1>2, <1>3, <1>4, Zenon DEF Ledgers
<1>6. /\ m.balance = [l.balance EXCEPT ![a] = @ - x] /\ m.vesting = [l.vesting EXCEPT ![a] = @ + x]
      /\ m.power_down = l.power_down /\ m.total_vesting_shares = l.total_vesting_shares + x
      /\ m.current_supply = l.current_supply /\ m.econ = l.econ
  BY <1>1 DEF Ledgers
<1> HIDE DEF m
<1>7. SharesKept(l, m) /\ Total(m.vesting) = Total(l.vesting) + x
  BY <1>5, <1>6, MoreShares
<1>8. m.balance[a] = l.balance[a] - x /\ \A c \in Accounts \ {a} : m.balance[c] = l.balance[c]
  BY <1>2, <1>6
<1>9. m.balance \in [Accounts -> Nat]
  BY <1>3, <1>6
<1>10. Total(m.balance) = Total(l.balance) + m.balance[a] - l.balance[a]
  BY <1>2, <1>8, <1>9, TotalChange
<1>11. Total(l.balance) \in Nat /\ l.balance[a] \in Nat
  BY <1>2, TotalType
<1>12. Total(m.balance) = Total(l.balance) - x
  BY <1>8, <1>10, <1>11
<1> QED
  BY <1>5, <1>6, <1>7, <1>12 DEF m

\* create_vesting: new shares.
LEMMA CreateVesting ==
  ASSUME NEW l \in Ledgers, NEW a \in Accounts, NEW x \in Nat, NEW block \in Int
  PROVE  LET m == create_vesting(l, a, x, block)
         IN /\ m \in Ledgers /\ SharesKept(l, m)
            /\ m.balance = l.balance
            /\ Total(m.vesting) = Total(l.vesting) + x
            /\ m.total_vesting_shares = l.total_vesting_shares
            /\ m.current_supply = l.current_supply /\ m.econ = l.econ
<1> DEFINE m == create_vesting(l, a, x, block)
           y == x * ToMyTurn(a, block)
<1>1. y \in Int
  BY TurnType
<1>2. m = [l EXCEPT !.vesting = [l.vesting EXCEPT ![a] = @ + x],
                    !.considered = [l.considered EXCEPT ![a] = @ + y]]
  BY DEF create_vesting, Ledgers
<1> HIDE DEF y
<1>3. l.vesting \in [Accounts -> Nat] /\ l.considered \in [Accounts -> Int]
  BY DEF Ledgers
<1>4. [l.vesting EXCEPT ![a] = @ + x] \in [Accounts -> Nat]
  BY <1>3
<1>5. [l.considered EXCEPT ![a] = @ + y] \in [Accounts -> Int]
  BY <1>1, <1>3
<1>6. m \in Ledgers
  BY <1>2, <1>4, <1>5, Zenon DEF Ledgers
<1>7. /\ m.vesting = [l.vesting EXCEPT ![a] = @ + x] /\ m.balance = l.balance
      /\ m.power_down = l.power_down /\ m.total_vesting_shares = l.total_vesting_shares
      /\ m.current_supply = l.current_supply /\ m.econ = l.econ
  BY <1>2 DEF Ledgers
<1> HIDE DEF m
<1>8. SharesKept(l, m) /\ Total(m.vesting) = Total(l.vesting) + x
  BY <1>6, <1>7, MoreShares
<1> QED
  BY <1>6, <1>7, <1>8 DEF m

-----------------------------------------------------------------------------
\* The operations.

\* An operation leaves a ledger of which this is to be shown.
Good(l) == l \in Ledgers /\ Balanced(l) /\ AllCovered(l) /\ Worth(l) = Worth(ledger)

LEMMA OperationInv ==
  ASSUME LedgerInv, NEW l, Good(l), Operation(l)
  PROVE  LedgerInv'
<1>1. ledger' = l /\ head' = head /\ burned' = burned
  BY DEF Operation
<1> QED
  BY <1>1 DEF LedgerInv, Good, Worth, Balanced, AllCovered

\* The numbers that the sums of a ledger are.
LEMMA LedgerNumbers ==
  ASSUME NEW l \in Ledgers
  PROVE  /\ Total(l.balance) \in Nat /\ Total(l.vesting) \in Nat
         /\ l.current_supply \in Int /\ l.total_vesting_shares \in Int
         /\ l.econ \in Economy /\ Pools(l.econ) \in Int
         /\ \A a \in Accounts : l.balance[a] \in Nat /\ l.vesting[a] \in Nat
<1>1. l.balance \in [Accounts -> Nat] /\ l.vesting \in [Accounts -> Nat] /\ l.econ \in Economy
      /\ l.current_supply \in Int /\ l.total_vesting_shares \in Int
  BY DEF Ledgers
<1>2. Pools(l.econ) \in Int
  BY <1>1 DEF Economy, Pools
<1> QED
  BY <1>1, <1>2, TotalType

\* transfer_evaluator: what one account loses the other one gets, also if they are
\* the same.
LEMMA TransferInv ==
  ASSUME LedgerInv, NEW from \in Spenders, NEW to \in Receivers, NEW x \in Amounts,
         transfer(from, to, x)
  PROVE  LedgerInv'
<1> DEFINE k == adjust_balance(ledger, from, -x, head)
           m == adjust_balance(k, to, x, head)
<1>1. /\ from \in Accounts /\ to \in Accounts /\ x \in Nat /\ ledger \in Ledgers /\ head \in Int
      /\ Balanced(ledger) /\ AllCovered(ledger)
  BY LedgerAssumption DEF LedgerInv
<1>2. ledger.balance[from] >= x /\ Operation(m)
  BY DEF transfer
<1>3. ledger.balance[from] + (-x) >= 0 /\ -x \in Int
  BY <1>1, <1>2, LedgerNumbers
<1>4. k \in Ledgers /\ OnlyBalances(ledger, k) /\ Total(k.balance) = Total(ledger.balance) + (-x)
  BY <1>1, <1>3, AdjustBalance
<1> HIDE DEF k
<1>5. k.balance[to] + x >= 0
  BY <1>1, <1>4, LedgerNumbers
<1>6. m \in Ledgers /\ OnlyBalances(k, m) /\ Total(m.balance) = Total(k.balance) + x
  BY <1>1, <1>4, <1>5, AdjustBalance
<1> HIDE DEF m
<1>7. Total(m.balance) = Total(ledger.balance)
  BY <1>1, <1>4, <1>6, LedgerNumbers
<1>8. OnlyBalances(ledger, m)
  BY <1>4, <1>6 DEF OnlyBalances
<1>9. Good(m)
  BY <1>1, <1>6, <1>7, <1>8 DEF Good, Balanced, AllCovered, Worth, OnlyBalances
<1> QED
  BY <1>2, <1>9, OperationInv

\* transfer_to_vesting_evaluator: the shares are paid for.
LEMMA TransferToVestingInv ==
  ASSUME LedgerInv, NEW from \in Spenders, NEW to \in Receivers, NEW x \in Amounts,
         transfer_to_vesting(from, to, x)
  PROVE  LedgerInv'
<1>1. /\ from \in Accounts /\ to \in Accounts /\ x \in Nat /\ ledger \in Ledgers /\ head \in Int
      /\ Balanced(ledger) /\ AllCovered(ledger)
  BY LedgerAssumption DEF LedgerInv
<1>2. ASSUME NEW l \in Ledgers, NEW a \in Accounts, l.balance[a] >= x, Balanced(l),
             AllCovered(l), Worth(l) = Worth(ledger)
      PROVE  Good(vest(l, a, x))
  <2> DEFINE m == vest(l, a, x)
  <2>1. /\ m \in Ledgers /\ SharesKept(l, m)
        /\ Total(m.balance) = Total(l.balance) - x
        /\ Total(m.vesting) = Total(l.vesting) + x
        /\ m.total_vesting_shares = l.total_vesting_shares + x
        /\ m.current_supply = l.current_supply /\ m.econ = l.econ
    BY <1>1, <1>2, Vest
  <2> HIDE DEF m
  <2>2. AllCovered(m)
    BY <1>2, <2>1, StaysCovered
  <2>3. Balanced(m)
    BY <1>1, <1>2, <2>1, LedgerNumbers DEF Balanced
  <2> QED
    BY <1>2, <2>1, <2>2, <2>3 DEF Good, Worth, m
<1>3. CASE from = to
  <2>1. ledger.balance[from] >= x /\ Operation(vest(ledger, from, x))
    BY <1>3 DEF transfer_to_vesting
  <2>2. Good(vest(ledger, from, x))
    BY <1>1, <1>2, <2>1
  <2> QED
    BY <2>1, <2>2, OperationInv
<1>4. CASE from # to
  <2> DEFINE k == adjust_balance(ledger, from, -x, head)
             l == adjust_balance(k, to, x, head)
  <2>1. ledger.balance[from] >= x /\ Operation(vest(l, to, x))
    BY <1>4 DEF transfer_to_vesting
  <2>2. ledger.balance[from] + (-x) >= 0 /\ -x \in Int
    BY <1>1, <2>1, LedgerNumbers
  <2>3. k \in Ledgers /\ OnlyBalances(ledger, k) /\ Total(k.balance) = Total(ledger.balance) + (-x)
    BY <1>1, <2>2, AdjustBalance
  <2> HIDE DEF k
  <2>4. k.balance[to] + x >= 0 /\ k.balance[to] \in Nat
    BY <1>1, <2>3, LedgerNumbers
  <2>5. /\ l \in Ledgers /\ OnlyBalances(k, l) /\ Total(l.balance) = Total(k.balance) + x
        /\ l.balance[to] = k.balance[to] + x
    BY <1>1, <2>3, <2>4, AdjustBalance
  <2> HIDE DEF l
  <2>6. Total(l.balance) = Total(ledger.balance) /\ l.balance[to] >= x
    BY <1>1, <2>3, <2>4, <2>5, LedgerNumbers
  <2>7. OnlyBalances(ledger, l)
    BY <2>3, <2>5 DEF OnlyBalances
  <2>8. Balanced(l) /\ AllCovered(l) /\ Worth(l) = Worth(ledger)
    BY <1>1, <2>6, <2>7 DEF Balanced, AllCovered, Worth, OnlyBalances
  <2>9. Good(vest(l, to, x))
    BY <1>1, <1>2, <2>5, <2>6, <2>8
  <2> QED
    BY <2>1, <2>9, OperationInv
<1> QED
  BY <1>3, <1>4

\* An account replaces its withdrawal by one that its shares cover.
LEMMA NewWithdrawal ==
  ASSUME LedgerInv, NEW a \in Spenders, NEW p \in Withdrawals, Covered(p, ledger.vesting[a])
  PROVE  Good([ledger EXCEPT !.power_down[a] = p])
<1> DEFINE d == [ledger.power_down EXCEPT ![a] = p]
           m == [ledger EXCEPT !.power_down = d]
<1>1. /\ a \in Accounts /\ a # Null /\ Null \in Accounts /\ ledger \in Ledgers
      /\ Balanced(ledger) /\ AllCovered(ledger)
  BY LedgerAssumption DEF LedgerInv
<1>2. ledger.power_down \in [Accounts -> Withdrawals]
  BY <1>1 DEF Ledgers
<1>3. d \in [Accounts -> Withdrawals] /\ d[Null] = ledger.power_down[Null]
  BY <1>1, <1>2
<1>4. d[a] = p /\ \A b \in Accounts \ {a} : d[b] = ledger.power_down[b]
  BY <1>1, <1>2
<1>5. [ledger EXCEPT !.power_down[a] = p] = m
  BY <1>1 DEF Ledgers
<1> HIDE DEF d
<1>6. m \in Ledgers
  BY <1>1, <1>3, Zenon DEF Ledgers
<1>7. /\ m.power_down = d /\ m.balance = ledger.balance /\ m.vesting = ledger.vesting
      /\ m.current_supply = ledger.current_supply /\ m.econ = ledger.econ
      /\ m.total_vesting_shares = ledger.total_vesting_shares
  BY <1>1 DEF Ledgers
<1> HIDE DEF m
<1>8. AllCovered(m)
  <2>1. ASSUME NEW b \in Accounts
        PROVE  Covered(m.power_down[b], m.vesting[b])
    <3>1. CASE b = a
      BY <1>4, <1>7, <3>1
    <3>2. CASE b # a
      BY <1>1, <1>4, <1>7, <3>2 DEF AllCovered
    <3> QED
      BY <3>1, <3>2
  <2> QED
    BY <1>1, <1>3, <1>7, <2>1 DEF AllCovered
<1>9. Balanced(m) /\ Worth(m) = Worth(ledger)
  BY <1>1, <1>7 DEF Balanced, Worth
<1> QED
  BY <1>5, <1>6, <1>8, <1>9 DEF Good

\* withdraw_vesting_evaluator: a new withdrawal asks for no more than there is.
LEMMA WithdrawVestingInv ==
  ASSUME LedgerInv, NEW a \in Spenders, NEW x \in WithdrawAmounts, withdraw_vesting(a, x)
  PROVE  LedgerInv'
<1> DEFINE rate == IF x \div Intervals = 0 THEN 1 ELSE x \div Intervals
           p == [rate |-> rate, to_withdraw |-> x, withdrawn |-> 0, next |-> head + IntervalBlocks]
<1>1. a \in Accounts /\ x \in Nat /\ head \in Nat /\ ledger \in Ledgers /\ Intervals \in Nat \ {0}
      /\ IntervalBlocks \in Nat
  BY LedgerAssumption DEF LedgerInv
<1>2. ledger.vesting[a] >= x /\ ledger.vesting[a] \in Nat
  BY <1>1, LedgerNumbers DEF withdraw_vesting
<1>3. CASE x = 0
  <2>1. Operation([ledger EXCEPT !.power_down[a] = NoWithdrawal])
    BY <1>3 DEF withdraw_vesting
  <2>2. NoWithdrawal \in Withdrawals /\ Covered(NoWithdrawal, ledger.vesting[a])
    BY DEF NoWithdrawal, Withdrawals, Covered, Never
  <2>3. Good([ledger EXCEPT !.power_down[a] = NoWithdrawal])
    BY <2>2, NewWithdrawal
  <2> QED
    BY <2>1, <2>3, OperationInv
<1>4. CASE x # 0
  <2>1. Operation([ledger EXCEPT !.power_down[a] = p])
    BY <1>4 DEF withdraw_vesting
  <2>2. x \div Intervals \in Nat
    BY <1>1, DivisionRoundsDown
  <2>3. rate \in Nat \ {0}
    BY <2>2
  <2> HIDE DEF rate
  <2>4. 0 % rate = 0 /\ head + IntervalBlocks \in Int
    BY <1>1, <2>3
  <2>5. p \in Withdrawals
    BY <1>1, <2>3, <2>4 DEF Withdrawals
  <2>6. Covered(p, ledger.vesting[a])
    BY <1>1, <1>2, <1>4, <2>3, <2>4 DEF Covered
  <2> HIDE DEF p
  <2>7. Good([ledger EXCEPT !.power_down[a] = p])
    BY <2>5, <2>6, NewWithdrawal
  <2> QED
    BY <2>1, <2>7, OperationInv
<1> QED
  BY <1>3, <1>4

\* A ledger whose pools are replaced.
LEMMA NewPools ==
  ASSUME NEW l \in Ledgers, NEW e \in Economy
  PROVE  LET m == [l EXCEPT !.econ = e]
         IN /\ m \in Ledgers /\ m.econ = e /\ m.balance = l.balance /\ m.vesting = l.vesting
            /\ m.power_down = l.power_down /\ m.current_supply = l.current_supply
            /\ m.total_vesting_shares = l.total_vesting_shares
            /\ m.historic = l.historic /\ m.considered = l.considered
  BY Zenon DEF Ledgers

\* Coins go between an account and the pools: the account gets x, or pays it when x is
\* negative, the supply changes by as much, and the pools by the opposite.
LEMMA BetweenPools ==
  ASSUME LedgerInv, NEW a \in Accounts, NEW x \in Int, NEW e \in Economy,
         ledger.balance[a] + x >= 0, Pools(e) + x = Pools(ledger.econ)
  PROVE  Good([adjust_supply(adjust_balance(ledger, a, x, head), x) EXCEPT !.econ = e])
<1> DEFINE k == adjust_balance(ledger, a, x, head)
           l == adjust_supply(k, x)
           m == [l EXCEPT !.econ = e]
<1>1. ledger \in Ledgers /\ head \in Int /\ Balanced(ledger) /\ AllCovered(ledger)
  BY DEF LedgerInv
<1>2. k \in Ledgers /\ OnlyBalances(ledger, k) /\ Total(k.balance) = Total(ledger.balance) + x
  BY <1>1, AdjustBalance
<1> HIDE DEF k
<1>3. /\ l \in Ledgers /\ l.current_supply = k.current_supply + x
      /\ l.balance = k.balance /\ l.vesting = k.vesting /\ l.power_down = k.power_down
      /\ l.total_vesting_shares = k.total_vesting_shares
  BY <1>2, AdjustSupply
<1> HIDE DEF l
<1>4. /\ m \in Ledgers /\ m.econ = e /\ m.balance = l.balance /\ m.vesting = l.vesting
      /\ m.power_down = l.power_down /\ m.current_supply = l.current_supply
      /\ m.total_vesting_shares = l.total_vesting_shares
  BY <1>3, NewPools
<1> HIDE DEF m
<1>5. Total(m.balance) = Total(ledger.balance) + x /\ m.vesting = ledger.vesting
      /\ m.power_down = ledger.power_down /\ m.current_supply = ledger.current_supply + x
      /\ m.total_vesting_shares = ledger.total_vesting_shares
  BY <1>2, <1>3, <1>4 DEF OnlyBalances
<1>6. Balanced(m)
  BY <1>1, <1>4, <1>5, LedgerNumbers DEF Balanced
<1>7. Worth(m) = Worth(ledger)
  <2>1. /\ ledger.current_supply \in Int /\ Pools(ledger.econ) \in Int
        /\ Pools(m.econ) \in Int
    BY <1>1, <1>4, LedgerNumbers
  <2> QED
    BY <1>4, <1>5, <2>1 DEF Worth
<1>8. AllCovered(m)
  BY <1>1, <1>5 DEF AllCovered
<1> QED
  BY <1>4, <1>6, <1>7, <1>8 DEF Good, m, l, k

\* Neither a balance nor the supply is one of the pools.
LEMMA PoolsUntouched ==
  ASSUME NEW l \in Ledgers, NEW a \in Accounts, NEW x \in Int, NEW block \in Int
  PROVE  adjust_supply(adjust_balance(l, a, x, block), x).econ = l.econ
<1>1. adjust_balance(l, a, x, block).econ = l.econ
  BY DEF adjust_balance, Ledgers
<1>2. "econ" \in DOMAIN adjust_balance(l, a, x, block)
  BY DEF adjust_balance, Ledgers
<1> QED
  BY <1>1, <1>2 DEF adjust_supply

\* pay_fee: the fee leaves the supply and enters the pools.
LEMMA PayFeeInv ==
  ASSUME LedgerInv, NEW payer \in Spenders, NEW fee \in FeeAmounts, pay_fee(payer, fee)
  PROVE  LedgerInv'
<1> DEFINE l == adjust_supply(adjust_balance(ledger, payer, -fee, head), -fee)
           e == add_fee(ledger.econ, fee)
<1>1. payer \in Accounts /\ fee \in Nat /\ -fee \in Int /\ head \in Int /\ ledger \in Ledgers
  BY LedgerAssumption DEF LedgerInv
<1>2. ledger.econ \in Economy /\ ledger.balance[payer] \in Nat /\ Pools(ledger.econ) \in Int
  BY <1>1, LedgerNumbers
<1>3. e \in Economy /\ Pools(e) = Pools(ledger.econ) + fee
  BY <1>1, <1>2, FeeIsShared
<1>4. l.econ = ledger.econ
  BY <1>1, PoolsUntouched
<1>5. ledger.balance[payer] >= fee /\ Operation([l EXCEPT !.econ = add_fee(l.econ, fee)])
  BY DEF pay_fee
<1>6. Operation([l EXCEPT !.econ = e])
  BY <1>4, <1>5
<1> HIDE DEF e
<1>7. ledger.balance[payer] + (-fee) >= 0 /\ Pools(e) + (-fee) = Pools(ledger.econ)
  BY <1>1, <1>2, <1>3, <1>5
<1>8. Good([l EXCEPT !.econ = e])
  BY <1>1, <1>3, <1>7, BetweenPools
<1> QED
  BY <1>6, <1>8, OperationInv

\* transfer_from_promotion_pool_evaluator: what the pool pays enters the supply.
LEMMA PromotionInv ==
  ASSUME LedgerInv, NEW to \in Receivers, NEW x \in Amounts, transfer_from_promotion_pool(to, x)
  PROVE  LedgerInv'
<1> DEFINE w == Least(get_available_promotion_pool(ledger.econ, head), x)
           l == adjust_supply(adjust_balance(ledger, to, w, head), w)
           e == withdraw_from_promotion_pool(ledger.econ, w)
<1>1. to \in Accounts /\ x \in Nat /\ head \in Nat /\ ledger \in Ledgers
  BY LedgerAssumption DEF LedgerInv
<1>2. ledger.econ \in Economy /\ ledger.balance[to] \in Nat
  BY <1>1, LedgerNumbers
<1>3. w \in Nat /\ e \in Economy /\ Pools(e) + w = Pools(ledger.econ)
  BY <1>1, <1>2, PromotionIsCovered DEF transfer_from_promotion_pool
<1>4. Operation([l EXCEPT !.econ = withdraw_from_promotion_pool(l.econ, w)])
  BY DEF transfer_from_promotion_pool
<1> HIDE DEF w
<1>5. l.econ = ledger.econ
  BY <1>1, <1>3, PoolsUntouched
<1>6. Operation([l EXCEPT !.econ = e])
  BY <1>4, <1>5
<1> HIDE DEF e
<1>7. ledger.balance[to] + w >= 0
  BY <1>2, <1>3
<1>8. Good([l EXCEPT !.econ = e])
  BY <1>1, <1>3, <1>7, BetweenPools
<1> QED
  BY <1>6, <1>8, OperationInv

\* witness_update and witness_stop move nothing.
LEMMA WitnessInv ==
  ASSUME LedgerInv, witness_update \/ witness_stop
  PROVE  LedgerInv'
<1>1. Operation(ledger)
  BY DEF witness_update, witness_stop
<1>2. Good(ledger)
  BY DEF Good, LedgerInv
<1> QED
  BY <1>1, <1>2, OperationInv

-----------------------------------------------------------------------------
\* What every block does.

\* process_interests for one account whose holding the assertion of withdraw_interests
\* accepts.
LEMMA PayInterestGood ==
  ASSUME NEW l \in Ledgers, Balanced(l), NEW a \in Accounts, NEW block \in Nat,
         block > InterestDelay => InterestDefined(l.considered[a], AccumulatedSupply(l))
  PROVE  LET m == PayInterest(l, a, block)
         IN /\ m \in Ledgers /\ Balanced(m) /\ Worth(m) = Worth(l)
            /\ m.vesting = l.vesting /\ m.power_down = l.power_down /\ m.historic = l.historic
            /\ \A b \in Accounts \ {a} : m.considered[b] = l.considered[b]
<1> DEFINE r == InterestOf(l, a, block)
           x == r.coinbase + r.fees
           e == withdraw_interests(l.econ, r)
           b == [l.balance EXCEPT ![a] = @ + x]
           z == (total_balance(l, a) + x) * InterestBlocks
           c == [l.considered EXCEPT ![a] = z]
           s == l.current_supply + x
           m == [l EXCEPT !.econ = e, !.balance = b, !.considered = c, !.current_supply = s]
<1>1. /\ l.econ \in Economy /\ l.balance \in [Accounts -> Nat] /\ l.vesting \in [Accounts -> Nat]
      /\ l.considered \in [Accounts -> Int] /\ l.current_supply \in Int
      /\ l.historic \in [0 .. InterestBlocks - 1 -> Int]
  BY DEF Ledgers
<1>2. r.coinbase \in Nat /\ r.fees \in Nat /\ e \in Economy
      /\ Pools(e) + r.coinbase + r.fees = Pools(l.econ)
  <2>1. CASE block <= InterestDelay
    <3>1. r = [coinbase |-> 0, fees |-> 0]
      BY <2>1 DEF InterestOf
    <3>2. r = interest(l.econ, 0, 0, 0) /\ InterestDefined(0, 0)
      BY <3>1 DEF interest, InterestDefined
    <3>3. 0 \in Int /\ 0 \in Nat
      OBVIOUS
    <3> HIDE DEF r
    <3> QED
      BY <1>1, <3>2, <3>3, InterestIsCovered, Zenon
  <2>2. CASE ~ (block <= InterestDelay)
    <3> DEFINE h == l.historic
               I == 0 .. InterestBlocks - 1
    <3>1. \A k \in I : h[k] \in Int
      BY <1>1, Zenon
    <3>2. IsFiniteSet(I)
      BY Constants, FS_Interval
    <3>3. SumFunctionOnSet(h, I) \in Int
      <4> HIDE DEF h, I
      <4> QED
        BY <3>1, <3>2, SumType
    <3>4. AccumulatedSupply(l) = SumFunctionOnSet(h, I)
      BY <1>1 DEF AccumulatedSupply, SumFunction
    <3>5. Least(InterestBlocks, block) \in Nat
      BY Constants DEF Least
    <3>6. block > InterestDelay
      BY <2>2, EconomicsAssumption
    <3>7. InterestDefined(l.considered[a], AccumulatedSupply(l)) /\ l.considered[a] \in Int
          /\ AccumulatedSupply(l) \in Int
      BY <1>1, <3>3, <3>4, <3>6
    <3>8. r = interest(l.econ, l.considered[a], Least(InterestBlocks, block), AccumulatedSupply(l))
      BY <2>2 DEF InterestOf
    <3> QED
      BY <1>1, <3>5, <3>7, <3>8, InterestIsCovered
  <2> QED
    BY <2>1, <2>2
<1>3. x \in Nat /\ Pools(e) + x = Pools(l.econ) /\ Pools(e) \in Int
  <2>1. Pools(e) \in Int
    BY <1>2 DEF Economy, Pools
  <2> QED
    BY <1>2, <2>1
<1>4. PayInterest(l, a, block) = m
  BY DEF PayInterest, Ledgers
<1> HIDE DEF r
<1>5. z \in Int
  <2>1. total_balance(l, a) + x \in Int
    BY <1>1, <1>3 DEF total_balance
  <2> QED
    BY <2>1, Constants
<1> HIDE DEF x, z, e
<1>6. b \in [Accounts -> Nat] /\ c \in [Accounts -> Int] /\ s \in Int
  BY <1>1, <1>3, <1>5
<1>7. /\ b[a] = l.balance[a] + x /\ \A d \in Accounts \ {a} : b[d] = l.balance[d]
      /\ \A d \in Accounts \ {a} : c[d] = l.considered[d]
  BY <1>1
<1> HIDE DEF b, c, s
<1>8. m \in Ledgers
  BY <1>2, <1>6, Zenon DEF Ledgers
<1>9. /\ m.econ = e /\ m.balance = b /\ m.considered = c /\ m.current_supply = s
      /\ m.vesting = l.vesting /\ m.power_down = l.power_down /\ m.historic = l.historic
      /\ m.total_vesting_shares = l.total_vesting_shares
  BY DEF Ledgers
<1> HIDE DEF m
<1>10. Total(b) = Total(l.balance) + b[a] - l.balance[a]
  BY <1>1, <1>6, <1>7, TotalChange, Zenon
<1>11. Total(b) = Total(l.balance) + x
  BY <1>1, <1>3, <1>7, <1>10, TotalType
<1>12. Balanced(m)
  <2>1. Total(l.balance) \in Nat /\ Total(l.vesting) \in Nat
    BY <1>1, TotalType
  <2>2. /\ l.current_supply = Total(l.balance) + Total(l.vesting)
        /\ l.total_vesting_shares = Total(l.vesting)
    BY DEF Balanced
  <2>3. s = Total(b) + Total(l.vesting)
    BY <1>3, <1>11, <2>1, <2>2 DEF s
  <2> QED
    BY <1>9, <2>2, <2>3 DEF Balanced
<1>13. Worth(m) = Worth(l)
  BY <1>1, <1>3, <1>9 DEF Worth, s
<1> QED
  BY <1>4, <1>7, <1>8, <1>9, <1>12, <1>13

\* One turn of process_interests, for the account with the id n - 1.
Turn(l, n, block) ==
  LET a == CHOOSE b \in Accounts : IdOf[b] = n - 1
  IN IF a \in Batch(block) THEN PayInterest(l, a, block) ELSE l

\* The function by which process_interests is defined, on the numbers up to N.
IsPaid(f, l, block, N) ==
  f = [n \in 0 .. N |-> IF n = 0 THEN l ELSE Turn(f[n - 1], n, block)]

\* It is a function with this property that process_interests takes.
LEMMA PaidIs ==
  ASSUME NEW l, NEW block
  PROVE  process_interests(l, block)
           = (CHOOSE g : IsPaid(g, l, block, Cardinality(Accounts)))[Cardinality(Accounts)]
BY Zenon DEF process_interests, IsPaid, Turn

\* It exists.
LEMMA PaidExists ==
  ASSUME NEW l, NEW block, NEW N \in Nat
  PROVE  \E f : IsPaid(f, l, block, N)
<1> DEFINE C == {n \in Nat : ~ \E f : IsPaid(f, l, block, n)}
<1> SUFFICES ASSUME C # {} PROVE FALSE
  OBVIOUS
<1>1. PICK n \in C : \A m \in C : n <= m
  BY LeastNumber, Zenon
<1>2. CASE n = 0
  <2> DEFINE f == [k \in 0 .. 0 |-> l]
  <2>1. IsPaid(f, l, block, 0)
    BY DEF IsPaid
  <2> QED
    BY <1>2, <2>1
<1>3. CASE n # 0
  <2>1. n - 1 \in Nat /\ n - 1 \notin C
    BY <1>1, <1>3
  <2>2. PICK f : IsPaid(f, l, block, n - 1)
    BY <2>1
  <2> DEFINE g == [k \in 0 .. n |-> IF k = n THEN Turn(f[n - 1], n, block) ELSE f[k]]
             h == [k \in 0 .. n |-> IF k = 0 THEN l ELSE Turn(g[k - 1], k, block)]
  <2>3. ASSUME NEW k \in 0 .. n
        PROVE  g[k] = h[k]
    <3>1. CASE k = n
      <4>1. g[k] = Turn(f[n - 1], n, block) /\ h[k] = Turn(g[n - 1], n, block)
        BY <1>3, <3>1
      <4>2. g[n - 1] = f[n - 1]
        BY <2>1
      <4> QED
        BY <4>1, <4>2
    <3>2. CASE k # n
      <4>1. g[k] = f[k] /\ k \in 0 .. n - 1
        BY <2>1, <3>2
      <4>2. f[k] = IF k = 0 THEN l ELSE Turn(f[k - 1], k, block)
        BY <2>2, <4>1 DEF IsPaid
      <4>3. k # 0 => g[k - 1] = f[k - 1]
        BY <2>1, <4>1
      <4> QED
        BY <4>1, <4>2, <4>3
    <3> QED
      BY <3>1, <3>2
  <2>4. g = h
    <3> DEFINE u(k) == IF k = n THEN Turn(f[n - 1], n, block) ELSE f[k]
               v(k) == IF k = 0 THEN l ELSE Turn(g[k - 1], k, block)
    <3>1. \A k \in 0 .. n : u(k) = v(k)
      BY <2>3
    <3> QED
      BY <3>1, Zenon
  <2>5. IsPaid(g, l, block, n)
    BY <2>4, Zenon DEF IsPaid
  <2> QED
    BY <2>5
<1> QED
  BY <1>2, <1>3

\* What m has kept of l when the accounts with ids below n have had their turn.
PaidUpTo(m, l, n) ==
  /\ m \in Ledgers /\ Balanced(m) /\ Worth(m) = Worth(l)
  /\ m.vesting = l.vesting /\ m.power_down = l.power_down /\ m.historic = l.historic
  /\ \A a \in Accounts : IdOf[a] >= n => m.considered[a] = l.considered[a]

\* Interest is due only where its computation is defined.
InterestsDefined(l, block) ==
  block > InterestDelay =>
    \A a \in Batch(block) : InterestDefined(l.considered[a], AccumulatedSupply(l))

\* The turn of one account.
LEMMA TurnKeeps ==
  ASSUME NEW l \in Ledgers, NEW m, NEW block \in Nat, InterestsDefined(l, block),
         NEW n \in Nat, n \in 1 .. Cardinality(Accounts), PaidUpTo(m, l, n - 1)
  PROVE  PaidUpTo(Turn(m, n, block), l, n)
<1> DEFINE a == CHOOSE b \in Accounts : IdOf[b] = n - 1
           t == Turn(m, n, block)
<1>1. a \in Accounts /\ IdOf[a] = n - 1
  BY Constants
<1>2. t = IF a \in Batch(block) THEN PayInterest(m, a, block) ELSE m
  BY Zenon DEF Turn
<1> HIDE DEF a, t
<1>3. \A b \in Accounts : IdOf[b] \in Int /\ (IdOf[b] >= n => IdOf[b] >= n - 1 /\ b # a)
  BY <1>1, Constants
<1>4. /\ m \in Ledgers /\ Balanced(m) /\ Worth(m) = Worth(l)
      /\ m.vesting = l.vesting /\ m.power_down = l.power_down /\ m.historic = l.historic
      /\ m.considered[a] = l.considered[a]
      /\ \A b \in Accounts : IdOf[b] >= n => m.considered[b] = l.considered[b]
  BY <1>1, <1>3 DEF PaidUpTo
<1>5. CASE a \notin Batch(block)
  BY <1>2, <1>4, <1>5 DEF PaidUpTo, t
<1>6. CASE a \in Batch(block)
  <2>1. block > InterestDelay => InterestDefined(m.considered[a], AccumulatedSupply(m))
    BY <1>4, <1>6 DEF InterestsDefined, AccumulatedSupply
  <2>2. /\ t \in Ledgers /\ Balanced(t) /\ Worth(t) = Worth(m)
        /\ t.vesting = m.vesting /\ t.power_down = m.power_down /\ t.historic = m.historic
        /\ \A b \in Accounts \ {a} : t.considered[b] = m.considered[b]
    BY <1>1, <1>2, <1>4, <1>6, <2>1, PayInterestGood, ZenonT(30)
  <2>3. PaidUpTo(t, l, n)
    BY <1>3, <1>4, <2>2, Zenon DEF PaidUpTo
  <2> QED
    BY <2>3, ZenonT(30) DEF t
<1> QED
  BY <1>5, <1>6

\* process_interests: the supply grows by what the pools lose, and the holding of an
\* account is what it was before the block when its turn comes.
LEMMA ProcessInterests ==
  ASSUME NEW l \in Ledgers, Balanced(l), NEW block \in Nat,
         block > InterestDelay =>
           \A a \in Batch(block) : InterestDefined(l.considered[a], AccumulatedSupply(l))
  PROVE  LET m == process_interests(l, block)
         IN /\ m \in Ledgers /\ Balanced(m) /\ Worth(m) = Worth(l)
            /\ m.vesting = l.vesting /\ m.power_down = l.power_down
<1> DEFINE N == Cardinality(Accounts)
           f == CHOOSE g : IsPaid(g, l, block, N)
<1>1. N \in Nat /\ IsPaid(f, l, block, N)
  BY Constants, PaidExists
<1>2. process_interests(l, block) = f[N]
  BY PaidIs, Zenon
<1> HIDE DEF N, f
<1>3. f[0] = l /\ \A n \in 1 .. N : f[n] = Turn(f[n - 1], n, block)
  BY <1>1 DEF IsPaid
<1>4. InterestsDefined(l, block)
  BY DEF InterestsDefined
<1> DEFINE C == {n \in 0 .. N : ~ PaidUpTo(f[n], l, n)}
<1>5. C \in SUBSET Nat
  BY <1>1
<1>6. PaidUpTo(f[0], l, 0)
  BY <1>3 DEF PaidUpTo
<1>7. ASSUME NEW n \in C
      PROVE  n # 0 /\ n - 1 \in C
  <2>1. n \in 1 .. N /\ n \in Nat /\ ~ PaidUpTo(f[n], l, n)
    BY <1>1, <1>6
  <2>2. ~ PaidUpTo(f[n - 1], l, n - 1)
    BY <1>3, <1>4, <2>1, TurnKeeps DEF N
  <2> QED
    BY <1>1, <2>1, <2>2
<1> HIDE DEF C
<1>8. C = {}
  <2> SUFFICES ASSUME C # {} PROVE FALSE
    OBVIOUS
  <2>1. PICK n \in C : \A m \in C : n <= m
    BY <1>5, LeastNumber, Zenon
  <2> QED
    BY <1>5, <1>7, <2>1
<1>9. PaidUpTo(f[N], l, N)
  BY <1>1, <1>8 DEF C
<1> QED
  BY <1>2, <1>9 DEF PaidUpTo

\* What the next payment of a withdrawal p is, of an account with v shares.
NextPayment(p, v) ==
  IF p.to_withdraw - p.withdrawn < p.rate
  THEN Least(v, p.to_withdraw % p.rate) ELSE Least(v, p.rate)

\* Whether a payment of x is the last one, and the withdrawal after it.
LastPayment(p, v, x) == p.withdrawn + x >= p.to_withdraw \/ v = x

AfterPayment(p, v, x) ==
  [p EXCEPT !.withdrawn = p.withdrawn + x, !.rate = IF LastPayment(p, v, x) THEN 0 ELSE p.rate,
            !.next = IF LastPayment(p, v, x) THEN Never ELSE p.next + IntervalBlocks]

\* One payment of a withdrawal p that is under way, of an account with v shares.
LEMMA OnePayment ==
  ASSUME NEW p \in Withdrawals, NEW v \in Nat, Covered(p, v), p.next # Never
  PROVE  LET x == NextPayment(p, v)
             w == AfterPayment(p, v, x)
         IN x \in Nat /\ x <= v /\ w \in Withdrawals /\ Covered(w, v - x)
<1> DEFINE x == NextPayment(p, v)
           w == AfterPayment(p, v, x)
           over == LastPayment(p, v, x)
<1>0. /\ x = IF p.to_withdraw - p.withdrawn < p.rate
             THEN Least(v, p.to_withdraw % p.rate) ELSE Least(v, p.rate)
      /\ over \in BOOLEAN /\ (over <=> (p.withdrawn + x >= p.to_withdraw \/ v = x))
      /\ w = [p EXCEPT !.withdrawn = p.withdrawn + x, !.rate = IF over THEN 0 ELSE p.rate,
                       !.next = IF over THEN Never ELSE p.next + IntervalBlocks]
  BY DEF NextPayment, AfterPayment, LastPayment
<1> HIDE DEF x, w, over
<1>1. /\ p.rate \in Nat \ {0} /\ p.to_withdraw \in Nat /\ p.withdrawn \in Nat /\ p.next \in Int
      /\ p.withdrawn < p.to_withdraw /\ p.withdrawn % p.rate = 0
      /\ p.to_withdraw - p.withdrawn <= v
  BY DEF Withdrawals, Covered
<1>2. x \in Nat /\ x <= v
      /\ (over => p.withdrawn + x = p.to_withdraw)
      /\ (~ over => p.withdrawn + x < p.to_withdraw /\ (p.withdrawn + x) % p.rate = 0)
  <2>1. CASE p.to_withdraw - p.withdrawn < p.rate
    <3>1. /\ p.to_withdraw - p.withdrawn \in 0 .. p.rate - 1
          /\ p.to_withdraw = p.withdrawn + (p.to_withdraw - p.withdrawn)
      BY <1>1, <2>1
    <3>2. p.to_withdraw % p.rate = p.to_withdraw - p.withdrawn
      BY <1>1, <3>1, AfterFullPayments
    <3>3. x = p.to_withdraw - p.withdrawn
      BY <1>0, <1>1, <2>1, <3>2 DEF Least
    <3> QED
      BY <1>0, <1>1, <3>3
  <2>2. CASE ~ (p.to_withdraw - p.withdrawn < p.rate)
    <3>1. x = p.rate
      BY <1>0, <1>1, <2>2 DEF Least
    <3>2. 0 \in 0 .. p.rate - 1
      BY <1>1
    <3>3. (p.withdrawn + x) % p.rate = 0
      BY <1>1, <3>1, <3>2, AfterFullPayments
    <3> QED
      BY <1>0, <1>1, <2>2, <3>1, <3>3
  <2> QED
    BY <2>1, <2>2
<1> DEFINE d == p.withdrawn + x
           r == IF over THEN 0 ELSE p.rate
           n == IF over THEN Never ELSE p.next + IntervalBlocks
<1>3. d \in Nat /\ r \in Nat /\ n \in Int
  BY <1>1, <1>2, LedgerAssumption DEF Never
<1>4. w = [p EXCEPT !.withdrawn = d, !.rate = r, !.next = n]
  BY <1>0
<1> HIDE DEF d, r, n
<1>5. w \in Withdrawals /\ w.to_withdraw = p.to_withdraw /\ w.withdrawn = d /\ w.rate = r
      /\ w.next = n
  BY <1>3, <1>4, Zenon DEF Withdrawals
<1>6. Covered(w, v - x)
  <2>1. CASE over
    BY <1>2, <1>5, <2>1 DEF Covered, d, r, n
  <2>2. CASE ~ over
    BY <1>1, <1>2, <1>5, <2>2 DEF Covered, d, r, n
  <2> QED
    BY <2>1, <2>2
<1> QED
  BY <1>2, <1>5, <1>6 DEF x, w

\* No more than the account has is paid, and what is left stays covered.
LEMMA PaymentIsCovered ==
  ASSUME NEW l \in Ledgers, NEW a \in Accounts, Covered(l.power_down[a], l.vesting[a]),
         l.power_down[a].next # Never
  PROVE  LET x == ToWithdraw(l, a)
         IN /\ x \in Nat /\ x <= l.vesting[a]
            /\ Withdraw(l, a, x) \in Withdrawals
            /\ Covered(Withdraw(l, a, x), l.vesting[a] - x)
<1> DEFINE p == l.power_down[a]
           v == l.vesting[a]
           x == ToWithdraw(l, a)
           w == Withdraw(l, a, x)
<1>1. p \in Withdrawals /\ v \in Nat
  BY DEF Ledgers
<1>2. x = NextPayment(p, v)
  BY DEF ToWithdraw, NextPayment
<1>3. w = AfterPayment(p, v, x)
  BY <1>1 DEF Withdraw, Withdrawals, AfterPayment, LastPayment
<1>4. Covered(p, v) /\ p.next # Never
  OBVIOUS
<1> HIDE DEF p, v, x, w
<1>5. x \in Nat /\ x <= v /\ w \in Withdrawals /\ Covered(w, v - x)
  BY <1>1, <1>2, <1>3, <1>4, OnePayment, Zenon
<1> QED
  BY <1>5 DEF x, v, w

\* process_vesting_withdrawals: coins for shares, account by account.
LEMMA ProcessVestingWithdrawals ==
  ASSUME NEW l \in Ledgers, Balanced(l), AllCovered(l), NEW block \in Nat
  PROVE  LET m == process_vesting_withdrawals(l, block)
         IN m \in Ledgers /\ Balanced(m) /\ AllCovered(m) /\ Worth(m) = Worth(l)
<1> DEFINE due == {a \in Accounts : l.power_down[a].next # Never /\ l.power_down[a].next <= block}
           x == [a \in Accounts |-> IF a \in due THEN ToWithdraw(l, a) ELSE 0]
           v == [a \in Accounts |-> l.vesting[a] - x[a]]
           b == [a \in Accounts |-> l.balance[a] + x[a]]
           d == [a \in Accounts |-> IF a \in due THEN Withdraw(l, a, x[a]) ELSE l.power_down[a]]
           t == l.total_vesting_shares - Total(x)
           m == [l EXCEPT !.vesting = v, !.balance = b, !.total_vesting_shares = t,
                          !.power_down = d]
<1>1. /\ l.balance \in [Accounts -> Nat] /\ l.vesting \in [Accounts -> Nat]
      /\ l.power_down \in [Accounts -> Withdrawals]
      /\ l.current_supply \in Int /\ l.total_vesting_shares \in Int
  BY DEF Ledgers
<1>2. process_vesting_withdrawals(l, block) = m
  BY <1>1 DEF process_vesting_withdrawals, Ledgers, SumFunction, Total
<1>3. ASSUME NEW a \in Accounts
      PROVE  /\ x[a] \in Nat /\ x[a] <= l.vesting[a] /\ d[a] \in Withdrawals
             /\ Covered(d[a], l.vesting[a] - x[a])
  <2>1. Covered(l.power_down[a], l.vesting[a]) /\ l.vesting[a] \in Nat
    BY <1>1, Zenon DEF AllCovered
  <2>2. CASE a \in due
    <3>1. l.power_down[a].next # Never
      BY <2>2
    <3>2. x[a] = ToWithdraw(l, a) /\ d[a] = Withdraw(l, a, x[a])
      BY <2>2
    <3> HIDE DEF x, d
    <3> QED
      BY <2>1, <3>1, <3>2, PaymentIsCovered, Zenon
  <2>3. CASE a \notin due
    <3>1. x[a] = 0 /\ d[a] = l.power_down[a]
      BY <2>3
    <3>2. l.vesting[a] - x[a] = l.vesting[a]
      BY <2>1, <3>1
    <3> HIDE DEF x, d
    <3> QED
      BY <1>1, <2>1, <3>1, <3>2
  <2> QED
    BY <2>2, <2>3, Zenon
<1>4. d[Null] = NoWithdrawal
  <2>1. l.power_down[Null] = NoWithdrawal /\ Null \in Accounts
    BY LedgerAssumption DEF AllCovered
  <2>2. Null \notin due
    BY <2>1 DEF NoWithdrawal
  <2> QED
    BY <2>1, <2>2
<1>5. x \in [Accounts -> Nat] /\ d \in [Accounts -> Withdrawals]
  <2>1. x = [a \in Accounts |-> x[a]] /\ d = [a \in Accounts |-> d[a]]
    BY Zenon
  <2> HIDE DEF x, d
  <2> QED
    BY <1>3, <2>1
<1> HIDE DEF due, x, d
<1>6. v \in [Accounts -> Nat] /\ b \in [Accounts -> Nat]
  BY <1>1, <1>3
<1>7. \A a \in Accounts : v[a] = l.vesting[a] - x[a] /\ b[a] = l.balance[a] + x[a]
  OBVIOUS
<1> HIDE DEF v, b
<1>8. Total(x) \in Nat /\ Total(v) \in Nat /\ Total(l.balance) \in Nat
  BY <1>1, <1>5, <1>6, TotalType
<1>9. Total(b) = Total(l.balance) + Total(x)
  <2>1. \A a \in Accounts : l.balance[a] \in Int /\ x[a] \in Int /\ b[a] = l.balance[a] + x[a]
    BY <1>1, <1>5, <1>7
  <2> QED
    BY <2>1, TotalAdd
<1>10. Total(l.vesting) = Total(v) + Total(x)
  <2>1. \A a \in Accounts : v[a] \in Int /\ x[a] \in Int /\ l.vesting[a] = v[a] + x[a]
    BY <1>1, <1>5, <1>6, <1>7
  <2> QED
    BY <2>1, TotalAdd
<1>11. t \in Int /\ t = Total(v)
  BY <1>1, <1>8, <1>10 DEF Balanced
<1> HIDE DEF t
<1>12. m \in Ledgers
  BY <1>5, <1>6, <1>11, Zenon DEF Ledgers
<1>13. /\ m.vesting = v /\ m.balance = b /\ m.total_vesting_shares = t /\ m.power_down = d
       /\ m.current_supply = l.current_supply /\ m.econ = l.econ
  BY DEF Ledgers
<1> HIDE DEF m
<1>14. Balanced(m)
  BY <1>8, <1>9, <1>10, <1>11, <1>13 DEF Balanced
<1>15. AllCovered(m)
  BY <1>3, <1>4, <1>7, <1>13, Zenon DEF AllCovered
<1> QED
  BY <1>2, <1>12, <1>13, <1>14, <1>15 DEF Worth

\* clear_null_account_balance: what the null account holds is taken out of the supply.
LEMMA ClearNull ==
  ASSUME NEW l \in Ledgers, Balanced(l), AllCovered(l), NEW block \in Nat
  PROVE  LET m == clear_null_account_balance(l, block)
         IN /\ m \in Ledgers /\ Balanced(m) /\ AllCovered(m)
            /\ NullBalance(l) \in Nat /\ Worth(m) + NullBalance(l) = Worth(l)
<1> DEFINE x == l.balance[Null]
           y == l.vesting[Null]
           j == adjust_balance(l, Null, -x, block)
           t == j.total_vesting_shares - y
           v == [j.vesting EXCEPT ![Null] = 0]
           k == [j EXCEPT !.total_vesting_shares = t, !.vesting = v]
           m == adjust_supply(k, - NullBalance(l))
<1>1. /\ Null \in Accounts /\ x \in Nat /\ y \in Nat /\ -x \in Int /\ x + (-x) >= 0
      /\ l.vesting \in [Accounts -> Nat]
  BY LedgerAssumption DEF Ledgers
<1>2. NullBalance(l) = x + y
  BY DEF NullBalance, total_balance
<1>3. j \in Ledgers /\ OnlyBalances(l, j) /\ Total(j.balance) = Total(l.balance) + (-x)
  BY <1>1, AdjustBalance
<1>4. clear_null_account_balance(l, block) = m
  BY <1>3 DEF clear_null_account_balance, Ledgers
<1> HIDE DEF j
<1>5. j.vesting = l.vesting /\ j.total_vesting_shares \in Int
  BY <1>3 DEF OnlyBalances, Ledgers
<1>6. v \in [Accounts -> Nat] /\ t \in Int
  BY <1>1, <1>5
<1>7. v[Null] = 0 /\ \A a \in Accounts \ {Null} : v[a] = l.vesting[a]
  BY <1>1, <1>5
<1> HIDE DEF v, t, x, y
<1>8. k \in Ledgers
  BY <1>3, <1>6, Zenon DEF Ledgers
<1>9. /\ k.vesting = v /\ k.total_vesting_shares = t /\ k.balance = j.balance
      /\ k.power_down = j.power_down /\ k.current_supply = j.current_supply /\ k.econ = j.econ
  BY <1>3 DEF Ledgers
<1> HIDE DEF k
<1>10. - NullBalance(l) \in Int /\ NullBalance(l) \in Nat
  BY <1>1, <1>2
<1>11. /\ m \in Ledgers /\ m.current_supply = k.current_supply + (- NullBalance(l))
       /\ m.balance = k.balance /\ m.vesting = k.vesting /\ m.power_down = k.power_down
       /\ m.total_vesting_shares = k.total_vesting_shares /\ m.econ = k.econ
  BY <1>8, <1>10, AdjustSupply, Zenon
<1> HIDE DEF m
<1>12. Total(v) = Total(l.vesting) - y
  <2>1. Total(v) = Total(l.vesting) + v[Null] - l.vesting[Null]
    BY <1>1, <1>6, <1>7, TotalChange
  <2>2. Total(l.vesting) \in Nat
    BY <1>1, TotalType
  <2> QED
    BY <1>1, <1>7, <2>1, <2>2 DEF y
<1>13. /\ l.current_supply \in Int /\ Total(l.balance) \in Nat /\ Total(l.vesting) \in Nat
       /\ Pools(l.econ) \in Int
  BY LedgerNumbers
<1>14. /\ m.current_supply = l.current_supply - (x + y) /\ m.econ = l.econ
       /\ m.power_down = l.power_down /\ m.vesting = v /\ m.balance = j.balance
       /\ m.total_vesting_shares = l.total_vesting_shares - y
  BY <1>1, <1>2, <1>3, <1>9, <1>11, <1>13 DEF OnlyBalances, t
<1>15. Balanced(m)
  BY <1>1, <1>3, <1>12, <1>13, <1>14 DEF Balanced
<1>16. Worth(m) + NullBalance(l) = Worth(l)
  BY <1>1, <1>2, <1>13, <1>14 DEF Worth
<1>17. AllCovered(m)
  <2>1. l.power_down[Null] = NoWithdrawal
    BY DEF AllCovered
  <2>2. ASSUME NEW a \in Accounts
        PROVE  Covered(m.power_down[a], m.vesting[a])
    <3>1. CASE a = Null
      BY <1>14, <2>1, <3>1 DEF Covered, NoWithdrawal
    <3>2. CASE a # Null
      BY <1>7, <1>14, <3>2 DEF AllCovered
    <3> QED
      BY <3>1, <3>2
  <2> QED
    BY <1>14, <2>1, <2>2 DEF AllCovered
<1> QED
  BY <1>4, <1>10, <1>11, <1>15, <1>16, <1>17

\* process_funds: the reward comes out of the pools and becomes shares of the witness.
LEMMA ProcessFunds ==
  ASSUME NEW l \in Ledgers, Balanced(l), AllCovered(l), NEW witness \in Accounts,
         NEW block \in Nat, NEW weight \in Nat
  PROVE  LET m == process_funds(l, witness, block, weight)
         IN m \in Ledgers /\ Balanced(m) /\ AllCovered(m) /\ Worth(m) = Worth(l)
<1> DEFINE r == mining_reward(l.econ, block, weight, Normalization)
           x == r.coinbase + r.fees
           e == withdraw_mining_reward(l.econ, r)
           j == [l EXCEPT !.econ = e]
           k == create_vesting(j, witness, x, block)
           s == k.current_supply + x
           t == k.total_vesting_shares + x
           m == [k EXCEPT !.current_supply = s, !.total_vesting_shares = t]
<1>1. /\ l.econ \in Economy /\ Pools(l.econ) \in Int /\ l.current_supply \in Int
      /\ l.total_vesting_shares \in Int /\ Total(l.balance) \in Nat /\ Total(l.vesting) \in Nat
  BY LedgerNumbers
<1>2. r.coinbase \in Nat /\ r.fees \in Nat /\ e \in Economy
      /\ Pools(e) + r.coinbase + r.fees = Pools(l.econ)
  BY <1>1, LedgerAssumption, MiningRewardIsCovered, Zenon
<1>3. process_funds(l, witness, block, weight) = m
  BY DEF process_funds
<1> HIDE DEF r
<1>4. x \in Nat /\ Pools(e) + x = Pools(l.econ) /\ Pools(e) \in Int
  <2>1. Pools(e) \in Int
    BY <1>2 DEF Economy, Pools
  <2> QED
    BY <1>2, <2>1
<1> HIDE DEF x, e
<1>5. /\ j \in Ledgers /\ j.econ = e /\ j.balance = l.balance /\ j.vesting = l.vesting
      /\ j.power_down = l.power_down /\ j.current_supply = l.current_supply
      /\ j.total_vesting_shares = l.total_vesting_shares
  BY <1>2, NewPools
<1> HIDE DEF j
<1>6. /\ k \in Ledgers /\ SharesKept(j, k) /\ k.balance = j.balance
      /\ Total(k.vesting) = Total(j.vesting) + x
      /\ k.total_vesting_shares = j.total_vesting_shares
      /\ k.current_supply = j.current_supply /\ k.econ = j.econ
  BY <1>4, <1>5, CreateVesting
<1> HIDE DEF k
<1>7. s = l.current_supply + x /\ t = l.total_vesting_shares + x /\ s \in Int /\ t \in Int
  BY <1>1, <1>4, <1>5, <1>6
<1> HIDE DEF s, t
<1>8. m \in Ledgers
  BY <1>6, <1>7, Zenon DEF Ledgers
<1>9. /\ m.current_supply = s /\ m.total_vesting_shares = t /\ m.balance = k.balance
      /\ m.vesting = k.vesting /\ m.power_down = k.power_down /\ m.econ = k.econ
  BY <1>6 DEF Ledgers
<1> HIDE DEF m
<1>10. Balanced(m)
  BY <1>1, <1>4, <1>5, <1>6, <1>7, <1>9 DEF Balanced
<1>11. Worth(m) = Worth(l)
  BY <1>1, <1>4, <1>5, <1>6, <1>7, <1>9 DEF Worth
<1>12. SharesKept(l, m)
  BY <1>5, <1>6, <1>9 DEF SharesKept
<1>13. AllCovered(m)
  BY <1>8, <1>12, StaysCovered
<1> QED
  BY <1>3, <1>8, <1>10, <1>11, <1>13

\* _apply_block as a whole.
LEMMA ApplyBlockInv ==
  ASSUME LedgerInv, apply_block
  PROVE  LedgerInv'
<1>1. /\ ledger \in Ledgers /\ Balanced(ledger) /\ AllCovered(ledger) /\ head \in Nat
      /\ burned \in Int /\ Worth(ledger) + burned = TotalSupply
  BY DEF LedgerInv
<1> DEFINE halts == head + 1 > InterestDelay
                      /\ \E a \in Batch(head + 1) :
                           ~ InterestDefined(ledger.considered[a], AccumulatedSupply(ledger))
<1>2. CASE halts
  <2>1. UNCHANGED <<ledger, head, burned>>
    BY <1>2 DEF apply_block
  <2> QED
    BY <2>1 DEF LedgerInv, Balanced, AllCovered, Worth
<1>3. CASE ~ halts
  <2> DEFINE block == head + 1
             l1 == process_interests(ledger, block)
             l2 == clear_null_account_balance(l1, block)
  <2>1. PICK witness \in Producers, weight \in Weights :
          LET l3 == process_funds(l2, witness, block, weight)
              l4 == process_vesting_withdrawals(l3, block)
          IN /\ ledger' = [l4 EXCEPT !.historic = record_block(@, block, l4.current_supply)]
             /\ burned' = burned + NullBalance(l1)
             /\ head' = block
    BY <1>3 DEF apply_block
  <2> DEFINE l3 == process_funds(l2, witness, block, weight)
             l4 == process_vesting_withdrawals(l3, block)
             h == record_block(l4.historic, block, l4.current_supply)
             m == [l4 EXCEPT !.historic = h]
  <2>2. block \in Nat /\ weight \in Nat /\ witness \in Accounts
    BY <1>1, LedgerAssumption DEF Producers
  <2>3. block > InterestDelay =>
          \A a \in Batch(block) : InterestDefined(ledger.considered[a], AccumulatedSupply(ledger))
    BY <1>3
  <2>4. ledger' = m /\ burned' = burned + NullBalance(l1) /\ head' = block
    BY <2>1
  <2> HIDE DEF block
  <2>5. /\ l1 \in Ledgers /\ Balanced(l1) /\ Worth(l1) = Worth(ledger)
        /\ l1.vesting = ledger.vesting /\ l1.power_down = ledger.power_down
    BY <1>1, <2>2, <2>3, ProcessInterests
  <2>6. AllCovered(l1)
    BY <1>1, <2>5 DEF AllCovered
  <2> HIDE DEF l1
  <2>7. /\ l2 \in Ledgers /\ Balanced(l2) /\ AllCovered(l2)
        /\ NullBalance(l1) \in Nat /\ Worth(l2) + NullBalance(l1) = Worth(l1)
    BY <2>2, <2>5, <2>6, ClearNull
  <2> HIDE DEF l2
  <2>8. l3 \in Ledgers /\ Balanced(l3) /\ AllCovered(l3) /\ Worth(l3) = Worth(l2)
    BY <2>2, <2>7, ProcessFunds
  <2> HIDE DEF l3
  <2>9. l4 \in Ledgers /\ Balanced(l4) /\ AllCovered(l4) /\ Worth(l4) = Worth(l3)
    BY <2>2, <2>8, ProcessVestingWithdrawals
  <2> HIDE DEF l4
  <2>10. h \in [0 .. InterestBlocks - 1 -> Int]
    BY <2>9, Zenon DEF record_block, Ledgers
  <2> HIDE DEF h
  <2>11. m \in Ledgers
    BY <2>9, <2>10, Zenon DEF Ledgers
  <2>12. /\ m.balance = l4.balance /\ m.vesting = l4.vesting /\ m.power_down = l4.power_down
         /\ m.current_supply = l4.current_supply /\ m.econ = l4.econ
         /\ m.total_vesting_shares = l4.total_vesting_shares
    BY <2>9 DEF Ledgers
  <2> HIDE DEF m
  <2>13. Balanced(m) /\ AllCovered(m) /\ Worth(m) = Worth(l4)
    BY <2>9, <2>12 DEF Balanced, AllCovered, Worth
  <2>14. Worth(ledger) \in Int /\ Worth(l2) \in Int
    BY <1>1, <2>7, LedgerNumbers DEF Worth
  <2>15. burned' \in Int /\ Worth(m) + burned' = TotalSupply
    BY <1>1, <2>4, <2>5, <2>7, <2>8, <2>9, <2>13, <2>14
  <2> QED
    BY <2>2, <2>4, <2>11, <2>13, <2>15 DEF LedgerInv, Balanced, AllCovered, Worth
<1> QED
  BY <1>2, <1>3

LEMMA NextLedgerInv == LedgerInv /\ [Next]_vars => LedgerInv'
<1> SUFFICES ASSUME LedgerInv, [Next]_vars PROVE LedgerInv'
  OBVIOUS
<1>1. ASSUME NEW a \in Spenders, NEW b \in Receivers, NEW x \in Amounts,
             transfer(a, b, x) \/ transfer_to_vesting(a, b, x)
      PROVE  LedgerInv'
  BY <1>1, TransferInv, TransferToVestingInv
<1>2. ASSUME NEW a \in Spenders, NEW x \in WithdrawAmounts, withdraw_vesting(a, x)
      PROVE  LedgerInv'
  BY <1>2, WithdrawVestingInv
<1>3. ASSUME NEW a \in Spenders, NEW x \in FeeAmounts, pay_fee(a, x)
      PROVE  LedgerInv'
  BY <1>3, PayFeeInv
<1>4. ASSUME NEW a \in Receivers, NEW x \in Amounts, transfer_from_promotion_pool(a, x)
      PROVE  LedgerInv'
  BY <1>4, PromotionInv
<1>5. CASE witness_update \/ witness_stop
  BY <1>5, WitnessInv
<1>6. CASE apply_block
  BY <1>6, ApplyBlockInv
<1>7. CASE UNCHANGED vars
  BY <1>7 DEF vars, LedgerInv, Balanced, AllCovered, Worth
<1> QED
  BY <1>1, <1>2, <1>3, <1>4, <1>5, <1>6, <1>7 DEF Next

LEMMA InitLedgerInv == Init => LedgerInv
<1> SUFFICES ASSUME Init PROVE LedgerInv
  OBVIOUS
<1> DEFINE zero == [a \in Accounts |-> 0]
           none == [a \in Accounts |-> NoWithdrawal]
           c == [a \in Accounts |-> 2 * InitBalance[a]]
           h == [k \in 0 .. InterestBlocks - 1 |-> 0]
<1>1. /\ InitBalance \in [Accounts -> Nat] /\ SumFunction(InitBalance) = InitSupply
      /\ IsFiniteSet(Accounts) /\ Null \in Accounts
      /\ InitSupply \in Nat /\ TotalSupply \in Nat
  BY LedgerAssumption, EconomicsAssumption
<1>2. Total(InitBalance) = InitSupply
  BY <1>1 DEF Total, SumFunction
<1>3. Total(zero) = 0
  <2>1. \A a \in Accounts \ {} : zero[a] = 0
    OBVIOUS
  <2>2. SumFunctionOnSet(zero, Accounts) = SumFunctionOnSet(zero, {})
    <3> HIDE DEF zero
    <3> QED
      BY <1>1, <2>1, SumRestrict
  <2> QED
    BY <2>2, SumEmpty DEF Total
<1>4. Pools(init_economics) = Coinbase /\ init_economics \in Economy
  BY InitialPools
<1>5. NoWithdrawal \in Withdrawals /\ Covered(NoWithdrawal, 0)
  BY DEF NoWithdrawal, Withdrawals, Covered, Never
<1>6. /\ zero \in [Accounts -> Nat] /\ none \in [Accounts -> Withdrawals]
      /\ c \in [Accounts -> Int] /\ h \in [0 .. InterestBlocks - 1 -> Int]
  BY <1>1, <1>5
<1>7. /\ \A a \in Accounts : zero[a] = 0 /\ none[a] = NoWithdrawal
      /\ none[Null] = NoWithdrawal
  BY <1>1
<1>8. /\ ledger = [balance |-> InitBalance, vesting |-> zero, considered |-> c,
                   power_down |-> none, current_supply |-> InitSupply,
                   total_vesting_shares |-> 0, econ |-> init_economics, historic |-> h]
      /\ head = 0 /\ burned = 0
  BY DEF Init
<1> HIDE DEF zero, none, c, h
<1>9. /\ ledger.balance = InitBalance /\ ledger.vesting = zero /\ ledger.power_down = none
      /\ ledger.current_supply = InitSupply /\ ledger.total_vesting_shares = 0
      /\ ledger.econ = init_economics
  BY <1>8
<1>10. ledger \in Ledgers
  BY <1>1, <1>4, <1>6, <1>8 DEF Ledgers
<1>11. Balanced(ledger)
  BY <1>1, <1>2, <1>3, <1>9 DEF Balanced
<1>12. AllCovered(ledger)
  BY <1>5, <1>7, <1>9 DEF AllCovered
<1>13. Worth(ledger) + burned = TotalSupply
  BY <1>1, <1>4, <1>8, <1>9 DEF Worth, Coinbase
<1> QED
  BY <1>8, <1>10, <1>11, <1>12, <1>13 DEF LedgerInv

\* The invariant of the ledger holds in every state.
THEOREM LedgerInvariant == Spec => []LedgerInv
  BY InitLedgerInv, NextLedgerInv, PTL DEF Spec

\* validate_invariants of database.cpp: whatever operations and blocks are applied, the
\* current supply is the sum of what the accounts hold, the total of vesting shares is
\* the sum of theirs, and no account is overdrawn.
THEOREM AlwaysSupplyIsHeld == Spec => []SupplyIsHeld
<1>1. LedgerInv => SupplyIsHeld
  <2> SUFFICES ASSUME LedgerInv PROVE SupplyIsHeld
    OBVIOUS
  <2> DEFINE f == [a \in Accounts |-> total_balance(ledger, a)]
             b == ledger.balance
             v == ledger.vesting
  <2>1. ledger \in Ledgers /\ Balanced(ledger)
    BY DEF LedgerInv
  <2>2. b \in [Accounts -> Nat] /\ v \in [Accounts -> Nat]
    BY <2>1 DEF Ledgers
  <2>3. \A a \in Accounts : b[a] \in Int /\ v[a] \in Int /\ f[a] = b[a] + v[a]
    BY <2>2 DEF total_balance
  <2>4. SumFunctionOnSet(f, Accounts) = SumFunctionOnSet(b, Accounts) + SumFunctionOnSet(v, Accounts)
    <3> HIDE DEF f, b, v
    <3> QED
      BY <2>3, Constants, SumAdd
  <2>5. ledger.current_supply = SumFunction(f)
    BY <2>1, <2>4 DEF Balanced, Total, SumFunction
  <2>6. ledger.total_vesting_shares = SumFunction(v)
    BY <2>1, <2>2 DEF Balanced, Total, SumFunction
  <2>7. \A a \in Accounts : ledger.balance[a] >= 0 /\ ledger.vesting[a] >= 0
    BY <2>2
  <2> QED
    BY <2>5, <2>6, <2>7 DEF SupplyIsHeld
<1> QED
  BY <1>1, LedgerInvariant, PTL

\* Every coin of the total supply is in the current supply, in a pool of the economic
\* model, or was taken from the null account; no pool is emptied below zero, whatever
\* fees, interests, rewards and promotions are paid.
THEOREM AlwaysTotalIsAccounted == Spec => []TotalIsAccounted
<1>1. LedgerInv => TotalIsAccounted
  <2> SUFFICES ASSUME LedgerInv PROVE TotalIsAccounted
    OBVIOUS
  <2>1. ledger.econ \in Economy
    BY DEF LedgerInv, Ledgers
  <2>2. \A f \in DOMAIN ledger.econ : ledger.econ[f] >= 0
    BY <2>1 DEF Economy
  <2> QED
    BY <2>2 DEF LedgerInv, Worth, TotalIsAccounted
<1> QED
  BY <1>1, LedgerInvariant, PTL

\* process_vesting_withdrawals: a withdrawal stays within the shares of its account while
\* it runs and has paid exactly what was asked for when it ends, also if the rate does
\* not divide that amount.
THEOREM AlwaysWithdrawalIsExact == Spec => []WithdrawalIsExact
<1>1. LedgerInv => WithdrawalIsExact
  BY DEF LedgerInv, AllCovered, Covered, WithdrawalIsExact
<1> QED
  BY <1>1, LedgerInvariant, PTL
=============================================================================
