----------------------------- MODULE Economics ------------------------------
(***************************************************************************)
(* economic_model_object: the pools of coins that do not exist yet, as     *)
(* operators on its state e.  What is withdrawn from a pool, or paid into  *)
(* one as a fee, must change the current supply by the same amount.        *)
(***************************************************************************)
EXTENDS Integers

CONSTANTS
  Hundred,           \* SOPHIATX_100_PERCENT
  MiningPct,         \* SOPHIATX_MINING_POOL_PERCENTAGE
  InterestPct,       \* SOPHIATX_INTEREST_POOL_PERCENTAGE
  PromotionPct,      \* SOPHIATX_PROMOTION_POOL_PERCENTAGE
  BurnPct,           \* SOPHIATX_BURN_FEE_PERCENTAGE
  TotalSupply,       \* SOPHIATX_TOTAL_SUPPLY
  InitSupply,        \* SOPHIATX_INIT_SUPPLY, the balances of genesis
  CoinbaseBlocks,    \* SOPHIATX_COINBASE_BLOCKS
  BlocksPerWeek,     \* SOPHIATX_BLOCKS_PER_DAY * 7
  InterestDelay,     \* SOPHIATX_INTEREST_DELAY
  InterestBlocks,    \* SOPHIATX_INTEREST_BLOCKS
  InterestFeesTime   \* SOPHIATX_INTEREST_FEES_TIME

Coinbase == TotalSupply - InitSupply

\* The shares of genesis are without remainder, as those of the configuration are.
ASSUME EconomicsAssumption ==
  /\ Hundred \in Nat \ {0} /\ BurnPct \in 0 .. Hundred
  /\ MiningPct \in Nat /\ InterestPct \in Nat /\ PromotionPct \in Nat
  /\ MiningPct + InterestPct + PromotionPct = Hundred
  /\ InitSupply \in Nat /\ TotalSupply \in Nat /\ InitSupply <= TotalSupply
  /\ CoinbaseBlocks \in Nat \ {0} /\ BlocksPerWeek \in Nat \ {0}
  /\ InterestDelay \in Nat /\ InterestBlocks \in Nat \ {0} /\ InterestFeesTime \in Nat \ {0}
  /\ InterestBlocks <= InterestFeesTime
  /\ (Coinbase * MiningPct) \div Hundred + (Coinbase * InterestPct) \div Hundred
        + (Coinbase * PromotionPct) \div Hundred = Coinbase

Least(x, y) == IF x <= y THEN x ELSE y

Share(x, pct) == (x * pct) \div Hundred

\* Without historic_supply and accumulated_supply, see record_block.
init_economics ==
  [mining_pool_from_coinbase |-> Share(Coinbase, MiningPct),
   mining_pool_from_fees |-> 0,
   interest_pool_from_coinbase |-> Share(Coinbase, InterestPct),
   interest_pool_from_fees |-> 0,
   promotion_pool |-> Share(Coinbase, PromotionPct),
   burn_pool |-> 0]

\* What validate_invariants adds to the current supply.
Pools(e) ==
  e.mining_pool_from_coinbase + e.mining_pool_from_fees
    + e.interest_pool_from_coinbase + e.interest_pool_from_fees
    + e.promotion_pool + e.burn_pool

coinbase_block_reward == Share(Coinbase, MiningPct) \div CoinbaseBlocks

\* withdraw_mining_reward: what is taken from coinbase and from the fees.
mining_reward(e, block, nominator, denominator) ==
  IF block <= InterestDelay THEN [coinbase |-> 0, fees |-> 0]
  ELSE [coinbase |-> Least((coinbase_block_reward * nominator) \div denominator,
                           e.mining_pool_from_coinbase),
        fees |-> Least(((e.mining_pool_from_fees \div BlocksPerWeek) * nominator) \div denominator,
                       e.mining_pool_from_fees)]

withdraw_mining_reward(e, r) ==
  [e EXCEPT !.mining_pool_from_coinbase = @ - r.coinbase, !.mining_pool_from_fees = @ - r.fees]

\* The supplies of the last InterestBlocks blocks, by block number modulo that.
record_block(historic, block, current_supply) ==
  [historic EXCEPT ![block % InterestBlocks] = current_supply]

\* The assertion of withdraw_interests; the pools are never negative.
InterestDefined(holding, accumulated_supply) == holding >= 0 /\ accumulated_supply >= holding

\* withdraw_interests: what the holding of one period earns.
interest(e, holding, period, accumulated_supply) ==
  IF holding = 0 THEN [coinbase |-> 0, fees |-> 0]
  ELSE LET for_period == Least(e.interest_pool_from_coinbase,
                               (Share(Coinbase, InterestPct) * period) \div CoinbaseBlocks)
       IN [coinbase |-> (holding * for_period) \div accumulated_supply,
           fees |-> (((e.interest_pool_from_fees * InterestBlocks) \div InterestFeesTime)
                        * holding) \div accumulated_supply]

withdraw_interests(e, r) ==
  [e EXCEPT !.interest_pool_from_coinbase = @ - r.coinbase, !.interest_pool_from_fees = @ - r.fees]

\* Mutant: what is burned is not taken out of what the pools get.
add_fee_BurnTwice(e, fee) ==
  LET mining == Share(fee, MiningPct)
      promotion == Share(fee, PromotionPct)
  IN [e EXCEPT !.mining_pool_from_fees = @ + mining,
               !.promotion_pool = @ + promotion,
               !.burn_pool = @ + Share(fee, BurnPct),
               !.interest_pool_from_fees = @ + fee - mining - promotion]

\* A fee is burned in part, and the pools share the rest.
add_fee(e, fee) ==
  LET to_burn == Share(fee, BurnPct)
      rest == fee - to_burn
      mining == Share(rest, MiningPct)
      promotion == Share(rest, PromotionPct)
  IN [e EXCEPT !.mining_pool_from_fees = @ + mining,
               !.promotion_pool = @ + promotion,
               !.burn_pool = @ + to_burn,
               !.interest_pool_from_fees = @ + rest - mining - promotion]

\* The factor by which the amount that is unlocked with each block is scaled.
Scale == 262144

\* The part of the promotion pool that is still locked.  After the last coinbase
\* block the difference wraps around and the conversion throws.
LockedPool(block) ==
  (((Share(Coinbase, PromotionPct) * Scale) \div CoinbaseBlocks) * (CoinbaseBlocks - block))
     \div Scale

get_available_promotion_pool(e, block) == e.promotion_pool - LockedPool(block)

CanWithdrawPromotion(e, amount, block) ==
  /\ block <= CoinbaseBlocks
  /\ e.promotion_pool >= LockedPool(block)
  /\ Least(get_available_promotion_pool(e, block), amount) > 0

withdraw_from_promotion_pool(e, withdrawn) == [e EXCEPT !.promotion_pool = @ - withdrawn]
=============================================================================
