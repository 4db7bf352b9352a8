---------------------------- MODULE WitnessVotes ----------------------------
(***************************************************************************)
(* Votes for witnesses: the stake of an account counts for the witnesses   *)
(* that the account votes for, or that the account at the end of its chain *)
(* of proxies votes for.  The tallies are never recomputed; every change   *)
(* of a stake, a proxy or a vote is propagated as a difference.            *)
(***************************************************************************)
EXTENDS Integers, FiniteSets, Functions

CONSTANTS
  Accounts,
  Witnesses,
  NoProxy,         \* SOPHIATX_PROXY_TO_SELF_ACCOUNT
  MaxProxyDepth,   \* SOPHIATX_MAX_PROXY_RECURSION_DEPTH
  MaxWitnessVotes, \* SOPHIATX_MAX_ACCOUNT_WITNESS_VOTES
  Targets,         \* the accounts that others choose as their proxy
  MaxSupply        \* bound: no reward or interest lifts the supply above this

ASSUME VotesAssumption ==
  /\ IsFiniteSet(Accounts) /\ NoProxy \notin Accounts /\ Targets \subseteq Accounts
  /\ MaxProxyDepth \in Nat \ {0} /\ MaxWitnessVotes \in Nat /\ MaxSupply \in Nat

VARIABLES
  stake,        \* account_object::total_balance(), balance and vesting shares
  proxy,        \* account_object::proxy
  tally,        \* proxied: account_object::proxied_vsf_votes; votes: witness_object::votes
  voting,       \* the witness_vote_objects of each account, as a set of witnesses
  voted,        \* account_object::witnesses_voted_for
  has_hardfork, \* has_hardfork(SOPHIATX_HARDFORK_1_1)
  fresh         \* history: no votes were counted as proxied when hardfork 1.1 was applied

votes_vars == <<stake, proxy, tally, voting, voted, has_hardfork, fresh>>

Levels == 0 .. MaxProxyDepth - 1

Supply == SumFunctionOnSet(stake, Accounts)

\* The account that is d hops up a's chain of the proxies pr, NoProxy beyond its end.
Hop(pr, a, d) ==
  LET hop[k \in 0 .. d] == IF k = 0 THEN a
                           ELSE IF hop[k - 1] = NoProxy THEN NoProxy
                           ELSE pr[hop[k - 1]]
  IN hop[d]

Hops(pr, a) == {d \in 0 .. Cardinality(Accounts) : Hop(pr, a, d) # NoProxy}

\* The number of hops to the account that votes for a.
Distance(pr, a) == Cardinality(Hops(pr, a)) - 1

Root(pr, a) == Hop(pr, a, Distance(pr, a))

\* The delta of a change of the account's own stake alone.
Own(x) == [i \in 0 .. MaxProxyDepth |-> IF i = 0 THEN x ELSE 0]

\* adjust_witness_votes
adjust_witness_votes(t, a, x) ==
  [t EXCEPT !.votes = [w \in Witnesses |-> IF w \in voting[a] THEN @[w] + x ELSE @[w]]]

\* delta[i] is the change of the stake i hops below a.  It travels up the chain of
\* proxies, and what is more than MaxProxyDepth hops from an account is lost to it.
adjust_proxied_witness_votes(t, a, delta) ==
  LET depth(p) == {d \in 1 .. MaxProxyDepth : Hop(proxy, a, d) = p}
      proxied == [p \in Accounts |-> [i \in Levels |->
                    IF \E d \in depth(p) : d - 1 <= i
                    THEN t.proxied[p][i] + delta[i - (CHOOSE d \in depth(p) : TRUE) + 1]
                    ELSE t.proxied[p][i]]]
      total == SumFunctionOnSet(delta, 0 .. MaxProxyDepth - Distance(proxy, a))
  IN IF Distance(proxy, a) <= MaxProxyDepth
     THEN adjust_witness_votes([t EXCEPT !.proxied = proxied], Root(proxy, a), total)
     ELSE [t EXCEPT !.proxied = proxied]

\* account_object::witness_vote_weight
witness_vote_weight(a) == stake[a] + SumFunctionOnSet(tally.proxied[a], Levels)

\* Accounts are created empty; their first coins are rewards and interests.
VotesInit ==
  /\ stake = [a \in Accounts |-> 0]
  /\ proxy = [a \in Accounts |-> NoProxy]
  /\ tally = [proxied |-> [a \in Accounts |-> [i \in Levels |-> 0]],
              votes |-> [w \in Witnesses |-> 0]]
  /\ voting = [a \in Accounts |-> {}]
  /\ voted = [a \in Accounts |-> 0]
  /\ has_hardfork = FALSE
  /\ fresh = TRUE

\* adjust_balance of the sender, then of the receiver.
transfer(from, to) ==
  /\ stake[from] > 0
  /\ LET taken == [stake EXCEPT ![from] = @ - 1]
     IN stake' = [taken EXCEPT ![to] = @ + 1]
  /\ tally' = adjust_proxied_witness_votes(
                adjust_proxied_witness_votes(tally, from, Own(-1)), to, Own(1))
  /\ UNCHANGED <<proxy, voting, voted, has_hardfork, fresh>>

\* create_vesting: the reward of the witness that produced the block.
create_vesting(a) ==
  /\ Supply < MaxSupply
  /\ stake' = [stake EXCEPT ![a] = @ + 1]
  /\ tally' = adjust_proxied_witness_votes(tally, a, Own(1))
  /\ UNCHANGED <<proxy, voting, voted, has_hardfork, fresh>>

\* process_interests: the votes learn of it only since hardfork 1.1.
process_interests(a) ==
  /\ Supply < MaxSupply
  /\ stake' = [stake EXCEPT ![a] = @ + 1]
  /\ tally' = IF has_hardfork THEN adjust_proxied_witness_votes(tally, a, Own(1)) ELSE tally
  /\ UNCHANGED <<proxy, voting, voted, has_hardfork, fresh>>

\* Mutant: an account may appear again in its own chain of proxies.
ProxyAllowed_Loop(a, p) == 2 + Distance(proxy, p) <= MaxProxyDepth \/ Distance(proxy, p) = 0

\* The loop over the chain of the new proxy.
ProxyAllowed(a, p) ==
  /\ a \notin {Hop(proxy, p, d) : d \in Hops(proxy, p)}
  /\ Distance(proxy, p) > 0 => 2 + Distance(proxy, p) <= MaxProxyDepth

\* Mutant: the votes proxied to the account stay where they were.
Everything_OwnOnly(a, sign) == Own(sign * stake[a])

\* What an account takes away from, or brings to, its chain of proxies.
Everything(a, sign) ==
  [i \in 0 .. MaxProxyDepth |->
     sign * (IF i = 0 THEN stake[a] ELSE tally.proxied[a][i - 1])]

clear_witness_votes(a) ==
  voting' = [voting EXCEPT ![a] = {}] /\ voted' = [voted EXCEPT ![a] = 0]

\* account_witness_proxy_evaluator.  The new votes go up the chain through p: on
\* the new chain p is one hop from a.
account_witness_proxy(a, p) ==
  /\ proxy[a] # p /\ p # a
  /\ LET removed == adjust_proxied_witness_votes(tally, a, Everything(a, -1))
     IN IF p = NoProxy
        THEN /\ tally' = removed
             /\ UNCHANGED <<voting, voted>>
        ELSE /\ ProxyAllowed(a, p)
             /\ LET all == Everything(a, 1)
                    first == [removed EXCEPT !.proxied[p] =
                                [i \in Levels |-> @[i] + all[i]]]
                    above == [i \in 0 .. MaxProxyDepth |-> IF i = 0 THEN 0 ELSE all[i - 1]]
                IN tally' = adjust_proxied_witness_votes(first, p, above)
             /\ clear_witness_votes(a)
  /\ proxy' = [proxy EXCEPT ![a] = p]
  /\ UNCHANGED <<stake, has_hardfork, fresh>>

\* account_witness_vote_evaluator: the vote is cast, or taken back.
account_witness_vote(a, w) ==
  /\ proxy[a] = NoProxy
  /\ IF w \notin voting[a]
     THEN /\ voted[a] < MaxWitnessVotes
          /\ tally' = [tally EXCEPT !.votes[w] = @ + witness_vote_weight(a)]
          /\ voting' = [voting EXCEPT ![a] = @ \cup {w}]
          /\ voted' = [voted EXCEPT ![a] = @ + 1]
     ELSE /\ tally' = [tally EXCEPT !.votes[w] = @ - witness_vote_weight(a)]
          /\ voting' = [voting EXCEPT ![a] = @ \ {w}]
          /\ voted' = [voted EXCEPT ![a] = @ - 1]
  /\ UNCHANGED <<stake, proxy, has_hardfork, fresh>>

NothingProxied == \A a \in Accounts, i \in Levels : tally.proxied[a][i] = 0

\* Mutant: the votes of the witnesses do not begin at 0 again.
apply_hardfork_AddsOnly ==
  /\ ~ has_hardfork /\ has_hardfork' = TRUE
  /\ fresh' = NothingProxied
  /\ tally' = FoldFunction(LAMBDA a, t : adjust_proxied_witness_votes(t, a, Own(stake[a])),
                           tally, [a \in Accounts |-> a])
  /\ UNCHANGED <<stake, proxy, voting, voted>>

\* apply_hardfork for hardfork 1.1, which is recalculate_all_votes: the votes of the
\* witnesses begin at 0 again, the votes proxied to the accounts do not.
apply_hardfork ==
  /\ ~ has_hardfork /\ has_hardfork' = TRUE
  /\ fresh' = NothingProxied
  /\ tally' = FoldFunction(LAMBDA a, t : adjust_proxied_witness_votes(t, a, Own(stake[a])),
                           [tally EXCEPT !.votes = [w \in Witnesses |-> 0]],
                           [a \in Accounts |-> a])
  /\ UNCHANGED <<stake, proxy, voting, voted>>

VotesNext ==
  \/ \E a, b \in Accounts : a # b /\ transfer(a, b)
  \/ \E a \in Accounts : create_vesting(a) \/ process_interests(a)
  \/ \E a \in Accounts, p \in Targets \cup {NoProxy} : account_witness_proxy(a, p)
  \/ \E a \in Accounts, w \in Witnesses : account_witness_vote(a, w)
  \/ apply_hardfork

VotesSpec == VotesInit /\ [][VotesNext]_votes_vars

-----------------------------------------------------------------------------
(***************************************************************************)
(* Properties.                                                             *)
(***************************************************************************)

\* Since hardfork 1.1 the votes proxied to an account on level i are exactly the
\* stakes of the accounts i + 1 hops below it, after any sequence of changes of
\* stakes and proxies, although each change only propagates a difference; provided
\* that recalculate_all_votes did not add to votes that were proxied already.
ProxiedExact ==
  has_hardfork /\ fresh => \A p \in Accounts, i \in Levels :
     tally.proxied[p][i] =
       SumFunctionOnSet(stake, {a \in Accounts : Hop(proxy, a, i + 1) = p})

\* Under the same condition a witness has exactly the votes of those whose chain of
\* proxies ends, within MaxProxyDepth hops, at an account that votes for it; what
\* interests had added before hardfork 1.1 without a vote is made good by it.
VotesExact ==
  has_hardfork /\ fresh => \A w \in Witnesses :
     tally.votes[w] =
       SumFunctionOnSet(stake,
         {a \in Accounts : Distance(proxy, a) <= MaxProxyDepth /\ w \in voting[Root(proxy, a)]})

\* No account is its own proxy, however the chains are built up; the recursion of
\* adjust_proxied_witness_votes and the loop of the evaluator would not end.
NoProxyLoop == \A a \in Accounts : Distance(proxy, a) < Cardinality(Accounts)

\* "verify no witness has too many votes": validate_invariants asserts that no
\* witness has more votes than there are coins.
VotesWithinSupply == \A w \in Witnesses : tally.votes[w] <= Supply
=============================================================================
