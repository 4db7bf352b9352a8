---------------------------- MODULE VotesProofs -----------------------------
(***************************************************************************)
(* The votes for witnesses, for any number of accounts and witnesses, any  *)
(* depth of proxies and any sequence of operations: chains of proxies end, *)
(* and since the hardfork that counts them anew the proxied stakes and the *)
(* votes of every witness are what the chains say.                         *)
(***************************************************************************)
EXTENDS ProxyTheorems

\* The steps late in a module of this size need more than the default time.
USE SMTT(30), ZenonT(30), SMTT(60)

-----------------------------------------------------------------------------
\* What a has and what is proxied to it leaves its chain: the tallies are exact for
\* an account without a proxy and without votes.
LEMMA TakenAway ==
  ASSUME NEW pr \in Proxies, Ends(pr), NEW vo \in Ballots, NEW st \in [Accounts -> Int],
         NEW t \in Tallies, NEW u, NEW a \in Accounts, NEW all \in Deltas, NEW none \in Deltas,
         Exact(t, st, pr, vo), IsAll(all, st, pr, a), Opposite(none, all),
         Changed(u, t, pr, vo, a, none)
  PROVE  Exact(u, st, Cut(pr, a), Cleared(vo, a))
<1>1. ASSUME NEW q \in Accounts, NEW i \in Levels
      PROVE  u.proxied[q][i] = Below(st, Cut(pr, a), q, i + 1)
  <2>1. Below(st, pr, q, i + 1) = Below(st, Cut(pr, a), q, i + 1) + Share(pr, a, all, q, i)
    BY CutProxied DEF IsAll
  <2>2. Share(pr, a, none, q, i) = 0 - Share(pr, a, all, q, i)
    BY OppositeShares
  <2>3. Share(pr, a, all, q, i) \in Int
    BY ShareType
  <2>4. u.proxied[q][i] = Below(st, pr, q, i + 1) + Share(pr, a, none, q, i)
    BY DEF Changed, Exact
  <2>5. Below(st, Cut(pr, a), q, i + 1) \in Int
    <3>1. Under(Cut(pr, a), q, i + 1) \in SUBSET Accounts
      BY DEF Under
    <3> QED
      BY <3>1, SumInteger DEF Below
  <2> QED
    BY <2>1, <2>2, <2>3, <2>4, <2>5, RestIsLeft, ZenonT(30)
<1>2. ASSUME NEW w \in Witnesses
      PROVE  u.votes[w] = SumFunctionOnSet(st, Supporters(Cut(pr, a), Cleared(vo, a), w))
  <2> DEFINE before == SumFunctionOnSet(st, Supporters(pr, vo, w))
             after == SumFunctionOnSet(st, Supporters(Cut(pr, a), Cleared(vo, a), w))
  <2>1. before = after + VoteShare(pr, vo, a, all, w)
    BY CutVotes DEF IsAll
  <2>2. VoteShare(pr, vo, a, none, w) = 0 - VoteShare(pr, vo, a, all, w)
    BY OppositeShares
  <2>3. VoteShare(pr, vo, a, all, w) \in Int
    BY VoteShareType, Zenon
  <2>4. u.votes[w] = before + VoteShare(pr, vo, a, none, w)
    BY Zenon DEF Changed, Exact
  <2>5. after \in Int
    <3>1. Supporters(Cut(pr, a), Cleared(vo, a), w) \in SUBSET Accounts
      BY DEF Supporters
    <3> QED
      BY <3>1, SumInteger
  <2> HIDE DEF before, after
  <2>6. u.votes[w] = after
    BY <2>1, <2>2, <2>3, <2>4, <2>5, RestIsLeft, Zenon
  <2> QED
    BY <2>6 DEF after
<1> QED
  BY <1>1, <1>2, Zenon DEF Exact

\* An account without votes brings them to the chain of a new proxy.
LEMMA BroughtTo ==
  ASSUME NEW pr \in Proxies, Ends(pr), NEW vo \in Ballots, NEW st \in [Accounts -> Int],
         NEW t \in Tallies, NEW u, NEW a \in Accounts, NEW all \in Deltas,
         Exact(t, st, Cut(pr, a), vo), vo[a] = {}, IsAll(all, st, Cut(pr, a), a),
         Changed(u, t, pr, vo, a, all)
  PROVE  Exact(u, st, pr, vo)
<1>0. IsAll(all, st, pr, a)
  <2>1. \A j \in 0 .. MaxProxyDepth : j \in Nat
    OBVIOUS
  <2> QED
    BY <2>1, CutBelow DEF IsAll, Below
<1>1. ASSUME NEW q \in Accounts, NEW i \in Levels
      PROVE  u.proxied[q][i] = Below(st, pr, q, i + 1)
  <2>1. Below(st, pr, q, i + 1) = Below(st, Cut(pr, a), q, i + 1) + Share(pr, a, all, q, i)
    BY <1>0, CutProxied DEF IsAll
  <2> QED
    BY <2>1, Zenon DEF Changed, Exact
<1>2. ASSUME NEW w \in Witnesses
      PROVE  u.votes[w] = SumFunctionOnSet(st, Supporters(pr, vo, w))
  <2>1. Cleared(vo, a) = vo
    BY Zenon DEF Cleared, Ballots
  <2>2. SumFunctionOnSet(st, Supporters(pr, vo, w))
          = SumFunctionOnSet(st, Supporters(Cut(pr, a), Cleared(vo, a), w)) + VoteShare(pr, vo, a, all, w)
    BY <1>0, CutVotes DEF IsAll
  <2> QED
    BY <2>1, <2>2 DEF Changed, Exact
<1> QED
  BY <1>1, <1>2 DEF Exact

-----------------------------------------------------------------------------
\* The proxies after a has chosen p.
Moved(pr, a, p) == [pr EXCEPT ![a] = p]

\* If p's chain does not lead to a, then a's new chain is p's with one hop more.
LEMMA MovedChain ==
  ASSUME NEW pr \in Proxies, Ends(pr), NEW a \in Accounts, NEW p \in Accounts,
         \A d \in Nat : Hop(pr, p, d) # a
  PROVE  /\ Moved(pr, a, p) \in Proxies
         /\ Ends(Moved(pr, a, p))
         /\ \A d \in Nat : Hop(Moved(pr, a, p), a, d + 1) = Hop(pr, p, d)
         /\ Cut(Moved(pr, a, p), a) = Cut(pr, a)
         /\ Distance(Moved(pr, a, p), a) = Distance(pr, p) + 1
         /\ Root(Moved(pr, a, p), a) = Root(pr, p)
         /\ Root(pr, p) # a
<1> DEFINE ps == Moved(pr, a, p)
           D == Distance(pr, p)
<1>1. ps \in Proxies /\ Ends(ps) /\ \A d \in Nat : Hop(ps, a, d + 1) = Hop(pr, p, d)
  BY ExtendEnds, Zenon DEF Moved
<1>2. Cut(ps, a) = Cut(pr, a)
  BY Zenon DEF Cut, Moved, Proxies
<1>3. D \in Nat /\ D + 1 \in Nat
  BY ChainEnds
<1>4. Hop(pr, p, D) = Root(pr, p) /\ Root(pr, p) \in Accounts /\ Hop(pr, p, D + 1) = NoProxy
  BY RootIs
<1> HIDE DEF ps, D
<1>5. Hop(ps, a, D + 1) = Root(pr, p) /\ Hop(ps, a, (D + 1) + 1) = NoProxy
  BY <1>1, <1>3, <1>4
<1>6. Distance(ps, a) = D + 1 /\ Root(ps, a) = Root(pr, p)
  BY <1>1, <1>3, <1>4, <1>5, DistanceIs
<1> QED
  BY <1>1, <1>2, <1>3, <1>4, <1>6 DEF ps, D

\* above is all, one level higher.
Raised(above, all) == above[0] = 0 /\ \A i \in Levels : above[i + 1] = all[i]

\* a's chain in ps is p's chain in pr with one hop more.
OneHopMore(ps, a, pr, p) == \A d \in Nat : Hop(ps, a, d + 1) = Hop(pr, p, d)

\* What moves up a's chain is given to p, and moves up p's chain one level higher.
LEMMA ShareMoved ==
  ASSUME NEW pr \in Proxies, Ends(pr), NEW ps \in Proxies, Ends(ps), NEW a \in Accounts,
         NEW p \in Accounts, OneHopMore(ps, a, pr, p), NEW all \in Deltas, NEW above \in Deltas,
         Raised(above, all), NEW q \in Accounts, NEW i \in Levels
  PROVE  Share(ps, a, all, q, i) = (IF q = p THEN all[i] ELSE 0) + Share(pr, p, above, q, i)
<1>0. i \in Nat /\ i + 1 <= MaxProxyDepth /\ MaxProxyDepth \in Nat /\ all[i] \in Int
  BY VotesAssumption DEF Levels, Deltas
<1>1. CASE q = p
  <2>1. Hop(pr, p, 0) = p /\ Hop(ps, a, 0 + 1) = Hop(pr, p, 0)
    BY HopStep DEF OneHopMore
  <2>2. 1 \in 1 .. i + 1 /\ i + 1 - 1 = i /\ Hop(ps, a, 1) = p
    BY <1>0, <2>1
  <2>3. Share(ps, a, all, q, i) = all[i]
    BY <1>0, <1>1, <2>2, ShareIs
  <2>4. \A d \in 1 .. i + 1 : Hop(pr, p, d) # p
    <3>1. ASSUME NEW d \in 1 .. i + 1, Hop(pr, p, d) = p
          PROVE  FALSE
      <4>1. d \in Nat /\ d # 0
        BY <1>0
      <4> QED
        BY <2>1, <3>1, <4>1, HopsApart
    <3> QED
      BY <3>1
  <2>5. Share(pr, p, above, q, i) = 0
    BY <1>1, <2>4 DEF Share
  <2> QED
    BY <1>0, <1>1, <2>3, <2>5
<1>2. CASE q # p /\ \E d \in 1 .. i + 1 : Hop(ps, a, d) = q
  <2>1. PICK d \in 1 .. i + 1 : Hop(ps, a, d) = q
    BY <1>2
  <2>2. PICK e \in Nat : d = e + 1
    <3>1. d - 1 \in Nat /\ d = (d - 1) + 1
      BY <1>0
    <3> QED
      BY <3>1
  <2>3. Hop(pr, p, e) = q
    BY <2>1, <2>2 DEF OneHopMore
  <2>4. e # 0
    BY <1>2, <2>3, HopStep
  <2>5. e \in 1 .. i + 1 /\ i + 1 - d \in Levels /\ i + 1 - e = (i + 1 - d) + 1
    BY <1>0, <2>1, <2>2, <2>4 DEF Levels
  <2>6. Share(ps, a, all, q, i) = all[i + 1 - d]
    BY <1>0, <2>1, ShareIs
  <2>7. Share(pr, p, above, q, i) = above[i + 1 - e]
    BY <1>0, <2>3, <2>5, ShareIs
  <2>8. i + 1 - d \in 0 .. MaxProxyDepth
    BY <2>5, VotesAssumption DEF Levels
  <2>9. above[i + 1 - e] = all[i + 1 - d] /\ all[i + 1 - d] \in Int
    BY <2>5, <2>8 DEF Deltas, Raised
  <2> QED
    BY <1>2, <2>6, <2>7, <2>9
<1>3. CASE q # p /\ ~ \E d \in 1 .. i + 1 : Hop(ps, a, d) = q
  <2>1. Share(ps, a, all, q, i) = 0
    BY <1>3 DEF Share
  <2>2. CASE \E d \in 1 .. i + 1 : Hop(pr, p, d) = q
    <3>1. PICK d \in 1 .. i + 1 : Hop(pr, p, d) = q
      BY <2>2
    <3>2. d \in Nat /\ d + 1 \in Nat
      BY <1>0
    <3>3. Hop(ps, a, d + 1) = q
      BY <3>1, <3>2 DEF OneHopMore
    <3>4. d + 1 \notin 1 .. i + 1
      BY <1>3, <3>3
    <3>5. i + 1 - d = 0
      BY <1>0, <3>2, <3>4
    <3>6. Share(pr, p, above, q, i) = above[i + 1 - d]
      BY <1>0, <3>1, ShareIs
    <3> QED
      BY <1>3, <2>1, <3>5, <3>6 DEF Raised
  <2>3. CASE ~ \E d \in 1 .. i + 1 : Hop(pr, p, d) = q
    <3>1. Share(pr, p, above, q, i) = 0
      BY <2>3 DEF Share
    <3> QED
      BY <1>3, <2>1, <3>1
  <2> QED
    BY <2>2, <2>3
<1> QED
  BY <1>1, <1>2, <1>3

\* The levels that are within reach of the end of the chain are the same ones.
LEMMA RaisedSum ==
  ASSUME NEW all \in Deltas, NEW above \in Deltas, Raised(above, all),
         NEW n \in Nat, n <= MaxProxyDepth
  PROVE  /\ SumFunctionOnSet(above, 0 .. n) = SumFunctionOnSet(all, 0 .. n - 1)
         /\ n = 0 => SumFunctionOnSet(all, 0 .. n - 1) = 0
<1>0. MaxProxyDepth \in Nat /\ n - 1 \in Int /\ n - 1 <= MaxProxyDepth
  BY VotesAssumption
<1>1. \A i \in 0 .. n : above[i] \in Int
  <2>1. \A i \in 0 .. n : i \in 0 .. MaxProxyDepth
    BY <1>0
  <2> QED
    BY <2>1 DEF Deltas
<1>2. \A i \in 0 .. n - 1 : all[i] = above[i + 1]
  <2>1. \A i \in 0 .. n - 1 : i \in Levels
    BY <1>0 DEF Levels
  <2> QED
    BY <2>1 DEF Raised
<1>3. SumFunctionOnSet(above, 0 .. n) = above[0] + SumFunctionOnSet(all, 0 .. n - 1)
  BY <1>1, <1>2, SumShift, Zenon
<1>4. SumFunctionOnSet(all, 0 .. n - 1) \in Int
  BY <1>0, DeltaSum
<1>5. ASSUME n = 0 PROVE SumFunctionOnSet(all, 0 .. n - 1) = 0
  <2>1. 0 .. n - 1 = {}
    BY <1>5
  <2> QED
    BY <2>1, SumEmpty
<1> QED
  BY <1>3, <1>4, <1>5 DEF Raised

\* The witnesses get the same by either chain.
LEMMA VoteShareMoved ==
  ASSUME NEW pr \in Proxies, Ends(pr), NEW ps, NEW a, NEW p \in Accounts,
         NEW all \in Deltas, NEW above \in Deltas, Raised(above, all),
         Distance(ps, a) = Distance(pr, p) + 1, Root(ps, a) = Root(pr, p),
         NEW vo, NEW vs, vs[Root(pr, p)] = vo[Root(pr, p)], NEW w
  PROVE  VoteShare(ps, vs, a, all, w) = VoteShare(pr, vo, p, above, w)
<1> DEFINE D == Distance(pr, p)
<1>0. D \in Nat /\ MaxProxyDepth \in Nat
  BY ChainEnds, VotesAssumption
<1>1. VoteShare(ps, vs, a, all, w)
        = IF D + 1 <= MaxProxyDepth /\ w \in vo[Root(pr, p)]
          THEN SumFunctionOnSet(all, 0 .. MaxProxyDepth - (D + 1)) ELSE 0
  BY DEF VoteShare
<1>2. VoteShare(pr, vo, p, above, w)
        = IF D <= MaxProxyDepth /\ w \in vo[Root(pr, p)]
          THEN SumFunctionOnSet(above, 0 .. MaxProxyDepth - D) ELSE 0
  BY DEF VoteShare
<1> HIDE DEF D
<1>3. CASE D <= MaxProxyDepth
  <2>1. PICK n \in Nat : n = MaxProxyDepth - D /\ n <= MaxProxyDepth
    BY <1>0, <1>3
  <2>2. n - 1 = MaxProxyDepth - (D + 1) /\ (n = 0 <=> ~ (D + 1 <= MaxProxyDepth))
    BY <1>0, <2>1
  <2>3. /\ SumFunctionOnSet(above, 0 .. n) = SumFunctionOnSet(all, 0 .. n - 1)
        /\ n = 0 => SumFunctionOnSet(all, 0 .. n - 1) = 0
    BY <2>1, RaisedSum
  <2> QED
    BY <1>1, <1>2, <1>3, <2>1, <2>2, <2>3
<1>4. CASE ~ (D <= MaxProxyDepth)
  BY <1>0, <1>1, <1>2, <1>4
<1> QED
  BY <1>3, <1>4

\* p is one hop from a: what is given to p, and moves up p's chain one level higher,
\* moves up a's new chain.
LEMMA FirstHop ==
  ASSUME NEW pr \in Proxies, Ends(pr), NEW vo \in Ballots, NEW a \in Accounts, NEW p \in Accounts,
         \A d \in Nat : Hop(pr, p, d) # a,
         NEW t \in Tallies, NEW f \in Tallies, NEW u, NEW all \in Deltas, NEW above \in Deltas,
         f.votes = t.votes,
         \A q \in Accounts, i \in Levels :
           f.proxied[q][i] = t.proxied[q][i] + (IF q = p THEN all[i] ELSE 0),
         Raised(above, all), Changed(u, f, pr, vo, p, above)
  PROVE  Changed(u, t, Moved(pr, a, p), Cleared(vo, a), a, all)
<1> DEFINE ps == Moved(pr, a, p)
<1>0. /\ ps \in Proxies /\ Ends(ps) /\ OneHopMore(ps, a, pr, p)
      /\ Distance(ps, a) = Distance(pr, p) + 1
      /\ Root(ps, a) = Root(pr, p)
      /\ Root(pr, p) # a
  BY MovedChain DEF OneHopMore
<1> HIDE DEF ps
<1>1. ASSUME NEW q \in Accounts, NEW i \in Levels
      PROVE  u.proxied[q][i] = t.proxied[q][i] + Share(ps, a, all, q, i)
  <2>1. u.proxied[q][i] = f.proxied[q][i] + Share(pr, p, above, q, i)
    BY DEF Changed
  <2>2. Share(ps, a, all, q, i) = (IF q = p THEN all[i] ELSE 0) + Share(pr, p, above, q, i)
    BY <1>0, ShareMoved
  <2>3. t.proxied[q][i] \in Int /\ all[i] \in Int
    <3>1. i \in 0 .. MaxProxyDepth
      BY VotesAssumption DEF Levels
    <3> QED
      BY <3>1 DEF Tallies, Deltas
  <2>4. Share(pr, p, above, q, i) \in Int
    BY ShareType
  <2> QED
    BY <2>1, <2>2, <2>3, <2>4
<1>2. ASSUME NEW w \in Witnesses
      PROVE  VoteShare(ps, Cleared(vo, a), a, all, w) = VoteShare(pr, vo, p, above, w)
  <2>1. Cleared(vo, a)[Root(pr, p)] = vo[Root(pr, p)]
    BY <1>0, RootIs DEF Cleared, Ballots
  <2> QED
    BY <1>0, <2>1, VoteShareMoved
<1> QED
  BY <1>1, <1>2 DEF Changed, ps

-----------------------------------------------------------------------------
\* The weight W of a moves with its votes, which were vo[a] and are vs[a].
Weighed(u, t, vs, vo, a, W) ==
  \A w \in Witnesses : u.votes[w] = t.votes[w] + (IF w \in vs[a] THEN W ELSE 0)
                                               - (IF w \in vo[a] THEN W ELSE 0)

\* Only the votes of a, which has no proxy, change: its weight moves with them.
LEMMA VotesMoved ==
  ASSUME NEW pr \in Proxies, Ends(pr), NEW vo \in Ballots, NEW vs \in Ballots,
         NEW st \in [Accounts -> Int], NEW t \in Tallies, NEW u, NEW a \in Accounts,
         pr[a] = NoProxy, NEW all \in Deltas, IsAll(all, st, pr, a), Exact(t, st, pr, vo),
         NEW W, W = SumFunctionOnSet(all, 0 .. MaxProxyDepth),
         Cleared(vs, a) = Cleared(vo, a), u.proxied = t.proxied,
         Weighed(u, t, vs, vo, a, W)
  PROVE  Exact(u, st, pr, vs)
<1>1. Cut(pr, a) = pr
  BY DEF Cut, Proxies
<1>2. Distance(pr, a) = 0 /\ Root(pr, a) = a
  <2>1. Hop(pr, a, 0) = a /\ Hop(pr, a, 0 + 1) = Up(pr, Hop(pr, a, 0))
    BY HopStep
  <2>2. Hop(pr, a, 0 + 1) = NoProxy
    BY <2>1 DEF Up
  <2> QED
    BY <2>1, <2>2, DistanceIs
<1>3. MaxProxyDepth \in Nat /\ MaxProxyDepth - 0 = MaxProxyDepth
  BY VotesAssumption
<1>4. \A w \in Witnesses : /\ VoteShare(pr, vo, a, all, w) = IF w \in vo[a] THEN W ELSE 0
                           /\ VoteShare(pr, vs, a, all, w) = IF w \in vs[a] THEN W ELSE 0
  BY <1>2, <1>3 DEF VoteShare
<1>5. W \in Int
  BY <1>3, DeltaSum
<1>6. ASSUME NEW w \in Witnesses
      PROVE  u.votes[w] = SumFunctionOnSet(st, Supporters(pr, vs, w))
  <2> DEFINE B == SumFunctionOnSet(st, Supporters(pr, Cleared(vo, a), w))
             x == IF w \in vo[a] THEN W ELSE 0
             y == IF w \in vs[a] THEN W ELSE 0
  <2>1. SumFunctionOnSet(st, Supporters(pr, vo, w)) = B + VoteShare(pr, vo, a, all, w)
    BY <1>1, CutVotes DEF IsAll
  <2>2. SumFunctionOnSet(st, Supporters(pr, vs, w)) = B + VoteShare(pr, vs, a, all, w)
    BY <1>1, CutVotes DEF IsAll
  <2>3. B \in Int
    <3>1. Supporters(pr, Cleared(vo, a), w) \in SUBSET Accounts
      BY DEF Supporters
    <3> QED
      BY <3>1, SumInteger
  <2>4. t.votes[w] = B + x /\ SumFunctionOnSet(st, Supporters(pr, vs, w)) = B + y
    BY <1>4, <2>1, <2>2 DEF Exact
  <2>5. u.votes[w] = t.votes[w] + y - x
    BY DEF Weighed
  <2>6. x \in Int /\ y \in Int
    BY <1>5
  <2> HIDE DEF B, x, y
  <2> QED
    BY <2>3, <2>4, <2>5, <2>6
<1> QED
  BY <1>6 DEF Exact

\* Nobody has anything: there is nothing to count.
LEMMA SumNothing ==
  ASSUME NEW st, \A b \in Accounts : st[b] = 0, NEW S \in SUBSET Accounts
  PROVE  SumFunctionOnSet(st, S) = 0
<1>1. IsFiniteSet(S)
  BY SubsetFinite
<1>2. {} \in SUBSET S /\ (\A b \in {} : st[b] = st[b] /\ st[b] \in Int) /\ \A b \in S \ {} : st[b] = 0
  OBVIOUS
<1>3. SumFunctionOnSet(st, S) = SumFunctionOnSet(st, {})
  BY <1>1, <1>2, SumRestrict
<1> QED
  BY <1>3, SumEmpty

-----------------------------------------------------------------------------
(***************************************************************************)
(* recalculate_all_votes takes the accounts one by one.                    *)
(***************************************************************************)

\* The accounts, as the fold of apply_hardfork goes through them.
Ids == [a \in Accounts |-> a]

\* One round of its loop.
Recounted(t, x) == adjust_proxied_witness_votes(t, Ids[x], Own(stake[Ids[x]]))

\* The function on the subsets of T by which the fold is defined.
IsRecount(g, base, T) ==
  g = [s \in SUBSET T |-> IF s = {} THEN base ELSE Recounted(g[s \ {First(s)}], First(s))]

\* There is only one such function ...
LEMMA RecountUnique ==
  ASSUME NEW base, NEW T, NEW U, NEW f, NEW g, IsRecount(f, base, T), IsRecount(g, base, U),
         NEW s, s \subseteq T, s \subseteq U, IsFiniteSet(s)
  PROVE  f[s] = g[s]
<1> DEFINE C == {v \in SUBSET s : f[v] # g[v]}
<1> SUFFICES ASSUME C # {} PROVE FALSE
  OBVIOUS
<1>1. \A v \in C : IsFiniteSet(v)
  BY FS_Subset
<1>2. PICK v \in C : \A w \in C : Cardinality(v) <= Cardinality(w)
  BY <1>1, SmallestSet, Zenon
<1>3. v # {}
  BY DEF IsRecount
<1>4. First(v) \in v
  BY <1>3 DEF First
<1>5. v \ {First(v)} \notin C
  BY <1>1, <1>2, <1>4, Smaller
<1>6. f[v \ {First(v)}] = g[v \ {First(v)}]
  BY <1>5
<1>7. /\ f[v] = Recounted(f[v \ {First(v)}], First(v))
      /\ g[v] = Recounted(g[v \ {First(v)}], First(v))
  BY <1>3, Zenon DEF IsRecount
<1> QED
  BY <1>6, <1>7

\* ... and there is one for every finite set.
LEMMA RecountExists ==
  ASSUME NEW base, NEW S, IsFiniteSet(S)
  PROVE  \E g : IsRecount(g, base, S)
<1> DEFINE C == {T \in SUBSET S : ~ \E g : IsRecount(g, base, T)}
<1> SUFFICES ASSUME C # {} PROVE FALSE
  OBVIOUS
<1>1. \A T \in C : IsFiniteSet(T)
  BY FS_Subset
<1>2. PICK T \in C : \A U \in C : Cardinality(T) <= Cardinality(U)
  BY <1>1, SmallestSet, Zenon
<1>3. \A x \in T : \E g : IsRecount(g, base, T \ {x})
  <2> TAKE x \in T
  <2>1. T \ {x} \notin C
    BY <1>1, <1>2, Smaller
  <2> QED
    BY <2>1
<1> DEFINE G(x) == CHOOSE g : IsRecount(g, base, T \ {x})
<1>4. \A x \in T : IsRecount(G(x), base, T \ {x})
  BY <1>3
<1> DEFINE f == [s \in SUBSET T |->
                   IF s = {} THEN base ELSE Recounted(G(First(s))[s \ {First(s)}], First(s))]
<1> HIDE DEF G
<1>5. ASSUME NEW s \in SUBSET T, s # {}
      PROVE  G(First(s))[s \ {First(s)}] = f[s \ {First(s)}]
  <2> DEFINE c == First(s)
             u == s \ {c}
             d == First(u)
  <2>1. c \in T /\ u \subseteq T \ {c}
    BY <1>5 DEF First
  <2> HIDE DEF c
  <2>2. CASE u = {}
    <3>1. f[u] = base
      BY <2>2
    <3>2. G(c)[u] = base
      BY <1>4, <2>1, <2>2, Zenon DEF IsRecount
    <3> QED
      BY <3>1, <3>2 DEF c
  <2>3. CASE u # {}
    <3>1. d \in u
      BY <2>3 DEF First
    <3> HIDE DEF d
    <3>2. G(c)[u] = Recounted(G(c)[u \ {d}], d)
      BY <1>4, <2>1, <2>3, ZenonT(30) DEF IsRecount, d
    <3>3. f[u] = Recounted(G(d)[u \ {d}], d)
      BY <2>1, <2>3 DEF d
    <3>4. IsFiniteSet(u \ {d})
      BY <1>1, <2>1, FS_Subset
    <3>5. IsRecount(G(c), base, T \ {c}) /\ IsRecount(G(d), base, T \ {d})
      BY <1>4, <2>1, <3>1
    <3>6. u \ {d} \subseteq T \ {c} /\ u \ {d} \subseteq T \ {d}
      BY <2>1
    <3>7. G(c)[u \ {d}] = G(d)[u \ {d}]
      BY <3>4, <3>5, <3>6, RecountUnique
    <3> QED
      BY <3>2, <3>3, <3>7 DEF c
  <2> QED
    BY <2>2, <2>3 DEF c
<1>6. f = [s \in SUBSET T |->
             IF s = {} THEN base ELSE Recounted(f[s \ {First(s)}], First(s))]
  BY <1>5, Zenon
<1>7. IsRecount(f, base, T)
  BY <1>6, Zenon DEF IsRecount
<1> QED
  BY <1>7

\* What the accounts of s own.
Part(s) == [b \in Accounts |-> IF b \in s THEN stake[b] ELSE 0]

\* After every round the tallies are exact for the accounts taken so far, if nothing
\* was proxied at the beginning.
LEMMA RecountGood ==
  ASSUME proxy \in Proxies, Ends(proxy), voting \in Ballots, stake \in [Accounts -> Int],
         NEW base \in Tallies, \A w \in Witnesses : base.votes[w] = 0,
         NEW g, IsRecount(g, base, Accounts), NEW S \in SUBSET Accounts
  PROVE  /\ g[S] \in Tallies
         /\ (\A q \in Accounts, i \in Levels : base.proxied[q][i] = 0) =>
              Exact(g[S], Part(S), proxy, voting)
<1> DEFINE Z == \A q \in Accounts, i \in Levels : base.proxied[q][i] = 0
           P(s) == g[s] \in Tallies /\ (Z => Exact(g[s], Part(s), proxy, voting))
           C == {s \in SUBSET Accounts : ~ P(s)}
<1> SUFFICES ASSUME C # {} PROVE FALSE
  OBVIOUS
<1>1. \A s \in C : IsFiniteSet(s)
  BY SubsetFinite
<1>2. PICK s \in C : \A v \in C : Cardinality(s) <= Cardinality(v)
  <2> HIDE DEF C
  <2> QED
    BY <1>1, SmallestSet
<1>0. \A v : Part(v) \in [Accounts -> Int]
  BY DEF Part
<1>3. CASE s = {}
  <2>1. g[s] = base
    BY <1>3 DEF IsRecount
  <2>2. \A b \in Accounts : Part(s)[b] = 0
    BY <1>3 DEF Part
  <2>3. ASSUME Z
        PROVE  Exact(base, Part(s), proxy, voting)
    <3>1. ASSUME NEW q \in Accounts, NEW i \in Levels
          PROVE  base.proxied[q][i] = Below(Part(s), proxy, q, i + 1)
      <4>1. Under(proxy, q, i + 1) \in SUBSET Accounts
        BY DEF Under
      <4> QED
        BY <2>2, <2>3, <4>1, SumNothing DEF Below
    <3>2. ASSUME NEW w \in Witnesses
          PROVE  base.votes[w] = SumFunctionOnSet(Part(s), Supporters(proxy, voting, w))
      <4>1. Supporters(proxy, voting, w) \in SUBSET Accounts
        BY DEF Supporters
      <4> QED
        BY <2>2, <4>1, SumNothing
    <3> QED
      BY <3>1, <3>2 DEF Exact
  <2> HIDE DEF Z
  <2> QED
    BY <1>2, <2>1, <2>3
<1>4. CASE s # {}
  <2> DEFINE x == First(s)
             v == s \ {x}
  <2>1. x \in s
    BY <1>4 DEF First
  <2> HIDE DEF x
  <2>2. v \notin C /\ v \in SUBSET Accounts /\ x \in Accounts
    <3>1. v \notin C
      <4> HIDE DEF C
      <4> QED
        BY <1>1, <1>2, <2>1, Smaller
    <3> QED
      BY <1>2, <2>1, <3>1
  <2>3. g[v] \in Tallies /\ (Z => Exact(g[v], Part(v), proxy, voting))
    <3> HIDE DEF Z
    <3> QED
      BY <2>2
  <2>4. g[s] = adjust_proxied_witness_votes(g[v], x, Own(stake[x]))
    <3>1. g[s] = Recounted(g[v], x)
      BY <1>2, <1>4, Zenon DEF IsRecount, x
    <3>2. Ids[x] = x
      BY <2>2 DEF Ids
    <3> QED
      BY <3>1, <3>2 DEF Recounted
  <2>5. stake[x] \in Int /\ Own(stake[x]) \in Deltas
    BY <2>2, OwnType
  <2>6. Changed(g[s], g[v], proxy, voting, x, Own(stake[x]))
    BY <2>2, <2>3, <2>4, <2>5, AdjustedVotes
  <2>7. g[s] \in Tallies
    BY <2>6 DEF Changed
  <2>8. Part(s) = Paid(Part(v), x, stake[x])
    <3>1. Part(v)[x] = 0 /\ Part(s)[x] = stake[x]
      BY <2>1, <2>2 DEF Part
    <3>2. Paid(Part(v), x, stake[x]) = [b \in Accounts |-> IF b = x THEN 0 + stake[x] ELSE Part(v)[b]]
      BY <2>2, <3>1 DEF Paid, Part
    <3>3. 0 + stake[x] = stake[x]
      BY <2>5
    <3> QED
      BY <2>1, <3>1, <3>2, <3>3 DEF Part
  <2>9. Z => Exact(g[s], Part(s), proxy, voting)
    <3> HIDE DEF Z, v
    <3> QED
      BY <1>0, <2>2, <2>3, <2>5, <2>6, <2>8, StakeChanged
  <2> HIDE DEF Z
  <2> QED
    BY <1>2, <2>7, <2>9
<1> QED
  BY <1>3, <1>4

\* The votes of the witnesses begin at 0 again.
Restart == [tally EXCEPT !.votes = [w \in Witnesses |-> 0]]

\* recalculate_all_votes leaves an exact tally if nothing was proxied before.
LEMMA RecalculatedVotes ==
  ASSUME proxy \in Proxies, Ends(proxy), voting \in Ballots, stake \in [Accounts -> Int],
         tally \in Tallies, apply_hardfork
  PROVE  /\ tally' \in Tallies
         /\ NothingProxied => Exact(tally', stake, proxy, voting)
<1> DEFINE g == CHOOSE f : IsRecount(f, Restart, Accounts)
<1>1. IsRecount(g, Restart, Accounts)
  BY RecountExists, VotesAssumption
<1>2. tally' = g[Accounts]
  BY DEF apply_hardfork, FoldFunction, FoldFunctionOnSet, MapThenFoldSet, IsRecount, Recounted,
         First, Ids, Restart
<1> HIDE DEF g
<1>3. Restart \in Tallies /\ (\A w \in Witnesses : Restart.votes[w] = 0)
        /\ Restart.proxied = tally.proxied
  BY DEF Restart, Tallies
<1>4. Accounts \in SUBSET Accounts
  OBVIOUS
<1>5. Part(Accounts) = stake
  BY DEF Part
<1>6. /\ g[Accounts] \in Tallies
      /\ (\A q \in Accounts, i \in Levels : Restart.proxied[q][i] = 0) =>
           Exact(g[Accounts], Part(Accounts), proxy, voting)
  BY <1>1, <1>3, <1>4, RecountGood
<1> QED
  BY <1>2, <1>3, <1>5, <1>6 DEF NothingProxied

-----------------------------------------------------------------------------
(***************************************************************************)
(* The inductive invariant: every chain of proxies ends, an account with a *)
(* proxy has no votes of its own, and the tallies are exact once they were *)
(* recalculated from nothing.                                              *)
(***************************************************************************)
\* The type of the variables.
VotesType ==
  /\ stake \in [Accounts -> Nat] /\ proxy \in Proxies /\ tally \in Tallies
  /\ voting \in Ballots /\ voted \in [Accounts -> Int]
  /\ has_hardfork \in BOOLEAN /\ fresh \in BOOLEAN

\* witnesses_voted_for is the number of an account's votes, and within the limit.
VotesCounted ==
  \A a \in Accounts : /\ IsFiniteSet(voting[a]) /\ voted[a] = Cardinality(voting[a])
                      /\ voted[a] <= MaxWitnessVotes

\* account_witness_proxy clears the votes of an account, and account_witness_vote refuses
\* those of one with a proxy.
ProxiedDoNotVote == \A a \in Accounts : proxy[a] # NoProxy => voting[a] = {}

\* From the hardfork on, unless something was proxied before it, the tally is exact.
Recount == has_hardfork /\ fresh => Exact(tally, stake, proxy, voting)

\* The inductive invariant: exactness is kept by the differences only along chains that
\* end, and a new proxy takes everything along only if the account itself does not vote.
VotesInv == VotesType /\ VotesCounted /\ Ends(proxy) /\ ProxiedDoNotVote /\ Recount

\* It holds at the beginning, when nobody has a stake that is counted.
LEMMA VotesInvInitially == VotesInit => VotesInv
<1> SUFFICES ASSUME VotesInit PROVE VotesInv
  OBVIOUS
<1>1. VotesType
  <2>1. stake \in [Accounts -> Nat] /\ voted \in [Accounts -> Int]
    BY DEF VotesInit
  <2>2. proxy \in Proxies /\ voting \in Ballots
    BY DEF VotesInit, Proxies, Someone, Ballots
  <2>3. tally \in Tallies
    BY DEF VotesInit, Tallies
  <2> QED
    BY <2>1, <2>2, <2>3, Zenon DEF VotesInit, VotesType
<1>2. VotesCounted
  <2>1. IsFiniteSet({}) /\ Cardinality({}) = 0
    BY FS_EmptySet
  <2> QED
    BY <2>1, VotesAssumption DEF VotesInit, VotesCounted
<1>3. Ends(proxy)
  <2>1. ASSUME NEW a \in Accounts
        PROVE  Hop(proxy, a, 1) = NoProxy
    <3>1. Hop(proxy, a, 0) = a /\ Hop(proxy, a, 0 + 1) = Up(proxy, Hop(proxy, a, 0))
      BY HopStep
    <3> QED
      BY <3>1 DEF VotesInit, Up
  <2> QED
    BY <2>1 DEF Ends
<1> QED
  BY <1>1, <1>2, <1>3 DEF VotesInv, ProxiedDoNotVote, Recount, VotesInit

\* A stake changes by x, and the difference is propagated.
LEMMA StakeStep ==
  ASSUME proxy \in Proxies, Ends(proxy), voting \in Ballots, NEW st \in [Accounts -> Int],
         NEW t \in Tallies, NEW a \in Accounts, NEW x \in Int
  PROVE  /\ adjust_proxied_witness_votes(t, a, Own(x)) \in Tallies
         /\ Exact(t, st, proxy, voting) =>
              Exact(adjust_proxied_witness_votes(t, a, Own(x)), Paid(st, a, x), proxy, voting)
<1> DEFINE u == adjust_proxied_witness_votes(t, a, Own(x))
<1>1. Changed(u, t, proxy, voting, a, Own(x))
  BY OwnType, AdjustedVotes
<1> HIDE DEF u
<1>2. u \in Tallies
  BY <1>1 DEF Changed
<1>3. Exact(t, st, proxy, voting) => Exact(u, Paid(st, a, x), proxy, voting)
  BY <1>1, StakeChanged
<1> QED
  BY <1>2, <1>3 DEF u

\* transfer: stake leaves one account and enters another.
LEMMA TransferKeeps ==
  ASSUME VotesInv, NEW from \in Accounts, NEW to \in Accounts, from # to, transfer(from, to)
  PROVE  VotesInv'
<1> DEFINE taken == Paid(stake, from, -1)
           u == adjust_proxied_witness_votes(tally, from, Own(-1))
<1>0. /\ stake \in [Accounts -> Int] /\ tally \in Tallies /\ voting \in Ballots
      /\ proxy \in Proxies /\ Ends(proxy) /\ -1 \in Int /\ 1 \in Int
  BY DEF VotesInv, VotesType
<1>1. taken \in [Accounts -> Int] /\ stake' = Paid(taken, to, 1) /\ stake' \in [Accounts -> Nat]
  <2>1. stake \in [Accounts -> Nat] /\ stake[from] > 0
    BY DEF VotesInv, VotesType, transfer
  <2>2. stake[from] + (-1) = stake[from] - 1 /\ stake[from] - 1 \in Nat
    BY <2>1
  <2>3. taken = [stake EXCEPT ![from] = @ - 1]
    BY <2>2, Zenon DEF Paid
  <2>4. taken \in [Accounts -> Nat]
    BY <2>1, <2>2, <2>3
  <2>5. stake' = Paid(taken, to, 1)
    BY <2>3, Zenon DEF transfer, Paid
  <2> HIDE DEF taken
  <2> QED
    BY <2>4, <2>5 DEF Paid
<1>2. tally' = adjust_proxied_witness_votes(u, to, Own(1))
  BY DEF transfer
<1>3. u \in Tallies /\ (Exact(tally, stake, proxy, voting) => Exact(u, taken, proxy, voting))
  BY <1>0, StakeStep
<1> HIDE DEF taken, u
<1>4. tally' \in Tallies /\ (Exact(u, taken, proxy, voting) => Exact(tally', stake', proxy, voting))
  BY <1>0, <1>1, <1>2, <1>3, StakeStep, Zenon
<1>5. UNCHANGED <<proxy, voting, voted, has_hardfork, fresh>>
  BY DEF transfer
<1> QED
  BY <1>1, <1>3, <1>4, <1>5 DEF VotesInv, VotesType, VotesCounted, ProxiedDoNotVote, Recount, Ends

\* A reward or interest is paid; the tallies learn of it, or are not exact yet.
LEMMA PaymentKeeps ==
  ASSUME VotesInv, NEW a \in Accounts, create_vesting(a) \/ process_interests(a)
  PROVE  VotesInv'
<1>0. /\ stake \in [Accounts -> Int] /\ tally \in Tallies /\ voting \in Ballots
      /\ proxy \in Proxies /\ Ends(proxy) /\ 1 \in Int
  BY DEF VotesInv, VotesType
<1>1. stake' = Paid(stake, a, 1) /\ stake' \in [Accounts -> Nat]
  BY DEF Paid, create_vesting, process_interests, VotesInv, VotesType
<1>2. \/ tally' = adjust_proxied_witness_votes(tally, a, Own(1))
      \/ tally' = tally /\ ~ has_hardfork
  BY DEF create_vesting, process_interests
<1>3. tally' \in Tallies
        /\ (Exact(tally, stake, proxy, voting) /\ has_hardfork => Exact(tally', stake', proxy, voting))
  BY <1>0, <1>1, <1>2, StakeStep
<1>4. UNCHANGED <<proxy, voting, voted, has_hardfork, fresh>>
  BY DEF create_vesting, process_interests
<1> QED
  BY <1>1, <1>3, <1>4 DEF VotesInv, VotesType, VotesCounted, ProxiedDoNotVote, Recount, Ends

\* apply_hardfork counts everything anew.
LEMMA HardforkKeeps ==
  ASSUME VotesInv, apply_hardfork
  PROVE  VotesInv'
<1>0. /\ stake \in [Accounts -> Int] /\ tally \in Tallies /\ voting \in Ballots
      /\ proxy \in Proxies /\ Ends(proxy)
  BY DEF VotesInv, VotesType
<1>1. tally' \in Tallies /\ (NothingProxied => Exact(tally', stake, proxy, voting))
  BY <1>0, RecalculatedVotes
<1>2. /\ has_hardfork' = TRUE /\ fresh' = NothingProxied
      /\ UNCHANGED <<stake, proxy, voting, voted>>
  BY Zenon DEF apply_hardfork
<1>3. fresh' \in BOOLEAN
  BY <1>2 DEF NothingProxied
<1> QED
  BY <1>1, <1>2, <1>3 DEF VotesInv, VotesType, VotesCounted, ProxiedDoNotVote, Recount, Ends


\* account_witness_proxy: the old chain loses what the account stands for and the new
\* one gains it.
LEMMA ProxyKeeps ==
  ASSUME VotesInv, NEW a \in Accounts, NEW p \in Accounts \cup {NoProxy}, account_witness_proxy(a, p)
  PROVE  VotesInv'
<1> DEFINE all == Everything(a, 1)
           none == Everything(a, -1)
           removed == adjust_proxied_witness_votes(tally, a, none)
           E == Exact(tally, stake, proxy, voting)
<1>0. /\ stake \in [Accounts -> Int] /\ tally \in Tallies /\ voting \in Ballots
      /\ proxy \in Proxies /\ Ends(proxy) /\ ProxiedDoNotVote
  BY DEF VotesInv, VotesType
<1>1. all \in Deltas /\ none \in Deltas /\ Opposite(none, all) /\ (E => IsAll(all, stake, proxy, a))
  BY <1>0, EverythingType, EverythingIs
<1> HIDE DEF all, none
<1>2. Changed(removed, tally, proxy, voting, a, none)
  BY <1>0, <1>1, AdjustedVotes
<1>3. removed \in Tallies
  BY <1>2 DEF Changed
<1> HIDE DEF removed
<1>4. E => Exact(removed, stake, Cut(proxy, a), Cleared(voting, a))
  BY <1>0, <1>1, <1>2, TakenAway
<1>5. Cut(proxy, a) \in Proxies /\ Ends(Cut(proxy, a))
  BY <1>0, CutType, CutEnds
<1>6. UNCHANGED <<stake, has_hardfork, fresh>> /\ proxy' = [proxy EXCEPT ![a] = p] /\ proxy[a] # p
  BY DEF account_witness_proxy
<1>7. CASE p = NoProxy
  <2>1. tally' = removed /\ UNCHANGED <<voting, voted>>
    BY <1>7 DEF account_witness_proxy, removed, none
  <2>2. proxy' = Cut(proxy, a)
    BY <1>6, <1>7 DEF Cut
  <2>3. Cleared(voting, a) = voting
    BY <1>0, <1>6, <1>7 DEF ProxiedDoNotVote, Cleared, Ballots
  <2>4. ProxiedDoNotVote'
    BY <1>0, <2>1, <2>2 DEF ProxiedDoNotVote, Cut, Proxies
  <2>5. Recount' /\ VotesType' /\ VotesCounted' /\ Ends(proxy')
    BY <1>3, <1>4, <1>5, <1>6, <2>1, <2>2, <2>3, Zenon DEF VotesInv, VotesType, VotesCounted, Recount
  <2> QED
    BY <2>4, <2>5 DEF VotesInv, Ends
<1>8. CASE p \in Accounts
  <2> DEFINE first == [removed EXCEPT !.proxied[p] = [i \in Levels |-> @[i] + all[i]]]
             above == [i \in 0 .. MaxProxyDepth |-> IF i = 0 THEN 0 ELSE all[i - 1]]
  <2>0. p # NoProxy
    BY <1>8, VotesAssumption
  <2>1. /\ ProxyAllowed(a, p) /\ tally' = adjust_proxied_witness_votes(first, p, above)
        /\ clear_witness_votes(a)
    BY <2>0 DEF account_witness_proxy, removed, none, all
  <2>2. voting' = Cleared(voting, a) /\ voted' = [voted EXCEPT ![a] = 0]
    BY <2>1 DEF clear_witness_votes, Cleared
  <2>3. ASSUME NEW d \in Nat
        PROVE  Hop(proxy, p, d) # a
    <3>1. CASE Hop(proxy, p, d) \in Accounts
      <4>1. d <= Distance(proxy, p) /\ Distance(proxy, p) \in Nat /\ Cardinality(Accounts) \in Nat
              /\ Distance(proxy, p) < Cardinality(Accounts)
        BY <1>0, <1>8, <3>1, ChainEnds, FS_CardinalityType, VotesAssumption
      <4>2. d \in 0 .. Cardinality(Accounts)
        BY <4>1
      <4>3. d \in Hops(proxy, p)
        BY <3>1, <4>2, VotesAssumption DEF Hops
      <4> QED
        BY <2>1, <4>3 DEF ProxyAllowed
    <3>2. CASE Hop(proxy, p, d) \notin Accounts
      BY <3>2
    <3> QED
      BY <3>1, <3>2
  <2>4. \A i \in Levels : all[i] \in Int
    BY <1>1, VotesAssumption DEF Deltas, Levels
  <2>5. /\ first \in Tallies /\ first.votes = removed.votes
        /\ \A q \in Accounts, i \in Levels :
             first.proxied[q][i] = removed.proxied[q][i] + (IF q = p THEN all[i] ELSE 0)
    <3>0. removed.proxied \in [Accounts -> [Levels -> Int]] /\ removed.votes \in [Witnesses -> Int]
      BY <1>3 DEF Tallies
    <3> DEFINE row == [i \in Levels |-> removed.proxied[p][i] + all[i]]
    <3>1. row \in [Levels -> Int] /\ \A i \in Levels : row[i] = removed.proxied[p][i] + all[i]
      BY <1>8, <2>4, <3>0
    <3>2. first = [removed EXCEPT !.proxied = [removed.proxied EXCEPT ![p] = row]]
      BY <1>3 DEF Tallies
    <3> HIDE DEF row, first
    <3>3. first.proxied = [removed.proxied EXCEPT ![p] = row] /\ first.votes = removed.votes
            /\ first = [proxied |-> first.proxied, votes |-> first.votes]
      BY <1>3, <3>2, Zenon DEF Tallies
    <3>4. first.proxied \in [Accounts -> [Levels -> Int]]
      BY <1>8, <3>0, <3>1, <3>3
    <3>5. ASSUME NEW q \in Accounts, NEW i \in Levels
          PROVE  first.proxied[q][i] = removed.proxied[q][i] + (IF q = p THEN all[i] ELSE 0)
      <4>1. CASE q = p
        BY <3>0, <3>1, <3>3, <4>1
      <4>2. CASE q # p
        <5>1. first.proxied[q] = removed.proxied[q] /\ removed.proxied[q][i] \in Int
          BY <3>0, <3>3, <4>2
        <5> QED
          BY <4>2, <5>1
      <4> QED
        BY <4>1, <4>2
    <3>6. first \in Tallies
      BY <3>0, <3>3, <3>4 DEF Tallies
    <3> QED
      BY <3>3, <3>5, <3>6
  <2>6. above \in Deltas /\ Raised(above, all)
    <3>1. ASSUME NEW i \in 0 .. MaxProxyDepth
          PROVE  above[i] \in Int
      <4>1. i # 0 => i - 1 \in Levels
        BY VotesAssumption DEF Levels
      <4> QED
        BY <2>4, <4>1
    <3>2. ASSUME NEW i \in Levels
          PROVE  above[i + 1] = all[i]
      <4>1. i + 1 \in 0 .. MaxProxyDepth /\ i + 1 # 0 /\ (i + 1) - 1 = i
        BY VotesAssumption DEF Levels
      <4> QED
        BY <4>1
    <3>3. above[0] = 0
      BY VotesAssumption
    <3>4. above \in Deltas
      BY <3>1 DEF Deltas
    <3> HIDE DEF above
    <3> QED
      BY <3>2, <3>3, <3>4 DEF Raised
  <2> HIDE DEF first, above
  <2>7. Changed(tally', first, proxy, voting, p, above)
    BY <1>0, <1>8, <2>1, <2>5, <2>6, AdjustedVotes, Zenon
  <2>8. Changed(tally', removed, Moved(proxy, a, p), Cleared(voting, a), a, all)
    BY <1>0, <1>1, <1>3, <1>8, <2>3, <2>5, <2>6, <2>7, FirstHop, Zenon
  <2>9. proxy' = Moved(proxy, a, p) /\ proxy' \in Proxies /\ Ends(proxy') /\ Cut(proxy', a) = Cut(proxy, a)
    <3>1. proxy' = Moved(proxy, a, p)
      BY <1>6 DEF Moved
    <3>2. Moved(proxy, a, p) \in Proxies /\ Ends(Moved(proxy, a, p))
            /\ Cut(Moved(proxy, a, p), a) = Cut(proxy, a)
      BY <1>0, <1>8, <2>3, MovedChain
    <3> QED
      BY <3>1, <3>2
  <2>10. voting' \in Ballots /\ voting'[a] = {}
    BY <1>0, <2>2, Zenon DEF Cleared, Ballots
  <2>11. E => Exact(tally', stake, proxy', voting')
    <3> SUFFICES ASSUME E PROVE Exact(tally', stake, proxy', voting')
      OBVIOUS
    <3>1. IsAll(all, stake, Cut(proxy', a), a)
      <4>1. \A j \in 0 .. MaxProxyDepth : j \in Nat
        OBVIOUS
      <4> QED
        BY <1>0, <1>1, <2>9, <4>1, CutBelow DEF IsAll, Below
    <3>2. Exact(removed, stake, Cut(proxy', a), voting')
      BY <1>4, <2>2, <2>9
    <3>3. Changed(tally', removed, proxy', voting', a, all)
      BY <2>2, <2>8, <2>9
    <3> QED
      BY <1>0, <1>1, <1>3, <2>9, <2>10, <3>1, <3>2, <3>3, BroughtTo, Zenon
  <2>12. tally' \in Tallies
    BY <2>7 DEF Changed
  <2>13. ProxiedDoNotVote'
    BY <1>0, <2>2, <2>9 DEF ProxiedDoNotVote, Moved, Cleared, Proxies, Ballots
  <2>14. VotesCounted' /\ voted' \in [Accounts -> Int]
    <3>1. IsFiniteSet({}) /\ Cardinality({}) = 0 /\ MaxWitnessVotes \in Nat
      BY FS_EmptySet, VotesAssumption
    <3>2. voted \in [Accounts -> Int] /\ VotesCounted
      BY DEF VotesInv, VotesType
    <3> QED
      BY <1>0, <2>2, <3>1, <3>2 DEF VotesCounted, Cleared, Ballots
  <2>15. Recount' /\ VotesType'
    BY <1>6, <2>9, <2>10, <2>11, <2>12, <2>14 DEF VotesInv, VotesType, Recount
  <2> QED
    BY <2>9, <2>13, <2>14, <2>15 DEF VotesInv, Ends
<1> QED
  BY <1>7, <1>8


\* witness_vote_weight adds up the same levels.
LEMMA WeightIs ==
  ASSUME NEW a \in Accounts, stake \in [Accounts -> Int], tally \in Tallies
  PROVE  /\ witness_vote_weight(a) \in Int
         /\ witness_vote_weight(a) = SumFunctionOnSet(Everything(a, 1), 0 .. MaxProxyDepth)
<1>0. MaxProxyDepth \in Nat /\ Levels = 0 .. MaxProxyDepth - 1
  BY VotesAssumption DEF Levels
<1>1. /\ Everything(a, 1) \in Deltas /\ Everything(a, 1)[0] = stake[a]
      /\ \A i \in 0 .. MaxProxyDepth - 1 : tally.proxied[a][i] = Everything(a, 1)[i + 1]
  BY <1>0, EverythingType
<1>2. \A i \in 0 .. MaxProxyDepth : Everything(a, 1)[i] \in Int
  BY <1>1, Zenon DEF Deltas
<1>3. SumFunctionOnSet(Everything(a, 1), 0 .. MaxProxyDepth)
        = Everything(a, 1)[0] + SumFunctionOnSet(tally.proxied[a], 0 .. MaxProxyDepth - 1)
  BY <1>0, <1>1, <1>2, SumShift, Zenon
<1>4. SumFunctionOnSet(Everything(a, 1), 0 .. MaxProxyDepth) \in Int
  BY <1>0, <1>1, DeltaSum
<1> QED
  BY <1>0, <1>1, <1>3, <1>4 DEF witness_vote_weight

\* account_witness_vote: the whole weight of an account follows its vote.
LEMMA VoteKeeps ==
  ASSUME VotesInv, NEW a \in Accounts, NEW w \in Witnesses, account_witness_vote(a, w)
  PROVE  VotesInv'
<1> DEFINE all == Everything(a, 1)
           W == witness_vote_weight(a)
           E == Exact(tally, stake, proxy, voting)
           cast == w \notin voting[a]
           sum == IF cast THEN tally.votes[w] + W ELSE tally.votes[w] - W
           set == IF cast THEN voting[a] \cup {w} ELSE voting[a] \ {w}
           count == IF cast THEN voted[a] + 1 ELSE voted[a] - 1
<1>0. /\ stake \in [Accounts -> Int] /\ tally \in Tallies /\ voting \in Ballots
      /\ proxy \in Proxies /\ Ends(proxy) /\ voted \in [Accounts -> Int]
      /\ ProxiedDoNotVote /\ VotesCounted
  BY DEF VotesInv, VotesType
<1>1. all \in Deltas /\ (E => IsAll(all, stake, proxy, a))
  BY <1>0, EverythingType, EverythingIs
<1>2. W \in Int /\ W = SumFunctionOnSet(all, 0 .. MaxProxyDepth)
  BY <1>0, WeightIs
<1>3. proxy[a] = NoProxy /\ UNCHANGED <<stake, proxy, has_hardfork, fresh>>
        /\ (cast => voted[a] < MaxWitnessVotes)
  BY DEF account_witness_vote
<1>4. /\ tally' = [tally EXCEPT !.votes[w] = sum]
      /\ voting' = [voting EXCEPT ![a] = set]
      /\ voted' = [voted EXCEPT ![a] = count]
  BY DEF account_witness_vote
<1>5. /\ sum \in Int /\ set \in SUBSET Witnesses /\ count \in Int
  BY <1>0, <1>2 DEF Tallies, Ballots
<1>6. /\ tally'.proxied = tally.proxied /\ tally'.votes = [tally.votes EXCEPT ![w] = sum]
      /\ tally' \in Tallies
  <2> HIDE DEF sum
  <2> QED
    BY <1>0, <1>4, <1>5 DEF Tallies
<1>7. voting' \in Ballots /\ voting'[a] = set /\ \A b \in Accounts \ {a} : voting'[b] = voting[b]
  <2> HIDE DEF set
  <2> QED
    BY <1>0, <1>4, <1>5 DEF Ballots
<1>8. Cleared(voting', a) = Cleared(voting, a)
  <2> HIDE DEF set
  <2> QED
    BY <1>0, <1>4, Zenon DEF Cleared, Ballots
<1>9. Weighed(tally', tally, voting', voting, a, W)
  <2> SUFFICES ASSUME NEW v \in Witnesses
               PROVE  tally'.votes[v] = tally.votes[v] + (IF v \in voting'[a] THEN W ELSE 0)
                                                       - (IF v \in voting[a] THEN W ELSE 0)
    BY DEF Weighed
  <2>0. tally.votes \in [Witnesses -> Int]
    BY <1>0 DEF Tallies
  <2>1. CASE v = w
    <3>1. tally'.votes[v] = sum /\ tally.votes[w] \in Int
      BY <1>6, <2>0, <2>1
    <3> HIDE DEF W
    <3> QED
      BY <1>2, <1>7, <2>1, <3>1
  <2>2. CASE v # w
    <3>1. tally'.votes[v] = tally.votes[v] /\ tally.votes[v] \in Int
      BY <1>6, <2>0, <2>2
    <3>2. v \in voting'[a] <=> v \in voting[a]
      BY <1>7, <2>2, ZenonT(30)
    <3> HIDE DEF W
    <3> QED
      BY <1>2, <3>1, <3>2
  <2> QED
    BY <2>1, <2>2
<1>10. E => Exact(tally', stake, proxy, voting')
  <2> SUFFICES ASSUME E PROVE Exact(tally', stake, proxy, voting')
    OBVIOUS
  <2>1. IsAll(all, stake, proxy, a)
    BY <1>1
  <2> HIDE DEF all, W, sum, set, count, cast
  <2> QED
    BY <1>0, <1>1, <1>2, <1>3, <1>6, <1>7, <1>8, <1>9, <2>1, VotesMoved
<1>11. VotesCounted' /\ voted' \in [Accounts -> Int]
  <2>1. IsFiniteSet(set) /\ count = Cardinality(set) /\ count <= MaxWitnessVotes
    <3>1. IsFiniteSet(voting[a]) /\ voted[a] = Cardinality(voting[a]) /\ voted[a] <= MaxWitnessVotes
            /\ voted[a] \in Int /\ MaxWitnessVotes \in Nat
      BY <1>0, VotesAssumption DEF VotesCounted
    <3>2. CASE cast
      <4>1. IsFiniteSet(voting[a] \cup {w}) /\ Cardinality(voting[a] \cup {w}) = Cardinality(voting[a]) + 1
        BY <3>1, <3>2, FS_AddElement
      <4> QED
        BY <1>3, <3>1, <3>2, <4>1
    <3>3. CASE ~ cast
      <4>1. IsFiniteSet(voting[a] \ {w}) /\ Cardinality(voting[a] \ {w}) = Cardinality(voting[a]) - 1
        BY <3>1, <3>3, FS_RemoveElement
      <4> QED
        BY <3>1, <3>3, <4>1
    <3> QED
      BY <3>2, <3>3
  <2> HIDE DEF set, count
  <2>2. voted' \in [Accounts -> Int] /\ voted'[a] = count /\ \A b \in Accounts \ {a} : voted'[b] = voted[b]
    BY <1>0, <1>4, <1>5
  <2> QED
    BY <1>0, <1>7, <2>1, <2>2 DEF VotesCounted
<1>12. ProxiedDoNotVote'
  BY <1>0, <1>3, <1>7 DEF ProxiedDoNotVote
<1>13. VotesType' /\ Recount' /\ Ends(proxy')
  <2> HIDE DEF E
  <2> QED
    BY <1>3, <1>6, <1>7, <1>10, <1>11 DEF VotesInv, VotesType, Recount, E
<1> QED
  BY <1>11, <1>12, <1>13 DEF VotesInv, Ends

\* Every step keeps the invariant.
LEMMA VotesInvKept == VotesInv /\ [VotesNext]_votes_vars => VotesInv'
<1> SUFFICES ASSUME VotesInv, [VotesNext]_votes_vars PROVE VotesInv'
  OBVIOUS
<1>1. ASSUME NEW a \in Accounts, NEW b \in Accounts, a # b, transfer(a, b)
      PROVE  VotesInv'
  BY <1>1, TransferKeeps
<1>2. ASSUME NEW a \in Accounts, create_vesting(a) \/ process_interests(a)
      PROVE  VotesInv'
  BY <1>2, PaymentKeeps
<1>3. ASSUME NEW a \in Accounts, NEW p \in Targets \cup {NoProxy}, account_witness_proxy(a, p)
      PROVE  VotesInv'
  BY <1>3, ProxyKeeps, VotesAssumption
<1>4. ASSUME NEW a \in Accounts, NEW w \in Witnesses, account_witness_vote(a, w)
      PROVE  VotesInv'
  BY <1>4, VoteKeeps
<1>5. CASE apply_hardfork
  BY <1>5, HardforkKeeps
<1>6. CASE UNCHANGED votes_vars
  BY <1>6 DEF votes_vars, VotesInv, VotesType, VotesCounted, ProxiedDoNotVote, Recount, Ends
<1> QED
  BY <1>1, <1>2, <1>3, <1>4, <1>5, <1>6 DEF VotesNext

\* It always holds.
LEMMA AlwaysVotesInv == VotesSpec => []VotesInv
BY VotesInvInitially, VotesInvKept, PTL DEF VotesSpec

\* Whatever proxies are chosen and given up, no chain of proxies closes to a loop: the
\* account at its end is fewer hops away than there are accounts, and the recursion of
\* adjust_proxied_witness_votes and the loop of the evaluator end.
THEOREM AlwaysNoProxyLoop == VotesSpec => []NoProxyLoop
<1>1. VotesInv => NoProxyLoop
  BY ChainEnds DEF VotesInv, VotesType, NoProxyLoop
<1> QED
  BY <1>1, AlwaysVotesInv, PTL

\* Once recalculate_all_votes has counted from nothing, the differences that
\* adjust_proxied_witness_votes propagates keep proxied_vsf_votes exactly what a
\* recount would give, for chains of any length and any recursion depth.
THEOREM AlwaysProxiedExact == VotesSpec => []ProxiedExact
<1>1. VotesInv => ProxiedExact
  BY DEF VotesInv, Recount, Exact, Below, Under, ProxiedExact
<1> QED
  BY <1>1, AlwaysVotesInv, PTL

\* And so do they keep the votes of every witness.
THEOREM AlwaysVotesExact == VotesSpec => []VotesExact
<1>1. VotesInv => VotesExact
  BY DEF VotesInv, Recount, Exact, Supporters, VotesExact
<1> QED
  BY <1>1, AlwaysVotesInv, PTL

\* witnesses_voted_for is exactly the number of an account's witness_vote_objects and
\* never exceeds the limit, and an account with a proxy has none.
THEOREM AlwaysCounted == VotesSpec => [](VotesCounted /\ ProxiedDoNotVote)
BY AlwaysVotesInv, PTL DEF VotesInv

\* The assertion of validate_invariants that fails in general: no witness has more votes
\* than there are coins, once recalculate_all_votes has counted from nothing.
THEOREM AlwaysWithinSupply ==
  VotesSpec => [](has_hardfork /\ fresh => VotesWithinSupply)
<1>1. ASSUME VotesInv, has_hardfork, fresh, NEW w \in Witnesses
      PROVE  tally.votes[w] <= Supply
  <2> DEFINE S == Supporters(proxy, voting, w)
             T == Accounts \ S
  <2>1. S \in SUBSET Accounts /\ T \in SUBSET Accounts /\ S \cap T = {} /\ S \cup T = Accounts
    BY DEF Supporters
  <2>2. tally.votes[w] = SumFunctionOnSet(stake, S)
    BY <1>1 DEF VotesInv, Recount, Exact
  <2> HIDE DEF S, T
  <2>3. IsFiniteSet(S) /\ IsFiniteSet(T) /\ \A b \in Accounts : stake[b] \in Nat /\ stake[b] \in Int
    BY <1>1, <2>1, SubsetFinite DEF VotesInv, VotesType
  <2>4. SumFunctionOnSet(stake, S \cup T) = SumFunctionOnSet(stake, S) + SumFunctionOnSet(stake, T)
    BY <2>1, <2>3, SumUnion
  <2>5. SumFunctionOnSet(stake, S) \in Nat /\ SumFunctionOnSet(stake, T) \in Nat
    BY <2>1, <2>3, SumType
  <2>6. Supply = SumFunctionOnSet(stake, S \cup T)
    BY <2>1 DEF Supply
  <2> QED
    BY <2>2, <2>4, <2>5, <2>6
<1>2. VotesInv => (has_hardfork /\ fresh => VotesWithinSupply)
  BY <1>1 DEF VotesWithinSupply
<1> QED
  BY <1>2, AlwaysVotesInv, PTL
============================================================================
