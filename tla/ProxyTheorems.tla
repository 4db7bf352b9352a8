--------------------------- MODULE ProxyTheorems ----------------------------
(***************************************************************************)
(* Chains of proxies and what is counted along them, for any number of     *)
(* accounts, witnesses and levels: a chain that loses or gains a link      *)
(* loses or gains exactly what the account there stands for.  Proxies,     *)
(* votes, stakes and tallies are parameters here; VotesProofs applies the  *)
(* lemmas to the variables before and after a step.                        *)
(***************************************************************************)
EXTENDS WitnessVotes, SumTheorems, FiniteSetTheorems, TLAPS

\* The steps late in a module of this size need more than the default time.
USE SMTT(30), ZenonT(30), SMTT(60)

-----------------------------------------------------------------------------
\* What was added to a rest and is taken away again leaves the rest.
LEMMA RestIsLeft ==
  ASSUME NEW rest \in Int, NEW part \in Int
  PROVE  (rest + part) + (0 - part) = rest
OBVIOUS

-----------------------------------------------------------------------------
\* Chains.

\* Who may be at a place of a chain: an account, or nobody once it has ended.
Someone == Accounts \cup {NoProxy}

\* The proxies that accounts can have set.
Proxies == [Accounts -> Someone]

\* The next account on a chain of proxies.
Up(pr, x) == IF x = NoProxy THEN NoProxy ELSE pr[x]

\* f is the beginning of a's chain of proxies, up to d hops from a.
IsChain(f, pr, a, d) == f = [k \in 0 .. d |-> IF k = 0 THEN a ELSE Up(pr, f[k - 1])]

\* A chain can be followed for any number of hops.
LEMMA ChainExists ==
  ASSUME NEW pr, NEW a, NEW N \in Nat
  PROVE  \E f : IsChain(f, pr, a, N)
<1> DEFINE C == {n \in Nat : ~ \E f : IsChain(f, pr, a, n)}
<1> SUFFICES ASSUME C # {} PROVE FALSE
  OBVIOUS
<1>1. PICK n \in C : \A m \in C : n <= m
  BY LeastNumber, Zenon
<1>2. CASE n = 0
  <2> DEFINE f == [k \in 0 .. 0 |-> a]
  <2>1. IsChain(f, pr, a, 0)
    BY DEF IsChain
  <2> QED
    BY <1>2, <2>1
<1>3. CASE n # 0
  <2>1. n - 1 \in Nat /\ n - 1 \notin C
    BY <1>1, <1>3
  <2>2. PICK f : IsChain(f, pr, a, n - 1)
    BY <2>1
  <2> DEFINE g == [k \in 0 .. n |-> IF k = n THEN Up(pr, f[n - 1]) ELSE f[k]]
             u(k) == IF k = n THEN Up(pr, f[n - 1]) ELSE f[k]
             v(k) == IF k = 0 THEN a ELSE Up(pr, g[k - 1])
  <2>3. ASSUME NEW k \in 0 .. n
        PROVE  u(k) = v(k)
    <3>1. CASE k = n
      <4>1. g[n - 1] = f[n - 1]
        BY <2>1
      <4> QED
        BY <1>3, <3>1, <4>1
    <3>2. CASE k # n
      <4>1. k \in 0 .. n - 1
        BY <2>1, <3>2
      <4>2. f[k] = IF k = 0 THEN a ELSE Up(pr, f[k - 1])
        BY <2>2, <4>1 DEF IsChain
      <4>3. k # 0 => g[k - 1] = f[k - 1]
        BY <2>1, <4>1
      <4> QED
        BY <3>2, <4>2, <4>3
    <3> QED
      BY <3>1, <3>2
  <2>4. g = [k \in 0 .. n |-> v(k)]
    BY <2>3, Zenon
  <2>5. IsChain(g, pr, a, n)
    BY <2>4 DEF IsChain
  <2> QED
    BY <2>5
<1> QED
  BY <1>2, <1>3

\* Two chains from the same account agree as far as both go.
LEMMA ChainUnique ==
  ASSUME NEW pr, NEW a, NEW m \in Nat, NEW n \in Nat, m <= n,
         NEW f, IsChain(f, pr, a, m), NEW g, IsChain(g, pr, a, n)
  PROVE  f[m] = g[m]
<1> DEFINE C == {k \in 0 .. m : f[k] # g[k]}
<1> SUFFICES ASSUME C # {} PROVE FALSE
  OBVIOUS
<1>0. C \in SUBSET Nat
  OBVIOUS
<1>1. PICK k \in C : \A j \in C : k <= j
  <2> HIDE DEF C
  <2> QED
    BY <1>0, LeastNumber
<1>2. /\ f[k] = IF k = 0 THEN a ELSE Up(pr, f[k - 1])
      /\ g[k] = IF k = 0 THEN a ELSE Up(pr, g[k - 1])
  <2>1. k \in 0 .. m /\ k \in 0 .. n
    BY <1>1
  <2> QED
    BY <2>1 DEF IsChain
<1>3. k # 0 => k - 1 \in 0 .. m /\ k - 1 \notin C
  BY <1>1
<1>4. k # 0 => f[k - 1] = g[k - 1]
  BY <1>3
<1> QED
  BY <1>1, <1>2, <1>4

\* The hops of a chain, one by one.
LEMMA HopStep ==
  ASSUME NEW pr, NEW a
  PROVE  /\ Hop(pr, a, 0) = a
         /\ \A d \in Nat : Hop(pr, a, d + 1) = Up(pr, Hop(pr, a, d))
<1> DEFINE f(d) == CHOOSE g : IsChain(g, pr, a, d)
<1>1. \A d \in Nat : IsChain(f(d), pr, a, d)
  BY ChainExists, Zenon
<1>2. \A d : Hop(pr, a, d) = f(d)[d]
  BY DEF Hop, IsChain, Up
<1> HIDE DEF f
<1>3. Hop(pr, a, 0) = a
  BY <1>1, <1>2 DEF IsChain
<1>4. ASSUME NEW d \in Nat
      PROVE  Hop(pr, a, d + 1) = Up(pr, Hop(pr, a, d))
  <2>1. IsChain(f(d), pr, a, d) /\ IsChain(f(d + 1), pr, a, d + 1)
    BY <1>1
  <2>2. f(d)[d] = f(d + 1)[d]
    BY <2>1, ChainUnique
  <2>3. f(d + 1)[d + 1] = Up(pr, f(d + 1)[d])
    BY <2>1 DEF IsChain
  <2> QED
    BY <1>2, <2>2, <2>3
<1> QED
  BY <1>3, <1>4

\* The same, counted from the hop before.
LEMMA HopBefore ==
  ASSUME NEW pr, NEW a, NEW d \in Nat \ {0}
  PROVE  Hop(pr, a, d) = Up(pr, Hop(pr, a, d - 1))
<1>1. PICK e \in Nat : d = e + 1 /\ d - 1 = e
  <2>1. d - 1 \in Nat /\ d = (d - 1) + 1
    OBVIOUS
  <2> QED
    BY <2>1
<1>2. Hop(pr, a, e + 1) = Up(pr, Hop(pr, a, e))
  BY HopStep, ZenonT(30)
<1> QED
  BY <1>1, <1>2, ZenonT(30)

\* A hop leads to an account or beyond the end of the chain.
LEMMA HopType ==
  ASSUME NEW pr \in Proxies, NEW a \in Someone, NEW d \in Nat
  PROVE  Hop(pr, a, d) \in Someone
<1> DEFINE C == {n \in Nat : Hop(pr, a, n) \notin Someone}
<1> SUFFICES ASSUME C # {} PROVE FALSE
  OBVIOUS
<1>1. PICK n \in C : \A m \in C : n <= m
  BY LeastNumber, Zenon
<1>2. n # 0
  BY HopStep
<1>3. n - 1 \in Nat /\ n - 1 \notin C
  BY <1>1, <1>2
<1>4. Hop(pr, a, n) = Up(pr, Hop(pr, a, n - 1))
  BY <1>2, HopBefore
<1> QED
  BY <1>3, <1>4 DEF Up, Proxies, Someone

\* To go d hops and then e hops is to go d + e hops.
LEMMA HopAdd ==
  ASSUME NEW pr, NEW a, NEW d \in Nat, NEW e \in Nat
  PROVE  Hop(pr, a, d + e) = Hop(pr, Hop(pr, a, d), e)
<1> DEFINE C == {n \in Nat : Hop(pr, a, d + n) # Hop(pr, Hop(pr, a, d), n)}
<1> SUFFICES ASSUME C # {} PROVE FALSE
  OBVIOUS
<1>1. PICK n \in C : \A m \in C : n <= m
  BY LeastNumber, Zenon
<1>2. n # 0
  BY HopStep
<1>3. n - 1 \in Nat /\ n - 1 \notin C
  BY <1>1, <1>2
<1>4. Hop(pr, Hop(pr, a, d), n) = Up(pr, Hop(pr, Hop(pr, a, d), n - 1))
  BY <1>2, HopBefore
<1>5. Hop(pr, a, d + n) = Up(pr, Hop(pr, a, d + (n - 1)))
  <2>1. d + n \in Nat \ {0} /\ (d + n) - 1 = d + (n - 1)
    BY <1>2, <1>3
  <2>2. Hop(pr, a, d + n) = Up(pr, Hop(pr, a, (d + n) - 1))
    BY <2>1, HopBefore
  <2> QED
    BY <2>1, <2>2
<1> QED
  BY <1>1, <1>3, <1>4, <1>5

\* Beyond the end of a chain there is nothing.
LEMMA NoHop ==
  ASSUME NEW pr, NEW e \in Nat
  PROVE  Hop(pr, NoProxy, e) = NoProxy
<1> DEFINE C == {n \in Nat : Hop(pr, NoProxy, n) # NoProxy}
<1> SUFFICES ASSUME C # {} PROVE FALSE
  OBVIOUS
<1>1. PICK n \in C : \A m \in C : n <= m
  BY LeastNumber, Zenon
<1>2. n # 0
  BY HopStep
<1>3. n - 1 \in Nat /\ n - 1 \notin C
  BY <1>1, <1>2
<1>4. Hop(pr, NoProxy, n) = Up(pr, Hop(pr, NoProxy, n - 1))
  BY <1>2, HopBefore
<1> QED
  BY <1>3, <1>4 DEF Up

\* A chain that has ended stays so.
LEMMA Beyond ==
  ASSUME NEW pr, NEW a, NEW d \in Nat, NEW e \in Nat, d <= e, Hop(pr, a, d) = NoProxy
  PROVE  Hop(pr, a, e) = NoProxy
<1>1. e - d \in Nat /\ e = d + (e - d)
  OBVIOUS
<1>2. Hop(pr, a, e) = Hop(pr, Hop(pr, a, d), e - d)
  BY <1>1, HopAdd
<1> QED
  BY <1>1, <1>2, NoHop

\* Every chain of proxies comes to an end.
Ends(pr) == \A a \in Accounts : \E d \in Nat : Hop(pr, a, d) = NoProxy

\* No account appears twice on a chain that ends.
LEMMA HopsApart ==
  ASSUME NEW pr \in Proxies, Ends(pr), NEW a \in Accounts, NEW d \in Nat, NEW e \in Nat,
         Hop(pr, a, d) \in Accounts, Hop(pr, a, d) = Hop(pr, a, e)
  PROVE  d = e
<1>1. ASSUME NEW m \in Nat, NEW n \in Nat, m < n,
             Hop(pr, a, m) \in Accounts, Hop(pr, a, m) = Hop(pr, a, n)
      PROVE  FALSE
  <2> DEFINE x == Hop(pr, a, m)
             C == {k \in Nat : Hop(pr, x, k) = NoProxy}
  <2>1. PICK c \in Nat : n = m + c /\ c > 0
    <3>1. n - m \in Nat /\ n = m + (n - m) /\ n - m > 0
      BY <1>1
    <3> QED
      BY <3>1
  <2>2. Hop(pr, x, c) = x
    BY <1>1, <2>1, HopAdd
  <2>3. x \in Accounts
    BY <1>1
  <2> HIDE DEF x
  <2>4. C # {}
    BY <2>3 DEF Ends
  <2>5. PICK k \in C : \A j \in C : k <= j
    BY <2>4, LeastNumber, Zenon
  <2>6. c <= k
    BY <2>2, <2>3, <2>5, Beyond, VotesAssumption
  <2>7. PICK j \in Nat : k = c + j
    <3>1. k - c \in Nat /\ k = c + (k - c)
      BY <2>6
    <3> QED
      BY <3>1
  <2>8. Hop(pr, x, k) = Hop(pr, x, j)
    BY <2>2, <2>7, HopAdd
  <2>9. j \in C
    BY <2>5, <2>8
  <2> QED
    BY <2>1, <2>5, <2>7, <2>9
<1> QED
  BY <1>1

\* The distance of an account to the end of its chain is where the chain ends.
LEMMA ChainEnds ==
  ASSUME NEW pr \in Proxies, Ends(pr), NEW a \in Accounts
  PROVE  /\ Distance(pr, a) \in Nat
         /\ Distance(pr, a) < Cardinality(Accounts)
         /\ \A d \in Nat : Hop(pr, a, d) \in Accounts <=> d <= Distance(pr, a)
<1> DEFINE C == {k \in Nat : Hop(pr, a, k) = NoProxy}
<1>1. C # {}
  BY DEF Ends
<1>2. PICK m \in C : \A j \in C : m <= j
  BY <1>1, LeastNumber, Zenon
<1>3. m # 0
  BY <1>2, HopStep, VotesAssumption
<1>4. PICK D \in Nat : m = D + 1
  <2>1. m - 1 \in Nat /\ m = (m - 1) + 1
    BY <1>3
  <2> QED
    BY <2>1
<1>5. \A d \in Nat : Hop(pr, a, d) # NoProxy <=> d <= D
  <2> TAKE d \in Nat
  <2>1. CASE d <= D
    BY <1>2, <1>4, <2>1
  <2>2. CASE ~ (d <= D)
    <3>1. m <= d
      BY <1>4, <2>2
    <3> QED
      BY <1>2, <2>2, <3>1, Beyond
  <2> QED
    BY <2>1, <2>2
<1>6. \A d \in Nat : Hop(pr, a, d) # NoProxy <=> Hop(pr, a, d) \in Accounts
  BY HopType, VotesAssumption DEF Someone
<1> DEFINE f == [d \in 0 .. D |-> Hop(pr, a, d)]
<1>7. f \in Injection(0 .. D, Accounts)
  <2>1. f \in [0 .. D -> Accounts]
    BY <1>5, <1>6
  <2>2. ASSUME NEW d \in 0 .. D, NEW e \in 0 .. D, f[d] = f[e]
        PROVE  d = e
    BY <1>5, <1>6, <2>2, HopsApart
  <2> HIDE DEF f
  <2> QED
    BY <2>1, <2>2, Zenon DEF Injection, IsInjective
<1>8. D + 1 <= Cardinality(Accounts)
  <2>1. Cardinality(0 .. D) = D + 1
    <3>1. Cardinality(0 .. D) = IF 0 > D THEN 0 ELSE D - 0 + 1
      BY FS_Interval
    <3> QED
      BY <3>1
  <2>2. Cardinality(0 .. D) <= Cardinality(Accounts)
    <3> HIDE DEF f
    <3> QED
      BY <1>7, FS_Injection, VotesAssumption
  <2> QED
    BY <2>1, <2>2
<1>9. Distance(pr, a) = D
  <2>0. Cardinality(Accounts) \in Nat
    BY FS_CardinalityType, VotesAssumption
  <2>1. Hops(pr, a) = 0 .. D
    BY <1>5, <1>8, <2>0 DEF Hops
  <2>2. Cardinality(0 .. D) = IF 0 > D THEN 0 ELSE D - 0 + 1
    BY FS_Interval
  <2> QED
    BY <2>1, <2>2 DEF Distance
<1>10. Cardinality(Accounts) \in Nat
  BY FS_CardinalityType, VotesAssumption
<1> QED
  BY <1>5, <1>6, <1>8, <1>9, <1>10

\* Two chains of the same length have the same distance.
LEMMA DistanceIs ==
  ASSUME NEW pr \in Proxies, Ends(pr), NEW a \in Accounts, NEW D \in Nat,
         Hop(pr, a, D) \in Accounts, Hop(pr, a, D + 1) = NoProxy
  PROVE  Distance(pr, a) = D /\ Root(pr, a) = Hop(pr, a, D)
<1>1. D <= Distance(pr, a) /\ ~ (D + 1 <= Distance(pr, a)) /\ Distance(pr, a) \in Nat
  BY ChainEnds, VotesAssumption
<1> QED
  BY <1>1 DEF Root

\* What the account at the end of a chain is.
LEMMA RootIs ==
  ASSUME NEW pr \in Proxies, Ends(pr), NEW a \in Accounts
  PROVE  /\ Root(pr, a) \in Accounts
         /\ Hop(pr, a, Distance(pr, a)) = Root(pr, a)
         /\ Hop(pr, a, Distance(pr, a) + 1) = NoProxy
<1>1. Distance(pr, a) \in Nat /\ Distance(pr, a) + 1 \in Nat
  BY ChainEnds
<1>2. Hop(pr, a, Distance(pr, a) + 1) \in Someone
  BY <1>1, HopType DEF Someone
<1> QED
  BY <1>1, <1>2, ChainEnds DEF Root, Someone

-----------------------------------------------------------------------------
\* A chain that does not come by an account is the same whatever that account's proxy.
LEMMA SameHops ==
  ASSUME NEW pr \in Proxies, NEW ps \in Proxies, NEW a,
         \A x \in Accounts \ {a} : ps[x] = pr[x],
         NEW x \in Someone, NEW d \in Nat, \A k \in 0 .. d - 1 : Hop(pr, x, k) # a
  PROVE  Hop(ps, x, d) = Hop(pr, x, d)
<1> DEFINE C == {n \in 0 .. d : Hop(ps, x, n) # Hop(pr, x, n)}
<1> SUFFICES ASSUME C # {} PROVE FALSE
  OBVIOUS
<1>0. C \in SUBSET Nat
  OBVIOUS
<1>1. PICK n \in C : \A m \in C : n <= m
  <2> HIDE DEF C
  <2> QED
    BY <1>0, LeastNumber
<1>2. n # 0
  BY <1>1, HopStep
<1>3. n \in Nat \ {0} /\ n - 1 \in 0 .. d - 1 /\ n - 1 \notin C
  BY <1>1, <1>2
<1>4. Hop(ps, x, n) = Up(ps, Hop(ps, x, n - 1)) /\ Hop(pr, x, n) = Up(pr, Hop(pr, x, n - 1))
  BY <1>3, HopBefore
<1>5. Hop(ps, x, n - 1) = Hop(pr, x, n - 1) /\ Hop(pr, x, n - 1) # a
  BY <1>3
<1>6. Hop(pr, x, n - 1) \in Someone
  BY <1>3, HopType
<1>7. Hop(ps, x, n) = Hop(pr, x, n)
  BY <1>4, <1>5, <1>6 DEF Up, Someone
<1> QED
  BY <1>1, <1>7

\* The proxies without a's.
Cut(pr, a) == [pr EXCEPT ![a] = NoProxy]

\* Only the proxy of a changes.
LEMMA CutType ==
  ASSUME NEW pr \in Proxies, NEW a \in Accounts
  PROVE  /\ Cut(pr, a) \in Proxies
         /\ Cut(pr, a)[a] = NoProxy
         /\ \A x \in Accounts \ {a} : Cut(pr, a)[x] = pr[x]
BY DEF Cut, Proxies, Someone

\* A chain that does not come by a stays when a loses its proxy; one that does ends at a.
LEMMA CutHops ==
  ASSUME NEW pr \in Proxies, Ends(pr), NEW a \in Accounts, NEW x \in Accounts
  PROVE  /\ (\A k \in Nat : Hop(pr, x, k) # a) =>
              \A d \in Nat : Hop(Cut(pr, a), x, d) = Hop(pr, x, d)
         /\ \A k \in Nat : Hop(pr, x, k) = a =>
              /\ \A d \in 0 .. k : Hop(Cut(pr, a), x, d) = Hop(pr, x, d)
              /\ \A d \in Nat : d > k => Hop(Cut(pr, a), x, d) = NoProxy
<1> DEFINE ps == Cut(pr, a)
<1>0. ps \in Proxies /\ ps[a] = NoProxy /\ \A y \in Accounts \ {a} : ps[y] = pr[y]
  BY CutType
<1> HIDE DEF ps
<1>1. x \in Someone
  BY DEF Someone
<1>2. ASSUME \A k \in Nat : Hop(pr, x, k) # a, NEW d \in Nat
      PROVE  Hop(ps, x, d) = Hop(pr, x, d)
  BY <1>0, <1>1, <1>2, SameHops
<1>3. ASSUME NEW k \in Nat, Hop(pr, x, k) = a, NEW d \in 0 .. k
      PROVE  Hop(ps, x, d) = Hop(pr, x, d)
  <2>1. ASSUME NEW j \in 0 .. d - 1, Hop(pr, x, j) = a
        PROVE  FALSE
    <3>1. j \in Nat /\ j # k
      BY <1>3
    <3> QED
      BY <1>3, <2>1, <3>1, HopsApart
  <2>2. d \in Nat /\ \A j \in 0 .. d - 1 : Hop(pr, x, j) # a
    BY <2>1
  <2> QED
    BY <1>0, <1>1, <2>2, SameHops
<1>4. ASSUME NEW k \in Nat, Hop(pr, x, k) = a, NEW d \in Nat, d > k
      PROVE  Hop(ps, x, d) = NoProxy
  <2>1. Hop(ps, x, k) = a
    BY <1>3, <1>4
  <2>2. Hop(ps, x, k + 1) = NoProxy
    <3>1. Hop(ps, x, k + 1) = Up(ps, Hop(ps, x, k))
      BY HopStep, Zenon
    <3> QED
      BY <1>0, <2>1, <3>1 DEF Up
  <2>3. k + 1 \in Nat /\ k + 1 <= d
    BY <1>4
  <2> QED
    BY <2>2, <2>3, Beyond
<1> QED
  BY <1>2, <1>3, <1>4 DEF ps

\* It leaves chains that end.
LEMMA CutEnds ==
  ASSUME NEW pr \in Proxies, Ends(pr), NEW a \in Accounts
  PROVE  Ends(Cut(pr, a))
<1> SUFFICES ASSUME NEW x \in Accounts PROVE \E d \in Nat : Hop(Cut(pr, a), x, d) = NoProxy
  BY DEF Ends
<1>1. CASE \E k \in Nat : Hop(pr, x, k) = a
  <2>1. PICK k \in Nat : Hop(pr, x, k) = a
    BY <1>1
  <2>2. k + 1 \in Nat /\ k + 1 > k
    OBVIOUS
  <2> QED
    BY <2>1, <2>2, CutHops
<1>2. CASE \A k \in Nat : Hop(pr, x, k) # a
  BY <1>2, CutHops DEF Ends
<1> QED
  BY <1>1, <1>2

\* A new proxy whose chain does not come by the account closes no loop, and its
\* own chain is not touched.
LEMMA ExtendEnds ==
  ASSUME NEW pr \in Proxies, Ends(pr), NEW a \in Accounts, NEW p \in Accounts,
         \A d \in Nat : Hop(pr, p, d) # a
  PROVE  /\ [pr EXCEPT ![a] = p] \in Proxies
         /\ \A d \in Nat : Hop([pr EXCEPT ![a] = p], p, d) = Hop(pr, p, d)
         /\ \A d \in Nat : Hop([pr EXCEPT ![a] = p], a, d + 1) = Hop(pr, p, d)
         /\ Ends([pr EXCEPT ![a] = p])
<1> DEFINE ps == [pr EXCEPT ![a] = p]
<1>0. ps \in Proxies /\ ps[a] = p /\ \A y \in Accounts \ {a} : ps[y] = pr[y]
  BY DEF Proxies, Someone
<1> HIDE DEF ps
<1>1. p \in Someone /\ a # NoProxy
  BY VotesAssumption DEF Someone
<1>2. \A d \in Nat : Hop(ps, p, d) = Hop(pr, p, d)
  BY <1>0, <1>1, SameHops
<1>3. ASSUME NEW x \in Accounts, NEW k \in Nat, Hop(ps, x, k) = a, NEW d \in Nat
      PROVE  Hop(ps, x, k + 1 + d) = Hop(pr, p, d)
  <2>1. Hop(ps, x, k + 1) = p
    BY <1>0, <1>1, <1>3, HopStep DEF Up
  <2>2. k + 1 \in Nat
    OBVIOUS
  <2>3. Hop(ps, x, k + 1 + d) = Hop(ps, Hop(ps, x, k + 1), d)
    BY <2>2, HopAdd
  <2> QED
    BY <1>2, <2>1, <2>3
<1>4. \A d \in Nat : Hop(ps, a, d + 1) = Hop(pr, p, d)
  <2> TAKE d \in Nat
  <2>1. Hop(ps, a, 0) = a /\ 0 + 1 + d = d + 1
    BY HopStep
  <2>2. Hop(ps, a, 0 + 1 + d) = Hop(pr, p, d)
    BY <1>3, <2>1
  <2> QED
    BY <2>1, <2>2
<1>5. ASSUME NEW x \in Accounts
      PROVE  \E d \in Nat : Hop(ps, x, d) = NoProxy
  <2>0. x \in Someone
    BY DEF Someone
  <2>1. CASE \A k \in Nat : Hop(pr, x, k) # a
    <3>1. \A d \in Nat : Hop(ps, x, d) = Hop(pr, x, d)
      BY <1>0, <2>0, <2>1, SameHops
    <3> QED
      BY <3>1 DEF Ends
  <2>2. CASE \E k \in Nat : Hop(pr, x, k) = a
    <3>1. PICK k \in Nat : Hop(pr, x, k) = a
      BY <2>2
    <3>2. \A j \in 0 .. k - 1 : Hop(pr, x, j) # a
      <4>1. ASSUME NEW j \in 0 .. k - 1, Hop(pr, x, j) = a
            PROVE  FALSE
        <5>1. j \in Nat /\ j # k
          OBVIOUS
        <5> QED
          BY <3>1, <4>1, <5>1, HopsApart
      <4> QED
        BY <4>1
    <3>3. Hop(ps, x, k) = a
      BY <1>0, <2>0, <3>1, <3>2, SameHops
    <3>4. PICK e \in Nat : Hop(pr, p, e) = NoProxy
      BY DEF Ends
    <3>5. Hop(ps, x, k + 1 + e) = NoProxy /\ k + 1 + e \in Nat
      BY <1>3, <3>3, <3>4
    <3> QED
      BY <3>5
  <2> QED
    BY <2>1, <2>2
<1> QED
  BY <1>0, <1>2, <1>4, <1>5, Zenon DEF ps, Ends

-----------------------------------------------------------------------------
\* Whose chain comes to x in j hops, and what they own.
Under(pr, x, j) == {b \in Accounts : Hop(pr, b, j) = x}

\* Their stake.
Below(st, pr, x, j) == SumFunctionOnSet(st, Under(pr, x, j))

\* The change on level i of account q when delta travels up a's chain.
Share(pr, a, delta, q, i) ==
  IF \E d \in 1 .. i + 1 : Hop(pr, a, d) = q
  THEN delta[i + 1 - (CHOOSE d \in 1 .. i + 1 : Hop(pr, a, d) = q)] ELSE 0

\* The share, when the distance of q is known.
LEMMA ShareIs ==
  ASSUME NEW pr \in Proxies, Ends(pr), NEW a \in Accounts, NEW q \in Accounts,
         NEW i \in Nat, NEW delta, NEW d \in 1 .. i + 1, Hop(pr, a, d) = q
  PROVE  Share(pr, a, delta, q, i) = delta[i + 1 - d]
<1> DEFINE e == CHOOSE d_1 \in 1 .. i + 1 : Hop(pr, a, d_1) = q
<1>1. e \in 1 .. i + 1 /\ Hop(pr, a, e) = q
  OBVIOUS
<1>2. Share(pr, a, delta, q, i) = delta[i + 1 - e]
  BY DEF Share
<1> HIDE DEF e
<1>3. e = d
  <2>1. e \in Nat /\ d \in Nat
    BY <1>1
  <2> QED
    BY <1>1, <2>1, HopsApart
<1> QED
  BY <1>2, <1>3

\* Every set of accounts is finite.
LEMMA SubsetFinite ==
  ASSUME NEW S \in SUBSET Accounts
  PROVE  IsFiniteSet(S)
BY FS_Subset, VotesAssumption

\* The stake of a set of accounts is a number.
LEMMA SumInteger ==
  ASSUME NEW S \in SUBSET Accounts, NEW st \in [Accounts -> Int]
  PROVE  SumFunctionOnSet(st, S) \in Int
<1>1. IsFiniteSet(S) /\ \A x \in S : st[x] \in Int
  BY SubsetFinite
<1> QED
  BY <1>1, SumType

\* Who is below q: those whose chain does not come by a, and those below a if q
\* is above a.
LEMMA CutUnder ==
  ASSUME NEW pr \in Proxies, Ends(pr), NEW a \in Accounts, NEW q \in Accounts, NEW i \in Nat
  PROVE  /\ \A d \in 1 .. i + 1 : Hop(pr, a, d) = q =>
              /\ Under(pr, q, i + 1) = Under(Cut(pr, a), q, i + 1) \cup Under(pr, a, i + 1 - d)
              /\ Under(Cut(pr, a), q, i + 1) \cap Under(pr, a, i + 1 - d) = {}
         /\ (\A d \in 1 .. i + 1 : Hop(pr, a, d) # q) =>
              Under(pr, q, i + 1) = Under(Cut(pr, a), q, i + 1)
<1> DEFINE n == i + 1
           ps == Cut(pr, a)
<1>0. n \in Nat /\ q # NoProxy
  BY VotesAssumption
\* A chain that comes to q without coming by a before.
<1>1. ASSUME NEW b \in Accounts, \A k \in 0 .. n - 1 : Hop(pr, b, k) # a
      PROVE  Hop(ps, b, n) = Hop(pr, b, n)
  <2>1. ps \in Proxies /\ b \in Someone /\ \A x \in Accounts \ {a} : ps[x] = pr[x]
    BY CutType DEF Someone
  <2> HIDE DEF ps, n
  <2> QED
    BY <1>0, <1>1, <2>1, SameHops
\* A chain that comes by a before.
<1>2. ASSUME NEW b \in Accounts, NEW k \in 0 .. n - 1, Hop(pr, b, k) = a
      PROVE  /\ Hop(ps, b, n) = NoProxy
             /\ n - k \in 1 .. i + 1
             /\ Hop(pr, b, n) = Hop(pr, a, n - k)
  <2>1. k \in Nat /\ n - k \in Nat /\ n > k /\ n = k + (n - k) /\ n - k \in 1 .. i + 1
    BY <1>0
  <2>2. Hop(pr, b, k + (n - k)) = Hop(pr, Hop(pr, b, k), n - k)
    BY <2>1, HopAdd
  <2>3. Hop(ps, b, n) = NoProxy
    BY <1>0, <1>2, <2>1, CutHops
  <2> QED
    BY <1>2, <2>1, <2>2, <2>3
<1> HIDE DEF ps
<1>3. ASSUME NEW d \in 1 .. i + 1, Hop(pr, a, d) = q
      PROVE  /\ Under(pr, q, n) = Under(ps, q, n) \cup Under(pr, a, n - d)
             /\ Under(ps, q, n) \cap Under(pr, a, n - d) = {}
  <2>0. n - d \in 0 .. n - 1 /\ d \in Nat /\ n - (n - d) = d
    BY <1>0
  <2>1. ASSUME NEW b \in Accounts, Hop(pr, b, n - d) = a
        PROVE  Hop(pr, b, n) = q /\ Hop(ps, b, n) = NoProxy
    BY <1>2, <1>3, <2>0, <2>1
  <2>2. ASSUME NEW b \in Accounts, Hop(pr, b, n - d) # a
        PROVE  Hop(pr, b, n) = q <=> Hop(ps, b, n) = q
    <3>1. CASE \A k \in 0 .. n - 1 : Hop(pr, b, k) # a
      BY <1>1, <3>1
    <3>2. ASSUME NEW k \in 0 .. n - 1, Hop(pr, b, k) = a
          PROVE  Hop(pr, b, n) # q /\ Hop(ps, b, n) # q
      <4>1. Hop(ps, b, n) = NoProxy /\ Hop(pr, b, n) = Hop(pr, a, n - k) /\ n - k \in Nat
        BY <1>2, <3>2
      <4>2. n - k # d
        BY <2>0, <2>2, <3>2
      <4>3. Hop(pr, a, n - k) # q
        BY <1>3, <2>0, <4>1, <4>2, HopsApart
      <4> QED
        BY <1>0, <4>1, <4>3
    <3> QED
      BY <3>1, <3>2
  <2> HIDE DEF n
  <2> QED
    BY <1>0, <2>1, <2>2 DEF Under
<1>4. ASSUME \A d \in 1 .. i + 1 : Hop(pr, a, d) # q
      PROVE  Under(pr, q, n) = Under(ps, q, n)
  <2>1. ASSUME NEW b \in Accounts
        PROVE  Hop(pr, b, n) = q <=> Hop(ps, b, n) = q
    <3>1. CASE \A k \in 0 .. n - 1 : Hop(pr, b, k) # a
      BY <1>1, <3>1
    <3>2. ASSUME NEW k \in 0 .. n - 1, Hop(pr, b, k) = a
          PROVE  Hop(pr, b, n) # q /\ Hop(ps, b, n) # q
      BY <1>0, <1>2, <1>4, <3>2
    <3> QED
      BY <3>1, <3>2
  <2> QED
    BY <2>1 DEF Under
<1> QED
  BY <1>3, <1>4 DEF ps

\* What is proxied to q is what is proxied to it without a's proxy, and a's share.
LEMMA CutProxied ==
  ASSUME NEW pr \in Proxies, Ends(pr), NEW a \in Accounts, NEW q \in Accounts,
         NEW i \in Levels, NEW st \in [Accounts -> Int],
         NEW delta, \A j \in 0 .. MaxProxyDepth : delta[j] = Below(st, pr, a, j)
  PROVE  Below(st, pr, q, i + 1) = Below(st, Cut(pr, a), q, i + 1) + Share(pr, a, delta, q, i)
<1>0. i \in Nat /\ i + 1 \in 0 .. MaxProxyDepth
  BY VotesAssumption DEF Levels
<1>1. Under(Cut(pr, a), q, i + 1) \in SUBSET Accounts
  BY DEF Under
<1>2. CASE \E d \in 1 .. i + 1 : Hop(pr, a, d) = q
  <2>1. PICK d \in 1 .. i + 1 : Hop(pr, a, d) = q
    BY <1>2
  <2> DEFINE S == Under(Cut(pr, a), q, i + 1)
             T == Under(pr, a, i + 1 - d)
  <2>2. Under(pr, q, i + 1) = S \cup T /\ S \cap T = {}
    BY <1>0, <2>1, CutUnder
  <2>3. S \in SUBSET Accounts /\ T \in SUBSET Accounts
    BY DEF Under
  <2>4. Share(pr, a, delta, q, i) = delta[i + 1 - d]
    BY <1>0, <2>1, ShareIs
  <2>5. delta[i + 1 - d] = SumFunctionOnSet(st, T)
    <3>1. i + 1 - d \in 0 .. MaxProxyDepth
      BY <1>0, VotesAssumption
    <3> QED
      BY <3>1 DEF Below
  <2> HIDE DEF S, T
  <2>6. SumFunctionOnSet(st, S \cup T) = SumFunctionOnSet(st, S) + SumFunctionOnSet(st, T)
    <3>1. IsFiniteSet(S) /\ IsFiniteSet(T) /\ \A x \in S \cup T : st[x] \in Int
      BY <2>3, SubsetFinite
    <3> QED
      BY <2>2, <3>1, SumUnion
  <2> QED
    BY <2>2, <2>4, <2>5, <2>6, Zenon DEF Below, S
<1>3. CASE ~ \E d \in 1 .. i + 1 : Hop(pr, a, d) = q
  <2>1. Under(pr, q, i + 1) = Under(Cut(pr, a), q, i + 1)
    BY <1>0, <1>3, CutUnder
  <2>2. Share(pr, a, delta, q, i) = 0
    BY <1>3 DEF Share
  <2>3. SumFunctionOnSet(st, Under(Cut(pr, a), q, i + 1)) \in Int
    BY <1>1, SumInteger
  <2> QED
    BY <2>1, <2>2, <2>3 DEF Below
<1> QED
  BY <1>2, <1>3

-----------------------------------------------------------------------------
\* Whose stakes count for w, and what a change of delta below a adds to its votes.
Supporters(pr, vo, w) ==
  {b \in Accounts : Distance(pr, b) <= MaxProxyDepth /\ w \in vo[Root(pr, b)]}

\* What reaches the witness w, if the account at the end of the chain votes for it.
VoteShare(pr, vo, a, delta, w) ==
  IF Distance(pr, a) <= MaxProxyDepth /\ w \in vo[Root(pr, a)]
  THEN SumFunctionOnSet(delta, 0 .. MaxProxyDepth - Distance(pr, a)) ELSE 0

\* The votes of nobody but a are cleared.
Cleared(vo, a) == [vo EXCEPT ![a] = {}]

\* The votes of every account.
Ballots == [Accounts -> SUBSET Witnesses]

\* Whoever comes by a shares the end of a's chain; without a's proxy, a is the end.
LEMMA Through ==
  ASSUME NEW pr \in Proxies, Ends(pr), NEW a \in Accounts, NEW b \in Accounts,
         NEW j \in Nat, Hop(pr, b, j) = a
  PROVE  /\ Distance(pr, b) = j + Distance(pr, a)
         /\ Root(pr, b) = Root(pr, a)
         /\ Root(Cut(pr, a), b) = a
<1> DEFINE D == Distance(pr, a)
<1>1. D \in Nat /\ D + 1 \in Nat
  BY ChainEnds
<1>2. Hop(pr, a, D) = Root(pr, a) /\ Root(pr, a) \in Accounts /\ Hop(pr, a, D + 1) = NoProxy
  BY RootIs
<1> HIDE DEF D
<1>3. Hop(pr, b, j + D) = Root(pr, a) /\ Hop(pr, b, j + (D + 1)) = NoProxy
  BY <1>1, <1>2, HopAdd
<1>4. j + D \in Nat /\ j + (D + 1) = (j + D) + 1
  BY <1>1
<1>5. Distance(pr, b) = j + D /\ Root(pr, b) = Root(pr, a)
  BY <1>2, <1>3, <1>4, DistanceIs
<1>6. Hop(Cut(pr, a), b, j) = a /\ Hop(Cut(pr, a), b, j + 1) = NoProxy
  <2>1. j \in 0 .. j /\ j + 1 \in Nat /\ j + 1 > j
    OBVIOUS
  <2> QED
    BY <2>1, CutHops
<1>7. Root(Cut(pr, a), b) = a
  BY <1>6, CutType, CutEnds, DistanceIs
<1> QED
  BY <1>5, <1>7 DEF D

\* Nothing changes at the end of a chain that does not come by a.
LEMMA NotThrough ==
  ASSUME NEW pr \in Proxies, Ends(pr), NEW a \in Accounts, NEW b \in Accounts,
         \A k \in Nat : Hop(pr, b, k) # a
  PROVE  /\ Distance(Cut(pr, a), b) = Distance(pr, b)
         /\ Root(Cut(pr, a), b) = Root(pr, b)
         /\ Root(pr, b) # a
<1> DEFINE D == Distance(pr, b)
<1>1. D \in Nat /\ D + 1 \in Nat
  BY ChainEnds
<1>2. Hop(pr, b, D) = Root(pr, b) /\ Root(pr, b) \in Accounts /\ Hop(pr, b, D + 1) = NoProxy
  BY RootIs
<1> HIDE DEF D
<1>3. Hop(Cut(pr, a), b, D) = Root(pr, b) /\ Hop(Cut(pr, a), b, D + 1) = NoProxy
  BY <1>1, <1>2, CutHops
<1>4. Distance(Cut(pr, a), b) = D /\ Root(Cut(pr, a), b) = Root(pr, b)
  BY <1>1, <1>2, <1>3, CutType, CutEnds, DistanceIs
<1> QED
  BY <1>1, <1>2, <1>4 DEF D

\* The stakes up to M hops below a, level by level.
LEMMA SumLevels ==
  ASSUME NEW pr \in Proxies, Ends(pr), NEW a \in Accounts, NEW st \in [Accounts -> Int],
         NEW M \in Nat, NEW delta, \A j \in 0 .. M : delta[j] = Below(st, pr, a, j)
  PROVE  SumFunctionOnSet(st, {b \in Accounts : \E j \in 0 .. M : Hop(pr, b, j) = a})
           = SumFunctionOnSet(delta, 0 .. M)
<1> DEFINE T == {b \in Accounts : \E j \in 0 .. M : Hop(pr, b, j) = a}
           A == 0 .. M
           p == [b \in T |-> CHOOSE j \in A : Hop(pr, b, j) = a]
           F == [j \in A |-> SumFunctionOnSet(st, {b \in T : p[b] = j})]
<1>1. IsFiniteSet(T) /\ IsFiniteSet(A)
  BY FS_Interval, SubsetFinite
<1>2. \A b \in T : p[b] \in A /\ Hop(pr, b, p[b]) = a
  OBVIOUS
<1>3. \A b \in T : st[b] \in Int
  OBVIOUS
<1> HIDE DEF p
<1>4. SumFunctionOnSet(F, A) = SumFunctionOnSet(st, T)
  <2> HIDE DEF A, T
  <2> QED
    BY <1>1, <1>2, <1>3, SumGroups
<1>5. \A j \in A : {b \in T : p[b] = j} = Under(pr, a, j)
  <2> TAKE j \in A
  <2>1. ASSUME NEW b \in Accounts, Hop(pr, b, j) = a
        PROVE  b \in T /\ p[b] = j
    <3>1. b \in T
      BY <2>1
    <3>2. p[b] \in Nat /\ j \in Nat /\ Hop(pr, b, p[b]) = a
      BY <1>2, <3>1
    <3> QED
      BY <2>1, <3>1, <3>2, HopsApart
  <2>2. ASSUME NEW b \in T, p[b] = j
        PROVE  b \in Accounts /\ Hop(pr, b, j) = a
    BY <1>2, <2>2
  <2> QED
    BY <2>1, <2>2 DEF Under
<1>6. \A j \in A : F[j] = delta[j]
  <2> HIDE DEF T
  <2> QED
    BY <1>5 DEF Below
<1>7. SumFunctionOnSet(F, A) = SumFunctionOnSet(delta, A)
  <2> HIDE DEF F, A
  <2> QED
    BY <1>1, <1>6, SumSame
<1> QED
  BY <1>4, <1>7

\* The votes for w are the votes it has without a's proxy and votes, and a's share.
LEMMA CutVotes ==
  ASSUME NEW pr \in Proxies, Ends(pr), NEW a \in Accounts, NEW st \in [Accounts -> Int],
         NEW vo \in Ballots, NEW w \in Witnesses,
         NEW delta, \A j \in 0 .. MaxProxyDepth : delta[j] = Below(st, pr, a, j)
  PROVE  SumFunctionOnSet(st, Supporters(pr, vo, w))
           = SumFunctionOnSet(st, Supporters(Cut(pr, a), Cleared(vo, a), w))
               + VoteShare(pr, vo, a, delta, w)
<1> DEFINE D == Distance(pr, a)
           M == MaxProxyDepth - D
           vs == Cleared(vo, a)
           S == Supporters(Cut(pr, a), vs, w)
           T == {b \in Accounts : \E j \in 0 .. M : Hop(pr, b, j) = a}
<1>0. D \in Nat /\ MaxProxyDepth \in Nat
  BY ChainEnds, VotesAssumption
<1>1. ASSUME NEW b \in Accounts, \A k \in Nat : Hop(pr, b, k) # a
      PROVE  (b \in Supporters(pr, vo, w) <=> b \in S) /\ b \notin T
  <2>1. Root(pr, b) \in Accounts
    BY RootIs
  <2>2. vs[Root(pr, b)] = vo[Root(pr, b)]
    BY <1>1, <2>1, NotThrough DEF Cleared, Ballots
  <2>3. b \notin T
    BY <1>0, <1>1
  <2> HIDE DEF vs
  <2> QED
    BY <1>1, <2>2, <2>3, NotThrough DEF Supporters
<1>2. ASSUME NEW b \in Accounts, NEW j \in Nat, Hop(pr, b, j) = a
      PROVE  /\ b \notin S
             /\ b \in Supporters(pr, vo, w) <=> b \in T /\ D <= MaxProxyDepth /\ w \in vo[Root(pr, a)]
  <2>1. Distance(pr, b) = j + D /\ Root(pr, b) = Root(pr, a) /\ Root(Cut(pr, a), b) = a
    BY <1>2, Through
  <2>2. vs[a] = {}
    BY DEF Cleared, Ballots
  <2>3. b \in T <=> j + D <= MaxProxyDepth
    <3>1. ASSUME NEW k \in 0 .. M, Hop(pr, b, k) = a
          PROVE  k = j
      <4>1. k \in Nat
        BY <1>0
      <4> QED
        BY <1>2, <3>1, <4>1, HopsApart
    <3>2. j \in 0 .. M <=> j + D <= MaxProxyDepth
      BY <1>0
    <3> QED
      BY <1>2, <3>1, <3>2
  <2> HIDE DEF vs, D
  <2> QED
    BY <1>0, <2>1, <2>2, <2>3 DEF Supporters
<1>3. S \in SUBSET Accounts /\ T \in SUBSET Accounts
  BY DEF Supporters
<1>4. CASE D <= MaxProxyDepth /\ w \in vo[Root(pr, a)]
  <2>1. Supporters(pr, vo, w) = S \cup T /\ S \cap T = {}
    <3> HIDE DEF S, T
    <3> QED
      BY <1>1, <1>2, <1>3, <1>4 DEF Supporters
  <2>2. SumFunctionOnSet(st, S \cup T) = SumFunctionOnSet(st, S) + SumFunctionOnSet(st, T)
    <3> HIDE DEF S, T
    <3>1. IsFiniteSet(S) /\ IsFiniteSet(T) /\ \A x \in S \cup T : st[x] \in Int
      BY <1>3, SubsetFinite
    <3> QED
      BY <2>1, <3>1, SumUnion
  <2>3. SumFunctionOnSet(st, T) = SumFunctionOnSet(delta, 0 .. M)
    <3>1. M \in Nat /\ \A j \in 0 .. M : j \in 0 .. MaxProxyDepth
      BY <1>0, <1>4
    <3> HIDE DEF M
    <3> QED
      BY <3>1, SumLevels
  <2>4. VoteShare(pr, vo, a, delta, w) = SumFunctionOnSet(delta, 0 .. M)
    BY <1>4 DEF VoteShare
  <2> HIDE DEF S, T, M
  <2> QED
    BY <2>1, <2>2, <2>3, <2>4 DEF S
<1>5. CASE ~ (D <= MaxProxyDepth /\ w \in vo[Root(pr, a)])
  <2>1. Supporters(pr, vo, w) = S
    <3> HIDE DEF S, T
    <3> QED
      BY <1>1, <1>2, <1>3, <1>5 DEF Supporters
  <2>2. VoteShare(pr, vo, a, delta, w) = 0
    BY <1>5 DEF VoteShare
  <2>3. SumFunctionOnSet(st, S) \in Int
    <3> HIDE DEF S
    <3> QED
      BY <1>3, SumInteger
  <2> HIDE DEF S
  <2> QED
    BY <2>1, <2>2, <2>3 DEF S
<1> QED
  BY <1>4, <1>5

-----------------------------------------------------------------------------
\* What is counted: proxied_vsf_votes of the accounts, and the votes of the witnesses.
Tallies == [proxied : [Accounts -> [Levels -> Int]], votes : [Witnesses -> Int]]

\* A difference for each level, as adjust_proxied_witness_votes takes it.
Deltas == [0 .. MaxProxyDepth -> Int]

\* The tallies are what a recount would give.
Exact(t, st, pr, vo) ==
  /\ \A q \in Accounts, i \in Levels : t.proxied[q][i] = Below(st, pr, q, i + 1)
  /\ \A w \in Witnesses : t.votes[w] = SumFunctionOnSet(st, Supporters(pr, vo, w))

\* u is t after delta has travelled up a's chain.
Changed(u, t, pr, vo, a, delta) ==
  /\ u \in Tallies
  /\ \A q \in Accounts, i \in Levels :
       u.proxied[q][i] = t.proxied[q][i] + Share(pr, a, delta, q, i)
  /\ \A w \in Witnesses : u.votes[w] = t.votes[w] + VoteShare(pr, vo, a, delta, w)

\* The shares are numbers.
LEMMA ShareType ==
  ASSUME NEW pr \in Proxies, Ends(pr), NEW a \in Accounts, NEW delta \in Deltas,
         NEW q \in Accounts, NEW i \in Levels
  PROVE  Share(pr, a, delta, q, i) \in Int
<1>1. CASE \E d \in 1 .. i + 1 : Hop(pr, a, d) = q
  <2>1. PICK d \in 1 .. i + 1 : Hop(pr, a, d) = q
    BY <1>1
  <2>2. i \in Nat /\ i + 1 - d \in 0 .. MaxProxyDepth
    BY VotesAssumption DEF Levels
  <2>3. Share(pr, a, delta, q, i) = delta[i + 1 - d]
    BY <2>1, <2>2, ShareIs
  <2> QED
    BY <2>2, <2>3 DEF Deltas
<1>2. CASE ~ \E d \in 1 .. i + 1 : Hop(pr, a, d) = q
  BY <1>2 DEF Share
<1> QED
  BY <1>1, <1>2

\* The sum of its first levels is a number.
LEMMA DeltaSum ==
  ASSUME NEW delta \in Deltas, NEW n \in Int, n <= MaxProxyDepth
  PROVE  SumFunctionOnSet(delta, 0 .. n) \in Int
<1> DEFINE S == 0 .. n
<1>1. IsFiniteSet(S)
  BY FS_Interval
<1>2. \A x \in S : delta[x] \in Int
  BY VotesAssumption DEF Deltas
<1> HIDE DEF S
<1>3. SumFunctionOnSet(delta, S) \in Int
  BY <1>1, <1>2, SumType
<1> QED
  BY <1>3 DEF S

\* What reaches a witness is a number.
LEMMA VoteShareType ==
  ASSUME NEW pr \in Proxies, Ends(pr), NEW a \in Accounts, NEW delta \in Deltas, NEW vo, NEW w
  PROVE  VoteShare(pr, vo, a, delta, w) \in Int
<1>1. MaxProxyDepth - Distance(pr, a) \in Int /\ MaxProxyDepth - Distance(pr, a) <= MaxProxyDepth
  BY ChainEnds, VotesAssumption
<1>2. SumFunctionOnSet(delta, 0 .. MaxProxyDepth - Distance(pr, a)) \in Int
  BY <1>1, DeltaSum
<1> QED
  BY <1>2 DEF VoteShare

\* adjust_proxied_witness_votes adds the share of delta on every level of every
\* account, and to the votes of every witness.
LEMMA AdjustedVotes ==
  ASSUME proxy \in Proxies, Ends(proxy), voting \in Ballots, NEW a \in Accounts,
         NEW t \in Tallies, NEW delta \in Deltas
  PROVE  Changed(adjust_proxied_witness_votes(t, a, delta), t, proxy, voting, a, delta)
<1> DEFINE depth(p) == {d \in 1 .. MaxProxyDepth : Hop(proxy, a, d) = p}
           level(p, i) == IF \E d \in depth(p) : d - 1 <= i
                          THEN t.proxied[p][i] + delta[i - (CHOOSE d \in depth(p) : TRUE) + 1]
                          ELSE t.proxied[p][i]
           proxied == [p \in Accounts |-> [i \in Levels |-> level(p, i)]]
           total == SumFunctionOnSet(delta, 0 .. MaxProxyDepth - Distance(proxy, a))
           u == adjust_proxied_witness_votes(t, a, delta)
           votes == IF Distance(proxy, a) <= MaxProxyDepth
                    THEN [w \in Witnesses |-> IF w \in voting[Root(proxy, a)]
                                              THEN t.votes[w] + total ELSE t.votes[w]]
                    ELSE t.votes
<1>1. u = [proxied |-> proxied, votes |-> votes]
  <2>1. u = IF Distance(proxy, a) <= MaxProxyDepth
            THEN adjust_witness_votes([t EXCEPT !.proxied = proxied], Root(proxy, a), total)
            ELSE [t EXCEPT !.proxied = proxied]
    BY DEF adjust_proxied_witness_votes
  <2>2. [t EXCEPT !.proxied = proxied] = [proxied |-> proxied, votes |-> t.votes]
    <3> HIDE DEF proxied
    <3> QED
      BY DEF Tallies
  <2>3. adjust_witness_votes([proxied |-> proxied, votes |-> t.votes], Root(proxy, a), total)
          = [proxied |-> proxied,
             votes |-> [w \in Witnesses |-> IF w \in voting[Root(proxy, a)]
                                            THEN t.votes[w] + total ELSE t.votes[w]]]
    <3> HIDE DEF proxied, total
    <3> QED
      BY DEF adjust_witness_votes
  <2> HIDE DEF u, proxied, total
  <2> QED
    BY <2>1, <2>2, <2>3
<1>2. ASSUME NEW q \in Accounts, NEW i \in Levels
      PROVE  level(q, i) = t.proxied[q][i] + Share(proxy, a, delta, q, i)
  <2>0. i \in Nat /\ i + 1 <= MaxProxyDepth /\ MaxProxyDepth \in Nat /\ t.proxied[q][i] \in Int
    BY VotesAssumption DEF Levels, Tallies
  <2>1. CASE \E d \in 1 .. i + 1 : Hop(proxy, a, d) = q
    <3>1. PICK d \in 1 .. i + 1 : Hop(proxy, a, d) = q
      BY <2>1
    <3>2. d \in depth(q) /\ d - 1 <= i
      BY <2>0, <3>1
    <3>3. ASSUME NEW e \in depth(q)
          PROVE  e = d
      <4>1. e \in Nat /\ d \in Nat /\ Hop(proxy, a, e) = q
        BY <2>0
      <4> QED
        BY <3>1, <4>1, HopsApart
    <3>4. (CHOOSE e \in depth(q) : TRUE) = d
      <4> HIDE DEF depth
      <4> QED
        BY <3>2, <3>3
    <3>5. i - d + 1 = i + 1 - d
      BY <2>0
    <3>6. Share(proxy, a, delta, q, i) = delta[i + 1 - d]
      BY <2>0, <3>1, ShareIs
    <3> HIDE DEF depth
    <3> QED
      BY <3>2, <3>4, <3>5, <3>6, Zenon
  <2>2. CASE ~ \E d \in 1 .. i + 1 : Hop(proxy, a, d) = q
    <3>1. ~ \E d \in depth(q) : d - 1 <= i
      BY <2>0, <2>2
    <3>2. Share(proxy, a, delta, q, i) = 0
      BY <2>2 DEF Share
    <3> HIDE DEF depth
    <3> QED
      BY <2>0, <3>1, <3>2
  <2> QED
    BY <2>1, <2>2
<1>3. total \in Int
  <2>1. MaxProxyDepth - Distance(proxy, a) \in Int /\ MaxProxyDepth - Distance(proxy, a) <= MaxProxyDepth
    BY ChainEnds, VotesAssumption
  <2> QED
    BY <2>1, DeltaSum
<1>4. \A w \in Witnesses : votes[w] = t.votes[w] + VoteShare(proxy, voting, a, delta, w)
  BY DEF VoteShare, Tallies
<1>5. votes \in [Witnesses -> Int]
  <2> HIDE DEF total
  <2> QED
    BY <1>3 DEF Tallies
<1>6. \A q \in Accounts, i \in Levels : level(q, i) \in Int
  <2> TAKE q \in Accounts, i \in Levels
  <2>1. t.proxied[q][i] \in Int
    BY DEF Tallies
  <2>2. Share(proxy, a, delta, q, i) \in Int
    BY ShareType
  <2> HIDE DEF level
  <2> QED
    BY <1>2, <2>1, <2>2
<1> HIDE DEF level, votes
<1>7. proxied \in [Accounts -> [Levels -> Int]]
  BY <1>6
<1>8. \A q \in Accounts, i \in Levels : proxied[q][i] = t.proxied[q][i] + Share(proxy, a, delta, q, i)
  BY <1>2
<1> HIDE DEF proxied, u
<1>9. u \in Tallies /\ u.proxied = proxied /\ u.votes = votes
  BY <1>1, <1>5, <1>7 DEF Tallies
<1>10. Changed(u, t, proxy, voting, a, delta)
  BY <1>4, <1>8, <1>9 DEF Changed
<1> QED
  BY <1>10 DEF u

-----------------------------------------------------------------------------
\* The stakes after one of them has changed, and a sum of them.
Paid(st, a, x) == [st EXCEPT ![a] = @ + x]

\* The sum over a set of accounts changes with the stake of one of them.
LEMMA OneStake ==
  ASSUME NEW st \in [Accounts -> Int], NEW a \in Accounts, NEW x \in Int, NEW S \in SUBSET Accounts
  PROVE  SumFunctionOnSet(Paid(st, a, x), S)
           = SumFunctionOnSet(st, S) + (IF a \in S THEN x ELSE 0)
<1> DEFINE f == Paid(st, a, x)
<1>1. IsFiniteSet(S)
  BY SubsetFinite
<1>2. f[a] = st[a] + x /\ (\A y \in S : st[y] \in Int /\ f[y] \in Int)
        /\ \A y \in S \ {a} : st[y] = f[y]
  BY DEF Paid
<1>3. st[a] \in Int /\ SumFunctionOnSet(st, S) \in Int
  BY SumInteger
<1> HIDE DEF f
<1>4. CASE a \in S
  <2>1. SumFunctionOnSet(f, S) = SumFunctionOnSet(st, S) + f[a] - st[a]
    BY <1>1, <1>2, <1>4, SumChange
  <2> QED
    BY <1>2, <1>3, <1>4, <2>1 DEF f
<1>5. CASE a \notin S
  <2>1. SumFunctionOnSet(f, S) = SumFunctionOnSet(st, S)
    <3>1. \A y \in S : f[y] = st[y]
      BY <1>2, <1>5
    <3> QED
      BY <1>1, <3>1, SumSame
  <2> QED
    BY <1>3, <1>5, <2>1 DEF f
<1> QED
  BY <1>4, <1>5

\* A change of an account's own stake is a difference on level 0 ...
LEMMA OwnType ==
  ASSUME NEW x \in Int
  PROVE  Own(x) \in Deltas
BY DEF Own, Deltas

\* ... and all of it.
LEMMA OwnSum ==
  ASSUME NEW x \in Int, NEW M \in Nat, M <= MaxProxyDepth
  PROVE  SumFunctionOnSet(Own(x), 0 .. M) = x
<1> DEFINE S == 0 .. M
           R == {0}
           f == Own(x)
<1>1. IsFiniteSet(S)
  BY FS_Interval
<1>2. f[0] = x /\ \A i \in S \ R : f[i] = 0
  BY VotesAssumption DEF Own
<1>3. R \in SUBSET S /\ \A y \in R : f[y] = f[y] /\ f[y] \in Int
  BY <1>2
<1> HIDE DEF S, f
<1>4. SumFunctionOnSet(f, S) = SumFunctionOnSet(f, R)
  BY <1>1, <1>2, <1>3, SumRestrict
<1>5. SumFunctionOnSet(f, {0}) = x
  BY <1>2, SumSingle
<1> QED
  BY <1>4, <1>5 DEF S, f

\* The propagated difference of one stake keeps the tallies exact.
LEMMA StakeChanged ==
  ASSUME NEW pr \in Proxies, Ends(pr), NEW vo \in Ballots, NEW st \in [Accounts -> Int],
         NEW t \in Tallies, NEW u, NEW a \in Accounts, NEW x \in Int,
         Exact(t, st, pr, vo), Changed(u, t, pr, vo, a, Own(x))
  PROVE  Exact(u, Paid(st, a, x), pr, vo)
<1> DEFINE f == Paid(st, a, x)
<1>1. ASSUME NEW q \in Accounts, NEW i \in Levels
      PROVE  u.proxied[q][i] = Below(f, pr, q, i + 1)
  <2>0. i \in Nat /\ i + 1 \in 1 .. i + 1 /\ i + 1 <= MaxProxyDepth /\ t.proxied[q][i] \in Int
    BY VotesAssumption DEF Levels, Tallies
  <2>1. Under(pr, q, i + 1) \in SUBSET Accounts
    BY DEF Under
  <2>2. Below(f, pr, q, i + 1) = Below(st, pr, q, i + 1) + (IF a \in Under(pr, q, i + 1) THEN x ELSE 0)
    BY <2>1, OneStake DEF Below
  <2>3. Share(pr, a, Own(x), q, i) = IF a \in Under(pr, q, i + 1) THEN x ELSE 0
    <3>1. CASE \E d \in 1 .. i + 1 : Hop(pr, a, d) = q
      <4>1. PICK d \in 1 .. i + 1 : Hop(pr, a, d) = q
        BY <3>1
      <4>2. Share(pr, a, Own(x), q, i) = Own(x)[i + 1 - d]
        BY <2>0, <4>1, ShareIs
      <4>3. i + 1 - d \in 0 .. MaxProxyDepth /\ (i + 1 - d = 0 <=> d = i + 1)
        BY <2>0, VotesAssumption
      <4>4. Own(x)[i + 1 - d] = IF d = i + 1 THEN x ELSE 0
        BY <4>3 DEF Own
      <4>5. Hop(pr, a, i + 1) = q <=> d = i + 1
        BY <2>0, <4>1, HopsApart
      <4> QED
        BY <4>2, <4>4, <4>5 DEF Under
    <3>2. CASE ~ \E d \in 1 .. i + 1 : Hop(pr, a, d) = q
      BY <2>0, <3>2 DEF Share, Under
    <3> QED
      BY <3>1, <3>2
  <2>4. u.proxied[q][i] = t.proxied[q][i] + Share(pr, a, Own(x), q, i)
    BY DEF Changed
  <2>5. t.proxied[q][i] = Below(st, pr, q, i + 1)
    BY DEF Exact
  <2> HIDE DEF f
  <2> QED
    BY <2>2, <2>3, <2>4, <2>5
<1>2. ASSUME NEW w \in Witnesses
      PROVE  u.votes[w] = SumFunctionOnSet(f, Supporters(pr, vo, w))
  <2>1. Supporters(pr, vo, w) \in SUBSET Accounts
    BY DEF Supporters
  <2>2. SumFunctionOnSet(f, Supporters(pr, vo, w))
          = SumFunctionOnSet(st, Supporters(pr, vo, w)) + (IF a \in Supporters(pr, vo, w) THEN x ELSE 0)
    BY <2>1, OneStake
  <2>3. VoteShare(pr, vo, a, Own(x), w) = IF a \in Supporters(pr, vo, w) THEN x ELSE 0
    <3>1. Distance(pr, a) \in Nat
      BY ChainEnds
    <3>2. CASE Distance(pr, a) <= MaxProxyDepth
      <4>1. MaxProxyDepth - Distance(pr, a) \in Nat /\ MaxProxyDepth - Distance(pr, a) <= MaxProxyDepth
        BY <3>1, <3>2, VotesAssumption
      <4>2. SumFunctionOnSet(Own(x), 0 .. MaxProxyDepth - Distance(pr, a)) = x
        BY <4>1, OwnSum
      <4> QED
        BY <4>2 DEF VoteShare, Supporters
    <3>3. CASE ~ (Distance(pr, a) <= MaxProxyDepth)
      BY <3>3 DEF VoteShare, Supporters
    <3> QED
      BY <3>2, <3>3
  <2>4. u.votes[w] = t.votes[w] + VoteShare(pr, vo, a, Own(x), w)
    BY DEF Changed
  <2>5. t.votes[w] = SumFunctionOnSet(st, Supporters(pr, vo, w))
    BY DEF Exact
  <2> HIDE DEF f
  <2> QED
    BY <2>2, <2>3, <2>4, <2>5
<1> QED
  BY <1>1, <1>2 DEF Exact

\* The tallies of an account itself, level by level from its own stake.
IsAll(delta, st, pr, a) == \A j \in 0 .. MaxProxyDepth : delta[j] = Below(st, pr, a, j)

\* The account that is no hop below a is a.
LEMMA OwnLevel ==
  ASSUME NEW pr, NEW a \in Accounts, NEW st \in [Accounts -> Int]
  PROVE  Below(st, pr, a, 0) = st[a]
<1>1. Under(pr, a, 0) = {a}
  BY HopStep DEF Under
<1>2. st[a] \in Int
  OBVIOUS
<1> QED
  BY <1>1, <1>2, SumSingle DEF Below

\* What one difference adds the other one takes away.
Opposite(f, g) == \A j \in 0 .. MaxProxyDepth : f[j] = 0 - g[j]

\* What account_witness_proxy moves: the stake of a, and what it holds for others.
LEMMA EverythingType ==
  ASSUME NEW a \in Accounts, stake \in [Accounts -> Int], tally \in Tallies
  PROVE  /\ Everything(a, 1) \in Deltas /\ Everything(a, -1) \in Deltas
         /\ Opposite(Everything(a, -1), Everything(a, 1))
         /\ Everything(a, 1)[0] = stake[a]
         /\ \A i \in Levels : Everything(a, 1)[i + 1] = tally.proxied[a][i]
<1>1. \A i \in Levels : i + 1 \in 0 .. MaxProxyDepth /\ i + 1 # 0 /\ (i + 1) - 1 = i
  BY VotesAssumption DEF Levels
<1>2. ASSUME NEW j \in 0 .. MaxProxyDepth
      PROVE  /\ Everything(a, 1)[j] \in Int /\ Everything(a, -1)[j] \in Int
             /\ Everything(a, -1)[j] = 0 - Everything(a, 1)[j]
  <2>1. (IF j = 0 THEN stake[a] ELSE tally.proxied[a][j - 1]) \in Int
    <3>1. j # 0 => j - 1 \in Levels
      BY VotesAssumption DEF Levels
    <3> QED
      BY <3>1 DEF Tallies
  <2> QED
    BY <2>1 DEF Everything
<1>3. Everything(a, 1)[0] = stake[a]
  BY VotesAssumption DEF Everything
<1>4. ASSUME NEW i \in Levels
      PROVE  Everything(a, 1)[i + 1] = tally.proxied[a][i]
  <2>1. tally.proxied[a][i] \in Int
    BY DEF Tallies
  <2> QED
    BY <1>1, <2>1 DEF Everything
<1>5. Everything(a, 1) \in Deltas /\ Everything(a, -1) \in Deltas
  BY <1>2 DEF Deltas, Everything
<1> QED
  BY <1>2, <1>3, <1>4, <1>5 DEF Opposite

\* While the tally is exact, this is the stake of all that a stands for.
LEMMA EverythingIs ==
  ASSUME NEW a \in Accounts, stake \in [Accounts -> Int], tally \in Tallies, NEW vo,
         Exact(tally, stake, proxy, vo)
  PROVE  IsAll(Everything(a, 1), stake, proxy, a)
<1> SUFFICES ASSUME NEW j \in 0 .. MaxProxyDepth
             PROVE  Everything(a, 1)[j] = Below(stake, proxy, a, j)
  BY DEF IsAll
<1>1. CASE j = 0
  BY <1>1, EverythingType, OwnLevel
<1>2. CASE j # 0
  <2>1. PICK i \in Levels : j = i + 1
    <3>1. j - 1 \in Levels /\ j = (j - 1) + 1
      BY <1>2, VotesAssumption DEF Levels
    <3> QED
      BY <3>1
  <2> QED
    BY <2>1, EverythingType DEF Exact
<1> QED
  BY <1>1, <1>2

-----------------------------------------------------------------------------
\* An opposite change has opposite shares.
LEMMA OppositeShares ==
  ASSUME NEW pr \in Proxies, Ends(pr), NEW a \in Accounts, NEW f \in Deltas, NEW g \in Deltas,
         Opposite(f, g), NEW vo
  PROVE  /\ \A q \in Accounts, i \in Levels : Share(pr, a, f, q, i) = 0 - Share(pr, a, g, q, i)
         /\ \A w \in Witnesses : VoteShare(pr, vo, a, f, w) = 0 - VoteShare(pr, vo, a, g, w)
<1>1. ASSUME NEW q \in Accounts, NEW i \in Levels
      PROVE  Share(pr, a, f, q, i) = 0 - Share(pr, a, g, q, i)
  <2>1. CASE \E d \in 1 .. i + 1 : Hop(pr, a, d) = q
    <3>1. PICK d \in 1 .. i + 1 : Hop(pr, a, d) = q
      BY <2>1
    <3>2. i \in Nat /\ i + 1 - d \in 0 .. MaxProxyDepth
      BY VotesAssumption DEF Levels
    <3>3. Share(pr, a, f, q, i) = f[i + 1 - d] /\ Share(pr, a, g, q, i) = g[i + 1 - d]
      BY <3>1, <3>2, ShareIs
    <3> QED
      BY <3>2, <3>3 DEF Opposite
  <2>2. CASE ~ \E d \in 1 .. i + 1 : Hop(pr, a, d) = q
    BY <2>2 DEF Share
  <2> QED
    BY <2>1, <2>2
<1>2. ASSUME NEW w \in Witnesses
      PROVE  VoteShare(pr, vo, a, f, w) = 0 - VoteShare(pr, vo, a, g, w)
  <2> DEFINE S == 0 .. MaxProxyDepth - Distance(pr, a)
             z == [j \in S |-> 0]
  <2>0. MaxProxyDepth \in Nat /\ Distance(pr, a) \in Nat
    BY ChainEnds, VotesAssumption
  <2>1. IsFiniteSet(S)
    BY <2>0, FS_Interval
  <2>2. \A j \in S : f[j] \in Int /\ g[j] \in Int /\ z[j] = f[j] + g[j]
    BY <2>0 DEF Opposite, Deltas
  <2>3. {} \in SUBSET S /\ (\A j \in {} : z[j] = f[j] /\ f[j] \in Int) /\ \A j \in S \ {} : z[j] = 0
    OBVIOUS
  <2> HIDE DEF S, z
  <2>4. SumFunctionOnSet(z, S) = SumFunctionOnSet(f, S) + SumFunctionOnSet(g, S)
    BY <2>1, <2>2, SumAdd
  <2>5. SumFunctionOnSet(z, S) = 0
    BY <2>1, <2>3, SumRestrict, SumEmpty
  <2>6. SumFunctionOnSet(f, S) \in Int /\ SumFunctionOnSet(g, S) \in Int
    BY <2>1, <2>2, SumType
  <2>7. SumFunctionOnSet(f, S) = 0 - SumFunctionOnSet(g, S)
    BY <2>4, <2>5, <2>6
  <2> QED
    BY <2>7 DEF VoteShare, S
<1> QED
  BY <1>1, <1>2

\* Whoever is below a is so with or without a's proxy.
LEMMA CutBelow ==
  ASSUME NEW pr \in Proxies, Ends(pr), NEW a \in Accounts, NEW j \in Nat
  PROVE  Under(Cut(pr, a), a, j) = Under(pr, a, j)
<1>1. ASSUME NEW b \in Accounts, Hop(pr, b, j) = a
      PROVE  Hop(Cut(pr, a), b, j) = a
  <2>1. j \in 0 .. j
    OBVIOUS
  <2> QED
    BY <1>1, <2>1, CutHops
<1>2. ASSUME NEW b \in Accounts, Hop(Cut(pr, a), b, j) = a
      PROVE  Hop(pr, b, j) = a
  <2>1. CASE \A k \in Nat : Hop(pr, b, k) # a
    BY <1>2, <2>1, CutHops
  <2>2. ASSUME NEW k \in Nat, Hop(pr, b, k) = a
        PROVE  Hop(pr, b, j) = a
    <3>1. CASE j > k
      BY <1>2, <2>2, <3>1, CutHops, VotesAssumption
    <3>2. CASE ~ (j > k)
      <4>1. j \in 0 .. k
        BY <3>2
      <4> QED
        BY <1>2, <2>2, <4>1, CutHops
    <3> QED
      BY <3>1, <3>2
  <2> QED
    BY <2>1, <2>2
<1> QED
  BY <1>1, <1>2 DEF Under
=============================================================================
