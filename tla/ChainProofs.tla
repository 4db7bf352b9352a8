---------------------------- MODULE ChainProofs -----------------------------
(***************************************************************************)
(* The chain database, proved for every network of peers, every number of  *)
(* witnesses and every sequence of pushes, failures and crashes.  Blocks   *)
(* and transactions come first, then the fork database, the types, the     *)
(* undo history, the pending transactions, what callers have seen          *)
(* irreversible, and last the block log across crashes.                    *)
(***************************************************************************)
EXTENDS ChainDatabase, FiniteSetTheorems, SequenceTheorems, TLAPS

\* The steps late in a module of this size need more than the default time.
USE SMTT(30), ZenonT(30), SMTT(60)

-----------------------------------------------------------------------------
\* Blocks and their ancestors.

\* The blocks there are: histories that are not empty.
Blocks == Seq(Bodies) \ {<< >>}

\* What an ancestor is, position by position.
LEMMA AncestorType ==
  ASSUME NEW S, NEW c \in Seq(S), NEW n \in 0 .. Len(c)
  PROVE  /\ Ancestor(c, n) \in Seq(S) /\ Len(Ancestor(c, n)) = n
         /\ \A i \in 1 .. n : Ancestor(c, n)[i] = c[i]
<1>1. \A i \in 1 .. n : c[i] \in S
  OBVIOUS
<1> QED
  BY <1>1, SubSeqProperties DEF Ancestor

\* An ancestor of an ancestor is an ancestor.
LEMMA AncestorOfAncestor ==
  ASSUME NEW S, NEW c \in Seq(S), NEW n \in 0 .. Len(c), NEW m \in 0 .. n
  PROVE  Ancestor(Ancestor(c, n), m) = Ancestor(c, m)
<1> DEFINE a == Ancestor(c, n)
           s == Ancestor(a, m)
           t == Ancestor(c, m)
<1>1. /\ a \in Seq(S) /\ Len(a) = n
      /\ \A i \in 1 .. n : a[i] = c[i]
  BY AncestorType
<1>2. m \in 0 .. Len(a) /\ m \in 0 .. Len(c)
  BY <1>1
<1> HIDE DEF a
<1>3. s \in Seq(S) /\ Len(s) = m /\ \A i \in 1 .. m : s[i] = a[i]
  BY <1>1, <1>2, AncestorType
<1>4. t \in Seq(S) /\ Len(t) = m /\ \A i \in 1 .. m : t[i] = c[i]
  BY <1>2, AncestorType
<1> HIDE DEF s, t
<1>5. \A i \in 1 .. Len(s) : s[i] = t[i]
  BY <1>1, <1>3, <1>4
<1>6. s = t
  BY <1>3, <1>4, <1>5, SeqEqual
<1> QED
  BY <1>6 DEF s, t, a

\* A block is its own ancestor.
LEMMA AncestorOfItself ==
  ASSUME NEW S, NEW c \in Seq(S)
  PROVE  Ancestor(c, Len(c)) = c
BY SubSeqFull DEF Ancestor

\* A history that is not empty is a block.
LEMMA BlockIsNotEmpty ==
  ASSUME NEW b \in Seq(Bodies), Len(b) # 0
  PROVE  b \in Blocks
BY DEF Blocks

\* The block below.
LEMMA PreviousBlock ==
  ASSUME NEW b \in Blocks
  PROVE  /\ b \in Seq(Bodies) /\ Len(b) \in Nat \ {0}
         /\ previous(b) = Ancestor(b, Len(b) - 1)
         /\ previous(b) \in Seq(Bodies) /\ Len(previous(b)) = Len(b) - 1
         /\ body(b) \in Bodies
<1>1. b \in Seq(Bodies) /\ Len(b) \in Nat \ {0} /\ Len(b) - 1 \in 0 .. Len(b)
  BY DEF Blocks
<1>2. previous(b) = Ancestor(b, Len(b) - 1)
  BY DEF previous, Ancestor
<1> QED
  BY <1>1, <1>2, AncestorType DEF body

-----------------------------------------------------------------------------
\* The last irreversible block.

\* Every non-empty set of natural numbers has a least element.
LEMMA LeastNumber ==
  ASSUME NEW S \in SUBSET Nat, S # {}
  PROVE  \E n \in S : \A m \in S : n <= m
<1>1. PICK n \in S : \A m \in S : ~ (<<m, n>> \in OpToRel(<, Nat))
  BY NatLessThanWellFounded, WFMin, Zenon
<1>2. \A m \in S : ~ (m < n)
  BY <1>1, Zenon DEF OpToRel
<1> QED
  BY <1>2

\* A set of numbers with a bound has a largest element.
LEMMA LargestNumber ==
  ASSUME NEW K \in Nat, NEW S \in SUBSET (0 .. K), S # {}
  PROVE  \E n \in S : \A m \in S : m <= n
<1> DEFINE R == {K - n : n \in S}
<1>0. \A n \in S : K - n \in Nat
  OBVIOUS
<1>1. R \in SUBSET Nat /\ R # {}
  BY <1>0, Zenon
<1>2. PICK r \in R : \A q \in R : r <= q
  <2> HIDE DEF R
  <2> QED
    BY <1>1, LeastNumber
<1>3. PICK n \in S : r = K - n
  OBVIOUS
<1>4. \A m \in S : K - n <= K - m
  BY <1>2, <1>3
<1> QED
  BY <1>4

\* A witness has confirmed a block of the chain, or none.
LEMMA LastConfirmedType ==
  ASSUME NEW w, w.scheduled \in Nat \ {0}, NEW c \in Seq(Bodies), NEW i
  PROVE  last_confirmed(w, c, i) \in 0 .. Len(c)
<1> DEFINE own == {k \in 1 .. Len(c) : c[k].slot % w.scheduled = i}
<1>1. own \in SUBSET (0 .. Len(c)) /\ Len(c) \in Nat
  OBVIOUS
<1> SUFFICES ASSUME own # {}
             PROVE  (CHOOSE k \in own : \A j \in own : j <= k) \in 0 .. Len(c)
  BY DEF last_confirmed
<1> HIDE DEF own
<1>2. \E k \in own : \A j \in own : j <= k
  BY <1>1, LargestNumber, Zenon
<1> QED
  BY <1>1, <1>2, Zenon

\* Only the witness of the last block has confirmed it.
LEMMA LastConfirmedBelow ==
  ASSUME NEW w, w.scheduled \in Nat \ {0}, NEW c \in Seq(Bodies), Len(c) # 0, NEW i,
         c[Len(c)].slot % w.scheduled # i
  PROVE  last_confirmed(w, c, i) < Len(c)
<1> DEFINE own == {k \in 1 .. Len(c) : c[k].slot % w.scheduled = i}
<1>1. own \in SUBSET (0 .. Len(c)) /\ Len(c) \in Nat /\ \A k \in own : k < Len(c)
  OBVIOUS
<1>2. last_confirmed(w, c, i) = IF own = {} THEN 0 ELSE CHOOSE k \in own : \A j \in own : j <= k
  BY DEF last_confirmed
<1> HIDE DEF own
<1>3. CASE own = {}
  BY <1>1, <1>2, <1>3
<1>4. CASE own # {}
  <2>1. \E k \in own : \A j \in own : j <= k
    BY <1>1, <1>4, LargestNumber, Zenon
  <2>2. last_confirmed(w, c, i) \in own
    BY <1>2, <1>4, <2>1, Zenon
  <2> QED
    BY <1>1, <2>2, Zenon
<1> QED
  BY <1>3, <1>4

\* Of the numbers confirmed by the witnesses one is element offset in their order.
LEMMA ConfirmedType ==
  ASSUME NEW w, w.scheduled \in Nat \ {0}, NEW c \in Seq(Bodies)
  PROVE  /\ Confirmed(w, c) \in 0 .. Len(c)
         /\ Cardinality({i \in 0 .. w.scheduled - 1 : last_confirmed(w, c, i) < Confirmed(w, c)})
              <= (25 * w.scheduled) \div 100
<1> DEFINE N == w.scheduled
           last == [i \in 0 .. N - 1 |-> last_confirmed(w, c, i)]
           offset == (25 * N) \div 100
           upto(n) == {i \in 0 .. N - 1 : last[i] <= n}
           below(n) == {i \in 0 .. N - 1 : last[i] < n}
           C == {n \in 0 .. Len(c) : Cardinality(upto(n)) > offset}
<1>1. \A i \in 0 .. N - 1 : last[i] \in 0 .. Len(c)
  BY LastConfirmedType
<1>2. offset \in Nat /\ offset < N
  OBVIOUS
<1>3. /\ IsFiniteSet(0 .. N - 1) /\ Cardinality(0 .. N - 1) = N
      /\ Len(c) \in Nat
  <2>1. N \in Nat \ {0}
    OBVIOUS
  <2> HIDE DEF N
  <2>2. N - 1 \in Int /\ 0 \in Int /\ ~ (0 > N - 1) /\ N - 1 - 0 + 1 = N
    BY <2>1
  <2>3. IsFiniteSet(0 .. N - 1) /\ Cardinality(0 .. N - 1) = N - 1 - 0 + 1
    BY <2>2, FS_Interval
  <2> QED
    BY <2>2, <2>3
<1> HIDE DEF last, offset
<1>4. \A n : Cardinality(upto(n)) \in Nat
  <2> TAKE n
  <2>1. upto(n) \in SUBSET (0 .. N - 1)
    OBVIOUS
  <2> HIDE DEF upto
  <2>2. IsFiniteSet(upto(n))
    BY <1>3, <2>1, FS_Subset
  <2> QED
    BY <2>2, FS_CardinalityType
<1>5. upto(Len(c)) = 0 .. N - 1
  BY <1>1, <1>3
<1>6. Len(c) \in C
  <2> HIDE DEF upto
  <2> QED
    BY <1>2, <1>3, <1>5
<1>7. C \in SUBSET Nat
  BY <1>3
<1>8. PICK n \in C : \A m \in C : n <= m
  <2> HIDE DEF C
  <2> QED
    BY <1>6, <1>7, LeastNumber
<1>9. Cardinality(below(n)) <= offset
  <2>1. CASE n = 0
    <3>1. below(n) = {}
      BY <1>1, <2>1
    <3> HIDE DEF below
    <3> QED
      BY <1>2, <3>1, FS_EmptySet
  <2>2. CASE n # 0
    <3>1. n - 1 \in 0 .. Len(c) /\ n - 1 \notin C
      BY <1>3, <1>8, <2>2
    <3>2. below(n) = upto(n - 1)
      BY <1>1, <1>3
    <3> HIDE DEF below, upto
    <3> QED
      BY <1>2, <1>4, <3>1, <3>2
  <2> QED
    BY <2>1, <2>2
<1>10. \E k \in 0 .. Len(c) : /\ Cardinality({i \in DOMAIN last : last[i] < k}) <= offset
                              /\ Cardinality({i \in DOMAIN last : last[i] <= k}) > offset
  BY <1>8, <1>9, Zenon DEF last
<1>11. /\ Confirmed(w, c) \in 0 .. Len(c)
       /\ Cardinality({i \in DOMAIN last : last[i] < Confirmed(w, c)}) <= offset
  BY <1>10, Zenon DEF Confirmed, last, offset
<1>12. \A m : {i \in DOMAIN last : last[i] < m}
                = {i \in 0 .. w.scheduled - 1 : last_confirmed(w, c, i) < m}
  BY DEF last
<1> QED
  BY <1>11, <1>12, Zenon DEF offset

\* With two witnesses or more the last block is never confirmed by enough of them.
LEMMA ConfirmedBelow ==
  ASSUME NEW w, w.scheduled \in Nat, w.scheduled > 1, NEW c \in Seq(Bodies), Len(c) # 0
  PROVE  Confirmed(w, c) < Len(c)
<1> DEFINE N == w.scheduled
           own == c[Len(c)].slot % N
           S == {i \in 0 .. N - 1 : last_confirmed(w, c, i) < Len(c)}
           all == 0 .. N - 1
<1>0. N \in Nat /\ N > 1 /\ N \in Nat \ {0} /\ Len(c) \in Nat
  OBVIOUS
<1> SUFFICES ASSUME Confirmed(w, c) = Len(c) PROVE FALSE
  <2>1. Confirmed(w, c) \in 0 .. Len(c)
    BY <1>0, ConfirmedType, Zenon
  <2> QED
    BY <1>0, <2>1
<1>1. own \in all
  <2>1. c[Len(c)].slot \in Nat
    <3>1. c[Len(c)] \in Bodies
      BY <1>0
    <3> QED
      BY <3>1 DEF Bodies
  <2>2. \A x \in Nat : x % N \in 0 .. N - 1
    <3> HIDE DEF N
    <3> QED
      BY <1>0
  <2> QED
    BY <2>1, <2>2, Zenon
<1>2. Cardinality(S) <= (25 * N) \div 100
  BY <1>0, ConfirmedType
<1>3. all \ {own} \subseteq S
  BY <1>0, LastConfirmedBelow
<1>4. IsFiniteSet(all) /\ Cardinality(all) = N
  <2>1. N - 1 \in Int /\ 0 \in Int /\ ~ (0 > N - 1) /\ N - 1 - 0 + 1 = N
    BY <1>0
  <2> HIDE DEF N
  <2> QED
    BY <2>1, FS_Interval
<1>5. S \subseteq all
  OBVIOUS
<1> HIDE DEF N, own, S, all
<1>6. IsFiniteSet(S)
  BY <1>4, <1>5, FS_Subset
<1>7. Cardinality(all \ {own}) = N - 1
  BY <1>1, <1>4, FS_RemoveElement, Zenon
<1>8. Cardinality(all \ {own}) <= Cardinality(S) /\ Cardinality(S) \in Nat
  BY <1>3, <1>6, FS_Subset, FS_CardinalityType
<1> QED
  BY <1>0, <1>2, <1>7, <1>8

\* No block proposes a number above its own.
LEMMA CandidateType ==
  ASSUME NEW w, IsWorld(w), NEW c \in Seq(Bodies), NEW n \in 1 .. Len(c)
  PROVE  Candidate(w, c, n) \in 0 .. n
<1>1. w.scheduled \in Nat \ {0} /\ w.max_witnesses \in Nat
  BY DEF IsWorld
<1>2. n \in 0 .. Len(c)
  OBVIOUS
<1>3. Ancestor(c, n) \in Seq(Bodies) /\ Len(Ancestor(c, n)) = n
  BY <1>2, AncestorType
<1>4. Confirmed(w, Ancestor(c, n)) \in 0 .. n
  BY <1>1, <1>3, ConfirmedType, Zenon
<1>5. Larger(0, n - w.max_witnesses) \in 0 .. n
  BY <1>1 DEF Larger
<1> QED
  BY <1>4, <1>5 DEF Candidate

\* The numbers proposed along a chain.
Candidates(w, c) == {Candidate(w, c, n) : n \in 1 .. Len(c)} \cup {0}

\* The last irreversible block is a block of the chain, and the highest proposed.
LEMMA LastIrreversibleType ==
  ASSUME NEW w, IsWorld(w), NEW c \in Seq(Bodies)
  PROVE  /\ last_irreversible(w, c) \in 0 .. Len(c)
         /\ last_irreversible(w, c) \in Candidates(w, c)
         /\ \A m \in Candidates(w, c) : m <= last_irreversible(w, c)
<1> DEFINE cs == Candidates(w, c)
<1>1. \A n \in 1 .. Len(c) : Candidate(w, c, n) \in 0 .. Len(c)
  <2> TAKE n \in 1 .. Len(c)
  <2>1. Candidate(w, c, n) \in 0 .. n
    BY CandidateType
  <2> QED
    BY <2>1
<1>2. cs \in SUBSET (0 .. Len(c)) /\ cs # {} /\ Len(c) \in Nat
  BY <1>1 DEF Candidates
<1>3. last_irreversible(w, c) = CHOOSE n \in cs : \A m \in cs : m <= n
  BY DEF last_irreversible, Candidates
<1> HIDE DEF cs
<1>4. \E n \in cs : \A m \in cs : m <= n
  BY <1>2, LargestNumber, Zenon
<1> QED
  BY <1>2, <1>3, <1>4 DEF cs

\* With two witnesses or more the head block is never irreversible.
LEMMA LastIrreversibleBelow ==
  ASSUME NEW w, IsWorld(w), w.scheduled > 1, w.max_witnesses > 0,
         NEW c \in Seq(Bodies), Len(c) # 0
  PROVE  last_irreversible(w, c) < Len(c)
<1>1. w.scheduled \in Nat \ {0} /\ w.max_witnesses \in Nat /\ Len(c) \in Nat
  BY DEF IsWorld
<1>2. ASSUME NEW n \in 1 .. Len(c)
      PROVE  Candidate(w, c, n) < Len(c)
  <2>1. n \in 0 .. Len(c) /\ n \in Nat /\ n # 0
    BY <1>1
  <2>2. Ancestor(c, n) \in Seq(Bodies) /\ Len(Ancestor(c, n)) = n
    BY <2>1, AncestorType
  <2>3. Confirmed(w, Ancestor(c, n)) < n
    BY <1>1, <2>1, <2>2, ConfirmedBelow
  <2>4. Confirmed(w, Ancestor(c, n)) \in 0 .. n
    BY <1>1, <2>1, <2>2, ConfirmedType, Zenon
  <2>5. Larger(0, n - w.max_witnesses) \in Nat /\ Larger(0, n - w.max_witnesses) < n
    BY <1>1, <2>1 DEF Larger
  <2>6. Candidate(w, c, n) \in {Larger(0, n - w.max_witnesses), Confirmed(w, Ancestor(c, n))}
    BY DEF Candidate
  <2>7. \A m \in Int : m < n => m < Len(c)
    BY <1>1, <2>1
  <2> QED
    BY <2>3, <2>4, <2>5, <2>6, <2>7
<1>3. last_irreversible(w, c) \in Candidates(w, c)
  BY LastIrreversibleType
<1> QED
  BY <1>1, <1>2, <1>3 DEF Candidates

\* It never moves back along a chain.
LEMMA LastIrreversibleGrows ==
  ASSUME NEW w, IsWorld(w), NEW c \in Seq(Bodies), NEW n \in 0 .. Len(c)
  PROVE  last_irreversible(w, Ancestor(c, n)) <= last_irreversible(w, c)
<1> DEFINE a == Ancestor(c, n)
<1>1. a \in Seq(Bodies) /\ Len(a) = n
  BY AncestorType
<1>2. \A m \in 1 .. n : Candidate(w, a, m) = Candidate(w, c, m)
  <2> TAKE m \in 1 .. n
  <2>1. Ancestor(a, m) = Ancestor(c, m)
    BY AncestorOfAncestor
  <2> QED
    BY <2>1 DEF Candidate
<1> HIDE DEF a
<1>3. Candidates(w, a) \subseteq Candidates(w, c)
  BY <1>1, <1>2 DEF Candidates
<1>4. last_irreversible(w, a) \in Candidates(w, a)
  BY <1>1, LastIrreversibleType
<1>5. last_irreversible(w, a) <= last_irreversible(w, c)
  BY <1>3, <1>4, LastIrreversibleType
<1> QED
  BY <1>5 DEF a

-----------------------------------------------------------------------------
\* Transactions.

\* A transaction that can be applied after the others extends them.
LEMMA AllApplyAppend ==
  ASSUME NEW ts \in Seq(Txs), NEW t \in Txs, NEW c, AllApply(ts, c), Applies(t, c, ts)
  PROVE  Append(ts, t) \in Seq(Txs) /\ AllApply(Append(ts, t), c)
<1> DEFINE us == Append(ts, t)
<1>1. /\ us \in Seq(Txs) /\ Len(us) = Len(ts) + 1 /\ us[Len(ts) + 1] = t
      /\ \A i \in 1 .. Len(ts) : us[i] = ts[i]
  BY AppendProperties
<1>2. ASSUME NEW i \in 1 .. Len(us)
      PROVE  Applies(us[i], c, SubSeq(us, 1, i - 1))
  <2> DEFINE p == SubSeq(us, 1, i - 1)
             q == SubSeq(ts, 1, i - 1)
  <2>1. i - 1 \in 0 .. Len(ts) /\ i - 1 \in 0 .. Len(us)
    BY <1>1
  <2>2. p \in Seq(Txs) /\ Len(p) = i - 1 /\ \A k \in 1 .. i - 1 : p[k] = us[k]
    <3> HIDE DEF us
    <3> QED
      BY <1>1, <2>1, AncestorType DEF Ancestor
  <2>3. q \in Seq(Txs) /\ Len(q) = i - 1 /\ \A k \in 1 .. i - 1 : q[k] = ts[k]
    BY <2>1, AncestorType DEF Ancestor
  <2> HIDE DEF p, q, us
  <2>4. \A k \in 1 .. Len(p) : p[k] = q[k]
    BY <1>1, <2>1, <2>2, <2>3
  <2>5. p = q
    BY <2>2, <2>3, <2>4, SeqEqual
  <2>6. CASE i <= Len(ts)
    <3>1. i \in 1 .. Len(ts) /\ us[i] = ts[i]
      BY <1>1, <2>6
    <3>2. Applies(ts[i], c, q)
      BY <3>1 DEF AllApply, q
    <3> QED
      BY <2>5, <3>1, <3>2, Zenon DEF p
  <2>7. CASE ~ (i <= Len(ts))
    <3>1. i = Len(ts) + 1 /\ us[i] = t /\ i - 1 = Len(ts)
      BY <1>1, <2>7
    <3>2. q = ts
      BY <3>1, SubSeqFull DEF q
    <3> QED
      BY <2>5, <3>1, <3>2, Zenon DEF p
  <2> QED
    BY <2>6, <2>7
<1> QED
  BY <1>1, <1>2 DEF AllApply

\* _push_transaction keeps the pending transactions applicable in their order.
LEMMA PushedApplies ==
  ASSUME NEW ts \in Seq(Txs), NEW t \in Txs, AllApply(ts, chain)
  PROVE  Pushed(t, ts) \in Seq(Txs) /\ AllApply(Pushed(t, ts), chain)
BY AllApplyAppend DEF Pushed

\* No transactions at all can always be applied.
LEMMA NothingApplies ==
  ASSUME NEW c
  PROVE  AllApply(<< >>, c)
BY DEF AllApply

\* One round of the loop of generate_block.
Pick(s, n, slot) ==
  IF Expiration[pending[n]] >= slot /\ Len(s) < MaxBlockTxs THEN Pushed(pending[n], s) ELSE s

\* f is what the loop has collected after each of its first N rounds.
IsPicked(f, slot, N) ==
  f = [n \in 0 .. N |-> IF n = 0 THEN << >> ELSE Pick(f[n - 1], n, slot)]

\* The loop can be followed for any number of rounds.
LEMMA PickedExists ==
  ASSUME NEW slot, NEW N \in Nat
  PROVE  \E f : IsPicked(f, slot, N)
<1> DEFINE C == {n \in Nat : ~ \E f : IsPicked(f, slot, n)}
<1> SUFFICES ASSUME C # {} PROVE FALSE
  OBVIOUS
<1>1. PICK n \in C : \A m \in C : n <= m
  BY LeastNumber, Zenon
<1>2. CASE n = 0
  <2> DEFINE f == [k \in 0 .. 0 |-> << >>]
  <2>1. IsPicked(f, slot, 0)
    BY DEF IsPicked
  <2> QED
    BY <1>2, <2>1
<1>3. CASE n # 0
  <2>1. n - 1 \in Nat /\ n - 1 \notin C
    BY <1>1, <1>3
  <2>2. PICK f : IsPicked(f, slot, n - 1)
    BY <2>1
  <2> DEFINE g == [k \in 0 .. n |-> IF k = n THEN Pick(f[n - 1], n, slot) ELSE f[k]]
             u(k) == IF k = n THEN Pick(f[n - 1], n, slot) ELSE f[k]
             v(k) == IF k = 0 THEN << >> ELSE Pick(g[k - 1], k, slot)
  <2>3. ASSUME NEW k \in 0 .. n
        PROVE  u(k) = v(k)
    <3>1. CASE k = n
      <4>1. g[n - 1] = f[n - 1]
        BY <2>1
      <4> QED
        BY <1>3, <3>1, <4>1
    <3>2. CASE k # n
      <4>1. k \in 0 .. n - 1
        BY <2>1, <3>2
      <4>2. f[k] = IF k = 0 THEN << >> ELSE Pick(f[k - 1], k, slot)
        BY <2>2, <4>1 DEF IsPicked
      <4>3. k # 0 => g[k - 1] = f[k - 1]
        BY <2>1, <4>1
      <4> QED
        BY <3>2, <4>2, <4>3
    <3> QED
      BY <3>1, <3>2
  <2>4. g = [k \in 0 .. n |-> v(k)]
    BY <2>3, Zenon
  <2>5. IsPicked(g, slot, n)
    BY <2>4 DEF IsPicked
  <2> QED
    BY <2>5
<1> QED
  BY <1>2, <1>3

\* The transactions of a generated block can be applied, in their order, on top of
\* the chain: no node that has the same chain finds fault with them.
LEMMA SelectedApplies ==
  ASSUME pending \in Seq(Txs), NEW slot
  PROVE  Selected(slot) \in Seq(Txs) /\ AllApply(Selected(slot), chain)
<1> DEFINE N == Len(pending)
           f == CHOOSE g : IsPicked(g, slot, N)
           P(n) == f[n] \in Seq(Txs) /\ AllApply(f[n], chain)
           C == {n \in 0 .. N : ~ P(n)}
<1>0. N \in Nat
  OBVIOUS
<1>1. IsPicked(f, slot, N)
  BY <1>0, PickedExists, Zenon
<1>2. Selected(slot) = f[N]
  BY DEF Selected, IsPicked, Pick
<1> HIDE DEF f
<1>3. ASSUME C # {}
      PROVE  FALSE
  <2>0. C \in SUBSET Nat
    BY <1>0
  <2>1. PICK n \in C : \A m \in C : n <= m
    <3> HIDE DEF C
    <3> QED
      BY <1>3, <2>0, LeastNumber
  <2>2. CASE n = 0
    <3>1. f[0] = << >>
      BY <1>0, <1>1 DEF IsPicked
    <3>2. << >> \in Seq(Txs) /\ AllApply(<< >>, chain)
      BY NothingApplies
    <3>3. P(0)
      BY <3>1, <3>2
    <3> QED
      BY <2>1, <2>2, <3>3
  <2>3. CASE n # 0
    <3>1. n - 1 \in 0 .. N /\ n - 1 \notin C /\ n \in 1 .. N
      BY <1>0, <2>1, <2>3
    <3>2. f[n - 1] \in Seq(Txs) /\ AllApply(f[n - 1], chain)
      BY <3>1
    <3>3. f[n] = Pick(f[n - 1], n, slot)
      BY <1>0, <1>1, <3>1 DEF IsPicked
    <3>4. pending[n] \in Txs
      BY <3>1
    <3>5. P(n)
      BY <3>2, <3>3, <3>4, PushedApplies DEF Pick
    <3> QED
      BY <2>1, <3>5
  <2> QED
    BY <2>2, <2>3
<1>4. P(N)
  BY <1>0, <1>3
<1> QED
  BY <1>2, <1>4

\* The ancestors of a valid block are valid.
LEMMA ValidAncestor ==
  ASSUME NEW c \in Seq(Bodies), IsValid(c), NEW n \in 0 .. Len(c)
  PROVE  IsValid(Ancestor(c, n))
<1> DEFINE a == Ancestor(c, n)
<1>1. a \in Seq(Bodies) /\ Len(a) = n /\ \A i \in 1 .. n : a[i] = c[i]
  BY AncestorType
<1>2. \A k \in 1 .. n : Ancestor(a, k - 1) = Ancestor(c, k - 1)
  BY AncestorOfAncestor
<1> HIDE DEF a
<1>3. \A k \in 1 .. Len(a) : AllApply(a[k].txs, Ancestor(a, k - 1))
  BY <1>1, <1>2 DEF IsValid
<1> QED
  BY <1>3 DEF IsValid, a

\* A block whose transactions can be applied on top of a valid chain is valid.
LEMMA ValidNext ==
  ASSUME NEW b \in Blocks, IsValid(previous(b)), AllApply(body(b).txs, previous(b))
  PROVE  IsValid(b)
<1> DEFINE p == previous(b)
<1>1. /\ b \in Seq(Bodies) /\ Len(b) \in Nat \ {0} /\ Len(p) = Len(b) - 1
      /\ p \in Seq(Bodies) /\ p = Ancestor(b, Len(b) - 1)
  BY PreviousBlock
<1>2. \A i \in 1 .. Len(b) - 1 : p[i] = b[i]
  <2>1. Len(b) - 1 \in 0 .. Len(b)
    BY <1>1
  <2>2. \A i \in 1 .. Len(b) - 1 : Ancestor(b, Len(b) - 1)[i] = b[i]
    BY <1>1, <2>1, AncestorType, Zenon
  <2> QED
    BY <1>1, <2>2
<1>3. \A k \in 1 .. Len(b) - 1 : Ancestor(p, k - 1) = Ancestor(b, k - 1)
  BY <1>1, AncestorOfAncestor
<1> HIDE DEF p
<1>4. ASSUME NEW k \in 1 .. Len(b)
      PROVE  AllApply(b[k].txs, Ancestor(b, k - 1))
  <2>1. CASE k = Len(b)
    BY <1>1, <2>1 DEF body, p
  <2>2. CASE k # Len(b)
    <3>1. k \in 1 .. Len(p) /\ k \in 1 .. Len(b) - 1
      BY <1>1, <2>2
    <3>2. AllApply(p[k].txs, Ancestor(p, k - 1))
      BY <3>1 DEF IsValid, p
    <3> QED
      BY <1>2, <1>3, <3>1, <3>2
  <2> QED
    BY <2>1, <2>2
<1> QED
  BY <1>4 DEF IsValid

\* What a block of a chain holds.
LEMMA BodyType ==
  ASSUME NEW c \in Seq(Bodies), NEW k \in 1 .. Len(c)
  PROVE  c[k].txs \in Seq(Txs) /\ c[k].slot \in Nat
<1>1. c[k] \in Bodies
  OBVIOUS
<1> QED
  BY <1>1 DEF Bodies

\* The elements of a sequence.
LEMMA Element ==
  ASSUME NEW S, NEW s \in Seq(S), NEW x
  PROVE  x \in Range(s) <=> \E i \in 1 .. Len(s) : s[i] = x
BY DEF Range

\* A valid chain has no transaction twice: one that the transaction index has
\* forgotten is kept out by its expiration.
LEMMA ValidHasNothingTwice ==
  ASSUME NEW c \in Seq(Bodies), IsValid(c)
  PROVE  \A j, k \in 1 .. Len(c) : \A t \in Range(c[j].txs) :
           /\ t \in Range(c[k].txs) => j = k
           /\ Cardinality({i \in 1 .. Len(c[j].txs) : c[j].txs[i] = t}) = 1
<1> SUFFICES ASSUME NEW j \in 1 .. Len(c), NEW k \in 1 .. Len(c), NEW t \in Range(c[j].txs)
             PROVE  /\ t \in Range(c[k].txs) => j = k
                    /\ Cardinality({i \in 1 .. Len(c[j].txs) : c[j].txs[i] = t}) = 1
  BY Zenon
<1>1. ASSUME NEW l \in 1 .. Len(c), NEW h \in 1 .. Len(c), l < h,
             t \in Range(c[l].txs), t \in Range(c[h].txs)
      PROVE  FALSE
  <2> DEFINE a == Ancestor(c, h - 1)
             ts == c[h].txs
  <2>1. ts \in Seq(Txs)
    BY BodyType
  <2>2. PICK i \in 1 .. Len(ts) : ts[i] = t
    <3>1. t \in Range(ts)
      BY <1>1
    <3> HIDE DEF ts
    <3> QED
      BY <2>1, <3>1, Element
  <2>3. Applies(t, a, SubSeq(ts, 1, i - 1))
    BY <1>1, <2>2 DEF IsValid, AllApply
  <2>4. h - 1 \in 0 .. Len(c) /\ l \in 1 .. h - 1
    BY <1>1
  <2>5. a \in Seq(Bodies) /\ Len(a) = h - 1 /\ a[l] = c[l]
    BY <2>4, AncestorType
  <2> HIDE DEF a
  <2>6. t \in TxsOf(a)
    BY <1>1, <2>4, <2>5 DEF TxsOf
  <2>7. a # << >>
    BY <2>4, <2>5
  <2>8. a[Len(a)] \in Bodies
    BY <2>5, <2>7
  <2>9. t \in Txs /\ HeadSlot(a) \in Nat
    <3>1. t \in Txs
      <4> HIDE DEF ts
      <4> QED
        BY <2>1, <2>2
    <3> QED
      BY <3>1, <2>7, <2>8, Zenon DEF HeadSlot, body, Bodies
  <2>10. Expiration[t] \in Nat
    BY <2>9, ChainAssumption
  <2>11. HeadSlot(a) < Expiration[t] /\ t \notin KnownTxs(a)
    BY <2>3, <2>7 DEF Applies
  <2> QED
    BY <2>6, <2>9, <2>10, <2>11 DEF KnownTxs
<1>2. ASSUME t \in Range(c[k].txs)
      PROVE  j = k
  BY <1>1, <1>2
<1> DEFINE ts == c[j].txs
           E == {i \in 1 .. Len(ts) : ts[i] = t}
<1>3. ts \in Seq(Txs)
  BY BodyType
<1>4. PICK i \in 1 .. Len(ts) : ts[i] = t
  <2>1. t \in Range(ts)
    OBVIOUS
  <2> HIDE DEF ts
  <2> QED
    BY <1>3, <2>1, Element
<1>5. ASSUME NEW l \in 1 .. Len(ts), NEW h \in 1 .. Len(ts), l < h, ts[l] = t, ts[h] = t
      PROVE  FALSE
  <2> DEFINE p == SubSeq(ts, 1, h - 1)
  <2>1. h - 1 \in 0 .. Len(ts) /\ l \in 1 .. h - 1
    BY <1>3, <1>5
  <2>2. Len(p) = h - 1 /\ p \in Seq(Txs) /\ p[l] = t
    <3> HIDE DEF ts
    <3> QED
      BY <1>3, <1>5, <2>1, AncestorType DEF Ancestor
  <2>3. t \notin Range(p)
    BY <1>5 DEF IsValid, AllApply, Applies
  <2> HIDE DEF p
  <2> QED
    BY <2>1, <2>2, <2>3 DEF Range
<1>6. E = {i}
  <2> HIDE DEF ts
  <2> QED
    BY <1>3, <1>4, <1>5
<1>7. Cardinality(E) = 1
  <2> HIDE DEF E
  <2> QED
    BY <1>6, FS_Singleton, Zenon
<1> QED
  BY <1>2, <1>7

-----------------------------------------------------------------------------
\* The fork database.

\* Its state: blocks, of which those with a pointer to the block below are not the
\* first of the chain.
ForkDbs ==
  [index : SUBSET Blocks, linked : SUBSET {b \in Blocks : Len(b) > 1},
   head : Blocks \cup {NoBlock}, max_size : Int]

\* reset() leaves a fork database.
LEMMA EmptyForkDbType ==
  EmptyForkDb \in ForkDbs
BY DEF EmptyForkDb, ForkDbs, DefaultMaxSize

\* start_block leaves a fork database.
LEMMA StartBlockType ==
  ASSUME NEW f \in ForkDbs, NEW b \in Blocks
  PROVE  start_block(f, b) \in ForkDbs
BY Zenon DEF start_block, ForkDbs

\* Erasing blocks leaves the head as it is.
LEMMA ErasedType ==
  ASSUME NEW f \in ForkDbs, NEW S
  PROVE  Erased(f, S) \in ForkDbs /\ Erased(f, S).head = f.head
BY Zenon DEF Erased, ForkDbs

\* After push_block there is a head.
LEMMA PushBlockType ==
  ASSUME NEW f \in ForkDbs, NEW b \in Blocks
  PROVE  push_block(f, b) \in ForkDbs /\ push_block(f, b).head \in Blocks
<1> DEFINE g == push_block(f, b)
           hd == IF f.head = NoBlock \/ num(b) > num(f.head) THEN b ELSE f.head
           lk == IF f.head # NoBlock /\ num(b) > 1 /\ b \notin f.index
                 THEN f.linked \cup {b} ELSE f.linked
<1>1. g = [f EXCEPT !.index = f.index \cup {b}, !.linked = lk, !.head = hd]
  BY DEF push_block, ForkDbs
<1>2. hd \in Blocks
  BY DEF ForkDbs
<1>3. lk \in SUBSET {c \in Blocks : Len(c) > 1}
  BY DEF ForkDbs, num
<1>4. f.index \cup {b} \in SUBSET Blocks
  BY DEF ForkDbs
<1> HIDE DEF hd, lk
<1> QED
  BY <1>1, <1>2, <1>3, <1>4, Zenon DEF ForkDbs

\* pop_block never takes the last block.
LEMMA PopBlockType ==
  ASSUME NEW f \in ForkDbs, CanPop(f)
  PROVE  pop_block(f) \in ForkDbs /\ pop_block(f).head \in Blocks
<1>1. f.head \in Blocks /\ Len(f.head) > 1
  BY DEF CanPop, ForkDbs
<1>2. previous(f.head) \in Seq(Bodies) /\ Len(previous(f.head)) = Len(f.head) - 1
  BY <1>1, PreviousBlock
<1>3. previous(f.head) \in Blocks
  <2>1. f.head \in Seq(Bodies) /\ Len(f.head) \in Nat
    BY <1>1 DEF Blocks
  <2>2. Len(previous(f.head)) # 0
    BY <1>1, <1>2, <2>1
  <2> QED
    BY <1>2, <2>2, BlockIsNotEmpty, Zenon
<1> QED
  BY <1>3 DEF pop_block, ForkDbs

\* set_max_size leaves the head as it is.
LEMMA SetMaxSizeType ==
  ASSUME NEW f \in ForkDbs, NEW n \in Int
  PROVE  set_max_size(f, n) \in ForkDbs /\ set_max_size(f, n).head = f.head
<1> DEFINE g == [f EXCEPT !.max_size = n]
<1>1. g \in ForkDbs /\ g.head = f.head
  BY DEF ForkDbs
<1> HIDE DEF g
<1>2. Erased(g, {b \in g.index : num(b) < Oldest(g)}) \in ForkDbs
  BY <1>1, ErasedType
<1>3. Erased(g, {b \in g.index : num(b) < Oldest(g)}).head = f.head
  BY <1>1, ErasedType
<1> QED
  BY <1>1, <1>2, <1>3 DEF set_max_size, g

\* What the fork database says is block n of the main branch is a block, if any.
LEMMA FetchType ==
  ASSUME NEW f \in ForkDbs, f.head \in Blocks, NEW n \in Nat \ {0}
  PROVE  fetch_block_on_main_branch_by_number(f, n) \in Blocks \cup {NoBlock}
<1> DEFINE blocks == {b \in f.index : num(b) = n}
<1>1. blocks \in SUBSET Blocks
  BY DEF ForkDbs
<1>2. blocks # {} => (CHOOSE b \in blocks : TRUE) \in Blocks
  BY <1>1
<1>3. walk_main_branch_to_num(f, n) \in Blocks \cup {NoBlock}
  <2>1. f.head \in Seq(Bodies)
    BY DEF Blocks
  <2>2. ASSUME n <= Len(f.head)
        PROVE  Ancestor(f.head, n) \in Blocks
    <3>1. n \in 0 .. Len(f.head)
      BY <2>1, <2>2
    <3>2. Ancestor(f.head, n) \in Seq(Bodies) /\ Len(Ancestor(f.head, n)) = n
      BY <2>1, <3>1, AncestorType
    <3> QED
      BY <3>2 DEF Blocks
  <2> QED
    BY <2>2 DEF walk_main_branch_to_num, num
<1> QED
  BY <1>2, <1>3 DEF fetch_block_on_main_branch_by_number

\* Two branches meet below both of their heads.
LEMMA ForkPointType ==
  ASSUME NEW first \in Blocks, NEW second \in Blocks
  PROVE  ForkPoint(first, second) \in 0 .. Len(first) - 1 /\ ForkPoint(first, second) < Len(second)
<1> DEFINE common == {n \in 0 .. num(first) - 1 :
                        n < num(second) /\ Ancestor(first, n) = Ancestor(second, n)}
<1>1. /\ first \in Seq(Bodies) /\ Len(first) \in Nat \ {0}
      /\ second \in Seq(Bodies) /\ Len(second) \in Nat \ {0}
  BY DEF Blocks
<1>2. Ancestor(first, 0) = << >> /\ Ancestor(second, 0) = << >>
  BY SubSeqEmpty DEF Ancestor
<1>3. 0 \in common
  BY <1>1, <1>2 DEF num
<1>4. common \in SUBSET (0 .. Len(first))
  BY <1>1 DEF num
<1>5. \E n \in common : \A m \in common : m <= n
  <2> HIDE DEF common
  <2> QED
    BY <1>1, <1>3, <1>4, LargestNumber, Zenon
<1>6. ForkPoint(first, second) \in common
  <2>1. ForkPoint(first, second) = CHOOSE n \in common : \A m \in common : m <= n
    BY DEF ForkPoint
  <2> HIDE DEF common
  <2> QED
    BY <1>5, <2>1
<1> QED
  BY <1>6 DEF num

\* The blocks of a branch.
LEMMA BranchAboveType ==
  ASSUME NEW b \in Seq(Bodies), NEW n \in 0 .. Len(b)
  PROVE  /\ BranchAbove(b, n) \in Seq(Blocks) /\ Len(BranchAbove(b, n)) = Len(b) - n
         /\ \A k \in 1 .. Len(b) - n : BranchAbove(b, n)[k] = Ancestor(b, n + k)
<1> DEFINE m == Len(b) - n
<1>1. m \in Nat
  OBVIOUS
<1>2. ASSUME NEW k \in 1 .. m
      PROVE  Ancestor(b, n + k) \in Blocks
  <2>1. n + k \in 0 .. Len(b) /\ n + k # 0
    OBVIOUS
  <2>2. Ancestor(b, n + k) \in Seq(Bodies) /\ Len(Ancestor(b, n + k)) = n + k
    BY <2>1, AncestorType
  <2> QED
    BY <2>1, <2>2 DEF Blocks
<1>3. BranchAbove(b, n) = [k \in 1 .. m |-> Ancestor(b, n + k)]
  BY DEF BranchAbove, num
<1> HIDE DEF m
<1>4. BranchAbove(b, n) \in [1 .. m -> Blocks]
  BY <1>2, <1>3
<1>5. BranchAbove(b, n) \in Seq(Blocks) /\ Len(BranchAbove(b, n)) = m
  BY <1>1, <1>4
<1> QED
  BY <1>3, <1>5 DEF m

-----------------------------------------------------------------------------
\* Types.

\* What each variable holds, and what is there whenever push_block needs it: a head of
\* the fork database, a branch to go back to, a block that is being applied.
TypeInv ==
  /\ world \in DOMAIN Worlds
  /\ chain \in Seq(Bodies) /\ depth \in 0 .. Len(chain)
  /\ fdb \in ForkDbs /\ log \in Seq(Blocks)
  /\ pending \in Seq(Txs) /\ popped \in Seq(Txs) /\ stash \in Seq(Txs)
  /\ pc \in {"idle", "pop", "apply", "commit", "append", "finish", "restore_pending"}
  /\ mode \in {"push", "switch", "back"}
  /\ todo \in Seq(Blocks) /\ old \in Seq(Blocks)
  /\ before.irreversible \in Seq(Bodies)
  /\ pc # "idle" => fdb.head \in Blocks
  /\ mode # "push" => old # << >>
  /\ pc \in {"commit", "append", "finish"} => chain # << >> /\ todo # << >>

\* The last irreversible block is a block of the chain.
LEMMA LibType ==
  ASSUME world \in DOMAIN Worlds, NEW c \in Seq(Bodies)
  PROVE  Lib(c) \in 0 .. Len(c)
BY ChainAssumption, LastIrreversibleType DEF Lib

\* A block that a caller sees irreversible.
LEMMA SeenType ==
  ASSUME TypeInv
  PROVE  SeenIrreversible \in Seq(Bodies)
<1>1. Ancestor(chain, Lib(chain)) \in Seq(Bodies)
  BY LibType, AncestorType DEF TypeInv
<1> QED
  BY <1>1 DEF SeenIrreversible, TypeInv

\* The node is opened with a chain that has the types.
LEMMA InitType ==
  Init => TypeInv
<1> SUFFICES ASSUME Init PROVE TypeInv
  OBVIOUS
<1>1. chain \in Seq(Bodies) /\ depth \in 0 .. Len(chain) /\ world \in DOMAIN Worlds
  BY StartAssumption DEF Init
<1>2. fdb \in ForkDbs
  BY StartAssumption, EmptyForkDbType, StartBlockType DEF Init, Blocks
<1>3. log \in Seq(Blocks)
  <2>1. 0 \in 0 .. Len(Start)
    BY StartAssumption
  <2> QED
    BY <2>1, StartAssumption, BranchAboveType DEF Init
<1>4. before.irreversible \in Seq(Bodies)
  BY StartAssumption DEF Init
<1> QED
  BY <1>1, <1>2, <1>3, <1>4 DEF Init, TypeInv

\* push_block up to the first change of the chain.
LEMMA BeginPushType ==
  ASSUME TypeInv, pc = "idle", UNCHANGED world, NEW b \in Blocks, BeginPush(b)
  PROVE  TypeInv'
<1> DEFINE f == push_block(fdb, b)
           h == f.head
<1>1. f \in ForkDbs /\ h \in Blocks
  BY PushBlockType DEF TypeInv
<1>2. before'.irreversible \in Seq(Bodies)
  BY SeenType DEF BeginPush, Remember
<1>3. /\ world' \in DOMAIN Worlds /\ chain' \in Seq(Bodies) /\ depth' \in 0 .. Len(chain')
      /\ log' \in Seq(Blocks) /\ pending' \in Seq(Txs) /\ popped' \in Seq(Txs)
      /\ stash' \in Seq(Txs)
  BY DEF TypeInv, BeginPush
<1>4. CASE ~ CanPush(fdb, b)
  <2>1. fdb.head \in Blocks
    BY <1>4 DEF CanPush, TypeInv, ForkDbs
  <2> QED
    BY <1>2, <1>3, <1>4, <2>1 DEF TypeInv, BeginPush
<1>5. CASE CanPush(fdb, b)
  <2>1. fdb' = f
    BY <1>5 DEF BeginPush
  <2>2. CASE previous(h) = chain
    <3>1. mode' = "push" /\ todo' = <<b>> /\ old' = << >> /\ pc' = "apply"
      BY <1>5, <2>2 DEF BeginPush
    <3> HIDE DEF f
    <3> QED
      BY <1>1, <1>2, <1>3, <2>1, <3>1 DEF TypeInv
  <2>3. CASE previous(h) # chain /\ (num(h) <= num(chain) \/ ~ CanFetchBranches(f, h, chain))
    <3>1. pc' = "restore_pending" /\ UNCHANGED <<mode, todo, old>>
      BY <1>5, <2>3 DEF BeginPush
    <3> HIDE DEF f
    <3> QED
      BY <1>1, <1>2, <1>3, <2>1, <3>1, Zenon DEF TypeInv
  <2>4. CASE previous(h) # chain /\ ~ (num(h) <= num(chain)) /\ CanFetchBranches(f, h, chain)
    <3> DEFINE n == ForkPoint(h, chain)
    <3>1. /\ mode' = "switch" /\ pc' = "pop"
          /\ todo' = BranchAbove(h, n) /\ old' = BranchAbove(chain, n)
      BY <1>5, <2>4 DEF BeginPush
    <3>2. chain \in Blocks
      BY <1>1, <2>4 DEF CanFetchBranches, ForkDbs
    <3>3. n \in 0 .. Len(h) - 1 /\ n < Len(chain)
      BY <1>1, <3>2, ForkPointType, Zenon
    <3>4. h \in Seq(Bodies) /\ chain \in Seq(Bodies)
      BY <1>1, <3>2 DEF Blocks
    <3> HIDE DEF f, h, n
    <3>5. n \in 0 .. Len(h) /\ n \in 0 .. Len(chain)
      BY <3>3, <3>4
    <3>6. todo' \in Seq(Blocks)
      BY <3>1, <3>4, <3>5, BranchAboveType
    <3>7. old' \in Seq(Blocks) /\ Len(old') = Len(chain) - n
      BY <3>1, <3>4, <3>5, BranchAboveType, Zenon
    <3>8. old' # << >>
      BY <3>3, <3>4, <3>7
    <3>9. fdb'.head \in Blocks /\ fdb' \in ForkDbs
      BY <1>1, <2>1 DEF h
    <3> QED
      BY <1>2, <1>3, <3>1, <3>6, <3>7, <3>8, <3>9 DEF TypeInv
  <2> QED
    BY <2>2, <2>3, <2>4
<1> QED
  BY <1>4, <1>5

\* A generated block is a block.
LEMMA GeneratedType ==
  ASSUME TypeInv, NEW s \in HeadSlot(chain) + 1 .. Worlds[world].last
  PROVE  Append(chain, [slot |-> s, txs |-> Selected(s), fault |-> "none"]) \in Blocks
<1> DEFINE r == [slot |-> s, txs |-> Selected(s), fault |-> "none"]
<1>1. Selected(s) \in Seq(Txs)
  BY SelectedApplies DEF TypeInv
<1>2. HeadSlot(chain) \in Nat
  <2>1. CASE chain = << >>
    BY <2>1 DEF HeadSlot
  <2>2. CASE chain # << >>
    <3>1. chain \in Seq(Bodies) /\ Len(chain) \in 1 .. Len(chain)
      BY <2>2 DEF TypeInv
    <3> QED
      BY <2>2, <3>1, BodyType DEF HeadSlot, body
  <2> QED
    BY <2>1, <2>2
<1>3. s \in Nat
  <2>1. Worlds[world].last \in Nat
    BY ChainAssumption DEF TypeInv, IsWorld
  <2> QED
    BY <1>2, <2>1
<1>4. r \in Bodies
  BY <1>1, <1>3 DEF Bodies, Faults
<1> HIDE DEF r
<1>5. chain \in Seq(Bodies)
  BY DEF TypeInv
<1>6. Append(chain, r) \in Blocks
  BY <1>4, <1>5, AppendProperties DEF Blocks
<1> QED
  BY <1>6 DEF r

\* The chain after an undo.
LEMMA UndoneType ==
  ASSUME TypeInv
  PROVE  /\ Undone \in Seq(Bodies) /\ LessDeep \in 0 .. Len(Undone)
         /\ Len(Undone) - LessDeep = Len(chain) - depth /\ LessDeep <= depth
         /\ Undone = Ancestor(chain, Len(Undone)) /\ Len(Undone) \in 0 .. Len(chain)
<1>1. chain \in Seq(Bodies) /\ depth \in 0 .. Len(chain) /\ Len(chain) \in Nat
  BY DEF TypeInv
<1>2. CASE depth = 0
  <2>1. Undone = chain /\ LessDeep = 0
    BY <1>2 DEF Undone, LessDeep
  <2>2. Ancestor(chain, Len(chain)) = chain
    BY <1>1, AncestorOfItself
  <2> QED
    BY <1>1, <1>2, <2>1, <2>2
<1>3. CASE depth # 0
  <2>1. depth > 0 /\ Len(chain) - 1 \in 0 .. Len(chain)
    BY <1>1, <1>3
  <2>2. Undone = Ancestor(chain, Len(chain) - 1) /\ LessDeep = depth - 1
    BY <2>1 DEF Undone, LessDeep, previous, Ancestor
  <2>3. Undone \in Seq(Bodies) /\ Len(Undone) = Len(chain) - 1
    BY <1>1, <2>1, <2>2, AncestorType
  <2> QED
    BY <1>1, <2>1, <2>2, <2>3
<1> QED
  BY <1>2, <1>3

\* What follows an exception: of the chain's own state nothing is touched here.
LEMMA ApplyFailedType ==
  ASSUME TypeInv, pc # "idle", todo # << >>, UNCHANGED world, ApplyFailed,
         chain' \in Seq(Bodies), depth' \in 0 .. Len(chain')
  PROVE  TypeInv' /\ pc' \in {"pop", "restore_pending"}
<1>1. /\ world' \in DOMAIN Worlds /\ log' \in Seq(Blocks)
      /\ pending' \in Seq(Txs) /\ popped' \in Seq(Txs) /\ stash' \in Seq(Txs)
      /\ old' \in Seq(Blocks) /\ before'.irreversible \in Seq(Bodies)
  BY DEF TypeInv, ApplyFailed
<1>2. fdb \in ForkDbs /\ fdb.head \in Blocks /\ mode \in {"push", "switch", "back"}
  BY DEF TypeInv
<1>3. CASE mode = "push"
  <2>1. fdb' = remove(fdb, Head(todo)) /\ pc' = "restore_pending" /\ UNCHANGED <<mode, todo, old>>
    BY <1>3 DEF ApplyFailed
  <2>2. fdb' \in ForkDbs /\ fdb'.head \in Blocks
    BY <1>2, <2>1, ErasedType DEF remove
  <2> QED
    BY <1>1, <1>3, <2>1, <2>2 DEF TypeInv
<1>4. CASE mode = "switch"
  <2> DEFINE g == Erased(fdb, Range(todo))
  <2>1. fdb' = [g EXCEPT !.head = old[Len(old)]] /\ mode' = "back" /\ todo' = old /\ pc' = "pop"
        /\ old' = old
    BY <1>4 DEF ApplyFailed
  <2>2. g \in ForkDbs
    BY <1>2, ErasedType
  <2>3. old \in Seq(Blocks) /\ old # << >>
    BY <1>4 DEF TypeInv
  <2>4. old[Len(old)] \in Blocks
    BY <2>3
  <2> HIDE DEF g
  <2>5. fdb' \in ForkDbs /\ fdb'.head \in Blocks
    BY <2>1, <2>2, <2>4, Zenon DEF ForkDbs
  <2> QED
    BY <1>1, <2>1, <2>3, <2>5 DEF TypeInv
<1>5. CASE mode = "back"
  <2>1. pc' = "restore_pending" /\ UNCHANGED <<fdb, mode, todo, old>>
    BY <1>5 DEF ApplyFailed
  <2> QED
    BY <1>1, <1>2, <2>1 DEF TypeInv
<1> QED
  BY <1>2, <1>3, <1>4, <1>5

\* An exception after the block was applied keeps the types.
LEMMA LateFailureType ==
  ASSUME TypeInv, pc \in {"append", "finish"}, UNCHANGED world, LateFailure
  PROVE  TypeInv' /\ pc' \in {"pop", "restore_pending"}
<1>1. chain' = Undone /\ depth' = LessDeep /\ ApplyFailed
  BY DEF LateFailure
<1>2. chain' \in Seq(Bodies) /\ depth' \in 0 .. Len(chain')
  BY <1>1, UndoneType
<1>3. pc # "idle" /\ todo # << >>
  BY DEF TypeInv
<1> QED
  BY <1>1, <1>2, <1>3, ApplyFailedType

\* pop_block keeps the types.
LEMMA PopType ==
  ASSUME TypeInv, pop
  PROVE  TypeInv'
<1>1. CASE chain = previous(old[1]) \/ ~ IsKnownBlock(chain) \/ ~ CanPop(fdb)
  <2>1. /\ pc' \in {"apply", "restore_pending"}
        /\ UNCHANGED <<world, chain, depth, fdb, log, pending, popped, stash, mode, todo, old,
                       before>>
    BY <1>1 DEF pop
  <2>2. fdb.head \in Blocks
    BY DEF TypeInv, pop
  <2> QED
    BY <2>1, <2>2 DEF TypeInv
<1>2. CASE chain # previous(old[1]) /\ IsKnownBlock(chain) /\ CanPop(fdb)
  <2>1. /\ fdb' = pop_block(fdb) /\ chain' = Undone /\ depth' = LessDeep
        /\ popped' = body(chain).txs \o popped /\ pc' = "pop"
        /\ UNCHANGED <<world, log, pending, stash, mode, todo, old, before>>
    BY <1>2 DEF pop
  <2>2. fdb' \in ForkDbs /\ fdb'.head \in Blocks
    BY <1>2, <2>1, PopBlockType DEF TypeInv
  <2>3. chain' \in Seq(Bodies) /\ depth' \in 0 .. Len(chain')
    BY <2>1, UndoneType
  <2>4. chain \in Blocks
    <3>1. CASE chain \in fdb.index
      BY <3>1 DEF TypeInv, ForkDbs
    <3>2. CASE chain \in Range(log)
      BY <3>2, Element DEF TypeInv
    <3> QED
      BY <1>2, <3>1, <3>2 DEF IsKnownBlock
  <2>5. body(chain).txs \in Seq(Txs)
    <3>1. body(chain) \in Bodies
      BY <2>4, PreviousBlock
    <3> QED
      BY <3>1 DEF Bodies
  <2>6. popped' \in Seq(Txs)
    BY <2>1, <2>5, ConcatProperties DEF TypeInv
  <2> QED
    BY <2>1, <2>2, <2>3, <2>6 DEF TypeInv
<1> QED
  BY <1>1, <1>2

\* _apply_block keeps the types, whether the block is accepted or not.
LEMMA ApplyBlockType ==
  ASSUME TypeInv, apply_block
  PROVE  TypeInv'
<1>1. pc = "apply" /\ world' = world /\ fdb.head \in Blocks
  BY DEF apply_block, TypeInv
<1>2. CASE todo = << >>
  <2>1. /\ pc' = "restore_pending"
        /\ UNCHANGED <<world, chain, depth, fdb, log, pending, popped, stash, mode, todo, old,
                       before>>
    BY <1>2 DEF apply_block
  <2> QED
    BY <1>1, <2>1 DEF TypeInv
<1>3. CASE todo # << >> /\ CanApply(Head(todo))
  <2>1. /\ chain' = Head(todo) /\ depth' = depth + 1 /\ pc' = "commit"
        /\ UNCHANGED <<world, fdb, log, pending, popped, stash, mode, todo, old, before>>
    BY <1>3 DEF apply_block
  <2>2. Head(todo) \in Blocks
    BY <1>3 DEF TypeInv
  <2>3. previous(Head(todo)) = chain
    BY <1>3 DEF CanApply
  <2>4. chain' \in Seq(Bodies) /\ Len(chain') \in Nat \ {0} /\ Len(chain) = Len(chain') - 1
    BY <2>1, <2>2, <2>3, PreviousBlock
  <2>5. depth' \in 0 .. Len(chain') /\ chain' # << >>
    BY <2>1, <2>4 DEF TypeInv
  <2> QED
    BY <1>1, <1>3, <2>1, <2>4, <2>5 DEF TypeInv
<1>4. CASE todo # << >> /\ ~ CanApply(Head(todo))
  <2>1. ApplyFailed /\ UNCHANGED <<chain, depth>>
    BY <1>4 DEF apply_block
  <2>2. chain' \in Seq(Bodies) /\ depth' \in 0 .. Len(chain')
    BY <2>1 DEF TypeInv
  <2> QED
    BY <1>1, <1>4, <2>1, <2>2, ApplyFailedType
<1> QED
  BY <1>2, <1>3, <1>4

\* commit() keeps the types.
LEMMA CommitType ==
  ASSUME TypeInv, commit
  PROVE  TypeInv'
<1>1. Lib(chain) \in 0 .. Len(chain)
  BY LibType DEF TypeInv
<1>2. /\ pc = "commit" /\ pc' = "append"
      /\ UNCHANGED <<world, chain, fdb, log, pending, popped, stash, mode, todo, old, before>>
      /\ depth' = IF depth > num(chain) - Lib(chain) THEN num(chain) - Lib(chain) ELSE depth
  BY DEF commit
<1>3. depth' \in 0 .. Len(chain')
  BY <1>1, <1>2 DEF TypeInv, num
<1> QED
  BY <1>2, <1>3 DEF TypeInv

\* Appending to the block log keeps the types.
LEMMA AppendType ==
  ASSUME TypeInv, append
  PROVE  TypeInv'
<1> DEFINE b == fetch_block_on_main_branch_by_number(fdb, Len(log) + 1)
<1>1. pc = "append" /\ world' = world /\ fdb \in ForkDbs /\ fdb.head \in Blocks
  BY DEF append, TypeInv
<1>2. Lib(chain) \in 0 .. Len(chain) /\ Len(chain) \in Nat
  BY LibType DEF TypeInv
<1>3. CASE Len(log) >= Lib(chain)
  <2>1. /\ fdb' = set_max_size(fdb, num(chain) - Lib(chain) + 1) /\ pc' = "finish"
        /\ UNCHANGED <<world, chain, depth, log, pending, popped, stash, mode, todo, old,
                       before>>
    BY <1>3 DEF append
  <2>2. fdb' \in ForkDbs /\ fdb'.head = fdb.head
    <3> DEFINE n == num(chain) - Lib(chain) + 1
    <3>1. n \in Int
      BY <1>2 DEF num
    <3> HIDE DEF n
    <3>2. fdb' = set_max_size(fdb, n)
      BY <2>1 DEF n
    <3> QED
      BY <1>1, <3>1, <3>2, SetMaxSizeType
  <2> QED
    BY <1>1, <2>1, <2>2 DEF TypeInv
<1>4. CASE ~ (Len(log) >= Lib(chain)) /\ b # NoBlock
  <2>1. /\ log' = Append(log, b)
        /\ UNCHANGED <<world, chain, depth, fdb, pending, popped, stash, pc, mode, todo, old,
                       before>>
    BY <1>4 DEF append
  <2>2. b \in Blocks
    <3>1. Len(log) + 1 \in Nat \ {0}
      BY DEF TypeInv
    <3> QED
      BY <1>1, <1>4, <3>1, FetchType
  <2> HIDE DEF b
  <2>3. log' \in Seq(Blocks)
    BY <2>1, <2>2, AppendProperties DEF TypeInv
  <2> QED
    BY <2>1, <2>3 DEF TypeInv
<1>5. CASE ~ (Len(log) >= Lib(chain)) /\ b = NoBlock
  <2>1. LateFailure
    BY <1>5 DEF append
  <2> QED
    BY <1>1, <2>1, LateFailureType
<1> QED
  BY <1>3, <1>4, <1>5

\* The end of _apply_block keeps the types.
LEMMA FinishType ==
  ASSUME TypeInv, finish
  PROVE  TypeInv'
<1>1. pc = "finish" /\ world' = world
  BY DEF finish
<1>2. CASE body(chain).fault = "late"
  <2>1. LateFailure
    BY <1>2 DEF finish
  <2> QED
    BY <1>1, <2>1, LateFailureType
<1>3. CASE body(chain).fault # "late"
  <2>1. /\ todo' = Tail(todo) /\ pc' = "apply"
        /\ UNCHANGED <<world, chain, depth, fdb, log, pending, popped, stash, mode, old, before>>
    BY <1>3 DEF finish
  <2>2. todo' \in Seq(Blocks)
    <3>1. todo \in Seq(Blocks) /\ todo # << >>
      BY <1>1 DEF TypeInv
    <3> QED
      BY <2>1, <3>1, HeadTailProperties
  <2> QED
    BY <1>1, <2>1, <2>2 DEF TypeInv
<1> QED
  BY <1>2, <1>3

\* Restoring the pending transactions keeps the types.
LEMMA RestoreType ==
  ASSUME TypeInv, restore_pending
  PROVE  TypeInv'
<1>1. /\ pc = "restore_pending" /\ fdb.head \in Blocks
      /\ UNCHANGED <<world, chain, depth, fdb, log, mode, todo, old, before>>
  BY DEF restore_pending, TypeInv
<1>2. /\ pending' \in Seq(Txs) /\ popped' \in Seq(Txs) /\ stash' \in Seq(Txs)
      /\ pc' \in {"idle", "restore_pending"}
  <2>1. CASE popped # << >>
    <3>1. Head(popped) \in Txs /\ Tail(popped) \in Seq(Txs) /\ pending \in Seq(Txs)
      BY <2>1 DEF TypeInv
    <3>2. Pushed(Head(popped), pending) \in Seq(Txs)
      BY <3>1, AppendProperties DEF Pushed
    <3> QED
      BY <2>1, <3>1, <3>2, Zenon DEF restore_pending, TypeInv
  <2>2. CASE popped = << >> /\ stash # << >>
    <3>1. Head(stash) \in Txs /\ Tail(stash) \in Seq(Txs) /\ pending \in Seq(Txs)
      BY <2>2 DEF TypeInv
    <3>2. Pushed(Head(stash), pending) \in Seq(Txs)
      BY <3>1, AppendProperties DEF Pushed
    <3> QED
      BY <2>2, <3>1, <3>2, Zenon DEF restore_pending, TypeInv
  <2>3. CASE popped = << >> /\ stash = << >>
    BY <2>3 DEF restore_pending, TypeInv
  <2> QED
    BY <2>1, <2>2, <2>3
<1> QED
  BY <1>1, <1>2 DEF TypeInv

\* What undo_all() brings back is an ancestor of the head.
LEMMA BaseType ==
  ASSUME TypeInv
  PROVE  /\ Base \in Seq(Bodies) /\ Len(Base) = Len(chain) - depth
         /\ Base = Ancestor(chain, Len(chain) - depth)
<1>1. Len(chain) - depth \in 0 .. Len(chain) /\ chain \in Seq(Bodies)
  BY DEF TypeInv
<1> QED
  BY <1>1, AncestorType DEF Base, num

\* The chain a node is opened with.
Opened ==
  IF Base # << >> => num(Base) <= Len(log) /\ log[num(Base)] = Base
  THEN Base ELSE IF log = << >> THEN << >> ELSE log[Len(log)]

\* open() ends at a block, if it has any.
LEMMA OpenedType ==
  ASSUME TypeInv
  PROVE  Opened \in Seq(Bodies) /\ Len(Opened) \in Nat
<1>1. Base \in Seq(Bodies)
  BY BaseType
<1>2. log # << >> => log[Len(log)] \in Blocks
  BY DEF TypeInv
<1>3. Opened \in Seq(Bodies)
  BY <1>1, <1>2 DEF Opened, Blocks
<1> QED
  BY <1>3

\* A crash and the open() that follows it keep the types.
LEMMA CrashType ==
  ASSUME TypeInv, crash_and_open
  PROVE  TypeInv'
<1> DEFINE agrees == Base # << >> => num(Base) <= Len(log) /\ log[num(Base)] = Base
           fresh == [EmptyForkDb EXCEPT !.max_size = num(Opened) - Lib(Opened) + 1]
<1>1. /\ chain' = Opened /\ depth' = 0
      /\ fdb' = IF Opened = << >> THEN EmptyForkDb
                ELSE IF agrees THEN start_block(EmptyForkDb, Opened)
                ELSE start_block(fresh, Opened)
      /\ pending' = << >> /\ popped' = << >> /\ stash' = << >>
      /\ pc' = "idle" /\ mode' = "push" /\ todo' = << >> /\ old' = << >>
      /\ before' = [chain |-> Opened, txs |-> {}, irreversible |-> SeenIrreversible]
      /\ UNCHANGED <<world, log>>
  BY DEF crash_and_open, Opened
<1>2. Opened \in Seq(Bodies) /\ Len(Opened) \in Nat /\ world \in DOMAIN Worlds
  BY OpenedType DEF TypeInv
<1>3. Lib(Opened) \in 0 .. Len(Opened)
  BY <1>2, LibType
<1>4. fresh \in ForkDbs
  <2>1. num(Opened) - Lib(Opened) + 1 \in Int
    BY <1>2, <1>3 DEF num
  <2> QED
    BY <2>1, EmptyForkDbType DEF ForkDbs
<1> HIDE DEF fresh, agrees
<1>5. fdb' \in ForkDbs
  <2>1. Opened # << >> => Opened \in Blocks
    BY <1>2 DEF Blocks
  <2> QED
    BY <1>1, <1>4, <2>1, EmptyForkDbType, StartBlockType
<1>6. before'.irreversible \in Seq(Bodies)
  BY <1>1, SeenType
<1>7. depth' \in 0 .. Len(chain') /\ chain' \in Seq(Bodies)
  BY <1>1, <1>2
<1> QED
  BY <1>1, <1>5, <1>6, <1>7 DEF TypeInv

\* Every step keeps the types.
LEMMA TypeStep ==
  TypeInv /\ [Next]_vars => TypeInv'
<1> SUFFICES ASSUME TypeInv, [Next]_vars PROVE TypeInv'
  OBVIOUS
<1>1. CASE receive_block
  <2>1. PICK b \in Worlds[world].net : BeginPush(b)
    BY <1>1 DEF receive_block
  <2>2. b \in Blocks
    BY ChainAssumption DEF TypeInv, IsWorld, Blocks
  <2> QED
    BY <1>1, <2>1, <2>2, BeginPushType DEF receive_block
<1>2. CASE generate_block
  <2>1. PICK s \in HeadSlot(chain) + 1 .. Worlds[world].last :
          BeginPush(Append(chain, [slot |-> s, txs |-> Selected(s), fault |-> "none"]))
    BY <1>2 DEF generate_block
  <2>2. Append(chain, [slot |-> s, txs |-> Selected(s), fault |-> "none"]) \in Blocks
    BY GeneratedType
  <2> QED
    BY <1>2, <2>1, <2>2, BeginPushType DEF generate_block
<1>3. CASE push_transaction
  <2>1. PICK t \in Txs : pending' = Append(pending, t)
    BY <1>3 DEF push_transaction
  <2>2. pending' \in Seq(Txs)
    BY <2>1, AppendProperties DEF TypeInv
  <2>3. before'.irreversible \in Seq(Bodies)
    BY <1>3, SeenType DEF push_transaction, Remember
  <2> QED
    BY <1>3, <2>2, <2>3 DEF push_transaction, TypeInv
<1>4. CASE crash_and_open
  BY <1>4, CrashType
<1>5. CASE Step
  BY <1>5, PopType, ApplyBlockType, CommitType, AppendType, FinishType, RestoreType DEF Step
<1>6. CASE UNCHANGED vars
  BY <1>6 DEF TypeInv, vars
<1> QED
  BY <1>1, <1>2, <1>3, <1>4, <1>5, <1>6 DEF Next

\* Type correctness of the chain database, through every push_block, failure and crash.
THEOREM ChainTypeCorrect == Spec => []TypeInv
<1> QED
  BY InitType, TypeStep, PTL DEF Spec

-----------------------------------------------------------------------------
\* The branch that is being applied.

\* Block a is t or one of its ancestors.
IsOn(a, t) == Len(a) <= Len(t) /\ a = Ancestor(t, Len(a))

\* The blocks of s, and the head of the fork database f, lie on one branch.
OneBranch(f, s) == \E t \in Blocks : IsOn(f.head, t) /\ \A i \in 1 .. Len(s) : IsOn(s[i], t)

\* push_block changes, or is about to change, the chain; and a block is on top of it
\* that is not yet done.
Pushing == pc \in {"pop", "apply", "commit", "append", "finish"}

Applying == pc \in {"commit", "append", "finish"}

\* While blocks are applied the head of the fork database may be another block than
\* the chain's, but it is on the branch that is being applied: a sibling of the one block
\* that is pushed, or a block of the branch that is switched (back) to.
BranchInv ==
  /\ pc = "pop" => mode # "push"
  /\ Applying => chain = Head(todo)
  /\ Pushing /\ mode = "push" =>
       /\ Len(todo) <= 1
       /\ Applying => previous(fdb.head) = previous(chain)
       /\ ~ Applying /\ todo # << >> => previous(fdb.head) = chain
  /\ Pushing /\ mode # "push" =>
       /\ OneBranch(fdb, todo)
       /\ \A i \in 1 .. Len(old) : IsOn(old[i], old[Len(old)])

\* Two blocks of one branch have the same ancestors.
LEMMA OnOneBranch ==
  ASSUME NEW t \in Blocks, NEW a \in Blocks, NEW b \in Blocks, IsOn(a, t), IsOn(b, t),
         NEW n \in Nat, n <= Len(a), n <= Len(b)
  PROVE  Ancestor(a, n) = Ancestor(b, n)
<1>1. t \in Seq(Bodies) /\ Len(t) \in Nat /\ Len(a) \in Nat /\ Len(b) \in Nat
  BY DEF Blocks
<1>2. ASSUME NEW c, Len(c) \in Nat, IsOn(c, t), n <= Len(c)
      PROVE  Ancestor(c, n) = Ancestor(t, n)
  <2>1. Len(c) \in 0 .. Len(t) /\ n \in 0 .. Len(c) /\ c = Ancestor(t, Len(c))
    BY <1>1, <1>2 DEF IsOn
  <2>2. Ancestor(Ancestor(t, Len(c)), n) = Ancestor(t, n)
    BY <1>1, <2>1, AncestorOfAncestor
  <2> QED
    BY <2>1, <2>2, Zenon
<1> QED
  BY <1>1, <1>2, Zenon

\* The block below is on the same branch.
LEMMA PreviousOn ==
  ASSUME NEW t \in Blocks, NEW a \in Blocks, IsOn(a, t)
  PROVE  IsOn(previous(a), t)
<1>1. t \in Seq(Bodies) /\ Len(t) \in Nat /\ Len(a) \in Nat \ {0}
  BY DEF Blocks
<1>2. previous(a) = Ancestor(a, Len(a) - 1) /\ Len(previous(a)) = Len(a) - 1
  BY PreviousBlock
<1>3. /\ Len(a) \in 0 .. Len(t) /\ Len(a) - 1 \in 0 .. Len(a) /\ Len(a) - 1 <= Len(t)
      /\ a = Ancestor(t, Len(a))
  BY <1>1 DEF IsOn
<1>4. Ancestor(Ancestor(t, Len(a)), Len(a) - 1) = Ancestor(t, Len(a) - 1)
  BY <1>1, <1>3, AncestorOfAncestor
<1>5. previous(a) = Ancestor(t, Len(a) - 1)
  BY <1>2, <1>3, <1>4, Zenon
<1> QED
  BY <1>2, <1>3, <1>5 DEF IsOn

\* A block is on its own branch.
LEMMA OnItself ==
  ASSUME NEW t \in Blocks
  PROVE  IsOn(t, t)
<1>1. t \in Seq(Bodies) /\ Len(t) \in Nat
  BY DEF Blocks
<1> QED
  BY <1>1, AncestorOfItself DEF IsOn

\* The blocks that fetch_branch_from returns are on one branch, and its end is the last.
LEMMA BranchAboveOn ==
  ASSUME NEW t \in Blocks, NEW n \in Nat, n < Len(t)
  PROVE  LET s == BranchAbove(t, n)
         IN s[Len(s)] = t /\ \A i \in 1 .. Len(s) : IsOn(s[i], t)
<1> DEFINE s == BranchAbove(t, n)
<1>1. t \in Seq(Bodies) /\ Len(t) \in Nat /\ n \in 0 .. Len(t)
  BY DEF Blocks
<1>2. Len(s) = Len(t) - n /\ \A k \in 1 .. Len(t) - n : s[k] = Ancestor(t, n + k)
  BY <1>1, BranchAboveType
<1> HIDE DEF s
<1>3. ASSUME NEW i \in 1 .. Len(s)
      PROVE  IsOn(s[i], t)
  <2>1. s[i] = Ancestor(t, n + i) /\ n + i \in 0 .. Len(t)
    BY <1>1, <1>2
  <2>2. Len(s[i]) = n + i
    BY <1>1, <2>1, AncestorType
  <2> QED
    BY <1>1, <2>1, <2>2 DEF IsOn
<1>4. s[Len(s)] = t
  <2>1. Len(s) \in 1 .. Len(t) - n /\ n + Len(s) = Len(t)
    BY <1>1, <1>2
  <2>2. s[Len(s)] = Ancestor(t, Len(t))
    BY <1>2, <2>1
  <2> QED
    BY <1>1, <2>2, AncestorOfItself
<1> QED
  BY <1>3, <1>4 DEF s

\* BranchInv says nothing of the other places of push_block.
LEMMA NotPushing ==
  ASSUME pc' \in {"idle", "restore_pending"}
  PROVE  BranchInv'
BY DEF BranchInv, Pushing, Applying

\* push_block up to the first change of the chain.
LEMMA BeginPushBranch ==
  ASSUME TypeInv, NEW b \in Blocks, BeginPush(b)
  PROVE  BranchInv'
<1> DEFINE f == push_block(fdb, b)
           h == f.head
<1>1. f \in ForkDbs /\ h \in Blocks /\ chain' = chain
  BY PushBlockType DEF TypeInv, BeginPush
<1>2. CASE ~ CanPush(fdb, b)
  BY <1>2, NotPushing DEF BeginPush
<1>3. CASE CanPush(fdb, b)
  <2>1. fdb' = f
    BY <1>3 DEF BeginPush
  <2>2. CASE previous(h) = chain
    <3>1. mode' = "push" /\ todo' = <<b>> /\ pc' = "apply" /\ Len(<<b>>) = 1
      BY <1>3, <2>2 DEF BeginPush
    <3> HIDE DEF f
    <3> QED
      BY <1>1, <2>1, <2>2, <3>1 DEF BranchInv, Pushing, Applying
  <2>3. CASE previous(h) # chain /\ (num(h) <= num(chain) \/ ~ CanFetchBranches(f, h, chain))
    BY <1>3, <2>3, NotPushing DEF BeginPush
  <2>4. CASE previous(h) # chain /\ ~ (num(h) <= num(chain)) /\ CanFetchBranches(f, h, chain)
    <3> DEFINE n == ForkPoint(h, chain)
    <3>1. /\ mode' = "switch" /\ pc' = "pop"
          /\ todo' = BranchAbove(h, n) /\ old' = BranchAbove(chain, n)
      BY <1>3, <2>4 DEF BeginPush
    <3>2. chain \in Blocks
      BY <1>1, <2>4 DEF CanFetchBranches, ForkDbs
    <3>3. n \in 0 .. Len(h) - 1 /\ n < Len(chain)
      BY <1>1, <3>2, ForkPointType, Zenon
    <3>4. Len(h) \in Nat
      BY <1>1 DEF Blocks
    <3> HIDE DEF f, h, n
    <3>5. n \in Nat /\ n < Len(h)
      BY <3>3, <3>4
    <3>6. \A i \in 1 .. Len(todo') : IsOn(todo'[i], h)
      BY <1>1, <3>1, <3>5, BranchAboveOn
    <3>7. \A i \in 1 .. Len(old') : IsOn(old'[i], old'[Len(old')])
      BY <3>1, <3>2, <3>3, <3>5, BranchAboveOn
    <3>8. IsOn(fdb'.head, h)
      BY <1>1, <2>1, OnItself DEF h
    <3>9. OneBranch(fdb', todo')
      BY <1>1, <3>6, <3>8, Zenon DEF OneBranch
    <3> QED
      BY <3>1, <3>7, <3>9, Zenon DEF BranchInv, Pushing, Applying, OneBranch, IsOn
  <2> QED
    BY <2>2, <2>3, <2>4
<1> QED
  BY <1>2, <1>3

\* An exception leads back to the branch that was left, if anywhere.
LEMMA ApplyFailedBranch ==
  ASSUME TypeInv, BranchInv, pc \in {"apply", "append", "finish"}, ApplyFailed
  PROVE  BranchInv'
<1>1. mode \in {"push", "switch", "back"} /\ fdb \in ForkDbs /\ fdb.head \in Blocks
  BY DEF TypeInv
<1>2. CASE mode # "switch"
  BY <1>1, <1>2, NotPushing, Zenon DEF ApplyFailed
<1>3. CASE mode = "switch"
  <2> DEFINE g == Erased(fdb, Range(todo))
             t == old[Len(old)]
  <2>1. /\ fdb' = [g EXCEPT !.head = t] /\ mode' = "back" /\ todo' = old /\ pc' = "pop"
        /\ old' = old
    BY <1>3 DEF ApplyFailed
  <2>2. \A i \in 1 .. Len(old) : IsOn(old[i], t)
    BY <1>3 DEF BranchInv, Pushing
  <2>3. g \in ForkDbs
    BY <1>1, ErasedType
  <2>4. t \in Blocks
    <3>1. old \in Seq(Blocks) /\ old # << >>
      BY <1>3 DEF TypeInv
    <3> QED
      BY <3>1
  <2> HIDE DEF g, t
  <2>5. fdb'.head = t
    BY <2>1, <2>3 DEF ForkDbs
  <2>6. OneBranch(fdb', todo')
    BY <2>1, <2>2, <2>4, <2>5, OnItself DEF OneBranch
  <2> QED
    BY <2>1, <2>2, <2>6 DEF BranchInv, Pushing, Applying, OneBranch, IsOn, t
<1> QED
  BY <1>2, <1>3

\* Every step leaves head and chain on one branch.
LEMMA BranchStep ==
  TypeInv /\ BranchInv /\ [Next]_vars => BranchInv'
<1> SUFFICES ASSUME TypeInv, BranchInv, [Next]_vars PROVE BranchInv'
  OBVIOUS
<1>1. CASE receive_block
  <2>1. PICK b \in Worlds[world].net : BeginPush(b)
    BY <1>1 DEF receive_block
  <2>2. b \in Blocks
    BY ChainAssumption DEF TypeInv, IsWorld, Blocks
  <2> QED
    BY <2>1, <2>2, BeginPushBranch
<1>2. CASE generate_block
  <2>1. PICK s \in HeadSlot(chain) + 1 .. Worlds[world].last :
          BeginPush(Append(chain, [slot |-> s, txs |-> Selected(s), fault |-> "none"]))
    BY <1>2 DEF generate_block
  <2> QED
    BY <2>1, GeneratedType, BeginPushBranch
<1>3. CASE push_transaction \/ crash_and_open \/ restore_pending
  <2>1. pc' \in {"idle", "restore_pending"}
    BY <1>3, Zenon DEF push_transaction, crash_and_open, restore_pending
  <2> QED
    BY <2>1, NotPushing
<1>4. CASE UNCHANGED vars
  BY <1>4, Zenon DEF BranchInv, Pushing, Applying, OneBranch, vars
<1>5. CASE pop
  <2>1. CASE chain = previous(old[1])
    <3>1. pc = "pop" /\ pc' = "apply" /\ UNCHANGED <<fdb, mode, todo, old>>
      BY <1>5, <2>1 DEF pop
    <3> QED
      BY <3>1 DEF BranchInv, Pushing, Applying, OneBranch
  <2>2. CASE chain # previous(old[1]) /\ (~ IsKnownBlock(chain) \/ ~ CanPop(fdb))
    BY <1>5, <2>2, NotPushing DEF pop
  <2>3. CASE chain # previous(old[1]) /\ IsKnownBlock(chain) /\ CanPop(fdb)
    <3>1. /\ pc = "pop" /\ pc' = "pop" /\ UNCHANGED <<mode, todo, old>>
          /\ fdb' = pop_block(fdb) /\ fdb \in ForkDbs /\ fdb.head \in Blocks
      BY <1>5, <2>3 DEF pop, TypeInv
    <3>2. fdb'.head = previous(fdb.head)
      BY <3>1 DEF pop_block, ForkDbs
    <3>3. PICK t \in Blocks : IsOn(fdb.head, t) /\ \A i \in 1 .. Len(todo) : IsOn(todo[i], t)
      BY <3>1 DEF BranchInv, Pushing, OneBranch
    <3>4. IsOn(fdb'.head, t)
      BY <3>1, <3>2, <3>3, PreviousOn
    <3>5. OneBranch(fdb', todo)
      BY <3>3, <3>4, Zenon DEF OneBranch
    <3> QED
      BY <3>1, <3>5 DEF BranchInv, Pushing, Applying, OneBranch
  <2> QED
    BY <2>1, <2>2, <2>3
<1>6. CASE apply_block
  <2>1. CASE todo = << >>
    BY <1>6, <2>1, NotPushing DEF apply_block
  <2>2. CASE todo # << >> /\ CanApply(Head(todo))
    <3>1. /\ pc = "apply" /\ pc' = "commit" /\ chain' = Head(todo)
          /\ UNCHANGED <<fdb, mode, todo, old>> /\ previous(Head(todo)) = chain
      BY <1>6, <2>2 DEF apply_block, CanApply
    <3> QED
      BY <2>2, <3>1 DEF BranchInv, Pushing, Applying, OneBranch
  <2>3. CASE todo # << >> /\ ~ CanApply(Head(todo))
    BY <1>6, <2>3, ApplyFailedBranch DEF apply_block
  <2> QED
    BY <2>1, <2>2, <2>3
<1>7. CASE commit
  BY <1>7 DEF commit, BranchInv, Pushing, Applying, OneBranch
<1>8. CASE append
  <2>1. pc = "append" /\ fdb \in ForkDbs
    BY <1>8 DEF append, TypeInv
  <2>2. CASE LateFailure
    BY <2>1, <2>2, ApplyFailedBranch DEF LateFailure
  <2>3. CASE ~ LateFailure
    <3>1. /\ pc' \in {"append", "finish"} /\ UNCHANGED <<chain, mode, todo, old>>
          /\ fdb' \in {fdb, set_max_size(fdb, num(chain) - Lib(chain) + 1)}
      BY <1>8, <2>3, Zenon DEF append
    <3>2. num(chain) - Lib(chain) + 1 \in Int
      BY LibType DEF TypeInv, num
    <3>3. fdb'.head = fdb.head
      BY <2>1, <3>1, <3>2, SetMaxSizeType
    <3> QED
      BY <2>1, <3>1, <3>3 DEF BranchInv, Pushing, Applying, OneBranch
  <2> QED
    BY <2>2, <2>3
<1>9. CASE finish
  <2>1. CASE LateFailure
    BY <1>9, <2>1, ApplyFailedBranch DEF finish, LateFailure
  <2>2. CASE ~ LateFailure
    <3>1. /\ pc = "finish" /\ pc' = "apply" /\ todo' = Tail(todo)
          /\ UNCHANGED <<chain, fdb, mode, old>>
      BY <1>9, <2>2 DEF finish
    <3>2. todo \in Seq(Blocks) /\ todo # << >>
      BY <3>1 DEF TypeInv
    <3>3. Len(todo') = Len(todo) - 1 /\ \A i \in 1 .. Len(todo') : todo'[i] = todo[i + 1]
      BY <3>1, <3>2
    <3>4. Len(todo) <= 1 => todo' = << >> /\ Len(todo') <= 1
      BY <3>1, <3>2
    <3>5. OneBranch(fdb, todo) => OneBranch(fdb, todo')
      BY <3>2, <3>3 DEF OneBranch
    <3> QED
      BY <3>1, <3>4, <3>5 DEF BranchInv, Pushing, Applying, OneBranch
  <2> QED
    BY <2>1, <2>2
<1> QED
  BY <1>1, <1>2, <1>3, <1>4, <1>5, <1>6, <1>7, <1>8, <1>9 DEF Next, Step

-----------------------------------------------------------------------------
\* The undo history.

\* What a step may do to the chain and its undo states.  It leaves them alone ...
Keeps == UNCHANGED <<world, chain, depth>> /\ (pc' = "commit" <=> pc = "commit")

\* ... takes one block off, if it has an undo state ...
Undoes == UNCHANGED world /\ chain' = Undone /\ depth' = LessDeep /\ "commit" \notin {pc, pc'}

\* ... or puts one on top; else it is commit or crash_and_open.
Extends ==
  /\ UNCHANGED world /\ chain' = Head(todo) /\ depth' = depth + 1
  /\ pc = "apply" /\ pc' = "commit" /\ todo # << >> /\ CanApply(Head(todo))

\* How a step changes chain, undo history and program counter: one of the moves above.
LEMMA ChainMoves ==
  TypeInv /\ [Next]_vars => Keeps \/ Undoes \/ Extends \/ commit \/ crash_and_open
<1> SUFFICES ASSUME TypeInv, [Next]_vars
             PROVE  Keeps \/ Undoes \/ Extends \/ commit \/ crash_and_open
  OBVIOUS
<1>1. ASSUME NEW b, BeginPush(b), pc = "idle", UNCHANGED world
      PROVE  Keeps
  <2>1. pc' \in {"restore_pending", "apply", "pop"} /\ UNCHANGED <<chain, depth>>
    BY <1>1 DEF BeginPush
  <2> QED
    BY <1>1, <2>1 DEF Keeps
<1>2. CASE receive_block \/ generate_block
  BY <1>1, <1>2, Zenon DEF receive_block, generate_block
<1>3. CASE push_transaction \/ restore_pending \/ UNCHANGED vars
  BY <1>3 DEF push_transaction, restore_pending, vars, Keeps
<1>4. ASSUME pc \in {"append", "finish"}, UNCHANGED world, LateFailure
      PROVE  Undoes
  <2>1. pc' \in {"pop", "restore_pending"}
    BY <1>4, LateFailureType
  <2> QED
    BY <1>4, <2>1 DEF LateFailure, Undoes
<1>5. CASE pop
  BY <1>5 DEF pop, Keeps, Undoes
<1>6. CASE append
  BY <1>4, <1>6 DEF append, Keeps
<1>7. CASE finish
  BY <1>4, <1>7 DEF finish, Keeps
<1>8. CASE apply_block
  <2>1. CASE todo = << >>
    BY <1>8, <2>1 DEF apply_block, Keeps
  <2>2. CASE todo # << >> /\ CanApply(Head(todo))
    BY <1>8, <2>2 DEF apply_block, Extends
  <2>3. CASE todo # << >> /\ ~ CanApply(Head(todo))
    <3>1. /\ ApplyFailed /\ UNCHANGED <<world, chain, depth>> /\ pc = "apply"
          /\ chain \in Seq(Bodies) /\ depth \in 0 .. Len(chain)
      BY <1>8, <2>3 DEF apply_block, TypeInv
    <3>2. pc' \in {"pop", "restore_pending"}
      BY <2>3, <3>1, ApplyFailedType
    <3> QED
      BY <3>1, <3>2 DEF Keeps
  <2> QED
    BY <2>1, <2>2, <2>3
<1> QED
  BY <1>2, <1>3, <1>5, <1>6, <1>7, <1>8 DEF Next, Step

\* The undo states reach back no further than to the last irreversible block, but for
\* the moment between the application of a block and commit, and there are fewer of
\* them than SOPHIATX_MAX_UNDO_HISTORY.
UndoInv ==
  /\ pc # "commit" => depth <= num(chain) - Lib(chain)
  /\ depth < Worlds[world].max_undo

\* An ancestor has no higher last irreversible block.
LEMMA LibGrows ==
  ASSUME world \in DOMAIN Worlds, NEW c \in Seq(Bodies), NEW n \in 0 .. Len(c)
  PROVE  Lib(Ancestor(c, n)) <= Lib(c)
BY ChainAssumption, LastIrreversibleGrows DEF Lib

\* The undo history is empty when the node is opened.
LEMMA InitUndo ==
  Init => UndoInv
<1> SUFFICES ASSUME Init PROVE UndoInv
  OBVIOUS
<1>1. chain = Start /\ depth = 0 /\ Start \in Seq(Bodies) /\ world \in DOMAIN Worlds
  BY StartAssumption DEF Init
<1>2. Lib(chain) \in 0 .. Len(chain) /\ Len(chain) \in Nat
  BY <1>1, LibType
<1>3. Worlds[world].max_undo \in Nat \ {0}
  BY <1>1, ChainAssumption DEF IsWorld
<1> QED
  BY <1>1, <1>2, <1>3 DEF UndoInv, num

\* Every step keeps the bounds of the undo history.
LEMMA UndoStep ==
  TypeInv /\ UndoInv /\ [Next]_vars => UndoInv'
<1> SUFFICES ASSUME TypeInv, UndoInv, [Next]_vars PROVE UndoInv'
  OBVIOUS
<1>1. /\ world \in DOMAIN Worlds /\ chain \in Seq(Bodies) /\ Len(chain) \in Nat
      /\ depth \in 0 .. Len(chain)
  BY DEF TypeInv
<1>2. Worlds[world].max_undo \in Nat \ {0} /\ depth < Worlds[world].max_undo
  BY <1>1, ChainAssumption DEF IsWorld, UndoInv
<1>3. Lib(chain) \in 0 .. Len(chain)
  BY <1>1, LibType
<1>4. CASE Keeps
  BY <1>4 DEF Keeps, UndoInv, Lib, num
<1>5. CASE Undoes
  <2>1. depth <= Len(chain) - Lib(chain)
    BY <1>5 DEF Undoes, UndoInv, num
  <2>2. /\ Len(Undone) - LessDeep = Len(chain) - depth /\ LessDeep <= depth
        /\ Undone = Ancestor(chain, Len(Undone)) /\ Len(Undone) \in 0 .. Len(chain)
        /\ LessDeep \in 0 .. Len(Undone) /\ Undone \in Seq(Bodies)
    BY UndoneType
  <2>3. Lib(Undone) <= Lib(chain)
    BY <1>1, <2>2, LibGrows
  <2>4. Lib(Undone) \in 0 .. Len(Undone)
    BY <1>1, <2>2, LibType
  <2>5. LessDeep <= Len(Undone) - Lib(Undone)
    BY <1>1, <1>3, <2>1, <2>2, <2>3, <2>4
  <2>6. LessDeep < Worlds[world].max_undo
    BY <1>1, <1>2, <2>2
  <2>7. Lib(chain)' = Lib(Undone) /\ chain' = Undone /\ depth' = LessDeep /\ world' = world
    BY <1>5 DEF Undoes, Lib
  <2> QED
    BY <2>5, <2>6, <2>7 DEF UndoInv, num
<1>6. CASE Extends
  <2>1. /\ depth <= Len(chain) - Lib(chain) /\ Head(todo) \in Blocks
        /\ num(Head(todo)) - Lib(chain) < Worlds[world].max_undo
        /\ previous(Head(todo)) = chain
    BY <1>6 DEF Extends, UndoInv, CanApply, TypeInv, num
  <2>2. Len(chain) = Len(Head(todo)) - 1 /\ Len(Head(todo)) \in Nat
    BY <2>1, PreviousBlock
  <2>3. depth + 1 < Worlds[world].max_undo
    BY <1>1, <1>2, <1>3, <2>1, <2>2 DEF num
  <2> QED
    BY <1>6, <2>3 DEF Extends, UndoInv
<1>7. CASE commit
  <2>1. /\ UNCHANGED <<world, chain>>
        /\ depth' = IF depth > num(chain) - Lib(chain) THEN num(chain) - Lib(chain) ELSE depth
    BY <1>7 DEF commit
  <2>2. Lib(chain)' = Lib(chain)
    BY <2>1 DEF Lib
  <2>3. depth' <= Len(chain) - Lib(chain) /\ depth' <= depth
    BY <1>1, <1>3, <2>1 DEF num
  <2>4. depth' \in Int
    BY <1>1, <1>3, <2>1 DEF num
  <2>5. depth' < Worlds[world].max_undo
    BY <1>1, <1>2, <2>3, <2>4
  <2> QED
    BY <2>1, <2>2, <2>3, <2>5 DEF UndoInv, num
<1>8. CASE crash_and_open
  <2>1. chain' = Opened /\ depth' = 0 /\ world' = world
    BY <1>8 DEF crash_and_open, Opened
  <2>2. Lib(Opened) \in 0 .. Len(Opened) /\ Len(Opened) \in Nat
    BY <1>1, OpenedType, LibType
  <2>3. Lib(chain)' = Lib(Opened)
    BY <2>1 DEF Lib
  <2> QED
    BY <1>2, <2>1, <2>2, <2>3 DEF UndoInv, num
<1> QED
  BY <1>4, <1>5, <1>6, <1>7, <1>8, ChainMoves

-----------------------------------------------------------------------------
\* Pending transactions.

\* Outside push_block, and while its end puts them back, the pending transactions can
\* be applied in their order; in between there are none.
PendingInv ==
  IF pc \in {"idle", "restore_pending"} THEN AllApply(pending, chain) ELSE pending = << >>

\* Every step keeps the pending transactions applicable.
LEMMA PendingStep ==
  TypeInv /\ PendingInv /\ [Next]_vars => PendingInv'
<1> SUFFICES ASSUME TypeInv, PendingInv, [Next]_vars PROVE PendingInv'
  OBVIOUS
<1>1. ASSUME pending' = << >>
      PROVE  PendingInv'
  BY <1>1, NothingApplies DEF PendingInv
<1>2. CASE receive_block \/ generate_block \/ crash_and_open
  BY <1>1, <1>2, Zenon DEF receive_block, generate_block, BeginPush, crash_and_open
<1>3. CASE push_transaction
  <2>1. PICK t \in Txs : Applies(t, chain, pending) /\ pending' = Append(pending, t)
    BY <1>3 DEF push_transaction
  <2>2. AllApply(pending, chain) /\ pending \in Seq(Txs)
    BY <1>3 DEF push_transaction, PendingInv, TypeInv
  <2>3. AllApply(pending', chain)
    BY <2>1, <2>2, AllApplyAppend
  <2> QED
    BY <1>3, <2>3 DEF push_transaction, PendingInv
<1>4. CASE restore_pending
  <2>1. AllApply(pending, chain) /\ pending \in Seq(Txs)
    BY <1>4 DEF restore_pending, PendingInv, TypeInv
  <2>2. AllApply(pending', chain)
    <3>1. CASE popped # << >>
      <4>1. Head(popped) \in Txs /\ pending' = Pushed(Head(popped), pending)
        BY <1>4, <3>1 DEF restore_pending, TypeInv
      <4> QED
        BY <2>1, <4>1, PushedApplies
    <3>2. CASE popped = << >> /\ stash # << >>
      <4>1. Head(stash) \in Txs /\ pending' = Pushed(Head(stash), pending)
        BY <1>4, <3>2 DEF restore_pending, TypeInv
      <4> QED
        BY <2>1, <4>1, PushedApplies
    <3>3. CASE popped = << >> /\ stash = << >>
      BY <1>4, <2>1, <3>3 DEF restore_pending
    <3> QED
      BY <3>1, <3>2, <3>3
  <2>3. chain' = chain /\ pc' \in {"idle", "restore_pending"}
    BY <1>4 DEF restore_pending
  <2> QED
    BY <2>2, <2>3 DEF PendingInv
<1>5. CASE pop \/ apply_block \/ commit \/ append \/ finish
  <2>1. pc \notin {"idle", "restore_pending"} /\ pending' = pending
    BY <1>5, Zenon DEF pop, apply_block, commit, append, finish, LateFailure, ApplyFailed
  <2> QED
    BY <1>1, <2>1 DEF PendingInv
<1>6. CASE UNCHANGED vars
  BY <1>6 DEF PendingInv, vars
<1> QED
  BY <1>2, <1>3, <1>4, <1>5, <1>6 DEF Next, Step

\* PendingApplies for every network and every history: whatever push_block, a fork
\* switch, a failure or a crash does, the pending transactions can be applied in their
\* order on top of the chain.
THEOREM AlwaysPendingApplies == Spec => []PendingApplies
<1>1. Init => PendingInv
  BY NothingApplies DEF Init, PendingInv
<1>2. PendingInv => PendingApplies
  BY DEF PendingInv, PendingApplies
<1> QED
  BY <1>1, <1>2, PendingStep, ChainTypeCorrect, PTL DEF Spec

\* The undo history for every network: it never reaches below the last irreversible
\* block between two calls, and start_undo_session never finds it full.
THEOREM UndoHistoryBounded == Spec => []UndoInv
<1> QED
  BY InitUndo, UndoStep, ChainTypeCorrect, PTL DEF Spec

-----------------------------------------------------------------------------
\* Irreversible blocks, while the process runs.

\* Two histories agree up to number n.
Agree(c, d, n) == \A k \in 0 .. n : Ancestor(c, k) = Ancestor(d, k)

\* As long as the process is not killed, the block that undo_all() would bring back
\* only moves up, and the chain above it changes without touching what is below.
LEMMA BaseMoves ==
  ASSUME TypeInv, [Next]_vars, ~ crash_and_open
  PROVE  /\ Len(chain) - depth <= Len(chain') - depth'
         /\ Agree(chain, chain', Len(chain) - depth)
<1>1. /\ world \in DOMAIN Worlds /\ chain \in Seq(Bodies) /\ Len(chain) \in Nat
      /\ depth \in 0 .. Len(chain)
  BY DEF TypeInv
<1>2. CASE Keeps
  <2>1. chain' = chain /\ depth' = depth
    BY <1>2 DEF Keeps
  <2> QED
    BY <1>1, <2>1 DEF Agree
<1>3. CASE Undoes
  <2>1. /\ Len(Undone) - LessDeep = Len(chain) - depth /\ LessDeep \in 0 .. Len(Undone)
        /\ Undone = Ancestor(chain, Len(Undone)) /\ Len(Undone) \in 0 .. Len(chain)
    BY UndoneType
  <2>2. \A k \in 0 .. Len(Undone) : Ancestor(Undone, k) = Ancestor(chain, k)
    BY <1>1, <2>1, AncestorOfAncestor
  <2>3. Len(chain) - depth <= Len(Undone)
    BY <1>1, <2>1
  <2> QED
    BY <1>1, <1>3, <2>1, <2>2, <2>3 DEF Undoes, Agree
<1>4. CASE Extends
  <2> DEFINE b == Head(todo)
  <2>1. chain' = b /\ depth' = depth + 1 /\ b \in Blocks /\ previous(b) = chain
    BY <1>4 DEF Extends, CanApply, TypeInv
  <2>2. /\ Len(chain) = Len(b) - 1 /\ Len(b) \in Nat \ {0} /\ b \in Seq(Bodies)
        /\ chain = Ancestor(b, Len(b) - 1)
    BY <2>1, PreviousBlock
  <2> HIDE DEF b
  <2>3. \A k \in 0 .. Len(b) - 1 : Ancestor(chain, k) = Ancestor(b, k)
    BY <2>2, AncestorOfAncestor
  <2> QED
    BY <1>1, <2>1, <2>2, <2>3 DEF Agree
<1>5. CASE commit
  <2>1. Lib(chain) \in 0 .. Len(chain)
    BY <1>1, LibType
  <2>2. /\ chain' = chain
        /\ depth' = IF depth > num(chain) - Lib(chain) THEN num(chain) - Lib(chain) ELSE depth
    BY <1>5 DEF commit
  <2> QED
    BY <1>1, <2>1, <2>2 DEF num, Agree
<1> QED
  BY <1>2, <1>3, <1>4, <1>5, ChainMoves

\* What callers have seen irreversible lies below everything that can be undone.
SeenInv ==
  /\ Len(before.irreversible) <= num(chain) - depth
  /\ before.irreversible = Ancestor(chain, Len(before.irreversible))

\* A block that is irreversible between two calls is below the undo history.
LEMMA SeenIsBelow ==
  ASSUME TypeInv, UndoInv, SeenInv
  PROVE  /\ SeenIrreversible \in Seq(Bodies) /\ Len(SeenIrreversible) <= num(chain) - depth
         /\ SeenIrreversible = Ancestor(chain, Len(SeenIrreversible))
<1>1. /\ world \in DOMAIN Worlds /\ chain \in Seq(Bodies) /\ Len(chain) \in Nat
      /\ depth \in 0 .. Len(chain) /\ before.irreversible \in Seq(Bodies)
  BY DEF TypeInv
<1>2. Lib(chain) \in 0 .. Len(chain)
  BY <1>1, LibType
<1>3. Len(Ancestor(chain, Lib(chain))) = Lib(chain) /\ Ancestor(chain, Lib(chain)) \in Seq(Bodies)
  BY <1>1, <1>2, AncestorType
<1>4. CASE pc = "idle" /\ Lib(chain) > num(before.irreversible)
  <2>1. SeenIrreversible = Ancestor(chain, Lib(chain)) /\ depth <= Len(chain) - Lib(chain)
    BY <1>4 DEF SeenIrreversible, UndoInv, num
  <2> QED
    BY <1>1, <1>2, <1>3, <2>1 DEF num
<1>5. CASE ~ (pc = "idle" /\ Lib(chain) > num(before.irreversible))
  BY <1>1, <1>5 DEF SeenIrreversible, SeenInv
<1> QED
  BY <1>4, <1>5

\* The callers' view changes only where Remember or open() records it.
LEMMA ViewMoves ==
  TypeInv /\ [Next]_vars => before'.irreversible \in {before.irreversible, SeenIrreversible}
<1> SUFFICES ASSUME TypeInv, [Next]_vars
             PROVE  before'.irreversible \in {before.irreversible, SeenIrreversible}
  OBVIOUS
<1>1. CASE receive_block \/ generate_block \/ push_transaction
  <2>1. ASSUME NEW b, BeginPush(b)
        PROVE  Remember
    BY <2>1 DEF BeginPush
  <2>2. Remember
    BY <1>1, <2>1, Zenon DEF receive_block, generate_block, push_transaction
  <2> QED
    BY <2>2 DEF Remember
<1>2. CASE crash_and_open
  BY <1>2 DEF crash_and_open
<1>3. CASE Step
  BY <1>3, Zenon DEF Step, pop, apply_block, commit, append, finish, restore_pending, LateFailure,
              ApplyFailed
<1>4. CASE UNCHANGED vars
  BY <1>4 DEF vars
<1> QED
  BY <1>1, <1>2, <1>3, <1>4 DEF Next

\* Every step of a running process keeps SeenInv.
LEMMA SeenStep ==
  TypeInv /\ UndoInv /\ SeenInv /\ [Next /\ ~ crash_and_open]_vars => SeenInv'
<1> SUFFICES ASSUME TypeInv, UndoInv, SeenInv, [Next /\ ~ crash_and_open]_vars
             PROVE  SeenInv'
  OBVIOUS
<1>1. CASE UNCHANGED vars
  BY <1>1 DEF SeenInv, vars
<1>2. CASE Next /\ ~ crash_and_open
  <2> DEFINE s == before'.irreversible
  <2>1. s \in {before.irreversible, SeenIrreversible}
    BY <1>2, ViewMoves
  <2>2. s \in Seq(Bodies) /\ Len(s) <= Len(chain) - depth /\ s = Ancestor(chain, Len(s))
    BY <2>1, SeenIsBelow DEF SeenInv, TypeInv, num
  <2>3. /\ Len(chain) - depth <= Len(chain') - depth'
        /\ Agree(chain, chain', Len(chain) - depth)
    BY <1>2, BaseMoves
  <2>4. /\ Len(chain) \in Nat /\ depth \in Nat /\ Len(chain') \in Nat /\ depth' \in Nat
        /\ Len(s) \in Nat
    <3>1. TypeInv'
      BY <1>2, TypeStep
    <3>2. chain' \in Seq(Bodies) /\ depth' \in 0 .. Len(chain')
      BY <3>1 DEF TypeInv
    <3>3. chain \in Seq(Bodies) /\ depth \in 0 .. Len(chain)
      BY DEF TypeInv
    <3> HIDE DEF s
    <3> QED
      BY <2>2, <3>2, <3>3
  <2> HIDE DEF s
  <2>5. Len(s) <= Len(chain') - depth' /\ s = Ancestor(chain', Len(s))
    BY <2>2, <2>3, <2>4 DEF Agree
  <2> QED
    BY <2>5 DEF SeenInv, s, num
<1> QED
  BY <1>1, <1>2

\* A process that is not killed.
Running == Init /\ [][Next /\ ~ crash_and_open]_vars

\* IrreversibleStays for every network, as long as the process runs: whatever the fork
\* database decides and however blocks fail, a block that callers have seen irreversible
\* is never undone.
THEOREM IrreversibleStaysRunning == Running => []IrreversibleStays
<1> DEFINE I == TypeInv /\ UndoInv /\ SeenInv
<1>1. Init => I
  <2> SUFFICES ASSUME Init PROVE SeenInv
    BY InitType, InitUndo
  <2>1. Start \in Seq(Bodies) /\ Len(Start) \in Nat /\ Ancestor(Start, Len(Start)) = Start
    BY StartAssumption, AncestorOfItself
  <2> QED
    BY <2>1 DEF Init, SeenInv, num
<1>2. I /\ [Next /\ ~ crash_and_open]_vars => I'
  BY TypeStep, UndoStep, SeenStep
<1>3. I => IrreversibleStays
  <2> SUFFICES ASSUME I PROVE IrreversibleStays
    OBVIOUS
  <2>1. /\ chain \in Seq(Bodies) /\ before.irreversible \in Seq(Bodies)
        /\ depth \in 0 .. Len(chain) /\ Len(chain) \in Nat
        /\ Len(before.irreversible) \in Nat
    BY DEF TypeInv
  <2>2. Len(before.irreversible) <= Len(chain)
    BY <2>1 DEF SeenInv, num
  <2> QED
    BY <2>1, <2>2 DEF SeenInv, IrreversibleStays, num
<1> HIDE DEF I
<1> QED
  BY <1>1, <1>2, <1>3, PTL DEF Running

-----------------------------------------------------------------------------
\* The block log, across crashes.

\* The chain is valid, and the log is its beginning, no part of which can be undone.
LogInv ==
  /\ IsValid(chain)
  /\ Len(log) <= num(chain) - depth
  /\ \A n \in 1 .. Len(log) : log[n] = Ancestor(chain, n)

\* A step that logs the next block of the chain.
Logs ==
  /\ Keeps /\ pc = "append" /\ pc' = "append" /\ Len(log) < Lib(chain)
  /\ log' = Append(log, Ancestor(chain, Len(log) + 1))

\* open() finds the block that the log ends with.
LEMMA OpenedIsLogged ==
  ASSUME TypeInv, LogInv
  PROVE  /\ Opened = Ancestor(chain, Len(log)) /\ Len(Opened) = Len(log)
         /\ Opened \in Seq(Bodies) /\ Len(log) \in 0 .. Len(chain)
<1>1. /\ chain \in Seq(Bodies) /\ Len(chain) \in Nat /\ depth \in 0 .. Len(chain)
      /\ log \in Seq(Blocks) /\ Len(log) \in Nat
  BY DEF TypeInv
<1>2. Len(log) <= Len(chain) - depth /\ Len(log) \in 0 .. Len(chain)
  BY <1>1 DEF LogInv, num
<1>3. Len(Ancestor(chain, Len(log))) = Len(log) /\ Ancestor(chain, Len(log)) \in Seq(Bodies)
  BY <1>1, <1>2, AncestorType
<1>4. /\ Base \in Seq(Bodies) /\ Len(Base) = Len(chain) - depth
      /\ Base = Ancestor(chain, Len(chain) - depth)
  BY BaseType
<1>5. Ancestor(chain, 0) = << >>
  BY SubSeqEmpty DEF Ancestor
<1>6. CASE Base = << >>
  <2>1. Opened = Base /\ Len(log) = 0
    BY <1>1, <1>2, <1>4, <1>6 DEF Opened
  <2> QED
    BY <1>2, <1>3, <1>5, <1>6, <2>1
<1>7. CASE Base # << >> /\ num(Base) <= Len(log) /\ log[num(Base)] = Base
  <2>1. Opened = Base /\ Len(log) = Len(chain) - depth
    BY <1>1, <1>2, <1>4, <1>7 DEF Opened, num
  <2> QED
    BY <1>2, <1>3, <1>4, <2>1
<1>8. CASE Base # << >> /\ ~ (num(Base) <= Len(log) /\ log[num(Base)] = Base)
  <2>1. Opened = IF log = << >> THEN << >> ELSE log[Len(log)]
    BY <1>8 DEF Opened
  <2>2. CASE log = << >>
    BY <1>2, <1>3, <1>5, <2>1, <2>2
  <2>3. CASE log # << >>
    <3>1. Len(log) \in 1 .. Len(log)
      BY <1>1, <2>3
    <3>2. log[Len(log)] = Ancestor(chain, Len(log))
      BY <3>1 DEF LogInv
    <3> QED
      BY <1>2, <1>3, <2>1, <2>3, <3>2
  <2> QED
    BY <2>2, <2>3
<1> QED
  BY <1>6, <1>7, <1>8

\* The log of a node that is opened holds its chain.
LEMMA InitLog ==
  Init => LogInv /\ Len(log) = Len(Start)
<1> SUFFICES ASSUME Init PROVE LogInv /\ Len(log) = Len(Start)
  OBVIOUS
<1>1. Start \in Seq(Bodies) /\ Len(Start) \in Nat /\ IsValid(Start) /\ 0 \in 0 .. Len(Start)
  BY StartAssumption
<1>2. chain = Start /\ depth = 0 /\ log = BranchAbove(Start, 0)
  BY DEF Init
<1>3. /\ Len(BranchAbove(Start, 0)) = Len(Start) - 0
      /\ \A k \in 1 .. Len(Start) - 0 : BranchAbove(Start, 0)[k] = Ancestor(Start, 0 + k)
  BY <1>1, BranchAboveType
<1>4. Len(log) = Len(Start) /\ \A k \in 1 .. Len(log) : log[k] = Ancestor(Start, k)
  BY <1>1, <1>2, <1>3
<1> QED
  BY <1>1, <1>2, <1>4 DEF LogInv, num

\* Whatever else a step does, the log stays the beginning of the chain if the step logs
\* nothing, or the next block of the chain.
LEMMA LogKept ==
  ASSUME TypeInv, UndoInv, LogInv, [Next]_vars, UNCHANGED log \/ Logs
  PROVE  LogInv'
<1>1. /\ world \in DOMAIN Worlds /\ chain \in Seq(Bodies) /\ Len(chain) \in Nat
      /\ depth \in 0 .. Len(chain) /\ log \in Seq(Blocks) /\ Len(log) \in Nat
  BY DEF TypeInv
<1>2. /\ IsValid(chain) /\ Len(log) <= Len(chain) - depth
      /\ \A n \in 1 .. Len(log) : log[n] = Ancestor(chain, n)
  BY DEF LogInv, num
<1>3. CASE crash_and_open
  <2>1. chain' = Opened /\ depth' = 0 /\ log' = log
    BY <1>3 DEF crash_and_open, Opened
  <2>2. /\ Opened = Ancestor(chain, Len(log)) /\ Len(Opened) = Len(log)
        /\ Opened \in Seq(Bodies) /\ Len(log) \in 0 .. Len(chain)
    BY OpenedIsLogged
  <2>3. IsValid(Opened)
    BY <1>1, <1>2, <2>2, ValidAncestor
  <2>4. \A n \in 0 .. Len(log) : Ancestor(Opened, n) = Ancestor(chain, n)
    BY <1>1, <2>2, AncestorOfAncestor
  <2>5. \A n \in 1 .. Len(log) : log[n] = Ancestor(Opened, n)
    BY <1>1, <1>2, <2>4
  <2> QED
    BY <1>1, <2>1, <2>2, <2>3, <2>5 DEF LogInv, num
<1>4. CASE Logs
  <2>1. /\ UNCHANGED <<world, chain, depth>> /\ pc = "append" /\ Len(log) < Lib(chain)
        /\ log' = Append(log, Ancestor(chain, Len(log) + 1))
    BY <1>4 DEF Logs, Keeps
  <2>2. Lib(chain) \in 0 .. Len(chain) /\ depth <= Len(chain) - Lib(chain)
    BY <1>1, <2>1, LibType DEF UndoInv, num
  <2>3. Len(log) + 1 \in 0 .. Len(chain) /\ Len(log) + 1 <= Len(chain) - depth
    BY <1>1, <2>1, <2>2
  <2>4. Ancestor(chain, Len(log) + 1) \in Blocks
    <3>1. /\ Ancestor(chain, Len(log) + 1) \in Seq(Bodies)
          /\ Len(Ancestor(chain, Len(log) + 1)) = Len(log) + 1
      BY <1>1, <2>3, AncestorType, Zenon
    <3> QED
      BY <1>1, <3>1, BlockIsNotEmpty
  <2>5. /\ Len(log') = Len(log) + 1 /\ log'[Len(log) + 1] = Ancestor(chain, Len(log) + 1)
        /\ \A n \in 1 .. Len(log) : log'[n] = log[n]
    BY <1>1, <2>1, <2>4, AppendProperties
  <2>6. \A n \in 1 .. Len(log') : log'[n] = Ancestor(chain, n)
    BY <1>1, <1>2, <2>5
  <2> QED
    BY <1>2, <2>1, <2>3, <2>5, <2>6 DEF LogInv, num
<1>5. CASE ~ crash_and_open /\ UNCHANGED log
  <2>1. /\ Len(chain) - depth <= Len(chain') - depth'
        /\ Agree(chain, chain', Len(chain) - depth)
    BY <1>5, BaseMoves
  <2>2. chain' \in Seq(Bodies) /\ Len(chain') \in Nat /\ depth' \in Nat
    BY TypeStep DEF TypeInv
  <2>3. IsValid(chain')
    <3>1. CASE Undoes
      <4>1. Undone = Ancestor(chain, Len(Undone)) /\ Len(Undone) \in 0 .. Len(chain)
        BY UndoneType
      <4> QED
        BY <1>1, <1>2, <3>1, <4>1, ValidAncestor DEF Undoes
    <3>2. CASE Extends
      <4>1. /\ chain' = Head(todo) /\ Head(todo) \in Blocks /\ previous(Head(todo)) = chain
            /\ AllApply(body(Head(todo)).txs, chain)
        BY <3>2 DEF Extends, CanApply, TypeInv
      <4> QED
        BY <1>2, <4>1, ValidNext
    <3>3. CASE Keeps \/ commit
      BY <1>2, <3>3 DEF Keeps, commit
    <3> QED
      BY <1>5, <3>1, <3>2, <3>3, ChainMoves
  <2>4. Len(log) <= Len(chain') - depth'
    BY <1>1, <1>2, <2>1, <2>2
  <2>5. \A n \in 1 .. Len(log) : log[n] = Ancestor(chain', n)
    <3>1. \A n \in 1 .. Len(log) : n \in 0 .. Len(chain) - depth
      BY <1>1, <1>2
    <3> QED
      BY <1>2, <2>1, <3>1 DEF Agree
  <2> QED
    BY <1>5, <2>3, <2>4, <2>5 DEF LogInv, num
<1> QED
  BY <1>3, <1>4, <1>5

\* Two witnesses at least are scheduled, and SOPHIATX_MAX_WITNESSES is not zero.
ManyWitnesses == Worlds[world].scheduled > 1 /\ Worlds[world].max_witnesses > 0

\* The fork database still holds the chain's own block of the number to be logged.
\* It may hold others of that number, and its head may be on any branch.
NextIsHeld ==
  pc = "append" /\ Len(log) < Lib(chain) => Ancestor(chain, Len(log) + 1) \in fdb.index

\* The fork database never holds infinitely many blocks.
LEMMA IndexStep ==
  TypeInv /\ IsFiniteSet(fdb.index) /\ [Next]_vars => IsFiniteSet(fdb'.index)
<1> SUFFICES ASSUME TypeInv, IsFiniteSet(fdb.index), [Next]_vars PROVE IsFiniteSet(fdb'.index)
  OBVIOUS
<1>0. fdb \in ForkDbs
  BY DEF TypeInv
<1>1. ASSUME NEW b, fdb'.index \subseteq fdb.index \cup {b}
      PROVE  IsFiniteSet(fdb'.index)
  BY <1>1, FS_AddElement, FS_Subset, Zenon
<1>2. ASSUME NEW b, BeginPush(b)
      PROVE  fdb'.index \subseteq fdb.index \cup {b}
  <2>1. push_block(fdb, b).index = fdb.index \cup {b}
    BY <1>0 DEF push_block, ForkDbs
  <2>2. fdb' \in {fdb, push_block(fdb, b)}
    BY <1>2, Zenon DEF BeginPush
  <2> QED
    BY <2>1, <2>2
<1>3. CASE receive_block \/ generate_block
  BY <1>1, <1>2, <1>3, Zenon DEF receive_block, generate_block
<1>4. CASE crash_and_open
  <2>1. ASSUME NEW c, NEW n
        PROVE  /\ EmptyForkDb.index = {} /\ start_block(EmptyForkDb, c).index = {c}
               /\ start_block([EmptyForkDb EXCEPT !.max_size = n], c).index = {c}
    BY DEF start_block, EmptyForkDb
  <2>2. \E c, n : fdb' \in {EmptyForkDb, start_block(EmptyForkDb, c),
                            start_block([EmptyForkDb EXCEPT !.max_size = n], c)}
    BY <1>4, Zenon DEF crash_and_open
  <2>3. PICK c, n : fdb' \in {EmptyForkDb, start_block(EmptyForkDb, c),
                              start_block([EmptyForkDb EXCEPT !.max_size = n], c)}
    BY <2>2, Zenon
  <2>4. fdb'.index \in {{}, {c}}
    BY <2>1, <2>3, Zenon
  <2> QED
    BY <1>1, <2>4
<1>5. \A S : Erased(fdb, S).index \subseteq fdb.index
  BY <1>0 DEF Erased, ForkDbs
<1>6. ASSUME ApplyFailed
      PROVE  fdb'.index \subseteq fdb.index
  <2>1. \A h : [Erased(fdb, Range(todo)) EXCEPT !.head = h].index = Erased(fdb, Range(todo)).index
    BY <1>0, ErasedType DEF ForkDbs
  <2>2. mode \in {"push", "switch", "back"}
    BY DEF TypeInv
  <2>3. \/ fdb' = fdb \/ fdb' = Erased(fdb, {Head(todo)})
        \/ fdb' = [Erased(fdb, Range(todo)) EXCEPT !.head = old[Len(old)]]
    BY <1>6, <2>2, Zenon DEF ApplyFailed, remove
  <2> QED
    BY <1>5, <2>1, <2>3, Zenon
<1>7. CASE pop
  <2>1. pop_block(fdb).index = fdb.index
    BY <1>0 DEF pop_block, ForkDbs
  <2>2. fdb' \in {fdb, pop_block(fdb)}
    BY <1>7, Zenon DEF pop
  <2> QED
    BY <2>1, <2>2
<1>8. CASE append
  <2> DEFINE s == num(chain) - Lib(chain) + 1
             g == [fdb EXCEPT !.max_size = s]
  <2>1. g.index = fdb.index /\ \A S : Erased(g, S).index \subseteq g.index
    BY <1>0 DEF Erased, ForkDbs
  <2>2. set_max_size(fdb, s).index \subseteq fdb.index
    BY <2>1 DEF set_max_size
  <2>3. ApplyFailed \/ fdb' = fdb \/ fdb' = set_max_size(fdb, s)
    BY <1>8, Zenon DEF append, LateFailure
  <2> HIDE DEF s, g
  <2> QED
    BY <1>1, <1>6, <2>2, <2>3
<1>9. CASE apply_block \/ finish
  <2>1. ApplyFailed \/ fdb' = fdb
    BY <1>9, Zenon DEF apply_block, finish, LateFailure
  <2> QED
    BY <1>1, <1>6, <2>1
<1>10. CASE push_transaction \/ commit \/ restore_pending \/ UNCHANGED vars
  BY <1>10 DEF push_transaction, commit, restore_pending, vars
<1> QED
  BY <1>3, <1>4, <1>7, <1>8, <1>9, <1>10 DEF Next, Step

\* The block that append is given is the chain's, if it is given one at all: with several
\* blocks of that number the walk starts from a head that is on the branch being applied.
LEMMA FetchedIsOwn ==
  ASSUME TypeInv, BranchInv, IsFiniteSet(fdb.index), ManyWitnesses, NextIsHeld,
         pc = "append", Len(log) < Lib(chain)
  PROVE  fetch_block_on_main_branch_by_number(fdb, Len(log) + 1)
           \in {NoBlock, Ancestor(chain, Len(log) + 1)}
<1> DEFINE n == Len(log) + 1
           own == Ancestor(chain, n)
           blocks == {b \in fdb.index : num(b) = n}
           h == fdb.head
<1>1. /\ world \in DOMAIN Worlds /\ chain \in Blocks /\ chain \in Seq(Bodies)
      /\ Len(chain) \in Nat \ {0} /\ Len(log) \in Nat /\ h \in Blocks /\ fdb \in ForkDbs
  BY DEF TypeInv, Blocks
<1>2. Lib(chain) \in 0 .. Len(chain) /\ Lib(chain) < Len(chain)
  <2>1. IsWorld(Worlds[world])
    BY <1>1, ChainAssumption
  <2> QED
    BY <1>1, <2>1, LibType, LastIrreversibleBelow DEF Lib, ManyWitnesses
<1>3. n \in Nat \ {0} /\ n < Len(chain) /\ n \in 0 .. Len(chain)
  BY <1>1, <1>2
<1>4. own \in blocks
  <2>1. Len(own) = n
    BY <1>1, <1>3, AncestorType
  <2>2. own \in fdb.index
    BY DEF NextIsHeld
  <2> QED
    BY <2>1, <2>2 DEF num
<1>5. IsFiniteSet(blocks)
  BY FS_Subset
<1>6. fetch_block_on_main_branch_by_number(fdb, n) =
        IF blocks = {} THEN NoBlock
        ELSE IF Cardinality(blocks) = 1 THEN CHOOSE b \in blocks : TRUE
        ELSE walk_main_branch_to_num(fdb, n)
  BY DEF fetch_block_on_main_branch_by_number
<1>7. \/ walk_main_branch_to_num(fdb, n) = NoBlock
      \/ n <= Len(h) /\ walk_main_branch_to_num(fdb, n) = Ancestor(h, n)
  BY DEF walk_main_branch_to_num, num
<1> HIDE DEF n, own, blocks, h
<1>8. CASE Cardinality(blocks) = 1
  <2>1. PICK x : blocks = {x}
    BY <1>5, <1>8, FS_Singleton, Zenon
  <2>2. (CHOOSE b \in blocks : TRUE) = own
    BY <1>4, <2>1
  <2> QED
    BY <1>4, <1>6, <1>8, <2>2, Zenon DEF n, own
<1>9. ASSUME n <= Len(h)
      PROVE  Ancestor(h, n) = Ancestor(chain, n)
  <2>1. CASE mode = "push"
    <3>1. previous(h) = previous(chain)
      BY <2>1 DEF BranchInv, Pushing, Applying, h
    <3>2. \A b \in Blocks : /\ b \in Seq(Bodies) /\ Len(b) \in Nat \ {0}
                            /\ previous(b) = Ancestor(b, Len(b) - 1)
                            /\ Len(previous(b)) = Len(b) - 1
      BY PreviousBlock
    <3>3. Len(h) = Len(chain) /\ h \in Seq(Bodies)
      BY <1>1, <3>1, <3>2
    <3>4. n \in 0 .. Len(chain) - 1 /\ Len(chain) - 1 \in 0 .. Len(chain)
      BY <1>1, <1>3
    <3>5. Ancestor(previous(h), n) = Ancestor(h, n)
      BY <1>1, <3>2, <3>3, <3>4, AncestorOfAncestor
    <3>6. Ancestor(previous(chain), n) = Ancestor(chain, n)
      BY <1>1, <3>2, <3>4, AncestorOfAncestor
    <3> QED
      BY <3>1, <3>5, <3>6, Zenon
  <2>2. CASE mode # "push"
    <3>1. PICK t \in Blocks : IsOn(h, t) /\ \A i \in 1 .. Len(todo) : IsOn(todo[i], t)
      BY <2>2 DEF BranchInv, Pushing, OneBranch, h
    <3>2. chain = todo[1] /\ 1 \in 1 .. Len(todo)
      <4>1. todo \in Seq(Blocks) /\ todo # << >> /\ chain = Head(todo)
        BY DEF TypeInv, BranchInv, Applying
      <4> QED
        BY <4>1
    <3>3. IsOn(chain, t)
      BY <3>1, <3>2
    <3> QED
      BY <1>1, <1>3, <1>9, <3>1, <3>3, OnOneBranch
  <2> QED
    BY <2>1, <2>2
<1>10. CASE Cardinality(blocks) # 1
  BY <1>4, <1>6, <1>7, <1>9, <1>10 DEF n
<1> QED
  BY <1>8, <1>10

\* Every step keeps the log on the chain.
LEMMA LogStep ==
  ASSUME TypeInv, UndoInv, BranchInv, IsFiniteSet(fdb.index), ManyWitnesses, NextIsHeld, LogInv,
         [Next]_vars
  PROVE  LogInv'
<1> SUFFICES UNCHANGED log \/ Logs
  BY LogKept
<1>1. CASE append
  <2> DEFINE b == fetch_block_on_main_branch_by_number(fdb, Len(log) + 1)
  <2>1. pc = "append" /\ Len(log) \in Nat /\ Lib(chain) \in Nat
    BY <1>1, LibType DEF append, TypeInv
  <2>2. CASE ~ (Len(log) >= Lib(chain)) /\ b # NoBlock
    <3>1. Len(log) < Lib(chain)
      BY <2>1, <2>2
    <3>2. b = Ancestor(chain, Len(log) + 1)
      BY <2>1, <2>2, <3>1, FetchedIsOwn
    <3>3. log' = Append(log, b) /\ UNCHANGED <<world, chain, depth, pc>>
      BY <1>1, <2>2 DEF append
    <3> QED
      BY <2>1, <3>1, <3>2, <3>3 DEF Logs, Keeps
  <2>3. CASE Len(log) >= Lib(chain) \/ b = NoBlock
    BY <1>1, <2>3, Zenon DEF append, LateFailure, ApplyFailed
  <2> QED
    BY <2>2, <2>3
<1>2. CASE ~ append
  BY <1>2, Zenon DEF Next, Step, receive_block, generate_block, BeginPush, push_transaction, pop,
                     apply_block, commit, finish, restore_pending, crash_and_open, LateFailure,
                     ApplyFailed, vars
<1> QED
  BY <1>1, <1>2

\* The log and the chain, for as long as the fork database holds the chain's blocks.
LEMMA LogInvariant ==
  Spec /\ ManyWitnesses /\ []NextIsHeld => [](TypeInv /\ LogInv)
<1> DEFINE I == /\ TypeInv /\ UndoInv /\ BranchInv /\ IsFiniteSet(fdb.index) /\ LogInv
                /\ ManyWitnesses
<1>1. Init /\ ManyWitnesses => I
  <2> SUFFICES ASSUME Init, ManyWitnesses PROVE I
    OBVIOUS
  <2>1. BranchInv
    BY DEF Init, BranchInv, Pushing, Applying
  <2>2. IsFiniteSet(fdb.index)
    <3>1. fdb.index = {} \/ fdb.index = {Start}
      BY DEF Init, EmptyForkDb, start_block
    <3> QED
      BY <3>1, FS_EmptySet, FS_Singleton, Zenon
  <2>3. LogInv
    BY InitLog
  <2> QED
    BY <2>1, <2>2, <2>3, InitType, InitUndo
<1>2. I /\ NextIsHeld /\ [Next]_vars => I'
  <2> SUFFICES ASSUME I, NextIsHeld, [Next]_vars PROVE I'
    OBVIOUS
  <2>1. world' = world
    BY ChainMoves DEF Keeps, Undoes, Extends, commit, crash_and_open
  <2>2. ManyWitnesses'
    BY <2>1 DEF ManyWitnesses
  <2>3. LogInv'
    BY LogStep
  <2>4. IsFiniteSet(fdb'.index)
    BY IndexStep
  <2> QED
    BY <2>2, <2>3, <2>4, TypeStep, UndoStep, BranchStep
<1>3. I => TypeInv /\ LogInv
  OBVIOUS
<1> HIDE DEF I
<1> QED
  BY <1>1, <1>2, <1>3, PTL DEF Spec

\* LogIsOnChain for every network, across crashes and failed fork switches: at every
\* moment the log is the beginning of the chain.  Two things are assumed.  The fork
\* database has not dropped the chain's own block of the number to be logged; it may
\* hold any others of that number, and update_last_irreversible_block may fail to find the
\* block.  And there are two witnesses or more, so that the head block, which the fork
\* database's head may be a sibling of, is not logged at once.
THEOREM AlwaysLogIsOnChain ==
  Spec /\ ManyWitnesses /\ []NextIsHeld => []LogIsOnChain
<1>1. TypeInv /\ LogInv => LogIsOnChain
  <2> SUFFICES ASSUME TypeInv, LogInv PROVE LogIsOnChain
    OBVIOUS
  <2>1. Len(chain) \in Nat /\ depth \in Nat /\ Len(log) \in Nat
    BY DEF TypeInv
  <2> QED
    BY <2>1 DEF LogInv, LogIsOnChain, num
<1> QED
  BY <1>1, LogInvariant, PTL

\* NoTransactionTwice for every network, across crashes: the transaction index may
\* forget a transaction, but only when its expiration keeps it out.  The assumptions
\* are those of AlwaysLogIsOnChain, since the log is what a node may be opened with.
THEOREM AlwaysNoTransactionTwice ==
  Spec /\ ManyWitnesses /\ []NextIsHeld => []NoTransactionTwice
<1>1. TypeInv /\ LogInv => NoTransactionTwice
  <2> SUFFICES ASSUME TypeInv, LogInv PROVE NoTransactionTwice
    OBVIOUS
  <2>1. chain \in Seq(Bodies) /\ IsValid(chain)
    BY DEF TypeInv, LogInv
  <2> QED
    BY <2>1, ValidHasNothingTwice, Zenon DEF NoTransactionTwice
<1> QED
  BY <1>1, LogInvariant, PTL

-----------------------------------------------------------------------------
\* Irreversible blocks across crashes.

\* The chain is valid; the log is its beginning and reaches exactly as far as the undo
\* states do, except while append is catching up; and it holds all that callers have
\* seen irreversible.
DiskInv ==
  /\ LogInv
  /\ pc # "append" => Len(log) = num(chain) - depth
  /\ pc = "append" => num(chain) - depth \in {Len(log), Lib(chain)}
  /\ Len(before.irreversible) <= Len(log)
  /\ before.irreversible = Ancestor(chain, Len(before.irreversible))

\* A step that leaves chain and log alone: append ends only when the log has caught up.
Quiet ==
  /\ Keeps /\ UNCHANGED log
  /\ pc = "append" => pc' = "append" \/ Len(log) >= Lib(chain)
  /\ pc' = "append" => pc = "append"

\* How a step changes chain, undo history and block log: one of the moves above.
LEMMA DiskMoves ==
  ASSUME TypeInv, FetchedIsOnChain, [Next]_vars, ~ crash_and_open
  PROVE  \/ Quiet \/ Logs
         \/ UNCHANGED log /\ pc' # "append" /\ pc # "append" /\ (Undoes \/ Extends)
         \/ UNCHANGED log /\ commit
<1>0. Keeps \/ Undoes \/ Extends \/ commit
  BY ChainMoves
<1>1. ASSUME NEW b, BeginPush(b), pc = "idle", UNCHANGED world
      PROVE  Quiet
  <2>1. pc' \in {"restore_pending", "apply", "pop"} /\ UNCHANGED <<chain, depth, log>>
    BY <1>1 DEF BeginPush
  <2> QED
    BY <1>1, <2>1, Zenon DEF Quiet, Keeps
<1>2. CASE receive_block \/ generate_block
  BY <1>1, <1>2, Zenon DEF receive_block, generate_block
<1>3. CASE push_transaction \/ restore_pending \/ UNCHANGED vars
  BY <1>3 DEF push_transaction, restore_pending, vars, Keeps, Quiet
<1>4. CASE commit
  BY <1>4 DEF commit
<1>5. CASE append
  <2> DEFINE b == fetch_block_on_main_branch_by_number(fdb, Len(log) + 1)
  <2>1. Len(log) \in Nat /\ Lib(chain) \in Nat
    BY LibType DEF TypeInv
  <2>2. CASE Len(log) >= Lib(chain)
    BY <1>5, <2>2 DEF append, Quiet, Keeps
  <2>3. CASE ~ (Len(log) >= Lib(chain))
    <3>1. b # NoBlock /\ b = Ancestor(chain, Len(log) + 1) /\ Len(log) < Lib(chain)
      BY <1>5, <2>1, <2>3 DEF append, FetchedIsOnChain
    <3>2. /\ log' = Append(log, b) /\ pc = "append"
          /\ UNCHANGED <<world, chain, depth, pc>>
      BY <1>5, <2>3, <3>1 DEF append
    <3> QED
      BY <3>1, <3>2 DEF Logs, Keeps
  <2> QED
    BY <2>2, <2>3
<1>6. CASE pop \/ apply_block \/ finish
  <2>1. UNCHANGED log /\ pc \notin {"append", "commit"}
    BY <1>6, Zenon DEF pop, apply_block, finish, LateFailure, ApplyFailed
  <2>2. pc' # "append"
    <3>1. ASSUME ApplyFailed
          PROVE  pc' \in {"pop", "restore_pending"}
      BY <3>1, Zenon DEF ApplyFailed, TypeInv
    <3> QED
      BY <1>6, <3>1 DEF pop, apply_block, finish, LateFailure
  <2> QED
    BY <1>0, <2>1, <2>2 DEF Quiet, commit
<1> QED
  BY <1>2, <1>3, <1>4, <1>5, <1>6 DEF Next, Step

\* A node is opened with all of its chain irreversible.
LEMMA InitDisk ==
  Init => DiskInv
<1> SUFFICES ASSUME Init PROVE DiskInv
  OBVIOUS
<1>1. Start \in Seq(Bodies) /\ Len(Start) \in Nat
  BY StartAssumption
<1>2. LogInv /\ Len(log) = Len(Start)
  BY InitLog
<1>3. chain = Start /\ depth = 0 /\ pc = "idle" /\ before.irreversible = Start
  BY DEF Init
<1>4. Ancestor(Start, Len(Start)) = Start
  BY <1>1, AncestorOfItself
<1> QED
  BY <1>1, <1>2, <1>3, <1>4 DEF DiskInv, num

\* The part of DiskInv about the callers' view: what a caller sees irreversible now is
\* in the log.
LEMMA SeenIsLogged ==
  ASSUME TypeInv, UndoInv, DiskInv
  PROVE  /\ SeenIrreversible \in Seq(Bodies) /\ Len(SeenIrreversible) <= Len(log)
         /\ SeenIrreversible = Ancestor(chain, Len(SeenIrreversible))
<1>1. /\ chain \in Seq(Bodies) /\ Len(chain) \in Nat /\ depth \in 0 .. Len(chain)
      /\ Len(log) \in Nat /\ before.irreversible \in Seq(Bodies)
      /\ Len(before.irreversible) \in Nat
  BY DEF TypeInv
<1>2. SeenInv
  BY <1>1 DEF SeenInv, DiskInv, LogInv, num
<1>3. /\ SeenIrreversible \in Seq(Bodies) /\ Len(SeenIrreversible) <= Len(chain) - depth
      /\ SeenIrreversible = Ancestor(chain, Len(SeenIrreversible))
  BY <1>2, SeenIsBelow DEF num
<1>4. CASE pc = "idle"
  BY <1>1, <1>3, <1>4 DEF DiskInv, LogInv, num
<1>5. CASE pc # "idle"
  BY <1>3, <1>5, Zenon DEF SeenIrreversible, DiskInv, LogInv
<1> QED
  BY <1>4, <1>5

\* Every step keeps DiskInv, given that append logs the chain's own blocks.
LEMMA DiskStep ==
  TypeInv /\ UndoInv /\ DiskInv /\ FetchedIsOnChain /\ [Next]_vars => DiskInv'
<1> SUFFICES ASSUME TypeInv, UndoInv, DiskInv, FetchedIsOnChain, [Next]_vars PROVE DiskInv'
  OBVIOUS
<1> DEFINE s == before'.irreversible
<1>1. /\ world \in DOMAIN Worlds /\ chain \in Seq(Bodies) /\ Len(chain) \in Nat
      /\ depth \in 0 .. Len(chain) /\ log \in Seq(Blocks) /\ Len(log) \in Nat
  BY DEF TypeInv
<1>2. Lib(chain) \in 0 .. Len(chain)
  BY <1>1, LibType
<1>3. s \in Seq(Bodies) /\ Len(s) \in Nat /\ Len(s) <= Len(log) /\ s = Ancestor(chain, Len(s))
  <2>1. s \in {before.irreversible, SeenIrreversible}
    BY ViewMoves
  <2>2. CASE s = before.irreversible
    BY <2>2 DEF DiskInv, LogInv, TypeInv
  <2>3. CASE s = SeenIrreversible
    BY <2>3, SeenIsLogged
  <2> QED
    BY <2>1, <2>2, <2>3
<1>4. /\ LogInv /\ Len(log) <= Len(chain) - depth
      /\ pc # "append" => Len(log) = Len(chain) - depth
      /\ pc = "append" => Len(chain) - depth \in {Len(log), Lib(chain)}
  BY DEF DiskInv, LogInv, num
<1> HIDE DEF s
<1>5. CASE crash_and_open
  <2>1. /\ chain' = Opened /\ depth' = 0 /\ UNCHANGED <<world, log>> /\ pc' = "idle"
    BY <1>5 DEF crash_and_open, Opened
  <2>2. /\ Opened = Ancestor(chain, Len(log)) /\ Len(Opened) = Len(log)
        /\ Len(log) \in 0 .. Len(chain)
    BY <1>4, OpenedIsLogged
  <2>3. s = Ancestor(Opened, Len(s))
    BY <1>1, <1>3, <2>2, AncestorOfAncestor
  <2>4. LogInv'
    BY <1>4, <2>1, LogKept
  <2> QED
    BY <1>1, <1>3, <2>1, <2>2, <2>3, <2>4 DEF DiskInv, num, s
<1>6. CASE Quiet
  <2>1. UNCHANGED <<world, chain, depth, log>> /\ Lib(chain)' = Lib(chain)
    BY <1>6 DEF Quiet, Keeps, Lib
  <2>2. /\ pc' # "append" => Len(log) = Len(chain) - depth
        /\ pc' = "append" => Len(chain) - depth \in {Len(log), Lib(chain)}
    BY <1>1, <1>2, <1>4, <1>6 DEF Quiet
  <2>3. LogInv'
    BY <1>4, <2>1, LogKept
  <2> QED
    BY <1>3, <2>1, <2>2, <2>3 DEF DiskInv, num, s
<1>7. CASE Logs
  <2>1. /\ UNCHANGED <<world, chain, depth>> /\ Lib(chain)' = Lib(chain) /\ pc' = "append"
        /\ pc = "append" /\ Len(log) < Lib(chain)
    BY <1>7 DEF Logs, Keeps, Lib
  <2>2. Len(chain) - depth = Lib(chain)
    BY <1>1, <1>2, <1>4, <2>1 DEF UndoInv, num
  <2>3. Len(s) <= Len(log')
    <3>1. log' = Append(log, Ancestor(chain, Len(log) + 1))
      BY <1>7 DEF Logs
    <3>2. Len(log') = Len(log) + 1
      BY <1>1, <3>1
    <3> QED
      BY <1>1, <1>3, <3>2
  <2>4. LogInv'
    BY <1>4, <1>7, LogKept
  <2> QED
    BY <1>3, <2>1, <2>2, <2>3, <2>4, Zenon DEF DiskInv, num, s
<1>8. CASE UNCHANGED log /\ commit
  <2>1. /\ UNCHANGED <<world, chain, log>> /\ Lib(chain)' = Lib(chain)
        /\ pc = "commit" /\ pc' = "append"
        /\ depth' = IF depth > Len(chain) - Lib(chain) THEN Len(chain) - Lib(chain) ELSE depth
    BY <1>8 DEF commit, Lib, num
  <2>2. Len(chain) - depth' \in {Len(log), Lib(chain)}
    BY <1>1, <1>2, <1>4, <2>1
  <2>3. LogInv'
    BY <1>4, <2>1, LogKept
  <2> QED
    BY <1>3, <2>1, <2>2, <2>3 DEF DiskInv, num, s
<1>9. CASE UNCHANGED log /\ pc' # "append" /\ pc # "append" /\ (Undoes \/ Extends)
      /\ ~ crash_and_open
  <2>1. Len(log) = Len(chain) - depth
    BY <1>4, <1>9
  <2>2. Agree(chain, chain', Len(chain) - depth)
    BY <1>9, BaseMoves
  <2>3. Len(chain') - depth' = Len(chain) - depth
    <3>1. CASE Undoes
      BY <3>1, UndoneType DEF Undoes
    <3>2. CASE Extends
      <4>1. /\ chain' = Head(todo) /\ depth' = depth + 1 /\ Head(todo) \in Blocks
            /\ previous(Head(todo)) = chain
        BY <3>2 DEF Extends, CanApply, TypeInv
      <4>2. Len(chain) = Len(Head(todo)) - 1 /\ Len(Head(todo)) \in Nat
        BY <4>1, PreviousBlock
      <4> QED
        BY <1>1, <4>1, <4>2
    <3> QED
      BY <1>9, <3>1, <3>2
  <2>4. s = Ancestor(chain', Len(s))
    BY <1>1, <1>3, <2>1, <2>2 DEF Agree
  <2>5. LogInv'
    BY <1>4, <1>9, LogKept
  <2>6. log' = log /\ pc' # "append" /\ Len(log) = Len(chain') - depth'
    BY <1>9, <2>1, <2>3
  <2> QED
    BY <1>3, <2>4, <2>5, <2>6 DEF DiskInv, num, s
<1> QED
  BY <1>5, <1>6, <1>7, <1>8, <1>9, DiskMoves

\* All of it, given that what append logs is the chain's.
LEMMA DiskInvariant ==
  Spec /\ []FetchedIsOnChain => [](TypeInv /\ UndoInv /\ DiskInv)
<1> DEFINE I == TypeInv /\ UndoInv /\ DiskInv
<1>1. Init => I
  BY InitType, InitUndo, InitDisk
<1>2. I /\ FetchedIsOnChain /\ [Next]_vars => I'
  BY TypeStep, UndoStep, DiskStep
<1> HIDE DEF I
<1>3. Spec /\ []FetchedIsOnChain => []I
  BY <1>1, <1>2, PTL DEF Spec
<1> QED
  BY <1>3 DEF I

\* IrreversibleStays for every network, across crashes: what callers have seen
\* irreversible is in the log, so open() finds it again.
THEOREM AlwaysIrreversibleStays == Spec /\ []FetchedIsOnChain => []IrreversibleStays
<1>1. TypeInv /\ UndoInv /\ DiskInv => IrreversibleStays
  <2> SUFFICES ASSUME TypeInv, DiskInv PROVE IrreversibleStays
    OBVIOUS
  <2>1. /\ chain \in Seq(Bodies) /\ before.irreversible \in Seq(Bodies)
        /\ depth \in 0 .. Len(chain) /\ Len(chain) \in Nat
        /\ Len(before.irreversible) \in Nat /\ Len(log) \in Nat
    BY DEF TypeInv
  <2>2. Len(before.irreversible) <= Len(chain)
    BY <2>1 DEF DiskInv, LogInv, num
  <2> QED
    BY <2>1, <2>2 DEF DiskInv, LogInv, IrreversibleStays, num
<1> QED
  BY <1>1, DiskInvariant, PTL

\* UndoReachesIrreversible for every network, across crashes: chain state, undo history
\* and block log meet at the same block whenever no call is under way.
THEOREM AlwaysUndoReachesIrreversible == Spec /\ []FetchedIsOnChain => []UndoReachesIrreversible
<1>1. TypeInv /\ UndoInv /\ DiskInv => UndoReachesIrreversible
  <2> SUFFICES ASSUME TypeInv, UndoInv, DiskInv, pc = "idle"
               PROVE  /\ depth <= num(chain) - Lib(chain) /\ num(Base) = Len(log)
                      /\ depth < Worlds[world].max_undo
    BY DEF UndoReachesIrreversible
  <2> QED
    BY BaseType DEF UndoInv, DiskInv, LogInv, num
<1> QED
  BY <1>1, DiskInvariant, PTL
=============================================================================
