---------------------------- MODULE SumTheorems -----------------------------
(***************************************************************************)
(* Finite sums of integers, for the proofs about balances and votes: what  *)
(* SumFunctionOnSet of the module Functions adds up, whatever the order in *)
(* which its fold takes the elements.                                      *)
(***************************************************************************)
EXTENDS Integers, FiniteSets, Functions, FiniteSetTheorems, TLAPS

\* The element that the fold takes first.
First(s) == CHOOSE x \in s : TRUE

\* The function on the subsets of T by which the fold is defined.
IsIter(g, h, T) ==
  g = [s \in SUBSET T |-> IF s = {} THEN 0 ELSE h[First(s)] + g[s \ {First(s)}]]

\* The fold satisfies its definition, if some function does.
LEMMA SumIsIter ==
  ASSUME NEW h, NEW T, \E g : IsIter(g, h, T)
  PROVE  \E g : IsIter(g, h, T) /\ SumFunctionOnSet(h, T) = g[T]
<1> DEFINE g == CHOOSE f : IsIter(f, h, T)
<1>1. IsIter(g, h, T)
  OBVIOUS
<1>2. SumFunctionOnSet(h, T) = g[T]
  BY DEF SumFunctionOnSet, FoldFunctionOnSet, MapThenFoldSet, IsIter, First
<1> QED
  BY <1>1, <1>2

\* Every non-empty set of natural numbers has a least element.
LEMMA LeastNumber ==
  ASSUME NEW S \in SUBSET Nat, S # {}
  PROVE  \E n \in S : \A m \in S : n <= m
<1>1. PICK n \in S : \A m \in S : ~ (<<m, n>> \in OpToRel(<, Nat))
  BY NatLessThanWellFounded, WFMin
<1>2. \A m \in S : ~ (m < n)
  BY <1>1 DEF OpToRel
<1> QED
  BY <1>2

\* Of finite sets, one has the fewest elements.
LEMMA SmallestSet ==
  ASSUME NEW C, C # {}, \A T \in C : IsFiniteSet(T)
  PROVE  \E T \in C : \A U \in C : Cardinality(T) <= Cardinality(U)
<1> DEFINE N == {Cardinality(T) : T \in C}
<1>1. N \in SUBSET Nat /\ N # {}
  BY FS_CardinalityType
<1>2. PICK n \in N : \A m \in N : n <= m
  BY <1>1, LeastNumber
<1> QED
  BY <1>2

\* A set without one of its elements is finite and smaller.
LEMMA Smaller ==
  ASSUME NEW T, IsFiniteSet(T), NEW x \in T
  PROVE  IsFiniteSet(T \ {x}) /\ ~ (Cardinality(T) <= Cardinality(T \ {x}))
<1>1. Cardinality(T \ {x}) = Cardinality(T) - 1 /\ IsFiniteSet(T \ {x})
  BY FS_RemoveElement
<1>2. Cardinality(T) \in Nat
  BY FS_CardinalityType
<1> QED
  BY <1>1, <1>2

\* The functions of two sets agree where both are defined.
LEMMA IterUnique ==
  ASSUME NEW h, NEW T, NEW U, NEW f, NEW g, IsIter(f, h, T), IsIter(g, h, U),
         NEW s, s \subseteq T, s \subseteq U, IsFiniteSet(s)
  PROVE  f[s] = g[s]
<1> DEFINE C == {v \in SUBSET s : f[v] # g[v]}
<1> SUFFICES ASSUME C # {} PROVE FALSE
  OBVIOUS
<1>1. \A v \in C : IsFiniteSet(v)
  BY FS_Subset
<1>2. PICK v \in C : \A w \in C : Cardinality(v) <= Cardinality(w)
  BY <1>1, SmallestSet
<1>3. v # {}
  BY DEF IsIter
<1>4. First(v) \in v
  BY <1>3 DEF First
<1>5. v \ {First(v)} \notin C
  BY <1>1, <1>2, <1>4, Smaller
<1>6. f[v \ {First(v)}] = g[v \ {First(v)}]
  BY <1>5
<1>7. /\ f[v] = h[First(v)] + f[v \ {First(v)}]
      /\ g[v] = h[First(v)] + g[v \ {First(v)}]
  BY <1>3 DEF IsIter
<1> QED
  BY <1>6, <1>7

\* There is such a function for every finite set.
LEMMA IterExists ==
  ASSUME NEW h, NEW S, IsFiniteSet(S)
  PROVE  \E g : IsIter(g, h, S)
<1> DEFINE C == {T \in SUBSET S : ~ \E g : IsIter(g, h, T)}
<1> SUFFICES ASSUME C # {} PROVE FALSE
  OBVIOUS
<1>1. \A T \in C : IsFiniteSet(T)
  BY FS_Subset
<1>2. PICK T \in C : \A U \in C : Cardinality(T) <= Cardinality(U)
  BY <1>1, SmallestSet
<1>3. \A x \in T : \E g : IsIter(g, h, T \ {x})
  <2> TAKE x \in T
  <2>1. T \ {x} \notin C
    BY <1>1, <1>2, Smaller
  <2> QED
    BY <2>1
<1> DEFINE G(x) == CHOOSE g : IsIter(g, h, T \ {x})
<1>4. \A x \in T : IsIter(G(x), h, T \ {x})
  BY <1>3
<1> DEFINE f == [s \in SUBSET T |->
                   IF s = {} THEN 0 ELSE h[First(s)] + G(First(s))[s \ {First(s)}]]
<1> HIDE DEF G
<1>5. ASSUME NEW s \in SUBSET T, s # {}
      PROVE  G(First(s))[s \ {First(s)}] = f[s \ {First(s)}]
  <2> DEFINE c == First(s)
             u == s \ {c}
             d == First(u)
  <2>1. c \in T /\ u \subseteq T \ {c}
    BY <1>5 DEF First
  <2> HIDE DEF c
  <2>2. CASE u = {}
    <3>1. f[u] = 0
      BY <2>2
    <3>2. G(c)[u] = 0
      BY <1>4, <2>1, <2>2 DEF IsIter
    <3> QED
      BY <3>1, <3>2 DEF c
  <2>3. CASE u # {}
    <3>1. d \in u
      BY <2>3 DEF First
    <3> HIDE DEF d
    <3>2. G(c)[u] = h[d] + G(c)[u \ {d}]
      BY <1>4, <2>1, <2>3 DEF IsIter, d
    <3>3. f[u] = h[d] + G(d)[u \ {d}]
      BY <2>1, <2>3 DEF d
    <3>4. IsFiniteSet(u \ {d})
      BY <1>1, <2>1, FS_Subset
    <3>5. IsIter(G(c), h, T \ {c}) /\ IsIter(G(d), h, T \ {d})
      BY <1>4, <2>1, <3>1
    <3>6. u \ {d} \subseteq T \ {c} /\ u \ {d} \subseteq T \ {d}
      BY <2>1
    <3>7. G(c)[u \ {d}] = G(d)[u \ {d}]
      BY <3>4, <3>5, <3>6, IterUnique
    <3> QED
      BY <3>2, <3>3, <3>7 DEF c
  <2> QED
    BY <2>2, <2>3 DEF c
<1>6. f = [s \in SUBSET T |-> IF s = {} THEN 0 ELSE h[First(s)] + f[s \ {First(s)}]]
  BY <1>5
<1>7. IsIter(f, h, T)
  BY <1>6 DEF IsIter
<1> QED
  BY <1>7

-----------------------------------------------------------------------------
LEMMA SumEmpty ==
  ASSUME NEW h
  PROVE  SumFunctionOnSet(h, {}) = 0
<1>1. \E g : IsIter(g, h, {})
  BY IterExists, FS_EmptySet
<1>2. PICK g : IsIter(g, h, {}) /\ SumFunctionOnSet(h, {}) = g[{}]
  BY <1>1, SumIsIter
<1> QED
  BY <1>2 DEF IsIter

\* The sum is unfolded once.
LEMMA SumFirst ==
  ASSUME NEW h, NEW T, IsFiniteSet(T), T # {}
  PROVE  /\ First(T) \in T
         /\ SumFunctionOnSet(h, T) = h[First(T)] + SumFunctionOnSet(h, T \ {First(T)})
<1> DEFINE c == First(T)
           U == T \ {c}
<1>1. c \in T
  BY DEF First
<1>2. IsFiniteSet(U)
  BY <1>1, Smaller
<1>3. PICK f : IsIter(f, h, T) /\ SumFunctionOnSet(h, T) = f[T]
  BY IterExists, SumIsIter
<1>4. PICK g : IsIter(g, h, U) /\ SumFunctionOnSet(h, U) = g[U]
  BY <1>2, IterExists, SumIsIter
<1>5. f[T] = h[c] + f[U]
  BY <1>3 DEF IsIter
<1>6. U \subseteq T /\ U \subseteq U
  OBVIOUS
<1> HIDE DEF U
<1>7. f[U] = g[U]
  BY <1>2, <1>3, <1>4, <1>6, IterUnique
<1> QED
  BY <1>1, <1>3, <1>4, <1>5, <1>7 DEF U

\* A sum of integers is an integer, and one of natural numbers a natural number.
LEMMA SumType ==
  ASSUME NEW h, NEW S, IsFiniteSet(S), NEW N \in {Int, Nat}, \A x \in S : h[x] \in N
  PROVE  SumFunctionOnSet(h, S) \in N
<1> DEFINE C == {T \in SUBSET S : SumFunctionOnSet(h, T) \notin N}
<1> SUFFICES ASSUME C # {} PROVE FALSE
  OBVIOUS
<1>1. \A T \in C : IsFiniteSet(T)
  BY FS_Subset
<1>2. PICK T \in C : \A U \in C : Cardinality(T) <= Cardinality(U)
  BY <1>1, SmallestSet
<1>3. T # {}
  BY SumEmpty
<1> DEFINE c == First(T)
<1>4. /\ c \in T /\ SumFunctionOnSet(h, T) = h[c] + SumFunctionOnSet(h, T \ {c})
  BY <1>1, <1>3, SumFirst
<1> HIDE DEF c
<1>5. T \ {c} \notin C
  BY <1>1, <1>2, <1>4, Smaller
<1>6. SumFunctionOnSet(h, T \ {c}) \in N /\ h[c] \in N
  BY <1>4, <1>5
<1> QED
  BY <1>4, <1>6

\* Any element may be taken first.
LEMMA SumRemove ==
  ASSUME NEW h, NEW S, IsFiniteSet(S), \A x \in S : h[x] \in Int, NEW a \in S
  PROVE  SumFunctionOnSet(h, S) = h[a] + SumFunctionOnSet(h, S \ {a})
<1> DEFINE C == {T \in SUBSET S : \E x \in T :
                   SumFunctionOnSet(h, T) # h[x] + SumFunctionOnSet(h, T \ {x})}
<1> SUFFICES ASSUME C # {} PROVE FALSE
  OBVIOUS
<1>1. \A T \in C : IsFiniteSet(T)
  BY FS_Subset
<1>2. PICK T \in C : \A U \in C : Cardinality(T) <= Cardinality(U)
  BY <1>1, SmallestSet
<1>3. PICK x \in T : SumFunctionOnSet(h, T) # h[x] + SumFunctionOnSet(h, T \ {x})
  OBVIOUS
<1> DEFINE c == First(T)
<1>4. c \in T /\ SumFunctionOnSet(h, T) = h[c] + SumFunctionOnSet(h, T \ {c})
  BY <1>1, <1>3, SumFirst
<1> HIDE DEF c
<1>5. x # c
  BY <1>3, <1>4
<1>6. T \ {c} \notin C /\ T \ {x} \notin C
  BY <1>1, <1>2, <1>4, Smaller
<1>7. /\ SumFunctionOnSet(h, T \ {c}) = h[x] + SumFunctionOnSet(h, (T \ {c}) \ {x})
      /\ SumFunctionOnSet(h, T \ {x}) = h[c] + SumFunctionOnSet(h, (T \ {x}) \ {c})
  BY <1>4, <1>5, <1>6
<1>8. (T \ {c}) \ {x} = (T \ {x}) \ {c} /\ IsFiniteSet((T \ {x}) \ {c})
  BY <1>1, FS_Subset
<1>9. SumFunctionOnSet(h, (T \ {x}) \ {c}) \in Int /\ h[x] \in Int /\ h[c] \in Int
  <2> DEFINE U == (T \ {x}) \ {c}
  <2>1. IsFiniteSet(U) /\ (\A y \in U : h[y] \in Int)
    BY <1>8
  <2> HIDE DEF U
  <2>2. SumFunctionOnSet(h, U) \in Int
    BY <2>1, SumType
  <2> QED
    BY <1>4, <2>2 DEF U
<1> HIDE DEF C
<1>10. SumFunctionOnSet(h, (T \ {c}) \ {x}) = SumFunctionOnSet(h, (T \ {x}) \ {c})
  BY <1>8
<1>11. SumFunctionOnSet(h, T) = h[x] + SumFunctionOnSet(h, T \ {x})
  <2> DEFINE r == SumFunctionOnSet(h, T)
             u == SumFunctionOnSet(h, T \ {c})
             v == SumFunctionOnSet(h, T \ {x})
             z == SumFunctionOnSet(h, (T \ {x}) \ {c})
             p == h[x]
             q == h[c]
  <2>1. r = q + u /\ u = p + z /\ v = q + z /\ z \in Int /\ p \in Int /\ q \in Int
    BY <1>4, <1>7, <1>9, <1>10, Zenon
  <2> HIDE DEF r, u, v, z, p, q
  <2>2. r = p + v
    BY <2>1
  <2> QED
    BY <2>2 DEF r, v, p
<1> QED
  BY <1>3, <1>11

\* A sum depends on the values that are added only.
LEMMA SumSame ==
  ASSUME NEW f, NEW g, NEW S, IsFiniteSet(S), \A x \in S : f[x] = g[x]
  PROVE  SumFunctionOnSet(f, S) = SumFunctionOnSet(g, S)
<1> DEFINE C == {T \in SUBSET S : SumFunctionOnSet(f, T) # SumFunctionOnSet(g, T)}
<1> SUFFICES ASSUME C # {} PROVE FALSE
  OBVIOUS
<1>1. \A T \in C : IsFiniteSet(T)
  BY FS_Subset
<1>2. PICK T \in C : \A U \in C : Cardinality(T) <= Cardinality(U)
  BY <1>1, SmallestSet
<1>3. T # {}
  BY SumEmpty
<1> DEFINE c == First(T)
<1>4. /\ c \in T
      /\ SumFunctionOnSet(f, T) = f[c] + SumFunctionOnSet(f, T \ {c})
      /\ SumFunctionOnSet(g, T) = g[c] + SumFunctionOnSet(g, T \ {c})
  BY <1>1, <1>3, SumFirst
<1> HIDE DEF c
<1>5. T \ {c} \notin C
  BY <1>1, <1>2, <1>4, Smaller
<1> QED
  BY <1>4, <1>5

\* The sum changes by what one of its terms does.
LEMMA SumChange ==
  ASSUME NEW f, NEW g, NEW S, IsFiniteSet(S), NEW a \in S,
         \A x \in S : f[x] \in Int /\ g[x] \in Int, \A x \in S \ {a} : f[x] = g[x]
  PROVE  SumFunctionOnSet(g, S) = SumFunctionOnSet(f, S) + g[a] - f[a]
<1> DEFINE U == S \ {a}
<1>1. IsFiniteSet(U) /\ \A x \in U : f[x] = g[x] /\ f[x] \in Int
  BY Smaller
<1>2. /\ SumFunctionOnSet(f, S) = f[a] + SumFunctionOnSet(f, U)
      /\ SumFunctionOnSet(g, S) = g[a] + SumFunctionOnSet(g, U)
  BY SumRemove
<1> HIDE DEF U
<1>3. SumFunctionOnSet(f, U) = SumFunctionOnSet(g, U)
  BY <1>1, SumSame
<1>4. SumFunctionOnSet(f, U) \in Int
  BY <1>1, SumType
<1> QED
  BY <1>2, <1>3, <1>4

\* No term of a sum of natural numbers is greater than the sum.
LEMMA SumBounds ==
  ASSUME NEW h, NEW S, IsFiniteSet(S), \A x \in S : h[x] \in Nat, NEW a \in S
  PROVE  h[a] <= SumFunctionOnSet(h, S)
<1> DEFINE U == S \ {a}
<1>1. IsFiniteSet(U) /\ \A x \in U : h[x] \in Nat
  BY Smaller
<1>2. SumFunctionOnSet(h, S) = h[a] + SumFunctionOnSet(h, U)
  BY SumRemove
<1> HIDE DEF U
<1>3. SumFunctionOnSet(h, U) \in Nat
  BY <1>1, SumType
<1> QED
  BY <1>2, <1>3

\* Sums are added term by term.
LEMMA SumAdd ==
  ASSUME NEW f, NEW g, NEW h, NEW S, IsFiniteSet(S),
         \A x \in S : g[x] \in Int /\ h[x] \in Int /\ f[x] = g[x] + h[x]
  PROVE  SumFunctionOnSet(f, S) = SumFunctionOnSet(g, S) + SumFunctionOnSet(h, S)
<1> DEFINE C == {T \in SUBSET S : SumFunctionOnSet(f, T)
                                    # SumFunctionOnSet(g, T) + SumFunctionOnSet(h, T)}
<1> SUFFICES ASSUME C # {} PROVE FALSE
  OBVIOUS
<1>1. \A T \in C : IsFiniteSet(T)
  BY FS_Subset
<1>2. PICK T \in C : \A U \in C : Cardinality(T) <= Cardinality(U)
  BY <1>1, SmallestSet
<1>3. T # {}
  <2>1. /\ SumFunctionOnSet(f, {}) = 0 /\ SumFunctionOnSet(g, {}) = 0
        /\ SumFunctionOnSet(h, {}) = 0
    BY SumEmpty
  <2>2. SumFunctionOnSet(f, {}) = SumFunctionOnSet(g, {}) + SumFunctionOnSet(h, {})
    BY <2>1
  <2> QED
    BY <2>2
<1> DEFINE c == First(T)
           U == T \ {c}
<1>4. /\ c \in T
      /\ SumFunctionOnSet(f, T) = f[c] + SumFunctionOnSet(f, U)
      /\ SumFunctionOnSet(g, T) = g[c] + SumFunctionOnSet(g, U)
      /\ SumFunctionOnSet(h, T) = h[c] + SumFunctionOnSet(h, U)
  BY <1>1, <1>3, SumFirst
<1> HIDE DEF c
<1>5. U \notin C
  BY <1>1, <1>2, <1>4, Smaller
<1>6. IsFiniteSet(U) /\ \A x \in U : g[x] \in Int /\ h[x] \in Int
  BY <1>1, <1>4, Smaller
<1>7. SumFunctionOnSet(f, U) = SumFunctionOnSet(g, U) + SumFunctionOnSet(h, U)
  BY <1>5
<1> HIDE DEF U
<1>8. SumFunctionOnSet(g, U) \in Int /\ SumFunctionOnSet(h, U) \in Int
  BY <1>6, SumType
<1>9. f[c] = g[c] + h[c] /\ g[c] \in Int /\ h[c] \in Int
  BY <1>4
<1> QED
  BY <1>4, <1>7, <1>8, <1>9

\* Terms that are zero may be left out.
LEMMA SumRestrict ==
  ASSUME NEW f, NEW g, NEW S, NEW R \in SUBSET S, IsFiniteSet(S),
         \A x \in R : f[x] = g[x] /\ g[x] \in Int, \A x \in S \ R : f[x] = 0
  PROVE  SumFunctionOnSet(f, S) = SumFunctionOnSet(g, R)
<1> DEFINE C == {T \in SUBSET S : SumFunctionOnSet(f, T) # SumFunctionOnSet(g, T \cap R)}
<1> SUFFICES ASSUME C # {} PROVE FALSE
  <2>1. S \cap R = R
    OBVIOUS
  <2> QED
    BY <2>1
<1>1. \A T \in C : IsFiniteSet(T)
  BY FS_Subset
<1>2. PICK T \in C : \A U \in C : Cardinality(T) <= Cardinality(U)
  BY <1>1, SmallestSet
<1>3. T # {}
  <2>1. SumFunctionOnSet(f, {}) = SumFunctionOnSet(g, {}) /\ {} \cap R = {}
    BY SumEmpty
  <2> QED
    BY <2>1
<1> DEFINE c == First(T)
           U == T \ {c}
<1>4. c \in T /\ SumFunctionOnSet(f, T) = f[c] + SumFunctionOnSet(f, U)
  BY <1>1, <1>3, SumFirst
<1> HIDE DEF c
<1>5. U \notin C /\ IsFiniteSet(U) /\ IsFiniteSet(U \cap R) /\ IsFiniteSet(T \cap R)
  BY <1>1, <1>2, <1>4, Smaller, FS_Subset
<1>6. SumFunctionOnSet(f, U) = SumFunctionOnSet(g, U \cap R)
  BY <1>5
<1>7. SumFunctionOnSet(g, U \cap R) \in Int
  BY <1>5, SumType
<1>8. CASE c \in R
  <2>1. c \in T \cap R /\ (T \cap R) \ {c} = U \cap R /\ \A x \in T \cap R : g[x] \in Int
    BY <1>4, <1>8
  <2>2. SumFunctionOnSet(g, T \cap R) = g[c] + SumFunctionOnSet(g, U \cap R)
    BY <1>5, <2>1, SumRemove
  <2> QED
    BY <1>4, <1>6, <1>8, <2>2
<1>9. CASE c \notin R
  <2>1. T \cap R = U \cap R /\ f[c] = 0
    BY <1>4, <1>9
  <2> HIDE DEF U
  <2>2. SumFunctionOnSet(f, T) = SumFunctionOnSet(g, U \cap R)
    BY <1>4, <1>6, <1>7, <2>1
  <2> QED
    BY <2>1, <2>2
<1> QED
  BY <1>8, <1>9

\* A sum may be taken in groups: p says to which group of A an element belongs.
LEMMA SumGroups ==
  ASSUME NEW h, NEW p, NEW S, NEW A, IsFiniteSet(S), IsFiniteSet(A),
         \A x \in S : p[x] \in A /\ h[x] \in Int
  PROVE  SumFunctionOnSet([a \in A |-> SumFunctionOnSet(h, {x \in S : p[x] = a})], A)
           = SumFunctionOnSet(h, S)
<1> DEFINE F(T) == [a \in A |-> SumFunctionOnSet(h, {x \in T : p[x] = a})]
           C == {T \in SUBSET S : SumFunctionOnSet(F(T), A) # SumFunctionOnSet(h, T)}
<1> SUFFICES ASSUME C # {} PROVE FALSE
  OBVIOUS
<1>0. ASSUME NEW T \in SUBSET S
      PROVE  \A a \in A : F(T)[a] \in Int /\ IsFiniteSet({x \in T : p[x] = a})
  <2> TAKE a \in A
  <2> DEFINE G == {x \in T : p[x] = a}
  <2>1. IsFiniteSet(G) /\ (\A x \in G : h[x] \in Int) /\ F(T)[a] = SumFunctionOnSet(h, G)
    BY FS_Subset
  <2> HIDE DEF G, F
  <2>2. SumFunctionOnSet(h, G) \in Int
    BY <2>1, SumType
  <2> QED
    BY <2>1, <2>2 DEF G
<1>1. \A T \in C : IsFiniteSet(T)
  BY FS_Subset
<1>2. PICK T \in C : \A U \in C : Cardinality(T) <= Cardinality(U)
  BY <1>1, SmallestSet
<1>3. T # {}
  <2> SUFFICES SumFunctionOnSet(F({}), A) = SumFunctionOnSet(h, {})
    OBVIOUS
  <2>1. \A a \in A : F({})[a] = 0
    <3>1. \A a \in A : {x \in {} : p[x] = a} = {}
      OBVIOUS
    <3> QED
      BY <3>1, SumEmpty
  <2> HIDE DEF F
  <2>2. SumFunctionOnSet(F({}), A) = SumFunctionOnSet(h, {})
    BY <2>1, SumRestrict
  <2> QED
    BY <2>2
<1> DEFINE c == First(T)
           U == T \ {c}
<1>4. c \in T /\ SumFunctionOnSet(h, T) = h[c] + SumFunctionOnSet(h, U)
  BY <1>1, <1>3, SumFirst
<1> HIDE DEF c
<1>5. U \notin C /\ U \in SUBSET S /\ T \in SUBSET S
  BY <1>1, <1>2, <1>4, Smaller
<1>6. SumFunctionOnSet(F(U), A) = SumFunctionOnSet(h, U)
  BY <1>5
<1> DEFINE a == p[c]
<1>7. a \in A /\ h[c] \in Int
  BY <1>4
<1>8. \A b \in A \ {a} : F(U)[b] = F(T)[b]
  <2> TAKE b \in A \ {a}
  <2>1. {x \in T : p[x] = b} = {x \in U : p[x] = b}
    OBVIOUS
  <2> QED
    BY <2>1
<1>9. F(T)[a] = h[c] + F(U)[a]
  <2> DEFINE G == {x \in T : p[x] = a}
  <2>1. IsFiniteSet(G) /\ c \in G /\ (\A x \in G : h[x] \in Int)
        /\ G \ {c} = {x \in U : p[x] = a} /\ F(T)[a] = SumFunctionOnSet(h, G)
    BY <1>0, <1>4, <1>5, <1>7
  <2>2. F(U)[a] = SumFunctionOnSet(h, G \ {c})
    BY <1>7, <2>1
  <2> HIDE DEF G, F
  <2> QED
    BY <2>1, <2>2, SumRemove
<1>10. \A b \in A : F(T)[b] \in Int /\ F(U)[b] \in Int
  BY <1>0, <1>5
<1>11. SumFunctionOnSet(h, U) \in Int
  <2>1. IsFiniteSet(U) /\ \A x \in U : h[x] \in Int
    BY <1>5, FS_Subset
  <2> HIDE DEF U
  <2> QED
    BY <2>1, SumType
<1> HIDE DEF F, U, a
<1>12. SumFunctionOnSet(F(T), A) = SumFunctionOnSet(F(U), A) + F(T)[a] - F(U)[a]
  BY <1>7, <1>8, <1>10, SumChange
<1>13. SumFunctionOnSet(F(T), A) = SumFunctionOnSet(h, T)
  BY <1>4, <1>6, <1>7, <1>9, <1>10, <1>11, <1>12
<1> QED
  BY <1>13

\* A sum over two sets that have nothing in common is the sum of the two sums.
LEMMA SumUnion ==
  ASSUME NEW h, NEW S, NEW T, IsFiniteSet(S), IsFiniteSet(T), S \cap T = {},
         \A x \in S \cup T : h[x] \in Int
  PROVE  SumFunctionOnSet(h, S \cup T) = SumFunctionOnSet(h, S) + SumFunctionOnSet(h, T)
<1> DEFINE U == S \cup T
           f == [x \in U |-> IF x \in S THEN h[x] ELSE 0]
           g == [x \in U |-> IF x \in T THEN h[x] ELSE 0]
<1>1. IsFiniteSet(U)
  BY FS_Union
<1>2. \A x \in U : f[x] \in Int /\ g[x] \in Int /\ h[x] = f[x] + g[x]
  OBVIOUS
<1>3. SumFunctionOnSet(f, U) = SumFunctionOnSet(h, S)
  <2>1. S \in SUBSET U /\ (\A x \in S : f[x] = h[x] /\ h[x] \in Int) /\ \A x \in U \ S : f[x] = 0
    OBVIOUS
  <2> HIDE DEF U, f
  <2> QED
    BY <1>1, <2>1, SumRestrict
<1>4. SumFunctionOnSet(g, U) = SumFunctionOnSet(h, T)
  <2>1. T \in SUBSET U /\ (\A x \in T : g[x] = h[x] /\ h[x] \in Int) /\ \A x \in U \ T : g[x] = 0
    OBVIOUS
  <2> HIDE DEF U, g
  <2> QED
    BY <1>1, <2>1, SumRestrict
<1>5. SumFunctionOnSet(h, U) = SumFunctionOnSet(f, U) + SumFunctionOnSet(g, U)
  <2> HIDE DEF U, f, g
  <2> QED
    BY <1>1, <1>2, SumAdd
<1> QED
  BY <1>3, <1>4, <1>5

\* The sum over a single element.
LEMMA SumSingle ==
  ASSUME NEW h, NEW a, h[a] \in Int
  PROVE  SumFunctionOnSet(h, {a}) = h[a]
<1>1. IsFiniteSet({a}) /\ {a} \ {a} = {}
  BY FS_Singleton
<1>2. SumFunctionOnSet(h, {a}) = h[a] + SumFunctionOnSet(h, {a} \ {a})
  BY <1>1, SumRemove
<1> QED
  BY <1>1, <1>2, SumEmpty

\* The sum over 0 .. n begins with the element 0; the others may be numbered from 0.
LEMMA SumShift ==
  ASSUME NEW n \in Nat, NEW f, NEW g, \A i \in 0 .. n : f[i] \in Int,
         \A i \in 0 .. n - 1 : g[i] = f[i + 1]
  PROVE  SumFunctionOnSet(f, 0 .. n) = f[0] + SumFunctionOnSet(g, 0 .. n - 1)
<1> DEFINE S == 0 .. n - 1
           A == 1 .. n
           p == [i \in S |-> i + 1]
           F == [j \in A |-> SumFunctionOnSet(g, {i \in S : p[i] = j})]
<1>1. IsFiniteSet(S) /\ IsFiniteSet(A) /\ IsFiniteSet(0 .. n)
  BY FS_Interval
<1>2. SumFunctionOnSet(F, A) = SumFunctionOnSet(g, S)
  <2>1. \A i \in S : p[i] \in A /\ g[i] \in Int
    OBVIOUS
  <2> HIDE DEF S, A, p
  <2> QED
    BY <1>1, <2>1, SumGroups
<1>3. \A j \in A : F[j] = f[j]
  <2> TAKE j \in A
  <2>1. PICK i \in S : j = i + 1
    <3>1. j - 1 \in S /\ j = (j - 1) + 1
      OBVIOUS
    <3> QED
      BY <3>1
  <2>2. {k \in S : p[k] = j} = {i}
    BY <2>1
  <2>3. g[i] = f[j] /\ g[i] \in Int
    BY <2>1
  <2>4. F[j] = SumFunctionOnSet(g, {i})
    BY <2>2
  <2> HIDE DEF F
  <2> QED
    BY <2>3, <2>4, SumSingle
<1>4. SumFunctionOnSet(F, A) = SumFunctionOnSet(f, A)
  <2> HIDE DEF F, A
  <2> QED
    BY <1>1, <1>3, SumSame
<1>5. SumFunctionOnSet(f, 0 .. n) = f[0] + SumFunctionOnSet(f, A)
  <2> DEFINE Z == 0 .. n
  <2>1. A = Z \ {0} /\ 0 \in Z /\ IsFiniteSet(Z) /\ \A i \in Z : f[i] \in Int
    BY <1>1
  <2> HIDE DEF A, Z
  <2>2. SumFunctionOnSet(f, Z) = f[0] + SumFunctionOnSet(f, Z \ {0})
    BY <2>1, SumRemove
  <2> QED
    BY <2>1, <2>2 DEF Z
<1> QED
  BY <1>2, <1>4, <1>5
=============================================================================
