------------------------------- MODULE SetLemmas -------------------------------
(***************************************************************************)
(* Facts about finite sets that the proofs about several modules need.     *)
(*                                                                         *)
(* The vector of module Snapshot exists, so it is what its definition says *)
(* it is: a sequence of the backends in rotation in ascending order, each  *)
(* of them once.                                                           *)
(*                                                                         *)
(* Induction, over the numbers and over the subsets of a finite set, is    *)
(* stated with a set of those for which a claim holds, so that no operator *)
(* is a parameter.  From it follows what the fold SumFunctionOnSet of      *)
(* module Functions computes.                                              *)
(***************************************************************************)
EXTENDS Snapshot, Integers, Sequences, Functions, FiniteSetTheorems, TLAPS

\* How many members of S there are up to b.
Rank(S, b) == Cardinality({a \in S : a <= b})

LEMMA RankGrows ==
    ASSUME NEW S \in SUBSET Nat, IsFiniteSet(S), NEW a \in S, NEW b \in S, a < b
    PROVE  Rank(S, a) < Rank(S, b)
<1> DEFINE A == {x \in S : x <= a}
           B == {x \in S : x <= b}
<1>1. A \subseteq B /\ A # B /\ B \subseteq S
  <2>1. b \in B /\ b \notin A
    OBVIOUS
  <2>2. \A x \in S : x <= a => x <= b
    OBVIOUS
  <2>3. QED
    BY <2>1, <2>2
<1>2. IsFiniteSet(B)
  BY <1>1, FS_Subset
<1>3. IsFiniteSet(A) /\ Cardinality(A) < Cardinality(B)
  BY <1>1, <1>2, FS_Subset, FS_CardinalityType
<1>4. QED
  BY <1>3 DEF Rank

LEMMA RankInRange ==
    ASSUME NEW S \in SUBSET Nat, IsFiniteSet(S), NEW b \in S
    PROVE  Rank(S, b) \in 1..Cardinality(S)
<1> DEFINE B == {x \in S : x <= b}
<1>1. B \subseteq S /\ b \in B
  OBVIOUS
<1>2. IsFiniteSet(B) /\ Cardinality(B) <= Cardinality(S)
  BY <1>1, FS_Subset
<1>3. Cardinality(B) # 0
  BY <1>1, <1>2, FS_EmptySet
<1>4. Cardinality(B) \in Nat /\ Cardinality(S) \in Nat
  BY <1>2, FS_CardinalityType
<1>5. QED
  BY <1>2, <1>3, <1>4 DEF Rank

\* Each rank is taken.
LEMMA RankReached ==
    ASSUME NEW S \in SUBSET Nat, IsFiniteSet(S), NEW i \in 1..Cardinality(S)
    PROVE  \E b \in S : Rank(S, b) = i
<1> DEFINE n == Cardinality(S)
           rank == [b \in S |-> Rank(S, b)]
<1>1. n \in Nat /\ IsFiniteSet(1..n) /\ Cardinality(1..n) = n
  BY FS_CardinalityType, FS_Interval
<1>2. rank \in [S -> 1..n]
  BY RankInRange
<1>3. \A a, b \in S : a < b => rank[a] < rank[b]
  BY RankGrows
<1>4. \A a, b \in S : rank[a] = rank[b] => a = b
  <2> SUFFICES ASSUME NEW a \in S, NEW b \in S, a # b PROVE rank[a] # rank[b]
    OBVIOUS
  <2>1. (a < b \/ b < a) /\ rank[a] \in Nat /\ rank[b] \in Nat
    BY <1>1, <1>2
  <2> HIDE DEF rank
  <2>2. QED
    BY <2>1, <1>3
<1> HIDE DEF n, rank
<1>5. rank \in Injection(S, 1..n)
  BY <1>2, <1>4 DEF Injection, IsInjective
<1>6. rank \in Surjection(S, 1..n)
  BY <1>1, <1>5, FS_Injection DEF n
<1>7. \E b \in S : rank[b] = i
  BY <1>6 DEF Surjection, n
<1>8. QED
  BY <1>7 DEF rank

\* A finite set of numbers has a least one.
LEMMA LeastMember ==
    ASSUME NEW S \in SUBSET Nat, IsFiniteSet(S), S # {}
    PROVE  \E m \in S : \A b \in S : m <= b
<1>1. Cardinality(S) \in Nat /\ Cardinality(S) # 0
  BY FS_CardinalityType, FS_EmptySet
<1>2. PICK m \in S : Rank(S, m) = 1
  BY <1>1, RankReached
<1>3. ASSUME NEW b \in S, b < m PROVE FALSE
  <2>1. Rank(S, b) < Rank(S, m) /\ Rank(S, b) \in 1..Cardinality(S)
    BY <1>3, RankGrows, RankInRange
  <2>2. QED
    BY <1>2, <2>1
<1>4. QED
  BY <1>3

\* The pool's vector is a sequence of the members of S in ascending order.
LEMMA InPoolOrderFacts ==
    ASSUME NEW S \in SUBSET Nat, IsFiniteSet(S)
    PROVE  /\ InPoolOrder(S) \in [1..Cardinality(S) -> S]
           /\ InPoolOrder(S) \in Seq(S) /\ Len(InPoolOrder(S)) = Cardinality(S)
           /\ \A i, j \in DOMAIN InPoolOrder(S) : i < j => InPoolOrder(S)[i] < InPoolOrder(S)[j]
<1> DEFINE n == Cardinality(S)
           s == [i \in 1..n |-> CHOOSE b \in S : Rank(S, b) = i]
<1>1. n \in Nat
  BY FS_CardinalityType
<1>2. \A i \in 1..n : s[i] \in S /\ Rank(S, s[i]) = i
  BY RankReached
<1> HIDE DEF n
<1>3. \A i, j \in 1..n : i < j => s[i] < s[j]
  <2> SUFFICES ASSUME NEW i \in 1..n, NEW j \in 1..n, i < j PROVE s[i] < s[j]
    OBVIOUS
  <2>1. s[i] \in S /\ s[j] \in S /\ Rank(S, s[i]) = i /\ Rank(S, s[j]) = j
    BY <1>2
  <2> HIDE DEF s
  <2>2. s[i] \in Nat /\ s[j] \in Nat
    BY <2>1
  <2>3. CASE s[i] = s[j]
    BY <2>1, <2>2, <2>3
  <2>4. CASE s[j] < s[i]
    <3>1. Rank(S, s[j]) < Rank(S, s[i])
      BY <2>1, <2>4, RankGrows
    <3>2. j < i
      BY <2>1, <3>1
    <3>3. QED
      BY <3>2, <1>1
  <2>5. QED
    BY <2>2, <2>3, <2>4
<1>4. s \in [1..n -> S] /\ \A i, j \in DOMAIN s : i < j => s[i] < s[j]
  BY <1>2, <1>3
<1> HIDE DEF s
<1>5. /\ InPoolOrder(S) \in [1..n -> S]
      /\ \A i, j \in DOMAIN InPoolOrder(S) : i < j => InPoolOrder(S)[i] < InPoolOrder(S)[j]
  BY <1>4 DEF InPoolOrder, n
<1>6. QED
  BY <1>1, <1>5 DEF n

\* Each member of S has one position in it.
LEMMA InPoolOrderOnto ==
    ASSUME NEW S \in SUBSET Nat, IsFiniteSet(S)
    PROVE  /\ \A b \in S : \E i \in 1..Cardinality(S) : InPoolOrder(S)[i] = b
           /\ \A i, j \in 1..Cardinality(S) : InPoolOrder(S)[i] = InPoolOrder(S)[j] => i = j
<1> DEFINE n == Cardinality(S)
           s == InPoolOrder(S)
<1>1. n \in Nat /\ IsFiniteSet(1..n) /\ Cardinality(1..n) = n
  BY FS_CardinalityType, FS_Interval
<1>2. s \in [1..n -> S] /\ \A i, j \in 1..n : i < j => s[i] < s[j]
  BY InPoolOrderFacts
<1> HIDE DEF n, s
<1>3. \A i, j \in 1..n : s[i] = s[j] => i = j
  <2> SUFFICES ASSUME NEW i \in 1..n, NEW j \in 1..n, i # j PROVE s[i] # s[j]
    OBVIOUS
  <2>1. s[i] \in S /\ s[j] \in S
    BY <1>2
  <2>2. s[i] \in Nat /\ s[j] \in Nat
    BY <2>1
  <2>3. i < j \/ j < i
    BY <1>1
  <2>4. CASE i < j
    <3>1. s[i] < s[j]
      BY <1>2, <2>4
    <3>2. QED
      BY <2>2, <3>1
  <2>5. CASE j < i
    <3>1. s[j] < s[i]
      BY <1>2, <2>5
    <3>2. QED
      BY <2>2, <3>1
  <2>6. QED
    BY <2>3, <2>4, <2>5
<1>4. s \in Injection(1..n, S)
  BY <1>2, <1>3 DEF Injection, IsInjective
<1>5. s \in Surjection(1..n, S)
  BY <1>1, <1>4, FS_Injection DEF n
<1>6. \A b \in S : \E i \in 1..n : s[i] = b
  BY <1>5 DEF Surjection
<1>7. QED
  BY <1>3, <1>6 DEF n, s

---------------------------------------------------------------------------------
\* Induction over numbers: P is the set of those for which the claim holds.
LEMMA NumberInduction ==
    ASSUME NEW P, 0 \in P, \A n \in Nat : n \in P => n + 1 \in P
    PROVE  Nat \subseteq P
<1> SUFFICES ASSUME NEW k \in Nat, k \notin P PROVE FALSE
  OBVIOUS
<1> DEFINE S == {n \in 0..k : n \notin P}
<1>1. S \in SUBSET Nat /\ S # {}
  OBVIOUS
<1>2. IsFiniteSet(S)
  <2>1. IsFiniteSet(0..k) /\ S \in SUBSET (0..k)
    BY FS_Interval
  <2>2. QED
    BY <2>1, FS_Subset
<1>3. PICK m \in S : \A b \in S : m <= b
  BY <1>1, <1>2, LeastMember
<1>4. m \in Nat /\ m <= k /\ m # 0 /\ m \notin P
  OBVIOUS
<1>5. m - 1 \in Nat /\ m - 1 \in 0..k /\ ~(m <= m - 1)
  BY <1>4
<1>6. m - 1 \in P
  BY <1>3, <1>5
<1>7. (m - 1) + 1 \in P /\ (m - 1) + 1 = m
  BY <1>4, <1>5, <1>6
<1>8. QED
  BY <1>4, <1>7

\* Induction over the subsets of a finite set, one element less at a time.
LEMMA SubsetInduction ==
    ASSUME NEW S, IsFiniteSet(S), NEW G,
           \A T \in SUBSET S : (\A x \in T : T \ {x} \in G) => T \in G
    PROVE  SUBSET S \subseteq G
<1> DEFINE P == {n \in Nat : \A T \in SUBSET S : Cardinality(T) = n => T \in G}
<1>1. \A T \in SUBSET S : IsFiniteSet(T) /\ Cardinality(T) \in Nat
  BY FS_Subset, FS_CardinalityType
<1>2. 0 \in P
  <2> SUFFICES ASSUME NEW T \in SUBSET S, Cardinality(T) = 0 PROVE T \in G
    OBVIOUS
  <2>1. T = {}
    BY <1>1, FS_EmptySet
  <2>2. QED
    BY <2>1
<1>3. ASSUME NEW n \in Nat, n \in P PROVE n + 1 \in P
  <2> SUFFICES ASSUME NEW T \in SUBSET S, Cardinality(T) = n + 1 PROVE T \in G
    OBVIOUS
  <2>1. ASSUME NEW x \in T PROVE T \ {x} \in G
    <3>1. Cardinality(T \ {x}) = n
      BY <1>1, FS_RemoveElement
    <3>2. QED
      BY <1>3, <3>1
  <2>2. QED
    BY <2>1
<1>4. Nat \subseteq P
  <2> HIDE DEF P
  <2>1. QED
    BY <1>2, <1>3, NumberInduction
<1>5. QED
  BY <1>1, <1>4

---------------------------------------------------------------------------------
\* Some element of a set, as the folds choose it.
Some(s) == CHOOSE x \in s : TRUE

\* it is the function by which SumFunctionOnSet is defined.
Sums(f, S, it) ==
    it = [s \in SUBSET S |-> IF s = {} THEN 0 ELSE f[Some(s)] + it[s \ {Some(s)}]]

LEMMA SumIsFold ==
    ASSUME NEW f, NEW S
    PROVE  SumFunctionOnSet(f, S) = (CHOOSE it : Sums(f, S, it))[S]
BY Zenon DEF SumFunctionOnSet, FoldFunctionOnSet, MapThenFoldSet, Sums, Some

LEMMA SomeIsMember == ASSUME NEW s, s # {} PROVE Some(s) \in s
BY DEF Some

\* The recursion has a solution on the subsets of up to n elements.
LEMMA SumsExist ==
    ASSUME NEW f, NEW S, IsFiniteSet(S)
    PROVE  \E it : Sums(f, S, it)
<1> DEFINE Level(n) == {s \in SUBSET S : Cardinality(s) <= n}
           Solves(it, n) ==
               it = [s \in Level(n) |-> IF s = {} THEN 0 ELSE f[Some(s)] + it[s \ {Some(s)}]]
           P == {n \in Nat : \E it : Solves(it, n)}
<1>1. \A s \in SUBSET S : IsFiniteSet(s) /\ Cardinality(s) \in Nat
  BY FS_Subset, FS_CardinalityType
<1>2. ASSUME NEW s \in SUBSET S, s # {}
      PROVE  /\ s \ {Some(s)} \in SUBSET S
             /\ Cardinality(s \ {Some(s)}) = Cardinality(s) - 1
  BY <1>1, <1>2, SomeIsMember, FS_RemoveElement
<1>3. 0 \in P
  <2> DEFINE it == [s \in Level(0) |-> 0]
  <2>1. \A s \in Level(0) : s = {}
    BY <1>1, FS_EmptySet
  <2>2. Solves(it, 0)
    BY <2>1
  <2>3. QED
    BY <2>2
<1>4. ASSUME NEW n \in Nat, n \in P PROVE n + 1 \in P
  <2>1. PICK it : Solves(it, n)
    BY <1>4
  <2> DEFINE next == [s \in Level(n + 1) |->
                        IF s = {} THEN 0 ELSE f[Some(s)] + it[s \ {Some(s)}]]
  <2>2. \A s \in Level(n) : s \in Level(n + 1) /\ next[s] = it[s]
    <3>1. \A s \in Level(n) : s \in Level(n + 1)
      BY <1>1
    <3>2. \A s \in Level(n) :
              it[s] = IF s = {} THEN 0 ELSE f[Some(s)] + it[s \ {Some(s)}]
      <4> HIDE DEF Level
      <4>1. QED
        BY <2>1
    <3>3. QED
      BY <3>1, <3>2
  <2>3. \A s \in Level(n + 1) : s # {} => s \ {Some(s)} \in Level(n)
    BY <1>1, <1>2
  <2>4. \A s \in Level(n + 1) :
            next[s] = IF s = {} THEN 0 ELSE f[Some(s)] + next[s \ {Some(s)}]
    <3> HIDE DEF Level
    <3>1. QED
      BY <2>2, <2>3
  <2>5. Solves(next, n + 1)
    <3> HIDE DEF Level
    <3>1. next = [s \in Level(n + 1) |-> next[s]]
      OBVIOUS
    <3> HIDE DEF next
    <3>2. QED
      BY <2>4, <3>1
  <2>6. QED
    <3> HIDE DEF Solves, next
    <3>1. QED
      BY <2>5
<1>5. Cardinality(S) \in P
  <2> HIDE DEF P
  <2>1. Nat \subseteq P
    BY <1>3, <1>4, NumberInduction
  <2>2. QED
    BY <1>1, <2>1
<1>6. PICK it : Solves(it, Cardinality(S))
  BY <1>5
<1>7. Level(Cardinality(S)) = SUBSET S
  BY FS_Subset
<1>8. Sums(f, S, it)
  BY <1>6, <1>7 DEF Sums
<1>9. QED
  BY <1>8

\* Two solutions agree where both are defined.
LEMMA SumsAgree ==
    ASSUME NEW f, NEW S, IsFiniteSet(S), NEW T \in SUBSET S,
           NEW i, Sums(f, S, i), NEW j, Sums(f, T, j)
    PROVE  \A s \in SUBSET T : i[s] = j[s]
<1> DEFINE G == {s \in SUBSET T : i[s] = j[s]}
<1>1. IsFiniteSet(T)
  BY FS_Subset
<1>2. ASSUME NEW s \in SUBSET T, \A x \in s : s \ {x} \in G PROVE s \in G
  <2>1. i[s] = IF s = {} THEN 0 ELSE f[Some(s)] + i[s \ {Some(s)}]
    BY DEF Sums
  <2>2. j[s] = IF s = {} THEN 0 ELSE f[Some(s)] + j[s \ {Some(s)}]
    BY DEF Sums
  <2>3. s # {} => i[s \ {Some(s)}] = j[s \ {Some(s)}]
    BY <1>2, SomeIsMember
  <2>4. QED
    BY <2>1, <2>2, <2>3
<1>3. SUBSET T \subseteq G
  <2> HIDE DEF G
  <2>1. QED
    BY <1>1, <1>2, SubsetInduction
<1>4. QED
  BY <1>3

\* The equation that defines a sum.
LEMMA SumUnfolds ==
    ASSUME NEW f, NEW S, IsFiniteSet(S)
    PROVE  SumFunctionOnSet(f, S) =
               IF S = {} THEN 0 ELSE f[Some(S)] + SumFunctionOnSet(f, S \ {Some(S)})
<1> DEFINE i == CHOOSE it : Sums(f, S, it)
           T == S \ {Some(S)}
           j == CHOOSE it : Sums(f, T, it)
<1>1. Sums(f, S, i) /\ SumFunctionOnSet(f, S) = i[S]
  BY SumsExist, SumIsFold
<1>2. IsFiniteSet(T) /\ T \in SUBSET S
  BY FS_Subset
<1>3. Sums(f, T, j) /\ SumFunctionOnSet(f, T) = j[T]
  BY <1>2, SumsExist, SumIsFold
<1> HIDE DEF i, j
<1>4. i[T] = j[T]
  BY <1>1, <1>2, <1>3, SumsAgree
<1>5. i[S] = IF S = {} THEN 0 ELSE f[Some(S)] + i[T]
  BY <1>1 DEF Sums
<1>6. QED
  BY <1>1, <1>3, <1>4, <1>5

LEMMA SumOfNothing == ASSUME NEW f PROVE SumFunctionOnSet(f, {}) = 0
BY FS_EmptySet, SumUnfolds

LEMMA SumIsInt ==
    ASSUME NEW S, IsFiniteSet(S), NEW f, \A x \in S : f[x] \in Int
    PROVE  SumFunctionOnSet(f, S) \in Int
<1> DEFINE G == {T \in SUBSET S : SumFunctionOnSet(f, T) \in Int}
<1>1. ASSUME NEW T \in SUBSET S, \A x \in T : T \ {x} \in G PROVE T \in G
  <2>1. IsFiniteSet(T)
    BY FS_Subset
  <2>2. CASE T = {}
    BY <2>2, SumOfNothing
  <2>3. CASE T # {}
    <3>1. Some(T) \in T
      BY <2>3, SomeIsMember
    <3>2. SumFunctionOnSet(f, T \ {Some(T)}) \in Int /\ f[Some(T)] \in Int
      BY <1>1, <3>1
    <3>3. SumFunctionOnSet(f, T) = f[Some(T)] + SumFunctionOnSet(f, T \ {Some(T)})
      BY <2>1, <2>3, SumUnfolds
    <3>4. QED
      BY <3>2, <3>3
  <2>4. QED
    BY <2>2, <2>3
<1>2. SUBSET S \subseteq G
  <2> HIDE DEF G
  <2>1. QED
    BY <1>1, SubsetInduction
<1>3. QED
  BY <1>2

\* Any element may be the last to be added.
LEMMA SumWithout ==
    ASSUME NEW S, IsFiniteSet(S), NEW f, \A x \in S : f[x] \in Int, NEW a \in S
    PROVE  SumFunctionOnSet(f, S) = f[a] + SumFunctionOnSet(f, S \ {a})
<1> DEFINE G == {T \in SUBSET S : \A x \in T :
                    SumFunctionOnSet(f, T) = f[x] + SumFunctionOnSet(f, T \ {x})}
<1>1. ASSUME NEW T \in SUBSET S, \A x \in T : T \ {x} \in G PROVE T \in G
  <2> SUFFICES ASSUME NEW x \in T
               PROVE  SumFunctionOnSet(f, T) = f[x] + SumFunctionOnSet(f, T \ {x})
    OBVIOUS
  <2> DEFINE c == Some(T)
  <2>1. c \in T
    BY SomeIsMember
  <2>2. \A U \in SUBSET T : IsFiniteSet(U) /\ SumFunctionOnSet(f, U) \in Int
    <3> SUFFICES ASSUME NEW U \in SUBSET T
                 PROVE  IsFiniteSet(U) /\ SumFunctionOnSet(f, U) \in Int
      OBVIOUS
    <3>1. IsFiniteSet(U)
      BY FS_Subset
    <3>2. QED
      BY <3>1, SumIsInt
  <2>3. SumFunctionOnSet(f, T) = f[c] + SumFunctionOnSet(f, T \ {c})
    BY <2>1, <2>2, SumUnfolds
  <2>4. CASE x = c
    BY <2>3, <2>4
  <2>5. CASE x # c
    <3>1. x \in T \ {c} /\ c \in T \ {x} /\ (T \ {c}) \ {x} = (T \ {x}) \ {c}
      BY <2>1, <2>5
    <3>2. SumFunctionOnSet(f, T \ {c}) = f[x] + SumFunctionOnSet(f, (T \ {c}) \ {x})
      BY <1>1, <2>1, <3>1
    <3>3. SumFunctionOnSet(f, T \ {x}) = f[c] + SumFunctionOnSet(f, (T \ {x}) \ {c})
      BY <1>1, <3>1
    <3>4. f[x] \in Int /\ f[c] \in Int /\ SumFunctionOnSet(f, (T \ {x}) \ {c}) \in Int
      BY <2>1, <2>2
    <3> DEFINE r == SumFunctionOnSet(f, (T \ {x}) \ {c})
    <3>5. /\ SumFunctionOnSet(f, T) = f[c] + (f[x] + r)
          /\ SumFunctionOnSet(f, T \ {x}) = f[c] + r
      BY <2>3, <3>1, <3>2, <3>3
    <3> HIDE DEF c, r
    <3>6. f[c] + (f[x] + r) = f[x] + (f[c] + r)
      BY <3>4 DEF r
    <3>7. QED
      BY <3>5, <3>6
  <2>6. QED
    BY <2>4, <2>5
<1>2. SUBSET S \subseteq G
  <2> HIDE DEF G
  <2>1. QED
    BY <1>1, SubsetInduction
<1>3. QED
  BY <1>2

\* Sums of functions that agree.
LEMMA SumSame ==
    ASSUME NEW S, IsFiniteSet(S), NEW f, NEW g, \A x \in S : f[x] = g[x]
    PROVE  SumFunctionOnSet(f, S) = SumFunctionOnSet(g, S)
<1> DEFINE G == {T \in SUBSET S : SumFunctionOnSet(f, T) = SumFunctionOnSet(g, T)}
<1>1. ASSUME NEW T \in SUBSET S, \A x \in T : T \ {x} \in G PROVE T \in G
  <2>1. IsFiniteSet(T)
    BY FS_Subset
  <2>2. T # {} => Some(T) \in T /\ T \ {Some(T)} \in G
    BY <1>1, SomeIsMember
  <2>3. QED
    BY <2>1, <2>2, SumUnfolds
<1>2. SUBSET S \subseteq G
  <2> HIDE DEF G
  <2>1. QED
    BY <1>1, SubsetInduction
<1>3. QED
  BY <1>2

LEMMA SumOfZeros ==
    ASSUME NEW S, IsFiniteSet(S), NEW f, \A x \in S : f[x] = 0
    PROVE  SumFunctionOnSet(f, S) = 0
<1> DEFINE G == {T \in SUBSET S : SumFunctionOnSet(f, T) = 0}
<1>1. ASSUME NEW T \in SUBSET S, \A x \in T : T \ {x} \in G PROVE T \in G
  <2>1. IsFiniteSet(T)
    BY FS_Subset
  <2>2. T # {} => Some(T) \in T /\ T \ {Some(T)} \in G
    BY <1>1, SomeIsMember
  <2>3. QED
    BY <2>1, <2>2, SumUnfolds
<1>2. SUBSET S \subseteq G
  <2> HIDE DEF G
  <2>1. QED
    BY <1>1, SubsetInduction
<1>3. QED
  BY <1>2

\* One value changes.
LEMMA SumChanges ==
    ASSUME NEW S, IsFiniteSet(S), NEW f, \A x \in S : f[x] \in Int,
           NEW a \in S, NEW g, g[a] \in Int, \A x \in S \ {a} : g[x] = f[x]
    PROVE  SumFunctionOnSet(g, S) = SumFunctionOnSet(f, S) + (g[a] - f[a])
<1> DEFINE rest == SumFunctionOnSet(f, S \ {a})
<1>1. IsFiniteSet(S \ {a})
  BY FS_Subset
<1>2. rest \in Int /\ SumFunctionOnSet(g, S \ {a}) = rest
  BY <1>1, SumIsInt, SumSame
<1>3. SumFunctionOnSet(f, S) = f[a] + rest /\ SumFunctionOnSet(g, S) = g[a] + rest
  BY <1>2, SumWithout
<1> HIDE DEF rest
<1>4. QED
  BY <1>2, <1>3

LEMMA SumMonotone ==
    ASSUME NEW S, IsFiniteSet(S), NEW f, NEW g,
           \A x \in S : f[x] \in Int /\ g[x] \in Int /\ f[x] <= g[x]
    PROVE  SumFunctionOnSet(f, S) <= SumFunctionOnSet(g, S)
<1> DEFINE G == {T \in SUBSET S : SumFunctionOnSet(f, T) <= SumFunctionOnSet(g, T)}
<1>1. ASSUME NEW T \in SUBSET S, \A x \in T : T \ {x} \in G PROVE T \in G
  <2>1. IsFiniteSet(T)
    BY FS_Subset
  <2>2. CASE T = {}
    BY <2>2, SumOfNothing
  <2>3. CASE T # {}
    <3> DEFINE c == Some(T)
    <3>1. c \in T
      BY <2>3, SomeIsMember
    <3>2. IsFiniteSet(T \ {c})
      BY <2>1, FS_Subset
    <3>3. /\ SumFunctionOnSet(f, T \ {c}) \in Int /\ SumFunctionOnSet(g, T \ {c}) \in Int
          /\ SumFunctionOnSet(f, T \ {c}) <= SumFunctionOnSet(g, T \ {c})
      BY <1>1, <3>1, <3>2, SumIsInt
    <3>4. /\ SumFunctionOnSet(f, T) = f[c] + SumFunctionOnSet(f, T \ {c})
          /\ SumFunctionOnSet(g, T) = g[c] + SumFunctionOnSet(g, T \ {c})
      BY <2>1, <2>3, SumUnfolds
    <3> HIDE DEF c
    <3>5. QED
      BY <3>1, <3>3, <3>4
  <2>4. QED
    BY <2>2, <2>3
<1>2. SUBSET S \subseteq G
  <2> HIDE DEF G
  <2>1. QED
    BY <1>1, SubsetInduction
<1>3. QED
  BY <1>2

\* Where one function bounds the other and the sums are equal, so are the functions.
LEMMA SumSqueeze ==
    ASSUME NEW S, IsFiniteSet(S), NEW f, NEW g,
           \A x \in S : f[x] \in Int /\ g[x] \in Int /\ f[x] <= g[x],
           SumFunctionOnSet(f, S) = SumFunctionOnSet(g, S)
    PROVE  \A x \in S : f[x] = g[x]
<1> SUFFICES ASSUME NEW a \in S PROVE f[a] = g[a]
  OBVIOUS
<1>1. IsFiniteSet(S \ {a})
  BY FS_Subset
<1>2. /\ SumFunctionOnSet(f, S \ {a}) \in Int /\ SumFunctionOnSet(g, S \ {a}) \in Int
      /\ SumFunctionOnSet(f, S \ {a}) <= SumFunctionOnSet(g, S \ {a})
  BY <1>1, SumIsInt, SumMonotone
<1>3. /\ SumFunctionOnSet(f, S) = f[a] + SumFunctionOnSet(f, S \ {a})
      /\ SumFunctionOnSet(g, S) = g[a] + SumFunctionOnSet(g, S \ {a})
  BY SumWithout
<1>4. f[a] \in Int /\ g[a] \in Int /\ f[a] <= g[a]
  OBVIOUS
<1>5. \A v, w, r, q \in Int : v <= w /\ r <= q /\ v + r = w + q => v = w
  OBVIOUS
<1>6. QED
  BY <1>2, <1>3, <1>4, <1>5

\* Elements of value zero need not be added.
LEMMA SumRestricted ==
    ASSUME NEW S, IsFiniteSet(S), NEW R \in SUBSET S, NEW f,
           \A x \in S : f[x] \in Int, \A x \in S \ R : f[x] = 0
    PROVE  SumFunctionOnSet(f, S) = SumFunctionOnSet(f, R)
<1> DEFINE G == {T \in SUBSET S : SumFunctionOnSet(f, T) = SumFunctionOnSet(f, T \cap R)}
<1>1. ASSUME NEW T \in SUBSET S, \A x \in T : T \ {x} \in G PROVE T \in G
  <2>1. IsFiniteSet(T) /\ IsFiniteSet(T \cap R)
    BY FS_Subset
  <2>2. CASE T = {}
    BY <2>2
  <2>3. CASE T # {}
    <3> DEFINE c == Some(T)
               rest == SumFunctionOnSet(f, (T \ {c}) \cap R)
    <3>1. c \in T /\ IsFiniteSet((T \ {c}) \cap R)
      BY <2>1, <2>3, SomeIsMember, FS_Subset
    <3>2. SumFunctionOnSet(f, T) = f[c] + rest
      <4>1. SumFunctionOnSet(f, T) = f[c] + SumFunctionOnSet(f, T \ {c})
        BY <2>1, <2>3, SumUnfolds
      <4>2. T \ {c} \in G
        BY <1>1, <3>1
      <4>3. QED
        BY <4>1, <4>2
    <3>3. SumFunctionOnSet(f, T \cap R) = f[c] + rest
      <4>1. CASE c \in R
        <5>1. (T \cap R) \ {c} = (T \ {c}) \cap R /\ c \in T \cap R
          BY <3>1, <4>1
        <5> HIDE DEF c
        <5>2. SumFunctionOnSet(f, T \cap R) = f[c] + SumFunctionOnSet(f, (T \cap R) \ {c})
          BY <2>1, <5>1, SumWithout
        <5>3. QED
          BY <5>1, <5>2
      <4>2. CASE c \notin R
        <5>1. T \cap R = (T \ {c}) \cap R /\ f[c] = 0
          BY <3>1, <4>2
        <5>2. rest \in Int
          BY <3>1, SumIsInt
        <5> HIDE DEF rest
        <5>3. SumFunctionOnSet(f, T \cap R) = rest
          BY <5>1 DEF rest
        <5>4. QED
          BY <5>1, <5>2, <5>3
      <4>3. QED
        BY <4>1, <4>2
    <3>4. QED
      BY <3>2, <3>3
  <2>4. QED
    BY <2>2, <2>3
<1>2. SUBSET S \subseteq G
  <2> HIDE DEF G
  <2>1. QED
    BY <1>1, SubsetInduction
<1>3. SumFunctionOnSet(f, S) = SumFunctionOnSet(f, S \cap R) /\ S \cap R = R
  BY <1>2
<1>4. QED
  BY <1>3

\* The members of S are h[p] for one p of P each.
Indexes(h, P, S) ==
    /\ \A p \in P : h[p] \in S
    /\ \A x \in S : \E p \in P : h[p] = x
    /\ \A p, q \in P : h[p] = h[q] => p = q

\* A sum over the indices of the elements is the sum over the elements.
LEMMA SumReindexed ==
    ASSUME NEW P, IsFiniteSet(P), NEW S, NEW h, Indexes(h, P, S),
           NEW f, NEW g, \A p \in P : f[p] \in Int /\ f[p] = g[h[p]]
    PROVE  SumFunctionOnSet(f, P) = SumFunctionOnSet(g, S)
<1> DEFINE Im(T) == {h[p] : p \in T}
           G == {T \in SUBSET P : SumFunctionOnSet(f, T) = SumFunctionOnSet(g, Im(T))}
<1>1. ASSUME NEW T \in SUBSET P, \A x \in T : T \ {x} \in G PROVE T \in G
  <2>1. IsFiniteSet(T) /\ IsFiniteSet(Im(T))
    <3> DEFINE k == [p \in T |-> h[p]]
    <3>1. IsFiniteSet(T) /\ k \in Surjection(T, Im(T))
      BY FS_Subset DEF Surjection
    <3> HIDE DEF k, Im
    <3>2. QED
      BY <3>1, FS_Surjection
  <2>2. CASE T = {}
    <3>1. Im(T) = {}
      BY <2>2
    <3>2. QED
      BY <2>2, <3>1, SumOfNothing
  <2>3. CASE T # {}
    <3> DEFINE c == Some(T)
    <3>1. c \in T
      BY <2>3, SomeIsMember
    <3>2. h[c] \in Im(T) /\ Im(T) \ {h[c]} = Im(T \ {c})
      BY <3>1 DEF Indexes
    <3>3. SumFunctionOnSet(f, T) = f[c] + SumFunctionOnSet(f, T \ {c})
      BY <2>1, <2>3, SumUnfolds
    <3>4. SumFunctionOnSet(f, T \ {c}) = SumFunctionOnSet(g, Im(T \ {c}))
      BY <1>1, <3>1
    <3>5. \A y \in Im(T) : g[y] \in Int
      OBVIOUS
    <3> HIDE DEF Im, c
    <3>6. SumFunctionOnSet(g, Im(T)) = g[h[c]] + SumFunctionOnSet(g, Im(T) \ {h[c]})
      BY <2>1, <3>2, <3>5, SumWithout
    <3>7. QED
      BY <3>1, <3>2, <3>3, <3>4, <3>6
  <2>4. QED
    BY <2>2, <2>3
<1>2. SUBSET P \subseteq G
  <2> HIDE DEF G
  <2>1. QED
    BY <1>1, SubsetInduction
<1>3. Im(P) = S /\ SumFunctionOnSet(f, P) = SumFunctionOnSet(g, Im(P))
  BY <1>2 DEF Indexes
<1>4. QED
  BY <1>3

\* A sum of naturals is one.
LEMMA SumIsNat ==
    ASSUME NEW S, IsFiniteSet(S), NEW f, \A x \in S : f[x] \in Nat
    PROVE  SumFunctionOnSet(f, S) \in Nat
<1> DEFINE z == [x \in S |-> 0]
<1>1. \A x \in S : z[x] = 0 /\ z[x] \in Int /\ f[x] \in Int /\ z[x] <= f[x]
  OBVIOUS
<1> HIDE DEF z
<1>2. SumFunctionOnSet(z, S) = 0
  BY <1>1, SumOfZeros
<1>3. SumFunctionOnSet(z, S) <= SumFunctionOnSet(f, S)
  BY <1>1, SumMonotone
<1>4. SumFunctionOnSet(f, S) \in Int
  BY <1>1, SumIsInt
<1>5. QED
  BY <1>2, <1>3, <1>4

\* The sum of the sums is the sum of both.
LEMMA SumAdds ==
    ASSUME NEW S, IsFiniteSet(S), NEW f, NEW g, NEW h,
           \A x \in S : f[x] \in Int /\ g[x] \in Int /\ h[x] = f[x] + g[x]
    PROVE  SumFunctionOnSet(h, S) = SumFunctionOnSet(f, S) + SumFunctionOnSet(g, S)
<1> DEFINE G == {T \in SUBSET S : SumFunctionOnSet(h, T) =
                                    SumFunctionOnSet(f, T) + SumFunctionOnSet(g, T)}
<1>1. ASSUME NEW T \in SUBSET S, \A x \in T : T \ {x} \in G PROVE T \in G
  <2>1. IsFiniteSet(T)
    BY FS_Subset
  <2>2. CASE T = {}
    BY <2>2, SumOfNothing
  <2>3. CASE T # {}
    <3> DEFINE c == Some(T)
               U == T \ {c}
    <3>1. c \in T
      BY <2>3, SomeIsMember
    <3>2. IsFiniteSet(U) /\ U \in G
      BY <1>1, <2>1, <3>1, FS_Subset
    <3>3. \A x \in U : f[x] \in Int /\ g[x] \in Int
      OBVIOUS
    <3>4. /\ SumFunctionOnSet(f, T) = f[c] + SumFunctionOnSet(f, U)
          /\ SumFunctionOnSet(g, T) = g[c] + SumFunctionOnSet(g, U)
          /\ SumFunctionOnSet(h, T) = h[c] + SumFunctionOnSet(h, U)
      BY <2>1, <2>3, SumUnfolds
    <3>5. f[c] \in Int /\ g[c] \in Int /\ h[c] = f[c] + g[c]
      BY <3>1
    <3> HIDE DEF c, U
    <3>6. SumFunctionOnSet(f, U) \in Int /\ SumFunctionOnSet(g, U) \in Int
      BY <3>2, <3>3, SumIsInt
    <3>7. SumFunctionOnSet(h, U) = SumFunctionOnSet(f, U) + SumFunctionOnSet(g, U)
      BY <3>2
    <3>8. SumFunctionOnSet(h, T) = SumFunctionOnSet(f, T) + SumFunctionOnSet(g, T)
      BY <3>4, <3>5, <3>6, <3>7
    <3>9. QED
      BY <3>8
  <2>4. QED
    BY <2>2, <2>3
<1>2. SUBSET S \subseteq G
  <2> HIDE DEF G
  <2>1. QED
    BY <1>1, SubsetInduction
<1>3. QED
  BY <1>2

\* A sum over a set is the sum over a part and over the rest.
LEMMA SumOfParts ==
    ASSUME NEW S, IsFiniteSet(S), NEW R \in SUBSET S, NEW f, \A x \in S : f[x] \in Int
    PROVE  SumFunctionOnSet(f, S) = SumFunctionOnSet(f, R) + SumFunctionOnSet(f, S \ R)
<1> DEFINE g == [x \in S |-> IF x \in R THEN f[x] ELSE 0]
           h == [x \in S |-> IF x \in R THEN 0 ELSE f[x]]
           Q == S \ R
<1>1. IsFiniteSet(R) /\ IsFiniteSet(Q) /\ Q \in SUBSET S
  BY FS_Subset
<1>2. \A x \in S : g[x] \in Int /\ h[x] \in Int /\ f[x] = g[x] + h[x]
  OBVIOUS
<1>3. /\ \A x \in S \ R : g[x] = 0
      /\ \A x \in S \ Q : h[x] = 0
      /\ \A x \in R : g[x] = f[x]
      /\ \A x \in Q : h[x] = f[x]
  OBVIOUS
<1> HIDE DEF g, h
<1>4. SumFunctionOnSet(f, S) = SumFunctionOnSet(g, S) + SumFunctionOnSet(h, S)
  BY <1>2, SumAdds
<1>5. SumFunctionOnSet(g, S) = SumFunctionOnSet(g, R)
  BY <1>2, <1>3, SumRestricted
<1> HIDE DEF Q
<1>6. SumFunctionOnSet(h, S) = SumFunctionOnSet(h, Q)
  BY <1>1, <1>2, <1>3, SumRestricted
<1>7. SumFunctionOnSet(g, R) = SumFunctionOnSet(f, R) /\ SumFunctionOnSet(h, Q) = SumFunctionOnSet(f, Q)
  BY <1>1, <1>3, SumSame
<1>8. QED
  BY <1>4, <1>5, <1>6, <1>7 DEF Q

\* A sum is at most the greatest value as often as there are elements.
LEMMA SumBelow ==
    ASSUME NEW S, IsFiniteSet(S), NEW f, NEW v \in Int, \A x \in S : f[x] \in Int /\ f[x] <= v
    PROVE  SumFunctionOnSet(f, S) <= v * Cardinality(S)
<1> DEFINE G == {T \in SUBSET S : SumFunctionOnSet(f, T) <= v * Cardinality(T)}
<1>1. ASSUME NEW T \in SUBSET S, \A x \in T : T \ {x} \in G PROVE T \in G
  <2>1. IsFiniteSet(T)
    BY FS_Subset
  <2>2. CASE T = {}
    BY <2>2, SumOfNothing, FS_EmptySet
  <2>3. CASE T # {}
    <3>1. PICK c : c \in T
      BY <2>3
    <3>2. PICK U : U = T \ {c}
      OBVIOUS
    <3>3. IsFiniteSet(U) /\ SumFunctionOnSet(f, U) <= v * Cardinality(U)
      BY <1>1, <2>1, <3>1, <3>2, FS_Subset
    <3>4. SumFunctionOnSet(f, T) = f[c] + SumFunctionOnSet(f, U)
      BY <2>1, <3>1, <3>2, SumWithout
    <3>5. f[c] \in Int /\ f[c] <= v
      BY <3>1
    <3>6. SumFunctionOnSet(f, U) \in Int
      BY <3>2, <3>3, SumIsInt
    <3>7. Cardinality(U) = Cardinality(T) - 1 /\ Cardinality(T) \in Nat
      BY <2>1, <3>1, <3>2, FS_RemoveElement, FS_CardinalityType
    <3>8. v * Cardinality(T) = v * Cardinality(U) + v
      BY <3>7
    <3>9. \A a, b, d, e, h \in Int : a = b + d /\ b <= v /\ d <= e /\ h = e + v => a <= h
      OBVIOUS
    <3>10. v * Cardinality(U) \in Int /\ v * Cardinality(T) \in Int /\ SumFunctionOnSet(f, T) \in Int
      BY <3>4, <3>5, <3>6, <3>7
    <3>11. SumFunctionOnSet(f, T) <= v * Cardinality(T)
      BY <3>3, <3>4, <3>5, <3>6, <3>8, <3>9, <3>10
    <3>12. QED
      BY <3>11
  <2>4. QED
    BY <2>2, <2>3
<1>2. SUBSET S \subseteq G
  <2> HIDE DEF G
  <2>1. QED
    BY <1>1, SubsetInduction
<1>3. QED
  BY <1>2

\* One value is lowered.
LEMMA SumLowered ==
    ASSUME NEW S, IsFiniteSet(S), NEW f, NEW g, NEW a \in S, NEW d \in Int,
           \A i \in S : f[i] \in Int /\ g[i] = f[i] - (IF i = a THEN d ELSE 0)
    PROVE  SumFunctionOnSet(g, S) = SumFunctionOnSet(f, S) - d
<1>1. (\A i \in S : f[i] \in Int) /\ g[a] \in Int /\ f[a] \in Int /\ g[a] = f[a] - d
  OBVIOUS
<1>2. \A i \in S \ {a} : g[i] = f[i]
  OBVIOUS
<1>3. SumFunctionOnSet(g, S) = SumFunctionOnSet(f, S) + (g[a] - f[a])
  BY <1>1, <1>2, SumChanges
<1>4. SumFunctionOnSet(f, S) \in Int
  BY <1>1, SumIsInt
<1>5. QED
  BY <1>1, <1>3, <1>4
=================================================================================
