----------------------- MODULE WeightedRoundRobinProofs -----------------------
(***************************************************************************)
(* Theorems about modules WeightedRoundRobin, WeightedShares, Drift and    *)
(* WeightedSpread, for any number of backends and callers and any weights: *)
(* first what holds whatever the rotation does, then how the requests are  *)
(* shared out while it is fixed, by selects that follow one another and,   *)
(* with the trails of module Drift, by selects that overlap, and last how  *)
(* far changes of the rotation bring the credits apart.                    *)
(***************************************************************************)
EXTENDS Drift, WeightedSpread, SetLemmas

Call == [stage : Stages, slice : Seq(Backends), pos : Nat,
         totalWeight : Int, bestIndex : Nat, bestCredit : Int]

Looping == {"add", "compare", "take", "panicked"}

\* What is known of a call c while the credits are w.
Fits(c, w) ==
    /\ c.pos <= Len(c.slice) /\ c.bestIndex <= Len(c.slice)
    /\ c.stage = "idle" => c.pos = 0 /\ c.bestIndex = 0
    /\ c.stage \in Looping \cup {"subtract"} =>
          /\ w # <<>> /\ c.bestIndex \in DOMAIN w
          /\ c.bestIndex \in DOMAIN c.slice /\ c.pos \in DOMAIN c.slice
    /\ c.stage = "init" => c.slice # <<>>
    /\ c.stage \in {"compare", "take"} => c.pos \in DOMAIN w
    /\ c.stage = "panicked" => c.pos \notin DOMAIN w

IInv ==
    /\ rotation \in SUBSET Backends
    /\ credits \in Seq(Int)
    /\ call \in [Callers -> Call]
    /\ \A t \in Callers : Fits(call[t], credits)

LEMMA InitInvariant == Init => IInv
<1> SUFFICES ASSUME Init PROVE IInv
  OBVIOUS
<1>1. NoCall \in Call /\ \A w : Fits(NoCall, w)
  BY DEF NoCall, Call, Stages, Fits, Looping
<1>2. QED
  BY <1>1 DEF Init, Env!Init, IInv

\* One call becomes r; the credits keep their length once there are any.
LEMMA CallStep ==
    ASSUME IInv, NEW t \in Callers, NEW r \in Call, call' = [call EXCEPT ![t] = r],
           rotation' \in SUBSET Backends, credits' \in Seq(Int), Fits(r, credits'),
           credits = <<>> \/ DOMAIN credits' = DOMAIN credits
    PROVE  IInv'
<1>1. call' \in [Callers -> Call] /\ call'[t] = r
  BY DEF IInv
<1>2. ASSUME NEW u \in Callers \ {t} PROVE Fits(call'[u], credits')
  <2>1. call'[u] = call[u] /\ Fits(call[u], credits)
    BY DEF IInv
  <2>2. CASE DOMAIN credits' = DOMAIN credits
    <3>1. credits # <<>> => credits' # <<>>
      BY <2>2 DEF IInv
    <3>2. QED
      BY <2>1, <2>2, <3>1 DEF Fits
  <2>3. CASE credits = <<>>
    <3>1. call[u].stage \notin Looping \cup {"subtract"}
      BY <2>1, <2>3 DEF Fits
    <3>2. QED
      BY <2>1, <3>1 DEF Fits, Looping
  <2>4. QED
    BY <2>2, <2>3
<1>3. QED
  BY <1>1, <1>2 DEF IInv

\* What is known of a call in any stage.
LEMMA CallFacts ==
    ASSUME IInv, NEW t \in Callers
    PROVE  /\ call[t] \in Call /\ Fits(call[t], credits)
           /\ call[t].slice \in Seq(Backends) /\ DOMAIN call[t].slice = 1..Len(call[t].slice)
           /\ Len(call[t].slice) \in Nat
BY DEF IInv, Call

LEMMA BackendsFinite == Backends \subseteq Nat /\ IsFiniteSet(Backends)
<1>1. 1 \in Int /\ NumBackends \in Int
  BY WeightAssumption
<1>2. IsFiniteSet(1..NumBackends)
  BY <1>1, FS_Interval
<1>3. QED
  BY <1>2 DEF Backends

LEMMA SelectStep ==
    ASSUME IInv, NEW t \in Callers, Select(t)
    PROVE  IInv'
<1> DEFINE s == InPoolOrder(rotation)
           r == [call[t] EXCEPT !.stage = "init", !.slice = s]
<1>1. s \in Seq(Backends) /\ s # <<>>
  <2>1. rotation \subseteq Backends /\ Backends \subseteq Nat /\ IsFiniteSet(Backends)
    BY BackendsFinite DEF IInv
  <2>2. IsFiniteSet(rotation) /\ rotation \in SUBSET Nat /\ rotation # {}
    BY <2>1, FS_Subset DEF Select
  <2>3. /\ s \in [1..Cardinality(rotation) -> rotation] /\ Len(s) = Cardinality(rotation)
        /\ Cardinality(rotation) \in Nat \ {0}
    BY <2>2, InPoolOrderFacts, FS_CardinalityType, FS_EmptySet
  <2> HIDE DEF s
  <2>4. s \in [1..Cardinality(rotation) -> Backends]
    BY <2>1, <2>3
  <2> HIDE DEF Backends
  <2>5. QED
    BY <2>3, <2>4
<1>2. /\ call[t] \in Call /\ Fits(call[t], credits) /\ call[t].stage = "idle"
      /\ UNCHANGED <<rotation, credits>>
  BY CallFacts DEF Select
<1>3. call' = [call EXCEPT ![t] = r]
  BY DEF Select, IInv
<1>4. "init" \in Stages
  BY DEF Stages
<1> HIDE DEF s
<1>5. /\ r \in Call /\ r.stage = "init" /\ r.slice = s
      /\ r.pos = call[t].pos /\ r.bestIndex = call[t].bestIndex
  BY <1>1, <1>2, <1>4 DEF Call
<1> HIDE DEF r
<1>6. Fits(r, credits)
  <2>1. r.pos = 0 /\ r.bestIndex = 0 /\ Len(s) \in Nat
    BY <1>1, <1>2, <1>5 DEF Fits
  <2>2. QED
    BY <1>1, <1>5, <2>1 DEF Fits, Looping
<1>7. QED
  BY <1>2, <1>3, <1>5, <1>6, CallStep DEF IInv

LEMMA GetOrInitStep ==
    ASSUME IInv, NEW t \in Callers, GetOrInit(t)
    PROVE  IInv'
<1> DEFINE s == call[t].slice
           r == [call[t] EXCEPT !.stage = "add", !.pos = 1, !.bestIndex = 1,
                                !.bestCredit = I64Min]
<1>1. /\ call[t] \in Call /\ s \in Seq(Backends) /\ DOMAIN s = 1..Len(s) /\ Len(s) \in Nat
      /\ s # <<>> /\ rotation' = rotation
  BY CallFacts DEF GetOrInit, Fits
<1>2. call' = [call EXCEPT ![t] = r]
  BY DEF GetOrInit, IInv
<1>3. Len(s) >= 1 /\ 1 \in DOMAIN s
  BY <1>1
<1>4. credits' \in Seq(Int) /\ credits' # <<>>
      /\ (credits = <<>> \/ DOMAIN credits' = DOMAIN credits)
  <2>1. CASE credits = <<>>
    <3> DEFINE z == [p \in 1..Len(s) |-> 0]
    <3>1. credits' = z
      BY <1>1, <2>1 DEF GetOrInit
    <3> HIDE DEF s
    <3>2. z \in Seq(Int) /\ z[1] = 0 /\ DOMAIN z = 1..Len(s) /\ 1 \in DOMAIN z
      BY <1>1, <1>3
    <3>3. z # <<>>
      BY <3>2
    <3>4. QED
      BY <2>1, <3>1, <3>2, <3>3
  <2>2. CASE credits # <<>>
    BY <2>2 DEF GetOrInit, IInv
  <2>3. QED
    BY <2>1, <2>2
<1>5. "add" \in Stages /\ 1 \in DOMAIN credits' /\ I64Min \in Int
  BY <1>4, WeightAssumption DEF Stages
<1> HIDE DEF s
<1>6. r \in Call /\ r.stage = "add" /\ r.slice = s /\ r.pos = 1 /\ r.bestIndex = 1
  BY <1>1, <1>5 DEF Call, s
<1> HIDE DEF r
<1>7. Fits(r, credits')
  BY <1>1, <1>3, <1>4, <1>5, <1>6 DEF Fits, Looping
<1>8. QED
  BY <1>1, <1>2, <1>4, <1>6, <1>7, CallStep DEF IInv

\* Writing one credit keeps their number.
LEMMA CreditWritten ==
    ASSUME NEW w \in Seq(Int), NEW p \in DOMAIN w, NEW v \in Int
    PROVE  /\ [w EXCEPT ![p] = v] \in Seq(Int) /\ [w EXCEPT ![p] = v] # <<>>
           /\ DOMAIN [w EXCEPT ![p] = v] = DOMAIN w
<1> DEFINE x == [w EXCEPT ![p] = v]
<1>1. DOMAIN w = 1..Len(w) /\ Len(w) \in Nat /\ w \in [1..Len(w) -> Int]
  OBVIOUS
<1>2. x \in [1..Len(w) -> Int] /\ DOMAIN x = DOMAIN w
  BY <1>1
<1>3. x \in Seq(Int) /\ p \in DOMAIN x
  BY <1>1, <1>2
<1>4. QED
  BY <1>2, <1>3

LEMMA AddWeightStep ==
    ASSUME IInv, NEW t \in Callers, AddWeight(t)
    PROVE  IInv'
<1> DEFINE p == call[t].pos
           next == IF p \in DOMAIN credits THEN "compare" ELSE "panicked"
           r == [call[t] EXCEPT !.stage = next, !.totalWeight = @ + Weight(t, p)]
<1>1. /\ call[t] \in Call /\ Fits(call[t], credits) /\ call[t].stage = "add"
      /\ credits # <<>> /\ p \in DOMAIN call[t].slice /\ rotation' = rotation
      /\ call[t].bestIndex \in DOMAIN call[t].slice /\ call[t].bestIndex \in DOMAIN credits
  BY CallFacts DEF AddWeight, Fits, Looping
<1>2. call' = [call EXCEPT ![t] = r]
  BY DEF AddWeight, IInv
<1>3. Weight(t, p) \in Int
  <2>1. call[t].slice[p] \in Backends
    BY <1>1, CallFacts
  <2>2. QED
    BY <2>1, WeightAssumption DEF Weight
<1>4. credits' \in Seq(Int) /\ DOMAIN credits' = DOMAIN credits /\ credits' # <<>>
  <2>1. CASE p \in DOMAIN credits
    <3>1. credits' = [credits EXCEPT ![p] = credits[p] + Weight(t, p)]
          /\ credits \in Seq(Int) /\ credits[p] + Weight(t, p) \in Int
      BY <1>3, <2>1 DEF AddWeight, IInv
    <3>2. QED
      BY <2>1, <3>1, CreditWritten
  <2>2. CASE p \notin DOMAIN credits
    BY <1>1, <2>2 DEF AddWeight, IInv
  <2>3. QED
    BY <2>1, <2>2
<1>5. next \in Stages /\ next \in {"compare", "panicked"}
      /\ (next = "compare" <=> p \in DOMAIN credits)
  BY DEF Stages
<1> HIDE DEF next
<1>6. /\ r \in Call /\ r.stage = next /\ r.slice = call[t].slice /\ r.pos = p
      /\ r.bestIndex = call[t].bestIndex
  <2>1. PICK w : w = Weight(t, p)
    OBVIOUS
  <2>2. \A c \in Call : \A v \in Int :
           LET d == [c EXCEPT !.stage = next, !.totalWeight = v]
           IN  /\ d \in Call /\ d.stage = next /\ d.slice = c.slice /\ d.pos = c.pos
               /\ d.bestIndex = c.bestIndex
    BY <1>5 DEF Call
  <2>3. /\ call[t].totalWeight + w \in Int
        /\ r = [call[t] EXCEPT !.stage = next, !.totalWeight = call[t].totalWeight + w]
    BY <1>1, <1>3, <2>1 DEF Call
  <2> HIDE DEF r
  <2>4. QED
    BY <1>1, <2>2, <2>3
<1> HIDE DEF r
<1>7. Fits(r, credits')
  BY <1>1, <1>4, <1>5, <1>6 DEF Fits, Looping
<1>8. QED
  BY <1>1, <1>2, <1>4, <1>6, <1>7, CallStep DEF IInv

\* The loop goes on from a position of the slice to the next or to the end.
LEMMA OnwardFacts ==
    ASSUME IInv, NEW t \in Callers, NEW c \in Call, c.slice = call[t].slice,
           credits # <<>>, c.pos \in DOMAIN c.slice, c.bestIndex \in DOMAIN c.slice,
           c.bestIndex \in DOMAIN credits
    PROVE  Onward(t, c) \in Call /\ Fits(Onward(t, c), credits)
<1>1. /\ DOMAIN c.slice = 1..Len(c.slice) /\ Len(c.slice) \in Nat
      /\ c.pos \in Nat /\ "subtract" \in Stages /\ "add" \in Stages
  BY CallFacts DEF Call, Stages
<1>2. CASE c.pos = Len(call[t].slice)
  <2> DEFINE r == [c EXCEPT !.stage = "subtract"]
  <2>1. /\ r \in Call /\ r.stage = "subtract" /\ r.slice = c.slice /\ r.pos = c.pos
        /\ r.bestIndex = c.bestIndex
    BY <1>1 DEF Call
  <2>2. Onward(t, c) = r
    BY <1>2 DEF Onward
  <2> HIDE DEF r
  <2>3. QED
    BY <1>1, <2>1, <2>2 DEF Fits, Looping
<1>3. CASE c.pos # Len(call[t].slice)
  <2> DEFINE r == [c EXCEPT !.stage = "add", !.pos = c.pos + 1]
  <2>1. /\ r \in Call /\ r.stage = "add" /\ r.slice = c.slice /\ r.pos = c.pos + 1
        /\ r.bestIndex = c.bestIndex
    <3>1. c.pos + 1 \in Nat
      BY <1>1
    <3>2. \A v \in Nat :
             LET d == [c EXCEPT !.stage = "add", !.pos = v]
             IN  /\ d \in Call /\ d.stage = "add" /\ d.slice = c.slice /\ d.pos = v
                 /\ d.bestIndex = c.bestIndex
      BY <1>1 DEF Call
    <3>3. QED
      BY <3>1, <3>2
  <2>2. Onward(t, c) = r
    BY <1>3 DEF Onward
  <2>3. c.pos + 1 \in DOMAIN c.slice
    BY <1>1, <1>3
  <2> HIDE DEF r
  <2>4. QED
    BY <1>1, <2>1, <2>2, <2>3 DEF Fits, Looping
<1>4. QED
  BY <1>2, <1>3

LEMMA CompareStep ==
    ASSUME IInv, NEW t \in Callers, Compare(t)
    PROVE  IInv'
<1> DEFINE took == [call[t] EXCEPT !.stage = "take"]
           r == IF credits[call[t].pos] > call[t].bestCredit THEN took ELSE Onward(t, call[t])
<1>1. /\ call[t] \in Call /\ Fits(call[t], credits) /\ call[t].stage = "compare"
      /\ credits # <<>> /\ call[t].pos \in DOMAIN call[t].slice
      /\ call[t].bestIndex \in DOMAIN call[t].slice /\ call[t].pos \in DOMAIN credits
      /\ call[t].bestIndex \in DOMAIN credits
      /\ UNCHANGED <<rotation, credits>>
  BY CallFacts DEF Compare, Fits, Looping
<1>2. call' = [call EXCEPT ![t] = r]
  BY DEF Compare, IInv
<1>3. "take" \in Stages
  BY DEF Stages
<1>4. /\ took \in Call /\ took.stage = "take" /\ took.slice = call[t].slice
      /\ took.pos = call[t].pos /\ took.bestIndex = call[t].bestIndex
  BY <1>1, <1>3 DEF Call
<1> HIDE DEF took
<1>5. Fits(took, credits)
  BY <1>1, <1>4 DEF Fits, Looping
<1>6. Onward(t, call[t]) \in Call /\ Fits(Onward(t, call[t]), credits)
  BY <1>1, OnwardFacts
<1>7. r \in Call /\ Fits(r, credits)
  BY <1>4, <1>5, <1>6
<1> HIDE DEF r
<1>8. QED
  BY <1>1, <1>2, <1>7, CallStep DEF IInv

LEMMA TakeStep ==
    ASSUME IInv, NEW t \in Callers, Take(t)
    PROVE  IInv'
<1> DEFINE p == call[t].pos
           c == [call[t] EXCEPT !.bestCredit = credits[p], !.bestIndex = p]
           r == Onward(t, c)
<1>1. /\ call[t] \in Call /\ credits # <<>> /\ p \in DOMAIN call[t].slice
      /\ p \in DOMAIN credits /\ UNCHANGED <<rotation, credits>>
  BY CallFacts DEF Take, Fits, Looping
<1>2. call' = [call EXCEPT ![t] = r]
  BY DEF Take, IInv
<1>3. credits[p] \in Int /\ p \in Nat
  BY <1>1 DEF IInv, Call
<1>4. c \in Call /\ c.slice = call[t].slice /\ c.pos = p /\ c.bestIndex = p
  BY <1>1, <1>3 DEF Call
<1> HIDE DEF c
<1>5. r \in Call /\ Fits(r, credits)
  BY <1>1, <1>4, OnwardFacts
<1> HIDE DEF r
<1>6. QED
  BY <1>1, <1>2, <1>5, CallStep DEF IInv

LEMMA SubtractStep ==
    ASSUME IInv, NEW t \in Callers, Subtract(t)
    PROVE  IInv'
<1> DEFINE b == call[t].bestIndex
           v == credits[b] - call[t].totalWeight
<1>1. /\ call[t] \in Call /\ b \in DOMAIN credits /\ credits \in Seq(Int)
      /\ rotation' = rotation
  BY CallFacts DEF Subtract, Fits, IInv
<1>2. v \in Int
  BY <1>1 DEF Call
<1>3. credits' = [credits EXCEPT ![b] = v] /\ call' = [call EXCEPT ![t] = NoCall]
  BY DEF Subtract
<1> HIDE DEF v
<1>4. credits' \in Seq(Int) /\ DOMAIN credits' = DOMAIN credits
  BY <1>1, <1>2, <1>3, CreditWritten
<1>5. NoCall \in Call /\ \A w : Fits(NoCall, w)
  BY DEF NoCall, Call, Stages, Fits, Looping
<1>6. QED
  BY <1>1, <1>3, <1>4, <1>5, CallStep DEF IInv

LEMMA PoolStep ==
    ASSUME IInv, PoolChanges
    PROVE  IInv'
BY DEF IInv, PoolChanges, Env!Next, Env!Enter, Env!Leave

LEMMA Invariant == Spec => []IInv
<1>1. ASSUME IInv, [Next]_vars PROVE IInv'
  <2>1. ASSUME NEW t \in Callers, Work(t) PROVE IInv'
    BY <1>1, <2>1, SelectStep, GetOrInitStep, AddWeightStep, CompareStep, TakeStep DEF Work
  <2>2. ASSUME NEW t \in Callers, Subtract(t) PROVE IInv'
    BY <1>1, <2>2, SubtractStep
  <2>3. CASE PoolChanges
    BY <1>1, <2>3, PoolStep
  <2>4. CASE UNCHANGED vars
    BY <1>1, <2>4 DEF IInv, vars
  <2>5. QED
    BY <1>1, <2>1, <2>2, <2>3, <2>4 DEF Next
<1>2. QED
  BY <1>1, InitInvariant, PTL DEF Spec

---------------------------------------------------------------------------------
(***************************************************************************)
(* The type invariant, with the bounds of the loop: positions and winners  *)
(* are positions of the slice that the call took.                          *)
(***************************************************************************)
THEOREM WeightedTypeCorrect == Spec => []TypeOK
<1>1. ASSUME IInv PROVE TypeOK
  <2>1. ASSUME NEW t \in Callers
        PROVE  /\ call[t].stage \in Stages /\ call[t].slice \in Seq(Backends)
               /\ call[t].pos \in InSlice(t) /\ call[t].bestIndex \in InSlice(t)
               /\ {call[t].totalWeight, call[t].bestCredit} \subseteq Int
    <3>1. call[t] \in Call /\ Fits(call[t], credits) /\ Len(call[t].slice) \in Nat
      BY <1>1, CallFacts
    <3>2. QED
      BY <3>1 DEF Fits, Call, InSlice
  <2>2. QED
    BY <1>1, <2>1 DEF IInv, TypeOK
<1>2. QED
  BY <1>1, Invariant, PTL

(***************************************************************************)
(* select panics only when the slice it was given is longer than the       *)
(* credits, that is longer than the first slice ever selected from         *)
(* (weighted_round_robin.rs:50-61): while the rotation is never larger     *)
(* than it was then, every call returns.                                   *)
(***************************************************************************)
THEOREM WeightedPanicsOnlyWhenLonger ==
    Spec => [](\A t \in Callers :
                  call[t].stage = "panicked" => Len(credits) < Len(call[t].slice))
<1> DEFINE Longer ==
        \A t \in Callers : call[t].stage = "panicked" => Len(credits) < Len(call[t].slice)
<1>1. ASSUME IInv PROVE Longer
  <2> SUFFICES ASSUME NEW t \in Callers, call[t].stage = "panicked"
               PROVE  Len(credits) < Len(call[t].slice)
    OBVIOUS
  <2>1. /\ credits \in Seq(Int) /\ call[t].pos \in DOMAIN call[t].slice
        /\ call[t].pos \notin DOMAIN credits
    BY <1>1, CallFacts DEF Fits, Looping, IInv
  <2>2. /\ DOMAIN call[t].slice = 1..Len(call[t].slice) /\ Len(call[t].slice) \in Nat
        /\ DOMAIN credits = 1..Len(credits) /\ Len(credits) \in Nat
    BY <1>1, <2>1, CallFacts
  <2>3. QED
    BY <2>1, <2>2
<1>2. QED
  BY <1>1, Invariant, PTL
---------------------------------------------------------------------------------
(***************************************************************************)
(* The sum of the credits.  Total(s, k) is what the first k positions of   *)
(* slice s weigh, so a call that has added k positions owes that much.     *)
(***************************************************************************)
Total(s, k) == SumFunction([p \in 1..k |-> WeightOf[s[p]]])

Owes(t) == Total(call[t].slice, Added(call[t]))

\* total_weight is what the call has added so far.
TotalsKept ==
    \A t \in Callers : call[t].stage # "panicked" => call[t].totalWeight = Owes(t)

LEMMA OutstandingIs == \A t \in Callers : Outstanding(t) = Owes(t) /\ Outstanding(t)' = Owes(t)'
BY DEF Outstanding, Owes, Total, Weight

LEMMA TotalOfNone == \A s : Total(s, 0) = 0
<1> SUFFICES ASSUME NEW s PROVE Total(s, 0) = 0
  OBVIOUS
<1>1. 1..0 = {}
  OBVIOUS
<1>2. SumFunction([p \in {} |-> WeightOf[s[p]]]) = 0
  BY SumOfNothing DEF SumFunction
<1>3. QED
  BY <1>1, <1>2 DEF Total

LEMMA TotalOfOneMore ==
    ASSUME NEW s \in Seq(Backends), NEW k \in Nat, k <= Len(s)
    PROVE  /\ Total(s, k) \in Int
           /\ k < Len(s) => Total(s, k + 1) = Total(s, k) + WeightOf[s[k + 1]]
<1> DEFINE f(n) == [p \in 1..n |-> WeightOf[s[p]]]
<1>1. \A p \in 1..Len(s) : WeightOf[s[p]] \in Int
  BY WeightAssumption
<1>2. IsFiniteSet(1..k) /\ IsFiniteSet(1..(k + 1)) /\ \A n : DOMAIN f(n) = 1..n
  BY FS_Interval
<1>3. SumFunctionOnSet(f(k), 1..k) \in Int
  <2>1. \A p \in 1..k : f(k)[p] \in Int
    BY <1>1
  <2> HIDE DEF f
  <2>2. QED
    BY <1>2, <2>1, SumIsInt
<1>4. ASSUME k < Len(s) PROVE Total(s, k + 1) = Total(s, k) + WeightOf[s[k + 1]]
  <2>1. \A p \in 1..(k + 1) : f(k + 1)[p] \in Int
    BY <1>1, <1>4
  <2>2. k + 1 \in 1..(k + 1) /\ (1..(k + 1)) \ {k + 1} = 1..k
    OBVIOUS
  <2>3. \A p \in 1..k : f(k + 1)[p] = f(k)[p]
    OBVIOUS
  <2>4. f(k + 1)[k + 1] = WeightOf[s[k + 1]] /\ WeightOf[s[k + 1]] \in Int
    BY <1>1, <1>4
  <2> HIDE DEF f
  <2>5. SumFunctionOnSet(f(k + 1), 1..(k + 1))
            = f(k + 1)[k + 1] + SumFunctionOnSet(f(k + 1), (1..(k + 1)) \ {k + 1})
    BY <1>2, <2>1, <2>2, SumWithout
  <2>6. SumFunctionOnSet(f(k + 1), 1..k) = SumFunctionOnSet(f(k), 1..k)
    BY <1>2, <2>3, SumSame
  <2>7. SumFunctionOnSet(f(k + 1), 1..(k + 1)) = WeightOf[s[k + 1]] + SumFunctionOnSet(f(k), 1..k)
    BY <2>2, <2>4, <2>5, <2>6
  <2>8. Total(s, k) = SumFunctionOnSet(f(k), 1..k)
        /\ Total(s, k + 1) = SumFunctionOnSet(f(k + 1), 1..(k + 1))
    BY <1>2 DEF Total, SumFunction, f
  <2>9. QED
    BY <1>3, <2>4, <2>7, <2>8
<1>5. Total(s, k) = SumFunctionOnSet(f(k), 1..k)
  BY <1>2 DEF Total, SumFunction
<1>6. QED
  BY <1>3, <1>4, <1>5

\* What a call has added is among the positions of its slice.
LEMMA AddedFacts ==
    ASSUME IInv, NEW t \in Callers
    PROVE  /\ Added(call[t]) \in Nat /\ Added(call[t]) <= Len(call[t].slice)
           /\ Owes(t) \in Int
<1>1. /\ call[t] \in Call /\ Fits(call[t], credits) /\ call[t].slice \in Seq(Backends)
      /\ DOMAIN call[t].slice = 1..Len(call[t].slice) /\ Len(call[t].slice) \in Nat
  BY CallFacts
<1>2. /\ call[t].pos \in Nat /\ call[t].pos <= Len(call[t].slice)
      /\ call[t].stage \in Looping => call[t].pos \in 1..Len(call[t].slice)
  BY <1>1 DEF Fits, Call
<1>3. Added(call[t]) \in Nat /\ Added(call[t]) <= Len(call[t].slice)
  BY <1>1, <1>2 DEF Added, Looping
<1>4. QED
  BY <1>1, <1>3, TotalOfOneMore DEF Owes

LEMMA CreditSum ==
    ASSUME NEW w \in Seq(Int)
    PROVE  /\ DOMAIN w = 1..Len(w) /\ IsFiniteSet(DOMAIN w) /\ SumFunction(w) \in Int
           /\ \A p \in DOMAIN w, v \in Int :
                 SumFunction([w EXCEPT ![p] = v]) = SumFunction(w) + (v - w[p])
<1>1. DOMAIN w = 1..Len(w) /\ IsFiniteSet(DOMAIN w) /\ \A p \in DOMAIN w : w[p] \in Int
  BY FS_Interval
<1>2. SumFunction(w) \in Int
  BY <1>1, SumIsInt DEF SumFunction
<1>3. ASSUME NEW p \in DOMAIN w, NEW v \in Int
      PROVE  SumFunction([w EXCEPT ![p] = v]) = SumFunction(w) + (v - w[p])
  <2> DEFINE x == [w EXCEPT ![p] = v]
  <2>1. DOMAIN x = DOMAIN w /\ x[p] = v /\ \A q \in DOMAIN w \ {p} : x[q] = w[q]
    OBVIOUS
  <2> HIDE DEF x
  <2>2. SumFunctionOnSet(x, DOMAIN w) = SumFunctionOnSet(w, DOMAIN w) + (v - w[p])
    <3>1. PICK D : D = DOMAIN w
      OBVIOUS
    <3>2. /\ IsFiniteSet(D) /\ p \in D /\ x[p] \in Int
          /\ \A q \in D : w[q] \in Int
          /\ \A q \in D \ {p} : x[q] = w[q]
      BY <1>1, <2>1, <3>1
    <3>3. SumFunctionOnSet(x, D) = SumFunctionOnSet(w, D) + (x[p] - w[p])
      BY <3>2, SumChanges
    <3>4. QED
      BY <2>1, <3>1, <3>3
  <2>3. SumFunction(x) = SumFunction(w) + (v - w[p])
    BY <2>1, <2>2 DEF SumFunction
  <2>4. QED
    BY <2>3 DEF x
<1>4. QED
  BY <1>1, <1>2, <1>3

\* One call adds d to the credits and owes d more.
LEMMA BalanceStep ==
    ASSUME IInv, IInv', TotalsKept, CreditsConserved, NEW t \in Callers, NEW d \in Int,
           \A u \in Callers \ {t} : call'[u] = call[u],
           SumFunction(credits') = SumFunction(credits) + d,
           Owes(t)' = Owes(t) + d,
           call'[t].stage # "panicked" => call'[t].totalWeight = Owes(t)'
    PROVE  TotalsKept' /\ CreditsConserved'
<1>1. \A u \in Callers \ {t} : Owes(u)' = Owes(u)
  BY DEF Owes
<1>2. TotalsKept'
  BY <1>1 DEF TotalsKept
<1> DEFINE f == [u \in Callers |-> Owes(u)]
           g == [u \in Callers |-> Owes(u)']
<1>3. /\ \A u \in Callers : f[u] \in Int
      /\ g[t] = Owes(t)' /\ f[t] = Owes(t) /\ \A u \in Callers \ {t} : g[u] = f[u]
      /\ DOMAIN f = Callers /\ DOMAIN g = Callers
  BY <1>1, AddedFacts
<1>4. [u \in Callers |-> Outstanding(u)] = f /\ [u \in Callers |-> Outstanding(u)]' = g
  BY OutstandingIs
<1> HIDE DEF f, g
<1>5. g[t] \in Int /\ g[t] - f[t] = d
  BY <1>3
<1>6. SumFunctionOnSet(g, Callers) = SumFunctionOnSet(f, Callers) + d
  BY <1>3, <1>5, WeightAssumption, SumChanges
<1>7. SumFunction(g) = SumFunction(f) + d
  BY <1>3, <1>6 DEF SumFunction
<1>8. CreditsConserved'
  BY <1>4, <1>7 DEF CreditsConserved
<1>9. QED
  BY <1>2, <1>8

\* The fields of the call in the steps that add or subtract nothing.
LEMMA QuietStep ==
    ASSUME IInv, IInv', TotalsKept, CreditsConserved, NEW t \in Callers,
           Select(t) \/ GetOrInit(t) \/ Compare(t) \/ Take(t)
    PROVE  TotalsKept' /\ CreditsConserved'
<1>1. call[t] \in Call /\ Fits(call[t], credits) /\ credits \in Seq(Int) /\ Len(call[t].slice) \in Nat
  BY CallFacts DEF IInv
<1>2. \A u \in Callers \ {t} : call'[u] = call[u]
  BY DEF Select, GetOrInit, Compare, Take, IInv
<1>3. SumFunction(credits) \in Int
  BY <1>1, CreditSum
<1>4. CASE Select(t)
  <2>1. /\ call[t].stage = "idle" /\ call'[t].stage = "init"
        /\ call'[t].totalWeight = call[t].totalWeight /\ credits' = credits
    BY <1>4 DEF Select, IInv, Call
  <2>2. Owes(t) = 0 /\ Owes(t)' = 0
    BY <2>1, TotalOfNone DEF Owes, Added
  <2>3. call'[t].totalWeight = Owes(t)'
    BY <2>1, <2>2 DEF TotalsKept
  <2>4. QED
    BY <1>2, <1>3, <2>1, <2>2, <2>3, BalanceStep
<1>5. CASE GetOrInit(t)
  <2>1. /\ call[t].stage = "init" /\ call'[t].stage = "add" /\ call'[t].pos = 1
        /\ call'[t].totalWeight = call[t].totalWeight
    BY <1>5 DEF GetOrInit, IInv, Call
  <2>2. Owes(t) = 0 /\ Owes(t)' = 0
    BY <2>1, TotalOfNone DEF Owes, Added
  <2>3. call'[t].totalWeight = Owes(t)'
    BY <2>1, <2>2 DEF TotalsKept
  <2>4. SumFunction(credits') = SumFunction(credits)
    <3>1. CASE credits = <<>>
      <4>1. SumFunction(<<>>) = 0
        BY SumOfNothing DEF SumFunction
      <4>2. /\ credits' \in Seq(Int) /\ IsFiniteSet(DOMAIN credits')
            /\ \A p \in DOMAIN credits' : credits'[p] = 0
        BY <1>5, <3>1, CreditSum DEF GetOrInit, IInv
      <4>3. QED
        BY <3>1, <4>1, <4>2, SumOfZeros DEF SumFunction
    <3>2. CASE credits # <<>>
      BY <1>5, <3>2 DEF GetOrInit
    <3>3. QED
      BY <3>1, <3>2
  <2>5. QED
    BY <1>2, <1>3, <2>2, <2>3, <2>4, BalanceStep
<1>6. CASE Compare(t) \/ Take(t)
  <2>1. /\ call[t].stage \in {"compare", "take"} /\ credits' = credits
        /\ call'[t].slice = call[t].slice /\ call'[t].totalWeight = call[t].totalWeight
        /\ \/ call'[t].stage \in {"take", "subtract"} /\ call'[t].pos = call[t].pos
           \/ call'[t].stage = "add" /\ call'[t].pos = call[t].pos + 1
    <3>1. \A c \in Call :
             /\ Onward(t, c).slice = c.slice /\ Onward(t, c).totalWeight = c.totalWeight
             /\ \/ Onward(t, c).stage = "subtract" /\ Onward(t, c).pos = c.pos
                \/ Onward(t, c).stage = "add" /\ Onward(t, c).pos = c.pos + 1
      BY DEF Onward, Call
    <3>2. CASE Compare(t)
      <4>1. /\ call[t].stage = "compare" /\ credits' = credits
            /\ call'[t] \in {[call[t] EXCEPT !.stage = "take"], Onward(t, call[t])}
        BY <3>2 DEF Compare, IInv
      <4>2. QED
        BY <1>1, <3>1, <4>1 DEF Call
    <3>3. CASE Take(t)
      <4> DEFINE d == [call[t] EXCEPT !.bestCredit = credits[call[t].pos], !.bestIndex = call[t].pos]
      <4>1. call[t].stage = "take" /\ credits' = credits /\ call'[t] = Onward(t, d)
        BY <3>3 DEF Take, IInv
      <4>2. credits[call[t].pos] \in Int /\ call[t].pos \in Nat
        BY <1>1, <4>1 DEF Fits, Call
      <4>3. d \in Call /\ d.slice = call[t].slice /\ d.totalWeight = call[t].totalWeight
            /\ d.pos = call[t].pos
        BY <1>1, <4>2 DEF Call
      <4> HIDE DEF d
      <4>4. QED
        BY <3>1, <4>1, <4>3
    <3>4. QED
      BY <1>6, <3>2, <3>3
  <2>2. Added(call'[t]) = Added(call[t])
    <3>1. call[t].pos \in Nat /\ Added(call[t]) = call[t].pos
      BY <1>1, <2>1 DEF Added, Call
    <3>2. CASE call'[t].stage = "add"
      <4>1. Added(call'[t]) = call'[t].pos - 1 /\ call'[t].pos = call[t].pos + 1
        BY <2>1, <3>2 DEF Added
      <4>2. QED
        BY <3>1, <4>1
    <3>3. CASE call'[t].stage \in {"take", "subtract"}
      BY <2>1, <3>1, <3>3 DEF Added
    <3>4. QED
      BY <2>1, <3>2, <3>3
  <2>3. Owes(t)' = Owes(t)
    BY <2>1, <2>2 DEF Owes
  <2>4. call'[t].totalWeight = Owes(t)' /\ Owes(t) \in Int
    BY <2>1, <2>3, AddedFacts DEF TotalsKept
  <2>5. Owes(t)' = Owes(t) + 0 /\ SumFunction(credits') = SumFunction(credits) + 0
    BY <1>3, <2>1, <2>3, <2>4
  <2>6. QED
    BY <1>2, <2>4, <2>5, BalanceStep
<1>7. QED
  BY <1>4, <1>5, <1>6

LEMMA AddBalanced ==
    ASSUME IInv, IInv', TotalsKept, CreditsConserved, NEW t \in Callers, AddWeight(t)
    PROVE  TotalsKept' /\ CreditsConserved'
<1> DEFINE p == call[t].pos
           w == WeightOf[call[t].slice[p]]
<1>1. /\ call[t] \in Call /\ Fits(call[t], credits) /\ credits \in Seq(Int)
      /\ call[t].slice \in Seq(Backends) /\ DOMAIN call[t].slice = 1..Len(call[t].slice)
      /\ Len(call[t].slice) \in Nat
  <2>1. credits \in Seq(Int)
    BY DEF IInv
  <2>2. QED
    BY Zenon, <2>1, CallFacts
<1>2. /\ call[t].stage = "add" /\ p \in DOMAIN call[t].slice /\ p - 1 \in Nat /\ p \in Nat
      /\ p - 1 < Len(call[t].slice)
  <2>1. call[t].stage = "add" /\ p \in DOMAIN call[t].slice
    BY <1>1 DEF AddWeight, Fits, Looping
  <2>2. QED
    BY <1>1, <2>1
<1>3. w \in Int
  BY <1>1, <1>2, WeightAssumption
<1>4. \A u \in Callers \ {t} : call'[u] = call[u]
  BY DEF AddWeight, IInv
<1>5. /\ call'[t].slice = call[t].slice /\ call'[t].pos = p
      /\ call'[t].totalWeight = call[t].totalWeight + w
      /\ call'[t].stage = IF p \in DOMAIN credits THEN "compare" ELSE "panicked"
  BY <1>1 DEF AddWeight, Weight, IInv, Call
<1>6. Owes(t) = Total(call[t].slice, p - 1) /\ Owes(t) \in Int
  BY <1>2, AddedFacts DEF Owes, Added
<1>7. SumFunction(credits) \in Int
  BY <1>1, CreditSum
<1>8. CASE p \in DOMAIN credits
  <2>1. credits' = [credits EXCEPT ![p] = credits[p] + w] /\ credits[p] \in Int
    BY <1>1, <1>8 DEF AddWeight, Weight
  <2>2. SumFunction(credits') = SumFunction(credits) + ((credits[p] + w) - credits[p])
    <3>1. credits[p] + w \in Int
      BY <1>3, <2>1
    <3> HIDE DEF p, w
    <3>2. QED
      BY <1>1, <1>8, <2>1, <3>1, CreditSum
  <2>3. Owes(t)' = Total(call[t].slice, p)
    BY <1>5, <1>8 DEF Owes, Added
  <2>4. Total(call[t].slice, (p - 1) + 1) = Total(call[t].slice, p - 1) + w
    <3>1. (p - 1) + 1 = p /\ p - 1 <= Len(call[t].slice)
      BY <1>2, <1>1
    <3>2. QED
      BY <1>1, <1>2, <3>1, TotalOfOneMore
  <2>5. (p - 1) + 1 = p /\ (credits[p] + w) - credits[p] = w
    BY <1>2, <1>3, <2>1
  <2>6. Owes(t)' = Owes(t) + w /\ SumFunction(credits') = SumFunction(credits) + w
    BY <1>6, <2>2, <2>3, <2>4, <2>5
  <2>7. call'[t].totalWeight = Owes(t)'
    BY <1>2, <1>5, <2>6 DEF TotalsKept
  <2>8. QED
    BY <1>3, <1>4, <2>6, <2>7, BalanceStep
<1>9. CASE p \notin DOMAIN credits
  <2>1. credits' = credits /\ call'[t].stage = "panicked"
    BY <1>5, <1>9 DEF AddWeight
  <2>2. Owes(t)' = Owes(t)
    BY <1>5, <1>6, <2>1 DEF Owes, Added
  <2>3. Owes(t)' = Owes(t) + 0 /\ SumFunction(credits') = SumFunction(credits) + 0
    BY <1>6, <1>7, <2>1, <2>2
  <2>4. QED
    BY <1>4, <2>1, <2>3, BalanceStep
<1>10. QED
  BY <1>8, <1>9

LEMMA SubtractBalanced ==
    ASSUME IInv, IInv', TotalsKept, CreditsConserved, NEW t \in Callers, Subtract(t)
    PROVE  TotalsKept' /\ CreditsConserved'
<1> DEFINE b == call[t].bestIndex
           v == credits[b] - call[t].totalWeight
<1>1. /\ call[t] \in Call /\ b \in DOMAIN credits /\ credits \in Seq(Int)
      /\ call[t].stage = "subtract"
  BY CallFacts DEF Subtract, Fits, IInv
<1>2. /\ credits' = [credits EXCEPT ![b] = v] /\ credits[b] \in Int
      /\ call[t].totalWeight \in Int /\ v \in Int
  BY <1>1 DEF Subtract, Call
<1>3. call'[t] = NoCall /\ \A u \in Callers \ {t} : call'[u] = call[u]
  BY DEF Subtract, IInv
<1>4. Owes(t) = call[t].totalWeight
  BY <1>1 DEF TotalsKept
<1>5. Owes(t)' = 0 /\ call'[t].totalWeight = 0
  BY <1>3, TotalOfNone DEF Owes, Added, NoCall
<1>6. SumFunction(credits) \in Int /\ SumFunction(credits') = SumFunction(credits) + (v - credits[b])
  BY <1>1, <1>2, CreditSum
<1>7. v - credits[b] = -Owes(t) /\ Owes(t) + (-Owes(t)) = 0 /\ -Owes(t) \in Int
  BY <1>2, <1>4
<1>8. QED
  BY <1>3, <1>5, <1>6, <1>7, BalanceStep

LEMMA BalanceInvariant == Spec => [](IInv /\ TotalsKept /\ CreditsConserved)
<1>1. ASSUME Init PROVE TotalsKept /\ CreditsConserved
  <2>1. \A t \in Callers : Owes(t) = 0 /\ call[t].totalWeight = 0
    BY <1>1, TotalOfNone DEF Init, NoCall, Owes, Added
  <2>2. DOMAIN credits = {} /\ SumFunctionOnSet(credits, {}) = 0
    BY <1>1, SumOfNothing DEF Init
  <2> DEFINE f == [t \in Callers |-> Outstanding(t)]
  <2>3. DOMAIN f = Callers /\ \A t \in Callers : f[t] = 0
    BY <2>1, OutstandingIs
  <2> HIDE DEF f
  <2>4. SumFunctionOnSet(f, Callers) = 0
    BY <2>3, WeightAssumption, SumOfZeros
  <2>5. SumFunction(credits) = 0 /\ SumFunction(f) = 0
    BY <2>2, <2>3, <2>4 DEF SumFunction
  <2>6. QED
    BY <2>1, <2>5 DEF TotalsKept, CreditsConserved, f
<1>2. ASSUME IInv, IInv', TotalsKept, CreditsConserved, [Next]_vars
      PROVE  TotalsKept' /\ CreditsConserved'
  <2>1. ASSUME NEW t \in Callers, Work(t) \/ Subtract(t)
        PROVE  TotalsKept' /\ CreditsConserved'
    BY <1>2, <2>1, QuietStep, AddBalanced, SubtractBalanced DEF Work
  <2>2. CASE PoolChanges \/ UNCHANGED vars
    <3>1. UNCHANGED <<credits, call>>
      BY <2>2 DEF PoolChanges, vars
    <3>2. \A t \in Callers : Owes(t)' = Owes(t) /\ Outstanding(t)' = Outstanding(t)
      BY <3>1 DEF Owes, Outstanding, Weight
    <3>3. [t \in Callers |-> Outstanding(t)]' = [t \in Callers |-> Outstanding(t)]
      BY <3>2
    <3>4. QED
      BY <1>2, <3>1, <3>2, <3>3 DEF TotalsKept, CreditsConserved
  <2>3. QED
    BY <1>2, <2>1, <2>2 DEF Next
<1>3. QED
  BY <1>1, <1>2, Invariant, PTL DEF Spec

(***************************************************************************)
(* For any weights, slices and number of callers, the credits add up to    *)
(* what unfinished calls have added (weighted_round_robin.rs:50-72), so a  *)
(* finished select has taken as much as it has given.                      *)
(***************************************************************************)
THEOREM WeightedCreditsConserved == Spec => []CreditsConserved
BY BalanceInvariant, PTL

---------------------------------------------------------------------------------
\* How often b is among the first i of s.
Count(s, b, i) == Cardinality({j \in 1..i : s[j] = b})

LEMMA CountedIsFinite ==
    ASSUME NEW s, NEW b, NEW i \in Nat
    PROVE  IsFiniteSet({j \in 1..i : s[j] = b})
<1>1. IsFiniteSet(1..i) /\ {j \in 1..i : s[j] = b} \in SUBSET (1..i)
  BY FS_Interval
<1>2. QED
  BY <1>1, FS_Subset

LEMMA CountIsNat == ASSUME NEW s, NEW b, NEW i \in Nat PROVE Count(s, b, i) \in Nat
BY CountedIsFinite, FS_CardinalityType DEF Count

LEMMA CountOfNone == ASSUME NEW s, NEW b PROVE Count(s, b, 0) = 0
<1>1. {j \in 1..0 : s[j] = b} = {}
  OBVIOUS
<1>2. QED
  BY <1>1, FS_EmptySet DEF Count

Hit(s, b, i) == IF s[i] = b THEN 1 ELSE 0

LEMMA CountOfMore ==
    ASSUME NEW s, NEW b, NEW i \in Nat
    PROVE  Count(s, b, i + 1) = Count(s, b, i) + Hit(s, b, i + 1)
<1> DEFINE A == {j \in 1..i : s[j] = b}
           B == {j \in 1..(i + 1) : s[j] = b}
<1>1. IsFiniteSet(A) /\ Cardinality(A) \in Nat /\ i + 1 \notin A
  <2>1. IsFiniteSet(A)
    BY CountedIsFinite
  <2>2. i + 1 \notin A
    OBVIOUS
  <2> HIDE DEF A
  <2>3. QED
    BY <2>1, <2>2, FS_CardinalityType
<1>2. CASE s[i + 1] = b
  <2>1. B = A \cup {i + 1}
    BY <1>2
  <2> HIDE DEF A, B
  <2>2. Cardinality(B) = Cardinality(A) + 1
    BY <1>1, <2>1, FS_AddElement
  <2>3. QED
    BY <1>2, <2>2 DEF Count, Hit, A, B
<1>3. CASE s[i + 1] # b
  <2>1. B = A
    BY <1>3
  <2>2. QED
    BY <1>1, <1>3, <2>1 DEF Count, Hit
<1>4. QED
  BY <1>2, <1>3

LEMMA CountOfSame ==
    ASSUME NEW s, NEW r, NEW b, NEW i \in Nat, \A j \in 1..i : s[j] = r[j]
    PROVE  Count(s, b, i) = Count(r, b, i)
<1>1. {j \in 1..i : s[j] = b} = {j \in 1..i : r[j] = b}
  OBVIOUS
<1>2. QED
  BY <1>1 DEF Count

LEMMA CountGrows ==
    ASSUME NEW s, NEW b, NEW i \in Nat, NEW k \in Nat, i <= k
    PROVE  Count(s, b, i) <= Count(s, b, k)
<1> DEFINE A == {j \in 1..i : s[j] = b}
           B == {j \in 1..k : s[j] = b}
<1>1. A \in SUBSET B /\ IsFiniteSet(B)
  <2>1. A \in SUBSET B
    OBVIOUS
  <2>2. IsFiniteSet(B)
    BY CountedIsFinite
  <2> HIDE DEF A, B
  <2>3. QED
    BY <2>1, <2>2
<1>2. Cardinality(A) <= Cardinality(B)
  BY <1>1, FS_Subset
<1>3. QED
  BY <1>2 DEF Count

\* k times b in a row after the first m.
Run(s, b, m, k) == \A j \in (m + 1)..(m + k) : s[j] = b

LEMMA CountOfRun ==
    ASSUME NEW s, NEW b, NEW m \in Nat, NEW k \in Nat, Run(s, b, m, k)
    PROVE  /\ Count(s, b, m + k) = Count(s, b, m) + k
           /\ \A o : o # b => Count(s, o, m + k) = Count(s, o, m)
<1> DEFINE A == {j \in 1..m : s[j] = b}
           R == (m + 1)..(m + k)
           B == {j \in 1..(m + k) : s[j] = b}
<1>1. B = A \cup R /\ A \cap R = {}
  BY DEF Run
<1>2. IsFiniteSet(R) /\ Cardinality(R) = k
  <2>1. m + 1 \in Int /\ m + k \in Int
    OBVIOUS
  <2>2. IsFiniteSet(R) /\ Cardinality(R) = IF m + 1 > m + k THEN 0 ELSE (m + k) - (m + 1) + 1
    BY <2>1, FS_Interval
  <2> HIDE DEF R
  <2>3. QED
    BY <2>2
<1>3. IsFiniteSet(A) /\ Cardinality(A) \in Nat
  <2>1. IsFiniteSet(A)
    BY CountedIsFinite
  <2> HIDE DEF A
  <2>2. QED
    BY <2>1, FS_CardinalityType
<1>4. ASSUME NEW o, o # b PROVE Count(s, o, m + k) = Count(s, o, m)
  <2>1. {j \in 1..(m + k) : s[j] = o} = {j \in 1..m : s[j] = o}
    BY <1>4 DEF Run
  <2>2. QED
    BY <2>1 DEF Count
<1> HIDE DEF A, R, B
<1>5. Cardinality(B) = Cardinality(A) + Cardinality(R) - Cardinality(A \cap R)
  BY <1>1, <1>2, <1>3, FS_Union
<1>6. Cardinality(B) = Cardinality(A) + k
  <2>1. Cardinality(A \cap R) = 0
    BY <1>1, FS_EmptySet
  <2>2. QED
    BY <1>2, <1>3, <1>5, <2>1
<1>7. QED
  BY <1>4, <1>6 DEF Count, A, B

---------------------------------------------------------------------------------
\* The i-th winner had the greatest credit before it, and was the first that had:
\* i times its weight, less a cycle for each time it had won.
Beats(s, S, W, i) ==
    \A b \in S \ {s[i]} :
        LET v == s[i]
            mine == i * WeightOf[b] - W * Count(s, b, i - 1)
            best == i * WeightOf[v] - W * Count(s, v, i - 1)
        IN  mine <= best /\ (b < v => mine < best)

\* Arithmetic of a run of k wins that begins a cycle,
LEMMA RunAtFirst ==
    ASSUME NEW k \in Nat, k > 1, NEW w \in Nat, w > 0, NEW W \in Nat, k + w <= W,
           k * w <= k * k - W * (k - 1)
    PROVE  FALSE
<1>1. (k + w) * (k - 1) <= W * (k - 1)
  OBVIOUS
<1>2. (k + w) * (k - 1) = k * k - k + w * k - w
  OBVIOUS
<1>3. k * w = w * k /\ w * k >= w + w /\ w * k >= k
  OBVIOUS
<1>4. PICK kk, wk, Wk \in Int : kk = k * k /\ wk = w * k /\ Wk = W * (k - 1)
  OBVIOUS
<1>5. wk <= kk - Wk /\ kk - k + wk - w <= Wk /\ wk >= w + w /\ wk >= k
  BY <1>1, <1>2, <1>3, <1>4
<1>6. wk + wk <= k + w
  BY <1>5
<1>7. k <= w /\ k >= w
  BY <1>5, <1>6
<1>8. w = k /\ w * k = w + w
  BY <1>4, <1>5, <1>6, <1>7
<1>9. k * k = k + k /\ k = 2
  BY <1>8
<1>10. QED
  BY <1>4, <1>5, <1>8, <1>9

\* and of one that follows the p-th win of another backend o at m: neither of b and
\* o has beaten the other where it won.
Won(k, w, W, m, p, b, o) ==
    /\ m * k <= m * w - W * (p - 1)
    /\ b < o => m * k < m * w - W * (p - 1)
    /\ (m + k) * w - W * p <= (m + k) * k - W * (k - 1)
    /\ o < b => (m + k) * w - W * p < (m + k) * k - W * (k - 1)

LEMMA RunLater ==
    ASSUME NEW k \in Nat, k > 1, NEW w \in Nat, NEW W \in Nat, NEW m \in Nat, m > 0,
           NEW p \in Nat, p > 0, NEW b \in Nat, NEW o \in Nat, b # o
    PROVE  ~Won(k, w, W, m, p, b, o)
<1> SUFFICES ASSUME Won(k, w, W, m, p, b, o) PROVE FALSE
  OBVIOUS
<1>1. /\ W * (p - 1) = W * p - W /\ W * (k - 1) = W * k - W
      /\ (m + k) * w = m * w + k * w /\ (m + k) * k = m * k + k * k
  OBVIOUS
<1>2. PICK mk, mw, kw, kk, Wp, Wk \in Int :
          /\ mk = m * k /\ mw = m * w /\ kw = k * w /\ kk = k * k /\ Wp = W * p /\ Wk = W * k
  OBVIOUS
<1>3. /\ mk <= mw - (Wp - W) /\ (b < o => mk < mw - (Wp - W))
      /\ mw + kw - Wp <= mk + kk - (Wk - W)
      /\ o < b => mw + kw - Wp < mk + kk - (Wk - W)
  BY <1>1, <1>2 DEF Won
<1>4. kw < kk - Wk + W + W
  <2>1. CASE b < o
    BY <1>3, <2>1
  <2>2. CASE o < b
    BY <1>3, <2>2
  <2>3. QED
    BY <2>1, <2>2
<1>5. W + W <= Wk /\ W <= Wp
  <2>1. W * k >= W * 2 /\ W * p >= W * 1
    OBVIOUS
  <2>2. QED
    BY <1>2, <2>1
<1>6. mk <= mw /\ kw < kk
  BY <1>3, <1>4, <1>5
<1>7. m * k <= m * w /\ k * w < k * k
  BY <1>2, <1>6
<1>8. k <= w
  BY <1>7
<1>9. w < k
  BY <1>7
<1>10. QED
  BY <1>8, <1>9

\* b has all its k wins in a row after the first m.
AllInRun(s, b, m, k) ==
    /\ Count(s, b, m) = 0
    /\ Count(s, b, (m + k) - 1) = k - 1
    /\ \A o : o # b => Count(s, o, (m + k) - 1) = Count(s, o, m)

LEMMA CountsAtRun ==
    ASSUME NEW s, NEW b, NEW m \in Nat, NEW k \in Nat, k > 1,
           Run(s, b, m, k), Count(s, b, m + k) <= k
    PROVE  AllInRun(s, b, m, k)
<1>1. Count(s, b, m) \in Nat
  BY CountIsNat
<1>2. Count(s, b, m + k) = Count(s, b, m) + k
  BY CountOfRun
<1>3. Count(s, b, m) = 0
  BY <1>1, <1>2
<1>4. PICK n \in Nat : n = k - 1 /\ m + n = (m + k) - 1
  OBVIOUS
<1>5. Run(s, b, m, n)
  BY <1>4 DEF Run
<1>6. /\ Count(s, b, m + n) = Count(s, b, m) + n
      /\ \A o : o # b => Count(s, o, m + n) = Count(s, o, m)
  BY <1>5, CountOfRun
<1>7. QED
  BY <1>3, <1>4, <1>6 DEF AllInRun

\* The turn m, which is before b's first, is the last so far of some other o.
LastBefore(s, b, m, o) ==
    /\ o # b /\ Count(s, b, m - 1) = 0
    /\ Count(s, o, m) \in Nat \ {0} /\ Count(s, o, m - 1) = Count(s, o, m) - 1

\* The wins at the last win of o before the run.
LEMMA CountsBefore ==
    ASSUME NEW s, NEW b, NEW m \in Nat, m # 0, Count(s, b, m) = 0, NEW o, o = s[m]
    PROVE  LastBefore(s, b, m, o)
<1>1. PICK l \in Nat : l = m - 1 /\ m = l + 1
  OBVIOUS
<1>2. Count(s, b, l + 1) = Count(s, b, l) + Hit(s, b, l + 1)
  BY Zenon, CountOfMore
<1>3. Count(s, o, l + 1) = Count(s, o, l) + Hit(s, o, l + 1)
  BY Zenon, CountOfMore
<1>4. Count(s, b, l) \in Nat
  BY Zenon, CountIsNat
<1>5. Count(s, o, l) \in Nat
  BY Zenon, CountIsNat
<1>6. s[m] # b /\ Count(s, b, l) = 0
  BY <1>1, <1>2, <1>4 DEF Hit
<1>7. Count(s, o, m) = Count(s, o, l) + 1
  BY <1>1, <1>3 DEF Hit
<1>8. o # b /\ Count(s, b, m - 1) = 0
  BY <1>1, <1>6
<1>9. Count(s, o, m) \in Nat \ {0} /\ Count(s, o, m - 1) = Count(s, o, m) - 1
  BY <1>1, <1>5, <1>7
<1>10. QED
  BY <1>8, <1>9 DEF LastBefore

\* Not all w times that b wins come in a row.
LEMMA NoRun ==
    ASSUME NEW S \in SUBSET Backends, NEW s \in Seq(S), NEW W \in Nat,
           \A i \in 1..Len(s) : Beats(s, S, W, i),
           NEW b \in S, Count(s, b, Len(s)) <= WeightOf[b], WeightOf[b] > 1,
           NEW other \in S, other # b, WeightOf[other] > 0,
           \A o \in S \ {b} : WeightOf[b] + WeightOf[o] <= W,
           NEW m \in Nat, m + WeightOf[b] <= Len(s)
    PROVE  \E j \in (m + 1)..(m + WeightOf[b]) : s[j] # b
<1> SUFFICES ASSUME \A j \in (m + 1)..(m + WeightOf[b]) : s[j] = b PROVE FALSE
  OBVIOUS
<1>1. PICK k : k = WeightOf[b]
  OBVIOUS
<1>2. k \in Nat /\ k > 1 /\ \A a \in S : WeightOf[a] \in Nat
  BY <1>1, WeightAssumption
<1>3. Count(s, b, m + k) <= k
  <2>1. Count(s, b, m + k) <= Count(s, b, Len(s))
    BY <1>1, <1>2, CountGrows
  <2>2. Count(s, b, Len(s)) \in Nat /\ Count(s, b, m + k) \in Nat
    BY <1>2, CountIsNat
  <2>3. QED
    BY <1>1, <1>2, <2>1, <2>2
<1>4. AllInRun(s, b, m, k)
  <2>1. Run(s, b, m, k)
    BY <1>1 DEF Run
  <2>2. QED
    BY <1>2, <1>3, <2>1, CountsAtRun
\* When b won last, it had won all its other times, and no one else since m.
<1>5. ASSUME NEW o \in S \ {b}
      PROVE  LET mine == (m + k) * WeightOf[o] - W * Count(s, o, m)
                 best == (m + k) * k - W * (k - 1)
             IN  mine <= best /\ (o < b => mine < best)
  <2>1. m + k \in 1..Len(s) /\ m + k \in (m + 1)..(m + k)
    <3>1. Len(s) \in Nat /\ m + k <= Len(s)
      BY <1>1
    <3>2. QED
      BY <1>2, <3>1
  <2>2. Beats(s, S, W, m + k) /\ s[m + k] = b
    BY <1>1, <2>1
  <2>3. QED
    BY <1>1, <1>4, <2>2 DEF Beats, AllInRun
<1>6. CASE m = 0
  <2>1. PICK w : w = WeightOf[other]
    OBVIOUS
  <2>2. Count(s, other, m) = 0
    BY <1>6, CountOfNone
  <2>3. w \in Nat /\ w > 0 /\ k + w <= W
    BY <1>1, <1>2, <2>1
  <2>4. (m + k) * w - W * 0 <= (m + k) * k - W * (k - 1)
    BY <1>5, <2>1, <2>2
  <2>5. m + k = k /\ W * 0 = 0 /\ k * w - 0 = k * w
    BY <1>2, <1>6, <2>3
  <2>6. k * w <= k * k - W * (k - 1)
    BY <2>4, <2>5
  <2>7. QED
    BY <1>2, <2>3, <2>6, RunAtFirst
<1>7. CASE m # 0
  <2>1. PICK o, w, p : o = s[m] /\ w = WeightOf[o] /\ p = Count(s, o, m)
    OBVIOUS
  <2>2. m \in 1..Len(s) /\ o \in S
    BY <1>1, <1>2, <1>7, <2>1
  <2>3. /\ o # b /\ Count(s, b, m - 1) = 0
        /\ p \in Nat /\ p # 0 /\ Count(s, o, m - 1) = p - 1
    <3>1. Count(s, b, m) = 0 /\ o = s[m]
      BY <1>4, <2>1 DEF AllInRun
    <3>2. LastBefore(s, b, m, o)
      BY <1>7, <3>1, CountsBefore
    <3>3. QED
      BY <2>1, <3>2 DEF LastBefore
  <2>4. LET best == m * w - W * (p - 1)
        IN  m * k <= best /\ (b < o => m * k < best)
    <3>1. Beats(s, S, W, m)
      BY <2>2
    <3>2. LET mine == m * k - W * 0
              best == m * w - W * (p - 1)
          IN  mine <= best /\ (b < o => mine < best)
      BY <1>1, <2>1, <2>3, <3>1 DEF Beats
    <3>3. m * k - W * 0 = m * k
      BY <1>2
    <3>4. QED
      BY <3>2, <3>3
  <2>5. LET mine == (m + k) * w - W * p
            best == (m + k) * k - W * (k - 1)
        IN  mine <= best /\ (o < b => mine < best)
    BY <1>5, <2>1, <2>2, <2>3
  <2>6. o \in Nat /\ b \in Nat
    BY <2>2, BackendsFinite
  <2>7. k \in Nat /\ k > 1 /\ m > 0 /\ p > 0 /\ w \in Nat
    BY <1>2, <1>7, <2>1, <2>2, <2>3
  <2>8. Won(k, w, W, m, p, b, o)
    BY Zenon, <2>4, <2>5 DEF Won
  <2>9. QED
    BY <2>3, <2>6, <2>7, <2>8, RunLater
<1>8. QED
  BY <1>6, <1>7

---------------------------------------------------------------------------------
Fixed ==
    /\ rotation # {} /\ CycleLength > 0
    /\ credits = <<>> \/ DOMAIN credits = 1..Size
    /\ credits = <<>> => winners = <<>>
    /\ \A t \in Callers : call[t].stage # "idle" => call[t].slice = Order

LEMMA RotationFacts ==
    ASSUME IInv
    PROVE  rotation \subseteq Backends /\ rotation \in SUBSET Nat /\ IsFiniteSet(rotation)
BY BackendsFinite, FS_Subset DEF IInv

LEMMA OrderFacts ==
    ASSUME IInv
    PROVE  /\ Order \in Seq(rotation) /\ Order \in Seq(Backends)
           /\ Size \in Nat /\ DOMAIN Order = 1..Size
           /\ \A p \in 1..Size : Order[p] \in rotation /\ Order[p] \in Backends
           /\ \A p, q \in 1..Size : p < q => Order[p] < Order[q]
           /\ \A p, q \in 1..Size : Order[p] = Order[q] => p = q
           /\ \A b \in rotation : \E p \in 1..Size : Order[p] = b
<1>1. rotation \subseteq Backends /\ rotation \in SUBSET Nat /\ IsFiniteSet(rotation)
  BY RotationFacts
<1>2. Size = Cardinality(rotation) /\ Size \in Nat
  BY <1>1, InPoolOrderFacts, FS_CardinalityType DEF Size, Order
<1>3. /\ Order \in [1..Size -> rotation] /\ Order \in Seq(rotation)
      /\ \A i, j \in DOMAIN Order : i < j => Order[i] < Order[j]
  BY <1>1, <1>2, InPoolOrderFacts DEF Order
<1>4. /\ \A b \in rotation : \E i \in 1..Size : Order[i] = b
      /\ \A i, j \in 1..Size : Order[i] = Order[j] => i = j
  BY <1>1, <1>2, InPoolOrderOnto DEF Order
<1> HIDE DEF Order, Size
<1>5. DOMAIN Order = 1..Size /\ \A p \in 1..Size : Order[p] \in rotation
  BY <1>3
<1>6. \A p \in 1..Size : Order[p] \in Backends
  BY <1>1, <1>5
<1>7. Order \in [1..Size -> Backends]
  BY <1>3, <1>6
<1>8. Order \in Seq(Backends)
  <2> HIDE DEF Backends
  <2>1. QED
    BY <1>2, <1>7
<1>9. QED
  BY <1>2, <1>3, <1>4, <1>5, <1>6, <1>8

\* A cycle is as long as the weights that one select adds.
LEMMA CycleFacts ==
    ASSUME IInv
    PROVE  /\ CycleLength \in Nat /\ I64Min <= -CycleLength
           /\ CycleLength = Total(Order, Size)
           /\ \A p \in 1..Size : Weigh(p) \in Nat
<1> DEFINE g == [b \in rotation |-> WeightOf[b]]
           f == [p \in 1..Size |-> WeightOf[Order[p]]]
<1>1. rotation \subseteq Backends /\ IsFiniteSet(rotation)
  BY RotationFacts
<1>2. \A b \in rotation : g[b] = WeightOf[b] /\ g[b] \in Nat
  BY <1>1, WeightAssumption
<1>3. DOMAIN g = rotation /\ DOMAIN f = 1..Size /\ IsFiniteSet(1..Size)
  BY OrderFacts, FS_Interval
<1>4. \A p \in 1..Size : f[p] = g[Order[p]] /\ f[p] \in Nat
  BY <1>2, OrderFacts
<1>5. CycleLength = SumFunctionOnSet(g, rotation)
  BY <1>3 DEF CycleLength, SumFunction
<1>6. Total(Order, Size) = SumFunctionOnSet(f, 1..Size)
  BY <1>3 DEF Total, SumFunction
<1> HIDE DEF f, g
<1>7. SumFunctionOnSet(f, 1..Size) = SumFunctionOnSet(g, rotation)
  <2>1. PICK P : P = 1..Size
    OBVIOUS
  <2>2. IsFiniteSet(P) /\ Indexes(Order, P, rotation)
    BY <1>3, <2>1, OrderFacts DEF Indexes
  <2>3. \A p \in P : f[p] \in Int /\ f[p] = g[Order[p]]
    BY <1>4, <2>1
  <2>4. SumFunctionOnSet(f, P) = SumFunctionOnSet(g, rotation)
    BY <2>2, <2>3, SumReindexed
  <2>5. QED
    BY <2>1, <2>4
<1>8. SumFunctionOnSet(g, rotation) \in Nat
  <2> DEFINE z == [b \in rotation |-> 0]
  <2>1. \A b \in rotation : z[b] = 0
    OBVIOUS
  <2> HIDE DEF z
  <2>2. SumFunctionOnSet(z, rotation) = 0
    BY <1>1, <2>1, SumOfZeros
  <2>3. \A b \in rotation : z[b] \in Int /\ g[b] \in Int /\ z[b] <= g[b]
    BY <1>2, <2>1
  <2>4. SumFunctionOnSet(z, rotation) <= SumFunctionOnSet(g, rotation)
    BY <1>1, <2>3, SumMonotone
  <2>5. SumFunctionOnSet(g, rotation) \in Int
    BY <1>1, <2>3, SumIsInt
  <2>6. QED
    BY <2>2, <2>4, <2>5
<1>9. I64Min <= -CycleLength
  BY <1>1, SharesAssumption DEF CycleLength
<1>10. \A p \in 1..Size : Weigh(p) \in Nat
  BY OrderFacts, WeightAssumption DEF Weigh
<1>11. QED
  BY <1>5, <1>6, <1>7, <1>8, <1>9, <1>10

\* Two of the weights are not more than a cycle.
LEMMA TwoInCycle ==
    ASSUME IInv, NEW b \in rotation, NEW o \in rotation \ {b}
    PROVE  WeightOf[b] + WeightOf[o] <= CycleLength
<1> DEFINE g == [a \in rotation |-> WeightOf[a]]
           R == rotation \ {b}
           Q == R \ {o}
           z == [a \in rotation |-> 0]
<1>1. rotation \subseteq Backends /\ IsFiniteSet(rotation) /\ IsFiniteSet(R) /\ IsFiniteSet(Q)
  BY RotationFacts, FS_Subset
<1>2. \A a \in rotation : g[a] = WeightOf[a] /\ g[a] \in Nat /\ z[a] = 0
  BY <1>1, WeightAssumption
<1>3. CycleLength = SumFunctionOnSet(g, rotation)
  BY DEF CycleLength, SumFunction
<1> HIDE DEF g, z
<1>4. SumFunctionOnSet(g, rotation) = g[b] + SumFunctionOnSet(g, R)
  BY <1>1, <1>2, SumWithout
<1>5. SumFunctionOnSet(g, R) = g[o] + SumFunctionOnSet(g, Q)
  BY <1>1, <1>2, SumWithout
<1>6. SumFunctionOnSet(z, Q) = 0 /\ SumFunctionOnSet(z, Q) <= SumFunctionOnSet(g, Q)
      /\ SumFunctionOnSet(g, Q) \in Int
  <2>1. \A a \in Q : z[a] = 0 /\ z[a] \in Int /\ g[a] \in Int /\ z[a] <= g[a]
    BY <1>2
  <2> HIDE DEF Q
  <2>2. QED
    BY <1>1, <2>1, SumOfZeros, SumMonotone, SumIsInt
<1> HIDE DEF Q, R
<1>7. QED
  BY <1>2, <1>3, <1>4, <1>5, <1>6

\* What a step of t does to t's own call.
Same(c, d) == d.slice = c.slice /\ d.bestIndex = c.bestIndex /\ d.bestCredit = c.bestCredit

\* The loop went on from c.pos.
Moved(c, d) ==
    \/ d.stage = "subtract" /\ d.pos = c.pos /\ c.pos = Len(c.slice)
    \/ d.stage = "add" /\ d.pos = c.pos + 1 /\ c.pos # Len(c.slice)

LEMMA OnwardDoes ==
    ASSUME IInv, NEW t \in Callers, NEW c \in Call, c.slice = call[t].slice
    PROVE  Same(c, Onward(t, c)) /\ Moved(c, Onward(t, c))
<1>1. CASE c.pos = Len(call[t].slice)
  BY <1>1 DEF Onward, Same, Moved, Call
<1>2. CASE c.pos # Len(call[t].slice)
  BY <1>2 DEF Onward, Same, Moved, Call
<1>3. QED
  BY <1>1, <1>2

LEMMA Frame ==
    ASSUME IInv, NEW t \in Callers, Work(t) \/ Subtract(t)
    PROVE  rotation' = rotation /\ \A u \in Callers \ {t} : call'[u] = call[u]
BY DEF Work, Select, GetOrInit, AddWeight, Compare, Take, Subtract, IInv

LEMMA SelectDoes ==
    ASSUME IInv, NEW t \in Callers, Select(t)
    PROVE  /\ call[t].stage = "idle" /\ call'[t].stage = "init" /\ call'[t].slice = Order
           /\ credits' = credits
BY DEF Select, IInv, Call, Order

LEMMA GetOrInitDoes ==
    ASSUME IInv, NEW t \in Callers, GetOrInit(t)
    PROVE  /\ call[t].stage = "init" /\ call'[t].stage = "add" /\ call'[t].slice = call[t].slice
           /\ call'[t].pos = 1 /\ call'[t].bestCredit = I64Min
           /\ credits' = IF credits = <<>> THEN [p \in DOMAIN call[t].slice |-> 0] ELSE credits
BY DEF GetOrInit, IInv, Call

LEMMA AddWeightDoes ==
    ASSUME IInv, Fixed, NEW t \in Callers, AddWeight(t)
    PROVE  LET c == call[t]
               p == c.pos
           IN  /\ c.stage = "add" /\ call'[t].stage = "compare" /\ call'[t].pos = p
               /\ Same(c, call'[t])
               /\ p \in 1..Size /\ p \in DOMAIN credits
               /\ credits' = [credits EXCEPT ![p] = @ + Weigh(p)]
<1> DEFINE p == call[t].pos
<1>1. /\ call[t] \in Call /\ Fits(call[t], credits) /\ call[t].stage = "add"
      /\ credits # <<>> /\ p \in DOMAIN call[t].slice /\ call[t].slice = Order
  BY CallFacts DEF AddWeight, Fits, Looping, Fixed
<1>2. p \in 1..Size /\ p \in DOMAIN credits
  BY <1>1, OrderFacts DEF Fixed
<1>3. call'[t] = [call[t] EXCEPT !.stage = "compare", !.totalWeight = @ + Weight(t, p)]
  BY <1>2 DEF AddWeight, IInv
<1>4. call'[t].stage = "compare" /\ call'[t].pos = p /\ Same(call[t], call'[t])
  BY <1>1, <1>3 DEF Same, Call
<1>5. credits' = [credits EXCEPT ![p] = @ + Weigh(p)]
  BY <1>1, <1>2 DEF AddWeight, Weight, Weigh
<1>6. QED
  BY <1>1, <1>2, <1>4, <1>5

LEMMA CompareDoes ==
    ASSUME IInv, NEW t \in Callers, Compare(t)
    PROVE  LET c == call[t]
           IN  /\ c.stage = "compare" /\ credits' = credits /\ Same(c, call'[t])
               /\ \/ credits[c.pos] > c.bestCredit /\ call'[t].stage = "take" /\ call'[t].pos = c.pos
                  \/ ~(credits[c.pos] > c.bestCredit) /\ Moved(c, call'[t])
<1>1. call[t] \in Call /\ call[t].stage = "compare" /\ credits' = credits
  BY CallFacts DEF Compare
<1>2. CASE credits[call[t].pos] > call[t].bestCredit
  <2>1. call'[t] = [call[t] EXCEPT !.stage = "take"]
    BY <1>2 DEF Compare, IInv
  <2>2. QED
    BY <1>1, <1>2, <2>1 DEF Call, Same
<1>3. CASE ~(credits[call[t].pos] > call[t].bestCredit)
  <2>1. call'[t] = Onward(t, call[t])
    BY <1>3 DEF Compare, IInv
  <2>2. QED
    BY <1>1, <1>3, <2>1, OnwardDoes
<1>4. QED
  BY <1>2, <1>3

LEMMA TakeDoes ==
    ASSUME IInv, NEW t \in Callers, Take(t)
    PROVE  LET c == call[t]
           IN  /\ c.stage = "take" /\ credits' = credits /\ call'[t].slice = c.slice
               /\ call'[t].bestIndex = c.pos /\ call'[t].bestCredit = credits[c.pos]
               /\ Moved(c, call'[t])
<1> DEFINE d == [call[t] EXCEPT !.bestCredit = credits[call[t].pos], !.bestIndex = call[t].pos]
<1>1. /\ call[t] \in Call /\ call[t].stage = "take" /\ credits' = credits
      /\ call'[t] = Onward(t, d)
  BY CallFacts DEF Take, IInv
<1>2. credits[call[t].pos] \in Int /\ call[t].pos \in Nat
  BY <1>1, CallFacts DEF Fits, Call, IInv
<1>3. /\ d \in Call /\ d.slice = call[t].slice /\ d.pos = call[t].pos
      /\ d.bestIndex = call[t].pos /\ d.bestCredit = credits[call[t].pos]
  BY <1>1, <1>2 DEF Call
<1> HIDE DEF d
<1>4. Same(d, call'[t]) /\ Moved(d, call'[t])
  BY <1>1, <1>3, OnwardDoes
<1>5. QED
  BY <1>1, <1>3, <1>4 DEF Same, Moved

LEMMA SubtractDoes ==
    ASSUME IInv, NEW t \in Callers, Subtract(t)
    PROVE  LET c == call[t]
           IN  /\ c.stage = "subtract" /\ call'[t].stage = "idle"
               /\ c.bestIndex \in DOMAIN credits /\ c.bestIndex \in DOMAIN c.slice
               /\ c.pos \in DOMAIN c.slice
               /\ credits' = [credits EXCEPT ![c.bestIndex] = @ - c.totalWeight]
BY CallFacts DEF Subtract, IInv, Fits, NoCall

LEMMA FixedStep ==
    ASSUME IInv, IInv', Fixed, NEW t \in Callers, Proceed(t) \/ Return(t)
    PROVE  Fixed'
<1>1. Work(t) \/ Subtract(t)
  BY DEF Proceed, Return
<1>2. rotation' = rotation /\ \A u \in Callers \ {t} : call'[u] = call[u]
  BY <1>1, Frame
<1>3. Order' = Order /\ Size' = Size /\ CycleLength' = CycleLength
  BY <1>2 DEF Order, Size, CycleLength
<1>4. Fits(call[t], credits) /\ credits \in Seq(Int) /\ credits' \in Seq(Int)
  BY DEF IInv
<1>5. /\ call'[t].stage # "idle" => call'[t].slice = Order
      /\ credits' = credits \/ (DOMAIN credits' = 1..Size /\ credits' # <<>>)
      /\ credits' = <<>> => winners' = winners
  <2>1. CASE Select(t)
    BY <2>1, SelectDoes DEF Select, Proceed, Return, Subtract
  <2>2. CASE GetOrInit(t)
    <3>1. call[t].slice = Order /\ call'[t].slice = Order /\ Order # <<>>
      BY <2>2, <1>4, GetOrInitDoes DEF Fixed, Fits
    <3>2. Size \in Nat /\ Size # 0 /\ DOMAIN Order = 1..Size
      BY <3>1, OrderFacts DEF Size
    <3>3. credits' = IF credits = <<>> THEN [p \in 1..Size |-> 0] ELSE credits
      BY <2>2, <3>1, <3>2, GetOrInitDoes
    <3>4. winners' = winners
      BY <2>2 DEF Proceed, Return, Subtract, GetOrInit
    <3>5. 1 \in 1..Size
      BY <3>2
    <3>6. QED
      BY <3>1, <3>3, <3>4, <3>5
  <2>3. CASE AddWeight(t)
    <3>1. /\ call'[t].slice = call[t].slice /\ call[t].slice = Order
          /\ DOMAIN credits' = DOMAIN credits /\ credits # <<>> /\ credits' # <<>>
      BY <2>3, AddWeightDoes DEF Same, Fixed
    <3>2. QED
      BY <3>1 DEF Fixed
  <2>4. CASE Compare(t) \/ Take(t)
    <3>1. /\ call'[t].slice = call[t].slice /\ call[t].slice = Order /\ credits' = credits
      BY <2>4, CompareDoes, TakeDoes DEF Same, Fixed
    <3>2. winners' = winners
      BY <2>4 DEF Proceed, Return, Subtract, Compare, Take
    <3>3. QED
      BY <3>1, <3>2
  <2>5. CASE Subtract(t)
    <3>1. /\ call'[t].stage = "idle" /\ credits # <<>>
          /\ DOMAIN credits' = DOMAIN credits /\ credits' # <<>>
      BY <2>5, SubtractDoes
    <3>2. QED
      BY <3>1 DEF Fixed
  <2>6. QED
    BY <1>1, <2>1, <2>2, <2>3, <2>4, <2>5 DEF Work
<1>6. QED
  BY <1>2, <1>3, <1>5 DEF Fixed

\* No slice is longer than the credits are many.
LEMMA FixedReturns == ASSUME IInv, Fixed PROVE SelectReturns
<1> SUFFICES ASSUME NEW t \in Callers, call[t].stage = "panicked" PROVE FALSE
  BY DEF SelectReturns
<1>1. /\ call[t].slice = Order /\ credits # <<>> /\ call[t].pos \in DOMAIN call[t].slice
      /\ call[t].pos \notin DOMAIN credits
  BY CallFacts DEF Fixed, Fits, Looping
<1>2. QED
  BY <1>1, OrderFacts DEF Fixed

---------------------------------------------------------------------------------
\* The picks and the winners of a cycle are the same ones.
Counted(ps, ws) ==
    /\ ps \in [Backends -> Nat]
    /\ ws \in Seq(rotation)
    /\ SumFunction(ps) = Len(ws)
    /\ \A b \in Backends : ps[b] = Count(ws, b, Len(ws))

Tally == Counted(picks, winners) /\ Len(winners) <= CycleLength

\* Those of the cycle in which the next pick will be counted.
PicksSoFar == IF CycleOver THEN NoPicks ELSE picks

WinnersSoFar == IF CycleOver THEN <<>> ELSE winners

LEMMA NothingCounted == Counted(NoPicks, <<>>)
<1>1. NoPicks \in [Backends -> Nat] /\ <<>> \in Seq(rotation) /\ Len(<<>>) = 0
  BY DEF NoPicks
<1>2. \A b \in Backends : NoPicks[b] = 0 /\ Count(<<>>, b, 0) = 0
  BY CountOfNone DEF NoPicks
<1>3. DOMAIN NoPicks = Backends
  BY DEF NoPicks
<1>4. SumFunction(NoPicks) = 0
  BY <1>2, <1>3, BackendsFinite, SumOfZeros DEF SumFunction
<1>5. QED
  BY <1>1, <1>2, <1>4 DEF Counted

LEMMA SoFarCounted ==
    ASSUME IInv, Fixed, Tally
    PROVE  Counted(PicksSoFar, WinnersSoFar) /\ Len(WinnersSoFar) < CycleLength
<1>1. CASE CycleOver
  BY <1>1, NothingCounted, CycleFacts DEF Fixed, PicksSoFar, WinnersSoFar
<1>2. CASE ~CycleOver
  <2>1. Len(winners) \in Nat /\ CycleLength \in Nat /\ Len(winners) # CycleLength
    BY <1>2, CycleFacts DEF Tally, Counted, CycleOver
  <2>2. QED
    BY <1>2, <2>1 DEF Tally, PicksSoFar, WinnersSoFar
<1>3. QED
  BY <1>1, <1>2

\* One more pick of b.
LEMMA OneCounted ==
    ASSUME IInv, NEW ps, NEW ws, Counted(ps, ws), NEW b \in rotation
    PROVE  /\ Counted([ps EXCEPT ![b] = @ + 1], Append(ws, b))
           /\ Len(Append(ws, b)) = Len(ws) + 1
           /\ \A i \in 1..Len(ws) : Append(ws, b)[i] = ws[i]
           /\ Append(ws, b)[Len(ws) + 1] = b
<1> DEFINE qs == [ps EXCEPT ![b] = ps[b] + 1]
           vs == Append(ws, b)
<1>1. ps \in [Backends -> Nat] /\ ws \in Seq(rotation) /\ b \in Backends /\ Len(ws) \in Nat
  BY RotationFacts DEF Counted
<1>2. /\ vs \in Seq(rotation) /\ Len(vs) = Len(ws) + 1
      /\ \A i \in 1..Len(ws) : vs[i] = ws[i]
      /\ vs[Len(ws) + 1] = b
  BY <1>1
<1> HIDE DEF vs
<1>3. qs \in [Backends -> Nat] /\ qs[b] = ps[b] + 1 /\ \A a \in Backends \ {b} : qs[a] = ps[a]
  BY <1>1
<1> HIDE DEF qs
<1>4. \A a \in Backends : qs[a] = Count(vs, a, Len(vs))
  <2> SUFFICES ASSUME NEW a \in Backends PROVE qs[a] = Count(vs, a, Len(vs))
    OBVIOUS
  <2>1. Count(vs, a, Len(ws)) = Count(ws, a, Len(ws))
    BY <1>1, <1>2, CountOfSame
  <2>2. Count(vs, a, Len(ws) + 1) = Count(vs, a, Len(ws)) + Hit(vs, a, Len(ws) + 1)
    BY Zenon, <1>1, CountOfMore
  <2>3. ps[a] = Count(ws, a, Len(ws)) /\ ps[a] \in Nat
    BY <1>1 DEF Counted
  <2>4. QED
    BY <1>1, <1>2, <1>3, <2>1, <2>2, <2>3 DEF Hit
<1>5. SumFunction(qs) = Len(vs)
  <2>1. DOMAIN ps = Backends /\ DOMAIN qs = Backends /\ \A a \in Backends : ps[a] \in Int
    BY <1>1, <1>3
  <2>2. qs[b] \in Int /\ qs[b] - ps[b] = 1
    BY <1>1, <1>3
  <2>3. SumFunctionOnSet(qs, Backends) = SumFunctionOnSet(ps, Backends) + (qs[b] - ps[b])
    <3>1. b \in Backends /\ IsFiniteSet(Backends) /\ \A a \in Backends \ {b} : qs[a] = ps[a]
      BY <1>1, <1>3, BackendsFinite
    <3>2. QED
      BY <2>1, <2>2, <3>1, SumChanges
  <2>4. SumFunctionOnSet(ps, Backends) = Len(ws)
    BY <2>1 DEF Counted, SumFunction
  <2>5. SumFunctionOnSet(qs, Backends) = Len(vs)
    BY <1>2, <2>2, <2>3, <2>4
  <2>6. QED
    BY <2>1, <2>5 DEF SumFunction
<1>6. Counted(qs, vs)
  BY <1>2, <1>3, <1>4, <1>5 DEF Counted
<1>7. QED
  BY <1>2, <1>6 DEF qs, vs

LEMMA ReturnDoes ==
    ASSUME IInv, Fixed, NEW t \in Callers, Return(t)
    PROVE  /\ Winner(t) = Order[call[t].bestIndex] /\ Winner(t) \in rotation
           /\ call[t].bestIndex \in 1..Size /\ call[t].slice = Order
           /\ DOMAIN credits = 1..Size
           /\ picks' = [PicksSoFar EXCEPT ![Winner(t)] = @ + 1]
           /\ winners' = Append(WinnersSoFar, Winner(t))
<1>1. Subtract(t)
  BY DEF Return
<1>2. /\ call[t].slice = Order /\ call[t].bestIndex \in DOMAIN call[t].slice
      /\ call[t].bestIndex \in DOMAIN credits
  BY <1>1, SubtractDoes DEF Fixed
<1>3. DOMAIN credits = 1..Size
  BY <1>2 DEF Fixed
<1>4. QED
  BY <1>2, <1>3, OrderFacts DEF Winner, Return, PicksSoFar, WinnersSoFar

LEMMA TallyStep ==
    ASSUME IInv, Fixed, Tally, NEW t \in Callers, Proceed(t) \/ Return(t)
    PROVE  Tally'
<1>1. rotation' = rotation
  BY Frame DEF Proceed, Return
<1>2. CycleLength' = CycleLength
  BY <1>1 DEF CycleLength
<1>3. CASE Proceed(t)
  BY <1>1, <1>2, <1>3 DEF Proceed, Tally, Counted
<1>4. CASE Return(t)
  <2>1. Counted(picks', winners') /\ Len(winners') = Len(WinnersSoFar) + 1
    <3>1. PICK ps, ws, b :
              /\ Counted(ps, ws) /\ ws = WinnersSoFar /\ b \in rotation
              /\ picks' = [ps EXCEPT ![b] = @ + 1] /\ winners' = Append(ws, b)
      BY <1>4, SoFarCounted, ReturnDoes
    <3>2. QED
      BY <3>1, OneCounted
  <2>2. Len(WinnersSoFar) < CycleLength /\ Len(WinnersSoFar) \in Nat /\ CycleLength \in Nat
    BY SoFarCounted, CycleFacts DEF Counted
  <2>3. Len(winners') <= CycleLength
    BY <2>1, <2>2
  <2>4. QED
    BY <1>1, <1>2, <2>1, <2>3 DEF Tally, Counted
<1>5. QED
  BY <1>3, <1>4

---------------------------------------------------------------------------------
\* What the credit at p is between selects: a weight for each select of the cycle
\* less a cycle for each pick.
Base(p) == Len(winners) * Weigh(p) - CycleLength * picks[Order[p]]

LEMMA BaseFacts ==
    ASSUME IInv, Tally
    PROVE  /\ \A p \in 1..Size : Base(p) \in Int
           /\ winners = <<>> => \A p \in 1..Size : Base(p) = 0
<1>1. Len(winners) \in Nat /\ CycleLength \in Nat
  BY CycleFacts DEF Tally, Counted
<1>2. \A p \in 1..Size : Weigh(p) \in Nat /\ picks[Order[p]] \in Nat
  BY CycleFacts, OrderFacts DEF Tally, Counted
<1>3. \A p \in 1..Size : Base(p) \in Int
  BY <1>1, <1>2 DEF Base
<1>4. ASSUME winners = <<>>, NEW p \in 1..Size PROVE Base(p) = 0
  <2>1. Order[p] \in Backends /\ Len(winners) = 0
    BY <1>4, OrderFacts
  <2>2. picks[Order[p]] = 0
    BY <2>1, CountOfNone DEF Tally, Counted
  <2>3. Weigh(p) \in Nat
    BY <1>2
  <2>4. QED
    BY <1>1, <2>1, <2>2, <2>3 DEF Base
<1>5. QED
  BY <1>3, <1>4

\* The first of the greatest credits in w of those.
Best(c, w) ==
    IF Scanned(c) = 0 THEN c.bestCredit = I64Min
    ELSE /\ c.bestIndex \in 1..Scanned(c)
         /\ c.bestCredit = w[c.bestIndex]
         /\ \A q \in 1..Scanned(c) :
               w[q] <= c.bestCredit /\ (q < c.bestIndex => w[q] < c.bestCredit)

Looked(c, w) ==
    /\ c.stage \in {"add", "compare", "take", "subtract"} => Best(c, w)
    /\ c.stage = "take" => w[c.pos] > c.bestCredit
    /\ c.stage = "subtract" => c.pos = Len(c.slice)

\* Going on from a position changes neither what is added nor what is compared.
LEMMA MovedFacts ==
    ASSUME NEW c, NEW d, Moved(c, d), c.stage \in {"compare", "take"}, c.pos \in Nat
    PROVE  /\ Added(c) = c.pos /\ Added(d) = c.pos /\ Scanned(c) = c.pos - 1
           /\ Scanned(d) = c.pos /\ d.stage \in {"add", "subtract"}
           /\ d.stage = "subtract" => d.pos = Len(c.slice)
BY DEF Moved, Added, Scanned

\* Adding a weight does not touch what has been looked at.
LEMMA AddLooks ==
    ASSUME NEW c, NEW d, NEW w, NEW x, NEW p \in Nat \ {0}, c.stage = "add", d.stage = "compare",
           c.pos = p, d.pos = p, Same(c, d), Looked(c, w), \A q \in 1..(p - 1) : x[q] = w[q]
    PROVE  Looked(d, x)
<1>1. Scanned(c) = p - 1 /\ Scanned(d) = p - 1 /\ Best(c, w)
  BY DEF Scanned, Looked
<1>2. Best(d, x)
  <2>1. CASE p - 1 = 0
    BY <1>1, <2>1 DEF Best, Same
  <2>2. CASE p - 1 # 0
    BY <1>1, <2>2 DEF Best, Same
  <2>3. QED
    BY <2>1, <2>2
<1>3. QED
  BY <1>2 DEF Looked

\* The first credit is always greater than the least number.
LEMMA CompareLooks ==
    ASSUME NEW c, NEW d, NEW w, NEW p \in Nat \ {0}, c.stage = "compare", c.pos = p, Same(c, d),
           c.bestCredit \in Int, \A q \in 1..p : w[q] \in Int, w[1] > I64Min, Looked(c, w),
           \/ w[p] > c.bestCredit /\ d.stage = "take" /\ d.pos = p
           \/ ~(w[p] > c.bestCredit) /\ Moved(c, d)
    PROVE  Looked(d, w) /\ Added(c) = p /\ Added(d) = p
<1>1. Best(c, w) /\ Added(c) = p /\ Scanned(c) = p - 1
  BY DEF Looked, Added, Scanned
<1>2. CASE w[p] > c.bestCredit /\ d.stage = "take" /\ d.pos = p
  <2>1. Added(d) = p /\ Scanned(d) = p - 1
    BY <1>2 DEF Added, Scanned
  <2>2. Best(d, w)
    BY <1>1, <2>1 DEF Best, Same
  <2>3. Looked(d, w)
    BY <1>2, <2>2 DEF Looked, Same
  <2>4. QED
    BY <1>1, <2>1, <2>3
<1>3. CASE ~(w[p] > c.bestCredit) /\ Moved(c, d)
  <2>1. /\ Added(d) = p /\ Scanned(d) = p /\ d.stage \in {"add", "subtract"}
        /\ d.stage = "subtract" => d.pos = Len(c.slice)
    BY <1>3, MovedFacts
  <2>2. p \in 1..p /\ 1 \in 1..p /\ w[p] <= c.bestCredit
    BY <1>3
  <2>3. p # 1
    <3>1. SUFFICES ASSUME p = 1 PROVE FALSE
      OBVIOUS
    <3>2. c.bestCredit = I64Min /\ I64Min \in Int
      BY <1>1, <3>1, WeightAssumption DEF Best
    <3>3. QED
      BY <2>2, <3>1, <3>2
  <2>4. /\ c.bestIndex \in 1..(p - 1) /\ c.bestCredit = w[c.bestIndex]
        /\ \A q \in 1..(p - 1) :
              w[q] <= c.bestCredit /\ (q < c.bestIndex => w[q] < c.bestCredit)
    BY <1>1, <2>3 DEF Best
  <2>5. /\ c.bestIndex \in 1..p
        /\ \A q \in 1..p :
              w[q] <= c.bestCredit /\ (q < c.bestIndex => w[q] < c.bestCredit)
    BY <2>2, <2>4
  <2>6. Best(d, w)
    BY <2>1, <2>4, <2>5 DEF Best, Same
  <2>7. Looked(d, w)
    BY <2>1, <2>6 DEF Looked, Same
  <2>8. QED
    BY <1>1, <2>1, <2>7
<1>4. QED
  BY <1>2, <1>3

\* The credit taken is the one compared, as nobody else changes it.
LEMMA TakeLooks ==
    ASSUME NEW c, NEW d, NEW w, NEW p \in Nat \ {0}, c.stage = "take", c.pos = p,
           d.slice = c.slice, d.bestIndex = p, d.bestCredit = w[p], Moved(c, d),
           c.bestCredit \in Int, \A q \in 1..p : w[q] \in Int, Looked(c, w)
    PROVE  Looked(d, w) /\ Added(c) = p /\ Added(d) = p
<1>1. Best(c, w) /\ w[p] > c.bestCredit /\ p \in 1..p
  BY DEF Looked
<1>2. /\ Added(c) = p /\ Added(d) = p /\ Scanned(c) = p - 1 /\ Scanned(d) = p
      /\ d.stage \in {"add", "subtract"} /\ (d.stage = "subtract" => d.pos = Len(c.slice))
  BY MovedFacts
<1>3. ASSUME NEW q \in 1..p, q # p PROVE w[q] < w[p]
  <2>1. p - 1 # 0 /\ q \in 1..(p - 1)
    BY <1>3
  <2>2. w[q] <= c.bestCredit
    BY <1>1, <1>2, <2>1 DEF Best
  <2>3. QED
    BY <1>1, <2>2
<1>4. Best(d, w)
  <2>1. \A q \in 1..p : w[q] <= w[p] /\ (q < p => w[q] < w[p])
    BY <1>1, <1>3
  <2>2. QED
    BY <1>1, <1>2, <2>1 DEF Best
<1>5. QED
  BY <1>2, <1>4 DEF Looked

\* Between selects no credit is down to minus a cycle.
NoneAhead == \A p \in 1..Size : Base(p) > -CycleLength

\* The credits while t is the only caller: it has added some of the weights.
Held(t) ==
    \A p \in DOMAIN credits :
        credits[p] = Base(p) + IF p <= Added(call[t]) THEN Weigh(p) ELSE 0

Kept(t) ==
    /\ \A p \in DOMAIN credits' :
          credits'[p] = Base(p) + IF p <= Added(call'[t]) THEN Weigh(p) ELSE 0
    /\ Looked(call'[t], credits')

LEMMA CreditsAreInts == ASSUME IInv PROVE \A q \in DOMAIN credits : credits[q] \in Int
<1>1. credits \in Seq(Int)
  BY DEF IInv
<1>2. QED
  BY <1>1

LEMMA SelectKeeps ==
    ASSUME IInv, NEW t \in Callers, Held(t), Select(t)
    PROVE  Kept(t)
<1>1. Added(call'[t]) = Added(call[t]) /\ credits' = credits /\ call'[t].stage = "init"
  BY SelectDoes DEF Added
<1>2. QED
  BY <1>1 DEF Kept, Held, Looked

LEMMA GetOrInitKeeps ==
    ASSUME IInv, Fixed, Tally, NEW t \in Callers, Held(t), GetOrInit(t)
    PROVE  Kept(t)
<1>1. /\ call[t].stage = "init" /\ call'[t].stage = "add" /\ call'[t].pos = 1
      /\ call'[t].bestCredit = I64Min /\ call[t].slice = Order
      /\ credits' = IF credits = <<>> THEN [p \in DOMAIN Order |-> 0] ELSE credits
  BY GetOrInitDoes DEF Fixed
<1>2. Added(call'[t]) = 0 /\ Added(call[t]) = 0 /\ Scanned(call'[t]) = 0
  BY <1>1 DEF Added, Scanned
<1>3. Looked(call'[t], credits')
  BY <1>1, <1>2 DEF Looked, Best
<1>4. ASSUME NEW p \in DOMAIN credits' PROVE credits'[p] = Base(p) + 0 /\ p \in 1..Size
  <2>1. CASE credits = <<>>
    <3>1. p \in 1..Size /\ credits'[p] = 0
      BY <1>1, <1>4, <2>1, OrderFacts
    <3>2. Base(p) = 0
      BY <2>1, <3>1, BaseFacts DEF Fixed
    <3>3. QED
      BY <3>1, <3>2
  <2>2. CASE credits # <<>>
    <3>1. p \in 1..Size /\ credits'[p] = credits[p] /\ p \in DOMAIN credits
      BY <1>1, <1>4, <2>2 DEF Fixed
    <3>2. ~(p <= Added(call[t]))
      BY <1>2, <3>1
    <3>3. QED
      BY <3>1, <3>2 DEF Held
  <2>3. QED
    BY <2>1, <2>2
<1>5. ASSUME NEW p \in DOMAIN credits' PROVE ~(p <= Added(call'[t]))
  BY <1>2, <1>4
<1>6. QED
  BY <1>3, <1>4, <1>5 DEF Kept

LEMMA AddWeightKeeps ==
    ASSUME IInv, Fixed, Tally, NEW t \in Callers, Held(t), Looked(call[t], credits), AddWeight(t)
    PROVE  Kept(t)
<1>1. PICK c, d, p : c = call[t] /\ d = call'[t] /\ p = call[t].pos
  OBVIOUS
<1>2. /\ c.stage = "add" /\ d.stage = "compare" /\ c.pos = p /\ d.pos = p /\ Same(c, d)
      /\ p \in 1..Size /\ DOMAIN credits = 1..Size
      /\ credits' = [credits EXCEPT ![p] = @ + Weigh(p)]
  BY <1>1, AddWeightDoes DEF Fixed
<1>3. Added(c) = p - 1 /\ Added(d) = p /\ Scanned(c) = p - 1 /\ Scanned(d) = p - 1
  BY <1>2 DEF Added, Scanned
<1>4. \A q \in 1..Size : credits[q] \in Int /\ Base(q) \in Int /\ Weigh(q) \in Nat
  BY <1>2, CreditsAreInts, BaseFacts, CycleFacts
<1>5. /\ DOMAIN credits' = 1..Size /\ credits'[p] = credits[p] + Weigh(p)
      /\ \A q \in 1..Size : q # p => credits'[q] = credits[q]
  BY <1>2
<1>6. ASSUME NEW q \in 1..Size
      PROVE  credits'[q] = Base(q) + IF q <= Added(d) THEN Weigh(q) ELSE 0
  <2>1. credits[q] = Base(q) + IF q <= p - 1 THEN Weigh(q) ELSE 0
    BY <1>1, <1>2, <1>3 DEF Held
  <2>2. CASE q = p
    BY <1>2, <1>3, <1>4, <1>5, <2>1, <2>2
  <2>3. CASE q # p
    BY <1>2, <1>3, <1>5, <2>1, <2>3
  <2>4. QED
    BY <2>2, <2>3
<1>7. Looked(d, credits')
  <2>1. PICK w, x : w = credits /\ x = credits'
    OBVIOUS
  <2>2. /\ p \in Nat \ {0} /\ Looked(c, w)
        /\ \A q \in 1..(p - 1) : x[q] = w[q]
    BY <1>1, <1>2, <1>5, <2>1
  <2>3. Looked(d, x)
    BY <1>2, <2>2, AddLooks
  <2>4. QED
    BY <2>1, <2>3
<1>8. QED
  BY <1>1, <1>5, <1>6, <1>7 DEF Kept

LEMMA CompareKeeps ==
    ASSUME IInv, Fixed, Tally, NoneAhead, NEW t \in Callers, Held(t), Looked(call[t], credits),
           Compare(t)
    PROVE  Kept(t)
<1>1. PICK c, d, p : c = call[t] /\ d = call'[t] /\ p = call[t].pos
  OBVIOUS
<1>2. /\ c.stage = "compare" /\ credits' = credits /\ Same(c, d) /\ c.pos = p
      /\ \/ credits[p] > c.bestCredit /\ d.stage = "take" /\ d.pos = p
         \/ ~(credits[p] > c.bestCredit) /\ Moved(c, d)
  BY <1>1, CompareDoes
<1>3. p \in 1..Size /\ DOMAIN credits = 1..Size /\ c.slice = Order /\ c.bestCredit \in Int
  <2>1. /\ p \in DOMAIN c.slice /\ c.slice = Order /\ credits # <<>> /\ c.bestCredit \in Int
    BY <1>1, <1>2, CallFacts DEF Fits, Looping, Fixed, Call
  <2>2. QED
    BY <2>1, OrderFacts DEF Fixed
<1>4. \A q \in 1..Size : credits[q] \in Int /\ Base(q) \in Int /\ Weigh(q) \in Nat
  BY <1>3, CreditsAreInts, BaseFacts, CycleFacts
<1>5. Added(c) = p
  BY <1>2 DEF Added
<1>6. credits[1] > I64Min
  <2>1. 1 \in 1..Size /\ 1 \in DOMAIN credits /\ 1 <= Added(c)
    BY <1>3, <1>5, OrderFacts
  <2>2. credits[1] = Base(1) + Weigh(1) /\ Base(1) > -CycleLength
    BY <1>1, <2>1 DEF Held, NoneAhead
  <2>3. I64Min <= -CycleLength /\ I64Min \in Int /\ CycleLength \in Nat
    BY CycleFacts, WeightAssumption
  <2>4. QED
    BY <1>4, <2>1, <2>2, <2>3
<1>7. Looked(d, credits) /\ Added(d) = p
  <2>1. p \in Nat \ {0} /\ \A q \in 1..p : credits[q] \in Int
    BY <1>3, <1>4, OrderFacts
  <2>2. QED
    BY <1>1, <1>2, <1>3, <1>6, <2>1, CompareLooks
<1>8. QED
  BY <1>1, <1>2, <1>5, <1>7 DEF Kept, Held

LEMMA TakeKeeps ==
    ASSUME IInv, Fixed, Tally, NEW t \in Callers, Held(t), Looked(call[t], credits), Take(t)
    PROVE  Kept(t)
<1>1. PICK c, d, p : c = call[t] /\ d = call'[t] /\ p = call[t].pos
  OBVIOUS
<1>2. /\ c.stage = "take" /\ credits' = credits /\ d.slice = c.slice /\ c.pos = p
      /\ d.bestIndex = p /\ d.bestCredit = credits[p] /\ Moved(c, d)
  BY <1>1, TakeDoes
<1>3. p \in 1..Size /\ DOMAIN credits = 1..Size /\ c.bestCredit \in Int
  <2>1. /\ p \in DOMAIN c.slice /\ c.slice = Order /\ credits # <<>> /\ c.bestCredit \in Int
    BY <1>1, <1>2, CallFacts DEF Fits, Looping, Fixed, Call
  <2>2. QED
    BY <2>1, OrderFacts DEF Fixed
<1>4. (\A q \in 1..Size : credits[q] \in Int) /\ Size \in Nat
  BY <1>3, CreditsAreInts, OrderFacts
<1>5. Looked(d, credits) /\ Added(c) = p /\ Added(d) = p
  <2>1. p \in Nat \ {0} /\ \A q \in 1..p : credits[q] \in Int
    BY <1>3, <1>4
  <2>2. QED
    BY <1>1, <1>2, <1>3, <2>1, TakeLooks
<1>6. QED
  BY <1>1, <1>2, <1>5 DEF Kept, Held

LEMMA WorkKeeps ==
    ASSUME IInv, Fixed, Tally, NoneAhead, NEW t \in Callers, Held(t), Looked(call[t], credits),
           Work(t)
    PROVE  Kept(t)
BY SelectKeeps, GetOrInitKeeps, AddWeightKeeps, CompareKeeps, TakeKeeps DEF Work

---------------------------------------------------------------------------------
HasAdded(p) == \E t \in Callers : p <= Added(call[t])

Turns ==
    /\ \A t, u \in Callers : t # u => call[t].stage = "idle" \/ call[u].stage = "idle"
    /\ NoneAhead
    /\ \A i \in 1..Len(winners) : Beats(winners, rotation, CycleLength, i)
    /\ \A p \in DOMAIN credits :
          credits[p] = Base(p) + IF HasAdded(p) THEN Weigh(p) ELSE 0
    /\ \A t \in Callers : Looked(call[t], credits)

\* x picks in n of W selects, and less than one ahead of the share.
LEMMA ShareArithmetic ==
    ASSUME NEW W \in Nat, NEW w \in Nat, NEW x \in Nat, NEW n \in Nat, W > 0, n <= W,
           n * w - W * x > -W
    PROVE  x <= w
<1>1. n * w <= W * w
  OBVIOUS
<1>2. PICK nw, Ww, Wx \in Int : nw = n * w /\ Ww = W * w /\ Wx = W * x
  OBVIOUS
<1>3. Wx < Ww + W
  BY <1>1, <1>2
<1>4. W * x < W * (w + 1)
  BY <1>2, <1>3
<1>5. x < w + 1
  BY <1>4
<1>6. QED
  BY <1>5

LEMMA NeverMore ==
    ASSUME IInv, Fixed, Tally, NoneAhead
    PROVE  \A b \in rotation : picks[b] \in Nat /\ WeightOf[b] \in Nat /\ picks[b] <= WeightOf[b]
<1> SUFFICES ASSUME NEW b \in rotation
             PROVE  picks[b] \in Nat /\ WeightOf[b] \in Nat /\ picks[b] <= WeightOf[b]
  OBVIOUS
<1>1. PICK p \in 1..Size : Order[p] = b
  BY OrderFacts
<1>2. picks[b] \in Nat /\ WeightOf[b] \in Nat
  BY RotationFacts, WeightAssumption DEF Tally, Counted
<1>3. Len(winners) * WeightOf[b] - CycleLength * picks[b] > -CycleLength
  BY <1>1 DEF NoneAhead, Base, Weigh
<1>4. /\ Len(winners) \in Nat /\ CycleLength \in Nat /\ CycleLength > 0
      /\ Len(winners) <= CycleLength
  BY CycleFacts DEF Tally, Counted, Fixed
<1>5. QED
  BY <1>2, <1>3, <1>4, ShareArithmetic

LEMMA CountOfStranger ==
    ASSUME NEW S, NEW s \in Seq(S), NEW b, b \notin S
    PROVE  Count(s, b, Len(s)) = 0
<1>1. {j \in 1..Len(s) : s[j] = b} = {}
  OBVIOUS
<1>2. QED
  BY <1>1, FS_EmptySet DEF Count

\* At the end of a cycle each has had its share, and the next starts from nothing.
LEMMA CycleExact ==
    ASSUME IInv, Fixed, Tally, NoneAhead, CycleOver
    PROVE  /\ \A b \in rotation : picks[b] = WeightOf[b]
           /\ \A p \in 1..Size : Base(p) = 0
<1> DEFINE g == [b \in rotation |-> WeightOf[b]]
<1>1. rotation \subseteq Backends /\ IsFiniteSet(rotation) /\ IsFiniteSet(Backends)
  BY RotationFacts, BackendsFinite
<1>2. \A b \in rotation : picks[b] \in Int /\ g[b] \in Int /\ picks[b] <= g[b]
  BY NeverMore
<1>3. SumFunctionOnSet(picks, Backends) = CycleLength
  <2>1. DOMAIN picks = Backends
    BY DEF Tally, Counted
  <2>2. QED
    BY <2>1 DEF CycleOver, SumFunction
<1>4. SumFunctionOnSet(picks, Backends) = SumFunctionOnSet(picks, rotation)
  <2>1. \A b \in Backends : picks[b] \in Int
    BY DEF Tally, Counted
  <2>2. \A b \in Backends \ rotation : picks[b] = 0
    BY CountOfStranger DEF Tally, Counted
  <2>3. QED
    BY <1>1, <2>1, <2>2, SumRestricted
<1>5. CycleLength = SumFunctionOnSet(g, rotation)
  BY DEF CycleLength, SumFunction
<1>6. \A b \in rotation : g[b] = WeightOf[b]
  OBVIOUS
<1> HIDE DEF g
<1>7. SumFunctionOnSet(picks, rotation) = SumFunctionOnSet(g, rotation)
  BY <1>3, <1>4, <1>5
<1>8. \A b \in rotation : picks[b] = g[b]
  BY <1>1, <1>2, <1>7, SumSqueeze
<1>9. Len(winners) = CycleLength
  BY DEF Tally, Counted, CycleOver
<1>10. ASSUME NEW p \in 1..Size PROVE Base(p) = 0
  <2>1. picks[Order[p]] = Weigh(p) /\ Weigh(p) \in Nat /\ CycleLength \in Nat
    BY <1>6, <1>8, OrderFacts, CycleFacts DEF Weigh
  <2>2. Base(p) = CycleLength * Weigh(p) - CycleLength * Weigh(p)
    BY <1>9, <2>1 DEF Base
  <2>3. QED
    BY <2>1, <2>2
<1>11. QED
  BY <1>6, <1>8, <1>10

\* The next pick is weighed against the shares of the cycle it belongs to.
LEMMA BaseSoFar ==
    ASSUME IInv, Fixed, Tally, NoneAhead, NEW p \in 1..Size
    PROVE  Base(p) = Len(WinnersSoFar) * Weigh(p) - CycleLength * PicksSoFar[Order[p]]
<1>1. CASE CycleOver
  <2>1. Base(p) = 0 /\ Len(WinnersSoFar) = 0 /\ PicksSoFar = NoPicks
    BY <1>1, CycleExact DEF WinnersSoFar, PicksSoFar
  <2>2. Weigh(p) \in Nat /\ CycleLength \in Nat /\ NoPicks[Order[p]] = 0
    BY CycleFacts, OrderFacts DEF NoPicks
  <2>3. QED
    BY <2>1, <2>2
<1>2. CASE ~CycleOver
  BY <1>2 DEF Base, WinnersSoFar, PicksSoFar
<1>3. QED
  BY <1>1, <1>2

\* When t is the only caller and has added every weight, the credits add up to a cycle.
LEMMA SumOfTurn ==
    ASSUME IInv, Fixed, CreditsConserved, NEW t \in Callers,
           \A u \in Callers \ {t} : call[u].stage = "idle",
           call[t].slice = Order, Added(call[t]) = Size
    PROVE  SumFunction(credits) = CycleLength
<1> DEFINE f == [u \in Callers |-> Outstanding(u)]
<1>1. f[t] = CycleLength
  BY OutstandingIs, CycleFacts DEF Owes
<1>2. \A u \in Callers \ {t} : f[u] = 0
  BY OutstandingIs, TotalOfNone DEF Owes, Added
<1>3. SumFunction(f) = SumFunctionOnSet(f, Callers)
  BY DEF SumFunction
<1>4. IsFiniteSet(Callers) /\ IsFiniteSet(Callers \ {t}) /\ CycleLength \in Nat
  BY WeightAssumption, FS_Subset, CycleFacts
<1>5. SumFunction(credits) = SumFunction(f)
  BY DEF CreditsConserved
<1> HIDE DEF f
<1>6. SumFunctionOnSet(f, Callers) = f[t] + SumFunctionOnSet(f, Callers \ {t})
  <2>1. \A u \in Callers : f[u] \in Int
    BY <1>1, <1>2, <1>4
  <2>2. QED
    BY <1>4, <2>1, SumWithout
<1>7. SumFunctionOnSet(f, Callers \ {t}) = 0
  BY <1>2, <1>4, SumOfZeros
<1>8. QED
  BY <1>1, <1>3, <1>4, <1>5, <1>6, <1>7

\* Credits that add up to more than nothing are not all nothing or less.
LEMMA SomePositive ==
    ASSUME NEW w \in Seq(Int), SumFunction(w) > 0, NEW b \in DOMAIN w,
           \A q \in DOMAIN w : w[q] <= w[b]
    PROVE  w[b] > 0
<1> SUFFICES ASSUME ~(w[b] > 0) PROVE FALSE
  OBVIOUS
<1> DEFINE z == [q \in DOMAIN w |-> 0]
<1>1. \A q \in DOMAIN w : w[q] \in Int /\ w[q] <= z[q] /\ z[q] = 0
  OBVIOUS
<1>2. IsFiniteSet(DOMAIN w) /\ SumFunction(w) \in Int
  BY CreditSum
<1> HIDE DEF z
<1>3. SumFunctionOnSet(z, DOMAIN w) = 0
  BY <1>1, <1>2, SumOfZeros
<1>4. SumFunctionOnSet(w, DOMAIN w) <= SumFunctionOnSet(z, DOMAIN w)
  <2>1. \A q \in DOMAIN w : w[q] \in Int /\ z[q] \in Int /\ w[q] <= z[q]
    BY <1>1
  <2>2. QED
    BY <1>2, <2>1, SumMonotone
<1>5. SumFunction(w) <= 0
  BY <1>3, <1>4 DEF SumFunction
<1>6. QED
  BY <1>2, <1>5

\* When t returns it has compared every credit, each with its weight added.
LEMMA AtReturn ==
    ASSUME IInv, TotalsKept, CreditsConserved, Fixed, Tally, Turns, NEW t \in Callers, Return(t)
    PROVE  LET B == call[t].bestIndex
           IN  /\ \A u \in Callers \ {t} : call[u].stage = "idle"
               /\ B \in 1..Size /\ credits[B] > 0
               /\ \A q \in 1..Size :
                     /\ credits[q] = Base(q) + Weigh(q)
                     /\ credits[q] <= credits[B] /\ (q < B => credits[q] < credits[B])
               /\ credits' = [credits EXCEPT ![B] = @ - CycleLength]
<1> DEFINE B == call[t].bestIndex
<1>1. /\ call[t].stage = "subtract" /\ call'[t].stage = "idle"
      /\ credits' = [credits EXCEPT ![B] = @ - call[t].totalWeight]
  BY SubtractDoes DEF Return
<1>2. B \in 1..Size /\ call[t].slice = Order /\ DOMAIN credits = 1..Size
  BY ReturnDoes
<1>3. \A u \in Callers \ {t} : call[u].stage = "idle"
  BY <1>1 DEF Turns
<1>4. call[t].pos = Size /\ Best(call[t], credits)
  BY <1>1, <1>2 DEF Turns, Looked, Size
<1>5. Added(call[t]) = Size /\ Scanned(call[t]) = Size /\ Size \in Nat /\ Size # 0
  BY <1>1, <1>2, <1>4, OrderFacts DEF Added, Scanned
<1>6. \A q \in 1..Size : credits[q] <= credits[B] /\ (q < B => credits[q] < credits[B])
  BY <1>4, <1>5 DEF Best
<1>7. ASSUME NEW q \in 1..Size PROVE credits[q] = Base(q) + Weigh(q)
  <2>1. HasAdded(q)
    BY <1>5 DEF HasAdded
  <2>2. QED
    BY <1>2, <2>1 DEF Turns
<1>8. SumFunction(credits) = CycleLength
  BY <1>2, <1>3, <1>5, SumOfTurn
<1>9. credits[B] > 0
  <2>1. SumFunction(credits) > 0 /\ credits \in Seq(Int)
    BY <1>8 DEF Fixed, IInv
  <2>2. \A q \in DOMAIN credits : credits[q] <= credits[B]
    BY <1>2, <1>6
  <2> HIDE DEF B
  <2>3. QED
    BY <1>2, <2>1, <2>2, SomePositive
<1>10. call[t].totalWeight = CycleLength
  BY <1>1, <1>2, <1>5, CycleFacts DEF TotalsKept, Owes
<1>11. QED
  BY <1>1, <1>2, <1>3, <1>6, <1>7, <1>9, <1>10

\* The credits between two selects are what the picks say, and no backend is a
\* whole request ahead.
LEMMA ReturnBase ==
    ASSUME IInv, TotalsKept, CreditsConserved, Fixed, Tally, Turns, NEW t \in Callers, Return(t)
    PROVE  \A p \in 1..Size : credits'[p] = Base(p)' /\ Base(p)' > -CycleLength
<1> SUFFICES ASSUME NEW p \in 1..Size
             PROVE  credits'[p] = Base(p)' /\ Base(p)' > -CycleLength
  OBVIOUS
<1>1. PICK B, W, w, n, x :
          /\ B = call[t].bestIndex /\ W = CycleLength /\ w = Weigh(p)
          /\ n = Len(WinnersSoFar) /\ x = PicksSoFar[Order[p]]
  OBVIOUS
<1>2. /\ B \in 1..Size /\ credits[B] > 0 /\ credits[p] = Base(p) + w
      /\ credits' = [credits EXCEPT ![B] = @ - W] /\ DOMAIN credits = 1..Size
  BY <1>1, AtReturn, ReturnDoes
<1>3. Base(p) = n * w - W * x /\ Base(p) > -W /\ Base(p) \in Int
  BY <1>1, BaseSoFar, BaseFacts DEF Turns, NoneAhead
<1>4. Counted(PicksSoFar, WinnersSoFar) /\ Order[p] \in Backends /\ Order[B] \in rotation
  BY <1>2, SoFarCounted, OrderFacts
<1>5. W \in Nat /\ w \in Nat /\ n \in Nat /\ x \in Nat
  BY <1>1, <1>4, CycleFacts DEF Counted
<1>6. /\ picks' = [PicksSoFar EXCEPT ![Order[B]] = @ + 1]
      /\ winners' = Append(WinnersSoFar, Order[B])
  BY <1>1, ReturnDoes
<1>7. Len(winners') = n + 1
  BY <1>1, <1>4, <1>6 DEF Counted
<1>8. picks'[Order[p]] = x + IF p = B THEN 1 ELSE 0
  <2>1. Order[p] = Order[B] <=> p = B
    BY <1>2, OrderFacts
  <2>2. PicksSoFar \in [Backends -> Nat]
    BY <1>4 DEF Counted
  <2>3. QED
    BY <1>1, <1>4, <1>5, <1>6, <2>1, <2>2
<1>9. rotation' = rotation
  BY Frame DEF Return
<1>10. Order' = Order /\ CycleLength' = W
  BY <1>1, <1>9 DEF Order, CycleLength
<1>11. Base(p)' = (n + 1) * w - W * (x + IF p = B THEN 1 ELSE 0)
  BY <1>1, <1>7, <1>8, <1>10 DEF Base, Weigh
<1>12. (n + 1) * w = n * w + w /\ W * (x + 1) = W * x + W /\ W * (x + 0) = W * x
  BY <1>5
<1>13. PICK nw, Wx, top, had, has, base, next :
           /\ nw = n * w /\ Wx = W * x /\ top = credits[B] /\ had = credits[p]
           /\ has = credits'[p] /\ base = Base(p) /\ next = Base(p)'
  OBVIOUS
<1>14. nw \in Int /\ Wx \in Int /\ top \in Int /\ top > 0 /\ had = base + w
       /\ base = nw - Wx /\ base > -W
  BY <1>2, <1>3, <1>5, <1>13, CreditsAreInts
<1>15. CASE p = B
  <2>1. has = had - W /\ had = top
    BY <1>2, <1>13, <1>15
  <2>2. next = (nw + w) - (Wx + W)
    BY <1>11, <1>12, <1>13, <1>15
  <2>3. has = next /\ next > -W
    BY <1>5, <1>14, <2>1, <2>2
  <2>4. QED
    BY <1>1, <1>13, <2>3
<1>16. CASE p # B
  <2>1. has = had
    BY <1>2, <1>13, <1>16
  <2>2. next = (nw + w) - Wx
    BY <1>11, <1>12, <1>13, <1>16
  <2>3. has = next /\ next > -W
    BY <1>5, <1>14, <2>1, <2>2
  <2>4. QED
    BY <1>1, <1>13, <2>3
<1>17. QED
  BY <1>15, <1>16

\* What a winner beats does not depend on the winners after it.
LEMMA BeatsSame ==
    ASSUME NEW s, NEW r, NEW S, NEW W, NEW i \in Nat \ {0},
           \A j \in 1..i : s[j] = r[j], Beats(s, S, W, i)
    PROVE  Beats(r, S, W, i)
<1>1. i - 1 \in Nat /\ \A j \in 1..(i - 1) : s[j] = r[j]
  OBVIOUS
<1>2. \A b : Count(s, b, i - 1) = Count(r, b, i - 1)
  BY <1>1, CountOfSame
<1>3. s[i] = r[i]
  OBVIOUS
<1>4. QED
  BY <1>2, <1>3 DEF Beats

LEMMA ReturnBeats ==
    ASSUME IInv, TotalsKept, CreditsConserved, Fixed, Tally, Turns, NEW t \in Callers, Return(t)
    PROVE  \A i \in 1..Len(winners') : Beats(winners', rotation, CycleLength, i)
<1>1. PICK ws, v, n, W, B :
          ws = WinnersSoFar /\ v = Winner(t) /\ n = Len(ws) /\ W = CycleLength
          /\ B = call[t].bestIndex
  OBVIOUS
<1>2. Counted(PicksSoFar, ws) /\ v \in rotation /\ winners' = Append(ws, v) /\ n \in Nat
      /\ v = Order[B] /\ B \in 1..Size
  BY <1>1, SoFarCounted, ReturnDoes DEF Counted
<1>3. PICK vs : vs = winners'
  OBVIOUS
<1>4. /\ Len(vs) = n + 1 /\ vs[n + 1] = v
      /\ \A i \in 1..n : vs[i] = ws[i]
  <2>1. ws \in Seq(rotation)
    BY <1>2 DEF Counted
  <2>2. v \in rotation /\ vs = Append(ws, v) /\ n = Len(ws)
    BY <1>1, <1>2, <1>3
  <2>3. QED
    BY <2>1, <2>2
<1>5. ASSUME NEW i \in 1..n PROVE Beats(vs, rotation, W, i)
  <2>1. Beats(ws, rotation, W, i)
    <3>1. CASE CycleOver
      BY <1>1, <1>5, <3>1 DEF WinnersSoFar
    <3>2. CASE ~CycleOver
      BY <1>1, <1>5, <3>2 DEF WinnersSoFar, Turns
    <3>3. QED
      BY <3>1, <3>2
  <2>2. i \in Nat \ {0} /\ \A j \in 1..i : ws[j] = vs[j]
    BY <1>2, <1>4, <1>5
  <2>3. QED
    BY <2>1, <2>2, BeatsSame
<1>6. Beats(vs, rotation, W, n + 1)
  <2>1. ASSUME NEW p \in 1..Size
        PROVE  credits[p] = (n + 1) * WeightOf[Order[p]] - W * Count(vs, Order[p], n)
    <3>1. PICK b, w, x : b = Order[p] /\ w = Weigh(p) /\ x = PicksSoFar[b]
      OBVIOUS
    <3>2. credits[p] = (n * w - W * x) + w
      BY <1>1, <3>1, AtReturn, BaseSoFar DEF Turns
    <3>3. b \in Backends /\ x = Count(ws, b, n) /\ x \in Nat
      BY <1>1, <1>2, <3>1, OrderFacts DEF Counted
    <3>4. Count(vs, b, n) = Count(ws, b, n)
      BY <1>2, <1>4, CountOfSame
    <3>5. w \in Nat /\ W \in Nat
      BY <1>1, <3>1, CycleFacts
    <3>6. (n + 1) * w = n * w + w /\ n * w \in Int /\ W * x \in Int
      BY <1>2, <3>3, <3>5
    <3>7. credits[p] = (n + 1) * w - W * x
      BY <3>2, <3>5, <3>6
    <3>8. QED
      BY <3>1, <3>3, <3>4, <3>7 DEF Weigh
  <2>2. \A q \in 1..Size : credits[q] <= credits[B] /\ (q < B => credits[q] < credits[B])
    BY <1>1, AtReturn
  <2> SUFFICES ASSUME NEW b \in rotation \ {v}
               PROVE  LET mine == (n + 1) * WeightOf[b] - W * Count(vs, b, n)
                          best == (n + 1) * WeightOf[v] - W * Count(vs, v, n)
                      IN  mine <= best /\ (b < v => mine < best)
    <3>1. (n + 1) - 1 = n
      BY <1>2
    <3>2. QED
      BY <1>4, <3>1 DEF Beats
  <2>3. PICK q \in 1..Size : Order[q] = b
    BY OrderFacts
  <2>4. b < v => q < B
    <3>1. /\ q \in Nat /\ B \in Nat /\ b \in Nat /\ v \in Nat
      BY <1>2, RotationFacts, OrderFacts
    <3>2. B < q => v < b
      BY <1>2, <2>3, OrderFacts
    <3>3. q # B
      BY <1>2, <2>3
    <3>4. QED
      BY <3>1, <3>2, <3>3
  <2>5. /\ credits[q] = (n + 1) * WeightOf[b] - W * Count(vs, b, n)
        /\ credits[B] = (n + 1) * WeightOf[v] - W * Count(vs, v, n)
    BY <1>2, <2>1, <2>3
  <2>6. QED
    BY <2>2, <2>4, <2>5
<1>7. QED
  <2>1. \A i \in 1..(n + 1) : i \in 1..n \/ i = n + 1
    BY <1>2
  <2>2. QED
    BY <1>1, <1>3, <1>4, <1>5, <1>6, <2>1

\* When no one else is in a select, what has been added is what t has.
LEMMA AddedAlone ==
    ASSUME NEW t \in Callers, NEW p \in Nat \ {0}, \A u \in Callers \ {t} : call[u].stage = "idle"
    PROVE  HasAdded(p) <=> p <= Added(call[t])
<1>1. \A u \in Callers \ {t} : Added(call[u]) = 0
  BY DEF Added
<1>2. QED
  BY <1>1 DEF HasAdded

LEMMA TurnsWork ==
    ASSUME IInv, IInv', Fixed, Fixed', Tally, Turns, NEW t \in Callers, Work(t),
           \A u \in Callers \ {t} : call[u].stage = "idle", UNCHANGED <<picks, winners>>
    PROVE  Turns'
<1>1. rotation' = rotation /\ \A u \in Callers \ {t} : call'[u] = call[u]
  BY Frame
<1>2. Order' = Order /\ Size' = Size /\ CycleLength' = CycleLength
  BY <1>1 DEF Order, Size, CycleLength
<1>3. \A p : Base(p)' = Base(p) /\ Weigh(p)' = Weigh(p)
  BY <1>2 DEF Base, Weigh
<1>4. NoneAhead'
  BY <1>2, <1>3 DEF Turns, NoneAhead
<1>5. \A i \in 1..Len(winners') : Beats(winners', rotation', CycleLength', i)
  BY <1>1, <1>2 DEF Turns
<1>6. Held(t)
  <2>1. \A p \in DOMAIN credits : p \in Nat \ {0}
    BY OrderFacts DEF Fixed
  <2>2. QED
    BY <2>1, AddedAlone DEF Held, Turns
<1>7. Kept(t)
  BY <1>6, WorkKeeps DEF Turns
<1>8. ASSUME NEW p \in DOMAIN credits'
      PROVE  credits'[p] = Base(p)' + IF HasAdded(p)' THEN Weigh(p)' ELSE 0
  <2>1. p \in Nat \ {0}
    BY <1>2, OrderFacts DEF Fixed
  <2>2. \A u \in Callers \ {t} : call'[u].stage = "idle"
    BY <1>1
  <2>3. \A u \in Callers \ {t} : Added(call'[u]) = 0
    BY <2>2 DEF Added
  <2>4. HasAdded(p)' <=> p <= Added(call'[t])
    BY <2>1, <2>3 DEF HasAdded
  <2>5. QED
    BY <1>3, <1>7, <2>4 DEF Kept
<1>9. \A u \in Callers : Looked(call'[u], credits')
  BY <1>1, <1>7 DEF Kept, Looked
<1>10. \A u, v \in Callers : u # v => call'[u].stage = "idle" \/ call'[v].stage = "idle"
  BY <1>1
<1>11. QED
  BY <1>4, <1>5, <1>8, <1>9, <1>10 DEF Turns

LEMMA TurnsReturn ==
    ASSUME IInv, IInv', TotalsKept, CreditsConserved, Fixed, Tally, Turns,
           NEW t \in Callers, Return(t)
    PROVE  Turns'
<1>1. rotation' = rotation /\ \A u \in Callers \ {t} : call'[u] = call[u]
  BY Frame DEF Return
<1>2. Order' = Order /\ Size' = Size /\ CycleLength' = CycleLength
  BY <1>1 DEF Order, Size, CycleLength
<1>3. \A u \in Callers : call'[u].stage = "idle"
  <2>1. call'[t].stage = "idle" /\ \A u \in Callers \ {t} : call[u].stage = "idle"
    BY SubtractDoes, AtReturn DEF Return
  <2>2. QED
    BY <1>1, <2>1
<1>4. NoneAhead'
  <2>1. \A p \in 1..Size : Base(p)' > -CycleLength
    BY ReturnBase
  <2>2. QED
    BY <1>2, <2>1 DEF NoneAhead
<1>5. \A i \in 1..Len(winners') : Beats(winners', rotation', CycleLength', i)
  BY <1>1, <1>2, ReturnBeats
<1>6. ASSUME NEW p \in DOMAIN credits'
      PROVE  credits'[p] = Base(p)' + IF HasAdded(p)' THEN Weigh(p)' ELSE 0
  <2>1. DOMAIN credits' = 1..Size
    BY ReturnDoes, AtReturn
  <2>2. p \in 1..Size /\ p \in Nat \ {0}
    BY <2>1, OrderFacts
  <2>3. ~HasAdded(p)'
    <3>1. \A u \in Callers : Added(call'[u]) = 0
      BY <1>3 DEF Added
    <3>2. QED
      BY <2>2, <3>1 DEF HasAdded
  <2>4. credits'[p] = Base(p)'
    BY <2>2, ReturnBase
  <2>5. credits'[p] \in Int
    <3>1. credits' \in Seq(Int)
      BY DEF IInv
    <3>2. QED
      BY <1>6, <3>1
  <2>6. QED
    BY <2>3, <2>4, <2>5
<1>7. \A u \in Callers : Looked(call'[u], credits')
  BY <1>3 DEF Looked
<1>8. QED
  BY <1>3, <1>4, <1>5, <1>6, <1>7 DEF Turns

SharesInv == Fixed /\ Tally /\ (sequential => Turns)

LEMMA SharesInitial == ASSUME SharesInit, IInv PROVE SharesInv
<1>1. /\ rotation # {} /\ CycleLength > 0 /\ credits = <<>> /\ winners = <<>> /\ picks = NoPicks
      /\ call = [t \in Callers |-> NoCall]
  BY DEF SharesInit, Init
<1>2. \A t \in Callers : call[t].stage = "idle"
  BY <1>1 DEF NoCall
<1>3. Fixed
  BY <1>1, <1>2 DEF Fixed
<1>4. Tally
  BY <1>1, NothingCounted, CycleFacts DEF Tally
<1>5. NoneAhead
  <2>1. CycleLength \in Nat /\ \A p \in 1..Size : Base(p) = 0
    BY <1>1, <1>4, BaseFacts, CycleFacts
  <2>2. QED
    BY <1>1, <2>1 DEF NoneAhead
<1>6. Turns
  BY <1>1, <1>2, <1>5 DEF Turns, Looked
<1>7. QED
  BY <1>3, <1>4, <1>6 DEF SharesInv

LEMMA SharesStep ==
    ASSUME IInv, IInv', TotalsKept, CreditsConserved, SharesInv, [SharesNext]_shareVars
    PROVE  SharesInv'
<1>1. ASSUME NEW t \in Callers, Proceed(t) \/ Return(t) PROVE SharesInv'
  <2>1. Fixed' /\ Tally'
    BY <1>1, FixedStep, TallyStep DEF SharesInv
  <2>2. ASSUME sequential' PROVE Turns'
    <3>1. CASE Proceed(t)
      BY <2>1, <2>2, <3>1, TurnsWork DEF Proceed, SharesInv
    <3>2. CASE Return(t)
      <4>1. sequential
        BY <2>2, <3>2 DEF Return
      <4>2. QED
        BY <3>2, <4>1, TurnsReturn DEF SharesInv
    <3>3. QED
      BY <1>1, <3>1, <3>2
  <2>3. QED
    BY <2>1, <2>2 DEF SharesInv
<1>2. CASE UNCHANGED shareVars
  <2>1. UNCHANGED <<rotation, credits, call, picks, winners, sequential>>
    BY <1>2 DEF shareVars, vars
  <2>2. Order' = Order /\ Size' = Size /\ CycleLength' = CycleLength
    BY <2>1 DEF Order, Size, CycleLength
  <2>3. \A p : Base(p)' = Base(p) /\ Weigh(p)' = Weigh(p) /\ (HasAdded(p)' <=> HasAdded(p))
    BY <2>1, <2>2 DEF Base, Weigh, HasAdded
  <2>4. Fixed'
    BY <2>1, <2>2 DEF SharesInv, Fixed
  <2>5. Tally'
    BY <2>1, <2>2 DEF SharesInv, Tally, Counted
  <2>6. NoneAhead => NoneAhead'
    BY <2>2, <2>3 DEF NoneAhead
  <2>7. Turns => Turns'
    BY <2>1, <2>2, <2>3, <2>6 DEF Turns
  <2>8. QED
    BY <2>1, <2>4, <2>5, <2>7 DEF SharesInv
<1>3. QED
  BY <1>1, <1>2 DEF SharesNext

\* The picks and the winners are only recorded: the steps are those of Spec.
LEMMA SharesImplementsSpec == SharesSpec => Spec
<1>1. SharesInit => Init
  BY DEF SharesInit
<1>2. [SharesNext]_shareVars => [Next]_vars
  BY DEF SharesNext, Proceed, Return, Next, shareVars
<1>3. QED
  BY <1>1, <1>2, PTL DEF SharesSpec, Spec

LEMMA SharesInvariant == SharesSpec => [](IInv /\ CreditsConserved /\ SharesInv)
<1>1. IInv /\ SharesInit => SharesInv
  BY SharesInitial
<1>2. IInv /\ IInv' /\ TotalsKept /\ CreditsConserved /\ SharesInv /\ [SharesNext]_shareVars
         => SharesInv'
  BY SharesStep
<1>3. SharesSpec => [](IInv /\ TotalsKept /\ CreditsConserved)
  BY SharesImplementsSpec, BalanceInvariant, PTL
<1>4. QED
  BY <1>1, <1>2, <1>3, PTL DEF SharesSpec

(***************************************************************************)
(* While the rotation is fixed, select never indexes past the credits, for *)
(* any number of concurrent callers (weighted_round_robin.rs:50-61).       *)
(***************************************************************************)
THEOREM SharesSelectReturns == SharesSpec => []SelectReturns
<1>1. IInv /\ SharesInv => SelectReturns
  BY FixedReturns DEF SharesInv
<1>2. QED
  BY <1>1, SharesInvariant, PTL

(***************************************************************************)
(* As long as selects follow one another, a cycle of them gives each       *)
(* backend exactly its weight (weighted_round_robin.rs:50-72).             *)
(***************************************************************************)
THEOREM SharesExact == SharesSpec => []ExactShares
<1>1. IInv /\ SharesInv => ExactShares
  BY CycleExact DEF SharesInv, Turns, ExactShares
<1>2. QED
  BY <1>1, SharesInvariant, PTL

(***************************************************************************)
(* As long as selects follow one another, no backend is a whole request    *)
(* ahead of its exact share at any moment, not even in the middle of a     *)
(* select (weighted_round_robin.rs:50-72).                                 *)
(***************************************************************************)
THEOREM SharesLessThanOneAhead == SharesSpec => []LessThanOneAhead
<1>1. ASSUME IInv, SharesInv, sequential, NEW p \in DOMAIN credits
      PROVE  credits[p] > -CycleLength
  <2>1. p \in 1..Size
    <3>1. credits # <<>>
      BY <1>1
    <3>2. QED
      BY <1>1, <3>1 DEF SharesInv, Fixed
  <2>2. Base(p) > -CycleLength /\ Base(p) \in Int /\ Weigh(p) \in Nat /\ CycleLength \in Nat
    BY <1>1, <2>1, BaseFacts, CycleFacts DEF SharesInv, Turns, NoneAhead
  <2>3. credits[p] = Base(p) + IF HasAdded(p) THEN Weigh(p) ELSE 0
    BY <1>1 DEF SharesInv, Turns
  <2>4. QED
    BY <2>2, <2>3
<1>2. IInv /\ SharesInv => LessThanOneAhead
  BY <1>1 DEF LessThanOneAhead
<1>3. QED
  BY <1>2, SharesInvariant, PTL

(***************************************************************************)
(* As long as selects follow one another, a backend that shares the cycle  *)
(* does not get all its requests in a row (weighted_round_robin.rs:50-72). *)
(***************************************************************************)
THEOREM SharesNoBurst == SharesSpec => []NoBurst
<1>1. ASSUME IInv, SharesInv, sequential, NEW b \in rotation, NEW other \in rotation,
             b # other, WeightOf[b] > 1, WeightOf[other] > 0, Burst(b)
      PROVE  FALSE
  <2>1. /\ rotation \in SUBSET Backends /\ winners \in Seq(rotation)
        /\ CycleLength \in Nat /\ Len(winners) \in Nat /\ WeightOf[b] \in Nat
    BY <1>1, RotationFacts, CycleFacts, WeightAssumption DEF SharesInv, Tally, Counted
  <2>2. \A i \in 1..Len(winners) : Beats(winners, rotation, CycleLength, i)
    BY <1>1 DEF SharesInv, Turns
  <2>3. Count(winners, b, Len(winners)) <= WeightOf[b]
    BY <1>1, <2>1, NeverMore DEF SharesInv, Turns, Tally, Counted
  <2>4. \A o \in rotation \ {b} : WeightOf[b] + WeightOf[o] <= CycleLength
    BY <1>1, TwoInCycle
  <2>5. PICK n \in DOMAIN winners :
            \A k \in n .. (n + WeightOf[b] - 1) : k \in DOMAIN winners /\ winners[k] = b
    BY <1>1 DEF Burst
  <2>6. PICK m : m = n - 1
    OBVIOUS
  <2>7. n \in 1..Len(winners) /\ m \in Nat /\ m + 1 = n
    BY <2>1, <2>5, <2>6
  <2>8. m + WeightOf[b] = n + WeightOf[b] - 1
    BY <2>1, <2>6, <2>7
  <2>9. m + WeightOf[b] <= Len(winners)
    <3>1. n + WeightOf[b] - 1 \in n .. (n + WeightOf[b] - 1)
      BY <1>1, <2>1, <2>7
    <3>2. n + WeightOf[b] - 1 \in DOMAIN winners
      BY <2>5, <3>1
    <3>3. QED
      BY <2>1, <2>8, <3>2
  <2>10. \A k \in (m + 1)..(m + WeightOf[b]) : winners[k] = b
    BY <2>5, <2>7, <2>8
  <2>11. \E k \in (m + 1)..(m + WeightOf[b]) : winners[k] # b
    <3>1. PICK S, ws, W : S = rotation /\ ws = winners /\ W = CycleLength
      OBVIOUS
    <3>2. /\ S \in SUBSET Backends /\ ws \in Seq(S) /\ W \in Nat /\ b \in S /\ m \in Nat
          /\ other \in S /\ other # b /\ WeightOf[other] > 0 /\ WeightOf[b] > 1
      BY <1>1, <2>1, <2>7, <3>1
    <3>3. \A i \in 1..Len(ws) : Beats(ws, S, W, i)
      BY <2>2, <3>1
    <3>4. Count(ws, b, Len(ws)) <= WeightOf[b] /\ m + WeightOf[b] <= Len(ws)
      BY <2>3, <2>9, <3>1
    <3>5. \A o \in S \ {b} : WeightOf[b] + WeightOf[o] <= W
      BY <2>4, <3>1
    <3>6. \E k \in (m + 1)..(m + WeightOf[b]) : ws[k] # b
      BY <3>2, <3>3, <3>4, <3>5, NoRun
    <3>7. QED
      BY <3>1, <3>6
  <2>12. QED
    BY <2>10, <2>11
<1>2. IInv /\ SharesInv => NoBurst
  BY <1>1 DEF NoBurst
<1>3. QED
  BY <1>2, SharesInvariant, PTL

---------------------------------------------------------------------------------
(***************************************************************************)
(* Overlapping selects.  The trails are not variables: the invariant says  *)
(* that there are some with which every select in its loop is backed.  For *)
(* each step, of the call itself and of others, first what it does to one  *)
(* call with its trail, in numbers; then the trails after the step.        *)
(***************************************************************************)
\* A call in its loop over n positions, and what is known of it, in numbers.
Measured(c, w, e, R, g, n) ==
    /\ n \in Nat /\ R \in Nat /\ DOMAIN g = 1..n /\ c.pos \in 1..n /\ c.bestCredit \in Int
    /\ \A p \in 1..n : w[p] \in Int /\ g[p] \in Nat /\ e.took[p] \in Nat
    /\ e.total \in Nat /\ e.since \in Nat

\* The same at one position.
LEMMA MeasuredAt ==
    ASSUME NEW c, NEW w, NEW e, NEW R, NEW g, NEW n, Measured(c, w, e, R, g, n),
           NEW p \in DOMAIN g
    PROVE  /\ p \in 1..n /\ p \in Nat /\ p > 0
           /\ w[p] \in Int /\ g[p] \in Nat /\ e.took[p] \in Nat
           /\ R \in Nat /\ e.total \in Nat /\ e.since \in Nat /\ c.bestCredit \in Int
           /\ c.pos \in Nat /\ c.pos > 0 /\ c.pos \in DOMAIN g
<1>1. p \in 1..n /\ n \in Nat /\ c.pos \in 1..n
  BY DEF Measured
<1>2. p \in Nat /\ p > 0 /\ c.pos \in Nat /\ c.pos > 0 /\ c.pos \in DOMAIN g
  BY <1>1 DEF Measured
<1>3. QED
  BY <1>1, <1>2 DEF Measured

\* The loop starts.
LEMMA StartSteady ==
    ASSUME NEW c, NEW w, NEW e, NEW R, NEW g, NEW n, Measured(c, w, e, R, g, n),
           c.stage = "add", c.pos = 1, c.bestCredit = I64Min,
           \A p \in DOMAIN g : e.took[p] = 0, e.total = 0, e.since = 0,
           \E p \in DOMAIN g : w[p] + g[p] > 0
    PROVE  Steady(c, w, e, R, g)
<1>1. Scanned(c) = 0 /\ Added(c) = 0
  BY DEF Scanned, Added
<1>2. Fitting(c, e, g) /\ Remembering(c, w, e, R)
  BY <1>1 DEF Fitting, Remembering
<1>3. PICK p \in DOMAIN g : w[p] + g[p] > 0
  OBVIOUS
<1>4. p > 0 /\ p \in Nat /\ w[p] \in Int /\ g[p] \in Nat /\ R \in Nat /\ e.took[p] = 0
  BY MeasuredAt
<1>5. p > Scanned(c) /\ Coming(c, w, g, p) > -(R + e.took[p])
  BY <1>1, <1>3, <1>4 DEF Coming
<1>6. Promising(c, w, e, R, g)
  BY <1>5 DEF Promising, Ahead
<1>7. QED
  BY <1>2, <1>6 DEF Steady

\* The call adds a weight.
LEMMA AddSteady ==
    ASSUME NEW c, NEW d, NEW w, NEW x, NEW e, NEW R, NEW g, NEW n,
           Measured(c, w, e, R, g, n), Steady(c, w, e, R, g),
           c.stage = "add", d.stage = "compare", d.pos = c.pos, Same(c, d),
           x[c.pos] = w[c.pos] + g[c.pos], \A p \in DOMAIN g : p # c.pos => x[p] = w[p]
    PROVE  Steady(d, x, e, R, g)
<1>1. /\ Scanned(c) = c.pos - 1 /\ Added(c) = c.pos - 1
      /\ Scanned(d) = c.pos - 1 /\ Added(d) = c.pos
      /\ c.pos \in Nat /\ c.pos > 0
  BY DEF Scanned, Added, Measured
<1>2. Fitting(d, e, g)
  BY DEF Steady, Fitting, Same
<1>3. Promising(d, x, e, R, g)
  <2>1. CASE Ahead(c, w, e, R, g)
    <3>1. PICK p \in DOMAIN g : p > Scanned(c) /\ Coming(c, w, g, p) > -(R + e.took[p])
      BY <2>1 DEF Ahead
    <3>2. p \in Nat /\ w[p] \in Int /\ g[p] \in Nat /\ (p # c.pos => x[p] = w[p])
      BY MeasuredAt
    <3>3. Coming(d, x, g, p) = Coming(c, w, g, p)
      BY <1>1, <3>1, <3>2 DEF Coming
    <3>4. QED
      BY <1>1, <3>1, <3>3 DEF Promising, Ahead
  <2>2. CASE Scanned(c) # 0 /\ c.bestCredit > -(R + e.total - e.since)
    BY <1>1, <2>2 DEF Promising, Same
  <2>3. QED
    BY <2>1, <2>2 DEF Steady, Promising
<1>4. Remembering(d, x, e, R)
  <2>1. CASE Scanned(c) = 0
    BY <1>1, <2>1 DEF Steady, Remembering, Same
  <2>2. CASE Scanned(c) # 0
    <3>1. c.bestIndex \in 1..(c.pos - 1)
      BY <1>1, <2>2 DEF Steady, Remembering
    <3>2. c.bestIndex \in DOMAIN g /\ c.bestIndex # c.pos
      <4>1. n \in Nat /\ c.pos <= n /\ DOMAIN g = 1..n
        BY DEF Measured
      <4>2. QED
        BY <1>1, <3>1, <4>1
    <3>3. QED
      BY <1>1, <2>2, <3>2 DEF Steady, Remembering, Same
  <2>3. QED
    BY <2>1, <2>2
<1>5. QED
  BY <1>2, <1>3, <1>4 DEF Steady

\* The call compares.
LEMMA CompareSteady ==
    ASSUME NEW c, NEW d, NEW w, NEW e, NEW R, NEW g, NEW n,
           Measured(c, w, e, R, g, n), Steady(c, w, e, R, g),
           c.stage = "compare", Same(c, d), w[c.pos] > I64Min, I64Min \in Int,
           \/ w[c.pos] > c.bestCredit /\ d.stage = "take" /\ d.pos = c.pos
           \/ ~(w[c.pos] > c.bestCredit) /\ Moved(c, d)
    PROVE  Steady(d, w, e, R, g)
<1>1. /\ Scanned(c) = c.pos - 1 /\ Added(c) = c.pos
      /\ c.pos \in Nat /\ c.pos > 0 /\ c.pos \in DOMAIN g
  BY DEF Scanned, Added, Measured
<1>2. Fitting(d, e, g)
  BY DEF Steady, Fitting, Same
<1>3. /\ R \in Nat /\ e.total \in Nat /\ e.since \in Nat /\ c.bestCredit \in Int
      /\ w[c.pos] \in Int
  BY <1>1, MeasuredAt
<1>4. d.bestIndex = c.bestIndex /\ d.bestCredit = c.bestCredit
  BY DEF Same
<1>5. Ahead(c, w, e, R, g) \/ (Scanned(c) # 0 /\ c.bestCredit > -(R + e.total - e.since))
  BY DEF Steady, Promising
<1>6. CASE w[c.pos] > c.bestCredit /\ d.stage = "take" /\ d.pos = c.pos
  <2>1. Scanned(d) = c.pos - 1 /\ Added(d) = c.pos
    BY <1>6 DEF Scanned, Added
  <2>2. Ahead(c, w, e, R, g) => Ahead(d, w, e, R, g)
    BY <1>1, <2>1 DEF Ahead, Coming
  <2>3. c.bestCredit > -(R + e.total - e.since) => w[d.pos] > -(R + e.total)
    BY <1>3, <1>6
  <2>4. Promising(d, w, e, R, g)
    BY <1>5, <1>6, <2>2, <2>3 DEF Promising
  <2>5. Remembering(d, w, e, R)
    BY <1>1, <2>1 DEF Steady, Remembering, Same
  <2>6. QED
    BY <1>2, <2>4, <2>5 DEF Steady
<1>7. CASE ~(w[c.pos] > c.bestCredit) /\ Moved(c, d)
  <2>1. Scanned(d) = c.pos /\ Added(d) = c.pos /\ d.stage # "take"
    BY <1>1, <1>7, MovedFacts
  <2>2. Scanned(c) # 0
    BY <1>3, <1>7 DEF Steady, Remembering
  <2>3. c.bestIndex \in 1..(c.pos - 1)
    BY <1>1, <2>2 DEF Steady, Remembering
  <2>4. Ahead(c, w, e, R, g) => Promising(d, w, e, R, g)
    <3> SUFFICES ASSUME Ahead(c, w, e, R, g) PROVE Promising(d, w, e, R, g)
      OBVIOUS
    <3>1. PICK p \in DOMAIN g : p > Scanned(c) /\ Coming(c, w, g, p) > -(R + e.took[p])
      BY DEF Ahead
    <3>2. p \in Nat /\ w[p] \in Int /\ g[p] \in Nat /\ e.took[p] \in Nat
      BY MeasuredAt
    <3>3. CASE p > c.pos
      <4>1. Coming(d, w, g, p) = Coming(c, w, g, p)
        BY <1>1, <2>1 DEF Coming
      <4>2. QED
        BY <2>1, <3>1, <3>3, <4>1 DEF Promising, Ahead
    <3>4. CASE p = c.pos
      <4>1. p # c.bestIndex
        BY <1>1, <2>3, <3>4
      <4>2. e.took[p] + e.since <= e.total
        BY <4>1 DEF Steady, Fitting
      <4>3. w[p] > -(R + e.took[p])
        BY <1>1, <3>1, <3>4 DEF Coming
      <4>4. c.bestCredit > -(R + e.total - e.since)
        BY <1>3, <1>7, <3>2, <3>4, <4>2, <4>3
      <4>5. QED
        BY <1>1, <1>4, <2>1, <4>4 DEF Promising
    <3>5. QED
      BY <1>1, <3>1, <3>2, <3>3, <3>4
  <2>5. Promising(d, w, e, R, g)
    BY <1>1, <1>4, <1>5, <2>1, <2>4 DEF Promising
  <2>6. Remembering(d, w, e, R)
    BY <1>1, <1>4, <2>1, <2>2, <2>3 DEF Steady, Remembering
  <2>7. QED
    BY <1>2, <2>5, <2>6 DEF Steady
<1>8. QED
  BY <1>6, <1>7

\* The call takes a new best credit.
LEMMA TakeSteady ==
    ASSUME NEW c, NEW d, NEW w, NEW e, NEW f, NEW R, NEW g, NEW n,
           Measured(c, w, e, R, g, n), Steady(c, w, e, R, g),
           c.stage = "take", d.bestIndex = c.pos, d.bestCredit = w[c.pos], Moved(c, d),
           f.took = e.took, f.total = e.total, f.since = 0
    PROVE  Steady(d, w, f, R, g)
<1>1. /\ Scanned(c) = c.pos - 1 /\ Added(c) = c.pos
      /\ c.pos \in Nat /\ c.pos > 0 /\ c.pos \in DOMAIN g
      /\ Scanned(d) = c.pos /\ Added(d) = c.pos /\ d.stage # "take"
  <2>1. c.pos \in Nat /\ c.pos > 0 /\ c.pos \in DOMAIN g
    BY DEF Measured
  <2>2. QED
    BY <2>1, MovedFacts
<1>2. R \in Nat /\ e.total \in Nat /\ w[c.pos] \in Int
  BY <1>1, MeasuredAt
<1>3. \A p \in DOMAIN g : e.took[p] <= e.total /\ e.took[p] \in Nat
  BY MeasuredAt DEF Steady, Fitting
<1>4. Fitting(d, f, g)
  BY <1>2, <1>3 DEF Fitting
<1>5. Promising(d, w, f, R, g)
  <2>1. CASE w[c.pos] > -(R + e.total)
    BY <1>1, <1>2, <2>1 DEF Promising
  <2>2. CASE Ahead(c, w, e, R, g)
    <3>1. PICK p \in DOMAIN g : p > Scanned(c) /\ Coming(c, w, g, p) > -(R + e.took[p])
      BY <2>2 DEF Ahead
    <3>2. p \in Nat /\ w[p] \in Int /\ e.took[p] \in Nat /\ e.took[p] <= e.total
      BY <1>3, MeasuredAt
    <3>3. CASE p > c.pos
      <4>1. Coming(d, w, g, p) = Coming(c, w, g, p)
        BY <1>1 DEF Coming
      <4>2. QED
        BY <1>1, <3>1, <3>3, <4>1 DEF Promising, Ahead
    <3>4. CASE p = c.pos
      <4>1. w[p] > -(R + e.took[p])
        BY <1>1, <3>1, <3>4 DEF Coming
      <4>2. w[c.pos] > -(R + e.total)
        BY <1>2, <3>2, <3>4, <4>1
      <4>3. QED
        BY <2>1, <4>2
    <3>5. QED
      BY <1>1, <3>1, <3>2, <3>3, <3>4
  <2>3. QED
    BY <2>1, <2>2 DEF Steady, Promising
<1>6. Remembering(d, w, f, R)
  BY <1>1, <1>2 DEF Remembering
<1>7. QED
  BY <1>4, <1>5, <1>6 DEF Steady

\* The best credit of a call that has one is among those it has looked at.
LEMMA BestInRange ==
    ASSUME NEW c, NEW w, NEW e, NEW R, NEW g, NEW n,
           Measured(c, w, e, R, g, n), Steady(c, w, e, R, g), Scanned(c) \in 0..n,
           Scanned(c) # 0
    PROVE  /\ c.bestIndex \in DOMAIN g
           /\ w[c.bestIndex] >= c.bestCredit - e.since \/ w[c.bestIndex] > -(R + e.since)
<1>1. c.bestIndex \in 1..Scanned(c)
  BY DEF Steady, Remembering
<1>2. n \in Nat /\ DOMAIN g = 1..n
  BY DEF Measured
<1>3. QED
  BY <1>1, <1>2 DEF Steady, Remembering

\* Another call adds weights.
LEMMA GrowSteady ==
    ASSUME NEW c, NEW w, NEW x, NEW e, NEW R, NEW g, NEW n,
           Measured(c, w, e, R, g, n), Steady(c, w, e, R, g), Scanned(c) \in 0..n,
           \A p \in DOMAIN g : x[p] \in Int /\ w[p] <= x[p]
    PROVE  Steady(c, x, e, R, g)
<1>1. Ahead(c, w, e, R, g) => Ahead(c, x, e, R, g)
  <2> SUFFICES ASSUME Ahead(c, w, e, R, g) PROVE Ahead(c, x, e, R, g)
    OBVIOUS
  <2>1. PICK p \in DOMAIN g : p > Scanned(c) /\ Coming(c, w, g, p) > -(R + e.took[p])
    BY DEF Ahead
  <2>2. w[p] \in Int /\ g[p] \in Nat /\ e.took[p] \in Nat /\ R \in Nat
        /\ x[p] \in Int /\ w[p] <= x[p]
    BY MeasuredAt
  <2>3. Coming(c, x, g, p) > -(R + e.took[p])
    BY <2>1, <2>2 DEF Coming
  <2>4. QED
    BY <2>1, <2>3 DEF Ahead
<1>2. /\ R \in Nat /\ e.total \in Nat /\ e.since \in Nat /\ c.bestCredit \in Int
      /\ c.pos \in DOMAIN g /\ w[c.pos] \in Int
  BY DEF Measured
<1>3. Promising(c, x, e, R, g)
  <2>1. w[c.pos] > -(R + e.total) => x[c.pos] > -(R + e.total)
    BY <1>2
  <2>2. QED
    BY <1>1, <2>1 DEF Steady, Promising
<1>4. Remembering(c, x, e, R)
  <2>1. CASE Scanned(c) = 0
    BY <2>1 DEF Steady, Remembering
  <2>2. CASE Scanned(c) # 0
    <3> DEFINE b == c.bestIndex
    <3>1. b \in DOMAIN g /\ (w[b] >= c.bestCredit - e.since \/ w[b] > -(R + e.since))
      BY <2>2, BestInRange
    <3>2. w[b] \in Int /\ x[b] \in Int /\ w[b] <= x[b]
      BY <3>1, MeasuredAt
    <3>3. x[b] >= c.bestCredit - e.since \/ x[b] > -(R + e.since)
      BY <1>2, <3>1, <3>2
    <3>4. QED
      BY <2>2, <3>3 DEF Steady, Remembering
  <2>3. QED
    BY <2>1, <2>2
<1>5. QED
  BY <1>3, <1>4 DEF Steady

\* A select that was in the loop before takes C from the credit at q; the best is at b.
TakenFrom(w, x, e, f, g, q, b, C) ==
    /\ q \in DOMAIN g /\ x[q] = w[q] - C /\ \A p \in DOMAIN g : p # q => x[p] = w[p]
    /\ f.took[q] = e.took[q] + C /\ \A p \in DOMAIN g : p # q => f.took[p] = e.took[p]
    /\ f.total = e.total + C /\ f.since = IF q = b THEN e.since + C ELSE e.since

LEMMA OlderSteady ==
    ASSUME NEW c, NEW w, NEW x, NEW e, NEW f, NEW R, NEW P, NEW g, NEW n, NEW q, NEW C \in Nat,
           Measured(c, w, e, R, g, n), Steady(c, w, e, R, g), Scanned(c) \in 0..n,
           P \in Nat, R <= P, TakenFrom(w, x, e, f, g, q, c.bestIndex, C)
    PROVE  Steady(c, x, f, P, g)
<1> USE DEF TakenFrom
<1>1. /\ R \in Nat /\ e.total \in Nat /\ e.since \in Nat /\ c.bestCredit \in Int
      /\ c.pos \in DOMAIN g
  BY DEF Measured
<1>2. e.since <= e.total /\ f.since <= f.total /\ f.since \in Nat /\ f.total \in Nat
  BY <1>1 DEF Steady, Fitting
<1>3. ASSUME NEW p \in DOMAIN g
      PROVE  /\ w[p] \in Int /\ g[p] \in Nat /\ e.took[p] \in Nat /\ f.took[p] \in Nat
             /\ x[p] \in Int /\ x[p] + f.took[p] = w[p] + e.took[p]
             /\ x[p] = w[p] \/ x[p] = w[p] - C
             /\ f.took[p] <= f.total
             /\ p # c.bestIndex => f.took[p] + f.since <= f.total
  <2>1. w[p] \in Int /\ g[p] \in Nat /\ e.took[p] \in Nat
    BY MeasuredAt
  <2>2. e.took[p] <= e.total /\ (p # c.bestIndex => e.took[p] + e.since <= e.total)
    BY DEF Steady, Fitting
  <2>3. CASE p = q
    BY <1>1, <1>2, <2>1, <2>2, <2>3
  <2>4. CASE p # q
    BY <1>1, <1>2, <2>1, <2>2, <2>4
  <2>5. QED
    BY <2>3, <2>4
<1>4. Fitting(c, f, g)
  BY <1>2, <1>3 DEF Fitting
<1>5. Ahead(c, w, e, R, g) => Ahead(c, x, f, P, g)
  <2> SUFFICES ASSUME Ahead(c, w, e, R, g) PROVE Ahead(c, x, f, P, g)
    OBVIOUS
  <2>1. PICK p \in DOMAIN g : p > Scanned(c) /\ Coming(c, w, g, p) > -(R + e.took[p])
    BY DEF Ahead
  <2>2. /\ w[p] \in Int /\ g[p] \in Nat /\ e.took[p] \in Nat /\ f.took[p] \in Nat
        /\ x[p] \in Int /\ x[p] + f.took[p] = w[p] + e.took[p]
    BY <1>3
  <2>3. Coming(c, x, g, p) > -(P + f.took[p])
    BY <1>1, <2>1, <2>2 DEF Coming
  <2>4. QED
    BY <2>1, <2>3 DEF Ahead
<1>6. Promising(c, x, f, P, g)
  <2>1. w[c.pos] > -(R + e.total) => x[c.pos] > -(P + f.total)
    <3>1. w[c.pos] \in Int /\ (x[c.pos] = w[c.pos] \/ x[c.pos] = w[c.pos] - C)
      BY <1>1, <1>3
    <3>2. QED
      BY <1>1, <3>1
  <2>2. c.bestCredit > -(R + e.total - e.since) => c.bestCredit > -(P + f.total - f.since)
    BY <1>1
  <2>3. QED
    BY <1>5, <2>1, <2>2 DEF Steady, Promising
<1>7. Remembering(c, x, f, P)
  <2>1. CASE Scanned(c) = 0
    BY <2>1 DEF Steady, Remembering
  <2>2. CASE Scanned(c) # 0
    <3> DEFINE b == c.bestIndex
    <3>1. b \in DOMAIN g /\ (w[b] >= c.bestCredit - e.since \/ w[b] > -(R + e.since))
      BY <2>2, BestInRange
    <3>2. w[b] \in Int /\ x[b] + f.since = w[b] + e.since /\ x[b] \in Int
      <4>1. w[b] \in Int /\ x[b] \in Int
        BY <1>3, <3>1
      <4>2. CASE b = q
        BY <1>1, <3>1, <4>1, <4>2
      <4>3. CASE b # q
        BY <1>1, <3>1, <4>1, <4>3
      <4>4. QED
        BY <4>2, <4>3
    <3>3. x[b] >= c.bestCredit - f.since \/ x[b] > -(P + f.since)
      BY <1>1, <1>2, <3>1, <3>2
    <3>4. QED
      BY <2>2, <3>3 DEF Steady, Remembering
  <2>3. QED
    BY <2>1, <2>2
<1>8. QED
  BY <1>4, <1>6, <1>7 DEF Steady

\* A select that started later leaves the credit at q above -P.
LeftAbove(w, x, e, f, g, q, P) ==
    /\ q \in DOMAIN g /\ x[q] \in Int /\ x[q] > -P /\ \A p \in DOMAIN g : p # q => x[p] = w[p]
    /\ f.took = e.took /\ f.total = e.total /\ f.since = e.since

LEMMA YoungerSteady ==
    ASSUME NEW c, NEW w, NEW x, NEW e, NEW f, NEW R, NEW P, NEW g, NEW n, NEW q,
           Measured(c, w, e, R, g, n), Steady(c, w, e, R, g), Scanned(c) \in 0..n,
           P \in Nat, R <= P, LeftAbove(w, x, e, f, g, q, P)
    PROVE  Steady(c, x, f, P, g)
<1> USE DEF LeftAbove
<1>1. /\ R \in Nat /\ e.total \in Nat /\ e.since \in Nat /\ c.bestCredit \in Int
      /\ c.pos \in DOMAIN g
  BY DEF Measured
<1>2. Fitting(c, f, g)
  BY DEF Steady, Fitting
<1>3. ASSUME NEW p \in DOMAIN g
      PROVE  /\ w[p] \in Int /\ g[p] \in Nat /\ e.took[p] \in Nat /\ x[p] \in Int
             /\ x[p] = w[p] \/ x[p] > -P
  BY MeasuredAt
<1>4. Ahead(c, w, e, R, g) => Ahead(c, x, f, P, g)
  <2> SUFFICES ASSUME Ahead(c, w, e, R, g) PROVE Ahead(c, x, f, P, g)
    OBVIOUS
  <2>1. PICK p \in DOMAIN g : p > Scanned(c) /\ Coming(c, w, g, p) > -(R + e.took[p])
    BY DEF Ahead
  <2>2. /\ w[p] \in Int /\ g[p] \in Nat /\ e.took[p] \in Nat /\ x[p] \in Int
        /\ x[p] = w[p] \/ x[p] > -P
    BY <1>3
  <2>3. Coming(c, x, g, p) > -(P + e.took[p])
    BY <1>1, <2>1, <2>2 DEF Coming
  <2>4. QED
    BY <2>1, <2>3 DEF Ahead
<1>5. Promising(c, x, f, P, g)
  <2>1. w[c.pos] > -(R + e.total) => x[c.pos] > -(P + e.total)
    <3>1. w[c.pos] \in Int /\ x[c.pos] \in Int /\ (x[c.pos] = w[c.pos] \/ x[c.pos] > -P)
      BY <1>1, <1>3
    <3>2. QED
      BY <1>1, <3>1
  <2>2. c.bestCredit > -(R + e.total - e.since) => c.bestCredit > -(P + e.total - e.since)
    BY <1>1
  <2>3. QED
    BY <1>4, <2>1, <2>2 DEF Steady, Promising
<1>6. Remembering(c, x, f, P)
  <2>1. CASE Scanned(c) = 0
    BY <2>1 DEF Steady, Remembering
  <2>2. CASE Scanned(c) # 0
    <3> DEFINE b == c.bestIndex
    <3>1. b \in DOMAIN g /\ (w[b] >= c.bestCredit - e.since \/ w[b] > -(R + e.since))
      BY <2>2, BestInRange
    <3>2. w[b] \in Int /\ x[b] \in Int /\ (x[b] = w[b] \/ x[b] > -P)
      BY <1>3, <3>1
    <3>3. x[b] >= c.bestCredit - e.since \/ x[b] > -(P + e.since)
      BY <1>1, <3>1, <3>2
    <3>4. QED
      BY <2>2, <3>3 DEF Steady, Remembering
  <2>3. QED
    BY <2>1, <2>2
<1>7. QED
  BY <1>2, <1>5, <1>6 DEF Steady

\* What a select returns has not fallen far.
LEMMA SteadyReturns ==
    ASSUME NEW c, NEW w, NEW e, NEW R, NEW g, NEW n,
           Measured(c, w, e, R, g, n), Steady(c, w, e, R, g),
           c.stage = "subtract", c.pos = n
    PROVE  c.bestIndex \in 1..n /\ w[c.bestIndex] > -(R + e.total)
<1>1. Scanned(c) = n /\ n # 0 /\ n \in Nat /\ DOMAIN g = 1..n
  BY DEF Scanned, Measured
<1>2. /\ c.bestIndex \in DOMAIN g
      /\ w[c.bestIndex] >= c.bestCredit - e.since \/ w[c.bestIndex] > -(R + e.since)
  BY <1>1, BestInRange
<1>3. c.bestCredit > -(R + e.total - e.since)
  <2>1. ASSUME NEW p \in DOMAIN g, p > n PROVE FALSE
    BY <1>1, <2>1
  <2>2. ~Ahead(c, w, e, R, g)
    BY <1>1, <2>1 DEF Ahead
  <2>3. QED
    BY <2>2 DEF Steady, Promising
<1>4. e.since <= e.total
  BY DEF Steady, Fitting
<1>5. /\ w[c.bestIndex] \in Int /\ R \in Nat /\ e.total \in Nat /\ e.since \in Nat
      /\ c.bestCredit \in Int
  BY <1>2, MeasuredAt
<1>6. w[c.bestIndex] > -(R + e.total)
  <2>1. PICK a, B, m, d \in Int : a = w[c.bestIndex] /\ B = c.bestCredit /\ m = e.total /\ d = e.since
    BY <1>5
  <2>2. (a >= B - d \/ a > -(R + d)) /\ B > -(R + m - d) /\ d <= m
    BY <1>2, <1>3, <1>4, <2>1
  <2>3. a > -(R + m)
    BY <1>5, <2>2
  <2>4. QED
    BY <2>1, <2>3
<1>7. QED
  BY <1>1, <1>2, <1>6

\* Of the triangular numbers.
LEMMA TriangleFacts ==
    /\ \A d \in Nat : Triangle(d) \in Nat /\ 2 * Triangle(d) = d * (d + 1)
    /\ \A d \in Nat : Triangle(d + 1) = Triangle(d) + d + 1
    /\ \A d, k \in Nat : d <= k => Triangle(d) <= Triangle(k)
<1> DEFINE P == {d \in Nat : Triangle(d) \in Nat /\ 2 * Triangle(d) = d * (d + 1)}
<1>1. 0 \in P
  BY DEF Triangle
<1>2. ASSUME NEW d \in Nat, d \in P
      PROVE  /\ d + 1 \in P /\ Triangle(d + 1) = Triangle(d) + d + 1
  <2>1. PICK m \in Nat : m = Triangle(d) /\ 2 * m = d * (d + 1)
    BY <1>2
  <2>2. (d + 1) * ((d + 1) + 1) = 2 * (m + d + 1)
    <3>1. (d + 1) * ((d + 1) + 1) = d * (d + 1) + 2 * (d + 1)
      OBVIOUS
    <3>2. ASSUME NEW a \in Int, NEW b \in Int, b = a + 2 * (d + 1), 2 * m = a
          PROVE  b = 2 * (m + d + 1)
      BY <3>2
    <3>3. d * (d + 1) \in Int /\ (d + 1) * ((d + 1) + 1) \in Int
      OBVIOUS
    <3>4. QED
      BY <2>1, <3>1, <3>2, <3>3
  <2>3. (2 * (m + d + 1)) \div 2 = m + d + 1
    BY <2>1
  <2>4. Triangle(d + 1) = m + d + 1
    BY <2>2, <2>3 DEF Triangle
  <2>5. QED
    BY <2>1, <2>2, <2>4
<1>3. Nat \subseteq P
  <2>1. \A d \in Nat : d \in P => d + 1 \in P
    BY <1>2
  <2> HIDE DEF P
  <2>2. QED
    BY <1>1, <2>1, NumberInduction
<1>4. \A d \in Nat : Triangle(d + 1) = Triangle(d) + d + 1
  BY <1>2, <1>3
<1>5. ASSUME NEW d \in Nat, NEW k \in Nat, d <= k PROVE Triangle(d) <= Triangle(k)
  <2>1. PICK a, b \in Nat : a = Triangle(d) /\ b = Triangle(k)
    BY <1>3
  <2>2. 2 * a = d * (d + 1) /\ 2 * b = k * (k + 1)
    BY <1>3, <2>1
  <2>3. d * (d + 1) <= k * (k + 1)
    BY <1>5
  <2>4. QED
    BY <2>1, <2>2, <2>3
<1>6. QED
  BY <1>3, <1>4, <1>5

\* What is needed of the reach: it grows by as many cycles as it is long.
LEMMA ReachFacts ==
    ASSUME IInv
    PROVE  /\ \A d \in Nat : Reach(d) \in Nat /\ 2 * Reach(d) = d * (d + 1) * CycleLength
           /\ \A d \in Nat : Reach(d + 1) = Reach(d) + d * CycleLength + CycleLength
           /\ \A d, k \in Nat : d <= k => Reach(d) <= Reach(k)
<1>1. PICK C \in Nat : C = CycleLength
  BY CycleFacts
<1>2. \A d \in Nat : Triangle(d) \in Nat /\ Reach(d) = Triangle(d) * C
  BY <1>1, TriangleFacts DEF Reach
<1>3. ASSUME NEW d \in Nat PROVE Reach(d) \in Nat /\ 2 * Reach(d) = d * (d + 1) * C
  <2>1. PICK m \in Nat : m = Triangle(d) /\ 2 * m = d * (d + 1) /\ Reach(d) = m * C
    BY <1>2, TriangleFacts
  <2>2. m * C \in Nat /\ 2 * (m * C) = (2 * m) * C
    OBVIOUS
  <2>3. QED
    BY <2>1, <2>2
<1>4. ASSUME NEW d \in Nat PROVE Reach(d + 1) = Reach(d) + d * C + C
  <2>1. PICK m \in Nat : m = Triangle(d)
    BY <1>2
  <2>2. Reach(d) = m * C /\ Reach(d + 1) = (m + d + 1) * C
    <3>1. d + 1 \in Nat /\ Triangle(d + 1) = m + d + 1
      BY <2>1, TriangleFacts
    <3>2. QED
      BY <1>2, <2>1, <3>1
  <2>3. (m + d + 1) * C = m * C + d * C + C
    OBVIOUS
  <2>4. QED
    BY <2>2, <2>3
<1>5. ASSUME NEW d \in Nat, NEW k \in Nat, d <= k PROVE Reach(d) <= Reach(k)
  <2>1. PICK m, l \in Nat : m <= l /\ Reach(d) = m * C /\ Reach(k) = l * C
    BY <1>2, <1>5, TriangleFacts
  <2>2. m * C <= l * C
    BY <2>1
  <2>3. QED
    BY <2>1, <2>2
<1>6. QED
  BY <1>1, <1>3, <1>4, <1>5

\* No step of a select changes the rotation.
LEMMA SameRotation ==
    ASSUME rotation' = rotation
    PROVE  /\ Order' = Order /\ Size' = Size /\ CycleLength' = CycleLength
           /\ Weights' = Weights /\ Trail' = Trail /\ \A d : Reach(d)' = Reach(d)
<1>1. Order' = Order /\ Size' = Size /\ CycleLength' = CycleLength
  BY DEF Order, Size, CycleLength
<1>2. \A p : Weigh(p)' = Weigh(p)
  BY <1>1 DEF Weigh
<1>3. QED
  BY <1>1, <1>2 DEF Weights, Trail, Reach

\* The parts of a trail.
LEMMA TrailFacts ==
    ASSUME NEW h \in [Callers -> Trail], NEW u \in Callers
    PROVE  /\ h[u] \in Trail /\ h[u].before \subseteq Callers /\ h[u].over \subseteq Callers
           /\ h[u].took \in [1..Size -> Nat] /\ h[u].total \in Nat /\ h[u].since \in Nat
           /\ IsFiniteSet(h[u].over) /\ Cardinality(h[u].over) \in Nat
<1>1. h[u] \in Trail
  OBVIOUS
<1>2. h[u].over \subseteq Callers
  BY <1>1 DEF Trail
<1>3. IsFiniteSet(h[u].over) /\ Cardinality(h[u].over) \in Nat
  BY <1>2, FS_Subset, FS_CardinalityType, WeightAssumption
<1>4. QED
  BY <1>1, <1>3 DEF Trail

\* The reach of a select with trail e.
Depth(e) == Reach(Cardinality(e.over))

\* A call in its loop, in numbers.
LEMMA RunningFacts ==
    ASSUME IInv, Fixed, NEW h \in [Callers -> Trail], NEW u \in Callers, Running(u)
    PROVE  /\ Measured(call[u], credits, h[u], Depth(h[u]), Weights, Size)
           /\ Scanned(call[u]) \in 0..Size /\ call[u].slice = Order
           /\ DOMAIN credits = 1..Size /\ DOMAIN Weights = 1..Size /\ credits # <<>>
<1>1. /\ call[u] \in Call /\ Fits(call[u], credits)
      /\ call[u].stage \in Looping \cup {"subtract"}
  BY CallFacts DEF Running, Looping
<1>2. call[u].slice = Order /\ credits # <<>> /\ call[u].pos \in DOMAIN Order
  BY <1>1 DEF Fixed, Fits, Looping
<1>3. DOMAIN credits = 1..Size /\ Size \in Nat /\ call[u].pos \in 1..Size
  BY <1>2, OrderFacts DEF Fixed
<1>4. DOMAIN Weights = 1..Size /\ \A p \in 1..Size : Weights[p] \in Nat
  BY CycleFacts DEF Weights
<1>5. \A p \in 1..Size : credits[p] \in Int
  BY <1>3, CreditsAreInts
<1>6. Depth(h[u]) \in Nat
  BY TrailFacts, ReachFacts DEF Depth
<1>7. /\ h[u].total \in Nat /\ h[u].since \in Nat
      /\ \A p \in 1..Size : h[u].took[p] \in Nat
  BY TrailFacts
<1>8. call[u].bestCredit \in Int
  BY <1>1 DEF Call
<1>9. Measured(call[u], credits, h[u], Depth(h[u]), Weights, Size)
  BY <1>3, <1>4, <1>5, <1>6, <1>7, <1>8 DEF Measured
<1>10. Scanned(call[u]) \in 0..Size
  BY <1>3 DEF Scanned
<1>11. QED
  BY <1>2, <1>3, <1>4, <1>9, <1>10

\* DriftBounded, with half the factor.
Within == \A p \in DOMAIN credits : credits[p] > -Reach(Cardinality(Callers))

\* The trails keep what Ordered says of them.
Alike(e, f) == f.before = e.before /\ f.over = e.over /\ f.total = e.total

LEMMA OrderedKept ==
    ASSUME NEW h, NEW k, Ordered(h), rotation' = rotation,
           \A u \in Callers : (Running(u)' <=> Running(u)) /\ Alike(h[u], k[u])
    PROVE  Ordered(k)'
<1>1. CycleLength' = CycleLength
  BY SameRotation
<1>2. QED
  BY <1>1 DEF Ordered, Alike

\* A select that t is not running: t only added weights to the credits.
LEMMA OthersBacked ==
    ASSUME IInv, Fixed, NEW h \in [Callers -> Trail], Backed(h), rotation' = rotation,
           DOMAIN credits' = DOMAIN credits,
           \A p \in DOMAIN credits : credits'[p] \in Int /\ credits[p] <= credits'[p],
           NEW u \in Callers, Running(u), call'[u] = call[u]
    PROVE  /\ Steady(call[u], credits', h[u], Depth(h[u]), Weights)
           /\ call[u].stage = "subtract" => call[u].pos = Size
<1>1. /\ Steady(call[u], credits, h[u], Depth(h[u]), Weights)
      /\ call[u].stage = "subtract" => call[u].pos = Size
  BY DEF Backed, Depth
<1>2. /\ Measured(call[u], credits, h[u], Depth(h[u]), Weights, Size)
      /\ Scanned(call[u]) \in 0..Size /\ DOMAIN credits = DOMAIN Weights
  BY RunningFacts
<1>3. \A p \in DOMAIN Weights : credits'[p] \in Int /\ credits[p] <= credits'[p]
  BY <1>2
<1>4. Steady(call[u], credits', h[u], Depth(h[u]), Weights)
  BY <1>1, <1>2, <1>3, GrowSteady
<1>5. QED
  BY <1>1, <1>4

\* A step of t in its loop that takes nothing from a credit.
LEMMA LoopKeeps ==
    ASSUME IInv, Fixed, Within, NEW h \in [Callers -> Trail], Ordered(h), Backed(h),
           NEW t \in Callers, Running(t), Running(t)', Work(t),
           NEW k \in [Callers -> Trail], \A u \in Callers : Alike(h[u], k[u]),
           \A u \in Callers \ {t} : k[u] = h[u],
           DOMAIN credits' = DOMAIN credits,
           \A p \in DOMAIN credits : credits'[p] \in Int /\ credits[p] <= credits'[p],
           Steady(call'[t], credits', k[t], Depth(h[t]), Weights),
           call'[t].stage = "subtract" => call'[t].pos = Size
    PROVE  Within' /\ Ordered(k)' /\ Backed(k)'
<1>1. rotation' = rotation /\ \A u \in Callers \ {t} : call'[u] = call[u]
  BY Frame
<1>2. /\ Size' = Size /\ Weights' = Weights /\ \A d : Reach(d)' = Reach(d)
  BY <1>1, SameRotation
<1>3. \A u \in Callers : Running(u)' <=> Running(u)
  BY <1>1 DEF Running
<1>4. Ordered(k)'
  BY <1>1, <1>3, OrderedKept
<1>5. ASSUME NEW u \in Callers, Running(u)
      PROVE  /\ Steady(call'[u], credits', k[u], Depth(k[u]), Weights)
             /\ call'[u].stage = "subtract" => call'[u].pos = Size
  <2>1. CASE u = t
    <3>1. k[t].over = h[t].over
      BY DEF Alike
    <3>2. Depth(k[t]) = Depth(h[t])
      BY <3>1 DEF Depth
    <3>3. QED
      BY <2>1, <3>2
  <2>2. CASE u # t
    <3>1. call'[u] = call[u] /\ k[u] = h[u]
      BY <1>1, <2>2
    <3>2. QED
      BY <1>1, <1>5, <3>1, OthersBacked
  <2>3. QED
    BY <2>1, <2>2
<1>6. Backed(k)'
  BY <1>2, <1>3, <1>5 DEF Backed, Depth
<1>7. Within'
  <2>1. PICK r \in Nat : r = Reach(Cardinality(Callers))
    BY ReachFacts, FS_CardinalityType, WeightAssumption
  <2>2. ASSUME NEW p \in DOMAIN credits PROVE credits'[p] > -r
    <3>1. credits[p] > -r /\ credits[p] \in Int /\ credits'[p] \in Int /\ credits[p] <= credits'[p]
      BY <2>1, CreditsAreInts DEF Within
    <3>2. QED
      BY <3>1
  <2>3. Reach(Cardinality(Callers))' = r
    BY <1>2, <2>1
  <2>4. QED
    BY <2>2, <2>3 DEF Within
<1>8. QED
  BY <1>4, <1>6, <1>7

\* The inductive invariant, with trails h.
Drifts(h) == Within /\ h \in [Callers -> Trail] /\ Ordered(h) /\ Backed(h)

\* Step by step: adding a weight,
LEMMA AddDrifts ==
    ASSUME IInv, Fixed, NEW h \in [Callers -> Trail], Drifts(h), NEW t \in Callers, AddWeight(t)
    PROVE  Drifts(h)'
<1>1. h \in [Callers -> Trail] /\ Ordered(h) /\ Backed(h)
  BY DEF Drifts
<1>2. /\ call[t].stage = "add" /\ call'[t].stage = "compare" /\ call'[t].pos = call[t].pos
      /\ Same(call[t], call'[t]) /\ call[t].pos \in DOMAIN credits
      /\ credits' = [credits EXCEPT ![call[t].pos] = @ + Weigh(call[t].pos)]
  BY AddWeightDoes
<1>3. Running(t) /\ Running(t)' /\ Work(t)
  BY <1>2 DEF Running, Work
<1>4. /\ Measured(call[t], credits, h[t], Depth(h[t]), Weights, Size)
      /\ Scanned(call[t]) \in 0..Size
      /\ DOMAIN credits = 1..Size /\ DOMAIN Weights = 1..Size
  BY <1>3, RunningFacts
<1>5. Weights[call[t].pos] = Weigh(call[t].pos)
  BY <1>2, <1>4 DEF Weights
<1>6. /\ DOMAIN credits' = DOMAIN credits
      /\ credits'[call[t].pos] = credits[call[t].pos] + Weights[call[t].pos]
      /\ \A p \in DOMAIN credits : p # call[t].pos => credits'[p] = credits[p]
  BY <1>2, <1>5
<1>7. \A p \in DOMAIN credits : credits[p] \in Int /\ Weights[p] \in Nat
  BY <1>4, CreditsAreInts DEF Measured
<1>8. \A p \in DOMAIN credits : credits'[p] \in Int /\ credits[p] <= credits'[p]
  <2> SUFFICES ASSUME NEW p \in DOMAIN credits
               PROVE  credits'[p] \in Int /\ credits[p] <= credits'[p]
    OBVIOUS
  <2>1. CASE p = call[t].pos
    BY <1>6, <1>7, <2>1
  <2>2. CASE p # call[t].pos
    BY <1>6, <1>7, <2>2
  <2>3. QED
    BY <2>1, <2>2
<1>9. Steady(call[t], credits, h[t], Depth(h[t]), Weights)
  BY <1>1, <1>3 DEF Backed, Depth
<1>10. Steady(call'[t], credits', h[t], Depth(h[t]), Weights)
  <2>1. \A p \in DOMAIN Weights : p # call[t].pos => credits'[p] = credits[p]
    BY <1>4, <1>6
  <2>2. QED
    BY <1>2, <1>4, <1>6, <1>9, <2>1, AddSteady
<1>11. \A u \in Callers : Alike(h[u], h[u])
  BY DEF Alike
<1>12. Within' /\ Ordered(h)' /\ Backed(h)'
  BY <1>1, <1>2, <1>3, <1>6, <1>8, <1>10, <1>11, LoopKeeps DEF Drifts
<1>13. Trail' = Trail
  BY <1>3, Frame, SameRotation
<1>14. QED
  BY <1>12, <1>13 DEF Drifts

\* No credit gets as low as the value that the best credit starts from.
LEMMA LowestCredit ==
    ASSUME IInv
    PROVE  I64Min \in Int /\ I64Min <= -Reach(Cardinality(Callers))
<1> DEFINE k == Cardinality(Callers)
<1>1. k \in Nat /\ I64Min \in Int
  BY FS_CardinalityType, WeightAssumption
<1>2. 2 * I64Min <= -(k * (k + 1) * CycleLength)
  BY RotationFacts, DriftAssumption DEF CycleLength
<1>3. Reach(k) \in Nat /\ 2 * Reach(k) = k * (k + 1) * CycleLength
  BY <1>1, ReachFacts
<1> HIDE DEF k
<1>4. ASSUME NEW r \in Nat, NEW a, 2 * r = a, 2 * I64Min <= -a PROVE I64Min <= -r
  BY <1>1, <1>4
<1>5. I64Min <= -Reach(k)
  BY <1>2, <1>3, <1>4
<1>6. QED
  BY <1>1, <1>5 DEF k

\* comparing,
LEMMA CompareDrifts ==
    ASSUME IInv, Fixed, NEW h \in [Callers -> Trail], Drifts(h), NEW t \in Callers, Compare(t)
    PROVE  Drifts(h)'
<1>1. h \in [Callers -> Trail] /\ Ordered(h) /\ Backed(h)
  BY DEF Drifts
<1>2. /\ call[t].stage = "compare" /\ credits' = credits /\ Same(call[t], call'[t])
      /\ \/ credits[call[t].pos] > call[t].bestCredit
            /\ call'[t].stage = "take" /\ call'[t].pos = call[t].pos
         \/ ~(credits[call[t].pos] > call[t].bestCredit) /\ Moved(call[t], call'[t])
  BY CompareDoes
<1>3. Running(t) /\ Running(t)' /\ Work(t)
  BY <1>2 DEF Running, Work, Moved
<1>4. /\ Measured(call[t], credits, h[t], Depth(h[t]), Weights, Size)
      /\ call[t].slice = Order
      /\ DOMAIN credits = 1..Size /\ DOMAIN Weights = 1..Size
  BY <1>3, RunningFacts
<1>5. call[t].pos \in DOMAIN credits
  BY <1>4 DEF Measured
<1>6. credits[call[t].pos] > I64Min /\ I64Min \in Int
  <2>1. PICK r \in Nat : r = Reach(Cardinality(Callers))
    BY ReachFacts, FS_CardinalityType, WeightAssumption
  <2>2. credits[call[t].pos] > -r /\ credits[call[t].pos] \in Int
    BY <1>5, <2>1, CreditsAreInts DEF Drifts, Within
  <2>3. I64Min <= -r /\ I64Min \in Int
    BY <2>1, LowestCredit
  <2>4. QED
    BY <2>2, <2>3
<1>7. Steady(call[t], credits, h[t], Depth(h[t]), Weights)
  BY <1>1, <1>3 DEF Backed, Depth
<1>8. Steady(call'[t], credits', h[t], Depth(h[t]), Weights)
  BY <1>2, <1>4, <1>6, <1>7, CompareSteady
<1>9. call'[t].stage = "subtract" => call'[t].pos = Size
  BY <1>2, <1>4 DEF Moved, Size
<1>10. \A u \in Callers : Alike(h[u], h[u])
  BY DEF Alike
<1>11. \A p \in DOMAIN credits : credits'[p] \in Int /\ credits[p] <= credits'[p]
  BY <1>2, CreditsAreInts
<1>12. Within' /\ Ordered(h)' /\ Backed(h)'
  BY <1>1, <1>2, <1>3, <1>8, <1>9, <1>10, <1>11, LoopKeeps DEF Drifts
<1>13. Trail' = Trail
  BY <1>3, Frame, SameRotation
<1>14. QED
  BY <1>12, <1>13 DEF Drifts

\* taking a new best credit,
LEMMA TakeDrifts ==
    ASSUME IInv, Fixed, NEW h \in [Callers -> Trail], Drifts(h), NEW t \in Callers, Take(t),
           NEW k, k = Chosen(h, t)
    PROVE  Drifts(k)'
<1>1. h \in [Callers -> Trail] /\ Ordered(h) /\ Backed(h)
  BY DEF Drifts
<1>2. /\ call[t].stage = "take" /\ credits' = credits
      /\ call'[t].bestIndex = call[t].pos /\ call'[t].bestCredit = credits[call[t].pos]
      /\ Moved(call[t], call'[t])
  BY TakeDoes
<1>3. Running(t) /\ Running(t)' /\ Work(t)
  BY <1>2 DEF Running, Work, Moved
<1>4. /\ Measured(call[t], credits, h[t], Depth(h[t]), Weights, Size)
      /\ call[t].slice = Order
      /\ DOMAIN credits = 1..Size /\ DOMAIN Weights = 1..Size
  BY <1>3, RunningFacts
<1>5. /\ k \in [Callers -> Trail] /\ \A u \in Callers \ {t} : k[u] = h[u]
      /\ k[t].took = h[t].took /\ k[t].total = h[t].total /\ k[t].since = 0
      /\ \A u \in Callers : Alike(h[u], k[u])
  <2>1. PICK e \in Trail : e = h[t]
    OBVIOUS
  <2>2. k = [h EXCEPT ![t] = [e EXCEPT !.since = 0]]
    BY <2>1 DEF Chosen
  <2>3. /\ [e EXCEPT !.since = 0] \in Trail /\ Alike(e, [e EXCEPT !.since = 0])
        /\ [e EXCEPT !.since = 0].took = e.took /\ [e EXCEPT !.since = 0].since = 0
        /\ [e EXCEPT !.since = 0].total = e.total
    BY DEF Trail, Alike
  <2>4. QED
    BY <2>1, <2>2, <2>3 DEF Alike
<1>6. Steady(call[t], credits, h[t], Depth(h[t]), Weights)
  BY <1>1, <1>3 DEF Backed, Depth
<1>7. Steady(call'[t], credits', k[t], Depth(h[t]), Weights)
  BY <1>2, <1>4, <1>5, <1>6, TakeSteady
<1>8. call'[t].stage = "subtract" => call'[t].pos = Size
  BY <1>2, <1>4 DEF Moved, Size
<1>9. \A p \in DOMAIN credits : credits'[p] \in Int /\ credits[p] <= credits'[p]
  BY <1>2, CreditsAreInts
<1>10. Within' /\ Ordered(k)' /\ Backed(k)'
  BY <1>1, <1>2, <1>3, <1>5, <1>7, <1>8, <1>9, LoopKeeps DEF Drifts
<1>11. Trail' = Trail
  BY <1>3, Frame, SameRotation
<1>12. QED
  BY <1>5, <1>10, <1>11 DEF Drifts

\* taking the slice,
LEMMA SelectDrifts ==
    ASSUME IInv, Fixed, NEW h \in [Callers -> Trail], Drifts(h), NEW t \in Callers, Select(t)
    PROVE  Drifts(h)'
<1>1. h \in [Callers -> Trail] /\ Ordered(h) /\ Backed(h)
  BY DEF Drifts
<1>2. /\ call[t].stage = "idle" /\ call'[t].stage = "init" /\ credits' = credits
      /\ rotation' = rotation /\ \A u \in Callers \ {t} : call'[u] = call[u]
  BY SelectDoes, Frame DEF Work
<1>3. /\ Size' = Size /\ Weights' = Weights /\ \A d : Reach(d)' = Reach(d) /\ Trail' = Trail
  BY <1>2, SameRotation
<1>4. \A u \in Callers : /\ Running(u)' <=> Running(u)
                         /\ Running(u) => call'[u] = call[u]
  BY <1>2 DEF Running
<1>5. Ordered(h)'
  BY <1>1, <1>2, <1>4, OrderedKept DEF Alike
<1>6. Backed(h)'
  BY <1>1, <1>2, <1>3, <1>4 DEF Backed
<1>7. Within'
  BY <1>2, <1>3 DEF Drifts, Within
<1>8. QED
  BY <1>3, <1>5, <1>6, <1>7 DEF Drifts

\* The credits never add up to less than nothing.
LEMMA CreditsNotNegative ==
    ASSUME IInv, CreditsConserved
    PROVE  SumFunction(credits) >= 0
<1> DEFINE f == [t \in Callers |-> Outstanding(t)]
<1>1. ASSUME NEW t \in Callers PROVE f[t] \in Nat
  <2> DEFINE k == Added(call[t])
             g == [p \in 1..k |-> WeightOf[call[t].slice[p]]]
  <2>1. f[t] = SumFunction(g)
    BY OutstandingIs DEF Owes, Total
  <2>2. /\ k \in Nat /\ k <= Len(call[t].slice) /\ call[t].slice \in Seq(Backends)
    BY AddedFacts, CallFacts
  <2>3. IsFiniteSet(1..k)
    BY <2>2, FS_Interval
  <2>4. \A p \in 1..k : g[p] \in Nat
    BY <2>2, WeightAssumption
  <2>5. DOMAIN g = 1..k
    OBVIOUS
  <2> HIDE DEF g, k
  <2>6. SumFunctionOnSet(g, 1..k) \in Nat
    BY <2>3, <2>4, SumIsNat
  <2>7. QED
    BY <2>1, <2>5, <2>6 DEF SumFunction
<1>2. SumFunction(credits) = SumFunction(f) /\ DOMAIN f = Callers
  BY DEF CreditsConserved
<1> HIDE DEF f
<1>3. SumFunctionOnSet(f, Callers) \in Nat
  BY <1>1, SumIsNat, WeightAssumption
<1>4. QED
  BY <1>2, <1>3 DEF SumFunction

\* After the weights are added, some credit is positive.
LEMMA SomeRises ==
    ASSUME IInv, Fixed, NEW w, \A p \in 1..Size : w[p] \in Int,
           SumFunctionOnSet(w, 1..Size) >= 0
    PROVE  \E p \in 1..Size : w[p] + Weigh(p) > 0
<1> SUFFICES ASSUME \A p \in 1..Size : ~(w[p] + Weigh(p) > 0) PROVE FALSE
  OBVIOUS
<1> DEFINE D == 1..Size
           s == [p \in D |-> w[p] + Weigh(p)]
           z == [p \in D |-> 0]
<1>1. IsFiniteSet(D)
  BY OrderFacts, FS_Interval
<1>2. \A p \in D : w[p] \in Int /\ Weights[p] = Weigh(p) /\ Weigh(p) \in Nat
  BY CycleFacts DEF Weights
<1>3. ASSUME NEW p \in D
      PROVE  /\ w[p] \in Int /\ Weights[p] \in Int /\ s[p] = w[p] + Weights[p]
             /\ s[p] \in Int /\ z[p] = 0 /\ z[p] \in Int /\ s[p] <= z[p]
  <2>1. w[p] \in Int /\ Weights[p] = Weigh(p) /\ Weigh(p) \in Nat /\ ~(w[p] + Weigh(p) > 0)
    BY <1>2
  <2>2. QED
    BY <2>1
<1>4. SumFunctionOnSet(Weights, D) = CycleLength
  <2>1. Weights = [p \in 1..Size |-> WeightOf[Order[p]]] /\ DOMAIN Weights = D
    BY DEF Weights, Weigh
  <2>2. CycleLength = SumFunction(Weights)
    BY <2>1, CycleFacts DEF Total
  <2>3. QED
    BY <2>1, <2>2 DEF SumFunction
<1>5. SumFunctionOnSet(w, D) >= 0
  OBVIOUS
<1> HIDE DEF D, s, z
<1>6. SumFunctionOnSet(s, D) = SumFunctionOnSet(w, D) + SumFunctionOnSet(Weights, D)
  BY <1>1, <1>3, SumAdds
<1>7. SumFunctionOnSet(z, D) = 0
  BY <1>1, <1>3, SumOfZeros
<1>8. SumFunctionOnSet(s, D) <= SumFunctionOnSet(z, D)
  BY <1>1, <1>3, SumMonotone
<1>9. SumFunctionOnSet(w, D) \in Int
  BY <1>1, <1>3, SumIsInt
<1>10. CycleLength \in Nat /\ CycleLength > 0
  BY CycleFacts DEF Fixed
<1>11. QED
  BY <1>4, <1>5, <1>6, <1>7, <1>8, <1>9, <1>10

\* With a caller at all, the bound is below zero.
LEMMA ReachPositive ==
    ASSUME IInv, Fixed, NEW t \in Callers
    PROVE  Reach(Cardinality(Callers)) \in Nat /\ Reach(Cardinality(Callers)) > 0
<1> DEFINE k == Cardinality(Callers)
<1>1. k \in Nat /\ k # 0
  BY FS_CardinalityType, FS_EmptySet, WeightAssumption
<1>2. CycleLength \in Nat /\ CycleLength > 0
  BY CycleFacts DEF Fixed
<1>3. Reach(0) \in Nat /\ Reach(0 + 1) = Reach(0) + 0 * CycleLength + CycleLength
  BY ReachFacts
<1>4. Reach(1) > 0 /\ Reach(1) \in Nat
  BY <1>2, <1>3
<1> HIDE DEF k
<1>5. Reach(1) <= Reach(k) /\ Reach(k) \in Nat
  BY <1>1, ReachFacts
<1>6. QED
  BY <1>4, <1>5 DEF k

\* The parts of a fresh trail.
LEMMA FreshFacts ==
    ASSUME NEW t \in Callers
    PROVE  /\ Fresh(t) \in Trail
           /\ Fresh(t).before = {u \in Callers \ {t} : Running(u)} /\ Fresh(t).over = {}
           /\ Fresh(t).total = 0 /\ Fresh(t).since = 0
           /\ \A p \in 1..Size : Fresh(t).took[p] = 0
BY DEF Fresh, Trail

\* A select that starts its loop is younger than all in theirs.
LEMMA StartOrdered ==
    ASSUME IInv, NEW h \in [Callers -> Trail], Ordered(h), NEW t \in Callers,
           ~Running(t), Running(t)', \A u \in Callers \ {t} : Running(u)' <=> Running(u),
           rotation' = rotation, NEW k, k = Started(h, t)
    PROVE  Ordered(k)' /\ k \in [Callers -> Trail]
<1>1. PICK e \in Trail : e = Fresh(t)
  BY FreshFacts
<1>2. /\ e.before = {u \in Callers \ {t} : Running(u)} /\ e.over = {} /\ e.total = 0
  BY <1>1, FreshFacts
<1>3. k = [h EXCEPT ![t] = e]
  BY <1>1 DEF Started
<1>4. k \in [Callers -> Trail] /\ k[t] = e /\ \A u \in Callers \ {t} : k[u] = h[u]
  BY <1>3
<1>5. CycleLength' = CycleLength /\ CycleLength \in Nat
  BY SameRotation, CycleFacts
<1>6. ASSUME NEW u \in Callers, Running(u)'
      PROVE  /\ k[u].before \subseteq {v \in Callers \ {u} : Running(v)'}
             /\ k[u].over \subseteq Callers \ {u}
             /\ k[u].before \cap k[u].over = {}
             /\ k[u].total <= Cardinality(k[u].over) * CycleLength
             /\ \A v \in Callers \ {u} :
                   Running(v)' /\ v \notin k[u].before => k[v].over \subseteq k[u].over
  <2>1. CASE u = t
    <3>1. Cardinality(e.over) * CycleLength = 0
      BY <1>2, <1>5, FS_EmptySet
    <3>2. \A v \in Callers \ {u} : Running(v)' => v \in e.before
      BY <1>2, <2>1
    <3>3. QED
      BY <1>2, <1>4, <2>1, <3>1, <3>2
  <2>2. CASE u # t
    <3>1. Running(u) /\ k[u] = h[u]
      BY <1>4, <1>6, <2>2
    <3>2. /\ h[u].before \subseteq {v \in Callers \ {u} : Running(v)}
          /\ h[u].over \subseteq Callers \ {u}
          /\ h[u].before \cap h[u].over = {}
          /\ h[u].total <= Cardinality(h[u].over) * CycleLength
          /\ \A v \in Callers \ {u} :
                Running(v) /\ v \notin h[u].before => h[v].over \subseteq h[u].over
      BY <3>1 DEF Ordered
    <3>3. \A v \in Callers \ {u} :
             Running(v)' /\ v \notin h[u].before => k[v].over \subseteq h[u].over
      BY <1>2, <1>4, <3>2
    <3>4. QED
      BY <3>1, <3>2, <3>3
  <2>3. QED
    BY <2>1, <2>2
<1>7. Ordered(k)'
  BY <1>5, <1>6 DEF Ordered
<1>8. QED
  BY <1>4, <1>7

\* starting the loop,
LEMMA StartDrifts ==
    ASSUME IInv, Fixed, Fixed', CreditsConserved, NEW h \in [Callers -> Trail],
           Drifts(h), NEW t \in Callers, GetOrInit(t), NEW k, k = Started(h, t)
    PROVE  Drifts(k)'
<1>1. h \in [Callers -> Trail] /\ Ordered(h) /\ Backed(h)
  BY DEF Drifts
<1>2. /\ call[t].stage = "init" /\ call'[t].stage = "add" /\ call'[t].pos = 1
      /\ call'[t].bestCredit = I64Min /\ call[t].slice = Order
      /\ credits' = IF credits = <<>> THEN [p \in DOMAIN Order |-> 0] ELSE credits
  BY GetOrInitDoes DEF Fixed
<1>3. rotation' = rotation /\ \A u \in Callers \ {t} : call'[u] = call[u]
  BY Frame DEF Work
<1>4. /\ Size' = Size /\ Weights' = Weights /\ \A d : Reach(d)' = Reach(d) /\ Trail' = Trail
  BY <1>3, SameRotation
<1>5. /\ ~Running(t) /\ Running(t)'
      /\ \A u \in Callers \ {t} : Running(u)' <=> Running(u)
  BY <1>2, <1>3 DEF Running
<1>6. /\ Ordered(k)' /\ k \in [Callers -> Trail]
      /\ k[t] = Fresh(t) /\ \A u \in Callers \ {t} : k[u] = h[u]
  BY <1>1, <1>3, <1>5, StartOrdered DEF Started
<1>7. Size \in Nat /\ Size # 0 /\ DOMAIN Order = 1..Size
  <2>1. Order # <<>>
    BY <1>2, CallFacts DEF Fits
  <2>2. QED
    BY <2>1, OrderFacts DEF Size
<1>8. /\ DOMAIN credits' = 1..Size /\ \A p \in 1..Size : credits'[p] \in Int
      /\ credits = <<>> => \A p \in 1..Size : credits'[p] = 0
  <2>1. CASE credits = <<>>
    BY <1>2, <1>7, <2>1
  <2>2. CASE credits # <<>>
    BY <1>2, <2>2, CreditsAreInts DEF Fixed
  <2>3. QED
    BY <2>1, <2>2
<1>9. SumFunctionOnSet(credits', 1..Size) >= 0
  <2>1. CASE credits = <<>>
    <3>1. IsFiniteSet(1..Size)
      BY <1>7, FS_Interval
    <3>2. SumFunctionOnSet(credits', 1..Size) = 0
      BY <1>8, <2>1, <3>1, SumOfZeros
    <3>3. QED
      BY <3>2
  <2>2. CASE credits # <<>>
    <3>1. credits' = credits /\ SumFunction(credits) >= 0
      BY <1>2, <2>2, CreditsNotNegative
    <3>2. DOMAIN credits = 1..Size
      BY <1>8, <3>1
    <3>3. QED
      BY <3>1, <3>2 DEF SumFunction
  <2>3. QED
    BY <2>1, <2>2
<1>10. /\ DOMAIN Weights = 1..Size /\ \A p \in 1..Size : Weights[p] \in Nat
  BY CycleFacts DEF Weights
<1>11. Steady(call'[t], credits', k[t], Depth(k[t]), Weights)
  <2>1. Measured(call'[t], credits', k[t], Depth(k[t]), Weights, Size)
    <3>1. Depth(k[t]) \in Nat /\ k[t].total = 0 /\ k[t].since = 0
      BY <1>6, TrailFacts, ReachFacts, FreshFacts DEF Depth
    <3>2. \A p \in 1..Size : k[t].took[p] = 0
      BY <1>6, FreshFacts
    <3>3. I64Min \in Int /\ 1 \in 1..Size
      BY <1>7, WeightAssumption
    <3>4. QED
      BY <1>2, <1>7, <1>8, <1>10, <3>1, <3>2, <3>3 DEF Measured
  <2>2. /\ \A p \in DOMAIN Weights : k[t].took[p] = 0
        /\ k[t].total = 0 /\ k[t].since = 0
    BY <1>6, <1>10, FreshFacts
  <2>3. \E p \in DOMAIN Weights : credits'[p] + Weights[p] > 0
    <3>1. PICK p \in 1..Size : credits'[p] + Weigh(p) > 0
      BY <1>8, <1>9, SomeRises
    <3>2. p \in DOMAIN Weights /\ Weights[p] = Weigh(p)
      BY DEF Weights
    <3>3. QED
      BY <3>1, <3>2
  <2>4. QED
    BY <1>2, <2>1, <2>2, <2>3, StartSteady
<1>12. ASSUME NEW u \in Callers \ {t}, Running(u)
       PROVE  /\ Steady(call'[u], credits', k[u], Depth(k[u]), Weights)
              /\ call'[u].stage = "subtract" => call'[u].pos = Size
  <2>1. call'[u] = call[u] /\ k[u] = h[u]
    BY <1>3, <1>6
  <2>2. credits' = credits
    BY <1>1, <1>2, <1>12, RunningFacts
  <2>3. QED
    BY <1>1, <1>12, <2>1, <2>2 DEF Backed, Depth
<1>13. Backed(k)'
  <2>1. ASSUME NEW u \in Callers, Running(u)'
        PROVE  /\ Steady(call'[u], credits', k[u], Depth(k[u]), Weights)
               /\ call'[u].stage = "subtract" => call'[u].pos = Size
    BY <1>2, <1>5, <1>11, <1>12, <2>1
  <2>2. QED
    BY <1>4, <2>1 DEF Backed, Depth
<1>14. Within'
  <2>1. PICK r \in Nat : r = Reach(Cardinality(Callers)) /\ r > 0
    BY ReachPositive
  <2>2. \A p \in DOMAIN credits' : credits'[p] > -r
    <3>1. CASE credits = <<>>
      BY <1>8, <2>1, <3>1
    <3>2. CASE credits # <<>>
      BY <1>2, <2>1, <3>2 DEF Drifts, Within
    <3>3. QED
      BY <3>1, <3>2
  <2>3. QED
    BY <1>4, <2>1, <2>2 DEF Within
<1>15. QED
  BY <1>4, <1>6, <1>13, <1>14 DEF Drifts

\* The parts of a trail after another select has returned.
LEMMA PassedFacts ==
    ASSUME NEW e \in Trail, NEW t \in Callers, NEW q \in 1..Size, NEW b, NEW C \in Nat,
           NEW f, f = Passed(e, t, q, b, C)
    PROVE  /\ f \in Trail /\ f.over = e.over \cup {t} /\ f.before = e.before \ {t}
           /\ t \in e.before =>
                 /\ f.took[q] = e.took[q] + C /\ \A p \in 1..Size : p # q => f.took[p] = e.took[p]
                 /\ f.total = e.total + C
                 /\ f.since = IF q = b THEN e.since + C ELSE e.since
           /\ t \notin e.before =>
                 f.took = e.took /\ f.total = e.total /\ f.since = e.since
<1>1. CASE t \in e.before
  <2>1. f = Older(e, t, q, b, C)
    BY <1>1 DEF Passed
  <2>2. /\ e.took \in [1..Size -> Nat] /\ e.total \in Nat /\ e.since \in Nat
        /\ e.before \subseteq Callers /\ e.over \subseteq Callers
    BY DEF Trail
  <2>3. /\ [e.took EXCEPT ![q] = @ + C] \in [1..Size -> Nat]
        /\ [e.took EXCEPT ![q] = @ + C][q] = e.took[q] + C
        /\ \A p \in 1..Size : p # q => [e.took EXCEPT ![q] = @ + C][p] = e.took[p]
    <3>1. PICK D : D = 1..Size
      OBVIOUS
    <3>2. PICK g \in [D -> Nat] : g = e.took
      BY <2>2, <3>1
    <3>3. PICK m \in Nat : m = g[q] + C
      BY <3>1
    <3>4. /\ [g EXCEPT ![q] = m] \in [D -> Nat] /\ [g EXCEPT ![q] = m][q] = m
          /\ \A p \in D : p # q => [g EXCEPT ![q] = m][p] = g[p]
      BY <3>1
    <3>5. QED
      BY <3>2, <3>3, <3>4, <3>1
  <2>4. /\ f.before = e.before \ {t} /\ f.over = e.over \cup {t}
        /\ f.took = [e.took EXCEPT ![q] = @ + C] /\ f.total = e.total + C
        /\ f.since = IF q = b THEN e.since + C ELSE e.since
    BY <2>1 DEF Older, Trail
  <2>5. f \in Trail
    <3>1. f = [before |-> f.before, over |-> f.over, took |-> f.took,
               total |-> f.total, since |-> f.since]
      BY <2>1 DEF Older, Trail
    <3>2. f.before \in SUBSET Callers /\ f.over \in SUBSET Callers
          /\ f.total \in Nat /\ f.since \in Nat /\ f.took \in [1..Size -> Nat]
      BY <2>2, <2>3, <2>4
    <3>3. QED
      BY <3>1, <3>2 DEF Trail
  <2>6. QED
    BY <1>1, <2>3, <2>4, <2>5
<1>2. CASE t \notin e.before
  <2>1. f = [e EXCEPT !.over = @ \cup {t}]
    BY <1>2 DEF Passed
  <2>2. f \in Trail /\ f.over = e.over \cup {t} /\ f.before = e.before
        /\ f.took = e.took /\ f.total = e.total /\ f.since = e.since
    BY <2>1 DEF Trail
  <2>3. QED
    BY <1>2, <2>2
<1>3. QED
  BY <1>1, <1>2

\* One more select is over.
LEMMA OneMoreOver ==
    ASSUME NEW S, S \subseteq Callers, NEW t \in Callers
    PROVE  /\ Cardinality(S) \in Nat /\ Cardinality(S \cup {t}) \in Nat
           /\ Cardinality(S) <= Cardinality(S \cup {t})
           /\ Cardinality(S \cup {t}) <= Cardinality(Callers)
           /\ t \notin S => Cardinality(S \cup {t}) = Cardinality(S) + 1
           /\ \A R : R \subseteq S =>
                 Cardinality(R \cup {t}) <= Cardinality(S \cup {t})
<1>1. IsFiniteSet(S) /\ IsFiniteSet(S \cup {t}) /\ IsFiniteSet(Callers)
  BY FS_Subset, FS_AddElement, WeightAssumption
<1>2. S \subseteq S \cup {t} /\ S \cup {t} \subseteq Callers
  OBVIOUS
<1>3. \A R : R \subseteq S => R \cup {t} \subseteq S \cup {t}
  OBVIOUS
<1>4. QED
  BY <1>1, <1>2, <1>3, FS_AddElement, FS_CardinalityType, FS_Subset

\* What is taken from a credit by the select of t does not bring it below the reach
\* of one more select.
LEMMA ReturnLeaves ==
    ASSUME IInv, Fixed, TotalsKept, NEW h \in [Callers -> Trail], Ordered(h), Backed(h),
           NEW t \in Callers, Subtract(t)
    PROVE  /\ call[t].bestIndex \in 1..Size /\ Running(t)
           /\ credits' = [credits EXCEPT ![call[t].bestIndex] = @ - CycleLength]
           /\ credits'[call[t].bestIndex] > -Reach(Cardinality(h[t].over \cup {t}))
<1>1. /\ call[t].stage = "subtract"
      /\ credits' = [credits EXCEPT ![call[t].bestIndex] = @ - call[t].totalWeight]
  BY SubtractDoes
<1>2. Running(t)
  BY <1>1 DEF Running
<1>3. /\ Measured(call[t], credits, h[t], Depth(h[t]), Weights, Size)
      /\ call[t].slice = Order /\ DOMAIN credits = 1..Size
  BY <1>2, RunningFacts
<1>4. Steady(call[t], credits, h[t], Depth(h[t]), Weights) /\ call[t].pos = Size
  BY <1>1, <1>2 DEF Backed, Depth
<1>5. PICK q : q = call[t].bestIndex
  OBVIOUS
<1>6. q \in 1..Size /\ credits[q] > -(Depth(h[t]) + h[t].total)
  BY <1>1, <1>3, <1>4, <1>5, SteadyReturns
<1>7. call[t].totalWeight = CycleLength
  <2>1. Added(call[t]) = Size
    BY <1>1, <1>4 DEF Added
  <2>2. QED
    BY <1>1, <1>3, <2>1, CycleFacts DEF TotalsKept, Owes
<1>8. PICK d \in Nat : d = Cardinality(h[t].over)
  BY TrailFacts
<1>9. /\ h[t].over \subseteq Callers \ {t} /\ h[t].total <= d * CycleLength
  BY <1>2, <1>8 DEF Ordered
<1>10. Cardinality(h[t].over \cup {t}) = d + 1
  BY <1>8, <1>9, OneMoreOver
<1>11. PICK C \in Nat, r \in Nat, m \in Nat, a \in Int :
          C = CycleLength /\ r = Reach(d) /\ m = h[t].total /\ a = credits[q]
  BY <1>3, <1>6, CycleFacts, ReachFacts, TrailFacts, CreditsAreInts
<1>12. credits'[q] = a - C
  BY <1>1, <1>3, <1>5, <1>6, <1>7, <1>11
<1>13. PICK l \in Nat : l = d * C
  OBVIOUS
<1>14. a > -(r + m) /\ m <= l /\ Reach(d + 1) = r + l + C
  BY <1>6, <1>8, <1>9, <1>11, <1>13, ReachFacts DEF Depth
<1>15. a - C > -(r + l + C)
  BY <1>14
<1>16. QED
  BY <1>1, <1>2, <1>5, <1>6, <1>7, <1>10, <1>12, <1>14, <1>15

\* A select that returns is over for all others in the loop.
LEMMA ReturnOrdered ==
    ASSUME IInv, NEW h \in [Callers -> Trail], Ordered(h), NEW t \in Callers,
           Running(t), ~Running(t)', \A u \in Callers \ {t} : Running(u)' <=> Running(u),
           rotation' = rotation, NEW q \in 1..Size, q = call[t].bestIndex,
           NEW k, k = Returned(h, t)
    PROVE  Ordered(k)'
<1>1. PICK C \in Nat : C = CycleLength /\ CycleLength' = C
  BY SameRotation, CycleFacts
<1>2. ASSUME NEW u \in Callers
      PROVE  /\ k[u].over = h[u].over \cup {t} /\ k[u].before = h[u].before \ {t}
             /\ t \in h[u].before => k[u].total = h[u].total + C
             /\ t \notin h[u].before => k[u].total = h[u].total
  <2>1. h[u] \in Trail
    OBVIOUS
  <2>2. k[u] = Passed(h[u], t, q, call[u].bestIndex, C)
    BY <1>1 DEF Returned
  <2>3. QED
    BY <2>1, <2>2, PassedFacts
<1>3. ASSUME NEW u \in Callers, Running(u)'
      PROVE  /\ k[u].before \subseteq {v \in Callers \ {u} : Running(v)'}
             /\ k[u].over \subseteq Callers \ {u}
             /\ k[u].before \cap k[u].over = {}
             /\ k[u].total <= Cardinality(k[u].over) * C
             /\ \A v \in Callers \ {u} :
                   Running(v)' /\ v \notin k[u].before => k[v].over \subseteq k[u].over
  <2>1. u # t /\ Running(u)
    BY <1>3
  <2>2. /\ h[u].before \subseteq {v \in Callers \ {u} : Running(v)}
        /\ h[u].over \subseteq Callers \ {u}
        /\ h[u].before \cap h[u].over = {}
        /\ h[u].total <= Cardinality(h[u].over) * C
        /\ \A v \in Callers \ {u} :
              Running(v) /\ v \notin h[u].before => h[v].over \subseteq h[u].over
    BY <1>1, <2>1 DEF Ordered
  <2>3. k[u].before \subseteq {v \in Callers \ {u} : Running(v)'}
    BY <1>2, <2>2
  <2>4. k[u].over \subseteq Callers \ {u} /\ k[u].before \cap k[u].over = {}
    BY <1>2, <2>1, <2>2
  <2>5. k[u].total <= Cardinality(k[u].over) * C
    <3>1. h[u].over \subseteq Callers /\ h[u].total \in Nat
      BY TrailFacts
    <3>2. Cardinality(h[u].over) \in Nat /\ Cardinality(h[u].over \cup {t}) \in Nat
      BY <3>1, OneMoreOver
    <3>3. PICK d \in Nat, c \in Nat, m \in Nat :
             d = Cardinality(h[u].over) /\ c = Cardinality(k[u].over) /\ m = h[u].total
      BY <1>2, <3>1, <3>2
    <3>4. d <= c /\ (t \notin h[u].over => c = d + 1)
      BY <1>2, <3>3, <3>1, OneMoreOver
    <3>5. PICK l \in Nat : l = d * C /\ m <= l
      BY <2>2, <3>3
    <3>6. CASE t \in h[u].before
      <4>1. t \notin h[u].over /\ k[u].total = m + C
        BY <1>2, <2>2, <3>3, <3>6
      <4>2. (d + 1) * C = l + C
        BY <3>5
      <4>3. m + C <= l + C
        BY <3>5
      <4>4. QED
        BY <3>3, <3>4, <4>1, <4>2, <4>3
    <3>7. CASE t \notin h[u].before
      <4>1. k[u].total = m
        BY <1>2, <3>3, <3>7
      <4>2. d * C <= c * C
        BY <3>4
      <4>3. m <= c * C
        BY <3>5, <4>2
      <4>4. QED
        BY <3>3, <4>1, <4>3
    <3>8. QED
      BY <3>6, <3>7
  <2>6. ASSUME NEW v \in Callers \ {u}, Running(v)', v \notin k[u].before
        PROVE  k[v].over \subseteq k[u].over
    <3>1. v # t /\ Running(v) /\ v \notin h[u].before
      BY <1>2, <2>6
    <3>2. h[v].over \subseteq h[u].over
      BY <2>2, <3>1
    <3>3. QED
      BY <1>2, <3>2
  <2>7. QED
    BY <2>3, <2>4, <2>5, <2>6
<1>4. QED
  BY <1>1, <1>3 DEF Ordered

\* and returning.
LEMMA ReturnDrifts ==
    ASSUME IInv, Fixed, TotalsKept, NEW h \in [Callers -> Trail], Drifts(h),
           NEW t \in Callers, Subtract(t), NEW k, k = Returned(h, t)
    PROVE  Drifts(k)'
<1>1. h \in [Callers -> Trail] /\ Ordered(h) /\ Backed(h)
  BY DEF Drifts
<1>2. PICK q : q = call[t].bestIndex
  OBVIOUS
<1>3. PICK C \in Nat : C = CycleLength
  BY CycleFacts
<1>4. /\ q \in 1..Size /\ Running(t)
      /\ credits' = [credits EXCEPT ![q] = @ - C]
      /\ credits'[q] > -Reach(Cardinality(h[t].over \cup {t}))
  BY <1>1, <1>2, <1>3, ReturnLeaves
<1>5. rotation' = rotation /\ \A u \in Callers \ {t} : call'[u] = call[u]
  BY Frame
<1>6. /\ Size' = Size /\ Weights' = Weights /\ \A d : Reach(d)' = Reach(d) /\ Trail' = Trail
  BY <1>5, SameRotation
<1>7. /\ ~Running(t)' /\ \A u \in Callers \ {t} : Running(u)' <=> Running(u)
  BY <1>5, SubtractDoes DEF Running
<1>8. Ordered(k)'
  BY <1>1, <1>2, <1>4, <1>5, <1>7, ReturnOrdered
<1>9. \A u \in Callers : k[u] = Passed(h[u], t, q, call[u].bestIndex, C)
  BY <1>2, <1>3 DEF Returned
<1>10. k \in [Callers -> Trail]
  <2>1. \A u \in Callers : k[u] \in Trail
    BY <1>4, <1>9, PassedFacts
  <2>2. k = [u \in Callers |-> k[u]]
    BY DEF Returned
  <2>3. QED
    BY <2>1, <2>2
<1>11. /\ DOMAIN credits = 1..Size /\ DOMAIN credits' = DOMAIN credits
       /\ credits'[q] = credits[q] - C /\ credits[q] \in Int /\ credits'[q] \in Int
       /\ \A p \in 1..Size : p # q => credits'[p] = credits[p]
  <2>1. DOMAIN credits = 1..Size
    BY <1>4, RunningFacts, <1>1
  <2>2. credits[q] \in Int
    BY <1>4, <2>1, CreditsAreInts
  <2>3. QED
    BY <1>4, <2>1, <2>2
<1>12. ASSUME NEW u \in Callers, Running(u)'
       PROVE  /\ Steady(call'[u], credits', k[u], Depth(k[u]), Weights)
              /\ call'[u].stage = "subtract" => call'[u].pos = Size
  <2>1. u # t /\ Running(u) /\ call'[u] = call[u]
    BY <1>5, <1>7, <1>12
  <2>2. /\ Measured(call[u], credits, h[u], Depth(h[u]), Weights, Size)
        /\ Scanned(call[u]) \in 0..Size /\ DOMAIN Weights = 1..Size
    BY <2>1, RunningFacts
  <2>3. /\ Steady(call[u], credits, h[u], Depth(h[u]), Weights)
        /\ call[u].stage = "subtract" => call[u].pos = Size
    BY <1>1, <2>1 DEF Backed, Depth
  <2>4. PICK e, f, R, P :
           e \in Trail /\ e = h[u] /\ f = k[u] /\ R = Depth(h[u]) /\ P = Depth(k[u])
    OBVIOUS
  <2>5. /\ f.over = e.over \cup {t} /\ e.over \subseteq Callers
        /\ t \in e.before =>
              /\ f.took[q] = e.took[q] + C /\ \A p \in 1..Size : p # q => f.took[p] = e.took[p]
              /\ f.total = e.total + C
              /\ f.since = IF q = call[u].bestIndex THEN e.since + C ELSE e.since
        /\ t \notin e.before =>
              f.took = e.took /\ f.total = e.total /\ f.since = e.since
    <3>1. e.over \subseteq Callers
      BY <2>4 DEF Trail
    <3>2. f = Passed(e, t, q, call[u].bestIndex, C)
      BY <1>9, <2>4
    <3>3. QED
      BY <1>4, <2>4, <3>1, <3>2, PassedFacts
  <2>6. R \in Nat /\ P \in Nat /\ R <= P
    <3>1. PICK c \in Nat, d \in Nat :
             c = Cardinality(e.over) /\ d = Cardinality(e.over \cup {t}) /\ c <= d
      BY <2>5, OneMoreOver
    <3>2. R = Reach(c) /\ P = Reach(d)
      BY <2>4, <2>5, <3>1 DEF Depth
    <3>3. QED
      BY <3>1, <3>2, ReachFacts
  <2>7. Steady(call[u], credits', f, P, Weights)
    <3>1. CASE t \in e.before
      <4>1. TakenFrom(credits, credits', e, f, Weights, q, call[u].bestIndex, C)
        BY <1>4, <1>11, <2>2, <2>5, <3>1 DEF TakenFrom
      <4>2. QED
        BY <2>2, <2>3, <2>4, <2>6, <4>1, OlderSteady
    <3>2. CASE t \notin e.before
      <4>1. h[t].over \subseteq e.over
        BY <1>1, <1>4, <2>1, <2>4, <3>2 DEF Ordered
      <4>2. PICK c, d \in Nat : /\ c = Cardinality(h[t].over \cup {t})
                                /\ d = Cardinality(e.over \cup {t}) /\ c <= d
        <5>1. h[t].over \subseteq Callers
          BY TrailFacts
        <5>2. QED
          BY <2>5, <4>1, <5>1, OneMoreOver
      <4>3. PICK r \in Nat : r = Reach(c) /\ r <= P
        BY <2>4, <2>5, <4>2, ReachFacts DEF Depth
      <4>4. credits'[q] > -P
        BY <1>4, <1>11, <2>6, <4>2, <4>3
      <4>5. QED
        <5>1. LeftAbove(credits, credits', e, f, Weights, q, P)
          BY <1>4, <1>11, <2>2, <2>5, <3>2, <4>4 DEF LeftAbove
        <5>2. QED
          BY <2>2, <2>3, <2>4, <2>6, <5>1, YoungerSteady
    <3>3. QED
      BY <3>1, <3>2
  <2>8. QED
    BY <2>1, <2>3, <2>4, <2>7
<1>13. Backed(k)'
  BY <1>6, <1>12 DEF Backed, Depth
<1>14. Within'
  <2>1. PICK K \in Nat, c \in Nat :
           K = Cardinality(Callers) /\ c = Cardinality(h[t].over \cup {t}) /\ c <= K
    <3>1. h[t].over \subseteq Callers
      BY TrailFacts
    <3>2. Cardinality(Callers) \in Nat
      BY FS_CardinalityType, WeightAssumption
    <3>3. /\ Cardinality(h[t].over \cup {t}) \in Nat
          /\ Cardinality(h[t].over \cup {t}) <= Cardinality(Callers)
      BY <3>1, OneMoreOver
    <3>4. QED
      BY <3>2, <3>3
  <2>2. PICK r \in Nat, s \in Nat : r = Reach(K) /\ s = Reach(c) /\ s <= r
    BY <2>1, ReachFacts
  <2>3. ASSUME NEW p \in DOMAIN credits' PROVE credits'[p] > -r
    <3>1. CASE p = q
      BY <1>4, <1>11, <2>1, <2>2, <3>1
    <3>2. CASE p # q
      BY <1>11, <2>1, <2>2, <2>3, <3>2 DEF Drifts, Within
    <3>3. QED
      BY <3>1, <3>2
  <2>4. Reach(Cardinality(Callers))' = r
    BY <1>6, <2>1, <2>2
  <2>5. QED
    BY <2>3, <2>4 DEF Within
<1>15. QED
  BY <1>6, <1>8, <1>10, <1>13, <1>14 DEF Drifts

---------------------------------------------------------------------------------

LEMMA DriftsInitially ==
    ASSUME SharesInit, NEW h \in [Callers -> Trail]
    PROVE  Drifts(h)
<1>1. credits = <<>> /\ \A t \in Callers : ~Running(t)
  BY DEF SharesInit, Init, NoCall, Running
<1>2. QED
  BY <1>1 DEF Drifts, Within, Ordered, Backed

\* The trails follow the steps.
LEMMA DriftsFollowed ==
    ASSUME IInv, Fixed, Fixed', TotalsKept, CreditsConserved,
           NEW h \in [Callers -> Trail], Drifts(h), NEW t \in Callers,
           Proceed(t) \/ Return(t), NEW k, k = Followed(h, t)
    PROVE  Drifts(k)'
<1>1. Work(t) \/ Subtract(t)
  BY DEF Proceed, Return
<1>2. CASE Select(t)
  <2>1. k = h
    BY <1>2 DEF Select, Followed
  <2>2. QED
    BY <1>2, <2>1, SelectDrifts
<1>3. CASE GetOrInit(t)
  <2>1. k = Started(h, t)
    BY <1>3 DEF GetOrInit, Followed
  <2>2. QED
    BY <1>3, <2>1, StartDrifts
<1>4. CASE AddWeight(t)
  <2>1. k = h
    BY <1>4 DEF AddWeight, Followed
  <2>2. QED
    BY <1>4, <2>1, AddDrifts
<1>5. CASE Compare(t)
  <2>1. k = h
    BY <1>5 DEF Compare, Followed
  <2>2. QED
    BY <1>5, <2>1, CompareDrifts
<1>6. CASE Take(t)
  <2>1. k = Chosen(h, t)
    BY <1>6 DEF Take, Followed
  <2>2. QED
    BY <1>6, <2>1, TakeDrifts
<1>7. CASE Subtract(t)
  <2>1. k = Returned(h, t)
    BY <1>7 DEF Subtract, Followed
  <2>2. QED
    BY <1>7, <2>1, ReturnDrifts
<1>8. QED
  BY <1>1, <1>2, <1>3, <1>4, <1>5, <1>6, <1>7 DEF Work

LEMMA DriftsOnStutter ==
    ASSUME NEW h \in [Callers -> Trail], Drifts(h), UNCHANGED shareVars
    PROVE  Drifts(h)'
<1>1. UNCHANGED <<rotation, credits, call>>
  BY DEF shareVars, vars
<1>2. /\ Size' = Size /\ Weights' = Weights /\ CycleLength' = CycleLength
      /\ \A d : Reach(d)' = Reach(d) /\ Trail' = Trail
  BY <1>1, SameRotation
<1>3. \A t \in Callers : Running(t)' <=> Running(t)
  BY <1>1 DEF Running
<1>4. (Ordered(h) => Ordered(h)') /\ (Backed(h) => Backed(h)')
  BY <1>1, <1>2, <1>3 DEF Ordered, Backed
<1>5. Within'
  BY <1>1, <1>2 DEF Drifts, Within
<1>6. QED
  BY <1>2, <1>4, <1>5 DEF Drifts

LEMMA BoundFollows == ASSUME IInv, Within PROVE DriftBounded
<1>1. PICK k \in Nat, r \in Nat :
         k = Cardinality(Callers) /\ r = Reach(k) /\ 2 * r = k * (k + 1) * CycleLength
  BY ReachFacts, FS_CardinalityType, WeightAssumption
<1>2. \A p \in DOMAIN credits : credits[p] \in Int /\ credits[p] > -r
  BY <1>1, CreditsAreInts DEF Within
<1>3. \A p \in DOMAIN credits : 2 * credits[p] > -(2 * r)
  BY <1>2
<1>4. QED
  BY <1>1, <1>3 DEF DriftBounded

LEMMA DriftFacts ==
    SharesSpec => [](IInv /\ TotalsKept /\ CreditsConserved /\ Fixed)
<1>1. SharesInv => Fixed
  BY DEF SharesInv
<1>2. QED
  BY <1>1, SharesImplementsSpec, BalanceInvariant, SharesInvariant, PTL

(***************************************************************************)
(* While the rotation is fixed, k overlapping selects never leave a        *)
(* backend k * (k + 1) / 2 requests or more ahead of its share, however    *)
(* the loads, additions and subtractions of                                *)
(* weighted_round_robin.rs:50-72 interleave and for however long.          *)
(***************************************************************************)
THEOREM SharesDriftBounded == SharesSpec => []DriftBounded
<1> DEFINE Drifting == \E h : Drifts(h)
<1>1. ASSUME SharesInit PROVE Drifting
  <2>1. [t \in Callers |-> Fresh(t)] \in [Callers -> Trail]
    BY FreshFacts
  <2>2. QED
    BY <1>1, <2>1, DriftsInitially
<1>2. ASSUME IInv, TotalsKept, CreditsConserved, Fixed, Fixed', Drifting, [SharesNext]_shareVars
      PROVE  Drifting'
  <2>1. PICK h \in [Callers -> Trail] : Drifts(h)
    BY <1>2 DEF Drifts
  <2>2. ASSUME NEW t \in Callers, Proceed(t) \/ Return(t) PROVE Drifting'
    <3>1. PICK k : k = Followed(h, t)
      OBVIOUS
    <3>2. Drifts(k)'
      BY <1>2, <2>1, <2>2, <3>1, DriftsFollowed
    <3>3. QED
      BY <3>2
  <2>3. CASE UNCHANGED shareVars
    <3>1. Drifts(h)'
      BY <2>1, <2>3, DriftsOnStutter
    <3>2. QED
      BY <3>1
  <2>4. QED
    BY <1>2, <2>2, <2>3 DEF SharesNext
<1>3. ASSUME IInv, Drifting PROVE DriftBounded
  BY <1>3, BoundFollows DEF Drifts
<1> HIDE DEF Drifting
<1>4. SharesSpec => [](IInv /\ Drifting)
  BY <1>1, <1>2, DriftFacts, PTL DEF SharesSpec
<1>5. QED
  BY <1>3, <1>4, PTL

(***************************************************************************)
(* The trails of module Drift belong to selects that overlap in the order  *)
(* they say, and each select in its loop                                   *)
(* (weighted_round_robin.rs:53-66) has a good credit ahead or remembers    *)
(* one: what the proof above says of some trails holds of these.           *)
(***************************************************************************)
THEOREM DriftTrailed == TrailsSpec => []Trailed
<1>1. TrailsSpec => SharesSpec
  <2>1. TrailsInit => SharesInit
    BY DEF TrailsInit
  <2>2. [TrailsNext]_trailVars => [SharesNext]_shareVars
    BY DEF TrailsNext, SharesNext, trailVars
  <2>3. QED
    BY <2>1, <2>2, PTL DEF TrailsSpec, SharesSpec
<1>2. ASSUME TrailsInit PROVE Drifts(trails)
  <2>1. PICK h : h = trails
    OBVIOUS
  <2>2. h = [t \in Callers |-> Fresh(t)] /\ SharesInit
    BY <1>2, <2>1 DEF TrailsInit
  <2>3. h \in [Callers -> Trail]
    BY <2>2, FreshFacts
  <2>4. Drifts(h)
    BY <2>2, <2>3, DriftsInitially
  <2>5. QED
    BY <2>1, <2>4
<1>3. ASSUME IInv, TotalsKept, CreditsConserved, Fixed, Fixed', Drifts(trails),
             [TrailsNext]_trailVars
      PROVE  Drifts(trails)'
  <2>1. PICK h, k : h = trails /\ k = trails'
    OBVIOUS
  <2>2. h \in [Callers -> Trail] /\ Drifts(h)
    BY <1>3, <2>1 DEF Drifts
  <2>3. Drifts(k)'
    <3>1. ASSUME NEW t \in Callers, Proceed(t) \/ Return(t), trails' = Followed(trails, t)
          PROVE  Drifts(k)'
      <4>1. k = Followed(h, t)
        BY <2>1, <3>1
      <4>2. QED
        BY <1>3, <2>2, <3>1, <4>1, DriftsFollowed
    <3>2. CASE UNCHANGED trailVars
      <4>1. k = h /\ UNCHANGED shareVars
        BY <2>1, <3>2 DEF trailVars
      <4>2. QED
        BY <2>2, <4>1, DriftsOnStutter
    <3>3. QED
      BY <1>3, <3>1, <3>2 DEF TrailsNext
  <2>4. QED
    BY <2>1, <2>3 DEF Drifts, Ordered, Backed
<1>4. Drifts(trails) => Trailed
  BY DEF Drifts, Trailed
<1>5. QED
  BY <1>1, <1>2, <1>3, <1>4, DriftFacts, PTL DEF TrailsSpec
---------------------------------------------------------------------------------
(***************************************************************************)
(* The credits while the rotation changes.  Between selects they add up to *)
(* zero, and no set of s of n positions is further below zero than half of *)
(* Room: W * s * (n - s).  That is so at first, and a select on any slice  *)
(* keeps it: a set that does not have the winner only gains.  One that has *)
(* pays what the positions outside it were given; but the winner had the   *)
(* greatest credit, so those outside had no more each, and the bounds of   *)
(* the set without the winner and of the set with those outside leave the  *)
(* winner enough.                                                          *)
(***************************************************************************)
\* What the bound of module WeightedSpread comes to for a set of s of n positions.
Room(W, s, n) == W * (s * (n - s))

\* One position is taken out, k are added: the bounds of both give that of the set.
LEMMA RoomBetween ==
    ASSUME NEW W \in Nat, NEW n \in Nat, NEW s \in Nat, NEW k \in Nat \ {0}
    PROVE  k * Room(W, s - 1, n) + Room(W, s + k, n) + 2 * (k * W) <= (k + 1) * Room(W, s, n)
<1>1. PICK P : P = s * (n - s)
  OBVIOUS
<1>2. P \in Int
  BY <1>1
<1>3. (s - 1) * (n - (s - 1)) = P + (2 * s - n - 1)
  BY <1>1
<1>4. (s + k) * (n - (s + k)) = P + (k * n - 2 * (k * s) - k * k)
  BY <1>1
<1>5. k * (2 * s - n - 1) = 2 * (k * s) - k * n - k
  OBVIOUS
<1>6. k * (P + (2 * s - n - 1)) = k * P + (2 * (k * s) - k * n - k)
  BY <1>2, <1>5
<1>7. k * (P + (2 * s - n - 1)) + (P + (k * n - 2 * (k * s) - k * k)) + 2 * k
          = (k + 1) * P + (k - k * k)
  BY <1>2, <1>6
<1>8. k - k * k <= 0
  OBVIOUS
<1>9. PICK x, y : x = P + (2 * s - n - 1) /\ y = P + (k * n - 2 * (k * s) - k * k)
  OBVIOUS
<1>10. x \in Int /\ y \in Int /\ k * x + y + 2 * k <= (k + 1) * P
  BY <1>2, <1>7, <1>8, <1>9
<1>11. W * (k * x + y + 2 * k) <= W * ((k + 1) * P)
  <2>1. \A a, b \in Int : a <= b => W * a <= W * b
    OBVIOUS
  <2>2. QED
    BY <1>2, <1>10, <2>1
<1>12. W * (k * x + y + 2 * k) = k * (W * x) + W * y + 2 * (k * W)
  BY <1>10
<1>13. W * ((k + 1) * P) = (k + 1) * (W * P)
  BY <1>2
<1>14. Room(W, s - 1, n) = W * x /\ Room(W, s + k, n) = W * y /\ Room(W, s, n) = W * P
  BY <1>1, <1>3, <1>4, <1>9 DEF Room
<1>15. QED
  BY <1>11, <1>12, <1>13, <1>14

\* The sum a of a set that pays G, while the k positions outside it gain G: from the bounds
\* l without the winner, whose credit is v, and u with those outside, that of the set itself.
LEMMA SumStays ==
    ASSUME NEW k \in Nat \ {0}, NEW a \in Int, NEW G \in Int, NEW v \in Int, NEW w \in Int,
           NEW o \in Int, NEW L \in Int, NEW U \in Int, NEW A \in Int, NEW W \in Int,
           2 * (a - v) >= -L, 2 * (a + o) >= -U, o + G <= k * (v + w), G + w <= W,
           k * L + U + 2 * (k * W) <= (k + 1) * A
    PROVE  2 * (a - G) >= -A
<1>1. k * (2 * (a - v)) >= k * (-L)
  <2>1. \A x, y \in Int : x >= y => k * x >= k * y
    OBVIOUS
  <2>2. QED
    BY <2>1
<1>2. k * (G + w) <= k * W
  <2>1. \A x, y \in Int : x <= y => k * x <= k * y
    OBVIOUS
  <2>2. QED
    BY <2>1
<1>3. /\ k * (2 * (a - v)) = 2 * (k * a) - 2 * (k * v) /\ k * (-L) = -(k * L)
      /\ k * (G + w) = k * G + k * w /\ k * (v + w) = k * v + k * w
      /\ (k + 1) * A = k * A + A
  OBVIOUS
<1>4. PICK ka, kv, kL, kG, kw, kW, kA :
         /\ ka = k * a /\ kv = k * v /\ kL = k * L /\ kG = k * G /\ kw = k * w
         /\ kW = k * W /\ kA = k * A
  OBVIOUS
<1>5. /\ ka \in Int /\ kv \in Int /\ kL \in Int /\ kG \in Int /\ kw \in Int
      /\ kW \in Int /\ kA \in Int
  BY <1>4
<1>6. /\ 2 * ka - 2 * kv >= -kL /\ kG + kw <= kW /\ o + G <= kv + kw
      /\ kL + U + 2 * kW <= kA + A
  BY <1>1, <1>2, <1>3, <1>4
<1>7. 2 * (ka + a - kG - G) >= -(kA + A)
  BY <1>5, <1>6
<1>8. (k + 1) * (2 * (a - G) + A) = 2 * (ka + a - kG - G) + (kA + A)
  BY <1>4
<1>9. (k + 1) * (2 * (a - G) + A) >= 0
  BY <1>5, <1>7, <1>8
<1>10. \A z \in Int : (k + 1) * z >= 0 => z >= 0
  OBVIOUS
<1>11. 2 * (a - G) + A >= 0
  BY <1>9, <1>10
<1>12. QED
  BY <1>11
\* The values of b at n positions add up to zero and no set of them is far below it.
Even(b, n, W) ==
    /\ \A p \in 1..n : b[p] \in Int
    /\ SumFunctionOnSet(b, 1..n) = 0
    /\ \A S \in SUBSET (1..n) : 2 * SumFunctionOnSet(b, S) >= -Room(W, Cardinality(S), n)

\* A round gives g, which adds up to T, to the first m positions and takes it all from q.
Round(b, g, x, n, m, q, T) ==
    /\ m \in 0..n /\ q \in 1..m
    /\ \A p \in 1..n : g[p] \in Nat /\ (p > m => g[p] = 0)
    /\ SumFunctionOnSet(g, 1..n) = T
    /\ \A p \in 1..m : b[p] + g[p] <= b[q] + g[q]
    /\ \A p \in 1..n : x[p] = b[p] + g[p] - (IF p = q THEN T ELSE 0)

LEMMA SetFacts ==
    ASSUME NEW n \in Nat, NEW S \in SUBSET (1..n)
    PROVE  /\ IsFiniteSet(1..n) /\ IsFiniteSet(S) /\ Cardinality(S) \in Nat
<1>1. IsFiniteSet(1..n)
  <2>1. 1 \in Int /\ n \in Int
    OBVIOUS
  <2>2. QED
    BY <2>1, FS_Interval
<1>2. IsFiniteSet(S)
  BY <1>1, FS_Subset
<1>3. QED
  BY <1>1, <1>2, FS_CardinalityType

\* What the set S has after the round.
Settled(b, g, x, S, q, T) ==
    /\ SumFunctionOnSet(b, S) \in Int /\ SumFunctionOnSet(g, S) \in Nat
    /\ SumFunctionOnSet(x, S) = SumFunctionOnSet(b, S) + SumFunctionOnSet(g, S)
                                    - (IF q \in S THEN T ELSE 0)

LEMMA RoundSum ==
    ASSUME NEW n \in Nat, NEW m, NEW W \in Nat, NEW T \in Nat, NEW q, NEW b, NEW g, NEW x,
           Even(b, n, W), Round(b, g, x, n, m, q, T), NEW S \in SUBSET (1..n)
    PROVE  Settled(b, g, x, S, q, T)
<1> DEFINE y == [p \in 1..n |-> b[p] + g[p]]
<1>1. IsFiniteSet(S)
  BY SetFacts
<1>2. \A p \in 1..n : b[p] \in Int /\ g[p] \in Nat /\ y[p] \in Int /\ y[p] = b[p] + g[p]
  BY DEF Even, Round
<1>3. \A p \in 1..n : x[p] \in Int /\ x[p] = y[p] - (IF p = q THEN T ELSE 0)
  BY <1>2 DEF Round
<1> HIDE DEF y
<1>4. SumFunctionOnSet(b, S) \in Int /\ SumFunctionOnSet(g, S) \in Nat
  BY <1>1, <1>2, SumIsInt, SumIsNat
<1>5. SumFunctionOnSet(y, S) = SumFunctionOnSet(b, S) + SumFunctionOnSet(g, S)
  <2>1. \A p \in S : b[p] \in Int /\ g[p] \in Int /\ y[p] = b[p] + g[p]
    BY <1>2
  <2>2. QED
    BY <1>1, <2>1, SumAdds
<1>6. CASE q \in S
  <2>1. \A p \in S : y[p] \in Int /\ x[p] = y[p] - (IF p = q THEN T ELSE 0)
    BY <1>2, <1>3
  <2>2. SumFunctionOnSet(x, S) = SumFunctionOnSet(y, S) - T
    <3>1. PICK D, d, a : D = S /\ d = T /\ a = q
      OBVIOUS
    <3>2. /\ IsFiniteSet(D) /\ a \in D /\ d \in Int
          /\ \A p \in D : y[p] \in Int /\ x[p] = y[p] - (IF p = a THEN d ELSE 0)
      BY <1>1, <1>6, <2>1, <3>1
    <3>3. SumFunctionOnSet(x, D) = SumFunctionOnSet(y, D) - d
      BY <3>2, SumLowered
    <3>4. QED
      BY <3>1, <3>3
  <2>3. QED
    BY <1>4, <1>5, <1>6, <2>2 DEF Settled
<1>7. CASE q \notin S
  <2>1. \A p \in S : x[p] = y[p]
    BY <1>2, <1>3, <1>7
  <2>2. SumFunctionOnSet(x, S) = SumFunctionOnSet(y, S)
    BY <1>1, <2>1, SumSame
  <2>3. QED
    BY <1>4, <1>5, <1>7, <2>2 DEF Settled
<1>8. QED
  BY <1>6, <1>7

\* A set that has the winner pays what the others are given.
LEMMA WinnerPays ==
    ASSUME NEW n \in Nat, NEW m, NEW W \in Nat, NEW T \in Nat, T <= W, NEW q, NEW b, NEW g,
           NEW x, Even(b, n, W), Round(b, g, x, n, m, q, T), NEW S \in SUBSET (1..n), q \in S
    PROVE  2 * SumFunctionOnSet(x, S) >= -Room(W, Cardinality(S), n)
<1> DEFINE s == Cardinality(S)
           A == (1..m) \ S
           C == (1..n) \ S
           U == S \cup A
           Q == S \ {q}
<1>1. m \in Nat /\ m <= n /\ q \in 1..m
  BY DEF Round
<1>2. /\ A \in SUBSET (1..n) /\ C \in SUBSET (1..n) /\ U \in SUBSET (1..n) /\ Q \in SUBSET (1..n)
      /\ A \in SUBSET C /\ S \in SUBSET U /\ U \ S = A
  BY <1>1
<1>3. /\ IsFiniteSet(1..n) /\ IsFiniteSet(S) /\ IsFiniteSet(A) /\ IsFiniteSet(C)
      /\ IsFiniteSet(U) /\ IsFiniteSet(Q)
      /\ Cardinality(S) \in Nat /\ Cardinality(A) \in Nat
  BY <1>2, SetFacts
<1>4. Cardinality(Q) = s - 1 /\ Cardinality(U) = s + Cardinality(A)
  <2>1. Cardinality(Q) = s - 1
    BY <1>3, FS_RemoveElement
  <2>2. S \cap A = {}
    OBVIOUS
  <2> HIDE DEF A
  <2>3. Cardinality(S \cup A) = s + Cardinality(A) - Cardinality(S \cap A)
    BY <1>3, FS_Union
  <2>4. Cardinality(S \cap A) = 0
    BY <2>2, FS_EmptySet
  <2>5. Cardinality(U) = s + Cardinality(A)
    BY <1>3, <2>3, <2>4
  <2>6. QED
    BY <2>1, <2>5
<1>5. \A p \in 1..n : b[p] \in Int /\ g[p] \in Nat /\ g[p] \in Int
  BY DEF Even, Round
<1>6. PICK a, o, G, v, w :
         /\ a = SumFunctionOnSet(b, S) /\ o = SumFunctionOnSet(b, A)
         /\ G = SumFunctionOnSet(g, A) /\ v = b[q] /\ w = g[q]
  OBVIOUS
<1>7. a \in Int /\ o \in Int /\ G \in Nat /\ v \in Int /\ w \in Nat
  <2>1. q \in 1..n
    BY <1>1
  <2>2. SumFunctionOnSet(b, S) \in Int /\ SumFunctionOnSet(b, A) \in Int
        /\ SumFunctionOnSet(g, A) \in Nat
    BY <1>2, <1>3, <1>5, SumIsInt, SumIsNat
  <2>3. QED
    BY <1>5, <1>6, <2>1, <2>2
<1>8. SumFunctionOnSet(x, S) = a - G
  <2>1. SumFunctionOnSet(g, 1..n) = SumFunctionOnSet(g, S) + SumFunctionOnSet(g, C)
    BY <1>3, <1>5, SumOfParts
  <2>2. SumFunctionOnSet(g, C) = SumFunctionOnSet(g, A)
    <3>1. \A p \in C : g[p] \in Int
      BY <1>5
    <3>2. \A p \in C \ A : g[p] = 0
      BY <1>1 DEF Round
    <3> HIDE DEF A, C
    <3>3. QED
      BY <1>2, <1>3, <3>1, <3>2, SumRestricted
  <2>3. T = SumFunctionOnSet(g, S) + G
    BY <1>6, <2>1, <2>2 DEF Round
  <2>4. SumFunctionOnSet(x, S) = a + SumFunctionOnSet(g, S) - T /\ SumFunctionOnSet(g, S) \in Nat
    BY <1>6, RoundSum DEF Settled
  <2>5. QED
    BY <1>7, <2>3, <2>4
<1>9. G + w <= W
  <2>1. SumFunctionOnSet(g, 1..n) = SumFunctionOnSet(g, A) + SumFunctionOnSet(g, (1..n) \ A)
    BY <1>2, <1>3, <1>5, SumOfParts
  <2> DEFINE D == (1..n) \ A
             E == D \ {q}
  <2>2. q \in D /\ IsFiniteSet(D) /\ IsFiniteSet(E) /\ \A p \in D : g[p] \in Int /\ g[p] \in Nat
    BY <1>1, <1>3, <1>5, FS_Subset
  <2>3. \A p \in E : g[p] \in Nat
    BY <2>2
  <2>4. SumFunctionOnSet(g, E) \in Nat
    <3> HIDE DEF E
    <3>1. QED
      BY <2>2, <2>3, SumIsNat
  <2> HIDE DEF D
  <2>5. SumFunctionOnSet(g, D) = g[q] + SumFunctionOnSet(g, E)
    BY <2>2, SumWithout
  <2>6. T = G + (w + SumFunctionOnSet(g, E))
    BY <1>6, <2>1, <2>5 DEF Round, D
  <2>7. QED
    BY <1>7, <2>4, <2>6
<1>10. SumFunctionOnSet(b, Q) = a - v
  <2>1. SumFunctionOnSet(b, S) = b[q] + SumFunctionOnSet(b, Q) /\ SumFunctionOnSet(b, Q) \in Int
    BY <1>3, <1>5, SumWithout, SumIsInt
  <2>2. QED
    BY <1>6, <1>7, <2>1
<1>11. SumFunctionOnSet(b, U) = a + o
  <2>1. \A p \in U : b[p] \in Int
    BY <1>2, <1>5
  <2> HIDE DEF U, A
  <2>2. QED
    BY <1>2, <1>3, <1>6, <2>1, SumOfParts
<1>12. o + G <= (v + w) * Cardinality(A)
  <2> DEFINE y == [p \in 1..n |-> b[p] + g[p]]
  <2>1. \A p \in A : y[p] = b[p] + g[p] /\ y[p] \in Int /\ y[p] <= v + w
                     /\ b[p] \in Int /\ g[p] \in Int
    BY <1>1, <1>5, <1>6 DEF Round
  <2> HIDE DEF A, y
  <2>2. SumFunctionOnSet(y, A) = o + G
    BY <1>3, <1>6, <2>1, SumAdds
  <2>3. SumFunctionOnSet(y, A) <= (v + w) * Cardinality(A)
    <3>1. PICK z \in Int : z = v + w
      BY <1>7
    <3>2. \A p \in A : y[p] \in Int /\ y[p] <= z
      BY <2>1, <3>1
    <3>3. SumFunctionOnSet(y, A) <= z * Cardinality(A)
      BY <1>3, <3>2, SumBelow
    <3>4. QED
      BY <3>1, <3>3
  <2>4. QED
    BY <2>2, <2>3
<1>13. /\ 2 * (a - v) >= -Room(W, s - 1, n)
       /\ 2 * (a + o) >= -Room(W, s + Cardinality(A), n)
       /\ 2 * a >= -Room(W, s, n)
  BY <1>2, <1>4, <1>6, <1>10, <1>11 DEF Even
<1> HIDE DEF A, C, U, Q, s
<1>14. CASE Cardinality(A) = 0
  <2>1. A = {}
    BY <1>3, <1>14, FS_EmptySet
  <2>2. G = 0
    BY <1>6, <2>1, SumOfNothing
  <2>3. QED
    BY <1>7, <1>8, <1>13, <2>2 DEF s
<1>15. CASE Cardinality(A) # 0
  <2>1. PICK k : k = Cardinality(A)
    OBVIOUS
  <2>2. k \in Nat \ {0} /\ s \in Nat
    BY <1>3, <1>15, <2>1 DEF s
  <2>3. PICK L, V, R : L = Room(W, s - 1, n) /\ V = Room(W, s + k, n) /\ R = Room(W, s, n)
    OBVIOUS
  <2>4. L \in Int /\ V \in Int /\ R \in Int
    BY <2>2, <2>3 DEF Room
  <2>5. k * L + V + 2 * (k * W) <= (k + 1) * R
    BY <2>2, <2>3, RoomBetween
  <2>6. (v + w) * k = k * (v + w)
    BY <1>7, <2>2
  <2>7. o + G <= k * (v + w)
    BY <1>12, <2>1, <2>6
  <2>8. 2 * (a - v) >= -L /\ 2 * (a + o) >= -V
    BY <1>13, <2>1, <2>3
  <2>9. 2 * (a - G) >= -R
    BY <1>7, <1>9, <2>2, <2>4, <2>5, <2>7, <2>8, SumStays
  <2>10. QED
    BY <1>8, <2>3, <2>9 DEF s
<1>16. QED
  BY <1>14, <1>15

LEMMA EvenKept ==
    ASSUME NEW n \in Nat, NEW m, NEW W \in Nat, NEW T \in Nat, T <= W, NEW q, NEW b, NEW g,
           NEW x, Even(b, n, W), Round(b, g, x, n, m, q, T)
    PROVE  Even(x, n, W)
<1>1. \A p \in 1..n : x[p] \in Int
  <2>1. \A p \in 1..n : b[p] \in Int /\ g[p] \in Int
    BY DEF Even, Round
  <2>2. \A p \in 1..n : x[p] = b[p] + g[p] - (IF p = q THEN T ELSE 0)
    BY DEF Round
  <2>3. QED
    BY <2>1, <2>2
<1>2. q \in 1..n /\ 1..n \in SUBSET (1..n)
  BY DEF Round
<1>3. SumFunctionOnSet(x, 1..n) = 0
  <2>1. Settled(b, g, x, 1..n, q, T)
    BY <1>2, RoundSum
  <2>2. QED
    BY <1>2, <2>1 DEF Settled, Even, Round
<1>4. ASSUME NEW S \in SUBSET (1..n)
      PROVE  2 * SumFunctionOnSet(x, S) >= -Room(W, Cardinality(S), n)
  <2>1. CASE q \in S
    BY <2>1, WinnerPays
  <2>2. CASE q \notin S
    <3>1. /\ SumFunctionOnSet(x, S) = SumFunctionOnSet(b, S) + SumFunctionOnSet(g, S)
          /\ SumFunctionOnSet(b, S) \in Int /\ SumFunctionOnSet(g, S) \in Nat
      <4>1. Settled(b, g, x, S, q, T)
        BY RoundSum
      <4>2. QED
        BY <2>2, <4>1 DEF Settled
    <3>2. 2 * SumFunctionOnSet(b, S) >= -Room(W, Cardinality(S), n)
      BY DEF Even
    <3>3. Room(W, Cardinality(S), n) \in Int
      BY SetFacts DEF Room
    <3>4. QED
      BY <3>1, <3>2, <3>3
  <2>3. QED
    BY <2>1, <2>2
<1>5. QED
  BY <1>1, <1>3, <1>4 DEF Even

---------------------------------------------------------------------------------
\* The credits without the weights that call c has added.
Net(c, w) ==
    [p \in DOMAIN w |-> w[p] - (IF p <= Added(c) THEN WeightOf[c.slice[p]] ELSE 0)]

\* A slice of the pool, of no more backends than there are.
FromPool(s) == \E R \in SUBSET Backends : s = InPoolOrder(R)

\* What holds of the credits w and the only call c.
Level(c, w) ==
    /\ Len(w) <= NumBackends
    /\ Even(Net(c, w), Len(w), AllWeights)
    /\ c.stage # "idle" => FromPool(c.slice)
    /\ Looked(c, w)
    /\ c.stage = "subtract" => c.pos <= Len(w)

LEMMA AllWeightsFacts ==
    /\ AllWeights \in Nat /\ NumBackends \in Nat /\ I64Min \in Int
    /\ 2 * I64Min < -(NumBackends * AllWeights)
<1>1. AllWeights = SumFunctionOnSet(WeightOf, Backends)
  BY WeightAssumption DEF AllWeights, SumFunction
<1>2. \A b \in Backends : WeightOf[b] \in Nat
  BY WeightAssumption
<1>3. AllWeights \in Nat
  BY <1>1, <1>2, BackendsFinite, SumIsNat
<1>4. QED
  BY <1>3, WeightAssumption, SpreadAssumption

\* A select adds no more than all weights.
LEMMA SliceFacts ==
    ASSUME NEW s, FromPool(s)
    PROVE  /\ s \in Seq(Backends) /\ Len(s) \in Nat /\ Len(s) <= NumBackends
           /\ \A p \in 1..Len(s) : WeightOf[s[p]] \in Nat
           /\ Total(s, Len(s)) \in Nat /\ Total(s, Len(s)) <= AllWeights
<1>1. PICK R \in SUBSET Backends : s = InPoolOrder(R)
  BY DEF FromPool
<1>2. R \in SUBSET Nat /\ IsFiniteSet(R) /\ IsFiniteSet(Backends)
  BY BackendsFinite, FS_Subset
<1>3. PICK m : m = Cardinality(R)
  OBVIOUS
<1>4. /\ m \in Nat /\ s \in [1..m -> R] /\ s \in Seq(R) /\ Len(s) = m
  BY <1>1, <1>2, <1>3, InPoolOrderFacts, FS_CardinalityType
<1>5. m <= NumBackends
  <2>1. m <= Cardinality(Backends)
    BY <1>2, <1>3, FS_Subset
  <2>2. Cardinality(Backends) = NumBackends
    <3>1. 1 \in Int /\ NumBackends \in Nat /\ NumBackends \in Int
      BY WeightAssumption
    <3>2. Cardinality(1..NumBackends) = IF 1 > NumBackends THEN 0 ELSE NumBackends - 1 + 1
      BY <3>1, FS_Interval
    <3>3. QED
      BY <3>1, <3>2 DEF Backends
  <2>3. QED
    BY <2>1, <2>2
<1>6. s \in Seq(Backends)
  <2>1. s \in [1..m -> Backends]
    BY <1>4
  <2> HIDE DEF Backends
  <2>2. QED
    BY <1>4, <2>1
<1>7. /\ \A p \in 1..m : s[p] \in R
      /\ \A b \in R : \E p \in 1..m : s[p] = b
      /\ \A p, q \in 1..m : s[p] = s[q] => p = q
  BY <1>1, <1>2, <1>3, <1>4, InPoolOrderOnto
<1> DEFINE f == [p \in 1..m |-> WeightOf[s[p]]]
<1>8. \A p \in 1..m : f[p] = WeightOf[s[p]] /\ WeightOf[s[p]] \in Nat
  BY <1>7, WeightAssumption
<1>9. Total(s, m) = SumFunctionOnSet(f, 1..m)
  BY DEF Total, SumFunction
<1> HIDE DEF f
<1>10. SumFunctionOnSet(f, 1..m) = SumFunctionOnSet(WeightOf, R)
  <2>1. PICK P : P = 1..m
    OBVIOUS
  <2>2. IsFiniteSet(P)
    <3>1. 1 \in Int /\ m \in Int
      BY <1>4
    <3>2. QED
      BY <2>1, <3>1, FS_Interval
  <2>3. Indexes(s, P, R)
    BY <1>7, <2>1 DEF Indexes
  <2>4. \A p \in P : f[p] \in Int /\ f[p] = WeightOf[s[p]]
    BY <1>8, <2>1
  <2>5. SumFunctionOnSet(f, P) = SumFunctionOnSet(WeightOf, R)
    BY <2>2, <2>3, <2>4, SumReindexed
  <2>6. QED
    BY <2>1, <2>5
<1>11. SumFunctionOnSet(WeightOf, R) \in Nat /\ SumFunctionOnSet(WeightOf, R) <= AllWeights
  <2>1. \A b \in Backends : WeightOf[b] \in Nat /\ WeightOf[b] \in Int
    BY WeightAssumption
  <2>2. PICK Q : Q = Backends \ R
    OBVIOUS
  <2>3. IsFiniteSet(Q) /\ \A b \in Q : WeightOf[b] \in Nat
    BY <1>2, <2>1, <2>2, FS_Subset
  <2>4. SumFunctionOnSet(WeightOf, R) \in Nat /\ SumFunctionOnSet(WeightOf, Q) \in Nat
    BY <1>2, <2>1, <2>3, SumIsNat
  <2>5. SumFunctionOnSet(WeightOf, Backends)
            = SumFunctionOnSet(WeightOf, R) + SumFunctionOnSet(WeightOf, Q)
    BY <1>2, <2>1, <2>2, SumOfParts
  <2>6. AllWeights = SumFunctionOnSet(WeightOf, Backends)
    BY WeightAssumption DEF AllWeights, SumFunction
  <2>7. QED
    BY <2>4, <2>5, <2>6
<1>12. QED
  BY <1>4, <1>5, <1>6, <1>8, <1>9, <1>10, <1>11

\* The credits between their bounds.
LEMMA EvenBounds ==
    ASSUME NEW n \in Nat, NEW W \in Nat, NEW b, Even(b, n, W), NEW p \in 1..n
    PROVE  2 * b[p] >= -(W * (n - 1)) /\ 2 * b[p] <= W * (n - 1)
<1> DEFINE S == {p}
           Q == (1..n) \ {p}
<1>1. /\ S \in SUBSET (1..n) /\ Q \in SUBSET (1..n) /\ IsFiniteSet(1..n)
      /\ IsFiniteSet(S) /\ IsFiniteSet(Q)
  BY SetFacts, FS_Subset
<1>2. Cardinality(S) = 1 /\ Cardinality(Q) = n - 1
  <2>1. Cardinality(S) = 1
    BY FS_Singleton
  <2>2. Cardinality(1..n) = n
    <3>1. 1 \in Int /\ n \in Int /\ 1 <= n
      OBVIOUS
    <3>2. Cardinality(1..n) = IF 1 > n THEN 0 ELSE n - 1 + 1
      BY <3>1, FS_Interval
    <3>3. QED
      BY <3>1, <3>2
  <2>3. Cardinality(Q) = Cardinality(1..n) - 1
    BY <1>1, FS_RemoveElement
  <2>4. QED
    BY <2>1, <2>2, <2>3
<1>3. \A i \in 1..n : b[i] \in Int
  BY DEF Even
<1>4. SumFunctionOnSet(b, 1..n) = b[p] + SumFunctionOnSet(b, Q) /\ SumFunctionOnSet(b, Q) \in Int
  BY <1>1, <1>3, SumWithout, SumIsInt
<1>5. SumFunctionOnSet(b, S) = b[p]
  <2>1. S \ {p} = {} /\ p \in S /\ \A i \in S : b[i] \in Int
    BY <1>3
  <2>2. SumFunctionOnSet(b, S) = b[p] + SumFunctionOnSet(b, S \ {p})
    BY <1>1, <2>1, SumWithout
  <2>3. QED
    BY <1>3, <2>1, <2>2, SumOfNothing
<1>6. Room(W, 1, n) = W * (n - 1) /\ Room(W, n - 1, n) = W * (n - 1)
  <2>1. 1 * (n - 1) = n - 1 /\ (n - 1) * (n - (n - 1)) = n - 1
    OBVIOUS
  <2>2. QED
    BY <2>1 DEF Room
<1> HIDE DEF S, Q
<1>7. 2 * SumFunctionOnSet(b, S) >= -Room(W, 1, n) /\ 2 * SumFunctionOnSet(b, Q) >= -Room(W, n - 1, n)
  BY <1>1, <1>2 DEF Even
<1>8. b[p] + SumFunctionOnSet(b, Q) = 0
  BY <1>4 DEF Even
<1>9. QED
  BY <1>3, <1>4, <1>5, <1>6, <1>7, <1>8

\* A weight is one of all.
LEMMA WeightInAll ==
    ASSUME NEW b \in Backends
    PROVE  WeightOf[b] \in Nat /\ WeightOf[b] <= AllWeights
<1> DEFINE Q == Backends \ {b}
<1>1. IsFiniteSet(Backends) /\ IsFiniteSet(Q)
  BY BackendsFinite, FS_Subset
<1>2. (\A i \in Backends : WeightOf[i] \in Nat) /\ \A i \in Q : WeightOf[i] \in Nat
  BY WeightAssumption
<1> HIDE DEF Q
<1>3. SumFunctionOnSet(WeightOf, Q) \in Nat
  BY <1>1, <1>2, SumIsNat
<1>4. SumFunctionOnSet(WeightOf, Backends) = WeightOf[b] + SumFunctionOnSet(WeightOf, Q)
  BY <1>1, <1>2, SumWithout DEF Q
<1>5. AllWeights = SumFunctionOnSet(WeightOf, Backends)
  BY WeightAssumption DEF AllWeights, SumFunction
<1>6. QED
  BY <1>2, <1>3, <1>4, <1>5

\* The bounds of credits in the middle of a call.
LEMMA LevelBounds ==
    ASSUME NEW c, NEW w \in Seq(Int), Level(c, w), Added(c) \in Nat, NEW p \in DOMAIN w,
           c.stage = "idle" => Added(c) = 0, Added(c) <= Len(c.slice) \/ c.stage = "idle"
    PROVE  /\ 2 * w[p] >= -(AllWeights * (Len(w) - 1))
           /\ 2 * w[p] <= AllWeights * (Len(w) + 1)
           /\ w[p] > I64Min
<1> DEFINE n == Len(w)
           g == IF p <= Added(c) THEN WeightOf[c.slice[p]] ELSE 0
           B == AllWeights * (n - 1)
<1>1. n \in Nat /\ DOMAIN w = 1..n /\ w[p] \in Int /\ p \in 1..n /\ n <= NumBackends
  BY DEF Level
<1>2. AllWeights \in Nat /\ NumBackends \in Nat /\ I64Min \in Int
      /\ 2 * I64Min < -(NumBackends * AllWeights)
  BY AllWeightsFacts
<1>3. g \in Nat /\ g <= AllWeights
  <2>1. CASE p <= Added(c)
    <3>1. FromPool(c.slice) /\ p <= Len(c.slice)
      BY <1>1, <2>1 DEF Level
    <3>2. PICK s, m : s = c.slice /\ m = Len(s)
      OBVIOUS
    <3>3. m \in Nat /\ p \in 1..m /\ s[p] \in Backends
      BY <1>1, <3>1, <3>2, SliceFacts
    <3>4. WeightOf[s[p]] \in Nat /\ WeightOf[s[p]] <= AllWeights
      BY <3>3, WeightInAll
    <3>5. QED
      BY <2>1, <3>2, <3>4
  <2>2. CASE ~(p <= Added(c))
    BY <1>2, <2>2
  <2>3. QED
    BY <2>1, <2>2
<1>4. Net(c, w)[p] = w[p] - g
  BY DEF Net
<1>5. PICK b : b = Net(c, w)
  OBVIOUS
<1>6. Even(b, n, AllWeights)
  BY <1>5 DEF Level
<1> HIDE DEF g
<1>7. 2 * b[p] >= -(AllWeights * (n - 1)) /\ 2 * b[p] <= AllWeights * (n - 1)
  BY <1>1, <1>2, <1>6, EvenBounds
<1>8. B \in Int /\ B + 2 * AllWeights = AllWeights * (n + 1) /\ B <= NumBackends * AllWeights
  <2>1. B + 2 * AllWeights = AllWeights * (n + 1) /\ B \in Int
    BY <1>1, <1>2
  <2>2. \A a, x, y \in Nat : x <= y => a * x <= y * a
    OBVIOUS
  <2>3. n - 1 \in Nat /\ n - 1 <= NumBackends
    BY <1>1, <1>2
  <2>4. B <= NumBackends * AllWeights
    BY <1>2, <2>2, <2>3
  <2>5. QED
    BY <2>1, <2>4
<1>9. 2 * b[p] >= -B /\ 2 * b[p] <= B /\ b[p] = w[p] - g
  BY <1>4, <1>5, <1>7
<1>10. PICK v, M : v = w[p] /\ M = NumBackends * AllWeights
  OBVIOUS
<1>11. M \in Int /\ v \in Int
  BY <1>1, <1>2, <1>10
<1> HIDE DEF B
<1>12. 2 * v >= -B /\ 2 * v <= B + 2 * AllWeights /\ v > I64Min
  <2>1. PICK x : x = b[p]
    OBVIOUS
  <2>2. x = v - g /\ 2 * x >= -B /\ 2 * x <= B
    BY <1>9, <1>10, <2>1
  <2>3. B \in Int /\ B <= M /\ 2 * I64Min < -M
    BY <1>2, <1>8, <1>10
  <2>4. QED
    BY <1>2, <1>3, <1>11, <2>2, <2>3
<1>13. QED
  BY <1>8, <1>10, <1>12 DEF B, n

LEMMA SelectLevels ==
    ASSUME IInv, NEW t \in Callers, Level(call[t], credits), Select(t)
    PROVE  Level(call'[t], credits')
<1>1. PICK c, d : c = call[t] /\ d = call'[t]
  OBVIOUS
<1>2. /\ c.stage = "idle" /\ d.stage = "init" /\ d.slice = InPoolOrder(rotation)
      /\ credits' = credits
  BY <1>1, SelectDoes DEF Order
<1>3. Added(c) = 0 /\ Added(d) = 0
  BY <1>2 DEF Added
<1>4. Net(d, credits) = Net(c, credits)
  <2>1. \A p \in DOMAIN credits : ~(p <= 0)
    BY DEF IInv
  <2>2. QED
    BY <1>3, <2>1 DEF Net
<1>5. FromPool(d.slice)
  BY <1>2 DEF FromPool, IInv
<1>6. Looked(d, credits)
  BY <1>2 DEF Looked
<1>7. QED
  BY <1>1, <1>2, <1>4, <1>5, <1>6 DEF Level

\* All zeros are even.
LEMMA EvenAtFirst ==
    ASSUME NEW n \in Nat, NEW W \in Nat, NEW b, \A p \in 1..n : b[p] = 0
    PROVE  Even(b, n, W)
<1>1. ASSUME NEW S \in SUBSET (1..n)
      PROVE  SumFunctionOnSet(b, S) = 0 /\ 0 <= Room(W, Cardinality(S), n)
  <2>1. IsFiniteSet(S) /\ IsFiniteSet(1..n) /\ Cardinality(S) \in Nat
    BY SetFacts
  <2>2. SumFunctionOnSet(b, S) = 0
    BY <2>1, SumOfZeros
  <2>3. Cardinality(S) <= n
    <3>1. 1 \in Int /\ n \in Int
      OBVIOUS
    <3>2. Cardinality(1..n) = IF 1 > n THEN 0 ELSE n - 1 + 1
      BY <3>1, FS_Interval
    <3>3. Cardinality(S) <= Cardinality(1..n)
      BY <2>1, FS_Subset
    <3>4. QED
      BY <3>2, <3>3
  <2>4. n - Cardinality(S) \in Nat
    BY <2>1, <2>3
  <2>5. \A i, j, k \in Nat : i * (j * k) >= 0
    OBVIOUS
  <2>6. QED
    BY <2>1, <2>2, <2>4, <2>5 DEF Room
<1>2. \A S \in SUBSET (1..n) : 2 * SumFunctionOnSet(b, S) >= -Room(W, Cardinality(S), n)
  <2>1. SUFFICES ASSUME NEW S \in SUBSET (1..n)
                 PROVE  2 * SumFunctionOnSet(b, S) >= -Room(W, Cardinality(S), n)
    OBVIOUS
  <2>2. Room(W, Cardinality(S), n) \in Int
    BY SetFacts DEF Room
  <2>3. QED
    BY <1>1, <2>2
<1>3. SumFunctionOnSet(b, 1..n) = 0
  BY <1>1
<1>4. QED
  BY <1>2, <1>3 DEF Even

LEMMA GetOrInitLevels ==
    ASSUME IInv, NEW t \in Callers, Level(call[t], credits), GetOrInit(t)
    PROVE  Level(call'[t], credits')
<1>1. PICK c, d, w, x : c = call[t] /\ d = call'[t] /\ w = credits /\ x = credits'
  OBVIOUS
<1>2. /\ c.stage = "init" /\ d.stage = "add" /\ d.slice = c.slice /\ d.pos = 1
      /\ d.bestCredit = I64Min /\ x = IF w = <<>> THEN [p \in DOMAIN c.slice |-> 0] ELSE w
  BY <1>1, GetOrInitDoes
<1>3. Added(c) = 0 /\ Added(d) = 0 /\ Scanned(d) = 0
  BY <1>2 DEF Added, Scanned
<1>4. Level(c, w) /\ FromPool(d.slice) /\ w \in Seq(Int)
  BY <1>1, <1>2 DEF Level, IInv
<1>5. Looked(d, x)
  BY <1>2, <1>3 DEF Looked, Best
<1>6. Len(x) <= NumBackends /\ Even(Net(d, x), Len(x), AllWeights)
  <2>1. CASE w = <<>>
    <3>1. /\ c.slice \in Seq(Backends) /\ Len(c.slice) \in Nat /\ Len(c.slice) <= NumBackends
          /\ DOMAIN c.slice = 1..Len(c.slice)
      BY <1>2, <1>4, SliceFacts
    <3>2. PICK n : n = Len(c.slice)
      OBVIOUS
    <3>3. x = [p \in 1..n |-> 0] /\ n \in Nat
      BY <1>2, <2>1, <3>1, <3>2
    <3>4. Len(x) = n
      BY <3>3
    <3>5. \A p \in 1..n : Net(d, x)[p] = 0
      BY <1>3, <3>3 DEF Net
    <3>6. Even(Net(d, x), n, AllWeights)
      <4>1. PICK b, W : b = Net(d, x) /\ W = AllWeights
        OBVIOUS
      <4>2. Even(b, n, W)
        BY <3>3, <3>5, <4>1, AllWeightsFacts, EvenAtFirst
      <4>3. QED
        BY <4>1, <4>2
    <3>7. QED
      BY <3>1, <3>2, <3>4, <3>6
  <2>2. CASE w # <<>>
    <3>1. x = w
      BY <1>2, <2>2
    <3>2. Net(d, w) = Net(c, w)
      BY <1>2, <1>3 DEF Net
    <3>3. QED
      BY <1>4, <3>1, <3>2 DEF Level
  <2>3. QED
    BY <2>1, <2>2
<1>7. QED
  BY <1>1, <1>2, <1>4, <1>5, <1>6 DEF Level

\* Adding a weight, at a position of the credits or past them.
LEMMA AddWeightIs ==
    ASSUME IInv, NEW t \in Callers, AddWeight(t)
    PROVE  LET c == call[t]
               d == call'[t]
               p == c.pos
           IN  /\ c.stage = "add" /\ d.pos = p /\ Same(c, d) /\ p \in Nat \ {0}
               /\ \/ /\ p \in DOMAIN credits /\ d.stage = "compare"
                     /\ credits' = [credits EXCEPT ![p] = @ + WeightOf[c.slice[p]]]
                     /\ WeightOf[c.slice[p]] \in Nat
                  \/ d.stage = "panicked" /\ credits' = credits
<1> DEFINE p == call[t].pos
           stage == IF p \in DOMAIN credits THEN "compare" ELSE "panicked"
<1>1. /\ call[t] \in Call /\ Fits(call[t], credits) /\ call[t].stage = "add"
      /\ p \in DOMAIN call[t].slice /\ p \in Nat \ {0} /\ call[t].slice[p] \in Backends
  <2>1. /\ call[t] \in Call /\ Fits(call[t], credits) /\ call[t].stage = "add"
        /\ p \in DOMAIN call[t].slice
    BY CallFacts DEF AddWeight, Fits, Looping
  <2>2. p \in 1..Len(call[t].slice) /\ Len(call[t].slice) \in Nat
        /\ call[t].slice \in Seq(Backends)
    BY <2>1, CallFacts
  <2>3. QED
    BY <2>1, <2>2
<1>2. call'[t] = [call[t] EXCEPT !.stage = stage, !.totalWeight = @ + Weight(t, p)]
  BY DEF AddWeight, IInv
<1> HIDE DEF stage
<1>3. call'[t].stage = stage /\ call'[t].pos = p /\ Same(call[t], call'[t])
  BY <1>1, <1>2 DEF Same, Call
<1>4. CASE p \in DOMAIN credits
  <2>1. credits' = [credits EXCEPT ![p] = @ + WeightOf[call[t].slice[p]]]
    BY <1>4 DEF AddWeight, Weight
  <2>2. QED
    BY <1>1, <1>3, <1>4, <2>1, WeightAssumption DEF stage
<1>5. CASE p \notin DOMAIN credits
  <2>1. credits' = credits
    BY <1>5 DEF AddWeight
  <2>2. QED
    BY <1>1, <1>3, <1>5, <2>1 DEF stage
<1>6. QED
  BY <1>4, <1>5

LEMMA AddWeightLevels ==
    ASSUME IInv, NEW t \in Callers, Level(call[t], credits), AddWeight(t)
    PROVE  Level(call'[t], credits')
<1>1. PICK c, d, w, x, p :
         /\ c = call[t] /\ d = call'[t] /\ w = credits /\ x = credits' /\ p = call[t].pos
  OBVIOUS
<1>2. /\ c.stage = "add" /\ d.pos = p /\ c.pos = p /\ Same(c, d) /\ p \in Nat \ {0}
      /\ \/ /\ p \in DOMAIN w /\ d.stage = "compare"
            /\ x = [w EXCEPT ![p] = @ + WeightOf[c.slice[p]]]
            /\ WeightOf[c.slice[p]] \in Nat
         \/ d.stage = "panicked" /\ x = w
  BY <1>1, AddWeightIs
<1>3. Level(c, w) /\ w \in Seq(Int) /\ d.slice = c.slice /\ FromPool(d.slice)
  BY <1>1, <1>2 DEF Level, IInv, Same
<1>4. CASE /\ p \in DOMAIN w /\ d.stage = "compare"
           /\ x = [w EXCEPT ![p] = @ + WeightOf[c.slice[p]]]
           /\ WeightOf[c.slice[p]] \in Nat
  <2>1. Added(c) = p - 1 /\ Added(d) = p
    BY <1>2, <1>4 DEF Added
  <2>2. /\ DOMAIN x = DOMAIN w /\ Len(x) = Len(w) /\ x[p] = w[p] + WeightOf[c.slice[p]]
        /\ \A q \in DOMAIN w : q # p => x[q] = w[q]
        /\ \A q \in DOMAIN w : w[q] \in Int /\ q \in Nat
    BY <1>3, <1>4
  <2>3. ASSUME NEW q \in DOMAIN w PROVE Net(d, x)[q] = Net(c, w)[q]
    <3>1. Net(d, x)[q] = x[q] - (IF q <= p THEN WeightOf[c.slice[q]] ELSE 0)
      BY <1>3, <2>1, <2>2 DEF Net
    <3>2. Net(c, w)[q] = w[q] - (IF q <= p - 1 THEN WeightOf[c.slice[q]] ELSE 0)
      BY <2>1 DEF Net
    <3>3. CASE q = p
      <4>1. q <= p /\ ~(q <= p - 1)
        BY <1>2, <3>3
      <4>2. QED
        BY <1>4, <2>2, <3>1, <3>2, <3>3, <4>1
    <3>4. CASE q # p
      <4>1. (q <= p <=> q <= p - 1) /\ x[q] = w[q]
        BY <1>2, <2>2, <3>4
      <4>2. QED
        BY <3>1, <3>2, <4>1
    <3>5. QED
      BY <3>3, <3>4
  <2>4. Net(d, x) = Net(c, w)
    <3>1. DOMAIN Net(d, x) = DOMAIN w /\ DOMAIN Net(c, w) = DOMAIN w
      BY <2>2 DEF Net
    <3>2. PICK a, b : a = Net(d, x) /\ b = Net(c, w)
      OBVIOUS
    <3>3. a = [q \in DOMAIN a |-> a[q]] /\ b = [q \in DOMAIN b |-> b[q]]
      BY <3>2 DEF Net
    <3>4. QED
      BY <2>3, <3>1, <3>2, <3>3
  <2>5. Looked(d, x)
    <3>1. p \in 1..Len(w)
      BY <1>3, <1>4
    <3>2. \A q \in 1..(p - 1) : x[q] = w[q]
      BY <1>2, <1>3, <2>2, <3>1
    <3>3. Looked(c, w)
      BY <1>3 DEF Level
    <3>4. QED
      BY <1>2, <1>4, <3>2, <3>3, AddLooks
  <2>6. QED
    BY <1>1, <1>3, <1>4, <2>2, <2>4, <2>5 DEF Level
<1>5. CASE d.stage = "panicked" /\ x = w
  <2>1. Added(d) = Added(c) /\ Looked(d, w)
    BY <1>2, <1>5 DEF Added, Looked
  <2>2. Net(d, w) = Net(c, w)
    BY <1>3, <2>1 DEF Net
  <2>3. QED
    BY <1>1, <1>3, <1>5, <2>1, <2>2 DEF Level
<1>6. QED
  BY <1>2, <1>4, <1>5

\* What the steps in the loop that only read have in common.
LEMMA ReadingFacts ==
    ASSUME IInv, NEW t \in Callers, Level(call[t], credits), call[t].stage \in {"compare", "take"}
    PROVE  LET c == call[t]
           IN  /\ c.pos \in Nat \ {0} /\ c.pos \in DOMAIN credits /\ c.bestCredit \in Int
               /\ Added(c) = c.pos /\ credits \in Seq(Int) /\ Looked(c, credits)
               /\ \A q \in 1..c.pos : credits[q] \in Int
               /\ credits[1] > I64Min /\ c.pos <= Len(credits)
<1>1. PICK c, w : c = call[t] /\ w = credits
  OBVIOUS
<1>2. /\ c \in Call /\ Fits(c, w) /\ w \in Seq(Int) /\ Level(c, w)
      /\ c.stage \in {"compare", "take"}
  BY <1>1, CallFacts DEF IInv
<1>3. c.pos \in DOMAIN w /\ c.bestCredit \in Int /\ Added(c) = c.pos /\ c.pos <= Len(c.slice)
  BY <1>2 DEF Fits, Call, Added
<1>4. c.pos \in 1..Len(w) /\ Len(w) \in Nat /\ DOMAIN w = 1..Len(w)
  BY <1>2, <1>3
<1>5. /\ c.pos \in Nat \ {0} /\ 1 \in DOMAIN w /\ c.pos <= Len(w)
      /\ \A q \in 1..c.pos : w[q] \in Int
  BY <1>2, <1>4
<1>6. w[1] > I64Min
  <2>1. Added(c) \in Nat /\ Added(c) <= Len(c.slice) /\ c.stage # "idle"
    BY <1>2, <1>3, <1>5
  <2>2. QED
    BY <1>2, <1>5, <2>1, LevelBounds
<1>7. Looked(c, w)
  BY <1>2 DEF Level
<1>8. QED
  BY <1>1, <1>2, <1>3, <1>5, <1>6, <1>7

LEMMA ReadingLevels ==
    ASSUME NEW c, NEW d, NEW w, Level(c, w), c.stage # "idle", d.slice = c.slice,
           Added(d) = Added(c), Looked(d, w), d.stage = "subtract" => d.pos <= Len(w)
    PROVE  Level(d, w)
<1>1. Net(d, w) = Net(c, w)
  BY DEF Net
<1>2. QED
  BY <1>1 DEF Level

LEMMA CompareLevels ==
    ASSUME IInv, NEW t \in Callers, Level(call[t], credits), Compare(t)
    PROVE  Level(call'[t], credits')
<1>1. PICK c, d, w, p : c = call[t] /\ d = call'[t] /\ w = credits /\ p = call[t].pos
  OBVIOUS
<1>2. /\ c.stage = "compare" /\ credits' = w /\ Same(c, d) /\ c.pos = p
      /\ \/ w[p] > c.bestCredit /\ d.stage = "take" /\ d.pos = p
         \/ ~(w[p] > c.bestCredit) /\ Moved(c, d)
  BY <1>1, CompareDoes
<1>3. /\ p \in Nat \ {0} /\ c.bestCredit \in Int /\ Looked(c, w) /\ w[1] > I64Min
      /\ p <= Len(w) /\ \A q \in 1..p : w[q] \in Int
  BY <1>1, <1>2, ReadingFacts
<1>4. Looked(d, w) /\ Added(c) = p /\ Added(d) = p
  BY <1>2, <1>3, CompareLooks
<1>5. /\ Level(c, w) /\ c.stage # "idle" /\ d.slice = c.slice /\ Added(d) = Added(c)
      /\ d.stage = "subtract" => d.pos <= Len(w)
  BY <1>1, <1>2, <1>3, <1>4 DEF Same, Moved
<1>6. Level(d, w)
  BY <1>4, <1>5, ReadingLevels
<1>7. QED
  BY <1>1, <1>2, <1>6

LEMMA TakeLevels ==
    ASSUME IInv, NEW t \in Callers, Level(call[t], credits), Take(t)
    PROVE  Level(call'[t], credits')
<1>1. PICK c, d, w, p : c = call[t] /\ d = call'[t] /\ w = credits /\ p = call[t].pos
  OBVIOUS
<1>2. /\ c.stage = "take" /\ credits' = w /\ d.slice = c.slice /\ c.pos = p
      /\ d.bestIndex = p /\ d.bestCredit = w[p] /\ Moved(c, d)
  BY <1>1, TakeDoes
<1>3. /\ p \in Nat \ {0} /\ c.bestCredit \in Int /\ Looked(c, w)
      /\ p <= Len(w) /\ \A q \in 1..p : w[q] \in Int
  BY <1>1, <1>2, ReadingFacts
<1>4. Looked(d, w) /\ Added(c) = p /\ Added(d) = p
  BY <1>2, <1>3, TakeLooks
<1>5. /\ Level(c, w) /\ c.stage # "idle" /\ Added(d) = Added(c)
      /\ d.stage = "subtract" => d.pos <= Len(w)
  BY <1>1, <1>2, <1>3, <1>4 DEF Moved
<1>6. Level(d, w)
  BY <1>2, <1>4, <1>5, ReadingLevels
<1>7. QED
  BY <1>1, <1>2, <1>6

\* The select returns: the round of EvenKept.
LEMMA SubtractLevels ==
    ASSUME IInv, TotalsKept, NEW t \in Callers, Level(call[t], credits), Subtract(t)
    PROVE  Level(call'[t], credits')
<1>1. PICK c, d, w, x, s, m, n, q, T :
         /\ c = call[t] /\ d = call'[t] /\ w = credits /\ x = credits' /\ s = c.slice
         /\ m = Len(s) /\ n = Len(w) /\ q = c.bestIndex /\ T = c.totalWeight
  OBVIOUS
<1>2. /\ c.stage = "subtract" /\ d.stage = "idle" /\ q \in DOMAIN w /\ c.pos \in DOMAIN s
      /\ x = [w EXCEPT ![q] = @ - T]
  BY <1>1, SubtractDoes
<1>3. Level(c, w) /\ w \in Seq(Int) /\ c \in Call /\ FromPool(s)
  BY <1>1, <1>2, CallFacts DEF IInv, Level
<1>4. /\ m \in Nat /\ c.pos = m /\ m # 0 /\ m <= n /\ n \in Nat /\ n <= NumBackends
      /\ DOMAIN w = 1..n /\ Best(c, w)
      /\ \A p \in 1..m : WeightOf[s[p]] \in Nat
      /\ Total(s, m) \in Nat /\ Total(s, m) <= AllWeights
  <2>1. /\ s \in Seq(Backends) /\ Len(s) \in Nat
        /\ \A p \in 1..Len(s) : WeightOf[s[p]] \in Nat
        /\ Total(s, Len(s)) \in Nat /\ Total(s, Len(s)) <= AllWeights
    BY <1>3, SliceFacts
  <2>2. c.pos = Len(s) /\ c.pos <= Len(w) /\ Len(w) <= NumBackends /\ Best(c, w)
    BY <1>1, <1>2, <1>3 DEF Level, Looked
  <2>3. c.pos # 0
    BY <1>2, <2>1
  <2>4. n \in Nat /\ DOMAIN w = 1..n
    BY <1>1, <1>3
  <2>5. QED
    BY <1>1, <2>1, <2>2, <2>3, <2>4
<1>5. Added(c) = m /\ Scanned(c) = m /\ Added(d) = 0
  BY <1>2, <1>4 DEF Added, Scanned
<1>6. T = Total(s, m)
  BY <1>1, <1>2, <1>5 DEF TotalsKept, Owes
<1>7. PICK b, g : /\ b = Net(c, w)
                  /\ g = [p \in 1..n |-> IF p <= m THEN WeightOf[s[p]] ELSE 0]
  OBVIOUS
<1>8. /\ \A p \in 1..n : b[p] = w[p] - g[p] /\ w[p] \in Int /\ g[p] \in Nat
      /\ \A p \in 1..n : p > m => g[p] = 0
      /\ \A p \in 1..m : g[p] = WeightOf[s[p]]
      /\ DOMAIN g = 1..n
  <2>1. \A p \in 1..n : g[p] = IF p <= m THEN WeightOf[s[p]] ELSE 0
    BY <1>7
  <2>2. \A p \in 1..n : b[p] = w[p] - g[p]
    BY <1>1, <1>4, <1>5, <1>7, <2>1 DEF Net
  <2>3. ASSUME NEW p \in 1..n PROVE g[p] \in Nat /\ (p > m => g[p] = 0)
    <3>1. CASE p <= m
      BY <1>4, <2>1, <3>1
    <3>2. CASE ~(p <= m)
      BY <1>4, <2>1, <3>2
    <3>3. QED
      BY <3>1, <3>2
  <2>4. \A p \in 1..m : p \in 1..n /\ p <= m
    BY <1>4
  <2>5. QED
    BY <1>3, <1>4, <1>7, <2>1, <2>2, <2>3, <2>4
<1>9. SumFunctionOnSet(g, 1..n) = T
  <2> DEFINE f == [p \in 1..m |-> WeightOf[s[p]]]
  <2>1. Total(s, m) = SumFunctionOnSet(f, 1..m)
    BY DEF Total, SumFunction
  <2>2. \A p \in 1..m : f[p] = g[p]
    BY <1>8
  <2> HIDE DEF f
  <2>3. PICK N, M : N = 1..n /\ M = 1..m
    OBVIOUS
  <2>4. M \in SUBSET N /\ IsFiniteSet(N) /\ IsFiniteSet(M)
    <3>1. M \in SUBSET N
      BY <1>4, <2>3
    <3>2. IsFiniteSet(N) /\ IsFiniteSet(M)
      BY <1>4, <2>3, SetFacts
    <3>3. QED
      BY <3>1, <3>2
  <2>5. SumFunctionOnSet(f, M) = SumFunctionOnSet(g, M)
    BY <2>2, <2>3, <2>4, SumSame
  <2>6. /\ \A p \in N : g[p] \in Int
        /\ \A p \in N \ M : g[p] = 0
    BY <1>4, <1>8, <2>3
  <2>7. SumFunctionOnSet(g, N) = SumFunctionOnSet(g, M)
    BY <2>4, <2>6, SumRestricted
  <2>8. QED
    BY <1>6, <2>1, <2>3, <2>5, <2>7
<1>10. /\ q \in 1..m
       /\ \A p \in 1..m : w[p] <= w[q]
  BY <1>1, <1>4, <1>5 DEF Best
<1>11. T \in Nat /\ T <= AllWeights
  BY <1>4, <1>6
<1>12. /\ DOMAIN x = 1..n /\ Len(x) = n
       /\ \A p \in 1..n : x[p] = w[p] - (IF p = q THEN T ELSE 0)
  <2>1. DOMAIN x = 1..n
    BY <1>2, <1>4
  <2>2. ASSUME NEW p \in 1..n PROVE x[p] = w[p] - (IF p = q THEN T ELSE 0)
    <3>1. w[p] \in Int
      BY <1>8
    <3>2. CASE p = q
      BY <1>2, <1>4, <3>2
    <3>3. CASE p # q
      BY <1>2, <1>4, <3>1, <3>3
    <3>4. QED
      BY <3>2, <3>3
  <2>3. Len(x) = n
    <3>1. x \in Seq(Int)
      <4>1. x = [w EXCEPT ![q] = w[q] - T] /\ w[q] - T \in Int
        BY <1>2, <1>4, <1>8, <1>11
      <4>2. QED
        BY <1>2, <1>3, <4>1, CreditWritten
    <3>2. QED
      BY <1>4, <2>1, <3>1
  <2>4. QED
    BY <2>1, <2>2, <2>3
<1>13. Round(b, g, x, n, m, q, T)
  <2>1. m \in 0..n
    BY <1>4
  <2>2. \A p \in 1..n : b[p] + g[p] = w[p]
    BY <1>8
  <2>3. \A p \in 1..m : p \in 1..n
    BY <1>4
  <2>4. \A p \in 1..m : b[p] + g[p] <= b[q] + g[q]
    BY <1>10, <2>2, <2>3
  <2>5. ASSUME NEW p \in 1..n PROVE x[p] = b[p] + g[p] - (IF p = q THEN T ELSE 0)
    <3>1. PICK v \in Nat : v = IF p = q THEN T ELSE 0
      BY <1>11
    <3>2. x[p] = w[p] - v /\ b[p] + g[p] = w[p]
      BY <1>12, <2>2, <3>1
    <3>3. w[p] \in Int /\ g[p] \in Int /\ b[p] \in Int
      BY <1>8
    <3>4. QED
      BY <3>1, <3>2, <3>3
  <2>6. QED
    BY <1>8, <1>9, <1>10, <2>1, <2>4, <2>5 DEF Round
<1>14. Even(x, n, AllWeights)
  <2>1. PICK W : W = AllWeights
    OBVIOUS
  <2>2. W \in Nat /\ T <= W /\ Even(b, n, W)
    BY <1>1, <1>3, <1>7, <1>11, <2>1, AllWeightsFacts DEF Level
  <2>3. Even(x, n, W)
    BY <1>4, <1>11, <1>13, <2>2, EvenKept
  <2>4. QED
    BY <2>1, <2>3
<1>15. Net(d, x) = x
  <2>1. \A p \in DOMAIN x : ~(p <= Added(d)) /\ x[p] - 0 = x[p]
    <3>1. ASSUME NEW p \in 1..n PROVE ~(p <= 0) /\ x[p] \in Int
      <4>1. PICK v \in Nat : v = IF p = q THEN T ELSE 0
        BY <1>11
      <4>2. x[p] = w[p] - v /\ w[p] \in Int
        BY <1>8, <1>12, <4>1
      <4>3. QED
        BY <1>4, <4>2
    <3>2. QED
      BY <1>5, <1>12, <3>1
  <2>2. Net(d, x) = [p \in DOMAIN x |-> x[p]]
    BY <2>1 DEF Net
  <2>3. x = [p \in DOMAIN x |-> x[p]]
    BY <1>2
  <2>4. QED
    BY <2>2, <2>3
<1>16. Looked(d, x)
  BY <1>2 DEF Looked
<1>17. Level(d, x)
  BY <1>2, <1>4, <1>12, <1>14, <1>15, <1>16 DEF Level
<1>18. QED
  BY <1>1, <1>17

---------------------------------------------------------------------------------
\* All callers but t are between two selects.
OthersIdle(t) == \A u \in Callers \ {t} : call[u].stage = "idle"

Levelled ==
    \/ Callers = {} /\ credits = <<>>
    \/ \E t \in Callers : OthersIdle(t) /\ Level(call[t], credits)

\* Whoever is idle has added nothing.
LEMMA IdleLevels ==
    ASSUME NEW c, NEW d, NEW w \in Seq(Int), c.stage = "idle", d.stage = "idle", Level(c, w)
    PROVE  Level(d, w)
<1>1. Added(c) = 0 /\ Added(d) = 0
  BY DEF Added
<1>2. Net(d, w) = Net(c, w)
  <2>1. \A p \in DOMAIN w : ~(p <= 0)
    OBVIOUS
  <2>2. QED
    BY <1>1, <2>1 DEF Net
<1>3. Looked(d, w)
  BY DEF Looked
<1>4. QED
  BY <1>2, <1>3 DEF Level

\* A caller that is idle can only begin.
LEMMA WorkOfIdle ==
    ASSUME NEW t \in Callers, call[t].stage = "idle", Work(t) \/ Subtract(t)
    PROVE  Select(t)
BY DEF Work, GetOrInit, AddWeight, Compare, Take, Subtract

LEMMA SpreadStep ==
    ASSUME IInv, IInv', TotalsKept, apart => Levelled, [SpreadNext]_spreadVars, apart'
    PROVE  Levelled'
<1>1. CASE UNCHANGED spreadVars
  BY <1>1 DEF spreadVars, vars, Levelled, OthersIdle
<1>2. CASE SpreadNext
  <2>1. apart /\ Levelled /\ Next /\ AtMostOne'
    BY <1>2 DEF SpreadNext
  <2>2. CASE PoolChanges
    BY <2>1, <2>2 DEF PoolChanges, Levelled, OthersIdle
  <2>3. ASSUME NEW t \in Callers, Work(t) \/ Subtract(t) PROVE Levelled'
    <3>1. \A u \in Callers \ {t} : call'[u] = call[u]
      BY <2>3, Frame
    <3>2. OthersIdle(t) /\ Level(call[t], credits)
      <4>1. PICK o \in Callers : OthersIdle(o) /\ Level(call[o], credits)
        BY <2>1, <2>3 DEF Levelled
      <4>2. CASE o = t
        BY <4>1, <4>2
      <4>3. CASE o # t
        <5>1. call[t].stage = "idle" /\ call'[o] = call[o]
          BY <3>1, <4>1, <4>3 DEF OthersIdle
        <5>2. call'[t].stage = "init"
          BY <2>3, <5>1, SelectDoes, WorkOfIdle
        <5>3. call[o].stage = "idle"
          BY <2>1, <4>3, <5>1, <5>2 DEF AtMostOne
        <5>4. Level(call[t], credits)
          <6>1. PICK c, d, w : c = call[o] /\ d = call[t] /\ w = credits
            OBVIOUS
          <6>2. w \in Seq(Int) /\ Level(d, w)
            BY <4>1, <5>1, <5>3, <6>1, IdleLevels DEF IInv
          <6>3. QED
            BY <6>1, <6>2
        <5>5. QED
          BY <4>1, <5>3, <5>4 DEF OthersIdle
      <4>4. QED
        BY <4>2, <4>3
    <3>3. Level(call'[t], credits')
      BY <2>3, <3>2, SelectLevels, GetOrInitLevels, AddWeightLevels, CompareLevels, TakeLevels,
         SubtractLevels DEF Work
    <3>4. OthersIdle(t)'
      BY <3>1, <3>2 DEF OthersIdle
    <3>5. QED
      BY <3>3, <3>4 DEF Levelled
  <2>4. QED
    BY <2>1, <2>2, <2>3 DEF Next
<1>3. QED
  BY <1>1, <1>2

LEMMA SpreadInitial ==
    ASSUME SpreadInit, IInv
    PROVE  Levelled
<1>1. CASE Callers = {}
  BY <1>1 DEF SpreadInit, Init, Levelled
<1>2. CASE Callers # {}
  <2>1. PICK t \in Callers : TRUE
    BY <1>2
  <2>2. PICK c, w : c = call[t] /\ w = credits
    OBVIOUS
  <2>3. w = <<>> /\ c.stage = "idle" /\ OthersIdle(t)
    BY <2>2 DEF SpreadInit, Init, NoCall, OthersIdle
  <2>4. Len(w) = 0 /\ Looked(c, w) /\ 0 <= NumBackends
    BY <2>3, AllWeightsFacts DEF Looked
  <2>5. Even(Net(c, w), 0, AllWeights)
    <3>1. PICK b, W : b = Net(c, w) /\ W = AllWeights
      OBVIOUS
    <3>2. W \in Nat /\ \A p \in 1..0 : b[p] = 0
      BY <3>1, AllWeightsFacts
    <3>3. Even(b, 0, W)
      BY <3>2, EvenAtFirst
    <3>4. QED
      BY <3>1, <3>3
  <2>6. Level(c, w)
    BY <2>3, <2>4, <2>5 DEF Level
  <2>7. QED
    BY <2>1, <2>2, <2>3, <2>6 DEF Levelled
<1>3. QED
  BY <1>1, <1>2

LEMMA SpreadFollows ==
    ASSUME IInv, apart => Levelled
    PROVE  SpreadBounded
<1> SUFFICES ASSUME apart, NEW p \in DOMAIN credits
             PROVE  /\ 2 * credits[p] >= -(AllWeights * (Len(credits) - 1))
                    /\ 2 * credits[p] <= AllWeights * (Len(credits) + 1)
  BY DEF SpreadBounded
<1>1. PICK t \in Callers : Level(call[t], credits)
  BY DEF Levelled
<1>2. PICK c, w : c = call[t] /\ w = credits
  OBVIOUS
<1>3. Added(c) \in Nat /\ Added(c) <= Len(c.slice) /\ w \in Seq(Int) /\ (c.stage = "idle" => Added(c) = 0)
  BY <1>2, AddedFacts DEF IInv, Added
<1>4. /\ 2 * w[p] >= -(AllWeights * (Len(w) - 1))
      /\ 2 * w[p] <= AllWeights * (Len(w) + 1)
  BY <1>1, <1>2, <1>3, LevelBounds
<1>5. QED
  BY <1>2, <1>4

LEMMA SpreadImplementsSpec == SpreadSpec => Spec
<1>1. SpreadInit => Init
  BY DEF SpreadInit
<1>2. [SpreadNext]_spreadVars => [Next]_vars
  BY DEF SpreadNext, spreadVars
<1>3. QED
  BY <1>1, <1>2, PTL DEF SpreadSpec, Spec

(***************************************************************************)
(* As long as selects follow one another, no change of rotation, nor any   *)
(* sequence of them, brings a credit out of a range that the configured    *)
(* weights determine: credits are inherited by position                    *)
(* (weighted_round_robin.rs:60-72), and what is inherited does not add up. *)
(***************************************************************************)
THEOREM WeightedSpreadBounded == SpreadSpec => []SpreadBounded
<1>1. SpreadSpec => [](IInv /\ TotalsKept)
  BY SpreadImplementsSpec, BalanceInvariant, PTL
<1>2. ASSUME SpreadInit, IInv PROVE apart => Levelled
  BY <1>2, SpreadInitial
<1>3. ASSUME IInv, IInv', TotalsKept, apart => Levelled, [SpreadNext]_spreadVars
      PROVE  (apart => Levelled)'
  BY <1>3, SpreadStep
<1>4. ASSUME IInv, apart => Levelled PROVE SpreadBounded
  BY <1>4, SpreadFollows
<1>5. QED
  BY <1>1, <1>2, <1>3, <1>4, PTL DEF SpreadSpec
=================================================================================
