----------------------------- MODULE WeightedShares -----------------------------
(***************************************************************************)
(* How the weighted round robin shares out requests while the rotation     *)
(* stays what it was at the first select.  The picks are counted in cycles *)
(* of as many requests as the weights in rotation add up to.               *)
(***************************************************************************)
EXTENDS WeightedRoundRobin

(***************************************************************************)
(* The weights are u32 and I64Min is i64::MIN: no pool has so many         *)
(* backends that a credit could get as low.                                *)
(***************************************************************************)
ASSUME SharesAssumption ==
    \A S \in SUBSET Backends : I64Min <= -SumFunction([b \in S |-> WeightOf[b]])

(***************************************************************************)
(* select does not await, so no more selects overlap than the runtime has  *)
(* threads: hundreds at most, too few to bring the credits near i64::MIN.  *)
(***************************************************************************)
ASSUME DriftAssumption ==
    LET k == Cardinality(Callers)
    IN  \A S \in SUBSET Backends :
            2 * I64Min <= -(k * (k + 1) * SumFunction([b \in S |-> WeightOf[b]]))

VARIABLES
    picks,      \* picks[b]: how often select returned b in the present cycle
    winners,    \* the backends it returned in the present cycle, in order
    sequential  \* no two selects have overlapped so far

shareVars == <<vars, picks, winners, sequential>>

NoPicks == [b \in Backends |-> 0]

CycleLength == SumFunction([b \in rotation |-> WeightOf[b]])

CycleOver == SumFunction(picks) = CycleLength

SharesInit ==
    /\ Init
    /\ rotation # {}
    /\ CycleLength > 0
    /\ picks = NoPicks
    /\ winners = <<>>
    /\ sequential = TRUE

\* A select returns; it opens a new cycle if the one before is over.
Return(t) ==
    LET b == Winner(t)
    IN  /\ Subtract(t)
        /\ picks' = [(IF CycleOver THEN NoPicks ELSE picks) EXCEPT ![b] = @ + 1]
        /\ winners' = Append(IF CycleOver THEN <<>> ELSE winners, b)
        /\ UNCHANGED sequential

\* A step before the return, by a caller that may not be the only one.
Proceed(t) ==
    /\ Work(t)
    /\ sequential' = (sequential /\ \A u \in Callers \ {t} : call[u].stage = "idle")
    /\ UNCHANGED <<picks, winners>>

SharesNext == \E t \in Callers : Proceed(t) \/ Return(t)

SharesSpec == SharesInit /\ [][SharesNext]_shareVars

---------------------------------------------------------------------------------
(***************************************************************************)
(* As long as selects follow one another, a cycle of them returns each     *)
(* backend exactly as often as its weight says (README: "proportional to   *)
(* weight").                                                               *)
(***************************************************************************)
ExactShares == sequential /\ CycleOver => \A b \in rotation : picks[b] = WeightOf[b]

\* As many returns in a row as b has in a cycle were all of b.
Burst(b) ==
    \E n \in DOMAIN winners :
        \A k \in n .. (n + WeightOf[b] - 1) : k \in DOMAIN winners /\ winners[k] = b

(***************************************************************************)
(* As long as selects follow one another, the picks of a backend that has  *)
(* more than one of them in a cycle, and shares the cycle with others, do  *)
(* not all come in a row (README: the split comes "without bursting all    *)
(* five requests to the first backend in a row").                          *)
(***************************************************************************)
NoBurst ==
    sequential =>
        \A b, other \in rotation :
            b # other /\ WeightOf[b] > 1 /\ WeightOf[other] > 0 => ~Burst(b)

(***************************************************************************)
(* As long as selects follow one another, no backend is ever a whole       *)
(* request ahead of its exact share.  (Its credit is -CycleLength times    *)
(* the distance.  A backend may fall more than one request behind, with    *)
(* many backends of unlike weights; since the credits add up to zero       *)
(* between calls, by no more than the others are ahead together.)          *)
(***************************************************************************)
LessThanOneAhead == sequential => \A p \in DOMAIN credits : credits[p] > -CycleLength

(***************************************************************************)
(* With concurrent selects a cycle need not be exact, but the error does   *)
(* not pile up: with k callers no backend is ever, in the middle of calls  *)
(* included, k * (k + 1) / 2 requests ahead of its exact share.  (One      *)
(* request per caller is not enough: a select may return a credit that it  *)
(* looked at before others took from it, and others may have done so.)     *)
(***************************************************************************)
DriftBounded ==
    LET k == Cardinality(Callers)
    IN  \A p \in DOMAIN credits : 2 * credits[p] > -(k * (k + 1) * CycleLength)
=================================================================================
