----------------------------- MODULE WeightedSpread -----------------------------
(***************************************************************************)
(* How far the credits of the weighted round robin can be apart while the  *)
(* rotation changes.  A credit stays with its position: a backend that     *)
(* moves up in the slice takes over what another one was owed, and pays    *)
(* back what it never had.                                                 *)
(***************************************************************************)
EXTENDS WeightedRoundRobin

AllWeights == SumFunction(WeightOf)

(***************************************************************************)
(* The weights are u32 and I64Min is i64::MIN: up to 2^16 backends bring   *)
(* no credit as low.                                                       *)
(***************************************************************************)
ASSUME SpreadAssumption == 2 * I64Min < -(NumBackends * AllWeights)

VARIABLE apart      \* no two selects have overlapped so far

spreadVars == <<vars, apart>>

AtMostOne == \A t, u \in Callers : t # u => "idle" \in {call[t].stage, call[u].stage}

SpreadInit == Init /\ apart = TRUE

SpreadNext == Next /\ apart' = (apart /\ AtMostOne')

SpreadSpec == SpreadInit /\ [][SpreadNext]_spreadVars

---------------------------------------------------------------------------------
(***************************************************************************)
(* As long as selects follow one another, no credit leaves a range that    *)
(* the configured weights determine, however often backends leave and      *)
(* return: what is inherited by position does not add up, and no history   *)
(* of changes starves one position for longer and longer.  n is the number *)
(* of the credits.  (While the rotation stays the bound is closer: see     *)
(* LessThanOneAhead in module WeightedShares.)                             *)
(***************************************************************************)
SpreadBounded ==
    apart =>
        LET n == Len(credits)
        IN  \A p \in DOMAIN credits :
                /\ 2 * credits[p] >= -(AllWeights * (n - 1))
                /\ 2 * credits[p] <= AllWeights * (n + 1)
=================================================================================
