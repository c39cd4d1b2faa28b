--------------------------- MODULE WeightedRoundRobin ---------------------------
(***************************************************************************)
(* The smooth weighted round robin of lb/weighted_round_robin.rs, called   *)
(* by concurrent requests.  select is not one step: for each backend of    *)
(* the slice it adds the weight, compares the credit with the best one and *)
(* loads it again, and only at the end subtracts the total from the        *)
(* winner.  Each access to a shared credit is an action.                   *)
(*                                                                         *)
(* The credits belong to the positions of the slice, not to the backends,  *)
(* and there are as many as the first slice ever selected from had.  The   *)
(* slice is the pool's snapshot at the time of the request; the rotation   *)
(* it is taken from changes as module Rotation says.                       *)
(***************************************************************************)
EXTENDS Snapshot, Integers, Sequences, Functions

CONSTANTS
    NumBackends,
    WeightOf,       \* the weight of each backend
    Callers,        \* requests in flight, each calling select again and again
    I64Min          \* lower than every credit

Backends == 1..NumBackends

ASSUME WeightAssumption ==
    /\ NumBackends \in Nat
    /\ WeightOf \in [Backends -> Nat]
    /\ IsFiniteSet(Callers)
    /\ I64Min \in Int

VARIABLES
    rotation,       \* the pool's healthy snapshot
    credits,        \* <<>> until the OnceLock is set, then one credit per position
    call            \* call[t]: the locals of the select that t runs

vars == <<rotation, credits, call>>

Env == INSTANCE Rotation

Stages == {"idle", "init", "add", "compare", "take", "subtract", "panicked"}

NoCall == [stage |-> "idle", slice |-> <<>>, pos |-> 0,
           totalWeight |-> 0, bestIndex |-> 0, bestCredit |-> 0]

InSlice(t) == 0..Len(call[t].slice)

TypeOK ==
    /\ rotation \in SUBSET Backends
    /\ credits \in Seq(Int)
    /\ \A t \in Callers :
          /\ call[t].stage \in Stages
          /\ call[t].slice \in Seq(Backends)
          /\ call[t].pos \in InSlice(t)
          /\ call[t].bestIndex \in InSlice(t)
          /\ {call[t].totalWeight, call[t].bestCredit} \subseteq Int

Init ==
    /\ Env!Init
    /\ credits = <<>>
    /\ call = [t \in Callers |-> NoCall]

\* The weight of the backend at position p of t's slice.
Weight(t, p) == WeightOf[call[t].slice[p]]

Winner(t) == call[t].slice[call[t].bestIndex]

---------------------------------------------------------------------------------
(***************************************************************************)
(* Variants of the definitions below that a plausible mistake would give;  *)
(* none is used by the specification.                                      *)
(***************************************************************************)
\* The winner pays back its own weight only.
SubtractOwnWeight(t) ==
    /\ call[t].stage = "subtract"
    /\ credits' = [credits EXCEPT ![call[t].bestIndex] = @ - WeightOf[Winner(t)]]
    /\ call' = [call EXCEPT ![t] = NoCall]
    /\ UNCHANGED rotation

\* The loop goes one position too far.
OnwardPastEnd(t, c) ==
    IF c.pos > Len(call[t].slice)
    THEN [c EXCEPT !.stage = "subtract"]
    ELSE [c EXCEPT !.stage = "add", !.pos = @ + 1]

\* The credits are made anew by every call.
AlwaysInit(t) ==
    /\ call[t].stage = "init"
    /\ credits' = [p \in DOMAIN call[t].slice |-> 0]
    /\ call' = [call EXCEPT ![t].stage = "add", ![t].pos = 1, ![t].bestIndex = 1,
                            ![t].bestCredit = I64Min]
    /\ UNCHANGED rotation

\* The last position gets no credit.
InitWithoutLast(t) ==
    /\ call[t].stage = "init"
    /\ credits' = IF credits = <<>> THEN [p \in 1..(Len(call[t].slice) - 1) |-> 0] ELSE credits
    /\ call' = [call EXCEPT ![t].stage = "add", ![t].pos = 1, ![t].bestIndex = 1,
                            ![t].bestCredit = I64Min]
    /\ UNCHANGED rotation

---------------------------------------------------------------------------------
\* A request takes the snapshot and calls select on it.  (An empty slice
\* returns None at once and touches nothing.)
Select(t) ==
    /\ call[t].stage = "idle"
    /\ rotation # {}
    /\ call' = [call EXCEPT ![t].stage = "init",
                            ![t].slice = InPoolOrder(rotation)]
    /\ UNCHANGED <<rotation, credits>>

\* get_or_init, and the locals before the loop.
GetOrInit(t) ==
    /\ call[t].stage = "init"
    /\ credits' = IF credits = <<>> THEN [p \in DOMAIN call[t].slice |-> 0] ELSE credits
    /\ call' = [call EXCEPT ![t].stage = "add", ![t].pos = 1, ![t].bestIndex = 1,
                            ![t].bestCredit = I64Min]
    /\ UNCHANGED rotation

\* total_weight += w and credits[i].fetch_add(w); a position past the credits
\* is an index out of bounds.
AddWeight(t) ==
    LET p == call[t].pos
        indexed == p \in DOMAIN credits
    IN  /\ call[t].stage = "add"
        /\ call' = [call EXCEPT ![t].stage = IF indexed THEN "compare" ELSE "panicked",
                                ![t].totalWeight = @ + Weight(t, p)]
        /\ credits' = IF indexed THEN [credits EXCEPT ![p] = @ + Weight(t, p)] ELSE credits
        /\ UNCHANGED rotation

\* Where the loop goes after position p.
Onward(t, c) ==
    IF c.pos = Len(call[t].slice)
    THEN [c EXCEPT !.stage = "subtract"]
    ELSE [c EXCEPT !.stage = "add", !.pos = @ + 1]

\* The load in the condition.
Compare(t) ==
    /\ call[t].stage = "compare"
    /\ call' = [call EXCEPT ![t] =
                  IF credits[@.pos] > @.bestCredit THEN [@ EXCEPT !.stage = "take"]
                  ELSE Onward(t, @)]
    /\ UNCHANGED <<rotation, credits>>

\* The best credit is not remembered with its index (a mistaken variant of
\* Take, not used by the specification).
TakeIndexOnly(t) ==
    /\ call[t].stage = "take"
    /\ call' = [call EXCEPT ![t] = Onward(t, [@ EXCEPT !.bestIndex = call[t].pos])]
    /\ UNCHANGED <<rotation, credits>>

\* The load in the body, which may see another value.
Take(t) ==
    LET p == call[t].pos
    IN  /\ call[t].stage = "take"
        /\ call' = [call EXCEPT ![t] =
                      Onward(t, [@ EXCEPT !.bestCredit = credits[p], !.bestIndex = p])]
        /\ UNCHANGED <<rotation, credits>>

\* The total is subtracted from the winner's credit and its index returned.
Subtract(t) ==
    /\ call[t].stage = "subtract"
    /\ credits' = [credits EXCEPT ![call[t].bestIndex] = @ - call[t].totalWeight]
    /\ call' = [call EXCEPT ![t] = NoCall]
    /\ UNCHANGED rotation

\* The steps of select before it returns.
Work(t) == Select(t) \/ GetOrInit(t) \/ AddWeight(t) \/ Compare(t) \/ Take(t)

PoolChanges == Env!Next /\ UNCHANGED <<credits, call>>

Next ==
    \/ \E t \in Callers : Work(t) \/ Subtract(t)
    \/ PoolChanges

Spec == Init /\ [][Next]_vars

---------------------------------------------------------------------------------
\* The positions whose weights a call has added to the credits and not subtracted
\* again.  A call that panicked never will.
Added(c) ==
    CASE c.stage \in {"idle", "init"} -> 0
      [] c.stage \in {"add", "panicked"} -> c.pos - 1
      [] OTHER -> c.pos

Outstanding(t) == SumFunction([p \in 1..Added(call[t]) |-> Weight(t, p)])

(***************************************************************************)
(* However calls interleave and the slices change, the credits add up to   *)
(* the weights that unfinished calls have added: a finished call takes     *)
(* from the winner what it gave to all, so no select can make all credits  *)
(* grow.                                                                   *)
(***************************************************************************)
CreditsConserved == SumFunction(credits) = SumFunction([t \in Callers |-> Outstanding(t)])

(***************************************************************************)
(* select returns an index into the healthy slice or None (README, "Load   *)
(* balancing algorithms"): it never panics.                                *)
(***************************************************************************)
SelectReturns == \A t \in Callers : call[t].stage # "panicked"
=================================================================================
