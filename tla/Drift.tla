--------------------------------- MODULE Drift ---------------------------------
(***************************************************************************)
(* Why concurrent selects do not drift apart: what has to be remembered    *)
(* about the selects of the other callers to see that DriftBounded of      *)
(* module WeightedShares is kept.                                          *)
(*                                                                         *)
(* A select in its loop does not see what the others do between its steps. *)
(* Those that were in the loop before it started may take a cycle from any *)
(* credit it has looked at, each once; those that started later choose     *)
(* from credits the older ones left, and are in the same position as the   *)
(* first one, with less that has happened.  A trail is the record of this  *)
(* for one select.  TrailsSpec is SharesSpec with the trails in a history  *)
(* variable: they follow the steps and restrict none.                      *)
(***************************************************************************)
EXTENDS WeightedShares

VARIABLE trails

\* While the rotation is fixed every slice is the same.
Order == InPoolOrder(rotation)

Size == Len(Order)

Weigh(p) == WeightOf[Order[p]]

Weights == [p \in 1..Size |-> Weigh(p)]

\* How many positions the loop of a call has compared.
Scanned(c) == IF c.stage = "subtract" THEN c.pos ELSE c.pos - 1

Running(t) == call[t].stage \in {"add", "compare", "take", "subtract"}

Triangle(d) == (d * (d + 1)) \div 2

\* How far below zero a select that d others returned during has to look.
Reach(d) == Triangle(d) * CycleLength

---------------------------------------------------------------------------------
(***************************************************************************)
(* The trail of a select since its loop started.                           *)
(***************************************************************************)
Trail == [before : SUBSET Callers,      \* in the loop since before it, and not returned
          over : SUBSET Callers,        \* returned since
          took : [1..Size -> Nat],      \* what those before took from each credit
          total : Nat,                  \* and in all
          since : Nat]                  \* and from the best credit since it was the best

Fresh(t) == [before |-> {u \in Callers \ {t} : Running(u)}, over |-> {},
             took |-> [p \in 1..Size |-> 0], total |-> 0, since |-> 0]

\* t returns q while a select with trail e, whose best credit is at b, is in the loop.
Older(e, t, q, b, C) ==
    [e EXCEPT !.before = @ \ {t}, !.over = @ \cup {t}, !.took[q] = @ + C, !.total = @ + C,
              !.since = IF q = b THEN @ + C ELSE @]

Passed(e, t, q, b, C) ==
    IF t \in e.before THEN Older(e, t, q, b, C) ELSE [e EXCEPT !.over = @ \cup {t}]

\* The trails h after a step of t.
Started(h, t) == [h EXCEPT ![t] = Fresh(t)]

Chosen(h, t) == [h EXCEPT ![t].since = 0]

Returned(h, t) ==
    [u \in Callers |-> Passed(h[u], t, call[t].bestIndex, call[u].bestIndex, CycleLength)]

\* The trails h after the step that t takes next.
Followed(h, t) ==
    CASE call[t].stage = "init" -> Started(h, t)
      [] call[t].stage = "take" -> Chosen(h, t)
      [] call[t].stage = "subtract" -> Returned(h, t)
      [] OTHER -> h

trailVars == <<shareVars, trails>>

TrailsInit == SharesInit /\ trails = [t \in Callers |-> Fresh(t)]

TrailsNext == \E t \in Callers : (Proceed(t) \/ Return(t)) /\ trails' = Followed(trails, t)

TrailsSpec == TrailsInit /\ [][TrailsNext]_trailVars

---------------------------------------------------------------------------------
(***************************************************************************)
(* What is known of a call c with trail e, while the credits are w, the    *)
(* weights g, and no younger select leaves a credit at -R or below.        *)
(***************************************************************************)
Fitting(c, e, g) ==
    /\ e.since <= e.total
    /\ \A p \in DOMAIN g :
          e.took[p] <= e.total /\ (p # c.bestIndex => e.took[p] + e.since <= e.total)

\* The credit at p once c has added its weight.
Coming(c, w, g, p) == IF p > Added(c) THEN w[p] + g[p] ELSE w[p]

\* There is a good credit: one that c has not looked at, or its best one.
Ahead(c, w, e, R, g) ==
    \E p \in DOMAIN g : p > Scanned(c) /\ Coming(c, w, g, p) > -(R + e.took[p])

Promising(c, w, e, R, g) ==
    \/ Ahead(c, w, e, R, g)
    \/ c.stage = "take" /\ w[c.pos] > -(R + e.total)
    \/ c.stage # "take" /\ Scanned(c) # 0 /\ c.bestCredit > -(R + e.total - e.since)

\* The credit that is remembered as the best has not fallen far since.
Remembering(c, w, e, R) ==
    IF Scanned(c) = 0 THEN c.bestCredit = I64Min
    ELSE /\ c.bestIndex \in 1..Scanned(c)
         /\ w[c.bestIndex] >= c.bestCredit - e.since \/ w[c.bestIndex] > -(R + e.since)

Steady(c, w, e, R, g) ==
    Fitting(c, e, g) /\ Promising(c, w, e, R, g) /\ Remembering(c, w, e, R)

\* The trails tell apart who was in the loop before whom.
Ordered(h) ==
    \A t \in Callers : Running(t) =>
        /\ h[t].before \subseteq {u \in Callers \ {t} : Running(u)}
        /\ h[t].over \subseteq Callers \ {t}
        /\ h[t].before \cap h[t].over = {}
        /\ h[t].total <= Cardinality(h[t].over) * CycleLength
        /\ \A u \in Callers \ {t} :
              Running(u) /\ u \notin h[t].before => h[u].over \subseteq h[t].over

Backed(h) ==
    \A t \in Callers : Running(t) =>
        /\ Steady(call[t], credits, h[t], Reach(Cardinality(h[t].over)), Weights)
        /\ call[t].stage = "subtract" => call[t].pos = Size

(***************************************************************************)
(* The trails belong to selects that overlap in the order they say, and    *)
(* each select in the loop has a good credit ahead of it or remembers one: *)
(* the inductive invariant behind DriftBounded.                            *)
(***************************************************************************)
Trailed == Ordered(trails) /\ Backed(trails)
=================================================================================
