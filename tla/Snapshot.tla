-------------------------------- MODULE Snapshot --------------------------------
(***************************************************************************)
(* The vector in which the pool hands out the backends in rotation.        *)
(* (SetToSortSeq would do; but it rests on TLC's SortSeq, which has no     *)
(* definition that a proof could use.)                                     *)
(***************************************************************************)
EXTENDS Naturals, FiniteSets

\* rebuild_healthy_cache filters the backends, so they keep the pool's order.
InPoolOrder(S) ==
    CHOOSE s \in [1..Cardinality(S) -> S] : \A i, j \in DOMAIN s : i < j => s[i] < s[j]
=================================================================================
