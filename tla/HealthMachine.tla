------------------------------ MODULE HealthMachine ------------------------------
(***************************************************************************)
(* The health state machine the repository promises (README, "Health state *)
(* machine"): results of probes arrive one by one, and an address changes  *)
(* state only when the configured number of results in a row, each of them *)
(* contrary to its present state, has been counted.  A result that agrees  *)
(* with the present state starts the count again.  Counting a result and   *)
(* changing the state is one step here; in the health checker it takes     *)
(* several, between which other tasks run.                                 *)
(***************************************************************************)
EXTENDS Naturals

CONSTANTS
    Backends,               \* probed backends
    Addr,                   \* socket addresses
    AddrOf,                 \* the address of each backend
    HealthyThreshold,       \* successes in a row that bring an address back
    UnhealthyThreshold      \* failures in a row that take an address out

VARIABLES
    outcome,    \* outcome[b]: the result of b's probe that is not counted yet
    healthy,    \* healthy[a]: the state of address a
    streak      \* streak[a]: contrary results counted in a row

Results == {"healthy", "unhealthy"}

Init ==
    /\ outcome = [b \in Backends |-> "none"]
    /\ healthy \in [Addr -> BOOLEAN]
    /\ streak = [a \in Addr |-> 0]

\* A probe of b ends.
Deliver(b) ==
    /\ outcome[b] = "none"
    /\ \E r \in Results : outcome' = [outcome EXCEPT ![b] = r]
    /\ UNCHANGED <<healthy, streak>>

\* The round is given up and the results it still holds are never counted.
Discard ==
    /\ outcome' = [b \in Backends |-> "none"]
    /\ UNCHANGED <<healthy, streak>>

\* The result of b agrees with the state of its address.
CountAgreeing(b) ==
    LET a == AddrOf[b]
    IN  /\ outcome[b] \in Results
        /\ healthy[a] = (outcome[b] = "healthy")
        /\ outcome' = [outcome EXCEPT ![b] = "none"]
        /\ streak' = [streak EXCEPT ![a] = 0]
        /\ UNCHANGED healthy

\* The result of b contradicts the state of its address.
CountContrary(b) ==
    LET a == AddrOf[b]
        needed == IF healthy[a] THEN UnhealthyThreshold ELSE HealthyThreshold
        flips == streak[a] + 1 >= needed
    IN  /\ outcome[b] \in Results
        /\ healthy[a] # (outcome[b] = "healthy")
        /\ outcome' = [outcome EXCEPT ![b] = "none"]
        /\ healthy' = [healthy EXCEPT ![a] = IF flips THEN ~@ ELSE @]
        /\ streak' = [streak EXCEPT ![a] = IF flips THEN 0 ELSE @ + 1]

Next ==
    \/ \E b \in Backends : Deliver(b) \/ CountAgreeing(b) \/ CountContrary(b)
    \/ Discard

Spec == Init /\ [][Next]_<<outcome, healthy, streak>>
=================================================================================
