------------------------------- MODULE Strategies -------------------------------
(***************************************************************************)
(* How round_robin.rs and ip_hash.rs share out the requests of concurrent  *)
(* clients over time.  A request takes the pool's snapshot and selects     *)
(* from it later, when the rotation may have changed; select returns an    *)
(* index, so a snapshot is the set of backends in it and an index, counted *)
(* from 1 here, is a position in it.  The accesses that the other          *)
(* strategies make are in modules WeightedRoundRobin and Proxy; here they  *)
(* select anything.                                                        *)
(***************************************************************************)
EXTENDS Naturals, Sequences, FiniteSets

CONSTANTS
    Clients,        \* clients, each with one request at a time
    OctetsOf,       \* the octets of each client's IP address
    CounterSize     \* the counter is a usize: it wraps at CounterSize

ASSUME StrategiesAssumption ==
    /\ OctetsOf \in [Clients -> Seq(0..255)]
    /\ CounterSize \in Nat \ {0}

VARIABLES
    algorithm,      \* the strategy in use
    counter,        \* the counter of round robin
    rotation,       \* the pool's healthy snapshot
    slice,          \* slice[c]: the snapshot that c's request selects from, {} if none
    last,           \* last[c]: the slice and the index of c's latest IP hash
    turns           \* the slice that round robin used last, its latest indexes from it

strategyVars == <<algorithm, counter, rotation, slice, last, turns>>

NoPick == [from |-> {}, index |-> 0]
NoTurns == [from |-> {}, indexes |-> <<>>]

\* One turn of the loop in hash_ip; its result is below 6271 and overflows nothing.
HashStep(hash, byte) == (hash * 113 + byte) % 6271

\* The loop over the octets.
HashFrom(start, octets) ==
    LET hash[n \in 0..Len(octets)] ==
            IF n = 0 THEN start ELSE HashStep(hash[n - 1], octets[n])
    IN  hash[Len(octets)]

HashIp(octets) == HashFrom(89, octets)

---------------------------------------------------------------------------------
(***************************************************************************)
(* Variants of the definitions below that a plausible mistake would give;  *)
(* none is used by the specification.                                      *)
(***************************************************************************)
\* The modulus is one short.
RoundRobinIndexShort(c) ==
    (counter % (IF Cardinality(slice[c]) > 1 THEN Cardinality(slice[c]) - 1 ELSE 1)) + 1

\* The hash is a field that goes on from where the latest request left it.
IpHashIndexRunning(c) ==
    LET start == IF \E d \in Clients : last[d] # NoPick THEN HashIp(OctetsOf[c]) ELSE 89
    IN  (HashFrom(start, OctetsOf[c]) % Cardinality(slice[c])) + 1

---------------------------------------------------------------------------------
\* create_strategy builds the strategy afresh.
CreateStrategy(a) ==
    /\ algorithm' = a
    /\ counter' = 0
    /\ UNCHANGED <<slice, last, turns>>

\* c's request takes the snapshot; from an empty one select returns None.
TakeSlice(c) ==
    /\ slice[c] = {}
    /\ slice' = [slice EXCEPT ![c] = rotation]
    /\ UNCHANGED <<algorithm, counter, rotation, last, turns>>

RoundRobinIndex(c) == (counter % Cardinality(slice[c])) + 1

(***************************************************************************)
(* Round robin adds one to the counter and takes it modulo the length.     *)
(* turns starts afresh where the order breaks: at a slice other than the   *)
(* last, and where the counter wraps unless the length divides its range.  *)
(***************************************************************************)
Breaks(c) ==
    \/ slice[c] # turns.from
    \/ counter = 0 /\ CounterSize % Cardinality(slice[c]) # 0

Latest(n, s) == IF Len(s) > n THEN Tail(s) ELSE s

SelectRoundRobin(c) ==
    /\ algorithm = "round_robin"
    /\ slice[c] # {}
    /\ counter' = (counter + 1) % CounterSize
    /\ slice' = [slice EXCEPT ![c] = {}]
    /\ turns' = [from |-> slice[c],
                 indexes |-> IF Breaks(c) THEN <<RoundRobinIndex(c)>>
                             ELSE Latest(Cardinality(slice[c]),
                                         Append(turns.indexes, RoundRobinIndex(c)))]
    /\ UNCHANGED <<algorithm, rotation, last>>

IpHashIndex(c) == (HashIp(OctetsOf[c]) % Cardinality(slice[c])) + 1

SelectIpHash(c) ==
    /\ algorithm = "ip_hash"
    /\ slice[c] # {}
    /\ slice' = [slice EXCEPT ![c] = {}]
    /\ last' = [last EXCEPT ![c] = [from |-> slice[c], index |-> IpHashIndex(c)]]
    /\ UNCHANGED <<algorithm, counter, rotation, turns>>

SelectOther(c) ==
    /\ algorithm \in {"weighted_round_robin", "least_connections", "random"}
    /\ slice[c] # {}
    /\ slice' = [slice EXCEPT ![c] = {}]
    /\ UNCHANGED <<algorithm, counter, rotation, last, turns>>

Select(c) == SelectRoundRobin(c) \/ SelectIpHash(c) \/ SelectOther(c)

---------------------------------------------------------------------------------
(***************************************************************************)
(* Round robin goes round: as long as it selects from one and the same     *)
(* slice of n backends, whichever requests do the selecting, any n         *)
(* selections in a row reach all n backends.  Only a change of slice and   *)
(* the counter's wrap may break the order (round_robin.rs, select).        *)
(***************************************************************************)
InTurn ==
    \A i, j \in DOMAIN turns.indexes : i # j => turns.indexes[i] # turns.indexes[j]

(***************************************************************************)
(* Clients with one IP address (behind one NAT, or one client on two       *)
(* ports) are sent to one backend as long as they select from the same     *)
(* slice, however their requests and the changes of rotation interleave    *)
(* (README: ip_hash is "stable per client").                               *)
(***************************************************************************)
Affinity ==
    \A c, d \in Clients :
        OctetsOf[c] = OctetsOf[d] /\ last[c].from = last[d].from /\ last[c].index # 0
            /\ last[d].index # 0 => last[c].index = last[d].index
=================================================================================
