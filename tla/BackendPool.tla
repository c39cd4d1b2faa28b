------------------------------- MODULE BackendPool -------------------------------
(***************************************************************************)
(* The backend pool of backend.rs: one atomic health flag per configured   *)
(* backend, and the cached snapshot of the healthy ones behind an RwLock.  *)
(*                                                                         *)
(* Marking a backend is not one step in the code.  mark_healthy,           *)
(* mark_unhealthy and their _by_addr forms store the flag, then            *)
(* rebuild_healthy_cache loads every flag in turn, and only the assignment *)
(* of the new vector happens under the write lock.  Each of these shared   *)
(* accesses is an action here, so that the calls of several tasks          *)
(* interleave as they do on a multi-threaded runtime.                      *)
(*                                                                         *)
(* Backends are named by their position in the pool's vector.  The         *)
(* snapshot keeps the order of that vector, so it is represented by the    *)
(* set of the positions it holds.                                          *)
(***************************************************************************)
EXTENDS Naturals

CONSTANTS
    NumBackends,    \* length of the pool's vector of backends
    Addr,           \* socket addresses
    AddrOf,         \* the address of each backend; two may share one
    Markers         \* tasks that call the mark_* functions

Index == 1..NumBackends

ASSUME PoolAssumption == NumBackends \in Nat /\ AddrOf \in [Index -> Addr]

VARIABLES
    health,     \* health[i]: the AtomicBool of backend i
    cache,      \* healthy_cache: the positions in the published snapshot
    scan,       \* scan[m]: 0 when m rebuilds nothing, else the next flag it loads
    found       \* found[m]: the positions m has collected so far, {} when idle

poolVars == <<health, cache, scan, found>>

Healthy == {i \in Index : health[i]}

Idle(m) == scan[m] = 0

(***************************************************************************)
(* The linear search of the _by_addr functions and of get_health_by_addr:  *)
(* the first backend with that address.                                    *)
(***************************************************************************)
Finds(a, i) ==
    /\ AddrOf[i] = a
    /\ \A j \in 1..(i - 1) : AddrOf[j] # a

\* get_health_by_addr(a) == Some(h)
HealthByAddr(a, h) == \E i \in Index : Finds(a, i) /\ health[i] = h

PoolTypeOK ==
    /\ health \in [Index -> BOOLEAN]
    /\ cache \in SUBSET Index
    /\ scan \in [Markers -> 0..(NumBackends + 1)]
    /\ found \in [Markers -> SUBSET Index]

(***************************************************************************)
(* BackendPool::new filters the vector by the flags; from_config, where    *)
(* every flag is TRUE, is the special case in which nothing is dropped.    *)
(***************************************************************************)
PoolInit ==
    /\ health \in [Index -> BOOLEAN]
    /\ cache = Healthy
    /\ scan = [m \in Markers |-> 0]
    /\ found = [m \in Markers |-> {}]

---------------------------------------------------------------------------------
(***************************************************************************)
(* Variants of the definitions below that a plausible mistake would give;  *)
(* none is used by the specification.                                      *)
(***************************************************************************)
\* The flag is stored but the rebuild is never started.
StoreFlagOnly(m, i, h) ==
    /\ Idle(m)
    /\ health' = [health EXCEPT ![i] = h]
    /\ UNCHANGED <<cache, scan, found>>

\* The snapshot is replaced as soon as the last flag but one has been loaded.
InstallEarly(m) ==
    /\ scan[m] = NumBackends
    /\ cache' = found[m]
    /\ scan' = [scan EXCEPT ![m] = 0]
    /\ found' = [found EXCEPT ![m] = {}]
    /\ UNCHANGED health

\* The filter keeps the backend after the one whose flag it loaded.
LoadFlagOffByOne(m) ==
    /\ scan[m] \in Index
    /\ found' = [found EXCEPT ![m] = IF health[scan[m]] THEN @ \cup {scan[m] + 1} ELSE @]
    /\ scan' = [scan EXCEPT ![m] = @ + 1]
    /\ UNCHANGED <<health, cache>>

---------------------------------------------------------------------------------
(***************************************************************************)
(* A mark_* call begins: the flag of backend i is stored and the rebuild   *)
(* starts at the first backend, with the empty vector of an idle task.     *)
(***************************************************************************)
StoreFlag(m, i, h) ==
    /\ Idle(m)
    /\ health' = [health EXCEPT ![i] = h]
    /\ scan' = [scan EXCEPT ![m] = 1]
    /\ UNCHANGED <<cache, found>>

\* mark_healthy(i) and mark_unhealthy(i); an index out of range returns None.
MarkByIndex(m, i, h) == StoreFlag(m, i, h)

\* mark_healthy_by_addr(a) and mark_unhealthy_by_addr(a); an unknown address
\* returns None.
MarkByAddr(m, a, h) == \E i \in Index : Finds(a, i) /\ StoreFlag(m, i, h)

\* One turn of the filter in rebuild_healthy_cache: load the next flag.
LoadFlag(m) ==
    /\ scan[m] \in Index
    /\ found' = [found EXCEPT ![m] = IF health[scan[m]] THEN @ \cup {scan[m]} ELSE @]
    /\ scan' = [scan EXCEPT ![m] = @ + 1]
    /\ UNCHANGED <<health, cache>>

\* The end of rebuild_healthy_cache: under the write lock, publish the vector.
InstallCache(m) ==
    /\ scan[m] = NumBackends + 1
    /\ cache' = found[m]
    /\ scan' = [scan EXCEPT ![m] = 0]
    /\ found' = [found EXCEPT ![m] = {}]
    /\ UNCHANGED health

PoolNext ==
    \E m \in Markers :
        \/ \E i \in Index, h \in BOOLEAN : MarkByIndex(m, i, h)
        \/ \E a \in Addr, h \in BOOLEAN : MarkByAddr(m, a, h)
        \/ LoadFlag(m)
        \/ InstallCache(m)

PoolSpec == PoolInit /\ [][PoolNext]_poolVars

---------------------------------------------------------------------------------
(***************************************************************************)
(* Whenever no mark_* call is running, the snapshot that requests select   *)
(* from holds exactly the backends whose flag says healthy: no call leaves *)
(* the cache behind the flags.                                             *)
(***************************************************************************)
QuiescentCacheExact == (\A m \in Markers : Idle(m)) => cache = Healthy

(***************************************************************************)
(* Even while a rebuild is running, the published snapshot and the flags   *)
(* disagree about one backend at most, the one being marked.               *)
(***************************************************************************)
CacheLagsByOne ==
    \A i, j \in Index :
        (i \in cache) # health[i] /\ (j \in cache) # health[j] => i = j

(***************************************************************************)
(* The pool implements the rotation promised to its readers: each publish  *)
(* of rebuild_healthy_cache adds or removes one backend at most.           *)
(***************************************************************************)
Reader == INSTANCE Rotation WITH Backends <- Index, rotation <- cache

ImplementsRotation == Reader!Spec
=================================================================================
