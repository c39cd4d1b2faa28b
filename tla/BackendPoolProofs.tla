---------------------------- MODULE BackendPoolProofs ----------------------------
(***************************************************************************)
(* Proofs about module BackendPool, for every number of backends and every *)
(* assignment of addresses.  Type correctness holds for any number of      *)
(* marking tasks; the other theorems need that there is at most one, which *)
(* is how the repository's only caller, the health checker, uses the pool. *)
(***************************************************************************)
EXTENDS BackendPool, TLAPS

OneMarker == \A m, n \in Markers : m = n

(***************************************************************************)
(* The strengthening: what a rebuild has found so far is exactly the       *)
(* healthy part of the prefix it has scanned, so the vector it installs is *)
(* the set of all healthy backends.                                        *)
(***************************************************************************)
FoundIsHealthyPrefix ==
    \A m \in Markers : found[m] = {i \in Healthy : i < scan[m]}

PoolInv ==
    /\ PoolTypeOK
    /\ QuiescentCacheExact
    /\ CacheLagsByOne
    /\ FoundIsHealthyPrefix

---------------------------------------------------------------------------------
LEMMA PoolTypeInit == PoolInit => PoolTypeOK
  BY PoolAssumption DEF PoolInit, PoolTypeOK, Index, Healthy

LEMMA PoolTypeStep == ASSUME PoolTypeOK, [PoolNext]_poolVars PROVE PoolTypeOK'
<1> USE PoolAssumption DEF PoolTypeOK, Index
<1>1. ASSUME NEW m \in Markers, NEW i \in Index, NEW h \in BOOLEAN, StoreFlag(m, i, h)
      PROVE  PoolTypeOK'
  BY <1>1 DEF StoreFlag
<1>2. ASSUME NEW m \in Markers, LoadFlag(m) PROVE PoolTypeOK'
  BY <1>2 DEF LoadFlag
<1>3. ASSUME NEW m \in Markers, InstallCache(m) PROVE PoolTypeOK'
  BY <1>3 DEF InstallCache
<1>4. CASE UNCHANGED poolVars
  BY <1>4 DEF poolVars
<1> QED
  BY <1>1, <1>2, <1>3, <1>4 DEF PoolNext, MarkByIndex, MarkByAddr

(***************************************************************************)
(* The flags, the snapshot and the state of every rebuild have their types *)
(* whatever tasks mark backends and however their calls interleave: in     *)
(* particular no rebuild scans past the end of the vector.                 *)
(***************************************************************************)
THEOREM PoolTypeCorrect == PoolSpec => []PoolTypeOK
<1>1. PoolTypeOK /\ [PoolNext]_poolVars => PoolTypeOK'
  BY PoolTypeStep
<1> QED
  BY <1>1, PoolTypeInit, PTL DEF PoolSpec

---------------------------------------------------------------------------------
LEMMA PoolInvInit == PoolInit => PoolInv
  BY PoolAssumption
  DEF PoolInit, PoolInv, PoolTypeOK, QuiescentCacheExact, CacheLagsByOne,
      FoundIsHealthyPrefix, Healthy, Index

\* A mark_* call that begins finds the snapshot exact, so only the backend it
\* marks can differ afterwards.
LEMMA StoreFlagKeepsInv ==
    ASSUME OneMarker, PoolInv, PoolTypeOK',
           NEW m \in Markers, NEW i \in Index, NEW h \in BOOLEAN, StoreFlag(m, i, h)
    PROVE  PoolInv'
<1> USE PoolAssumption DEF PoolInv, PoolTypeOK, Index
<1>1. cache = Healthy
  BY DEF OneMarker, QuiescentCacheExact, StoreFlag
<1>2. CacheLagsByOne'
  BY <1>1 DEF CacheLagsByOne, StoreFlag, Healthy
<1>3. QuiescentCacheExact'
  BY DEF QuiescentCacheExact, StoreFlag, Idle
<1>4. FoundIsHealthyPrefix'
  <2> SUFFICES ASSUME NEW n \in Markers
               PROVE  found'[n] = {j \in Healthy' : j < scan'[n]}
    BY DEF FoundIsHealthyPrefix
  <2>1. n = m
    BY DEF OneMarker
  <2>2. found'[m] = {} /\ scan'[m] = 1
    BY DEF StoreFlag, Idle, FoundIsHealthyPrefix, Healthy
  <2> QED
    BY <2>1, <2>2 DEF Healthy
<1> QED
  BY <1>2, <1>3, <1>4

LEMMA LoadFlagKeepsInv ==
    ASSUME OneMarker, PoolInv, PoolTypeOK', NEW m \in Markers, LoadFlag(m)
    PROVE  PoolInv'
<1> USE PoolAssumption DEF PoolInv, PoolTypeOK, Index, LoadFlag
<1>1. CacheLagsByOne'
  BY DEF CacheLagsByOne
<1>2. QuiescentCacheExact'
  BY DEF QuiescentCacheExact, Idle
<1>3. FoundIsHealthyPrefix'
  <2> SUFFICES ASSUME NEW n \in Markers
               PROVE  found'[n] = {j \in Healthy' : j < scan'[n]}
    BY DEF FoundIsHealthyPrefix
  <2>1. n = m
    BY DEF OneMarker
  <2>2. found[m] = {j \in Healthy : j < scan[m]}
    BY DEF FoundIsHealthyPrefix
  <2>3. Healthy' = Healthy /\ scan'[m] = scan[m] + 1
    BY DEF Healthy
  <2>4. found'[m] = IF scan[m] \in Healthy THEN found[m] \cup {scan[m]} ELSE found[m]
    BY DEF Healthy
  <2> QED
    BY <2>1, <2>2, <2>3, <2>4 DEF Healthy
<1> QED
  BY <1>1, <1>2, <1>3

\* What InstallCache publishes is the set of all healthy backends.
LEMMA InstallsHealthy ==
    ASSUME PoolInv, NEW m \in Markers, InstallCache(m)
    PROVE  cache' = Healthy
  BY PoolAssumption
  DEF PoolInv, PoolTypeOK, InstallCache, FoundIsHealthyPrefix, Healthy, Index

LEMMA InstallCacheKeepsInv ==
    ASSUME OneMarker, PoolInv, PoolTypeOK', NEW m \in Markers, InstallCache(m)
    PROVE  PoolInv'
<1> USE PoolAssumption DEF PoolInv, PoolTypeOK, Index
<1>1. cache' = Healthy' /\ health' = health
  BY InstallsHealthy DEF InstallCache, Healthy
<1>2. CacheLagsByOne'
  BY <1>1 DEF CacheLagsByOne, Healthy
<1>3. QuiescentCacheExact'
  BY <1>1 DEF QuiescentCacheExact
<1>4. FoundIsHealthyPrefix'
  BY DEF OneMarker, FoundIsHealthyPrefix, InstallCache, Healthy
<1> QED
  BY <1>2, <1>3, <1>4

LEMMA PoolInvStep ==
    ASSUME OneMarker, PoolInv, PoolTypeOK', [PoolNext]_poolVars
    PROVE  PoolInv'
<1>1. CASE UNCHANGED poolVars
  BY <1>1
  DEF poolVars, PoolInv, PoolTypeOK, QuiescentCacheExact, CacheLagsByOne,
      FoundIsHealthyPrefix, Healthy, Idle
<1> QED
  BY <1>1, StoreFlagKeepsInv, LoadFlagKeepsInv, InstallCacheKeepsInv
  DEF PoolNext, MarkByIndex, MarkByAddr

LEMMA PoolInvHolds == ASSUME OneMarker PROVE PoolSpec => []PoolInv
<1>1. PoolInit => PoolInv
  BY PoolInvInit
<1>2. PoolInv /\ PoolTypeOK' /\ [PoolNext]_poolVars => PoolInv'
  BY PoolInvStep
<1> QED
  BY <1>1, <1>2, PoolTypeCorrect, PTL DEF PoolSpec

---------------------------------------------------------------------------------
(***************************************************************************)
(* With at most one marking task, no mark_* call leaves the snapshot       *)
(* behind the flags.                                                       *)
(***************************************************************************)
THEOREM PoolQuiescentCacheExact ==
    ASSUME OneMarker PROVE PoolSpec => []QuiescentCacheExact
<1>1. PoolInv => QuiescentCacheExact
  BY DEF PoolInv
<1> QED
  BY <1>1, PoolInvHolds, PTL

(***************************************************************************)
(* With at most one marking task, snapshot and flags disagree about one    *)
(* backend at most, also in the middle of a rebuild.                       *)
(***************************************************************************)
THEOREM PoolCacheLagsByOne ==
    ASSUME OneMarker PROVE PoolSpec => []CacheLagsByOne
<1>1. PoolInv => CacheLagsByOne
  BY DEF PoolInv
<1> QED
  BY <1>1, PoolInvHolds, PTL

(***************************************************************************)
(* With at most one marking task, the pool implements the rotation that    *)
(* its readers are promised: a publish adds or removes one backend.        *)
(***************************************************************************)
THEOREM PoolImplementsRotation ==
    ASSUME OneMarker PROVE PoolSpec => ImplementsRotation
<1>1. PoolInit => Reader!Init
  BY DEF PoolInit, Healthy, Reader!Init
<1>2. PoolInv /\ [PoolNext]_poolVars => [Reader!Next]_cache
  <2> SUFFICES ASSUME PoolInv, [PoolNext]_poolVars, cache' # cache
               PROVE  Reader!Next
    OBVIOUS
  <2>1. PICK m \in Markers : InstallCache(m)
    BY DEF PoolNext, MarkByIndex, MarkByAddr, StoreFlag, LoadFlag, poolVars
  <2>2. cache' = Healthy /\ cache \subseteq Index
    BY <2>1, InstallsHealthy DEF PoolInv, PoolTypeOK
  <2>3. PICK i \in Index : (i \in cache) # (i \in cache')
    BY <2>2 DEF Healthy
  <2>4. \A j \in Index : (j \in cache) # (j \in cache') => j = i
    BY <2>2, <2>3 DEF PoolInv, PoolTypeOK, CacheLagsByOne, Healthy
  <2>5. cache' = cache \cup {i} \/ cache' = cache \ {i}
    BY <2>2, <2>3, <2>4 DEF Healthy
  <2> QED
    BY <2>3, <2>5 DEF Reader!Next, Reader!Enter, Reader!Leave
<1> QED
  BY <1>1, <1>2, PoolInvHolds, PTL DEF PoolSpec, ImplementsRotation, Reader!Spec
=================================================================================
