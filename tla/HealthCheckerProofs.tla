--------------------------- MODULE HealthCheckerProofs ---------------------------
(***************************************************************************)
(* Proofs about module HealthChecker, for every number of backends, every  *)
(* assignment of addresses and all thresholds.  The checker uses the pool  *)
(* only through the pool's own actions (CheckerUsesPool), so what          *)
(* BackendPoolProofs proves of the pool holds while the checker runs.      *)
(***************************************************************************)
EXTENDS HealthChecker, BackendPoolProofs, SetLemmas

---------------------------------------------------------------------------------
\* Counting a result keeps both counters in the width of a u32, and one of
\* them is zero afterwards.
LEMMA UpdateInWidth ==
    ASSUME NEW counts \in Counts, NEW result
    PROVE  /\ Update(counts, result) \in Counts
           /\ \/ Update(counts, result).successes = 0
              \/ Update(counts, result).failures = 0
<1>1. (counts.successes + 1) % CounterSize \in 0..(CounterSize - 1)
  BY CheckerAssumption DEF Counts
<1>2. (counts.failures + 1) % CounterSize \in 0..(CounterSize - 1)
  BY CheckerAssumption DEF Counts
<1>3. 0 \in 0..(CounterSize - 1)
  BY CheckerAssumption
<1> QED
  BY <1>1, <1>2, <1>3 DEF Update, Counts

\* Everything a step of a checker does to the pool is a step of a mark_* call.
LEMMA CheckerPoolStep ==
    ASSUME TypeOK, [Next]_vars PROVE [PoolNext]_poolVars
<1>1. ASSUME NEW c \in Markers, Mark(c) PROVE PoolNext
  <2>1. PICK i \in Index : Finds(CurrentAddr(c), i) /\ StoreFlag(c, i, goal[c])
    BY <1>1 DEF Mark, MarkByAddr
  <2>2. CurrentAddr(c) \in Addr /\ goal[c] \in BOOLEAN
    BY <2>1, PoolAssumption DEF Finds, TypeOK
  <2> QED
    BY <2>1, <2>2 DEF PoolNext, MarkByAddr
<1>2. ASSUME NEW c \in Markers, Rebuild(c) \/ Publish(c) PROVE PoolNext
  BY <1>2 DEF Rebuild, Publish, PoolNext
<1>3. ASSUME NEW c \in Markers,
             \/ Start(c) \/ Tick(c) \/ Stop(c) \/ EndRound(c)
             \/ TestUnhealthy(c) \/ TestHealthy(c) \/ SetGauge(c)
      PROVE  UNCHANGED poolVars
  BY <1>3 DEF Start, Tick, Stop, EndRound, TestUnhealthy, TestHealthy, SetGauge
<1>4. ASSUME NEW c \in Markers, NEW i \in Index,
             EndProbe(c, i) \/ JoinResult(c, i) \/ JoinPanicked(c, i)
      PROVE  UNCHANGED poolVars
  BY <1>4 DEF EndProbe, JoinResult, JoinPanicked
<1>5. CASE Cancel \/ (\E a \in Addr : ServerChanges(a)) \/ UNCHANGED vars
  BY <1>5 DEF Cancel, ServerChanges, vars
<1> QED
  BY <1>1, <1>2, <1>3, <1>4, <1>5 DEF Next, Run, Evaluate

(***************************************************************************)
(* Types are respected by any number of checkers: the counters stay in     *)
(* their width, a checker is always in a known stage, and the gauge shows  *)
(* one of its three values.                                                *)
(***************************************************************************)
THEOREM CheckerTypeCorrect == Spec => []TypeOK
<1>1. Init => TypeOK
  <2> SUFFICES ASSUME Init PROVE TypeOK
    OBVIOUS
  <2>1. PoolTypeOK
    BY PoolAssumption DEF Init, PoolInit, PoolTypeOK, Index, Healthy
  <2>2. [successes |-> 0, failures |-> 0] \in Counts
    BY CheckerAssumption DEF Counts
  <2>3. status \in [Markers -> [Addr -> Counts]]
    BY <2>2 DEF Init
  <2>4. probes \in [Markers -> [Index -> Probes]]
    BY DEF Init, NoProbes, Probes
  <2>5. 0 \in 0..NumBackends
    BY PoolAssumption
  <2> QED
    BY <2>1, <2>3, <2>4, <2>5 DEF Init, TypeOK, Stages
<1>2. TypeOK /\ [Next]_vars => TypeOK'
  <2> SUFFICES ASSUME TypeOK, [Next]_vars PROVE TypeOK'
    OBVIOUS
  <2> USE PoolAssumption, CheckerAssumption
      DEF TypeOK, Stages, Probes, Goto, taskVars, worldVars
  <2>1. ASSUME NEW c \in Markers, Start(c) \/ Stop(c) PROVE TypeOK'
    BY <2>1 DEF Start, Stop, PoolTypeOK, poolVars
  <2>2. ASSUME NEW c \in Markers, Tick(c) PROVE TypeOK'
    BY <2>2 DEF Tick, PoolTypeOK, poolVars
  <2>3. ASSUME NEW c \in Markers, NEW i \in Index, EndProbe(c, i) PROVE TypeOK'
    BY <2>3 DEF EndProbe, PoolTypeOK, poolVars
  <2>4. ASSUME NEW c \in Markers, NEW i \in Index, JoinResult(c, i) PROVE TypeOK'
    <3>1. AddrOf[i] \in Addr /\ status[c][AddrOf[i]] \in Counts
      BY DEF Index
    <3>2. Update(status[c][AddrOf[i]], probes[c][i]) \in Counts
      BY <3>1, UpdateInWidth
    <3>3. status' \in [Markers -> [Addr -> Counts]]
      BY <2>4, <3>1, <3>2 DEF JoinResult
    <3>4. current' \in [Markers -> 0..NumBackends]
      BY <2>4 DEF JoinResult, Index
    <3> QED
      BY <2>4, <3>3, <3>4 DEF JoinResult, PoolTypeOK, poolVars
  <2>5. ASSUME NEW c \in Markers, NEW i \in Index, JoinPanicked(c, i) PROVE TypeOK'
    BY <2>5 DEF JoinPanicked, NoProbes, PoolTypeOK, poolVars
  <2>6. ASSUME NEW c \in Markers, EndRound(c) PROVE TypeOK'
    BY <2>6 DEF EndRound, PoolTypeOK, poolVars
  <2>7. ASSUME NEW c \in Markers, TestUnhealthy(c) PROVE TypeOK'
    BY <2>7 DEF TestUnhealthy, PoolTypeOK, poolVars
  <2>8. ASSUME NEW c \in Markers, TestHealthy(c) PROVE TypeOK'
    BY <2>8 DEF TestHealthy, PoolTypeOK, poolVars
  <2>9. ASSUME NEW c \in Markers, Mark(c) \/ Rebuild(c) \/ Publish(c) PROVE TypeOK'
    <3>1. PoolTypeOK'
      BY CheckerPoolStep, PoolTypeStep
    <3> QED
      BY <2>9, <3>1 DEF Mark, Rebuild, Publish
  <2>10. ASSUME NEW c \in Markers, SetGauge(c) PROVE TypeOK'
    <3>1. gauge' \in [Addr -> {"unset", "healthy", "unhealthy"}]
      <4>1. (IF goal[c] THEN "healthy" ELSE "unhealthy") \in {"unset", "healthy", "unhealthy"}
        OBVIOUS
      <4> QED
        BY <2>10, <4>1 DEF SetGauge
    <3>2. stage' \in [Markers -> Stages] /\ current' \in [Markers -> 0..NumBackends]
      BY <2>10 DEF SetGauge
    <3> QED
      BY <2>10, <3>1, <3>2 DEF SetGauge, PoolTypeOK, poolVars
  <2>11. CASE Cancel \/ \E a \in Addr : ServerChanges(a)
    <3>1. UNCHANGED <<poolVars, taskVars, gauge, setup>>
      BY <2>11 DEF Cancel, ServerChanges
    <3>2. cancelled' \in BOOLEAN /\ up' \in [Addr -> BOOLEAN]
      BY <2>11 DEF Cancel, ServerChanges
    <3> QED
      BY <3>1, <3>2 DEF PoolTypeOK, poolVars
  <2>12. CASE UNCHANGED vars
    BY <2>12 DEF vars, PoolTypeOK, poolVars
  <2> QED
    BY <2>1, <2>2, <2>3, <2>4, <2>5, <2>6, <2>7, <2>8, <2>9, <2>10, <2>11, <2>12
    DEF Next, Run, Evaluate
<1> QED
  BY <1>1, <1>2, PTL DEF Spec

---------------------------------------------------------------------------------
(***************************************************************************)
(* Everything the checkers do to the pool is a mark_* call of the pool: a  *)
(* behaviour of the checkers is a behaviour of PoolSpec.                   *)
(***************************************************************************)
THEOREM CheckerUsesPool == Spec => PoolSpec
<1>1. Init => PoolInit
  BY DEF Init
<1>2. TypeOK /\ [Next]_vars => [PoolNext]_poolVars
  BY CheckerPoolStep
<1> QED
  BY <1>1, <1>2, CheckerTypeCorrect, PTL DEF Spec, PoolSpec

(***************************************************************************)
(* With one checker, a request never sees the rotation change by more than *)
(* one backend, whatever order results are joined in.                      *)
(***************************************************************************)
THEOREM CheckerImplementsRotation ==
    ASSUME OneMarker PROVE Spec => ImplementsRotation
BY CheckerUsesPool, PoolImplementsRotation, PTL

---------------------------------------------------------------------------------
(***************************************************************************)
(* The strengthening behind RotationMatchesCounts and GaugeTracksFlag: for *)
(* every stage of the evaluation, what is already settled about the flag   *)
(* and the counters of the address under evaluation.                       *)
(***************************************************************************)
StageInv ==
    \A c \in Markers :
        /\ stage[c] = "rebuild" <=> ~Idle(c)
        /\ stage[c] \in {"ifUnhealthy", "ifHealthy", "store", "rebuild", "gauge"} =>
               current[c] \in Index

OneCountIsZero ==
    \A c \in Markers, a \in Addr : status[c][a].successes = 0 \/ status[c][a].failures = 0

\* Backend i, the first with its address, is where its counters want it.
Justified(c, i) ==
    IF health[i] THEN status[c][AddrOf[i]].failures < UnhealthyThreshold
    ELSE status[c][AddrOf[i]].successes < HealthyThreshold

Settled(c, i) ==
    /\ ~Evaluating(c, AddrOf[i]) => Justified(c, i)
    /\ Evaluating(c, AddrOf[i]) =>
          /\ stage[c] = "ifHealthy" /\ health[i] =>
                status[c][AddrOf[i]].failures < UnhealthyThreshold
          /\ stage[c] \in {"rebuild", "gauge"} => health[i] = goal[c]
          /\ stage[c] \in {"store", "rebuild", "gauge"} /\ goal[c] =>
                status[c][AddrOf[i]].successes >= HealthyThreshold

FlagsSettled ==
    \A c \in Markers, i \in Index : Finds(AddrOf[i], i) => Settled(c, i)

\* During a rebuild, only the backend being marked may differ from the snapshot.
CacheDiffersAtMarked ==
    \A c \in Markers, i \in Index :
        stage[c] = "rebuild" /\ ~Finds(CurrentAddr(c), i) => (i \in cache <=> health[i])

CheckerInv ==
    /\ StageInv
    /\ OneCountIsZero
    /\ FlagsSettled
    /\ CacheDiffersAtMarked

LEMMA FindsIsUnique ==
    ASSUME NEW a, NEW i \in Index, NEW j \in Index, Finds(a, i), Finds(a, j)
    PROVE  i = j
  BY PoolAssumption DEF Finds, Index

LEMMA CheckerInvInit == ASSUME ThresholdsPositive, Init PROVE CheckerInv
<1> USE PoolAssumption, CheckerAssumption DEF Init, PoolInit, Index
<1>1. StageInv /\ CacheDiffersAtMarked
  BY DEF StageInv, CacheDiffersAtMarked, Idle
<1>2. OneCountIsZero
  BY DEF OneCountIsZero
<1>3. FlagsSettled
  BY DEF FlagsSettled, Settled, Justified, Evaluating, ThresholdsPositive
<1> QED
  BY <1>1, <1>2, <1>3 DEF CheckerInv

\* Steps outside the evaluation: the flags and counters stay, and no
\* evaluation begins, ends or goes on.
LEMMA OutsideEvaluation ==
    ASSUME CheckerInv, OneMarker, TypeOK, NEW c \in Markers,
           UNCHANGED <<poolVars, status, current, goal>>,
           \/ UNCHANGED stage
           \/ /\ stage[c] \in {"start", "select", "joining"}
              /\ \E s \in {"select", "joining", "stopped", "panicked"} : Goto(c, stage[c], s)
    PROVE  CheckerInv'
<1> USE DEF CheckerInv, TypeOK, Goto, poolVars, OneMarker
<1>1. StageInv'
  BY DEF StageInv, Idle
<1>2. OneCountIsZero'
  BY DEF OneCountIsZero
<1>3. FlagsSettled'
  BY DEF FlagsSettled, Settled, Justified, Evaluating, CurrentAddr, Finds
<1>4. CacheDiffersAtMarked'
  BY DEF CacheDiffersAtMarked, CurrentAddr, Finds
<1> QED
  BY <1>1, <1>2, <1>3, <1>4

LEMMA JoinResultKeepsInv ==
    ASSUME CheckerInv, OneMarker, TypeOK, NEW c \in Markers, NEW i \in Index,
           JoinResult(c, i)
    PROVE  CheckerInv'
<1> USE PoolAssumption DEF CheckerInv, TypeOK, Goto, poolVars, OneMarker, Index, JoinResult
<1>1. StageInv'
  BY DEF StageInv, Idle
<1>2. OneCountIsZero'
  BY UpdateInWidth DEF OneCountIsZero
<1>3. FlagsSettled'
  <2> SUFFICES ASSUME NEW j \in Index, Finds(AddrOf[j], j)
               PROVE  Settled(c, j)'
    BY DEF FlagsSettled, Finds
  <2>1. Justified(c, j)
    BY DEF FlagsSettled, Settled, Evaluating
  <2>2. Evaluating(c, AddrOf[j])' <=> AddrOf[j] = AddrOf[i]
    BY DEF Evaluating, CurrentAddr
  <2>3. AddrOf[j] # AddrOf[i] => Justified(c, j)'
    BY <2>1 DEF Justified
  <2>4. stage'[c] = "ifUnhealthy"
    OBVIOUS
  <2> QED
    BY <2>2, <2>3, <2>4 DEF Settled
<1>4. CacheDiffersAtMarked'
  BY DEF CacheDiffersAtMarked, CurrentAddr, Finds
<1> QED
  BY <1>1, <1>2, <1>3, <1>4

LEMMA TestUnhealthyKeepsInv ==
    ASSUME CheckerInv, OneMarker, TypeOK, NEW c \in Markers, TestUnhealthy(c)
    PROVE  CheckerInv'
<1> USE PoolAssumption DEF CheckerInv, TypeOK, Goto, poolVars, OneMarker, Index, TestUnhealthy
<1>1. StageInv'
  BY DEF StageInv, Idle
<1>2. OneCountIsZero'
  BY DEF OneCountIsZero
<1>3. FlagsSettled'
  <2> SUFFICES ASSUME NEW j \in Index, Finds(AddrOf[j], j)
               PROVE  Settled(c, j)'
    BY DEF FlagsSettled, Finds
  <2>1. Evaluating(c, AddrOf[j])' <=> Evaluating(c, AddrOf[j])
    BY DEF Evaluating, CurrentAddr
  <2>2. Justified(c, j)' <=> Justified(c, j)
    BY DEF Justified
  <2>3. ASSUME Evaluating(c, AddrOf[j]), stage'[c] = "ifHealthy", health[j]
        PROVE  status[c][AddrOf[j]].failures < UnhealthyThreshold
    <3>1. ~TurnsUnhealthy(c)
      BY <2>3
    <3>2. HealthByAddr(CurrentAddr(c), TRUE)
      BY <2>3 DEF HealthByAddr, Evaluating
    <3>3. status[c][AddrOf[j]].failures \in Nat /\ UnhealthyThreshold \in Nat
      BY CheckerAssumption DEF Counts
    <3> QED
      BY <2>3, <3>1, <3>2, <3>3 DEF TurnsUnhealthy, Current, Evaluating
  <2>4. goal'[c] = FALSE /\ stage'[c] \in {"store", "ifHealthy"}
    OBVIOUS
  <2> QED
    BY <2>1, <2>2, <2>3, <2>4 DEF FlagsSettled, Settled
<1>4. CacheDiffersAtMarked'
  BY DEF CacheDiffersAtMarked, CurrentAddr, Finds
<1> QED
  BY <1>1, <1>2, <1>3, <1>4

LEMMA TestHealthyKeepsInv ==
    ASSUME CheckerInv, OneMarker, TypeOK, NEW c \in Markers, TestHealthy(c)
    PROVE  CheckerInv'
<1> USE PoolAssumption DEF CheckerInv, TypeOK, Goto, poolVars, OneMarker, Index, TestHealthy
<1>1. StageInv'
  BY DEF StageInv, Idle
<1>2. OneCountIsZero'
  BY DEF OneCountIsZero
<1>3. FlagsSettled'
  <2> SUFFICES ASSUME NEW j \in Index, Finds(AddrOf[j], j)
               PROVE  Settled(c, j)'
    BY DEF FlagsSettled, Finds
  <2>1. CASE TurnsHealthy(c)
    <3>1. Evaluating(c, AddrOf[j])' <=> Evaluating(c, AddrOf[j])
      BY <2>1 DEF Evaluating, CurrentAddr
    <3>2. Justified(c, j)' <=> Justified(c, j)
      BY DEF Justified
    <3>3. Evaluating(c, AddrOf[j]) => status'[c][AddrOf[j]].successes >= HealthyThreshold
      BY <2>1 DEF TurnsHealthy, Current, Evaluating
    <3>4. stage'[c] = "store"
      BY <2>1
    <3> QED
      BY <3>1, <3>2, <3>3, <3>4 DEF FlagsSettled, Settled
  <2>2. CASE ~TurnsHealthy(c)
    <3>1. ~Evaluating(c, AddrOf[j])'
      BY <2>2 DEF Evaluating
    <3>2. ASSUME Evaluating(c, AddrOf[j]) PROVE Justified(c, j)
      <4>1. health[j] => status[c][AddrOf[j]].failures < UnhealthyThreshold
        BY <3>2 DEF FlagsSettled, Settled
      <4>2. ~health[j] => HealthByAddr(CurrentAddr(c), FALSE)
        BY <3>2 DEF HealthByAddr, Evaluating, PoolTypeOK
      <4>3. status[c][AddrOf[j]].successes \in Nat /\ HealthyThreshold \in Nat
        BY CheckerAssumption DEF Counts
      <4>4. ~health[j] => ~(status[c][AddrOf[j]].successes >= HealthyThreshold)
        BY <2>2, <3>2, <4>2 DEF TurnsHealthy, Current, Evaluating
      <4> QED
        BY <4>1, <4>3, <4>4 DEF Justified
    <3>3. Justified(c, j)
      BY <3>2 DEF FlagsSettled, Settled
    <3> QED
      BY <3>1, <3>3 DEF Settled, Justified
  <2> QED
    BY <2>1, <2>2
<1>4. CacheDiffersAtMarked'
  BY DEF CacheDiffersAtMarked, CurrentAddr, Finds
<1> QED
  BY <1>1, <1>2, <1>3, <1>4

LEMMA MarkKeepsInv ==
    ASSUME CheckerInv, PoolInv, OneMarker, TypeOK, NEW c \in Markers, Mark(c)
    PROVE  CheckerInv'
<1> USE PoolAssumption DEF CheckerInv, TypeOK, Goto, poolVars, OneMarker, Index, Mark,
                           MarkByAddr, StoreFlag
<1>1. StageInv'
  BY DEF StageInv, Idle, PoolTypeOK
<1>2. OneCountIsZero'
  BY DEF OneCountIsZero
<1>3. FlagsSettled'
  <2> SUFFICES ASSUME NEW j \in Index, Finds(AddrOf[j], j)
               PROVE  Settled(c, j)'
    BY DEF FlagsSettled, Finds
  <2>1. PICK i \in Index : Finds(CurrentAddr(c), i) /\ StoreFlag(c, i, goal[c])
    OBVIOUS
  <2>2. Evaluating(c, AddrOf[j])' <=> Evaluating(c, AddrOf[j])
    BY DEF Evaluating, CurrentAddr
  <2>3. CASE Evaluating(c, AddrOf[j])
    <3>1. i = j
      BY <2>1, <2>3, FindsIsUnique DEF Evaluating
    <3>2. health'[j] = goal[c] /\ goal'[c] = goal[c]
      BY <2>1, <3>1 DEF PoolTypeOK
    <3>3. goal[c] => status'[c][AddrOf[j]].successes >= HealthyThreshold
      BY <2>3 DEF FlagsSettled, Settled
    <3>4. stage'[c] = "rebuild"
      OBVIOUS
    <3> QED
      BY <2>2, <2>3, <3>2, <3>3, <3>4 DEF Settled
  <2>4. CASE ~Evaluating(c, AddrOf[j])
    <3>1. i # j
      BY <2>1, <2>4 DEF Evaluating, Finds
    <3>2. Justified(c, j)
      BY <2>4 DEF FlagsSettled, Settled
    <3> QED
      BY <2>1, <2>2, <2>4, <3>1, <3>2 DEF Settled, Justified, PoolTypeOK
  <2> QED
    BY <2>3, <2>4
<1>4. CacheDiffersAtMarked'
  BY DEF CacheDiffersAtMarked, CurrentAddr, Finds, PoolInv, QuiescentCacheExact, Healthy,
         PoolTypeOK, Idle
<1> QED
  BY <1>1, <1>2, <1>3, <1>4

LEMMA RebuildKeepsInv ==
    ASSUME CheckerInv, OneMarker, TypeOK, NEW c \in Markers, Rebuild(c)
    PROVE  CheckerInv'
<1> USE PoolAssumption DEF CheckerInv, TypeOK, Goto, poolVars, OneMarker, Index, Rebuild,
                           LoadFlag, taskVars
<1>1. StageInv'
  BY DEF StageInv, Idle, PoolTypeOK
<1>2. OneCountIsZero'
  BY DEF OneCountIsZero
<1>3. FlagsSettled'
  BY DEF FlagsSettled, Settled, Justified, Evaluating, CurrentAddr, Finds
<1>4. CacheDiffersAtMarked'
  BY DEF CacheDiffersAtMarked, CurrentAddr, Finds
<1> QED
  BY <1>1, <1>2, <1>3, <1>4

LEMMA PublishKeepsInv ==
    ASSUME CheckerInv, OneMarker, TypeOK, NEW c \in Markers, Publish(c)
    PROVE  CheckerInv'
<1> USE PoolAssumption DEF CheckerInv, TypeOK, Goto, poolVars, OneMarker, Index, Publish,
                           InstallCache
<1>1. StageInv'
  BY DEF StageInv, Idle, PoolTypeOK
<1>2. OneCountIsZero'
  BY DEF OneCountIsZero
<1>3. FlagsSettled'
  BY DEF FlagsSettled, Settled, Justified, Evaluating, CurrentAddr, Finds
<1>4. CacheDiffersAtMarked'
  BY DEF CacheDiffersAtMarked, CurrentAddr, Finds
<1> QED
  BY <1>1, <1>2, <1>3, <1>4

LEMMA SetGaugeKeepsInv ==
    ASSUME ThresholdsPositive, CheckerInv, OneMarker, TypeOK, NEW c \in Markers, SetGauge(c)
    PROVE  CheckerInv'
<1> USE PoolAssumption DEF CheckerInv, TypeOK, Goto, poolVars, OneMarker, Index, SetGauge
<1>1. StageInv'
  BY DEF StageInv, Idle
<1>2. OneCountIsZero'
  BY DEF OneCountIsZero
<1>3. FlagsSettled'
  <2> SUFFICES ASSUME NEW j \in Index, Finds(AddrOf[j], j)
               PROVE  Settled(c, j)'
    BY DEF FlagsSettled, Finds
  <2>1. Justified(c, j)' <=> Justified(c, j)
    BY DEF Justified
  <2>2. CASE goal[c]
    <3>1. ~Evaluating(c, AddrOf[j])'
      BY <2>2 DEF Evaluating
    <3>2. ASSUME Evaluating(c, AddrOf[j]) PROVE Justified(c, j)
      <4>1. health[j] /\ status[c][AddrOf[j]].successes >= HealthyThreshold
        BY <2>2, <3>2 DEF FlagsSettled, Settled
      <4>2. status[c][AddrOf[j]].failures = 0
        BY <4>1, CheckerAssumption DEF OneCountIsZero, ThresholdsPositive
      <4> QED
        BY <4>1, <4>2, CheckerAssumption DEF Justified, ThresholdsPositive
    <3>3. Justified(c, j)
      BY <3>2 DEF FlagsSettled, Settled
    <3> QED
      BY <2>1, <3>1, <3>3 DEF Settled
  <2>3. CASE ~goal[c]
    <3>1. Evaluating(c, AddrOf[j])' <=> Evaluating(c, AddrOf[j])
      BY <2>3 DEF Evaluating, CurrentAddr
    <3>2. Evaluating(c, AddrOf[j]) => ~health'[j]
      BY <2>3 DEF FlagsSettled, Settled
    <3>3. stage'[c] = "ifHealthy"
      BY <2>3
    <3> QED
      BY <2>1, <3>1, <3>2, <3>3 DEF FlagsSettled, Settled
  <2> QED
    BY <2>2, <2>3
<1>4. CacheDiffersAtMarked'
  BY DEF CacheDiffersAtMarked, CurrentAddr, Finds
<1> QED
  BY <1>1, <1>2, <1>3, <1>4

LEMMA CheckerInvStep ==
    ASSUME ThresholdsPositive, OneMarker, TypeOK, PoolInv, CheckerInv, [Next]_vars
    PROVE  CheckerInv'
<1>1. ASSUME NEW c \in Markers,
             \/ Start(c) \/ Tick(c) \/ Stop(c) \/ EndRound(c)
             \/ \E i \in Index : EndProbe(c, i) \/ JoinPanicked(c, i)
      PROVE  CheckerInv'
  <2>1. UNCHANGED <<poolVars, status, current, goal>>
    BY <1>1 DEF Start, Tick, Stop, EndRound, EndProbe, JoinPanicked
  <2>2. \/ UNCHANGED stage
        \/ /\ stage[c] \in {"start", "select", "joining"}
           /\ \E s \in {"select", "joining", "stopped", "panicked"} : Goto(c, stage[c], s)
    BY <1>1 DEF Start, Tick, Stop, EndRound, EndProbe, JoinPanicked, Goto
  <2> QED
    BY <2>1, <2>2, OutsideEvaluation
<1>2. CASE Cancel \/ (\E a \in Addr : ServerChanges(a)) \/ UNCHANGED vars
  <2>1. UNCHANGED <<poolVars, taskVars>>
    BY <1>2 DEF Cancel, ServerChanges, vars
  <2> QED
    BY <2>1
    DEF poolVars, taskVars, CheckerInv, StageInv, OneCountIsZero, FlagsSettled, Settled,
        Justified, Evaluating, CacheDiffersAtMarked, CurrentAddr, Finds, Idle
<1> QED
  BY <1>1, <1>2, JoinResultKeepsInv, TestUnhealthyKeepsInv, TestHealthyKeepsInv,
     MarkKeepsInv, RebuildKeepsInv, PublishKeepsInv, SetGaugeKeepsInv
  DEF Next, Run, Evaluate

LEMMA CheckerInvHolds ==
    ASSUME OneMarker, ThresholdsPositive PROVE Spec => []CheckerInv
<1>1. Init => CheckerInv
  BY CheckerInvInit
<1>2. TypeOK /\ PoolInv /\ CheckerInv /\ [Next]_vars => CheckerInv'
  BY CheckerInvStep
<1> QED
  BY <1>1, <1>2, CheckerTypeCorrect, CheckerUsesPool, PoolInvHolds, PTL DEF Spec

---------------------------------------------------------------------------------
(***************************************************************************)
(* With one checker, a backend in rotation has fewer failures in a row     *)
(* than its threshold and one out of rotation fewer successes, except      *)
(* while a result of its address is being evaluated.                       *)
(***************************************************************************)
THEOREM CheckerRotationMatchesCounts ==
    ASSUME OneMarker PROVE Spec => []RotationMatchesCounts
<1>1. CASE ThresholdsPositive
  <2>1. PoolInv /\ CheckerInv => RotationMatchesCounts
    <3> SUFFICES ASSUME PoolInv, CheckerInv, NEW c \in Markers, NEW i \in Index,
                        Finds(AddrOf[i], i), ~Evaluating(c, AddrOf[i])
                 PROVE  IF i \in cache
                        THEN status[c][AddrOf[i]].failures < UnhealthyThreshold
                        ELSE status[c][AddrOf[i]].successes < HealthyThreshold
      BY DEF RotationMatchesCounts
    <3>1. Justified(c, i)
      BY DEF CheckerInv, FlagsSettled, Settled
    <3>2. CASE stage[c] = "rebuild"
      <4>1. ~Finds(CurrentAddr(c), i)
        BY <3>2 DEF Evaluating, Finds
      <4> QED
        BY <3>1, <3>2, <4>1 DEF CheckerInv, CacheDiffersAtMarked, Justified
    <3>3. CASE stage[c] # "rebuild"
      <4>1. cache = Healthy
        BY <3>3 DEF PoolInv, QuiescentCacheExact, CheckerInv, StageInv, OneMarker
      <4> QED
        BY <3>1, <4>1 DEF Healthy, Justified
    <3> QED
      BY <3>2, <3>3
  <2> QED
    BY <1>1, <2>1, CheckerInvHolds, CheckerUsesPool, PoolInvHolds, PTL
<1>2. CASE ~ThresholdsPositive
  <2>1. RotationMatchesCounts
    BY <1>2 DEF RotationMatchesCounts
  <2> QED
    BY <2>1, PTL
<1> QED
  BY <1>1, <1>2

---------------------------------------------------------------------------------
(***************************************************************************)
(* The strengthening behind GaugeTracksFlag: the gauge can only be behind  *)
(* between the store of the flag and set_backend_health, and in between    *)
(* the flag is the one that the gauge is about to show.                    *)
(***************************************************************************)
Flag(i) == IF health[i] THEN "healthy" ELSE "unhealthy"

Relabelling(c, i) == stage[c] \in {"rebuild", "gauge"} /\ CurrentAddr(c) = AddrOf[i]

GaugeSettled(c, i) ==
    /\ Relabelling(c, i) => health[i] = goal[c]
    /\ ~Relabelling(c, i) => gauge[AddrOf[i]] \in {"unset", Flag(i)}

GaugeInv ==
    \A c \in Markers, i \in Index : Finds(AddrOf[i], i) => GaugeSettled(c, i)

LEMMA GaugeInvStep ==
    ASSUME OneMarker, TypeOK, GaugeInv, [Next]_vars PROVE GaugeInv'
<1> SUFFICES ASSUME NEW n \in Markers, NEW j \in Index, Finds(AddrOf[j], j)
             PROVE  GaugeSettled(n, j)'
  BY DEF GaugeInv, Finds
<1>1. GaugeSettled(n, j)
  BY DEF GaugeInv
<1> USE DEF GaugeSettled, Relabelling, CurrentAddr, Flag, Goto, TypeOK, poolVars
<1>2. ASSUME NEW c \in Markers,
             Start(c) \/ Tick(c) \/ Stop(c) \/ EndRound(c) \/ TestUnhealthy(c) \/ TestHealthy(c)
      PROVE  GaugeSettled(n, j)'
  <2>1. c = n /\ UNCHANGED <<health, gauge>>
    BY <1>2 DEF OneMarker, Start, Tick, Stop, EndRound, TestUnhealthy, TestHealthy
  <2>2. stage[n] \notin {"rebuild", "gauge"} /\ stage'[n] \notin {"rebuild", "gauge"}
    BY <1>2, <2>1 DEF Start, Tick, Stop, EndRound, TestUnhealthy, TestHealthy
  <2> QED
    BY <1>1, <2>1, <2>2
<1>3. ASSUME NEW c \in Markers, NEW i \in Index,
             EndProbe(c, i) \/ JoinResult(c, i) \/ JoinPanicked(c, i)
      PROVE  GaugeSettled(n, j)'
  BY <1>1, <1>3 DEF OneMarker, EndProbe, JoinResult, JoinPanicked
<1>4. ASSUME NEW c \in Markers, Mark(c) PROVE GaugeSettled(n, j)'
  <2>1. PICK i \in Index : Finds(CurrentAddr(c), i) /\ StoreFlag(c, i, goal[c])
    BY <1>4 DEF Mark, MarkByAddr
  <2>2. c = n /\ stage[n] = "store" /\ stage'[n] = "rebuild"
        /\ UNCHANGED <<current, goal, gauge>>
    BY <1>4 DEF OneMarker, Mark
  <2>3. CASE i = j
    BY <2>1, <2>2, <2>3 DEF StoreFlag, Finds, PoolTypeOK
  <2>4. CASE i # j
    <3>1. CurrentAddr(c) # AddrOf[j]
      BY <2>1, <2>4, FindsIsUnique
    <3>2. health'[j] = health[j]
      BY <2>1, <2>4 DEF StoreFlag, PoolTypeOK
    <3> QED
      BY <1>1, <2>2, <3>1, <3>2
  <2> QED
    BY <2>3, <2>4
<1>5. ASSUME NEW c \in Markers, Rebuild(c) \/ Publish(c) PROVE GaugeSettled(n, j)'
  BY <1>1, <1>5 DEF OneMarker, Rebuild, Publish, LoadFlag, InstallCache, taskVars
<1>6. ASSUME NEW c \in Markers, SetGauge(c) PROVE GaugeSettled(n, j)'
  <2>1. c = n /\ stage[n] = "gauge" /\ stage'[n] \in {"joining", "ifHealthy"}
        /\ UNCHANGED <<health, goal>>
    BY <1>6 DEF OneMarker, SetGauge
  <2>2. CASE CurrentAddr(n) = AddrOf[j]
    <3>1. health[j] = goal[n] /\ AddrOf[j] \in Addr
      BY <1>1, <2>1, <2>2, PoolAssumption
    <3>2. gauge'[AddrOf[j]] = Flag(j)
      BY <1>6, <2>1, <2>2, <3>1 DEF SetGauge
    <3> QED
      BY <2>1, <3>2
  <2>3. CASE CurrentAddr(n) # AddrOf[j]
    <3>1. gauge'[AddrOf[j]] = gauge[AddrOf[j]]
      BY <1>6, <2>1, <2>3, PoolAssumption DEF SetGauge
    <3> QED
      BY <1>1, <2>1, <2>3, <3>1
  <2> QED
    BY <2>2, <2>3
<1>7. CASE Cancel \/ (\E a \in Addr : ServerChanges(a)) \/ UNCHANGED vars
  BY <1>1, <1>7 DEF Cancel, ServerChanges, taskVars, vars
<1> QED
  BY <1>2, <1>3, <1>4, <1>5, <1>6, <1>7 DEF Next, Run, Evaluate

(***************************************************************************)
(* With one checker, the backend_health gauge of an address never          *)
(* contradicts its flag, except while that address is being evaluated.     *)
(***************************************************************************)
THEOREM CheckerGaugeTracksFlag ==
    ASSUME OneMarker PROVE Spec => []GaugeTracksFlag
<1>1. Init => GaugeInv
  BY PoolAssumption DEF Init, GaugeInv, GaugeSettled, Relabelling
<1>2. TypeOK /\ GaugeInv /\ [Next]_vars => GaugeInv'
  BY GaugeInvStep
<1>3. GaugeInv => GaugeTracksFlag
  BY DEF GaugeInv, GaugeSettled, GaugeTracksFlag, Relabelling, Evaluating, Flag
<1> QED
  BY <1>1, <1>2, <1>3, CheckerTypeCorrect, PTL DEF Spec

---------------------------------------------------------------------------------
(***************************************************************************)
(* The refinement of HealthMachine.  Outcome, State and Streak are what    *)
(* the machine's variables stand for.                                      *)
(***************************************************************************)
Outcome == [i \in Index |-> IF probes[TheChecker][i] \in {"healthy", "unhealthy"}
                            THEN probes[TheChecker][i] ELSE "none"]
State == [a \in Addr |-> Verdict(a)]
Streak == [a \in Addr |-> IF Verdict(a) THEN Counted(a).failures ELSE Counted(a).successes]

\* A mark that takes an address out has been called for.
StoreCalledFor ==
    \A c \in Markers :
        stage[c] = "store" /\ ~goal[c] =>
            status[c][CurrentAddr(c)].failures >= UnhealthyThreshold

\* The search by address finds the first backend with it.
LEMMA FirstExists ==
    ASSUME NEW i \in Index
    PROVE  \E j \in Index : Finds(AddrOf[i], j)
<1> DEFINE S == {j \in Index : AddrOf[j] = AddrOf[i]}
<1>1. Index \subseteq Nat /\ IsFiniteSet(Index)
  <2>1. IsFiniteSet(1..NumBackends)
    BY PoolAssumption, FS_Interval
  <2>2. QED
    BY <2>1, PoolAssumption DEF Index
<1>2. S \subseteq Index /\ i \in S
  OBVIOUS
<1>3. S \in SUBSET Nat /\ IsFiniteSet(S) /\ S # {}
  BY <1>1, <1>2, FS_Subset
<1>4. PICK m \in S : \A j \in S : m <= j
  BY <1>3, LeastMember
<1>5. m \in Index /\ AddrOf[m] = AddrOf[i]
  BY <1>4
<1>6. ASSUME NEW j \in 1..(m - 1) PROVE AddrOf[j] # AddrOf[i]
  <2>1. j \in Index /\ j < m /\ m \in Nat /\ j \in Nat
    BY <1>5, PoolAssumption DEF Index
  <2>2. j \in S => m <= j
    BY <1>4
  <2>3. QED
    BY <2>1, <2>2
<1>7. QED
  BY <1>5, <1>6 DEF Finds

LEMMA TheCheckerIs ==
    ASSUME OneMarker, NEW c \in Markers
    PROVE  TheChecker = c
BY DEF OneMarker, TheChecker

LEMMA StoreCalledForStep ==
    ASSUME TypeOK, StoreCalledFor, OneMarker, [Next]_vars
    PROVE  StoreCalledFor'
<1> SUFFICES ASSUME NEW n \in Markers, stage'[n] = "store", ~goal'[n]
             PROVE  status'[n][CurrentAddr(n)'].failures >= UnhealthyThreshold
  BY DEF StoreCalledFor
<1> USE DEF TypeOK, Goto, taskVars, CurrentAddr
<1>1. ASSUME stage[n] = "store", ~goal[n], UNCHANGED <<current, status>>
      PROVE  status'[n][CurrentAddr(n)'].failures >= UnhealthyThreshold
  BY <1>1 DEF StoreCalledFor
<1>2. ASSUME NEW c \in Markers,
             Start(c) \/ Tick(c) \/ Stop(c) \/ EndRound(c) \/ TestHealthy(c) \/ Mark(c)
                \/ Publish(c) \/ SetGauge(c)
      PROVE  FALSE
  BY <1>2 DEF OneMarker, Start, Tick, Stop, EndRound, TestHealthy, Mark, Publish, SetGauge
<1>3. ASSUME NEW c \in Markers, NEW i \in Index, JoinResult(c, i) \/ JoinPanicked(c, i)
      PROVE  FALSE
  BY <1>3 DEF OneMarker, JoinResult, JoinPanicked
<1>4. ASSUME NEW c \in Markers, TestUnhealthy(c)
      PROVE  status'[n][CurrentAddr(n)'].failures >= UnhealthyThreshold
  <2>1. c = n /\ UNCHANGED <<current, status>> /\ TurnsUnhealthy(n)
    BY <1>4 DEF OneMarker, TestUnhealthy
  <2>2. QED
    BY <2>1 DEF TurnsUnhealthy, Current
<1>5. ASSUME NEW c \in Markers, Rebuild(c) \/ \E i \in Index : EndProbe(c, i)
      PROVE  status'[n][CurrentAddr(n)'].failures >= UnhealthyThreshold
  BY <1>1, <1>5 DEF Rebuild, EndProbe
<1>6. CASE Cancel \/ (\E a \in Addr : ServerChanges(a)) \/ UNCHANGED vars
  BY <1>1, <1>6 DEF Cancel, ServerChanges, vars
<1>7. QED
  BY <1>2, <1>3, <1>4, <1>5, <1>6 DEF Next, Run, Evaluate

\* The state of an address is its own flag's and its own counters' doing.
LEMMA VerdictIs ==
    ASSUME TypeOK, NEW c \in Markers, c = TheChecker, NEW j \in Index, NEW a \in Addr,
           Finds(a, j)
    PROVE  /\ HealthByAddr(a, TRUE) <=> health[j]
           /\ Verdict(a) <=> IF health[j] THEN status[c][a].failures < UnhealthyThreshold
                             ELSE status[c][a].successes >= HealthyThreshold
<1>1. HealthByAddr(a, TRUE) <=> health[j]
  BY FindsIsUnique DEF HealthByAddr, TypeOK, PoolTypeOK
<1>2. QED
  BY <1>1 DEF Verdict, Counted

LEMMA VerdictBoolean ==
    ASSUME NEW a, Counted(a) \in Counts, Counted(a)' \in Counts
    PROVE  Verdict(a) \in BOOLEAN /\ Verdict(a)' \in BOOLEAN
<1>1. \A q \in Nat : (q < UnhealthyThreshold) \in BOOLEAN /\ (q >= HealthyThreshold) \in BOOLEAN
  BY CheckerAssumption
<1>2. Verdict(a) \in BOOLEAN
  <2>1. Counted(a).failures \in Nat /\ Counted(a).successes \in Nat
    BY CheckerAssumption DEF Counts
  <2>2. CASE HealthByAddr(a, TRUE)
    BY <1>1, <2>1, <2>2, Zenon DEF Verdict
  <2>3. CASE ~HealthByAddr(a, TRUE)
    BY <1>1, <2>1, <2>3, Zenon DEF Verdict
  <2>4. QED
    BY <2>2, <2>3
<1>3. Verdict(a)' \in BOOLEAN
  <2>1. Counted(a)'.failures \in Nat /\ Counted(a)'.successes \in Nat
    BY CheckerAssumption DEF Counts
  <2>2. CASE HealthByAddr(a, TRUE)'
    BY <1>1, <2>1, <2>2, Zenon DEF Verdict
  <2>3. CASE ~HealthByAddr(a, TRUE)'
    BY <1>1, <2>1, <2>3, Zenon DEF Verdict
  <2>4. QED
    BY <2>2, <2>3
<1>4. QED
  BY <1>2, <1>3

\* A function that differs from another in one entry at most.
LEMMA OneEntry ==
    ASSUME NEW D, NEW f, NEW g, f = [b \in D |-> f[b]], g = [b \in D |-> g[b]],
           NEW a \in D, NEW v, g[a] = v, \A b \in D \ {a} : g[b] = f[b]
    PROVE  g = [f EXCEPT ![a] = v]
OBVIOUS

LEMMA StateStays ==
    ASSUME UNCHANGED <<health, status>>
    PROVE  UNCHANGED <<State, Streak>>
BY DEF State, Streak, Verdict, Counted, HealthByAddr, Finds, TheChecker

\* What the actions of the machine are in these terms.
LEMMA MachineDeliver ==
    ASSUME NEW i \in Index, NEW r \in {"healthy", "unhealthy"}, Outcome[i] = "none",
           Outcome' = [Outcome EXCEPT ![i] = r], UNCHANGED <<State, Streak>>
    PROVE  Machine!Next
<1>1. Machine!Deliver(i)
  BY DEF Machine!Deliver, Machine!Results, Outcome, State, Streak
<1>2. QED
  BY <1>1 DEF Machine!Next

LEMMA MachineDiscard ==
    ASSUME Outcome' = [i \in Index |-> "none"], UNCHANGED <<State, Streak>>
    PROVE  Machine!Next
<1>1. Machine!Discard
  BY DEF Machine!Discard, Outcome, State, Streak
<1>2. QED
  BY <1>1 DEF Machine!Next

LEMMA MachineAgreeing ==
    ASSUME NEW i \in Index, Outcome[i] \in {"healthy", "unhealthy"},
           State[AddrOf[i]] = (Outcome[i] = "healthy"),
           Outcome' = [Outcome EXCEPT ![i] = "none"],
           Streak' = [Streak EXCEPT ![AddrOf[i]] = 0], UNCHANGED State
    PROVE  Machine!Next
<1>1. Machine!CountAgreeing(i)
  BY DEF Machine!CountAgreeing, Machine!Results, Outcome, State, Streak
<1>2. QED
  BY <1>1 DEF Machine!Next

LEMMA MachineContrary ==
    ASSUME NEW i \in Index, Outcome[i] \in {"healthy", "unhealthy"},
           NEW a, a = AddrOf[i], NEW flips \in BOOLEAN,
           State[a] # (Outcome[i] = "healthy"),
           flips <=> Streak[a] + 1 >= (IF State[a] THEN UnhealthyThreshold
                                       ELSE HealthyThreshold),
           Outcome' = [Outcome EXCEPT ![i] = "none"],
           State' = [State EXCEPT ![a] = IF flips THEN ~@ ELSE @],
           Streak' = [Streak EXCEPT ![a] = IF flips THEN 0 ELSE @ + 1]
    PROVE  Machine!Next
<1>1. Machine!CountContrary(i)
  BY DEF Machine!CountContrary, Machine!Results, Outcome, State, Streak
<1>2. QED
  BY <1>1 DEF Machine!Next

\* Counting one result while flag f and counters old agree, as the machine counts it.
LEMMA CountingOne ==
    ASSUME ThresholdsPositive, NEW old \in Counts, old.successes = 0 \/ old.failures = 0,
           NEW f \in BOOLEAN, NEW r \in {"healthy", "unhealthy"},
           IF f THEN old.failures < UnhealthyThreshold ELSE old.successes < HealthyThreshold
    PROVE  LET new == Update(old, r)
               verdict == IF f THEN new.failures < UnhealthyThreshold
                          ELSE new.successes >= HealthyThreshold
               before == IF f THEN old.failures ELSE old.successes
               after == IF verdict THEN new.failures ELSE new.successes
               flips == before + 1 >= (IF f THEN UnhealthyThreshold ELSE HealthyThreshold)
           IN  /\ (f <=> r = "healthy") => (verdict <=> f) /\ after = 0
               /\ (f <=> r # "healthy") =>
                     /\ verdict <=> IF flips THEN ~f ELSE f
                     /\ after = IF flips THEN 0 ELSE before + 1
<1> USE CheckerAssumption DEF ThresholdsPositive, Counts, Update
<1>1. CASE f /\ r = "healthy"
  BY <1>1
<1>2. CASE ~f /\ r = "unhealthy"
  BY <1>2
<1>3. CASE f /\ r = "unhealthy"
  <2>1. (old.failures + 1) % CounterSize = old.failures + 1
    BY <1>3
  <2>2. QED
    BY <1>3, <2>1
<1>4. CASE ~f /\ r = "healthy"
  <2>1. (old.successes + 1) % CounterSize = old.successes + 1
    BY <1>4
  <2>2. QED
    BY <1>4, <2>1
<1>5. QED
  BY <1>1, <1>2, <1>3, <1>4

\* Joining a result is the machine's counting of it, with its change of state.
LEMMA JoinRefines ==
    ASSUME ThresholdsPositive, OneMarker, TypeOK, CheckerInv,
           NEW c \in Markers, NEW i \in Index, JoinResult(c, i)
    PROVE  Machine!Next
<1> DEFINE a == AddrOf[i]
           r == probes[c][i]
           old == status[c][a]
           new == Update(old, r)
<1>1. c = TheChecker
  BY TheCheckerIs
<1>2. PICK j \in Index : Finds(a, j)
  BY FirstExists
<1>3. a \in Addr /\ AddrOf[j] = a /\ r \in {"healthy", "unhealthy"} /\ old \in Counts
      /\ health[j] \in BOOLEAN
  BY <1>2, PoolAssumption DEF Finds, JoinResult, TypeOK, PoolTypeOK, Index
<1>4. /\ UNCHANGED health
      /\ status' = [status EXCEPT ![c][a] = new]
      /\ probes' = [probes EXCEPT ![c][i] = "none"]
  BY DEF JoinResult, poolVars
<1>5. IF health[j] THEN old.failures < UnhealthyThreshold ELSE old.successes < HealthyThreshold
  <2>1. ~Evaluating(c, a)
    BY DEF JoinResult, Goto, Evaluating
  <2>2. Settled(c, j)
    BY <1>2, <1>3 DEF CheckerInv, FlagsSettled
  <2>3. QED
    BY <1>3, <2>1, <2>2 DEF Settled, Justified
<1>6. old.successes = 0 \/ old.failures = 0
  BY <1>3 DEF CheckerInv, OneCountIsZero
<1>7. HealthByAddr(a, TRUE) <=> health[j]
  BY <1>1, <1>2, <1>3, VerdictIs
<1>8. Counted(a) = old /\ Counted(a)' = new
  BY <1>1, <1>3, <1>4 DEF Counted, TypeOK, TheChecker
<1>9. Verdict(a) <=> health[j]
  <2>1. old.successes >= HealthyThreshold <=> ~(old.successes < HealthyThreshold)
    BY <1>3, CheckerAssumption DEF Counts
  <2>2. Verdict(a) <=> IF health[j] THEN old.failures < UnhealthyThreshold
                       ELSE old.successes >= HealthyThreshold
    BY <1>7, <1>8 DEF Verdict
  <2>3. QED
    BY <1>5, <2>1, <2>2
<1>10. Verdict(a)' <=> IF health[j] THEN new.failures < UnhealthyThreshold
                       ELSE new.successes >= HealthyThreshold
  <2>1. HealthByAddr(a, TRUE)' <=> HealthByAddr(a, TRUE)
    BY <1>4 DEF HealthByAddr, Finds
  <2>2. QED
    BY <1>7, <1>8, <2>1 DEF Verdict
<1>11. ASSUME NEW b \in Addr, b # a
       PROVE  Counted(b)' = Counted(b) /\ (Verdict(b)' <=> Verdict(b))
  <2>1. Counted(b)' = Counted(b)
    BY <1>1, <1>3, <1>4, <1>11 DEF Counted, TypeOK, TheChecker
  <2>2. QED
    BY <1>4, <2>1 DEF Verdict, HealthByAddr, Finds
<1>12. Outcome[i] = r /\ Outcome' = [Outcome EXCEPT ![i] = "none"]
  BY <1>1, <1>3, <1>4 DEF Outcome, TypeOK, TheChecker
<1> DEFINE before == IF health[j] THEN old.failures ELSE old.successes
           after == IF Verdict(a)' THEN new.failures ELSE new.successes
           flips == before + 1 >= (IF health[j] THEN UnhealthyThreshold ELSE HealthyThreshold)
<1>13. /\ (health[j] <=> r = "healthy") => (Verdict(a)' <=> health[j]) /\ after = 0
       /\ (health[j] <=> r # "healthy") =>
             /\ Verdict(a)' <=> IF flips THEN ~health[j] ELSE health[j]
             /\ after = IF flips THEN 0 ELSE before + 1
  BY <1>3, <1>5, <1>6, <1>10, CountingOne
<1>14. \A b \in Addr : Counted(b) \in Counts /\ Counted(b)' \in Counts
  BY <1>1, <1>3, <1>8, <1>11, UpdateInWidth DEF Counted, TypeOK
<1>15. (State[a] <=> health[j]) /\ State[a] \in BOOLEAN /\ Streak[a] = before
  BY <1>3, <1>8, <1>9, <1>14, VerdictBoolean DEF State, Streak
<1>16. /\ (State'[a] <=> Verdict(a)') /\ State'[a] \in BOOLEAN /\ Streak'[a] = after
       /\ State' = [State EXCEPT ![a] = State'[a]] /\ Streak' = [Streak EXCEPT ![a] = after]
  <2>1. (State'[a] <=> Verdict(a)') /\ State'[a] \in BOOLEAN /\ Streak'[a] = after
    BY <1>3, <1>8, <1>14, VerdictBoolean DEF State, Streak
  <2>2. ASSUME NEW b \in Addr \ {a} PROVE State'[b] = State[b] /\ Streak'[b] = Streak[b]
    <3>1. Verdict(b)' = Verdict(b) /\ Counted(b)' = Counted(b)
      BY <1>11, <1>14, VerdictBoolean
    <3>2. QED
      BY <3>1 DEF State, Streak
  <2>3. /\ State = [b \in Addr |-> State[b]] /\ State' = [b \in Addr |-> State'[b]]
        /\ Streak = [b \in Addr |-> Streak[b]] /\ Streak' = [b \in Addr |-> Streak'[b]]
    BY DEF State, Streak
  <2> HIDE DEF after
  <2>4. State' = [State EXCEPT ![a] = State'[a]]
    BY <1>3, <2>2, <2>3, OneEntry
  <2>5. Streak' = [Streak EXCEPT ![a] = after]
    BY <1>3, <2>1, <2>2, <2>3, OneEntry
  <2>6. QED
    BY <2>1, <2>4, <2>5
<1>17. a = AddrOf[i]
  OBVIOUS
<1> HIDE DEF a, r, old, new, before, after, flips
<1>18. CASE health[j] <=> r = "healthy"
  <2>1. State[a] = (Outcome[i] = "healthy") /\ State'[a] = State[a]
    BY <1>12, <1>13, <1>15, <1>16, <1>18
  <2>2. UNCHANGED State
    <3>1. [State EXCEPT ![a] = State[a]] = State
      BY DEF State
    <3>2. QED
      BY <1>16, <2>1, <3>1
  <2>3. Streak' = [Streak EXCEPT ![a] = 0]
    BY <1>13, <1>16, <1>18
  <2>4. QED
    BY <1>3, <1>12, <1>17, <2>1, <2>2, <2>3, MachineAgreeing
<1>19. CASE health[j] <=> r # "healthy"
  <2>1. State[a] # (Outcome[i] = "healthy")
    BY <1>12, <1>15, <1>19
  <2>2. flips \in BOOLEAN
    BY DEF flips
  <2>3. flips <=> Streak[a] + 1 >= (IF State[a] THEN UnhealthyThreshold ELSE HealthyThreshold)
    BY <1>15 DEF flips
  <2>4. State' = [State EXCEPT ![a] = IF flips THEN ~State[a] ELSE State[a]]
    BY <1>13, <1>15, <1>16, <1>19, <2>2
  <2>5. Streak' = [Streak EXCEPT ![a] = IF flips THEN 0 ELSE Streak[a] + 1]
    BY <1>13, <1>15, <1>16, <1>19
  <2>6. QED
    BY <1>3, <1>12, <1>17, <2>1, <2>2, <2>3, <2>4, <2>5, MachineContrary
<1>20. QED
  BY <1>3, <1>18, <1>19

\* A mark stores the flag that the counters have called for, so the state of the
\* address, which is made of both, stays what it became when the result was joined.
LEMMA MarkRefines ==
    ASSUME ThresholdsPositive, OneMarker, TypeOK, CheckerInv, StoreCalledFor,
           NEW c \in Markers, Mark(c)
    PROVE  UNCHANGED <<State, Streak>>
<1>0. PICK a : a = CurrentAddr(c)
  OBVIOUS
<1> DEFINE counts == status[c][a]
<1>1. c = TheChecker /\ stage[c] = "store" /\ UNCHANGED status
  BY TheCheckerIs DEF Mark, Goto
<1>2. PICK i \in Index : Finds(a, i) /\ StoreFlag(c, i, goal[c])
  BY <1>0 DEF Mark, MarkByAddr
<1>3. /\ a \in Addr /\ AddrOf[i] = a /\ counts \in Counts /\ goal[c] \in BOOLEAN
      /\ health[i] \in BOOLEAN /\ health' = [health EXCEPT ![i] = goal[c]]
  <2>1. AddrOf[i] = a /\ health' = [health EXCEPT ![i] = goal[c]]
    BY <1>2 DEF Finds, StoreFlag
  <2>2. AddrOf[i] \in Addr
    BY PoolAssumption DEF Index
  <2>3. goal[c] \in BOOLEAN /\ health[i] \in BOOLEAN /\ status[c] \in [Addr -> Counts]
    BY DEF TypeOK, PoolTypeOK
  <2>4. QED
    BY <2>1, <2>2, <2>3
<1>4. \A b : Counted(b)' = Counted(b)
  BY <1>1 DEF Counted, TheChecker
<1>5. Counted(a) = counts
  BY <1>1 DEF Counted
<1>6. counts.successes = 0 \/ counts.failures = 0
  BY <1>3 DEF CheckerInv, OneCountIsZero
<1>7. goal[c] => counts.successes >= HealthyThreshold
  <2>1. Settled(c, i) /\ Evaluating(c, AddrOf[i])
    BY <1>0, <1>1, <1>2, <1>3 DEF CheckerInv, FlagsSettled, Evaluating
  <2>2. QED
    BY <1>1, <1>3, <2>1 DEF Settled
<1>8. ~goal[c] => counts.failures >= UnhealthyThreshold
  BY <1>0, <1>1 DEF StoreCalledFor
<1> HIDE DEF counts
<1>9. \A f \in BOOLEAN :
         (IF f THEN counts.failures < UnhealthyThreshold
          ELSE counts.successes >= HealthyThreshold) <=> goal[c]
  BY <1>3, <1>6, <1>7, <1>8, CheckerAssumption DEF ThresholdsPositive, Counts
<1>10. (Verdict(a) <=> goal[c]) /\ (Verdict(a)' <=> goal[c])
  <2>1. /\ (counts.failures < UnhealthyThreshold) <=> goal[c]
        /\ (counts.successes >= HealthyThreshold) <=> goal[c]
    BY <1>9
  <2>2. Counted(a)' = counts
    BY <1>4, <1>5
  <2>3. Verdict(a) <=> goal[c]
    <3>1. CASE HealthByAddr(a, TRUE)
      BY <1>5, <2>1, <3>1, Zenon DEF Verdict
    <3>2. CASE ~HealthByAddr(a, TRUE)
      BY <1>5, <2>1, <3>2, Zenon DEF Verdict
    <3>3. QED
      BY <3>1, <3>2
  <2>4. Verdict(a)' <=> goal[c]
    <3>1. CASE HealthByAddr(a, TRUE)'
      BY <2>1, <2>2, <3>1, Zenon DEF Verdict
    <3>2. CASE ~HealthByAddr(a, TRUE)'
      BY <2>1, <2>2, <3>2, Zenon DEF Verdict
    <3>3. QED
      BY <3>1, <3>2
  <2>5. QED
    BY <2>3, <2>4
<1>11. ASSUME NEW b \in Addr, b # a PROVE Verdict(b)' <=> Verdict(b)
  <2>1. ASSUME NEW j \in Index, Finds(b, j) PROVE health'[j] = health[j]
    BY <1>3, <1>11, <2>1 DEF Finds, TypeOK, PoolTypeOK
  <2>2. HealthByAddr(b, TRUE)' <=> HealthByAddr(b, TRUE)
    BY <2>1 DEF HealthByAddr, Finds
  <2>3. QED
    BY <1>4, <2>2 DEF Verdict
<1>12. ASSUME NEW b \in Addr PROVE Verdict(b)' = Verdict(b)
  <2>1. Counted(b) \in Counts /\ Counted(b)' \in Counts
    BY <1>1, <1>4 DEF Counted, TypeOK
  <2>2. Verdict(b) \in BOOLEAN /\ Verdict(b)' \in BOOLEAN
    BY <2>1, VerdictBoolean
  <2>3. CASE b = a
    BY <1>10, <2>2, <2>3
  <2>4. CASE b # a
    BY <1>11, <2>2, <2>4
  <2>5. QED
    BY <2>3, <2>4
<1>13. QED
  BY <1>4, <1>12 DEF State, Streak

\* Every step of the checker is a step of the machine or leaves it alone.
LEMMA MachineStep ==
    ASSUME ThresholdsPositive, OneMarker, Markers # {}, TypeOK, CheckerInv, StoreCalledFor,
           [Next]_vars
    PROVE  Machine!Next \/ UNCHANGED <<Outcome, State, Streak>>
<1>1. ASSUME NEW c \in Markers,
             \/ Start(c) \/ Stop(c) \/ EndRound(c) \/ TestUnhealthy(c) \/ TestHealthy(c)
             \/ Rebuild(c) \/ Publish(c) \/ SetGauge(c)
      PROVE  UNCHANGED <<Outcome, State, Streak>>
  <2>1. UNCHANGED <<health, status, probes>>
    BY <1>1 DEF Start, Stop, EndRound, TestUnhealthy, TestHealthy, Rebuild, Publish, SetGauge,
                LoadFlag, InstallCache, poolVars, taskVars
  <2>2. QED
    BY <2>1, StateStays DEF Outcome, TheChecker
<1>2. ASSUME NEW c \in Markers, Mark(c) PROVE UNCHANGED <<Outcome, State, Streak>>
  BY <1>2, MarkRefines DEF Outcome, TheChecker, Mark
<1>3. ASSUME NEW c \in Markers, NEW i \in Index, JoinResult(c, i) PROVE Machine!Next
  BY <1>3, JoinRefines
<1>4. ASSUME NEW c \in Markers, Tick(c) \/ \E i \in Index : JoinPanicked(c, i)
      PROVE  Machine!Next
  <2>1. c = TheChecker /\ UNCHANGED <<health, status>>
    BY <1>4, TheCheckerIs DEF Tick, JoinPanicked, poolVars
  <2>2. Outcome' = [i \in Index |-> "none"]
    <3>1. \A i \in Index : probes'[c][i] \in {"none", "running"}
      BY <1>4 DEF Tick, JoinPanicked, NoProbes, TypeOK
    <3>2. QED
      BY <2>1, <3>1 DEF Outcome, TheChecker
  <2>3. QED
    BY <2>1, <2>2, StateStays, MachineDiscard
<1>5. ASSUME NEW c \in Markers, NEW i \in Index, EndProbe(c, i)
      PROVE  Machine!Next \/ UNCHANGED <<Outcome, State, Streak>>
  <2>1. c = TheChecker /\ UNCHANGED <<health, status>> /\ Outcome[i] = "none"
    BY <1>5, TheCheckerIs DEF EndProbe, poolVars, Outcome
  <2>2. PICK r \in {"panicked", "healthy", "unhealthy"} :
            probes' = [probes EXCEPT ![c][i] = r]
    BY <1>5 DEF EndProbe
  <2>3. CASE r = "panicked"
    <3>1. \A k \in Index : k # i => probes'[c][k] = probes[c][k]
      BY <2>2 DEF TypeOK
    <3>2. probes'[c][i] = "panicked" /\ probes[c][i] = "running"
      BY <1>5, <2>2, <2>3 DEF TypeOK, EndProbe
    <3>3. \A k \in Index : Outcome'[k] = Outcome[k]
      BY <2>1, <3>1, <3>2 DEF Outcome, TheChecker
    <3>4. Outcome' = Outcome
      BY <3>3 DEF Outcome
    <3>5. QED
      BY <2>1, <3>4, StateStays
  <2>4. CASE r # "panicked"
    <3>1. Outcome' = [Outcome EXCEPT ![i] = r]
      BY <2>1, <2>2, <2>4 DEF Outcome, TheChecker, TypeOK
    <3>2. QED
      BY <2>1, <2>2, <2>4, <3>1, StateStays, MachineDeliver
  <2>5. QED
    BY <2>3, <2>4
<1>6. CASE Cancel \/ (\E a \in Addr : ServerChanges(a)) \/ UNCHANGED vars
  <2>1. UNCHANGED <<health, status, probes>>
    BY <1>6 DEF Cancel, ServerChanges, vars, poolVars, taskVars
  <2>2. QED
    BY <2>1, StateStays DEF Outcome, TheChecker
<1>7. QED
  BY <1>1, <1>2, <1>3, <1>4, <1>5, <1>6 DEF Next, Run, Evaluate

\* At first no result is waiting and every address is in the state of its flag.
LEMMA MachineInit ==
    ASSUME ThresholdsPositive, Markers # {}, Init
    PROVE  Machine!Init
<1>1. TheChecker \in Markers
  BY DEF TheChecker
<1>2. Outcome = [i \in Index |-> "none"]
  BY <1>1 DEF Init, NoProbes, Outcome
<1>3. ASSUME NEW a \in Addr
      PROVE  Verdict(a) \in BOOLEAN /\ Counted(a).failures = 0 /\ Counted(a).successes = 0
  <2>1. Counted(a).failures = 0 /\ Counted(a).successes = 0
    BY <1>1 DEF Init, Counted
  <2>2. (0 < UnhealthyThreshold) \in BOOLEAN /\ (0 >= HealthyThreshold) \in BOOLEAN
    BY CheckerAssumption
  <2>3. CASE HealthByAddr(a, TRUE)
    BY <2>1, <2>2, <2>3, Zenon DEF Verdict
  <2>4. CASE ~HealthByAddr(a, TRUE)
    BY <2>1, <2>2, <2>4, Zenon DEF Verdict
  <2>5. QED
    BY <2>1, <2>3, <2>4
<1>4. State \in [Addr -> BOOLEAN] /\ Streak = [a \in Addr |-> 0]
  BY <1>3 DEF State, Streak
<1>5. QED
  BY <1>2, <1>4 DEF Machine!Init, Outcome, State, Streak

LEMMA StoreCalledForHolds ==
    ASSUME OneMarker PROVE Spec => []StoreCalledFor
<1>1. Init => StoreCalledFor
  BY DEF Init, StoreCalledFor
<1>2. TypeOK /\ StoreCalledFor /\ [Next]_vars => StoreCalledFor'
  BY StoreCalledForStep
<1>3. QED
  BY <1>1, <1>2, CheckerTypeCorrect, PTL DEF Spec

(***************************************************************************)
(* One checker whose thresholds are not zero does what HealthMachine says, *)
(* for every pool, threshold and counter width: an address changes state   *)
(* with the configured number of contrary results in a row and never       *)
(* otherwise, although BackendStatus::update, the two tests and the mark   *)
(* are steps apart and results are joined in any order.                    *)
(***************************************************************************)
THEOREM CheckerImplementsHealthMachine ==
    ASSUME OneMarker, Markers # {}, ThresholdsPositive
    PROVE  Spec => ImplementsHealthMachine
<1>1. Init => Machine!Init
  BY MachineInit
<1>2. TypeOK /\ CheckerInv /\ StoreCalledFor /\ [Next]_vars
      => Machine!Next \/ UNCHANGED <<Outcome, State, Streak>>
  BY MachineStep
<1>3. UNCHANGED <<Outcome, State, Streak>>
      <=> UNCHANGED <<[i \in Index |->
                          IF probes[TheChecker][i] \in {"healthy", "unhealthy"}
                          THEN probes[TheChecker][i] ELSE "none"],
                      [a \in Addr |-> Verdict(a)],
                      [a \in Addr |-> IF Verdict(a) THEN Counted(a).failures
                                      ELSE Counted(a).successes]>>
  BY DEF Outcome, State, Streak
<1>4. QED
  BY <1>1, <1>2, <1>3, CheckerTypeCorrect, CheckerInvHolds, StoreCalledForHolds, PTL
  DEF Spec, ImplementsHealthMachine, Machine!Spec
=================================================================================
