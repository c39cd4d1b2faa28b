------------------------------ MODULE HealthChecker ------------------------------
(***************************************************************************)
(* The active health checker of health.rs, run by the tasks in Markers on  *)
(* one shared backend pool.  Each task waits at a select for a tick of its *)
(* interval or for cancellation; a tick spawns one probe per backend, and  *)
(* the results are joined in whatever order the probes end.  Every result  *)
(* updates the address's counters, and two tests in a row may then mark    *)
(* the address unhealthy and healthy, each mark being the sequence of      *)
(* steps of module BackendPool followed by the gauge of metrics.rs.        *)
(*                                                                         *)
(* status_map is total here: an address without an entry counts as the     *)
(* zero entry that or_insert gives it.  Pruning the map after a round      *)
(* removes nothing, because the backends of a pool never change.           *)
(***************************************************************************)
EXTENDS BackendPool

CONSTANTS
    HealthyThreshold,
    UnhealthyThreshold,
    CounterSize         \* the counters are u32: they wrap at CounterSize

ASSUME CheckerAssumption ==
    /\ CounterSize \in Nat
    /\ HealthyThreshold \in 0..(CounterSize - 1)
    /\ UnhealthyThreshold \in 0..(CounterSize - 1)

VARIABLES
    stage,      \* where the run function of each checker is
    probes,     \* probes[c][i]: the JoinSet's task that probes backend i
    status,     \* status[c][a]: the consecutive results of address a
    current,    \* the backend whose result is being evaluated, or 0
    goal,       \* the flag that the mark_* call in progress stores
    gauge,      \* the backend_health gauge of each address
    cancelled,  \* the cancellation token
    up,         \* up[a]: the server at a answers probes with 200 in time
    setup       \* the settings no validation looks at

taskVars == <<stage, probes, status, current, goal>>
worldVars == <<cancelled, up, setup>>
vars == <<poolVars, taskVars, gauge, worldVars>>

Stages == {"start", "select", "joining", "ifUnhealthy", "ifHealthy", "store",
           "rebuild", "gauge", "stopped", "panicked"}
Probes == {"none", "running", "healthy", "unhealthy", "panicked"}
Counts == [successes : 0..(CounterSize - 1), failures : 0..(CounterSize - 1)]
NoProbes == [i \in Index |-> "none"]

TypeOK ==
    /\ PoolTypeOK
    /\ stage \in [Markers -> Stages]
    /\ probes \in [Markers -> [Index -> Probes]]
    /\ status \in [Markers -> [Addr -> Counts]]
    /\ current \in [Markers -> 0..NumBackends]
    /\ goal \in [Markers -> BOOLEAN]
    /\ gauge \in [Addr -> {"unset", "healthy", "unhealthy"}]
    /\ cancelled \in BOOLEAN
    /\ up \in [Addr -> BOOLEAN]
    /\ setup \in [pathParses : BOOLEAN, interval : {0, 1}]

(***************************************************************************)
(* The health of the servers and the settings are arbitrary.  The path may *)
(* be one that makes no URI and the interval may be zero seconds: neither  *)
(* is validated.                                                           *)
(***************************************************************************)
Init ==
    /\ PoolInit
    /\ stage = [c \in Markers |-> "start"]
    /\ probes = [c \in Markers |-> NoProbes]
    /\ status = [c \in Markers |-> [a \in Addr |-> [successes |-> 0, failures |-> 0]]]
    /\ current = [c \in Markers |-> 0]
    /\ goal = [c \in Markers |-> FALSE]
    /\ gauge = [a \in Addr |-> "unset"]
    /\ cancelled = FALSE
    /\ up \in [Addr -> BOOLEAN]
    /\ setup \in [pathParses : BOOLEAN, interval : {0, 1}]

Goto(c, from, to) == stage[c] = from /\ stage' = [stage EXCEPT ![c] = to]

CurrentAddr(c) == AddrOf[current[c]]
Current(c) == status[c][CurrentAddr(c)]

(***************************************************************************)
(* The two tests that follow a result: the threshold is compared first and *)
(* get_health_by_addr only loads the flag when it is reached.              *)
(***************************************************************************)
TurnsUnhealthy(c) ==
    /\ Current(c).failures >= UnhealthyThreshold
    /\ HealthByAddr(CurrentAddr(c), TRUE)

TurnsHealthy(c) ==
    /\ Current(c).successes >= HealthyThreshold
    /\ HealthByAddr(CurrentAddr(c), FALSE)

---------------------------------------------------------------------------------
(***************************************************************************)
(* Variants of the definitions below that a plausible mistake would give;  *)
(* none is used by the specification.                                      *)
(***************************************************************************)
\* A result is added to its own count but does not reset the opposite one.
UpdateKeepsOpposite(counts, result) ==
    IF result = "healthy"
    THEN [counts EXCEPT !.successes = (@ + 1) % CounterSize]
    ELSE [counts EXCEPT !.failures = (@ + 1) % CounterSize]

\* Every result resets the successes.
UpdateForgetsSuccesses(counts, result) ==
    IF result = "healthy"
    THEN [successes |-> 0, failures |-> 0]
    ELSE [successes |-> 0, failures |-> (counts.failures + 1) % CounterSize]

\* The counters saturate one past their width.
UpdateUnbounded(counts, result) ==
    IF result = "healthy"
    THEN [successes |-> counts.successes + 1, failures |-> 0]
    ELSE [successes |-> 0, failures |-> counts.failures + 1]

\* The request has no timeout: the probe of a server that hangs never ends.
EndProbeNoTimeout(c, i) ==
    /\ probes[c][i] = "running"
    /\ up[AddrOf[i]] \/ ~setup.pathParses
    /\ probes' = [probes EXCEPT ![c][i] = IF setup.pathParses THEN "healthy" ELSE "panicked"]
    /\ UNCHANGED <<poolVars, stage, status, current, goal, gauge, worldVars>>

\* The gauge is only set when a backend is taken out of rotation.
SetGaugeOnlyDown(c) ==
    /\ Goto(c, "gauge", IF goal[c] THEN "joining" ELSE "ifHealthy")
    /\ gauge' = IF goal[c] THEN gauge
                ELSE [gauge EXCEPT ![CurrentAddr(c)] = "unhealthy"]
    /\ current' = IF goal[c] THEN [current EXCEPT ![c] = 0] ELSE current
    /\ UNCHANGED <<poolVars, probes, status, goal, worldVars>>

---------------------------------------------------------------------------------
\* The run function starts: an interval of zero seconds panics.
Start(c) ==
    /\ Goto(c, "start", IF setup.interval = 0 THEN "panicked" ELSE "select")
    /\ UNCHANGED <<poolVars, probes, status, current, goal, gauge, worldVars>>

\* The tick branch of the select: spawn one probe per backend.
Tick(c) ==
    /\ Goto(c, "select", "joining")
    /\ probes' = [probes EXCEPT ![c] = [i \in Index |-> "running"]]
    /\ UNCHANGED <<poolVars, status, current, goal, gauge, worldVars>>

\* The cancelled branch of the select.
Stop(c) ==
    /\ cancelled
    /\ Goto(c, "select", "stopped")
    /\ UNCHANGED <<poolVars, probes, status, current, goal, gauge, worldVars>>

(***************************************************************************)
(* The check function ends, on the probe's own task: a 200 within the      *)
(* timeout is healthy; another status, an error or the timeout is not; a   *)
(* path that makes no URI panics.                                          *)
(***************************************************************************)
EndProbe(c, i) ==
    /\ probes[c][i] = "running"
    /\ probes' = [probes EXCEPT ![c][i] =
                    IF ~setup.pathParses THEN "panicked"
                    ELSE IF up[AddrOf[i]] THEN "healthy" ELSE "unhealthy"]
    /\ UNCHANGED <<poolVars, stage, status, current, goal, gauge, worldVars>>

\* BackendStatus::update
Update(counts, result) ==
    IF result = "healthy"
    THEN [successes |-> (counts.successes + 1) % CounterSize, failures |-> 0]
    ELSE [successes |-> 0, failures |-> (counts.failures + 1) % CounterSize]

\* join_next returns the result of some ended probe, and its address is counted.
JoinResult(c, i) ==
    /\ probes[c][i] \in {"healthy", "unhealthy"}
    /\ Goto(c, "joining", "ifUnhealthy")
    /\ probes' = [probes EXCEPT ![c][i] = "none"]
    /\ status' = [status EXCEPT ![c][AddrOf[i]] = Update(@, probes[c][i])]
    /\ current' = [current EXCEPT ![c] = i]
    /\ UNCHANGED <<poolVars, goal, gauge, worldVars>>

\* join_next returns an error: the loop ends and the JoinSet is dropped with
\* every result and every probe still in it.
JoinPanicked(c, i) ==
    /\ probes[c][i] = "panicked"
    /\ Goto(c, "joining", "select")
    /\ probes' = [probes EXCEPT ![c] = NoProbes]
    /\ UNCHANGED <<poolVars, status, current, goal, gauge, worldVars>>

\* join_next returns None: the round is over.
EndRound(c) ==
    /\ probes[c] = NoProbes
    /\ Goto(c, "joining", "select")
    /\ UNCHANGED <<poolVars, probes, status, current, goal, gauge, worldVars>>

TestUnhealthy(c) ==
    /\ Goto(c, "ifUnhealthy", IF TurnsUnhealthy(c) THEN "store" ELSE "ifHealthy")
    /\ goal' = [goal EXCEPT ![c] = FALSE]
    /\ UNCHANGED <<poolVars, probes, status, current, gauge, worldVars>>

TestHealthy(c) ==
    /\ Goto(c, "ifHealthy", IF TurnsHealthy(c) THEN "store" ELSE "joining")
    /\ goal' = [goal EXCEPT ![c] = TRUE]
    /\ current' = IF TurnsHealthy(c) THEN current ELSE [current EXCEPT ![c] = 0]
    /\ UNCHANGED <<poolVars, probes, status, gauge, worldVars>>

\* mark_unhealthy_by_addr or mark_healthy_by_addr, whichever goal says.
Mark(c) ==
    /\ Goto(c, "store", "rebuild")
    /\ MarkByAddr(c, CurrentAddr(c), goal[c])
    /\ UNCHANGED <<probes, status, current, goal, gauge, worldVars>>

Rebuild(c) ==
    /\ stage[c] = "rebuild"
    /\ LoadFlag(c)
    /\ UNCHANGED <<taskVars, gauge, worldVars>>

Publish(c) ==
    /\ Goto(c, "rebuild", "gauge")
    /\ InstallCache(c)
    /\ UNCHANGED <<probes, status, current, goal, gauge, worldVars>>

\* set_backend_health; after the first test the second one follows.
SetGauge(c) ==
    /\ Goto(c, "gauge", IF goal[c] THEN "joining" ELSE "ifHealthy")
    /\ gauge' = [gauge EXCEPT ![CurrentAddr(c)] = IF goal[c] THEN "healthy" ELSE "unhealthy"]
    /\ current' = IF goal[c] THEN [current EXCEPT ![c] = 0] ELSE current
    /\ UNCHANGED <<poolVars, probes, status, goal, worldVars>>

\* Someone cancels the token.
Cancel ==
    /\ cancelled' = TRUE
    /\ UNCHANGED <<poolVars, taskVars, gauge, up, setup>>

\* The server at a starts or stops to answer its probes.
ServerChanges(a) ==
    /\ up' = [up EXCEPT ![a] = ~@]
    /\ UNCHANGED <<poolVars, taskVars, gauge, cancelled, setup>>

\* The steps of the checker's own task after the select.
Evaluate(c) ==
    \/ \E i \in Index : JoinResult(c, i) \/ JoinPanicked(c, i)
    \/ EndRound(c)
    \/ TestUnhealthy(c)
    \/ TestHealthy(c)
    \/ Mark(c)
    \/ Rebuild(c)
    \/ Publish(c)
    \/ SetGauge(c)

Run(c) == Start(c) \/ Tick(c) \/ Stop(c) \/ Evaluate(c)

Next ==
    \/ \E c \in Markers : Run(c) \/ \E i \in Index : EndProbe(c, i)
    \/ Cancel
    \/ \E a \in Addr : ServerChanges(a)

Spec == Init /\ [][Next]_vars

(***************************************************************************)
(* Fairness.  The runtime polls every task that can go on, and the timeout *)
(* ends every probe (EndProbe).  The select picks one of its ready         *)
(* branches at random, so a cancelled token is not passed over for ever    *)
(* even if a tick is always ready too: Stop is strongly fair.              *)
(***************************************************************************)
Fairness ==
    \A c \in Markers :
        /\ WF_vars(Run(c))
        /\ SF_vars(Stop(c))
        /\ \A i \in Index : WF_vars(EndProbe(c, i))

FairSpec == Spec /\ Fairness

---------------------------------------------------------------------------------
ThresholdsPositive == HealthyThreshold > 0 /\ UnhealthyThreshold > 0

\* c is between the counting of a result of address a and its last effect.
Evaluating(c, a) ==
    /\ stage[c] \in {"ifUnhealthy", "ifHealthy", "store", "rebuild", "gauge"}
    /\ CurrentAddr(c) = a

(***************************************************************************)
(* With one checker, what requests can select from is what the counted     *)
(* results call for: a backend in rotation has fewer failures in a row     *)
(* than its threshold, one out of rotation fewer successes, except while   *)
(* the checker evaluates a result of that very address.                    *)
(***************************************************************************)
RotationMatchesCounts ==
    ThresholdsPositive =>
        \A c \in Markers, i \in Index :
            Finds(AddrOf[i], i) /\ ~Evaluating(c, AddrOf[i]) =>
                IF i \in cache
                THEN status[c][AddrOf[i]].failures < UnhealthyThreshold
                ELSE status[c][AddrOf[i]].successes < HealthyThreshold

(***************************************************************************)
(* With one checker, a scrape of the backend_health gauge never shows a    *)
(* value other than the flag, except while that address is evaluated; it   *)
(* may show nothing for an address that never changed state.               *)
(***************************************************************************)
GaugeTracksFlag ==
    \A c \in Markers, i \in Index :
        Finds(AddrOf[i], i) /\ ~Evaluating(c, AddrOf[i]) =>
            gauge[AddrOf[i]] \in {"unset", IF health[i] THEN "healthy" ELSE "unhealthy"}

(***************************************************************************)
(* With one checker, the counters and flags implement the state machine of *)
(* module HealthMachine.  The state of an address is what the two tests    *)
(* make of its flag and counters, whether or not they have run yet.        *)
(***************************************************************************)
TheChecker == CHOOSE c \in Markers : TRUE

Counted(a) == status[TheChecker][a]

Verdict(a) ==
    IF HealthByAddr(a, TRUE)
    THEN Counted(a).failures < UnhealthyThreshold
    ELSE Counted(a).successes >= HealthyThreshold

Machine == INSTANCE HealthMachine WITH
    Backends <- Index,
    outcome <- [i \in Index |->
                    IF probes[TheChecker][i] \in {"healthy", "unhealthy"}
                    THEN probes[TheChecker][i] ELSE "none"],
    healthy <- [a \in Addr |-> Verdict(a)],
    streak <- [a \in Addr |-> IF Verdict(a) THEN Counted(a).failures
                              ELSE Counted(a).successes]

ImplementsHealthMachine == Machine!Spec

(***************************************************************************)
(* Liveness, for a checker that did start and builds valid probes.  A      *)
(* backend whose server stays down leaves rotation for good, and one whose *)
(* server stays up is back for good, unless the checker is cancelled.      *)
(***************************************************************************)
ChecksWork == setup.pathParses /\ setup.interval > 0

DownLeavesRotation ==
    \A i \in Index :
        ChecksWork /\ <>[](~up[AddrOf[i]]) => <>cancelled \/ <>[](i \notin cache)

UpReturnsToRotation ==
    \A i \in Index :
        ChecksWork /\ <>[](up[AddrOf[i]]) => <>cancelled \/ <>[](i \in cache)

(***************************************************************************)
(* A cancelled checker stops, whatever its probes are doing (or it had     *)
(* panicked).                                                              *)
(***************************************************************************)
CancellationStops ==
    \A c \in Markers : cancelled ~> stage[c] \in {"stopped", "panicked"}
=================================================================================
