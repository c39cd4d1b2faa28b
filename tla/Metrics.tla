--------------------------------- MODULE Metrics ---------------------------------
(***************************************************************************)
(* The registry of metrics.rs: one value per time series, updated by any   *)
(* number of tasks.  Each update is one atomic access, so record_request,  *)
(* which makes two, leaves the counter of a backend's requests ahead of    *)
(* its histogram in between.  A histogram is reduced to its count, and a   *)
(* series that with_label_values has not created yet to its zero.          *)
(***************************************************************************)
EXTENDS Naturals, FiniteSets, Functions

CONSTANTS
    Recorders,      \* tasks that record requests
    Labels,         \* the values of the backend label, "none" among them
    Statuses,       \* status codes
    ActiveCounts,   \* numbers of active connections that are reported
    MaxUpdates      \* bound on the number of updates of the registry

ASSUME MetricsAssumption ==
    /\ IsFiniteSet(Recorders) /\ IsFiniteSet(Statuses)
    /\ ActiveCounts \subseteq Nat
    /\ MaxUpdates \in Nat
    /\ "idle" \notin Labels

VARIABLES
    registry,       \* the value of each series
    recording,      \* recording[r]: the backend r has counted but not timed, or "idle"
    updates         \* how many updates there have been

metricVars == <<registry, recording, updates>>

RequestsTotal(b, s) == <<"gungho_requests_total", b, s>>
RequestDuration(b) == <<"gungho_request_duration_seconds", b>>
ActiveConnections == <<"gungho_active_connections">>
BackendHealth(b) == <<"gungho_backend_health", b>>
BackendsTotal == <<"gungho_backends_total">>
ConfigReloadTotal(result) == <<"gungho_config_reload_total", result>>

ReloadResults == {"success", "failure"}

Counters ==
    {RequestsTotal(b, s) : b \in Labels, s \in Statuses}
        \cup {RequestDuration(b) : b \in Labels}
        \cup {ConfigReloadTotal(result) : result \in ReloadResults}

Gauges == {ActiveConnections, BackendsTotal} \cup {BackendHealth(b) : b \in Labels}

Series == Counters \cup Gauges

MetricsTypeOK ==
    /\ registry \in [Series -> Nat]
    /\ recording \in [Recorders -> Labels \cup {"idle"}]
    /\ updates \in 0..MaxUpdates

\* GunghoMetrics::new registers every family in a registry of its own.
MetricsInit ==
    /\ registry = [series \in Series |-> 0]
    /\ recording = [r \in Recorders |-> "idle"]
    /\ updates = 0

Update(series, value) ==
    /\ updates < MaxUpdates
    /\ updates' = updates + 1
    /\ registry' = [registry EXCEPT ![series] = value]

---------------------------------------------------------------------------------
\* A variant of ObserveDuration that a plausible mistake would give: requests that
\* reached no backend are not timed.  The specification does not use it.
ObserveReached(r) ==
    /\ recording[r] # "idle"
    /\ registry' = [registry EXCEPT ![RequestDuration(recording[r])] =
                        IF recording[r] = "none" THEN @ ELSE @ + 1]
    /\ recording' = [recording EXCEPT ![r] = "idle"]
    /\ UNCHANGED updates

---------------------------------------------------------------------------------
\* record_request counts the request ...
CountRequest(r, b, s) ==
    /\ recording[r] = "idle"
    /\ Update(RequestsTotal(b, s), registry[RequestsTotal(b, s)] + 1)
    /\ recording' = [recording EXCEPT ![r] = b]

\* ... and then observes its duration.
ObserveDuration(r) ==
    /\ recording[r] # "idle"
    /\ registry' = [registry EXCEPT ![RequestDuration(recording[r])] = @ + 1]
    /\ recording' = [recording EXCEPT ![r] = "idle"]
    /\ UNCHANGED updates

SetActiveConnections(count) ==
    /\ Update(ActiveConnections, count)
    /\ UNCHANGED recording

SetBackendHealth(b, healthy) ==
    /\ Update(BackendHealth(b), IF healthy THEN 1 ELSE 0)
    /\ UNCHANGED recording

RecordConfigReload(result) ==
    /\ Update(ConfigReloadTotal(result), registry[ConfigReloadTotal(result)] + 1)
    /\ UNCHANGED recording

MetricsNext ==
    \/ \E r \in Recorders :
        \/ \E b \in Labels, s \in Statuses : CountRequest(r, b, s)
        \/ ObserveDuration(r)
    \/ \E count \in ActiveCounts : SetActiveConnections(count)
    \/ \E b \in Labels, healthy \in BOOLEAN : SetBackendHealth(b, healthy)
    \/ \E result \in ReloadResults : RecordConfigReload(result)

---------------------------------------------------------------------------------
(***************************************************************************)
(* The two families that record_request updates stay in step: the requests *)
(* counted for a backend, over all status codes, exceed its durations by   *)
(* exactly the requests that are being recorded (metrics.rs,               *)
(* record_request).                                                        *)
(***************************************************************************)
RecordsPaired ==
    \A b \in Labels :
        SumFunction([s \in Statuses |-> registry[RequestsTotal(b, s)]])
            = registry[RequestDuration(b)] + Cardinality({r \in Recorders : recording[r] = b})
=================================================================================
