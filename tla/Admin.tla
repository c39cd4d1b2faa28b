---------------------------------- MODULE Admin ----------------------------------
(***************************************************************************)
(* The admin server of admin.rs: an accept loop that ends on cancellation  *)
(* or on a failing accept, and connections served by tasks of their own,   *)
(* which read the pool's snapshot and the registry of module Metrics while *)
(* the snapshot changes as module Rotation says and other tasks update the *)
(* registry.                                                               *)
(*                                                                         *)
(* Admin is shared by the loop and by every connection through an Arc, and *)
(* the listener with it: the kernel goes on to complete connections as     *)
(* long as one of them holds it, and resets those in the backlog when the  *)
(* last one drops it.                                                      *)
(***************************************************************************)
EXTENDS Metrics, Sequences

CONSTANTS
    Backends,       \* the backends of the pool
    Scrapers,       \* the connections on which metrics are scraped
    Probers,        \* the connections of probes, which ask for any other path
    GatherOrder     \* the order in which the registry walks through its counters

Conns == Scrapers \cup Probers

ASSUME AdminAssumption ==
    /\ \A i, j \in DOMAIN GatherOrder : GatherOrder[i] = GatherOrder[j] => i = j
    /\ {GatherOrder[i] : i \in DOMAIN GatherOrder} = {series[1] : series \in Counters}

VARIABLES
    rotation,       \* the pool's healthy snapshot
    cancelled,      \* the cancellation token
    loop,           \* the accept loop: running, stopped or panicked
    conn,           \* conn[k]: where connection k and its request are
    seen,           \* seen[k]: the snapshot taken by k's readiness request
    page,           \* page[k]: what k's scrape has gathered
    since,          \* since[k]: the counters when k's scrape began
    reply           \* reply[k]: the response that is written to k

connVars == <<conn, seen, page, since, reply>>
serverVars == <<rotation, cancelled, loop>>
vars == <<metricVars, serverVars, connVars>>

Env == INSTANCE Rotation

\* none: not connected; backlog: connected by the kernel, not accepted; idle: no
\* request; readyz, metrics: in that handler; reply: the response is being written.
ConnStages == {"none", "backlog", "idle", "readyz", "metrics", "reply"}

NoPage == <<>>
Nothing == [path |-> "", status |-> 0]
Paths == {"/metrics", "/livez", "/readyz", "/other"}

Held == {k \in Conns : conn[k] \notin {"none", "backlog"}}

Init ==
    /\ MetricsInit
    /\ Env!Init
    /\ cancelled = FALSE
    /\ loop = "running"
    /\ conn = [k \in Conns |-> "none"]
    /\ seen = [k \in Conns |-> {}]
    /\ page = [k \in Conns |-> NoPage]
    /\ since = [k \in Conns |-> NoPage]
    /\ reply = [k \in Conns |-> Nothing]

\* A variant of Listening that a plausible mistake would give, with a cycle of Arcs
\* that is never dropped.  The specification does not use it.
ListeningLeaked(l, held) == TRUE

\* The loop is at step l and the connections in held are served: someone owns the listener.
Listening(l, held) == l = "running" \/ held # {}

\* The backlog is reset when the listener is dropped.
BacklogAfter(l, held, conns) ==
    [k \in Conns |-> IF conns[k] = "backlog" /\ ~Listening(l, held) THEN "none" ELSE conns[k]]

At(k, s) == conn[k] = s

\* The values of a family's series now.  Of the families only the counters are
\* gathered here: no property looks at the gauges on a page.
ValuesOf(family) == [series \in {x \in Counters : x[1] = family} |-> registry[series]]

Respond(k, path, status) ==
    /\ conn' = [conn EXCEPT ![k] = "reply"]
    /\ reply' = [reply EXCEPT ![k] = [path |-> path, status |-> status]]

---------------------------------------------------------------------------------
(***************************************************************************)
(* Variants of the definitions around them that a plausible mistake would  *)
(* give; none is used by the specification.                                *)
(***************************************************************************)
\* The loop waits for its connections before it ends.
StopGracefully ==
    /\ cancelled
    /\ loop = "running"
    /\ Held = {}
    /\ loop' = "stopped"
    /\ conn' = BacklogAfter("stopped", Held, conn)
    /\ UNCHANGED <<metricVars, rotation, cancelled, seen, page, since, reply>>

\* The pool is asked for all its backends.
ReadyzOfAllBackends(k) ==
    /\ At(k, "idle")
    /\ k \in Probers
    /\ conn' = [conn EXCEPT ![k] = "readyz"]
    /\ seen' = [seen EXCEPT ![k] = Backends]
    /\ UNCHANGED <<metricVars, serverVars, page, since, reply>>

\* The requests that are being recorded are added to the durations.
GatherAhead(k) ==
    /\ At(k, "metrics")
    /\ Len(page[k]) < Len(GatherOrder)
    /\ LET values == ValuesOf(GatherOrder[Len(page[k]) + 1])
           ahead(series) == IF series[1] = "gungho_request_duration_seconds"
                            THEN Cardinality({r \in Recorders : recording[r] = series[2]}) ELSE 0
       IN  page' = [page EXCEPT ![k] =
                        Append(@, [series \in DOMAIN values |-> values[series] + ahead(series)])]
    /\ UNCHANGED <<metricVars, serverVars, conn, seen, since, reply>>

\* The page is written before the last family has been gathered.
AnswerMetricsEarly(k) ==
    /\ At(k, "metrics")
    /\ Len(page[k]) + 1 >= Len(GatherOrder)
    /\ Respond(k, "/metrics", 200)
    /\ UNCHANGED <<metricVars, serverVars, seen, page, since>>

---------------------------------------------------------------------------------
\* The kernel completes a connection.
Connect(k) ==
    /\ At(k, "none")
    /\ Listening(loop, Held)
    /\ conn' = [conn EXCEPT ![k] = "backlog"]
    /\ UNCHANGED <<metricVars, serverVars, seen, page, since, reply>>

\* The accept branch of the select spawns a task for the connection.
Accept(k) ==
    /\ loop = "running"
    /\ At(k, "backlog")
    /\ conn' = [conn EXCEPT ![k] = "idle"]
    /\ UNCHANGED <<metricVars, serverVars, seen, page, since, reply>>

EndLoop(end) ==
    /\ loop = "running"
    /\ loop' = end
    /\ conn' = BacklogAfter(end, Held, conn)
    /\ UNCHANGED <<metricVars, rotation, cancelled, seen, page, since, reply>>

\* The accept branch meets an error and panics.
AcceptFails == EndLoop("panicked")

\* The cancelled branch of the select.
Stop == cancelled /\ EndLoop("stopped")

\* handle_request looks at the path only, whatever the method.
Livez(k) ==
    /\ At(k, "idle")
    /\ k \in Probers
    /\ Respond(k, "/livez", 200)
    /\ UNCHANGED <<metricVars, serverVars, seen, page, since>>

NotFound(k) ==
    /\ At(k, "idle")
    /\ k \in Probers
    /\ Respond(k, "/other", 404)
    /\ UNCHANGED <<metricVars, serverVars, seen, page, since>>

\* handle_readyz takes the snapshot ...
RequestReadyz(k) ==
    /\ At(k, "idle")
    /\ k \in Probers
    /\ conn' = [conn EXCEPT ![k] = "readyz"]
    /\ seen' = [seen EXCEPT ![k] = rotation]
    /\ UNCHANGED <<metricVars, serverVars, page, since, reply>>

\* ... and makes a response of it.
AnswerReadyz(k) ==
    /\ At(k, "readyz")
    /\ Respond(k, "/readyz", IF seen[k] = {} THEN 503 ELSE 200)
    /\ seen' = [seen EXCEPT ![k] = {}]
    /\ UNCHANGED <<metricVars, serverVars, page, since>>

\* handle_metrics gathers one family after the other ...
RequestMetrics(k) ==
    /\ At(k, "idle")
    /\ k \in Scrapers
    /\ conn' = [conn EXCEPT ![k] = "metrics"]
    /\ since' = [since EXCEPT ![k] = [series \in Counters |-> registry[series]]]
    /\ UNCHANGED <<metricVars, serverVars, seen, page, reply>>

GatherFamily(k) ==
    /\ At(k, "metrics")
    /\ Len(page[k]) < Len(GatherOrder)
    /\ page' = [page EXCEPT ![k] = Append(@, ValuesOf(GatherOrder[Len(@) + 1]))]
    /\ UNCHANGED <<metricVars, serverVars, conn, seen, since, reply>>

\* ... and encodes them.
AnswerMetrics(k) ==
    /\ At(k, "metrics")
    /\ Len(page[k]) = Len(GatherOrder)
    /\ Respond(k, "/metrics", 200)
    /\ UNCHANGED <<metricVars, serverVars, seen, page, since>>

\* The response is written.
Deliver(k) ==
    /\ At(k, "reply")
    /\ conn' = [conn EXCEPT ![k] = "idle"]
    /\ page' = [page EXCEPT ![k] = NoPage]
    /\ since' = [since EXCEPT ![k] = NoPage]
    /\ reply' = [reply EXCEPT ![k] = Nothing]
    /\ UNCHANGED <<metricVars, serverVars, seen>>

\* The client leaves: from the backlog, or from its task, which ends.
Close(k) ==
    /\ conn[k] \in {"backlog", "idle"}
    /\ conn' = BacklogAfter(loop, Held \ {k}, [conn EXCEPT ![k] = "none"])
    /\ UNCHANGED <<metricVars, serverVars, seen, page, since, reply>>

Cancel ==
    /\ cancelled' = TRUE
    /\ UNCHANGED <<metricVars, rotation, loop, connVars>>

PoolChanges == Env!Next /\ UNCHANGED <<metricVars, cancelled, loop, connVars>>

Recorded == MetricsNext /\ UNCHANGED <<serverVars, connVars>>

\* What the tasks of the server do by themselves.
Handle(k) ==
    AnswerReadyz(k) \/ GatherFamily(k) \/ AnswerMetrics(k) \/ Deliver(k)

Next ==
    \/ \E k \in Conns :
        \/ Connect(k) \/ Accept(k) \/ Close(k)
        \/ Livez(k) \/ NotFound(k) \/ RequestReadyz(k) \/ RequestMetrics(k) \/ Handle(k)
    \/ AcceptFails \/ Stop \/ Cancel \/ PoolChanges \/ Recorded

Spec == Init /\ [][Next]_vars

(***************************************************************************)
(* Fairness: the runtime polls every task that can go on.  The select      *)
(* takes one of its ready branches at random, so it neither passes over a  *)
(* cancelled token nor over a connection in the backlog for ever.          *)
(***************************************************************************)
FairSpec ==
    /\ Spec
    /\ WF_vars(Stop)
    /\ \A k \in Conns : WF_vars(Accept(k)) /\ WF_vars(Handle(k))

---------------------------------------------------------------------------------
TypeOK ==
    /\ MetricsTypeOK
    /\ rotation \in SUBSET Backends
    /\ cancelled \in BOOLEAN
    /\ loop \in {"running", "stopped", "panicked"}
    /\ conn \in [Conns -> ConnStages]
    /\ seen \in [Conns -> SUBSET Backends]
    /\ \A k \in Conns :
          /\ reply[k].path \in Paths <=> At(k, "reply")
          /\ Len(page[k]) =
                IF reply[k].path = "/metrics" THEN Len(GatherOrder)
                ELSE IF At(k, "metrics") THEN Len(page[k]) ELSE 0

(***************************************************************************)
(* Every counter on a scraped page lies between its value when the scrape  *)
(* began and its value now, although the families are gathered one after   *)
(* the other while requests are recorded; so counters never go back from   *)
(* one scrape to the next (metrics.rs, encode_metrics).                    *)
(***************************************************************************)
ScrapeBracketed ==
    \A k \in Conns : \A i \in DOMAIN page[k] : \A series \in DOMAIN page[k][i] :
        since[k][series] <= page[k][i][series] /\ page[k][i][series] <= registry[series]

\* Some probe is being told whether the instance is ready.
Told(status) == \E k \in Conns : reply[k] = [path |-> "/readyz", status |-> status]

(***************************************************************************)
(* Once no backend is in rotation for good, no probe is told any more that *)
(* the instance is ready, and once some backend is in rotation for good,   *)
(* no probe is told any more that it is not (README, "Admin endpoints").   *)
(***************************************************************************)
ReadyzSettles ==
    /\ <>[](rotation = {}) => <>[]~Told(200)
    /\ <>[](rotation # {}) => <>[]~Told(503)

(***************************************************************************)
(* Whoever waits in the backlog is served or reset, also when the loop has *)
(* ended, provided the connections that keep the listener alive do not     *)
(* keep it for ever.                                                       *)
(***************************************************************************)
BacklogResolved ==
    []<>(Held = {}) => \A k \in Conns : At(k, "backlog") ~> ~At(k, "backlog")

(***************************************************************************)
(* Cancelling the token ends the loop, whatever the connections do.        *)
(***************************************************************************)
CancellationEndsLoop == cancelled ~> loop # "running"

(***************************************************************************)
(* README, "Admin endpoints": /livez is "Always 200 with {"status": "ok"}  *)
(* (process is alive)".  To answer that, the accept loop has to be there.  *)
(***************************************************************************)
LivezAlways == ~cancelled => loop = "running"
=================================================================================
