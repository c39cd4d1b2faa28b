---------------------------------- MODULE Proxy ----------------------------------
(***************************************************************************)
(* The data path of proxy.rs: client connections, each with one request at *)
(* a time, the choice of a backend by the configured strategy, and the     *)
(* drop guard that counts the backend's active connections.  The rotation  *)
(* that requests take their snapshot of changes as module Rotation says.   *)
(*                                                                         *)
(* handle_request awaits only the backend's answer, so that is the only    *)
(* point at which a leaving client drops it; other requests run in between *)
(* any two of its accesses to shared state.  Weighted round robin has a    *)
(* module of its own and is seen here through its result: some index, or   *)
(* the panic that WeightedRoundRobin finds possible.                       *)
(***************************************************************************)
EXTENDS Snapshot, Sequences

CONSTANTS
    NumBackends,
    Conns,          \* client connections
    HashOf,         \* the hash of each client's address
    CounterSize     \* the round robin counter is a usize: it wraps at CounterSize

Backends == 1..NumBackends

ASSUME ProxyAssumption ==
    /\ NumBackends \in Nat
    /\ IsFiniteSet(Conns)
    /\ HashOf \in [Conns -> Nat]
    /\ CounterSize \in Nat \ {0}

Algorithms == {"round_robin", "weighted_round_robin", "least_connections", "ip_hash", "random"}

VARIABLES
    algorithm,      \* the strategy the proxy was built with
    rotation,       \* the pool's healthy snapshot
    active,         \* active_connections of each backend
    counter,        \* the counter of round robin
    req,            \* req[c]: the request on connection c
    calm            \* calm[c]: no counter has changed since c's request began to choose

vars == <<algorithm, rotation, active, counter, req, calm>>

Env == INSTANCE Rotation

\* closed: no connection; idle: no request; choose: in select; chosen: index
\* known; forward: awaiting the backend; recorded: metrics updated; stream: the
\* head is returned and the body still flows.
Stages == {"closed", "idle", "choose", "chosen", "forward", "recorded", "stream"}
Statuses == {200, 400, 502, 503, 504}

NoRequest == [stage |-> "closed", slice |-> <<>>, pos |-> 0, index |-> 0,
              least |-> 0, status |-> 0]

Chosen(c) == req[c].slice[req[c].index]

\* The request on c holds a ConnectionGuard for b.
Guards(c, b) == req[c].stage \in {"forward", "recorded"} /\ Chosen(c) = b

TypeOK ==
    /\ algorithm \in Algorithms
    /\ rotation \in SUBSET Backends
    /\ active \in [Backends -> Nat]
    /\ counter \in 0..(CounterSize - 1)
    /\ calm \in [Conns -> BOOLEAN]
    /\ \A c \in Conns :
          /\ req[c].stage \in Stages
          /\ req[c].slice \in Seq(Backends)
          /\ {req[c].pos, req[c].index} \subseteq 0..Len(req[c].slice)
          /\ req[c].least \in Nat
          /\ req[c].status \in Statuses \cup {0}

Init ==
    /\ algorithm \in Algorithms
    /\ Env!Init
    /\ active = [b \in Backends |-> 0]
    /\ counter = 0
    /\ req = [c \in Conns |-> NoRequest]
    /\ calm = [c \in Conns |-> FALSE]

At(c, s) == req[c].stage = s

\* The active count of b changes, which every select under way may have missed.
Count(b, n) ==
    /\ active' = [active EXCEPT ![b] = n]
    /\ calm' = [c \in Conns |-> FALSE]

\* The response is handed to hyper and the handler has returned.
Reply(c, status) == req' = [req EXCEPT ![c] = [NoRequest EXCEPT !.stage = "idle", !.status = status]]

\* The connection's task ends and everything in it is dropped.
Hangup(c) == req' = [req EXCEPT ![c] = NoRequest]

\* select returns index i, counted from 1 here.
Pick(c, i) ==
    /\ At(c, "choose")
    /\ i \in DOMAIN req[c].slice
    /\ req' = [req EXCEPT ![c].stage = "chosen", ![c].index = i]
    /\ UNCHANGED <<algorithm, rotation, active, calm>>

---------------------------------------------------------------------------------
(***************************************************************************)
(* Variants of the definitions below that a plausible mistake would give;  *)
(* none is used by the specification.                                      *)
(***************************************************************************)
\* Without a drop guard, a client that leaves takes its count with it.
LeaveUncounted(c) ==
    /\ At(c, "forward")
    /\ Hangup(c)
    /\ UNCHANGED <<algorithm, rotation, active, counter, calm>>

\* The request is forwarded without a deadline.
AnsweredNoDeadline(c, status) ==
    /\ At(c, "forward")
    /\ status \in {200, 502}
    /\ req' = [req EXCEPT ![c].stage = "recorded", ![c].status = status]
    /\ UNCHANGED <<algorithm, rotation, active, counter, calm>>

\* Of two equal counts the loop takes the later one.
LoadActiveLastTie(c) ==
    LET r == req[c]
        p == r.pos + 1
        n == active[r.slice[p]]
    IN  /\ algorithm = "least_connections"
        /\ At(c, "choose")
        /\ p \in DOMAIN r.slice
        /\ req' = [req EXCEPT ![c] = IF p = 1 \/ n <= r.least
                                     THEN [@ EXCEPT !.pos = p, !.index = p, !.least = n]
                                     ELSE [@ EXCEPT !.pos = p]]
        /\ UNCHANGED <<algorithm, rotation, active, counter, calm>>

\* The counter never wraps.
RoundRobinUnbounded(c) ==
    /\ algorithm = "round_robin"
    /\ req[c].slice # <<>>
    /\ Pick(c, (counter % Len(req[c].slice)) + 1)
    /\ counter' = counter + 1

---------------------------------------------------------------------------------
\* The accept loop spawns a task for the connection.
Accept(c) ==
    /\ At(c, "closed")
    /\ req' = [req EXCEPT ![c].stage = "idle"]
    /\ UNCHANGED <<algorithm, rotation, active, counter, calm>>

\* A request arrives and takes the snapshot.
TakeSnapshot(c) ==
    /\ At(c, "idle")
    /\ req' = [req EXCEPT ![c] = [NoRequest EXCEPT !.stage = "choose",
                                                    !.slice = InPoolOrder(rotation)]]
    /\ calm' = [calm EXCEPT ![c] = TRUE]
    /\ UNCHANGED <<algorithm, rotation, active, counter>>

\* select returns None.
NoneHealthy(c) ==
    /\ At(c, "choose")
    /\ req[c].slice = <<>>
    /\ Reply(c, 503)
    /\ UNCHANGED <<algorithm, rotation, active, counter, calm>>

RoundRobin(c) ==
    /\ algorithm = "round_robin"
    /\ req[c].slice # <<>>
    /\ Pick(c, (counter % Len(req[c].slice)) + 1)
    /\ counter' = (counter + 1) % CounterSize

Random(c) ==
    /\ algorithm = "random"
    /\ \E i \in DOMAIN req[c].slice : Pick(c, i)
    /\ UNCHANGED counter

IpHash(c) ==
    /\ algorithm = "ip_hash"
    /\ req[c].slice # <<>>
    /\ Pick(c, (HashOf[c] % Len(req[c].slice)) + 1)
    /\ UNCHANGED counter

WeightedRoundRobin(c) ==
    /\ algorithm = "weighted_round_robin"
    /\ \E i \in DOMAIN req[c].slice : Pick(c, i)
    /\ UNCHANGED counter

\* The index out of bounds of weighted round robin unwinds the task.
SelectPanics(c) ==
    /\ At(c, "choose")
    /\ algorithm = "weighted_round_robin"
    /\ req[c].slice # <<>>
    /\ Hangup(c)
    /\ UNCHANGED <<algorithm, rotation, active, counter, calm>>

\* One turn of the loop of least connections: load the next counter.
LoadActive(c) ==
    LET r == req[c]
        p == r.pos + 1
        n == active[r.slice[p]]
    IN  /\ algorithm = "least_connections"
        /\ At(c, "choose")
        /\ p \in DOMAIN r.slice
        /\ req' = [req EXCEPT ![c] = IF p = 1 \/ n < r.least
                                     THEN [@ EXCEPT !.pos = p, !.index = p, !.least = n]
                                     ELSE [@ EXCEPT !.pos = p]]
        /\ UNCHANGED <<algorithm, rotation, active, counter, calm>>

LeastConnections(c) ==
    /\ algorithm = "least_connections"
    /\ req[c].slice # <<>>
    /\ req[c].pos = Len(req[c].slice)
    /\ Pick(c, req[c].index)
    /\ UNCHANGED counter

\* The target makes no URI behind the backend's address: 400, not recorded.
BadTarget(c) ==
    /\ At(c, "chosen")
    /\ Reply(c, 400)
    /\ UNCHANGED <<algorithm, rotation, active, counter, calm>>

\* ConnectionGuard::new, then the request is sent.
Forward(c) ==
    /\ At(c, "chosen")
    /\ Count(Chosen(c), active[Chosen(c)] + 1)
    /\ req' = [req EXCEPT ![c].stage = "forward"]
    /\ UNCHANGED <<algorithm, rotation, counter>>

\* The backend's head arrives (200 stands for any status), the exchange fails,
\* or the deadline passes first; the outcome is recorded.
Answered(c, status) ==
    /\ At(c, "forward")
    /\ status \in {200, 502, 504}
    /\ req' = [req EXCEPT ![c].stage = "recorded", ![c].status = status]
    /\ UNCHANGED <<algorithm, rotation, active, counter, calm>>

\* handle_request returns: the guard is dropped and the body streams on.
Return(c) ==
    /\ At(c, "recorded")
    /\ Count(Chosen(c), active[Chosen(c)] - 1)
    /\ IF req[c].status = 200 THEN req' = [req EXCEPT ![c].stage = "stream"]
       ELSE Reply(c, req[c].status)
    /\ UNCHANGED <<algorithm, rotation, counter>>

EndStream(c) ==
    /\ At(c, "stream")
    /\ Reply(c, 200)
    /\ UNCHANGED <<algorithm, rotation, active, counter, calm>>

\* The client leaves while the backend's answer is awaited: the handler is
\* dropped with its guard.
LeaveWaiting(c) ==
    /\ At(c, "forward")
    /\ Hangup(c)
    /\ Count(Chosen(c), active[Chosen(c)] - 1)
    /\ UNCHANGED <<algorithm, rotation, counter>>

\* The client leaves while no handler runs.
Leave(c) ==
    /\ At(c, "idle") \/ At(c, "stream")
    /\ Hangup(c)
    /\ UNCHANGED <<algorithm, rotation, active, counter, calm>>

\* The handler's own steps, which the runtime goes on to take.
Handle(c) ==
    \/ NoneHealthy(c)
    \/ RoundRobin(c) \/ Random(c) \/ IpHash(c) \/ WeightedRoundRobin(c) \/ SelectPanics(c)
    \/ LoadActive(c) \/ LeastConnections(c)
    \/ BadTarget(c) \/ Forward(c)
    \/ Answered(c, 504)
    \/ Return(c)

PoolChanges == Env!Next /\ UNCHANGED <<algorithm, active, counter, req, calm>>

Next ==
    \/ \E c \in Conns :
        \/ Accept(c) \/ TakeSnapshot(c) \/ Handle(c)
        \/ Answered(c, 200) \/ Answered(c, 502)
        \/ EndStream(c) \/ LeaveWaiting(c) \/ Leave(c)
    \/ PoolChanges

Spec == Init /\ [][Next]_vars

(***************************************************************************)
(* Fairness: the runtime polls a handler that can go on, and the deadline  *)
(* of the forwarded request passes if nothing else ends the wait.  Nothing *)
(* is assumed of clients and backends.                                     *)
(***************************************************************************)
FairSpec == Spec /\ \A c \in Conns : WF_vars(Handle(c))

---------------------------------------------------------------------------------
(***************************************************************************)
(* The active count of a backend is the number of requests that hold a     *)
(* guard for it, through answers, errors, timeouts and clients that leave. *)
(***************************************************************************)
GuardsCounted ==
    \A b \in Backends : active[b] = Cardinality({c \in Conns : Guards(c, b)})

(***************************************************************************)
(* A least-connections choice during which no counter changed is the first *)
(* backend of the slice with the fewest active connections.                *)
(***************************************************************************)
LeastWhenCalm ==
    \A c \in Conns :
        algorithm = "least_connections" /\ At(c, "chosen") /\ calm[c] =>
            \A p \in DOMAIN req[c].slice :
                /\ active[Chosen(c)] <= active[req[c].slice[p]]
                /\ p < req[c].index => active[Chosen(c)] < active[req[c].slice[p]]

(***************************************************************************)
(* Once a backend is out of rotation for good, its count falls to zero for *)
(* good: requests that chose it from an old snapshot come to an end.       *)
(***************************************************************************)
Drains ==
    \A b \in Backends : <>[](b \notin rotation) => <>[](active[b] = 0)

(***************************************************************************)
(* Every request a handler has taken ends, with a reply or with the end of *)
(* its connection.                                                         *)
(***************************************************************************)
RequestsEnd ==
    \A c \in Conns :
        req[c].stage \in {"choose", "chosen", "forward", "recorded"} ~>
            req[c].stage \in {"stream", "idle", "closed"}
=================================================================================
