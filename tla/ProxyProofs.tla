------------------------------ MODULE ProxyProofs ------------------------------
(***************************************************************************)
(* Theorems about module Proxy, for any number of backends and             *)
(* connections: the active counts are those of the guards, however the     *)
(* requests end, and a least-connections choice that nothing disturbed is  *)
(* the right one.                                                          *)
(***************************************************************************)
EXTENDS Proxy, SetLemmas

Request == [stage : Stages, slice : Seq(Backends), pos : Nat, index : Nat,
            least : Nat, status : Statuses \cup {0}]

Guarding == {"forward", "recorded"}

\* What is known of the positions in a request.
Fits(r) ==
    /\ r.pos <= Len(r.slice) /\ r.index <= Len(r.slice)
    /\ r.stage \in Guarding \cup {"chosen"} => r.index \in DOMAIN r.slice

\* The request r holds a guard for b.
Holds(r, b) == r.stage \in Guarding /\ r.slice[r.index] = b

RequestsFit == req \in [Conns -> Request] /\ \A c \in Conns : Fits(req[c])

OthersTyped ==
    /\ algorithm \in Algorithms
    /\ rotation \in SUBSET Backends
    /\ counter \in 0..(CounterSize - 1)
    /\ calm \in [Conns -> BOOLEAN]
    /\ active \in [Backends -> Nat]

IInv == OthersTyped /\ RequestsFit /\ GuardsCounted

Holders(b) == {c \in Conns : Holds(req[c], b)}

LEMMA HoldersAreGuards ==
    ASSUME NEW b
    PROVE  Holders(b) = {c \in Conns : Guards(c, b)}
BY DEF Holders, Holds, Guarding, Guards, Chosen

LEMMA CountedHolders ==
    GuardsCounted <=> \A b \in Backends : active[b] = Cardinality(Holders(b))
BY HoldersAreGuards DEF GuardsCounted

LEMMA CountedHoldersNext ==
    (\A b \in Backends : active'[b] = Cardinality(Holders(b)')) => GuardsCounted'
BY DEF GuardsCounted, Holders, Holds, Guarding, Guards, Chosen

(***************************************************************************)
(* The three ways in which a step of one connection bears on the counts.   *)
(***************************************************************************)
LEMMA KeepsGuard ==
    ASSUME IInv, NEW c \in Conns, NEW r \in Request, Fits(r),
           req' = [req EXCEPT ![c] = r], UNCHANGED active,
           \A b \in Backends : Holds(r, b) <=> Holds(req[c], b)
    PROVE  RequestsFit' /\ GuardsCounted'
<1>1. RequestsFit'
  BY DEF IInv, RequestsFit
<1>2. \A b \in Backends : Holders(b)' = Holders(b)
  BY DEF Holders, IInv, RequestsFit
<1>3. QED
  BY <1>1, <1>2, CountedHolders, CountedHoldersNext DEF IInv

LEMMA GainsGuard ==
    ASSUME IInv, NEW c \in Conns, NEW r \in Request, Fits(r), NEW g \in Backends,
           req' = [req EXCEPT ![c] = r], active' = [active EXCEPT ![g] = active[g] + 1],
           \A b \in Backends : (Holds(r, b) <=> b = g) /\ ~Holds(req[c], b)
    PROVE  RequestsFit' /\ GuardsCounted' /\ active' \in [Backends -> Nat]
<1>1. RequestsFit'
  BY DEF IInv, RequestsFit
<1>2. \A b \in Backends \ {g} : Holders(b)' = Holders(b) /\ active'[b] = active[b]
  BY DEF Holders, IInv, RequestsFit, OthersTyped
<1>3. Holders(g)' = Holders(g) \cup {c} /\ c \notin Holders(g)
  BY DEF Holders, IInv, RequestsFit
<1>4. IsFiniteSet(Holders(g))
  BY ProxyAssumption, FS_Subset DEF Holders
<1>5. Cardinality(Holders(g)') = Cardinality(Holders(g)) + 1
  BY <1>3, <1>4, FS_AddElement
<1>6. active'[g] = active[g] + 1 /\ active' \in [Backends -> Nat]
  BY DEF IInv, OthersTyped
<1>7. QED
  BY <1>1, <1>2, <1>5, <1>6, CountedHolders, CountedHoldersNext DEF IInv

LEMMA LosesGuard ==
    ASSUME IInv, NEW c \in Conns, NEW r \in Request, Fits(r), NEW g \in Backends,
           req' = [req EXCEPT ![c] = r], active' = [active EXCEPT ![g] = active[g] - 1],
           \A b \in Backends : ~Holds(r, b) /\ (Holds(req[c], b) <=> b = g)
    PROVE  RequestsFit' /\ GuardsCounted' /\ active' \in [Backends -> Nat]
<1>1. RequestsFit'
  BY DEF IInv, RequestsFit
<1>2. \A b \in Backends \ {g} : Holders(b)' = Holders(b) /\ active'[b] = active[b]
  BY DEF Holders, IInv, RequestsFit, OthersTyped
<1>3. Holders(g)' = Holders(g) \ {c} /\ c \in Holders(g)
  BY DEF Holders, IInv, RequestsFit
<1>4. IsFiniteSet(Holders(g))
  BY ProxyAssumption, FS_Subset DEF Holders
<1>5. Cardinality(Holders(g)') = Cardinality(Holders(g)) - 1
  BY <1>3, <1>4, FS_RemoveElement
<1>6. active[g] = Cardinality(Holders(g))
  BY CountedHolders DEF IInv
<1>7. Cardinality(Holders(g)') \in Nat
  BY <1>3, <1>4, FS_RemoveElement, FS_CardinalityType
<1>8. active'[g] = active[g] - 1 /\ active'[g] \in Nat
  BY <1>5, <1>6, <1>7 DEF IInv, OthersTyped
<1>9. active' \in [Backends -> Nat]
  BY <1>8 DEF IInv, OthersTyped
<1>10. QED
  BY <1>1, <1>2, <1>5, <1>6, <1>8, <1>9, CountedHolders, CountedHoldersNext DEF IInv

---------------------------------------------------------------------------------
LEMMA InitInvariant == Init => IInv
<1> SUFFICES ASSUME Init PROVE IInv
  OBVIOUS
<1>1. NoRequest \in Request /\ Fits(NoRequest) /\ \A b : ~Holds(NoRequest, b)
  BY DEF NoRequest, Request, Fits, Holds, Guarding, Stages, Statuses
<1>2. OthersTyped
  BY ProxyAssumption DEF Init, Env!Init, OthersTyped
<1>3. RequestsFit
  BY <1>1 DEF Init, RequestsFit
<1>4. \A b \in Backends : Holders(b) = {}
  BY <1>1 DEF Init, Holders
<1>5. GuardsCounted
  BY <1>4, CountedHolders, FS_EmptySet DEF Init
<1>6. QED
  BY <1>2, <1>3, <1>5 DEF IInv

\* A connection's request becomes r and its guard, if any, stays.
LEMMA QuietStep ==
    ASSUME IInv, NEW c \in Conns, NEW r \in Request, Fits(r),
           req' = [req EXCEPT ![c] = r], UNCHANGED <<algorithm, rotation, active>>,
           counter' \in 0..(CounterSize - 1), calm' \in [Conns -> BOOLEAN],
           \A b \in Backends : Holds(r, b) <=> Holds(req[c], b)
    PROVE  IInv'
<1>1. RequestsFit' /\ GuardsCounted'
  BY KeepsGuard
<1>2. OthersTyped'
  BY DEF IInv, OthersTyped
<1>3. QED
  BY <1>1, <1>2 DEF IInv

\* The requests that a connection goes back to.
LEMMA BlankRequests ==
    /\ NoRequest \in Request /\ Fits(NoRequest) /\ \A b : ~Holds(NoRequest, b)
    /\ \A status \in Statuses \cup {0} :
          LET r == [NoRequest EXCEPT !.stage = "idle", !.status = status]
          IN  r \in Request /\ Fits(r) /\ \A b : ~Holds(r, b)
<1>1. NoRequest \in Request /\ Fits(NoRequest) /\ \A b : ~Holds(NoRequest, b)
  BY DEF NoRequest, Request, Fits, Holds, Guarding, Stages, Statuses
<1>2. ASSUME NEW status \in Statuses \cup {0}
      PROVE  LET r == [NoRequest EXCEPT !.stage = "idle", !.status = status]
             IN  r \in Request /\ Fits(r) /\ \A b : ~Holds(r, b)
  <2> DEFINE r == [NoRequest EXCEPT !.stage = "idle", !.status = status]
  <2>1. "idle" \in Stages
    BY DEF Stages
  <2>2. r \in Request
    BY <1>1, <2>1 DEF Request
  <2>3. r.stage = "idle" /\ r.slice = <<>> /\ r.pos = 0 /\ r.index = 0
    BY DEF NoRequest
  <2> HIDE DEF r
  <2>4. Fits(r) /\ \A b : ~Holds(r, b)
    BY <2>3 DEF Fits, Holds, Guarding
  <2>5. QED
    BY <2>2, <2>4 DEF r
<1>3. QED
  BY <1>1, <1>2

\* The request of a connection, and what its stage says of its guard.
LEMMA RequestFacts ==
    ASSUME IInv, NEW c \in Conns
    PROVE  /\ req[c] \in Request /\ Fits(req[c])
           /\ req[c].stage \notin Guarding => \A b : ~Holds(req[c], b)
           /\ req[c].stage \in Guarding =>
                 Chosen(c) \in Backends /\ \A b : Holds(req[c], b) <=> b = Chosen(c)
BY DEF IInv, RequestsFit, Fits, Holds, Chosen, Request

LEMMA PickStep ==
    ASSUME IInv, NEW c \in Conns, NEW i, Pick(c, i), counter' \in 0..(CounterSize - 1)
    PROVE  IInv'
<1> DEFINE r == [req[c] EXCEPT !.stage = "chosen", !.index = i]
<1>1. /\ req[c] \in Request /\ Fits(req[c]) /\ req[c].stage = "choose"
      /\ i \in DOMAIN req[c].slice /\ UNCHANGED <<algorithm, rotation, active, calm>>
  BY RequestFacts DEF Pick, At
<1>2. r \in Request /\ Fits(r)
  <2>1. req[c].slice \in Seq(Backends) /\ i \in 1..Len(req[c].slice)
    BY <1>1 DEF Request
  <2>2. r \in Request
    <3>1. "chosen" \in Stages /\ i \in Nat
      BY <2>1 DEF Stages
    <3>2. QED
      BY <1>1, <3>1 DEF Request
  <2>3. r.slice = req[c].slice /\ r.pos = req[c].pos /\ r.index = i
    BY <1>1 DEF Request
  <2>4. QED
    BY <1>1, <2>1, <2>2, <2>3 DEF Fits
<1>3. \A b : ~Holds(r, b) /\ ~Holds(req[c], b)
  BY <1>1 DEF Holds, Guarding, Request
<1>4. req' = [req EXCEPT ![c] = r]
  BY DEF Pick, IInv, RequestsFit
<1>5. calm' \in [Conns -> BOOLEAN]
  BY <1>1 DEF IInv, OthersTyped
<1> HIDE DEF r
<1>6. QED
  BY <1>1, <1>2, <1>3, <1>4, <1>5, QuietStep

LEMMA CounterStays ==
    ASSUME IInv
    PROVE  counter \in 0..(CounterSize - 1) /\ calm \in [Conns -> BOOLEAN]
BY DEF IInv, OthersTyped

LEMMA SelectStep ==
    ASSUME IInv, NEW c \in Conns,
           RoundRobin(c) \/ Random(c) \/ IpHash(c) \/ WeightedRoundRobin(c) \/ LeastConnections(c)
    PROVE  IInv'
<1>1. PICK i : Pick(c, i)
  BY DEF RoundRobin, Random, IpHash, WeightedRoundRobin, LeastConnections
<1>2. counter' \in 0..(CounterSize - 1)
  <2>1. CASE counter' = (counter + 1) % CounterSize
    BY <2>1, CounterStays, ProxyAssumption
  <2>2. CASE UNCHANGED counter
    BY <2>2, CounterStays
  <2>3. QED
    BY <2>1, <2>2 DEF RoundRobin, Random, IpHash, WeightedRoundRobin, LeastConnections
<1>3. QED
  BY <1>1, <1>2, PickStep

LEMMA AcceptStep ==
    ASSUME IInv, NEW c \in Conns, Accept(c)
    PROVE  IInv'
<1> DEFINE r == [req[c] EXCEPT !.stage = "idle"]
<1>1. req[c] \in Request /\ Fits(req[c]) /\ req[c].stage = "closed" /\ "idle" \in Stages
  BY RequestFacts DEF Accept, At, Stages
<1>2. r \in Request /\ Fits(r) /\ \A b : ~Holds(r, b) /\ ~Holds(req[c], b)
  BY <1>1 DEF Request, Fits, Holds, Guarding
<1>3. req' = [req EXCEPT ![c] = r]
  BY DEF Accept, IInv, RequestsFit
<1>4. UNCHANGED <<algorithm, rotation, active, counter, calm>>
  BY DEF Accept
<1> HIDE DEF r
<1>5. QED
  BY <1>2, <1>3, <1>4, CounterStays, QuietStep

LEMMA BackendsFinite == Backends \subseteq Nat /\ IsFiniteSet(Backends)
<1>1. 1 \in Int /\ NumBackends \in Int
  BY ProxyAssumption
<1>2. IsFiniteSet(1..NumBackends)
  BY <1>1, FS_Interval
<1>3. QED
  BY <1>2 DEF Backends

LEMMA TakeSnapshotStep ==
    ASSUME IInv, NEW c \in Conns, TakeSnapshot(c)
    PROVE  IInv'
<1> DEFINE s == InPoolOrder(rotation)
           r == [NoRequest EXCEPT !.stage = "choose", !.slice = s]
<1>1. s \in Seq(Backends) /\ Len(s) \in Nat
  <2>1. rotation \subseteq Backends /\ Backends \subseteq Nat /\ IsFiniteSet(Backends)
    BY BackendsFinite DEF IInv, OthersTyped
  <2>2. IsFiniteSet(rotation) /\ rotation \in SUBSET Nat
    BY <2>1, FS_Subset
  <2>3. s \in [1..Cardinality(rotation) -> rotation] /\ Cardinality(rotation) \in Nat
    BY <2>2, InPoolOrderFacts, FS_CardinalityType
  <2> HIDE DEF s
  <2>4. s \in [1..Cardinality(rotation) -> Backends]
    BY <2>1, <2>3
  <2> HIDE DEF Backends
  <2>5. QED
    BY <2>3, <2>4
<1> HIDE DEF s
<1>2. r \in Request
  <2>1. "choose" \in Stages
    BY DEF Stages
  <2>2. QED
    BY <1>1, <2>1, BlankRequests DEF Request
<1>3. r.stage = "choose" /\ r.slice = s /\ r.pos = 0 /\ r.index = 0
  BY DEF NoRequest
<1>4. req' = [req EXCEPT ![c] = r] /\ calm' = [calm EXCEPT ![c] = TRUE]
  BY DEF TakeSnapshot, s
<1>5. UNCHANGED <<algorithm, rotation, active, counter>> /\ req[c].stage = "idle"
  BY DEF TakeSnapshot, At
<1> HIDE DEF r
<1>6. Fits(r) /\ \A b : ~Holds(r, b) /\ ~Holds(req[c], b)
  BY <1>1, <1>3, <1>5 DEF Fits, Holds, Guarding
<1>7. calm' \in [Conns -> BOOLEAN]
  BY <1>4, CounterStays
<1>8. QED
  BY <1>2, <1>4, <1>5, <1>6, <1>7, CounterStays, QuietStep

\* The handler replies, or the connection ends, while no guard is held.
LEMMA BlankStep ==
    ASSUME IInv, NEW c \in Conns, req[c].stage \notin Guarding,
           UNCHANGED <<algorithm, rotation, active, counter, calm>>,
           Hangup(c) \/ \E status \in Statuses : Reply(c, status)
    PROVE  IInv'
<1>1. \A b : ~Holds(req[c], b)
  BY RequestFacts
<1>2. CASE Hangup(c)
  <2>1. req' = [req EXCEPT ![c] = NoRequest]
    BY <1>2 DEF Hangup
  <2>2. QED
    BY <1>1, <2>1, BlankRequests, CounterStays, QuietStep
<1>3. ASSUME NEW status \in Statuses, Reply(c, status) PROVE IInv'
  <2> DEFINE r == [NoRequest EXCEPT !.stage = "idle", !.status = status]
  <2>1. req' = [req EXCEPT ![c] = r]
    BY <1>3 DEF Reply
  <2>2. r \in Request /\ Fits(r) /\ \A b : ~Holds(r, b)
    BY BlankRequests
  <2> HIDE DEF r
  <2>3. QED
    BY <1>1, <2>1, <2>2, CounterStays, QuietStep
<1>4. QED
  BY <1>2, <1>3

LEMMA BlankSteps ==
    ASSUME IInv, NEW c \in Conns,
           NoneHealthy(c) \/ SelectPanics(c) \/ BadTarget(c) \/ EndStream(c) \/ Leave(c)
    PROVE  IInv'
<1>1. req[c].stage \notin Guarding /\ UNCHANGED <<algorithm, rotation, active, counter, calm>>
  BY DEF NoneHealthy, SelectPanics, BadTarget, EndStream, Leave, At, Guarding
<1>2. Hangup(c) \/ \E status \in Statuses : Reply(c, status)
  BY DEF NoneHealthy, SelectPanics, BadTarget, EndStream, Leave, Statuses
<1>3. QED
  BY <1>1, <1>2, BlankStep

LEMMA LoadActiveStep ==
    ASSUME IInv, NEW c \in Conns, LoadActive(c)
    PROVE  IInv'
<1> DEFINE p == req[c].pos + 1
           n == active[req[c].slice[p]]
           r == IF p = 1 \/ n < req[c].least
                THEN [req[c] EXCEPT !.pos = p, !.index = p, !.least = n]
                ELSE [req[c] EXCEPT !.pos = p]
<1>1. req[c] \in Request /\ Fits(req[c]) /\ req[c].stage = "choose" /\ p \in DOMAIN req[c].slice
  BY RequestFacts DEF LoadActive, At
<1>2. req[c].slice \in Seq(Backends) /\ p \in 1..Len(req[c].slice) /\ n \in Nat
  BY <1>1 DEF Request, IInv, OthersTyped
<1>3. req' = [req EXCEPT ![c] = r] /\ UNCHANGED <<algorithm, rotation, active, counter, calm>>
  BY DEF LoadActive
<1> HIDE DEF n, p
<1>4. r \in Request /\ r.stage = "choose"
  <2>1. p \in Nat
    BY <1>2
  <2>2. CASE p = 1 \/ n < req[c].least
    BY <1>1, <1>2, <2>1, <2>2 DEF Request
  <2>3. CASE ~(p = 1 \/ n < req[c].least)
    BY <1>1, <2>1, <2>3 DEF Request
  <2>4. QED
    BY <2>2, <2>3
<1>5. r.slice = req[c].slice /\ r.pos = p /\ r.index \in {p, req[c].index}
  BY <1>1 DEF Request
<1> HIDE DEF r
<1>6. Fits(r)
  BY <1>1, <1>2, <1>4, <1>5 DEF Fits, Guarding
<1>7. \A b : ~Holds(r, b) /\ ~Holds(req[c], b)
  BY <1>1, <1>4 DEF Holds, Guarding
<1>8. QED
  BY <1>3, <1>4, <1>6, <1>7, CounterStays, QuietStep

LEMMA AnsweredStep ==
    ASSUME IInv, NEW c \in Conns, NEW status, Answered(c, status)
    PROVE  IInv'
<1> DEFINE r == [req[c] EXCEPT !.stage = "recorded", !.status = status]
<1>1. /\ req[c] \in Request /\ Fits(req[c]) /\ req[c].stage = "forward"
      /\ "recorded" \in Stages /\ status \in Statuses
  BY RequestFacts DEF Answered, At, Stages, Statuses
<1>2. r \in Request
  BY <1>1 DEF Request
<1>3. r.stage = "recorded" /\ r.slice = req[c].slice /\ r.pos = req[c].pos /\ r.index = req[c].index
  BY <1>1 DEF Request
<1>4. req' = [req EXCEPT ![c] = r]
  <2>1. req \in [Conns -> Request]
    BY DEF IInv, RequestsFit
  <2>2. req' = [req EXCEPT ![c].stage = "recorded", ![c].status = status]
    BY DEF Answered
  <2>3. QED
    BY <2>1, <2>2
<1>5. UNCHANGED <<algorithm, rotation, active, counter, calm>>
  BY DEF Answered
<1> HIDE DEF r
<1>6. Fits(r) /\ \A b : Holds(r, b) <=> Holds(req[c], b)
  BY <1>1, <1>3 DEF Fits, Holds, Guarding
<1>7. QED
  BY <1>2, <1>4, <1>5, <1>6, CounterStays, QuietStep

LEMMA ForwardStep ==
    ASSUME IInv, NEW c \in Conns, Forward(c)
    PROVE  IInv'
<1> DEFINE r == [req[c] EXCEPT !.stage = "forward"]
           g == Chosen(c)
<1>1. /\ req[c] \in Request /\ Fits(req[c]) /\ req[c].stage = "chosen" /\ "forward" \in Stages
  BY RequestFacts DEF Forward, At, Stages
<1>2. r \in Request
  BY <1>1 DEF Request
<1>3. r.stage = "forward" /\ r.slice = req[c].slice /\ r.pos = req[c].pos /\ r.index = req[c].index
  BY <1>1 DEF Request
<1>4. req' = [req EXCEPT ![c] = r]
  BY DEF Forward, IInv, RequestsFit
<1>5. active' = [active EXCEPT ![g] = active[g] + 1] /\ UNCHANGED <<algorithm, rotation, counter>>
  BY DEF Forward, Count
<1>6. calm' \in [Conns -> BOOLEAN]
  BY DEF Forward, Count
<1>7. g \in Backends
  BY <1>1 DEF Fits, Chosen, Request
<1> HIDE DEF r
<1>8. Fits(r) /\ \A b : (Holds(r, b) <=> b = g) /\ ~Holds(req[c], b)
  BY <1>1, <1>3 DEF Fits, Holds, Guarding, Chosen
<1> HIDE DEF g
<1>9. RequestsFit' /\ GuardsCounted' /\ active' \in [Backends -> Nat]
  BY <1>2, <1>4, <1>5, <1>7, <1>8, GainsGuard
<1>10. QED
  BY <1>5, <1>6, <1>9 DEF IInv, OthersTyped

\* A request that holds a guard becomes r and the guard is dropped.
LEMMA DropStep ==
    ASSUME IInv, NEW c \in Conns, req[c].stage \in Guarding,
           NEW r \in Request, Fits(r), \A b : ~Holds(r, b),
           req' = [req EXCEPT ![c] = r],
           Count(Chosen(c), active[Chosen(c)] - 1),
           UNCHANGED <<algorithm, rotation, counter>>
    PROVE  IInv'
<1> DEFINE g == Chosen(c)
<1>1. g \in Backends /\ \A b : Holds(req[c], b) <=> b = g
  BY RequestFacts
<1>2. active' = [active EXCEPT ![g] = active[g] - 1] /\ calm' \in [Conns -> BOOLEAN]
  BY DEF Count
<1> HIDE DEF g
<1>3. RequestsFit' /\ GuardsCounted' /\ active' \in [Backends -> Nat]
  BY <1>1, <1>2, LosesGuard
<1>4. QED
  BY <1>2, <1>3 DEF IInv, OthersTyped

LEMMA ReturnStep ==
    ASSUME IInv, NEW c \in Conns, Return(c)
    PROVE  IInv'
<1>1. /\ req[c] \in Request /\ Fits(req[c]) /\ req[c].stage = "recorded" /\ "stream" \in Stages
  BY RequestFacts DEF Return, At, Stages
<1>2. req[c].stage \in Guarding /\ Count(Chosen(c), active[Chosen(c)] - 1)
      /\ UNCHANGED <<algorithm, rotation, counter>>
  BY <1>1 DEF Return, Guarding
<1>3. CASE req[c].status = 200
  <2> DEFINE r == [req[c] EXCEPT !.stage = "stream"]
  <2>1. r \in Request
    BY <1>1 DEF Request
  <2>2. r.stage = "stream" /\ r.slice = req[c].slice /\ r.pos = req[c].pos /\ r.index = req[c].index
    BY <1>1 DEF Request
  <2>3. req' = [req EXCEPT ![c] = r]
    BY <1>3 DEF Return, IInv, RequestsFit
  <2> HIDE DEF r
  <2>4. Fits(r) /\ \A b : ~Holds(r, b)
    BY <1>1, <2>2 DEF Fits, Holds, Guarding
  <2>5. QED
    BY <1>2, <2>1, <2>3, <2>4, DropStep
<1>4. CASE req[c].status # 200
  <2> DEFINE status == req[c].status
             r == [NoRequest EXCEPT !.stage = "idle", !.status = status]
  <2>1. req' = [req EXCEPT ![c] = r]
    BY <1>4 DEF Return, Reply
  <2>2. status \in Statuses \cup {0}
    BY <1>1 DEF Request
  <2> HIDE DEF status
  <2>3. r \in Request /\ Fits(r) /\ \A b : ~Holds(r, b)
    BY <2>2, BlankRequests
  <2> HIDE DEF r
  <2>4. QED
    BY <1>2, <2>1, <2>3, DropStep
<1>5. QED
  BY <1>3, <1>4

LEMMA LeaveWaitingStep ==
    ASSUME IInv, NEW c \in Conns, LeaveWaiting(c)
    PROVE  IInv'
<1>1. req[c].stage \in Guarding /\ Count(Chosen(c), active[Chosen(c)] - 1)
      /\ UNCHANGED <<algorithm, rotation, counter>>
  BY DEF LeaveWaiting, At, Guarding
<1>2. req' = [req EXCEPT ![c] = NoRequest]
  BY DEF LeaveWaiting, Hangup
<1>3. QED
  BY <1>1, <1>2, BlankRequests, DropStep

LEMMA NextInvariant == IInv /\ [Next]_vars => IInv'
<1> SUFFICES ASSUME IInv, [Next]_vars PROVE IInv'
  OBVIOUS
<1>1. ASSUME NEW c \in Conns, Accept(c) \/ TakeSnapshot(c) PROVE IInv'
  BY <1>1, AcceptStep, TakeSnapshotStep
<1>2. ASSUME NEW c \in Conns, Handle(c) PROVE IInv'
  BY <1>2, SelectStep, BlankSteps, LoadActiveStep, ForwardStep, AnsweredStep, ReturnStep
  DEF Handle
<1>3. ASSUME NEW c \in Conns, Answered(c, 200) \/ Answered(c, 502) PROVE IInv'
  BY <1>3, AnsweredStep
<1>4. ASSUME NEW c \in Conns, EndStream(c) \/ LeaveWaiting(c) \/ Leave(c) PROVE IInv'
  BY <1>4, BlankSteps, LeaveWaitingStep
<1>5. CASE PoolChanges
  <2>1. rotation' \in SUBSET Backends
    BY <1>5 DEF PoolChanges, Env!Next, Env!Enter, Env!Leave, IInv, OthersTyped
  <2>2. UNCHANGED <<algorithm, active, counter, req, calm>>
    BY <1>5 DEF PoolChanges
  <2>3. GuardsCounted'
    BY <2>2 DEF GuardsCounted, Guards, Chosen, IInv
  <2>4. QED
    BY <2>1, <2>2, <2>3 DEF IInv, OthersTyped, RequestsFit
<1>6. CASE UNCHANGED vars
  BY <1>6 DEF vars, IInv, OthersTyped, RequestsFit, GuardsCounted, Guards, Chosen
<1>7. QED
  BY <1>1, <1>2, <1>3, <1>4, <1>5, <1>6 DEF Next

LEMMA Invariant == Spec => []IInv
<1>1. QED
  BY InitInvariant, NextInvariant, PTL DEF Spec

\* Every variable has its type in every reachable state, for any number of
\* backends and connections (proxy.rs, lb/*.rs).
THEOREM ProxyTypeCorrect == Spec => []TypeOK
<1>1. IInv => TypeOK
  <2> SUFFICES ASSUME IInv, NEW c \in Conns
               PROVE  /\ req[c] \in Request
                      /\ {req[c].pos, req[c].index} \subseteq 0..Len(req[c].slice)
    BY DEF IInv, OthersTyped, TypeOK, Request
  <2>1. req[c] \in Request /\ Fits(req[c])
    BY RequestFacts
  <2>2. req[c].slice \in Seq(Backends) /\ req[c].pos \in Nat /\ req[c].index \in Nat
    BY <2>1 DEF Request
  <2>3. QED
    BY <2>1, <2>2 DEF Fits
<1>2. QED
  BY Invariant, <1>1, PTL

\* The active count of a backend is the number of guards held for it, for any
\* number of connections (proxy.rs, ConnectionGuard).
THEOREM ProxyGuardsCounted == Spec => []GuardsCounted
<1>1. IInv => GuardsCounted
  BY DEF IInv
<1>2. QED
  BY Invariant, <1>1, PTL

---------------------------------------------------------------------------------
(***************************************************************************)
(* Least connections.  As long as no counter changes, the index in hand is *)
(* the first least one of the positions that the loop has been through.    *)
(***************************************************************************)
\* The first k of the numbers v have their least, m, for the first time at i.
FirstLeast(v, k, i, m) ==
    /\ i \in 1..k
    /\ m = v[i]
    /\ \A q \in 1..k : m <= v[q] /\ (q < i => m < v[q])

Counts(c) == [q \in DOMAIN req[c].slice |-> active[req[c].slice[q]]]

BestUpTo(c, k) == FirstLeast(Counts(c), k, req[c].index, req[c].least)

BestAt(c) ==
    /\ At(c, "choose") /\ req[c].pos > 0 => BestUpTo(c, req[c].pos)
    /\ At(c, "chosen") => BestUpTo(c, Len(req[c].slice))

CalmInv == algorithm = "least_connections" => \A c \in Conns : calm[c] => BestAt(c)

LEMMA CalmStep ==
    ASSUME IInv, CalmInv, NEW c \in Conns, UNCHANGED <<algorithm, active>>,
           \A d \in Conns \ {c} : req'[d] = req[d] /\ calm'[d] = calm[d],
           algorithm = "least_connections" /\ calm'[c] => BestAt(c)'
    PROVE  CalmInv'
<1> SUFFICES ASSUME algorithm = "least_connections", NEW d \in Conns, calm'[d], d # c
             PROVE  BestAt(d)'
  BY DEF CalmInv
<1>1. calm[d] /\ req'[d] = req[d]
  OBVIOUS
<1>2. BestAt(d)
  BY <1>1 DEF CalmInv
<1>3. QED
  BY <1>1, <1>2 DEF BestAt, BestUpTo, Counts, At

LEMMA FirstLeastGrows ==
    ASSUME NEW k \in Nat, NEW n \in Nat, k < n, NEW v \in [1..n -> Nat], NEW i, NEW m,
           k > 0 => FirstLeast(v, k, i, m)
    PROVE  IF k + 1 = 1 \/ v[k + 1] < m
           THEN FirstLeast(v, k + 1, k + 1, v[k + 1])
           ELSE FirstLeast(v, k + 1, i, m)
<1>1. CASE k = 0
  BY <1>1 DEF FirstLeast
<1>2. CASE k # 0
  <2>1. i \in 1..k /\ m = v[i] /\ m \in Nat /\ v[k + 1] \in Nat
    BY <1>2 DEF FirstLeast
  <2>2. \A q \in 1..k : v[q] \in Nat /\ m <= v[q] /\ (q < i => m < v[q])
    BY <1>2 DEF FirstLeast
  <2>3. QED
    BY <1>2, <2>1, <2>2 DEF FirstLeast
<1>3. QED
  BY <1>1, <1>2

LEMMA CalmLoads ==
    ASSUME IInv, CalmInv, NEW c \in Conns, LoadActive(c), calm[c]
    PROVE  BestAt(c)'
<1> DEFINE o == req[c]
           p == o.pos + 1
           v == Counts(c)
<1>1. /\ o \in Request /\ Fits(o) /\ o.stage = "choose" /\ p \in DOMAIN o.slice
      /\ algorithm = "least_connections"
  BY RequestFacts DEF LoadActive, At
<1>2. /\ o.slice \in Seq(Backends) /\ o.pos \in Nat /\ o.pos < Len(o.slice) /\ Len(o.slice) \in Nat
      /\ v \in [1..Len(o.slice) -> Nat] /\ v[p] = active[o.slice[p]]
  BY <1>1 DEF Request, IInv, OthersTyped, Counts
<1>3. o.pos > 0 => FirstLeast(v, o.pos, o.index, o.least)
  BY <1>1 DEF CalmInv, BestAt, BestUpTo, At
<1>4. UNCHANGED active /\ req'[c] = IF p = 1 \/ v[p] < o.least
                                   THEN [o EXCEPT !.pos = p, !.index = p, !.least = v[p]]
                                   ELSE [o EXCEPT !.pos = p]
  BY <1>2 DEF LoadActive, IInv, RequestsFit
<1>5. IF p = 1 \/ v[p] < o.least THEN FirstLeast(v, p, p, v[p])
                                 ELSE FirstLeast(v, p, o.index, o.least)
  <2> HIDE DEF v
  <2>1. QED
    BY <1>2, <1>3, FirstLeastGrows
<1> HIDE DEF v
<1>6. /\ req'[c].stage = "choose" /\ req'[c].slice = o.slice /\ req'[c].pos = p
      /\ FirstLeast(v, p, req'[c].index, req'[c].least)
  <2>1. CASE p = 1 \/ v[p] < o.least
    BY <1>1, <1>4, <1>5, <2>1 DEF Request
  <2>2. CASE ~(p = 1 \/ v[p] < o.least)
    BY <1>1, <1>4, <1>5, <2>2 DEF Request
  <2>3. QED
    BY <2>1, <2>2
<1>7. Counts(c)' = v
  BY <1>4, <1>6 DEF Counts, v
<1>8. BestUpTo(c, req[c].pos)'
  BY <1>6, <1>7 DEF BestUpTo
<1>9. QED
  BY <1>6, <1>8 DEF BestAt, At

LEMMA CalmChooses ==
    ASSUME IInv, CalmInv, NEW c \in Conns, LeastConnections(c), calm[c]
    PROVE  BestAt(c)'
<1>1. /\ req[c] \in Request /\ req[c].stage = "choose" /\ algorithm = "least_connections"
      /\ req[c].pos = Len(req[c].slice) /\ req[c].index \in DOMAIN req[c].slice
  BY RequestFacts DEF LeastConnections, Pick, At
<1>2. req[c].slice \in Seq(Backends) /\ req[c].pos > 0
  BY <1>1 DEF Request
<1>3. BestUpTo(c, Len(req[c].slice))
  BY <1>1, <1>2 DEF CalmInv, BestAt, At
<1>4. UNCHANGED active
  BY DEF LeastConnections, Pick
<1>5. /\ req'[c].stage = "chosen" /\ req'[c].slice = req[c].slice
      /\ req'[c].index = req[c].index /\ req'[c].least = req[c].least
  BY <1>1 DEF LeastConnections, Pick, IInv, RequestsFit, Request
<1>6. Counts(c)' = Counts(c)
  BY <1>4, <1>5 DEF Counts
<1>7. QED
  BY <1>3, <1>5, <1>6 DEF BestAt, BestUpTo, At

LEMMA CalmInvariant == Spec => []CalmInv
<1>1. Init => CalmInv
  BY DEF Init, CalmInv
<1>2. IInv /\ CalmInv /\ [Next]_vars => CalmInv'
  <2> SUFFICES ASSUME IInv, CalmInv, [Next]_vars PROVE CalmInv'
    OBVIOUS
  <2> DEFINE Alone(c) == \A d \in Conns \ {c} : req'[d] = req[d] /\ calm'[d] = calm[d]
  <2>1. ASSUME NEW c \in Conns, NEW g, NEW n, Count(g, n), UNCHANGED algorithm PROVE CalmInv'
    BY <2>1 DEF Count, CalmInv
  <2>2. ASSUME NEW c \in Conns, UNCHANGED <<algorithm, active, calm>>, NEW r,
               req' = [req EXCEPT ![c] = r], r.stage \notin {"choose", "chosen"}
        PROVE  CalmInv'
    <3>1. Alone(c) /\ req'[c] = r
      BY <2>2 DEF IInv, RequestsFit
    <3>2. BestAt(c)'
      BY <2>2, <3>1 DEF BestAt, At
    <3>3. QED
      BY <2>2, <3>1, <3>2, CalmStep
  <2>3. ASSUME NEW c \in Conns, Hangup(c) \/ \E status : Reply(c, status),
               UNCHANGED <<algorithm, active, calm>>
        PROVE  CalmInv'
    <3>1. CASE Hangup(c)
      BY <2>2, <2>3, <3>1 DEF Hangup, NoRequest
    <3>2. ASSUME NEW status, Reply(c, status) PROVE CalmInv'
      <4> DEFINE r == [NoRequest EXCEPT !.stage = "idle", !.status = status]
      <4>1. r.stage = "idle" /\ req' = [req EXCEPT ![c] = r]
        BY <3>2 DEF Reply, NoRequest
      <4> HIDE DEF r
      <4>2. QED
        BY <2>2, <2>3, <4>1
    <3>3. QED
      BY <2>3, <3>1, <3>2
  <2>4. ASSUME NEW c \in Conns, Accept(c) PROVE CalmInv'
    <3> DEFINE r == [req[c] EXCEPT !.stage = "idle"]
    <3>1. r.stage = "idle" /\ req' = [req EXCEPT ![c] = r] /\ UNCHANGED <<algorithm, active, calm>>
      BY <2>4 DEF Accept, IInv, RequestsFit, Request
    <3> HIDE DEF r
    <3>2. QED
      BY <2>2, <3>1
  <2>5. ASSUME NEW c \in Conns, TakeSnapshot(c) PROVE CalmInv'
    <3>1. Alone(c) /\ UNCHANGED <<algorithm, active>>
      BY <2>5 DEF TakeSnapshot, IInv, RequestsFit, OthersTyped
    <3>2. req'[c].stage = "choose" /\ req'[c].pos = 0
      BY <2>5 DEF TakeSnapshot, IInv, RequestsFit, NoRequest
    <3>3. BestAt(c)'
      BY <3>2 DEF BestAt, At
    <3>4. QED
      BY <3>1, <3>3, CalmStep
  <2>6. ASSUME NEW c \in Conns, RoundRobin(c) \/ Random(c) \/ IpHash(c) \/ WeightedRoundRobin(c)
        PROVE  CalmInv'
    BY <2>6 DEF RoundRobin, Random, IpHash, WeightedRoundRobin, Pick, CalmInv
  <2>7. ASSUME NEW c \in Conns, LeastConnections(c) PROVE CalmInv'
    <3>1. Alone(c) /\ UNCHANGED <<algorithm, active, calm>>
      BY <2>7 DEF LeastConnections, Pick, IInv, RequestsFit
    <3>2. QED
      BY <2>7, <3>1, CalmChooses, CalmStep
  <2>8. ASSUME NEW c \in Conns, LoadActive(c) PROVE CalmInv'
    <3>1. Alone(c) /\ UNCHANGED <<algorithm, active, calm>>
      BY <2>8 DEF LoadActive, IInv, RequestsFit
    <3>2. QED
      BY <2>8, <3>1, CalmLoads, CalmStep
  <2>9. ASSUME NEW c \in Conns,
               NoneHealthy(c) \/ SelectPanics(c) \/ BadTarget(c) \/ EndStream(c) \/ Leave(c)
        PROVE  CalmInv'
    BY <2>3, <2>9 DEF NoneHealthy, SelectPanics, BadTarget, EndStream, Leave
  <2>10. ASSUME NEW c \in Conns, Forward(c) \/ Return(c) \/ LeaveWaiting(c) PROVE CalmInv'
    BY <2>1, <2>10 DEF Forward, Return, LeaveWaiting
  <2>11. ASSUME NEW c \in Conns, NEW status, Answered(c, status) PROVE CalmInv'
    <3>1. Alone(c) /\ UNCHANGED <<algorithm, active, calm>>
      BY <2>11 DEF Answered, IInv, RequestsFit
    <3>2. req'[c].stage = "recorded"
      BY <2>11 DEF Answered, IInv, RequestsFit, Request
    <3>3. BestAt(c)'
      BY <3>2 DEF BestAt, At
    <3>4. QED
      BY <3>1, <3>3, CalmStep
  <2>12. ASSUME UNCHANGED <<algorithm, active, req, calm>> PROVE CalmInv'
    BY <2>12 DEF CalmInv, BestAt, BestUpTo, Counts, At
  <2>13. QED
    BY <2>4, <2>5, <2>6, <2>7, <2>8, <2>9, <2>10, <2>11, <2>12
    DEF Next, Handle, PoolChanges, vars
<1>3. QED
  BY <1>1, <1>2, Invariant, PTL DEF Spec

\* A least-connections choice during which no counter has changed is the first
\* backend with the fewest, for any number of backends (least_connections.rs, select).
THEOREM ProxyLeastWhenCalm == Spec => []LeastWhenCalm
<1>1. IInv /\ CalmInv => LeastWhenCalm
  <2> SUFFICES ASSUME IInv, CalmInv, NEW c \in Conns,
                      algorithm = "least_connections", At(c, "chosen"), calm[c],
                      NEW p \in DOMAIN req[c].slice
               PROVE  /\ active[Chosen(c)] <= active[req[c].slice[p]]
                      /\ p < req[c].index => active[Chosen(c)] < active[req[c].slice[p]]
    BY DEF LeastWhenCalm
  <2>1. FirstLeast(Counts(c), Len(req[c].slice), req[c].index, req[c].least)
    BY DEF CalmInv, BestAt, BestUpTo
  <2>2. DOMAIN req[c].slice = 1..Len(req[c].slice)
    BY RequestFacts DEF Request
  <2>3. \A q \in DOMAIN req[c].slice : Counts(c)[q] = active[req[c].slice[q]]
    BY DEF Counts
  <2>4. req[c].least = active[Chosen(c)]
    BY <2>1, <2>2, <2>3 DEF FirstLeast, Chosen
  <2>5. req[c].least <= Counts(c)[p] /\ (p < req[c].index => req[c].least < Counts(c)[p])
    BY <2>1, <2>2 DEF FirstLeast
  <2>6. QED
    BY <2>3, <2>4, <2>5
<1>2. QED
  BY Invariant, CalmInvariant, <1>1, PTL
=================================================================================
