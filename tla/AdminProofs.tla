------------------------------ MODULE AdminProofs ------------------------------
(***************************************************************************)
(* Theorems about module Admin, for any registry, any number of recording  *)
(* tasks and of connections, and any order of gathering.                   *)
(***************************************************************************)
EXTENDS Admin, SetLemmas, TLAPS

(***************************************************************************)
(* The registry.                                                           *)
(***************************************************************************)
LEMMA SeriesFacts ==
    /\ Counters \cap Gauges = {} /\ Counters \subseteq Series /\ Gauges \subseteq Series
    /\ \A b \in Labels, s \in Statuses : RequestsTotal(b, s) \in Counters
    /\ \A b \in Labels : RequestDuration(b) \in Counters /\ BackendHealth(b) \in Gauges
    /\ \A result \in ReloadResults : ConfigReloadTotal(result) \in Counters
    /\ ActiveConnections \in Gauges
<1>1. Counters \cap Gauges = {}
  BY DEF Counters, Gauges, RequestsTotal, RequestDuration, ConfigReloadTotal,
         ActiveConnections, BackendHealth, BackendsTotal
<1>2. QED
  BY <1>1 DEF Counters, Gauges, Series

\* The two kinds of updates.
LEMMA CounterGrows ==
    ASSUME registry \in [Series -> Nat], NEW series \in Counters,
           registry' = [registry EXCEPT ![series] = registry[series] + 1]
    PROVE  registry' \in [Series -> Nat] /\ \A x \in Counters : registry[x] <= registry'[x]
<1>1. \A x \in Counters : x \in Series /\ registry[x] \in Nat
  BY SeriesFacts
<1>2. QED
  BY <1>1

LEMMA GaugeSet ==
    ASSUME registry \in [Series -> Nat], NEW series \in Gauges, NEW value \in Nat,
           registry' = [registry EXCEPT ![series] = value]
    PROVE  registry' \in [Series -> Nat] /\ \A x \in Counters : registry[x] <= registry'[x]
<1>1. \A x \in Counters : x \in Series /\ registry[x] \in Nat /\ x # series
  BY SeriesFacts
<1>2. QED
  BY <1>1, SeriesFacts

\* What a step of the recording tasks does to the registry.
LEMMA RegistryGrows ==
    ASSUME MetricsTypeOK, MetricsNext
    PROVE  MetricsTypeOK' /\ \A series \in Counters : registry[series] <= registry'[series]
<1> DEFINE Grows == /\ registry' \in [Series -> Nat]
                    /\ \A x \in Counters : registry[x] <= registry'[x]
<1>1. registry \in [Series -> Nat]
  BY DEF MetricsTypeOK
<1>2. ASSUME Grows, recording' \in [Recorders -> Labels \cup {"idle"}], updates' \in 0..MaxUpdates
      PROVE  MetricsTypeOK' /\ Grows
  BY <1>2 DEF MetricsTypeOK
<1>3. ASSUME NEW series, NEW value, Update(series, value) PROVE updates' \in 0..MaxUpdates
  BY <1>3, MetricsAssumption DEF Update, MetricsTypeOK
<1>4. recording \in [Recorders -> Labels \cup {"idle"}] /\ updates \in 0..MaxUpdates
  BY DEF MetricsTypeOK
<1> HIDE DEF Grows
<1>5. ASSUME NEW series \in Counters, Update(series, registry[series] + 1) PROVE Grows
  BY <1>1, <1>5, CounterGrows DEF Update, Grows
<1>6. ASSUME NEW series \in Gauges, NEW value \in Nat, Update(series, value) PROVE Grows
  BY <1>1, <1>6, GaugeSet DEF Update, Grows
<1>7. ASSUME NEW r \in Recorders, NEW b \in Labels, NEW s \in Statuses, CountRequest(r, b, s)
      PROVE  MetricsTypeOK' /\ Grows
  <2>1. recording' \in [Recorders -> Labels \cup {"idle"}]
    BY <1>4, <1>7 DEF CountRequest
  <2>2. RequestsTotal(b, s) \in Counters
    BY SeriesFacts
  <2>3. Update(RequestsTotal(b, s), registry[RequestsTotal(b, s)] + 1)
    BY <1>7 DEF CountRequest
  <2>4. QED
    BY <1>2, <1>3, <1>5, <2>1, <2>2, <2>3
<1>8. ASSUME NEW r \in Recorders, ObserveDuration(r) PROVE MetricsTypeOK' /\ Grows
  <2> DEFINE d == RequestDuration(recording[r])
  <2>1. d \in Counters
    BY <1>4, <1>8, SeriesFacts DEF ObserveDuration
  <2>2. registry' = [registry EXCEPT ![d] = registry[d] + 1]
    BY <1>8 DEF ObserveDuration
  <2> HIDE DEF d
  <2>3. Grows
    BY <1>1, <2>1, <2>2, CounterGrows DEF Grows
  <2>4. recording' \in [Recorders -> Labels \cup {"idle"}] /\ updates' = updates
    BY <1>4, <1>8 DEF ObserveDuration
  <2>5. QED
    BY <1>2, <1>4, <2>3, <2>4
<1>9. ASSUME NEW result \in ReloadResults, RecordConfigReload(result) PROVE MetricsTypeOK' /\ Grows
  <2>1. ConfigReloadTotal(result) \in Counters
    BY SeriesFacts
  <2>2. QED
    BY <1>2, <1>3, <1>4, <1>5, <1>9, <2>1 DEF RecordConfigReload
<1>10. ASSUME NEW count \in ActiveCounts, SetActiveConnections(count) PROVE MetricsTypeOK' /\ Grows
  <2>1. ActiveConnections \in Gauges /\ count \in Nat
    BY SeriesFacts, MetricsAssumption
  <2>2. QED
    BY <1>2, <1>3, <1>4, <1>6, <1>10, <2>1 DEF SetActiveConnections
<1>11. ASSUME NEW b \in Labels, NEW healthy \in BOOLEAN, SetBackendHealth(b, healthy)
      PROVE  MetricsTypeOK' /\ Grows
  <2>1. BackendHealth(b) \in Gauges /\ (IF healthy THEN 1 ELSE 0) \in Nat
    BY SeriesFacts
  <2>2. QED
    BY <1>2, <1>3, <1>4, <1>6, <1>11, <2>1 DEF SetBackendHealth
<1>12. QED
  BY <1>7, <1>8, <1>9, <1>10, <1>11 DEF MetricsNext, Grows

---------------------------------------------------------------------------------
(***************************************************************************)
(* The server.  A scrape under way has seen, in since, no counter above    *)
(* its value now.                                                          *)
(***************************************************************************)
FamilyPages == UNION {[F -> Nat] : F \in SUBSET Counters}

ConnTyped ==
    /\ page \in [Conns -> Seq(FamilyPages)]
    /\ since = [k \in Conns |-> since[k]]
    /\ reply = [k \in Conns |-> reply[k]]

ScrapeBegan ==
    \A k \in Conns : At(k, "metrics") =>
        \A series \in Counters : since[k][series] \in Nat /\ since[k][series] <= registry[series]

IInv == TypeOK /\ ConnTyped /\ ScrapeBegan /\ ScrapeBracketed

\* Whatever happens to the backlog, the connections that are served stay where they are.
LEMMA BacklogFacts ==
    ASSUME NEW conns \in [Conns -> ConnStages], NEW l, NEW held
    PROVE  /\ BacklogAfter(l, held, conns) \in [Conns -> ConnStages]
           /\ \A k \in Conns : \A s \in ConnStages \ {"none", "backlog"} :
                 BacklogAfter(l, held, conns)[k] = s <=> conns[k] = s
BY DEF BacklogAfter, ConnStages

LEMMA ValuesFacts ==
    ASSUME MetricsTypeOK, NEW family
    PROVE  /\ ValuesOf(family) \in FamilyPages
           /\ DOMAIN ValuesOf(family) \subseteq Counters
           /\ \A series \in DOMAIN ValuesOf(family) :
                 /\ ValuesOf(family)[series] = registry[series]
                 /\ registry[series] \in Nat
<1> DEFINE F == {x \in Counters : x[1] = family}
<1>1. F \in SUBSET Counters /\ \A x \in F : registry[x] \in Nat
  BY SeriesFacts DEF MetricsTypeOK
<1>2. ValuesOf(family) = [x \in F |-> registry[x]]
  BY DEF ValuesOf
<1> HIDE DEF F
<1>3. ValuesOf(family) \in [F -> Nat]
  BY <1>1, <1>2
<1>4. QED
  BY <1>1, <1>2, <1>3 DEF FamilyPages

LEMMA InitInvariant == Init => IInv
<1> SUFFICES ASSUME Init PROVE IInv
  OBVIOUS
<1>1. MetricsTypeOK
  BY MetricsAssumption DEF Init, MetricsInit, MetricsTypeOK
<1>2. /\ rotation \in SUBSET Backends /\ cancelled \in BOOLEAN /\ loop = "running"
      /\ conn = [k \in Conns |-> "none"] /\ seen = [k \in Conns |-> {}]
      /\ page = [k \in Conns |-> <<>>] /\ reply = [k \in Conns |-> Nothing]
      /\ since = [k \in Conns |-> <<>>]
  BY DEF Init, Env!Init, NoPage
<1>3. TypeOK
  BY <1>1, <1>2 DEF TypeOK, ConnStages, Nothing, Paths, At
<1>4. ConnTyped
  <2>1. <<>> \in Seq(FamilyPages)
    OBVIOUS
  <2>2. QED
    BY <1>2, <2>1 DEF ConnTyped
<1>5. ScrapeBegan /\ ScrapeBracketed
  BY <1>2 DEF ScrapeBegan, ScrapeBracketed, At
<1>6. QED
  BY <1>3, <1>4, <1>5 DEF IInv

\* A step that moves connections about, and leaves the pages and the registry alone.
LEMMA MovesOnly ==
    ASSUME IInv, UNCHANGED <<metricVars, page, since, reply>>,
           rotation' \in SUBSET Backends, cancelled' \in BOOLEAN,
           loop' \in {"running", "stopped", "panicked"},
           conn' \in [Conns -> ConnStages], seen' \in [Conns -> SUBSET Backends],
           \A k \in Conns : \A s \in {"metrics", "reply"} : conn'[k] = s <=> conn[k] = s
    PROVE  IInv'
<1>1. MetricsTypeOK'
  BY DEF IInv, TypeOK, MetricsTypeOK, metricVars
<1>2. \A k \in Conns : (At(k, "reply")' <=> At(k, "reply")) /\ (At(k, "metrics")' <=> At(k, "metrics"))
  BY DEF At
<1>3. TypeOK'
  BY <1>1, <1>2 DEF IInv, TypeOK
<1>4. ScrapeBegan' /\ ScrapeBracketed' /\ ConnTyped'
  BY <1>2 DEF IInv, ScrapeBegan, ScrapeBracketed, ConnTyped, metricVars
<1>5. QED
  BY <1>3, <1>4 DEF IInv

LEMMA ConnectStep ==
    ASSUME IInv, NEW k \in Conns, Connect(k) \/ Accept(k) \/ RequestReadyz(k)
    PROVE  IInv'
<1>1. PICK s \in {"backlog", "idle", "readyz"} :
        conn' = [conn EXCEPT ![k] = s] /\ conn[k] \in {"none", "backlog", "idle"}
  BY DEF Connect, Accept, RequestReadyz, At
<1>2. UNCHANGED <<metricVars, serverVars, page, since, reply>>
  BY DEF Connect, Accept, RequestReadyz
<1>3. seen' \in [Conns -> SUBSET Backends]
  BY DEF Connect, Accept, RequestReadyz, IInv, TypeOK
<1>4. conn' \in [Conns -> ConnStages]
      /\ \A d \in Conns : \A x \in {"metrics", "reply"} : conn'[d] = x <=> conn[d] = x
  BY <1>1 DEF IInv, TypeOK, ConnStages
<1>5. QED
  BY <1>2, <1>3, <1>4, MovesOnly DEF serverVars, IInv, TypeOK

LEMMA LoopStep ==
    ASSUME IInv, AcceptFails \/ Stop
    PROVE  IInv'
<1>1. PICK end \in {"panicked", "stopped"} : EndLoop(end)
  BY DEF AcceptFails, Stop
<1>2. conn' = BacklogAfter(end, Held, conn) /\ conn \in [Conns -> ConnStages]
  BY <1>1 DEF EndLoop, IInv, TypeOK
<1>3. conn' \in [Conns -> ConnStages]
      /\ \A d \in Conns : \A x \in {"metrics", "reply"} : conn'[d] = x <=> conn[d] = x
  BY <1>2, BacklogFacts DEF ConnStages
<1>4. UNCHANGED <<metricVars, rotation, cancelled, seen, page, since, reply>> /\ loop' = end
  BY <1>1 DEF EndLoop
<1>5. QED
  BY <1>3, <1>4, MovesOnly DEF IInv, TypeOK

LEMMA CloseStep ==
    ASSUME IInv, NEW k \in Conns, Close(k)
    PROVE  IInv'
<1> DEFINE conns == [conn EXCEPT ![k] = "none"]
<1>1. conns \in [Conns -> ConnStages] /\ conn[k] \in {"backlog", "idle"}
  BY DEF Close, IInv, TypeOK, ConnStages
<1>2. \A d \in Conns : \A x \in {"metrics", "reply"} : conns[d] = x <=> conn[d] = x
  BY <1>1 DEF IInv, TypeOK
<1>3. conn' = BacklogAfter(loop, Held \ {k}, conns)
  BY DEF Close
<1> HIDE DEF conns
<1>4. conn' \in [Conns -> ConnStages]
      /\ \A d \in Conns : \A x \in {"metrics", "reply"} : conn'[d] = x <=> conn[d] = x
  BY <1>1, <1>2, <1>3, BacklogFacts DEF ConnStages
<1>5. UNCHANGED <<metricVars, serverVars, seen, page, since, reply>>
  BY DEF Close
<1>6. QED
  BY <1>4, <1>5, MovesOnly DEF serverVars, IInv, TypeOK

\* What TypeOK says of the reply to a connection and the length of its page.
PageFits(k) ==
    /\ reply[k].path \in Paths <=> At(k, "reply")
    /\ Len(page[k]) =
          IF reply[k].path = "/metrics" THEN Len(GatherOrder)
          ELSE IF At(k, "metrics") THEN Len(page[k]) ELSE 0

\* A handler answers a request whose page has the length that the path calls for.
LEMMA RespondStep ==
    ASSUME IInv, NEW k \in Conns, NEW path \in Paths, NEW status, Respond(k, path, status),
           conn[k] # "reply",
           Len(page[k]) = IF path = "/metrics" THEN Len(GatherOrder) ELSE 0,
           UNCHANGED <<metricVars, serverVars, page, since>>,
           seen' \in [Conns -> SUBSET Backends]
    PROVE  IInv'
<1>1. /\ conn' = [conn EXCEPT ![k] = "reply"]
      /\ reply' = [reply EXCEPT ![k] = [path |-> path, status |-> status]]
  BY DEF Respond
<1>2. conn' \in [Conns -> ConnStages] /\ reply' = [d \in Conns |-> reply'[d]]
  BY <1>1 DEF IInv, TypeOK, ConnStages, ConnTyped
<1>3. \A d \in Conns \ {k} : conn'[d] = conn[d] /\ reply'[d] = reply[d]
  BY <1>1 DEF IInv, TypeOK, ConnTyped
<1>4. conn'[k] = "reply" /\ reply'[k].path = path
  BY <1>1 DEF IInv, TypeOK, ConnTyped
<1>5. MetricsTypeOK' /\ UNCHANGED <<registry, rotation, cancelled, loop>>
  BY DEF IInv, TypeOK, MetricsTypeOK, metricVars, serverVars
<1>6. \A d \in Conns : PageFits(d)'
  <2>1. \A d \in Conns \ {k} : PageFits(d)'
    BY <1>3 DEF PageFits, IInv, TypeOK, At
  <2>2. PageFits(k)'
    BY <1>4 DEF PageFits, At
  <2>3. QED
    BY <2>1, <2>2
<1>7. TypeOK'
  BY <1>2, <1>5, <1>6 DEF IInv, TypeOK, PageFits
<1>8. ConnTyped' /\ ScrapeBracketed'
  BY <1>2, <1>5 DEF IInv, ConnTyped, ScrapeBracketed
<1>9. ScrapeBegan'
  BY <1>3, <1>4, <1>5 DEF IInv, ScrapeBegan, At
<1>10. QED
  BY <1>7, <1>8, <1>9 DEF IInv

LEMMA AnswerStep ==
    ASSUME IInv, NEW k \in Conns, Livez(k) \/ NotFound(k) \/ AnswerReadyz(k) \/ AnswerMetrics(k)
    PROVE  IInv'
<1>1. seen' \in [Conns -> SUBSET Backends] /\ UNCHANGED <<metricVars, serverVars, page, since>>
  BY DEF Livez, NotFound, AnswerReadyz, AnswerMetrics, IInv, TypeOK
<1>2. PageFits(k)
  BY DEF IInv, TypeOK, PageFits
<1>3. CASE AnswerMetrics(k)
  BY <1>1, <1>3, RespondStep DEF AnswerMetrics, At, Paths
<1>4. CASE Livez(k) \/ NotFound(k) \/ AnswerReadyz(k)
  <2>1. conn[k] \notin {"reply", "metrics"} /\ Len(page[k]) = 0
    BY <1>2, <1>4 DEF Livez, NotFound, AnswerReadyz, PageFits, At, Paths
  <2>2. PICK path \in {"/livez", "/other", "/readyz"}, status \in {200, 404, 503} :
            Respond(k, path, status)
    BY <1>4 DEF Livez, NotFound, AnswerReadyz
  <2>3. QED
    BY <1>1, <2>1, <2>2, RespondStep DEF Paths
<1>5. QED
  BY <1>3, <1>4

LEMMA RequestMetricsStep ==
    ASSUME IInv, NEW k \in Conns, RequestMetrics(k)
    PROVE  IInv'
<1>1. /\ conn[k] = "idle" /\ conn' = [conn EXCEPT ![k] = "metrics"]
      /\ since' = [since EXCEPT ![k] = [series \in Counters |-> registry[series]]]
      /\ UNCHANGED <<metricVars, serverVars, seen, page, reply>>
  BY DEF RequestMetrics, At
<1>2. conn' \in [Conns -> ConnStages] /\ since' = [d \in Conns |-> since'[d]]
  BY <1>1 DEF IInv, TypeOK, ConnStages, ConnTyped
<1>3. \A d \in Conns \ {k} : conn'[d] = conn[d] /\ since'[d] = since[d]
  BY <1>1 DEF IInv, TypeOK, ConnTyped
<1>4. conn'[k] = "metrics" /\ since'[k] = [series \in Counters |-> registry[series]]
  BY <1>1 DEF IInv, TypeOK, ConnTyped
<1>5. MetricsTypeOK' /\ UNCHANGED <<registry, rotation, cancelled, loop>>
  BY <1>1 DEF IInv, TypeOK, MetricsTypeOK, metricVars, serverVars
<1>6. Len(page[k]) = 0 /\ reply[k].path \notin Paths
  BY <1>1 DEF IInv, TypeOK, At, Paths
<1>7. \A d \in Conns : PageFits(d)'
  <2>1. \A d \in Conns \ {k} : PageFits(d)'
    BY <1>1, <1>3 DEF PageFits, IInv, TypeOK, At
  <2>2. PageFits(k)'
    BY <1>1, <1>4, <1>6 DEF PageFits, At, Paths
  <2>3. QED
    BY <2>1, <2>2
<1>8. TypeOK'
  BY <1>1, <1>2, <1>5, <1>7 DEF IInv, TypeOK, PageFits
<1>9. ConnTyped'
  BY <1>1, <1>2 DEF IInv, ConnTyped
<1>10. ScrapeBegan'
  <2>1. \A series \in Counters : registry[series] \in Nat
    BY SeriesFacts DEF IInv, TypeOK, MetricsTypeOK
  <2>2. QED
    BY <1>3, <1>4, <1>5, <2>1 DEF IInv, ScrapeBegan, At
<1>11. ScrapeBracketed'
  <2>1. page[k] = <<>>
    BY <1>6 DEF IInv, ConnTyped
  <2>2. QED
    BY <1>1, <1>3, <1>5, <2>1 DEF IInv, ScrapeBracketed
<1>12. QED
  BY <1>8, <1>9, <1>10, <1>11 DEF IInv

LEMMA GatherFamilyStep ==
    ASSUME IInv, NEW k \in Conns, GatherFamily(k)
    PROVE  IInv'
<1> DEFINE values == ValuesOf(GatherOrder[Len(page[k]) + 1])
<1>1. /\ conn[k] = "metrics" /\ page' = [page EXCEPT ![k] = Append(page[k], values)]
      /\ UNCHANGED <<metricVars, serverVars, conn, seen, since, reply>>
  BY DEF GatherFamily, At
<1>2. /\ values \in FamilyPages /\ DOMAIN values \subseteq Counters
      /\ \A series \in DOMAIN values :
            values[series] = registry[series] /\ registry[series] \in Nat
  BY ValuesFacts DEF IInv, TypeOK
<1> HIDE DEF values
<1>3. page[k] \in Seq(FamilyPages) /\ Append(page[k], values) \in Seq(FamilyPages)
  BY <1>2 DEF IInv, ConnTyped
<1>4. page' \in [Conns -> Seq(FamilyPages)] /\ page'[k] = Append(page[k], values)
      /\ \A d \in Conns \ {k} : page'[d] = page[d]
  BY <1>1, <1>3 DEF IInv, ConnTyped
<1>5. MetricsTypeOK' /\ UNCHANGED <<registry, rotation, cancelled, loop>>
  BY <1>1 DEF IInv, TypeOK, MetricsTypeOK, metricVars, serverVars
<1>6. reply[k].path \notin Paths
  BY <1>1 DEF IInv, TypeOK, At
<1>7. \A d \in Conns : PageFits(d)'
  <2>1. \A d \in Conns \ {k} : PageFits(d)'
    BY <1>1, <1>4 DEF PageFits, IInv, TypeOK, At
  <2>2. PageFits(k)'
    BY <1>1, <1>6 DEF PageFits, At, Paths
  <2>3. QED
    BY <2>1, <2>2
<1>8. TypeOK'
  BY <1>1, <1>5, <1>7 DEF IInv, TypeOK, PageFits
<1>9. ConnTyped' /\ ScrapeBegan'
  BY <1>1, <1>4, <1>5 DEF IInv, ConnTyped, ScrapeBegan, At
<1>10. ScrapeBracketed'
  <2> SUFFICES ASSUME NEW d \in Conns, NEW i \in DOMAIN page'[d], NEW series \in DOMAIN page'[d][i]
               PROVE  /\ since[d][series] <= page'[d][i][series]
                      /\ page'[d][i][series] <= registry[series]
    BY <1>1, <1>5 DEF ScrapeBracketed
  <2>1. CASE d = k /\ i = Len(page[k]) + 1
    <3>1. page'[d][i] = values
      BY <1>3, <1>4, <2>1
    <3>2. since[k][series] <= registry[series]
      BY <1>1, <1>2, <3>1 DEF IInv, ScrapeBegan, At
    <3>3. QED
      BY <1>2, <2>1, <3>1, <3>2
  <2>2. CASE ~(d = k /\ i = Len(page[k]) + 1)
    <3>1. i \in DOMAIN page[d] /\ page'[d][i] = page[d][i]
      BY <1>3, <1>4, <2>2
    <3>2. QED
      BY <3>1 DEF IInv, ScrapeBracketed
  <2>3. QED
    BY <2>1, <2>2
<1>11. QED
  BY <1>8, <1>9, <1>10 DEF IInv

LEMMA DeliverStep ==
    ASSUME IInv, NEW k \in Conns, Deliver(k)
    PROVE  IInv'
<1>1. /\ conn' = [conn EXCEPT ![k] = "idle"] /\ page' = [page EXCEPT ![k] = <<>>]
      /\ since' = [since EXCEPT ![k] = <<>>] /\ reply' = [reply EXCEPT ![k] = Nothing]
      /\ UNCHANGED <<metricVars, serverVars, seen>>
  BY DEF Deliver, NoPage
<1>2. conn' \in [Conns -> ConnStages]
  BY <1>1 DEF IInv, TypeOK, ConnStages
<1>3. ConnTyped'
  <2>1. <<>> \in Seq(FamilyPages)
    OBVIOUS
  <2>2. QED
    BY <1>1, <2>1 DEF IInv, ConnTyped
<1>4. \A d \in Conns \ {k} :
        conn'[d] = conn[d] /\ page'[d] = page[d] /\ since'[d] = since[d] /\ reply'[d] = reply[d]
  BY <1>1 DEF IInv, TypeOK, ConnTyped
<1>5. conn'[k] = "idle" /\ page'[k] = <<>> /\ reply'[k].path = ""
  BY <1>1 DEF IInv, TypeOK, ConnTyped, Nothing
<1>6. MetricsTypeOK' /\ UNCHANGED <<registry, rotation, cancelled, loop>>
  BY <1>1 DEF IInv, TypeOK, MetricsTypeOK, metricVars, serverVars
<1>7. \A d \in Conns : PageFits(d)'
  <2>1. \A d \in Conns \ {k} : PageFits(d)'
    BY <1>4 DEF PageFits, IInv, TypeOK, At
  <2>2. PageFits(k)'
    BY <1>5 DEF PageFits, At, Paths
  <2>3. QED
    BY <2>1, <2>2
<1>8. TypeOK'
  BY <1>1, <1>2, <1>6, <1>7 DEF IInv, TypeOK, PageFits
<1>9. ScrapeBegan'
  BY <1>4, <1>5, <1>6 DEF IInv, ScrapeBegan, At
<1>10. ScrapeBracketed'
  <2> SUFFICES ASSUME NEW d \in Conns, NEW i \in DOMAIN page'[d], NEW series \in DOMAIN page'[d][i]
               PROVE  /\ since'[d][series] <= page'[d][i][series]
                      /\ page'[d][i][series] <= registry[series]
    BY <1>6 DEF ScrapeBracketed
  <2>1. DOMAIN page'[k] = {}
    <3>1. page'[k] \in Seq(FamilyPages) /\ Len(page'[k]) = 0
      BY <1>3, <1>5 DEF ConnTyped
    <3>2. QED
      BY <3>1
  <2>2. d # k
    BY <2>1
  <2>3. QED
    BY <1>4, <2>2 DEF IInv, ScrapeBracketed
<1>11. QED
  BY <1>3, <1>8, <1>9, <1>10 DEF IInv

LEMMA RecordedStep ==
    ASSUME IInv, Recorded
    PROVE  IInv'
<1>1. /\ MetricsTypeOK' /\ UNCHANGED <<rotation, cancelled, loop, conn, seen, page, since, reply>>
      /\ \A series \in Counters : registry[series] <= registry'[series]
  BY RegistryGrows DEF Recorded, IInv, TypeOK, serverVars, connVars
<1>2. \A series \in Counters : registry[series] \in Nat /\ registry'[series] \in Nat
  BY <1>1, SeriesFacts DEF IInv, TypeOK, MetricsTypeOK
<1>3. TypeOK' /\ ConnTyped'
  BY <1>1 DEF IInv, TypeOK, ConnTyped, At
<1>4. ScrapeBegan'
  BY <1>1, <1>2 DEF IInv, ScrapeBegan, At
<1>5. ScrapeBracketed'
  <2> SUFFICES ASSUME NEW d \in Conns, NEW i \in DOMAIN page[d], NEW series \in DOMAIN page[d][i]
               PROVE  /\ since[d][series] <= page[d][i][series]
                      /\ page[d][i][series] <= registry'[series]
    BY <1>1 DEF ScrapeBracketed
  <2>1. page[d][i] \in FamilyPages
    BY DEF IInv, ConnTyped
  <2>2. series \in Counters /\ page[d][i][series] \in Nat
    BY <2>1 DEF FamilyPages
  <2>3. since[d][series] <= page[d][i][series] /\ page[d][i][series] <= registry[series]
    BY DEF IInv, ScrapeBracketed
  <2>4. registry[series] <= registry'[series]
    BY <1>1, <2>2
  <2>5. QED
    BY <1>2, <2>2, <2>3, <2>4
<1>6. QED
  BY <1>3, <1>4, <1>5 DEF IInv

LEMMA EnvironmentStep ==
    ASSUME IInv, Cancel \/ PoolChanges
    PROVE  IInv'
<1>1. /\ UNCHANGED <<metricVars, loop, connVars>>
      /\ rotation' \in SUBSET Backends /\ cancelled' \in BOOLEAN
  BY DEF Cancel, PoolChanges, Env!Next, Env!Enter, Env!Leave, IInv, TypeOK
<1>2. QED
  BY <1>1, MovesOnly DEF connVars, IInv, TypeOK

LEMMA NextInvariant == IInv /\ [Next]_vars => IInv'
<1> SUFFICES ASSUME IInv, [Next]_vars PROVE IInv'
  OBVIOUS
<1>1. ASSUME NEW k \in Conns, Connect(k) \/ Accept(k) \/ Close(k) PROVE IInv'
  BY <1>1, ConnectStep, CloseStep
<1>2. ASSUME NEW k \in Conns, Livez(k) \/ NotFound(k) \/ RequestReadyz(k) \/ RequestMetrics(k)
      PROVE  IInv'
  BY <1>2, AnswerStep, ConnectStep, RequestMetricsStep
<1>3. ASSUME NEW k \in Conns, Handle(k) PROVE IInv'
  BY <1>3, AnswerStep, GatherFamilyStep, DeliverStep DEF Handle
<1>4. CASE AcceptFails \/ Stop
  BY <1>4, LoopStep
<1>5. CASE Cancel \/ PoolChanges
  BY <1>5, EnvironmentStep
<1>6. CASE Recorded
  BY <1>6, RecordedStep
<1>7. CASE UNCHANGED vars
  <2>1. UNCHANGED <<metricVars, rotation, cancelled, loop, conn, seen, page, since, reply>>
    BY <1>7 DEF vars, serverVars, connVars
  <2>2. QED
    BY <2>1, MovesOnly DEF IInv, TypeOK
<1>8. QED
  BY <1>1, <1>2, <1>3, <1>4, <1>5, <1>6, <1>7 DEF Next

LEMMA Invariant == Spec => []IInv
<1>1. QED
  BY InitInvariant, NextInvariant, PTL DEF Spec

\* Every variable has its type in every reachable state, and pages are as long as
\* the registry has families (admin.rs, metrics.rs).
THEOREM AdminTypeCorrect == Spec => []TypeOK
<1>1. IInv => TypeOK
  BY DEF IInv
<1>2. QED
  BY Invariant, <1>1, PTL

\* Scraped counters lie between their values when the scrape began and now, for
\* any number of recording tasks and updates (metrics.rs, encode_metrics).
THEOREM AdminScrapeBracketed == Spec => []ScrapeBracketed
<1>1. IInv => ScrapeBracketed
  BY DEF IInv
<1>2. QED
  BY Invariant, <1>1, PTL

---------------------------------------------------------------------------------
(***************************************************************************)
(* The two families of a request.                                          *)
(***************************************************************************)
CountOf(b) == [s \in Statuses |-> registry[RequestsTotal(b, s)]]
RecordersOf(b) == {r \in Recorders : recording[r] = b}

LEMMA SeriesDiffer ==
    /\ \A b, c, s, t : RequestsTotal(b, s) = RequestsTotal(c, t) => b = c /\ s = t
    /\ \A b, c : RequestDuration(b) = RequestDuration(c) => b = c
    /\ \A b, c, s : RequestsTotal(b, s) # RequestDuration(c)
    /\ \A result, b, s : ConfigReloadTotal(result) \notin {RequestsTotal(b, s), RequestDuration(b)}
BY DEF RequestsTotal, RequestDuration, ConfigReloadTotal

\* A step that leaves both families of b and its recorders alone.
LEMMA PairUntouched ==
    ASSUME NEW b,
           \A s \in Statuses : registry'[RequestsTotal(b, s)] = registry[RequestsTotal(b, s)],
           registry'[RequestDuration(b)] = registry[RequestDuration(b)],
           RecordersOf(b)' = RecordersOf(b),
           SumFunction(CountOf(b)) = registry[RequestDuration(b)] + Cardinality(RecordersOf(b))
    PROVE  (SumFunction(CountOf(b)) = registry[RequestDuration(b)] + Cardinality(RecordersOf(b)))'
<1>1. CountOf(b)' = CountOf(b)
  BY DEF CountOf
<1>2. QED
  BY <1>1

\* The sum of a family with b's series for status t one higher.
LEMMA CountOneMore ==
    ASSUME MetricsTypeOK, NEW b \in Labels, NEW t \in Statuses,
           registry' = [registry EXCEPT ![RequestsTotal(b, t)] = @ + 1]
    PROVE  /\ SumFunction(CountOf(b)) \in Int
           /\ SumFunction(CountOf(b))' = SumFunction(CountOf(b)) + 1
<1> DEFINE f == CountOf(b)
           g == CountOf(b)'
<1>1. \A s \in Statuses : RequestsTotal(b, s) \in Series /\ registry[RequestsTotal(b, s)] \in Nat
  BY SeriesFacts DEF MetricsTypeOK
<1>2. g[t] = f[t] + 1 /\ \A s \in Statuses \ {t} : g[s] = f[s]
  BY <1>1, SeriesDiffer DEF MetricsTypeOK, CountOf
<1>3. DOMAIN f = Statuses /\ DOMAIN g = Statuses /\ \A s \in Statuses : f[s] \in Int
  BY <1>1 DEF CountOf
<1> HIDE DEF f, g
<1>4. IsFiniteSet(Statuses)
  BY MetricsAssumption
<1>5. g[t] \in Int /\ g[t] - f[t] = 1
  BY <1>2, <1>3
<1>6. SumFunctionOnSet(f, Statuses) \in Int
  BY <1>3, <1>4, SumIsInt
<1>7. SumFunctionOnSet(g, Statuses) = SumFunctionOnSet(f, Statuses) + 1
  BY <1>2, <1>3, <1>4, <1>5, SumChanges
<1>8. SumFunction(f) \in Int /\ SumFunction(g) = SumFunction(f) + 1
  BY <1>3, <1>6, <1>7 DEF SumFunction
<1>9. QED
  BY <1>8 DEF f, g

LEMMA RecordersCounted ==
    ASSUME NEW b PROVE IsFiniteSet(RecordersOf(b)) /\ Cardinality(RecordersOf(b)) \in Nat
<1>1. IsFiniteSet(RecordersOf(b))
  BY MetricsAssumption, FS_Subset DEF RecordersOf
<1>2. QED
  BY <1>1, FS_CardinalityType

LEMMA CountRequestPaired ==
    ASSUME MetricsTypeOK, RecordsPaired,
           NEW r \in Recorders, NEW c \in Labels, NEW t \in Statuses, CountRequest(r, c, t)
    PROVE  RecordsPaired'
<1> SUFFICES ASSUME NEW b \in Labels
             PROVE  (SumFunction(CountOf(b))
                        = registry[RequestDuration(b)] + Cardinality(RecordersOf(b)))'
  BY DEF RecordsPaired, CountOf, RecordersOf
<1>1. /\ registry' = [registry EXCEPT ![RequestsTotal(c, t)] = registry[RequestsTotal(c, t)] + 1]
      /\ recording' = [recording EXCEPT ![r] = c] /\ recording[r] = "idle"
  BY DEF CountRequest, Update
<1>2. /\ \A s \in Statuses : RequestsTotal(b, s) \in Series
      /\ RequestDuration(b) \in Series /\ registry[RequestDuration(b)] \in Nat
      /\ RequestsTotal(c, t) \in Series
  BY SeriesFacts DEF MetricsTypeOK
<1>3. registry'[RequestDuration(b)] = registry[RequestDuration(b)]
  BY <1>1, <1>2, SeriesDiffer DEF MetricsTypeOK
<1>4. SumFunction(CountOf(b)) = registry[RequestDuration(b)] + Cardinality(RecordersOf(b))
  BY DEF RecordsPaired, CountOf, RecordersOf
<1>5. CASE b = c
  <2>1. r \notin RecordersOf(b) /\ RecordersOf(b)' = RecordersOf(b) \cup {r}
    BY <1>1, <1>5, MetricsAssumption DEF RecordersOf, MetricsTypeOK
  <2>2. Cardinality(RecordersOf(b)') = Cardinality(RecordersOf(b)) + 1
    BY <2>1, RecordersCounted, FS_AddElement
  <2>3. SumFunction(CountOf(b))' = SumFunction(CountOf(b)) + 1
    BY <1>1, <1>5, CountOneMore
  <2>4. QED
    BY <1>2, <1>3, <1>4, <2>2, <2>3, RecordersCounted
<1>6. CASE b # c
  <2>1. RecordersOf(b)' = RecordersOf(b)
    BY <1>1, <1>6, MetricsAssumption DEF RecordersOf, MetricsTypeOK
  <2>2. \A s \in Statuses : registry'[RequestsTotal(b, s)] = registry[RequestsTotal(b, s)]
    BY <1>1, <1>2, <1>6, SeriesDiffer DEF MetricsTypeOK
  <2>3. QED
    BY <1>3, <1>4, <2>1, <2>2, PairUntouched
<1>7. QED
  BY <1>5, <1>6

LEMMA ObserveDurationPaired ==
    ASSUME MetricsTypeOK, RecordsPaired, NEW r \in Recorders, ObserveDuration(r)
    PROVE  RecordsPaired'
<1> SUFFICES ASSUME NEW b \in Labels
             PROVE  (SumFunction(CountOf(b))
                        = registry[RequestDuration(b)] + Cardinality(RecordersOf(b)))'
  BY DEF RecordsPaired, CountOf, RecordersOf
<1> DEFINE c == recording[r]
<1>1. PICK d : d = RequestDuration(c)
  OBVIOUS
<1>2. /\ c \in Labels /\ recording' = [recording EXCEPT ![r] = "idle"]
      /\ registry' = [registry EXCEPT ![d] = registry[d] + 1]
  BY <1>1 DEF ObserveDuration, MetricsTypeOK
<1>3. /\ \A s \in Statuses : RequestsTotal(b, s) \in Series
      /\ RequestDuration(b) \in Series /\ registry[RequestDuration(b)] \in Nat
      /\ d \in Series
  BY <1>1, <1>2, SeriesFacts DEF MetricsTypeOK
<1>4. \A s \in Statuses : registry'[RequestsTotal(b, s)] = registry[RequestsTotal(b, s)]
  BY <1>1, <1>2, <1>3, SeriesDiffer DEF MetricsTypeOK
<1>5. SumFunction(CountOf(b)) = registry[RequestDuration(b)] + Cardinality(RecordersOf(b))
  BY DEF RecordsPaired, CountOf, RecordersOf
<1>6. CASE b = c
  <2>1. r \in RecordersOf(b) /\ RecordersOf(b)' = RecordersOf(b) \ {r}
    BY <1>2, <1>6, MetricsAssumption DEF RecordersOf, MetricsTypeOK
  <2>2. Cardinality(RecordersOf(b)') = Cardinality(RecordersOf(b)) - 1
    BY <2>1, RecordersCounted, FS_RemoveElement
  <2>3. registry'[RequestDuration(b)] = registry[RequestDuration(b)] + 1
    BY <1>1, <1>2, <1>3, <1>6 DEF MetricsTypeOK
  <2>4. CountOf(b)' = CountOf(b)
    BY <1>4 DEF CountOf
  <2>5. QED
    BY <1>3, <1>5, <2>2, <2>3, <2>4, RecordersCounted
<1>7. CASE b # c
  <2>1. RecordersOf(b)' = RecordersOf(b)
    BY <1>2, <1>7, MetricsAssumption DEF RecordersOf, MetricsTypeOK
  <2>2. registry'[RequestDuration(b)] = registry[RequestDuration(b)]
    BY <1>1, <1>2, <1>3, <1>7, SeriesDiffer DEF MetricsTypeOK
  <2>3. QED
    BY <1>4, <1>5, <2>1, <2>2, PairUntouched
<1>8. QED
  BY <1>6, <1>7

\* A step that changes neither who records nor any series of the two families.
LEMMA OtherUpdatePaired ==
    ASSUME MetricsTypeOK, RecordsPaired, UNCHANGED recording, NEW x, NEW v,
           registry' = registry \/ registry' = [registry EXCEPT ![x] = v],
           \A b \in Labels : x # RequestDuration(b) /\ \A s \in Statuses : x # RequestsTotal(b, s)
    PROVE  RecordsPaired'
<1> SUFFICES ASSUME NEW b \in Labels
             PROVE  (SumFunction(CountOf(b))
                        = registry[RequestDuration(b)] + Cardinality(RecordersOf(b)))'
  BY DEF RecordsPaired, CountOf, RecordersOf
<1>1. /\ \A s \in Statuses : registry'[RequestsTotal(b, s)] = registry[RequestsTotal(b, s)]
      /\ registry'[RequestDuration(b)] = registry[RequestDuration(b)]
  BY SeriesFacts DEF MetricsTypeOK
<1>2. RecordersOf(b)' = RecordersOf(b)
  BY DEF RecordersOf
<1>3. SumFunction(CountOf(b)) = registry[RequestDuration(b)] + Cardinality(RecordersOf(b))
  BY DEF RecordsPaired, CountOf, RecordersOf
<1>4. QED
  BY <1>1, <1>2, <1>3, PairUntouched

LEMMA RegistryPaired ==
    ASSUME MetricsTypeOK, RecordsPaired, MetricsNext \/ UNCHANGED metricVars
    PROVE  RecordsPaired'
<1>1. ASSUME NEW x, x \in Gauges \cup {ConfigReloadTotal(result) : result \in ReloadResults},
             NEW v, Update(x, v), UNCHANGED recording
      PROVE  RecordsPaired'
  <2>1. registry' = [registry EXCEPT ![x] = v]
    BY <1>1 DEF Update
  <2>2. \A b \in Labels : x # RequestDuration(b) /\ \A s \in Statuses : x # RequestsTotal(b, s)
    BY <1>1, SeriesFacts, SeriesDiffer
  <2>3. QED
    BY <1>1, <2>1, <2>2, OtherUpdatePaired
<1>2. CASE UNCHANGED metricVars
  <2>1. /\ ActiveConnections \in Gauges
        /\ \A b \in Labels : /\ ActiveConnections # RequestDuration(b)
                             /\ \A s \in Statuses : ActiveConnections # RequestsTotal(b, s)
    BY SeriesFacts
  <2>2. QED
    BY <1>2, <2>1, OtherUpdatePaired DEF metricVars
<1>3. ASSUME NEW r \in Recorders, ObserveDuration(r) PROVE RecordsPaired'
  BY <1>3, ObserveDurationPaired
<1>4. ASSUME NEW r \in Recorders, NEW b \in Labels, NEW s \in Statuses, CountRequest(r, b, s)
      PROVE  RecordsPaired'
  BY <1>4, CountRequestPaired
<1>5. ASSUME NEW result \in ReloadResults, RecordConfigReload(result) PROVE RecordsPaired'
  BY <1>1, <1>5 DEF RecordConfigReload
<1>6. ASSUME NEW count \in ActiveCounts, SetActiveConnections(count) PROVE RecordsPaired'
  BY <1>1, <1>6, SeriesFacts DEF SetActiveConnections
<1>7. ASSUME NEW b \in Labels, NEW healthy \in BOOLEAN, SetBackendHealth(b, healthy)
      PROVE  RecordsPaired'
  BY <1>1, <1>7, SeriesFacts DEF SetBackendHealth
<1>8. QED
  BY <1>2, <1>3, <1>4, <1>5, <1>6, <1>7 DEF MetricsNext

LEMMA PairedAtFirst == ASSUME MetricsInit PROVE RecordsPaired
<1> SUFFICES ASSUME NEW b \in Labels
             PROVE  SumFunction(CountOf(b)) = registry[RequestDuration(b)] + Cardinality(RecordersOf(b))
  BY DEF RecordsPaired, CountOf, RecordersOf
<1>1. RecordersOf(b) = {} /\ registry[RequestDuration(b)] = 0
  BY MetricsAssumption, SeriesFacts DEF MetricsInit, RecordersOf
<1>2. DOMAIN CountOf(b) = Statuses /\ \A s \in Statuses : CountOf(b)[s] = 0
  BY SeriesFacts DEF MetricsInit, CountOf
<1>3. SumFunctionOnSet(CountOf(b), Statuses) = 0
  BY <1>2, MetricsAssumption, SumOfZeros
<1>4. QED
  BY <1>1, <1>2, <1>3, FS_EmptySet DEF SumFunction

(***************************************************************************)
(* For any number of recording tasks, labels and status codes, the         *)
(* requests counted for a backend exceed its durations by exactly the      *)
(* requests whose record_request is under way (metrics.rs).                *)
(***************************************************************************)
THEOREM AdminRecordsPaired == Spec => []RecordsPaired
<1>1. Init => RecordsPaired
  BY PairedAtFirst DEF Init
<1>2. [Next]_vars => MetricsNext \/ UNCHANGED metricVars
  <2> SUFFICES ASSUME [Next]_vars PROVE MetricsNext \/ UNCHANGED metricVars
    OBVIOUS
  <2>1. ASSUME NEW k \in Conns,
               Connect(k) \/ Accept(k) \/ Close(k) \/ Livez(k) \/ NotFound(k)
                  \/ RequestReadyz(k) \/ RequestMetrics(k) \/ Handle(k)
        PROVE  UNCHANGED metricVars
    BY <2>1 DEF Connect, Accept, Close, Livez, NotFound, RequestReadyz, RequestMetrics, Handle,
                AnswerReadyz, GatherFamily, AnswerMetrics, Deliver
  <2>2. CASE AcceptFails \/ Stop \/ Cancel \/ PoolChanges \/ Recorded \/ UNCHANGED vars
    BY <2>2 DEF AcceptFails, Stop, EndLoop, Cancel, PoolChanges, Recorded, vars
  <2>3. QED
    BY <2>1, <2>2 DEF Next
<1>3. TypeOK /\ RecordsPaired /\ (MetricsNext \/ UNCHANGED metricVars) => RecordsPaired'
  BY RegistryPaired DEF TypeOK
<1>4. QED
  BY <1>1, <1>2, <1>3, AdminTypeCorrect, PTL DEF Spec
=================================================================================
