# Verification of gungho

TLA+ models of gungho, the HTTP load balancer in this repository: modules that
translate its source, TLC configurations that check them on small instances, and
theorems about them that TLAPS has proved for every value of the constants.

`tlc -config X.cfg M` checks a run and `tlapm M.tla` a module of proofs, both in
this directory. `PROJECT.json` lists the runs, the theorems, the source lines
behind each definition, what can go wrong in this code and which property covers it.

## 1. The system

| Component | State | Operations | Used by |
|---|---|---|---|
| Backend pool (`backend.rs`) | per backend: address, weight, health flag and active-connection count (atomics); the healthy snapshot, an `Arc` behind an `RwLock` | `mark_healthy`, `mark_unhealthy` and their `_by_addr` forms, `rebuild_healthy_cache`, `healthy_backends`, `get_health_by_addr` | checker writes; proxy and admin read |
| Health checker (`health.rs`) | consecutive successes and failures per address; the set of running probes; interval, cancellation token | `run` (select of tick and cancellation, one probe per backend, join, two threshold tests), `check` (GET with timeout) | runs alone, one per pool |
| Strategies (`lb/*.rs`) | round robin: a counter; weighted: lazily created credits; the others none | `select(slice, client)` | every request, concurrently |
| Proxy (`proxy.rs`) | listener, one task per connection, a `ConnectionGuard` per forwarded request | `run`, `handle_request`, header rewriting, trace-context validation | clients |
| Admin server (`admin.rs`) | listener and token in an `Arc` shared with every connection's task | `run`, `/metrics`, `/livez`, `/readyz`, 404 | scrapers, probes |
| Metrics (`metrics.rs`) | one atomic per time series, in a registry | `record_request` (two updates), `set_*`, `record_config_reload`, `encode_metrics` | checker and proxy write, admin encodes |
| Configuration (`config.rs`) | none after start | `from_file` (read, parse, defaults), `validate` | start of the program |
| Logging (`logging.rs`) | the installed subscriber | `init_logging`, `build_filter` | start of the program |
| `main`, `reload`, `shutdown` | none | `main` only starts logging; `reload.rs` and `shutdown.rs` are empty | |

The components meet in the pool. A mark by the checker is a flag store, then a
scan of all flags, then the publication of a new snapshot; meanwhile every request
clones the current snapshot, runs `select` on it, increments the chosen backend's
counter and awaits the answer under a timeout, and every readiness probe clones it
too. `main` does not wire them together yet; the README of the repository states the
intended wiring, and the constructors take what the one before them returns, which is
what the models assume. The checker and the admin server are handed a metrics registry;
the proxy makes one of its own (`proxy.rs:57`).

### What is hard here, and what makes each part correct

* **Pool.** Flags and snapshot change in separate steps and readers run in
  between. Correct: the snapshot catches up with the flags at the end of every mark
  and never differs in more than one backend.
* **Checker.** Results arrive in any order; probes may hang, fail or panic; counters
  wrap; cancellation competes with the next tick. Correct: state changes follow the
  README's state machine exactly; rotation and gauge agree with the counted results;
  a dead backend leaves, a live one returns.
* **Weighted round robin.** `select` is a sequence of atomic operations on shared
  credits, interleaved with other selects, on slices whose length changes. Correct:
  no credit leaks, shares are exact and smooth when selects do not overlap and off by a
  bounded amount when they do, a change of rotation leaves a bounded debt, and the returned index is valid.
* **Round robin, IP hash.** The counter and the slices are shared by concurrent requests
  that may hold different snapshots; the counter wraps. Correct: on one slice every
  backend gets its turn, and clients of one address stay together.
* **Proxy.** A request ends by an answer, an error, the deadline or a client that
  leaves, while counters are read by least connections. Correct: counts equal guards,
  every request ends, a backend taken out drains.
* **Headers.** Headers repeat, are malformed or forged, and proxies are chained.
  Correct: nothing hop-by-hop passes, trace context arrives whole or not at all, the
  forwarding headers are true, all else is untouched.
* **Admin and metrics.** Pages are gathered while counters move; the listener lives as long
  as any connection; an accept may fail. Correct: pages are bracketed by the counters,
  readiness follows the rotation, nobody waits for ever, cancellation ends the loop.
* **Start-up.** Validation and the pool test the same addresses separately, as text and as
  socket addresses. Correct: what is validated builds.

## 2. Modules

| Module | What it is |
|---|---|
| `Rotation` | abstract: what the pool promises its readers. The rotation changes by one backend at a time. Environment of the readers' modules. |
| `BackendPool` | `backend.rs`: flags, snapshot, mark calls of several tasks, one action per shared access |
| `HealthMachine` | abstract: the health state machine, counting a result and changing state in one step |
| `HealthChecker` | `health.rs` on top of `BackendPool`, with the gauge of `metrics.rs` |
| `Snapshot` | the vector a reader gets: the backends in rotation in the pool's order |
| `WeightedRoundRobin` | `lb/weighted_round_robin.rs` for concurrent callers, slices taken from a `Rotation` |
| `WeightedShares` | the same with history variables, for a rotation that stays: how requests are shared out |
| `Drift` | on top of `WeightedShares`: a record of which selects overlap, and the invariant that keeps overlapping selects from drifting apart. It adds a history variable and models no further code |
| `WeightedSpread` | on top of `WeightedRoundRobin`, with a history variable and no further code: what a rotation that changes does to the credits |
| `Proxy` | `proxy.rs`: connections and requests, all five strategies, guards; snapshots taken from a `Rotation` |
| `Headers` | the header functions of `proxy.rs`, on a path of any number of proxies, in both directions |
| `Configuration` | `config.rs`, `Backend::from_config`, `BackendPool::from_config` and `logging.rs` as operators |
| `Strategies` | `lb/round_robin.rs` and `lb/ip_hash.rs` (with its hash function) for concurrent clients over time |
| `Service` | composes the two: from a configuration file to a proxy that selects backends while rotation changes |
| `Metrics` | `metrics.rs`: the registry and its updates, one action per atomic access |
| `Admin` | `admin.rs` on top of `Metrics`; readiness reads a `Rotation` |
| `BackendPoolProofs`, `HealthCheckerProofs`, `ProxyProofs`, `WeightedRoundRobinProofs`, `HeadersProofs`, `ServiceProofs`, `AdminProofs` | theorems about those modules (`WeightedRoundRobinProofs` about `WeightedShares`, `Drift` and `WeightedSpread` too) |
| `SetLemmas` | facts they share: the ordered vector of `Snapshot`, induction over finite sets, sums |
| `MC...` | constant values for TLC |

How state and actions correspond to the code:

* **BackendPool.** `health[i]` is the `AtomicBool`, `cache` the set of positions in
  the published vector (its order is the pool's order). A call of a `mark_*` function
  by task `m` is `StoreFlag`, then one `LoadFlag` per backend, then `InstallCache`;
  `scan[m]` and `found[m]` are the position and the vector of the `filter` in
  `rebuild_healthy_cache`. The write lock covers only `InstallCache`. Two backends may
  have one address; `Finds` is the linear search that meets the first.
* **HealthChecker.** `stage` is the program counter of `run`, `probes` the `JoinSet`,
  `status` the `status_map`. `Tick` spawns, `EndProbe` is the end of `check`,
  `JoinResult` is `join_next` with `update`, `TestUnhealthy` and `TestHealthy` are the two
  `if`s, `Mark`, `Rebuild` and `Publish` are the mark call, step by step, `SetGauge` ends the body.
  The path may be one that makes no URI (every probe panics, `JoinPanicked` ends the round)
  and the interval may be zero (`Start` panics), because nothing validates them.
  Pruning the map after a round removes nothing: the pool's backends never change.
* **WeightedRoundRobin.** A call is `Select` (snapshot), `GetOrInit`, then for each
  position `AddWeight`, `Compare` and possibly `Take` (the second load), then `Subtract`.
  `AddWeight` at a position past the credits is the out-of-bounds panic.
* **Proxy.** `TakeSnapshot`, then the chosen strategy's action, then `BadTarget` or
  `Forward` (guard and send), `Answered` (response, error or deadline, and the record of
  the metric), `Return` (guard dropped, head returned), `EndStream`. `LeaveWaiting` is the
  handler dropped at its only await.
* **Headers.** `headers` is the `HeaderMap`, a sequence of values per name. `Forward` is the
  request side of `handle_request` (`Rewrite` is its three calls in their order), `Return`
  the response side; `Respond` and `Send` are the server and the client. A value is known
  by its pieces between dashes (`Parts`), which is all `validate_traceparent` looks at.
  `sent` remembers what the party at the other end sent.
* **Configuration.** A file is a record in which any setting may be missing; `Fill` is
  `#[serde(default)]`; `SocketAddr` maps the text of an address to what it spells, so two
  texts can spell one address. Results are `Ok` and `Err` records, the tests are in the order
  of the code.
* **Strategies, Service.** `stage` is how far start-up has come, with the constructor's
  error if it failed. `TakeSlice` is `healthy_backends()` at the top of `handle_request`,
  `SelectRoundRobin` and `SelectIpHash` are the bodies of `select` (one atomic access each).
  `last` and `turns` remember results for the properties; `turns` starts afresh at a new slice
  and where the counter wraps, unless the slice's length divides its range.
* **Metrics, Admin.** `registry` has one number per time series; a histogram is its count.
  `record_request` is `CountRequest` and `ObserveDuration`. In `Admin`, `conn[k]` is where a
  connection and its request are; the kernel's part is `Connect` and the backlog.
  `RequestReadyz`/`AnswerReadyz` are the load of the snapshot and the use of it;
  `RequestMetrics`, one `GatherFamily` per family and `AnswerMetrics` are a scrape.
  `Listening` says whether some `Arc` still owns the listener; when the last one goes,
  the backlog is reset.

## 3. Runs

| Run | Shows | Bounds |
|---|---|---|
| `pool` | one marking task: exact snapshot between calls, at most one backend off during them, refinement of `Rotation` | 3 backends, two of them with one address; all start states |
| `pool_two_markers` | **violation**: two concurrent marks can leave the snapshot stale for good | as above, 2 tasks |
| `checker` | rotation and gauge match the counts; refinement of `HealthMachine`; a dead backend leaves, a live one returns; cancellation stops | 2 backends, thresholds 2 and 2, counters that wrap at 3 |
| `weighted` | credits are conserved by two overlapping selects under a changing rotation, panics included; no credit leaves its range as long as selects follow one another | 3 backends of weights 1, 0 and 1, 2 callers |
| `weighted_panic` | **violation**: a slice longer than the first one panics `select` | 2 backends of weights 2 and 1, 1 caller |
| `shares` | exact shares, no bursts and no backend a whole request ahead for selects that do not overlap; an error below three requests for two that do, with the inductive invariant behind it; no panic while the rotation stays | the README's weights 5, 1, 1 and every subset of them in rotation, 2 callers |
| `proxy` | counts equal guards; an undisturbed least-connections choice is the first minimum; draining; every request ends | 2 backends, 2 connections, every strategy, counter that wraps at 4 |
| `headers` | nothing hop-by-hop passes; trace context whole or absent; forwarding headers true; all else untouched | 2 proxies in a row; up to 2 values of `host` and `traceparent`, the latter well formed or malformed in four ways |
| `trace_repeated` | **violation**: a malformed `traceparent` behind a well-formed one is forwarded | as above |
| `service` | validated files build; shared addresses only under two spellings; round robin goes round, across the counter's wrap too; clients of one address stay together | 4 address texts for 2 socket addresses, up to 3 backends, files with each strategy or broken in each way, 2 clients, counter that wraps at 4 |
| `admin` | counter and histogram stay paired; pages are bracketed; readiness settles; nobody stays in the backlog; cancellation ends the loop | 1 backend, 1 scraper, 1 prober, 2 recording tasks, 2 status codes, `MaxUpdates` = 2 |
| `admin_livez` | **violation**: one failing `accept` ends the admin server while the process lives | as above |

Only `service` is checked without looking for deadlock: a start that has failed stays
where it is, as the program does.

Why the bounds suffice: the pool's properties speak of pairs of backends and of a
backend and the one being marked; three backends with a shared address give every
such pair. The thresholds of 2 are the smallest at which a single result does not
decide, and a counter that wraps at 3 wraps in many behaviours. Credits depend
on the order of at most two overlapping selects plus whatever stale values a stalled one
holds; TLC finds their state space finite without any bound in the actions, so no
schedule is cut off. With three backends a slice of two can follow another slice of two, which is how a
backend inherits a credit without the number of the credits changing; a weight of zero is
one that validation accepts, and greater weights multiply the states without a new case. The callers of
`select` are interchangeable, so `weighted` and `shares` are checked up to their symmetry. Two proxies in a row are the shortest path on which one proxy is
another one's client, and the rewriting reads at most the first of several values. With a
range of 4 the round robin counter wraps soon, and of the slices of 1, 2 and 3
backends two divide the range and one does not, which are the two cases. Two clients are
enough for stale slices and interleaved turns. Two recording tasks are enough for a scrape
to meet one between its two updates while the other moves on; the properties compare
series and connections in pairs at most.

The only bound in a guard is `MaxUpdates`, the number of updates of the registry: its
counters grow for ever. It limits how often counters move, not when, and updates are not
under fairness, so no liveness property rests on it. `CounterSize` stands for the width of an integer (a
`u32` in the checker, a `usize` in round robin), `I64Min` for `i64::MIN`. The models are
those of a release build, where integers wrap.

### What the violations mean

* `pool_two_markers`: `rebuild_healthy_cache` loads the flags outside the lock
  (`backend.rs:148`), so the later of two publishes may carry older flags. README:278
  says the snapshot is rebuilt under the write lock. Today one checker is the only
  caller; a second one (an admin action, a reload) would meet it.
* `weighted_panic`: credits are sized by the first slice (`weighted_round_robin.rs:52`)
  and indexed by later ones. If the first request arrives while a backend is out, every
  request after its return panics.
* `trace_repeated`: `validate_traceparent` reads the first value only (`proxy.rs:244`), and a
  message whose first value is well formed keeps all of them. README:236-238 says a
  malformed one is stripped, "so a downstream service never inherits a broken trace".
  `TraceContextWhole` states what does hold.
* `admin_livez`: `accept` is unwrapped with `expect` (`admin.rs:54`); its first error panics the
  admin server's task and leaves the proxy running. README:208 says `/livez` is always 200
  while the process is alive. The proxy's loop logs the same error and goes on.

### Fairness

`HealthChecker!Fairness`: the runtime polls a checker that can go on (weak); every probe
ends, because `check` has a timeout (weak, `EndProbe`); the select takes a ready branch at
random, so a cancelled token that is seen again and again is taken at some time
(strong, `Stop`). `Proxy!FairSpec`: the runtime polls a handler that can go on, and the
deadline passes if nothing else ends the wait (`Handle`, weak). `Admin!FairSpec`: the runtime
polls the loop and every connection's task (`Accept`, `Stop`, `Handle`, weak; they stay enabled
while the loop runs, since `tokio::select!` chooses among ready branches at random and the
kernel hands out the backlog). Nothing is assumed of clients, servers, probes or whoever
cancels; `BacklogResolved` says itself that it needs clients that close their connections.

## 4. Theorems

Assumed are only the named assumptions about constants: `PoolAssumption` (addresses are
assigned to a finite number of backends), `CheckerAssumption` (thresholds are values of the
counters' type), `WeightAssumption` (weights are natural numbers, in the code a `u32`; finitely many callers),
`SharesAssumption` (`i64::MIN` is not above minus the sum of any weights: it would take 2^31 backends
of the greatest weight), `DriftAssumption` (nor above minus k(k+1)/2 times that sum, for k selects that
overlap: `select` does not await, so k is at most the number of the runtime's threads), `SpreadAssumption` (nor
above minus half the number of backends times the sum of all weights: 2^16 backends of any weights are within it),
`ProxyAssumption` (finitely many connections, a counter of some width), `HeadersAssumption`
(a path has a client, a proxy and a server at least; other headers are other headers),
`ConfigurationAssumption`, `StrategiesAssumption` and `ServiceAssumption` (addresses have
octets; a file of the right types lists backends and names an algorithm there is),
`MetricsAssumption` (finitely many recording tasks and status codes) and `AdminAssumption` (the registry
gathers each counter family once).
TLC evaluates each of them in a run.

**Pool and checker** (`BackendPoolProofs`, `HealthCheckerProofs`)

* `PoolTypeCorrect`, `CheckerTypeCorrect`: types, for any number of tasks. These are inductive
  as they stand.
* `PoolQuiescentCacheExact`, `PoolCacheLagsByOne`, `PoolImplementsRotation`: for at most one
  marking task. Neither property is inductive: nothing in them says what a rebuild
  will publish. `PoolInv` adds that what it has found so far is the healthy part of the
  prefix it has scanned (`FoundIsHealthyPrefix`); at the end of the scan that is the set of all
  healthy backends. With two tasks the added part fails, which is the violation above.
* `CheckerUsesPool`: each step of a checker is a step of `PoolSpec` or leaves the pool alone.
  So the pool's theorems hold of the checker too (`CheckerImplementsRotation`).
* `CheckerRotationMatchesCounts`: for one checker and positive thresholds (the property says
  nothing otherwise). `CheckerInv` adds, for each stage of the evaluation of a result, what
  has been settled by then about the flag and the counters of its address: after the first test
  a healthy backend's failures are below the threshold; during a mark the flag is the goal;
  a mark to healthy has enough successes, hence no failures, since one count is always zero. It
  also says that during a rebuild only the marked backend may differ from the snapshot.
* `CheckerGaugeTracksFlag`: for one checker. `GaugeInv` adds that between store and
  gauge the flag is the one the gauge is about to show.
* `CheckerImplementsHealthMachine`: for one checker and positive thresholds, each step of the
  checker is a step of the abstract machine or leaves it alone. The abstract state of an address
  is its `Verdict`, made of the flag and the counters: it changes when the result is joined, so
  `JoinRefines` shows the machine's counting step there, and `MarkRefines` that the mark which
  follows changes nothing abstract, because it stores what the counters have called for
  (`StoreCalledFor`, and `CheckerInv`). The search by address finds the first backend with it
  (`FirstExists`, by the least member of a finite set of numbers, a lemma of `SetLemmas`).

**Proxy** (`ProxyProofs`, on the lemmas of `SetLemmas`, which show that the ordered vector
of module `Snapshot` exists: the rank of its members is a bijection)

* `ProxyTypeCorrect`, `ProxyGuardsCounted`: neither is inductive alone. A count stays a natural number because
  it equals the number of guards, one of which is being dropped; and the guards are those of
  valid indexes only because slices are not empty once a strategy runs (`RequestsFit`).
* `ProxyLeastWhenCalm`: `CalmInv` adds the loop's invariant: the best so far is the first
  minimum of the positions loaded so far, as long as no counter has changed since.

**Weighted round robin** (`WeightedRoundRobinProofs`)

* `WeightedTypeCorrect`, `WeightedPanicsOnlyWhenLonger`: for any weights, slices and callers. `Fits` adds that
  once the loop has begun the credits exist, never change in number, and contain the best
  index and every position that was added to. So the panic of `weighted_panic` has one cause
  only: a slice longer than the first.
* `WeightedCreditsConserved`: for any weights, slices, callers and changes of rotation. `TotalsKept` adds
  that the total a call has summed up is the sum of the weights it has added ; each
  access then changes both sides of the equation by the same amount.
* `SharesExact`, `SharesLessThanOneAhead`, `SharesNoBurst`, `SharesSelectReturns`: for any pool, any weights and any rotation that
  stays. None of the first three is inductive, since they speak of ends of cycles or of several
  returns. `SharesInv` has three parts. `Fixed`: every slice is the vector of the rotation, and the credits
  have its length. `Tally`: `picks` are the counts of `winners`, which are in number the selects of
  this cycle. `Turns`, for selects that follow one another: after n returns in a cycle of length C
  the credit of a backend of weight w with k of them is n w - C k, and every weight counted in the
  loop is on top of that (`Base`, `HasAdded`); the best so far is the first of the greatest credits looked
  at. The winner's credit is then at least the average of all, which is positive, so it stays above
  -C when C is taken off (`ReturnBase`). After C returns each credit C w - C k is above -C, hence
  k <= w, and as both add up to C they are equal (`CycleExact`, `SumSqueeze`). For bursts, `ReturnBeats`
  keeps of each return that the winner's credit was the greatest then. If all w wins of a backend came
  in a row, with another backend in the cycle, then comparing the credits at the last of them, and at
  the return before the first, would give a contradiction (`NoRun`).
* `SharesDriftBounded`, `DriftTrailed`: with k callers that overlap in any way, no credit is ever at
  -k(k+1)/2 C or below, in the middle of calls included. A select that d others returned during, and that
  no younger one disturbed, chooses a credit above -d(d+1)/2 C (`Reach`); its return takes C off, which a
  select with d+1 others allows for. That needs a record of who is older than whom, which no variable of the
  code keeps: a *trail* per call holds who was in the loop before it and has not returned, who has
  returned since, and what those before it took from which credit. Each caller of `before` returns at most once
  while the trail lasts; one that started later had only credits to choose from that the older
  ones left, and knows at most the returns that this call knows (`Ordered`). `Backed` then says
  that the loop has a good credit ahead of it (the credits add up to no less than the weights added, so there is
  one at the start) or remembers one as its best, up to what was taken since. `TrailsSpec` has the trails in a
  history variable, for the run `shares`; for `SharesSpec` the proof says that there are such trails (`Drifts`).
  One request per caller (-k C) would be the nicer bound and is false: two callers that take turns badly on seven
  backends of the weights 100, 1173201, 866908, 1170424, 1014886, 915556 and 675739 bring a credit to -2.19 C.

* `WeightedSpreadBounded`: for any weights and any changes of rotation, as long as selects follow one another. With W the
  sum of all configured weights and n credits, each credit c satisfies -W (n-1) <= 2 c <= W (n+1). When the rotation
  changes a backend that moves up takes over the credit of another, so what holds of shares on one slice (`Turns`) is
  lost, and what one change costs could add up with the next. It does not. `Even` says that between
  selects the credits add up to zero and that no set of s of the n positions is below -W s (n-s) / 2. A select on any slice
  keeps that (`EvenKept`): a set without the winner only gains; a set with the winner pays what the positions
  outside it were given, at most W, and the winner's credit was no less than any other: the bounds of the set without the winner, and of
  the set with the positions outside it that the slice has, leave the winner that much (`WinnerPays`).
  `Level` is `Even` in the middle of a call, of the credits without what the call has added. A select that
  panics never takes back what it added; `WeightedCreditsConserved` accounts for it, and the call stays among the
  unfinished ones, so any later select overlaps with it.

**Headers** (`HeadersProofs`)

* `HeadersNoHopByHop`, `HeadersTraceContextWhole`, `HeadersForwardedTruthfully`, `HeadersEndToEnd` and the types
  (`HeadersTypeCorrect`, which no run repeats): for any number of proxies and any messages. What a proxy does to a message that another proxy has handled is
  the reason for induction: the trace context of what was sent decides, not that of what
  arrived; each name is followed through the three calls by a lemma.

**Start-up, round robin and IP hash** (`ServiceProofs`)

* `ServiceTypeCorrect`, `ServicePoolAlwaysBuilds`, `ServiceAliasesOnly`: for any set of files. `Booting` adds
  that a configuration that has been accepted is valid in the sense of the pool, and that the
  pool lists the backends of the configuration. The types include that each index is in its slice.
* `ServiceAffinity`: `Hashed` says that each latest result is the hash modulo the size of its slice.
* `ServiceInTurn`: `Turning` adds that the latest indexes go round (each is the one after its
  predecessor) and that the counter's remainder is the one after the last, unless the wrap
  skips. The arithmetic is in lemmas about `%`: the remainder of the next number, and of zero after
  a wrap of a range that the length divides.
* `HashInRange`, `HashSeparates`: the hash of any number of octets is in its range, from which no step
  overflows (`HashStepInRange`), and addresses that differ in one octet, whichever it is, have different hashes
  before the reduction to the number of backends. The loop is a recursive function, so its
  existence and what it computes are proved by induction on the number of octets, with a set
  for the numbers already covered (`NumberInduction`). A later step keeps apart what an earlier one has told apart,
  because 113 and 6271 have no common divisor (`HashStepInjective`).

**Admin and metrics** (`AdminProofs`)

* `AdminRecordsPaired`: the sum over the status codes and the number of tasks between their two
  updates change together, step by step. It is inductive with the types, once sums are: `SetLemmas` derives what
  `SumFunction` computes from an induction over the subsets of a finite set, stated with a set of
  subsets and not with an operator as parameter.
* `AdminTypeCorrect`, `AdminScrapeBracketed`: `ScrapeBegan` adds that while a scrape runs no counter
  is below its value at the beginning, which needs every update of a counter to increase it.

Only model-checked: all liveness under fairness, which is out of the prover's reach (`DownLeavesRotation`,
`UpReturnsToRotation`, `CancellationStops`, `Drains`, `RequestsEnd`, `ReadyzSettles`, `BacklogResolved`,
`CancellationEndsLoop`); every safety property of a passing run is a theorem. Bounds on shares are about how far a backend is ahead. There is no bound of this form on how far
one falls behind: with many backends of unlike weights one can be more than a request behind even
when selects follow one another. The four violated statements are refuted by their counterexamples.

## 5. Plan

1. *Done.* Pool, checker, weighted round robin and its shares, the request path, headers,
   configuration, start-up, round robin, IP hash, metrics and the admin server, all with proofs.
2. *Left.* What overlapping selects do to the credits while the rotation changes (each of the two has a bound
   alone, `DriftBounded` and `SpreadBounded`); the wiring of all components on one pool and one
   registry, once `main` does it.

## 6. Not modelled

* `reload.rs` and `shutdown.rs`, which are empty.
* `Backend::set_health` and the pool's own `increment_connections` and `decrement_connections`,
  which only tests call.
* TOML's syntax, the text of a metrics page, the buckets of the histogram, the gauges on a page,
  and the layout of log lines.
* HTTP itself (framing, keep-alive, the connection pool of the client), which is hyper's, and
  the uniformity of `random`, which is the `rand` crate's.
* Memory orderings weaker than sequential consistency: each atomic is accessed on its own,
  and the snapshot is published under a lock.
* The registry that `Proxy::new` makes for itself and hands to nobody: nothing reads it.
* `max_connections` and the split timeouts, which are parsed and not used, and the response
  body after the head: it occupies a backend without being counted (`EndStream` in
  `Proxy`), which no document says it should be.
