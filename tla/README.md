# Verification of the traffic operator

This directory holds TLA+ specifications of the Kubernetes traffic operator in
`src/operator/k8s_traffic_operator/`, TLC configurations that model-check them,
and theorems that TLAPS checks. Paths below are relative to that package unless
they begin with `src/`.

The operator watches `TrafficPolicy` resources. Every 30 seconds a kopf timer
collects a `TrafficSnapshot` (Prometheus or Hubble), evaluates the policy
against it and against the status recorded by the cycle before, and applies
the `Decision` to a Deployment (replicas) or an HTTPRoute (weights). A
dashboard, a separate process, shows policies and flows.

## 1 Inventory

| Part | State it keeps | Operations | What it must do |
|---|---|---|---|
| `handlers.py` reconcile | none; kopf merges its result into `status.reconcile` | `reconcile` (timer), `register_policy`, `cleanup_policy` | collect, evaluate, apply, record, in this order; skip evaluation without data |
| `policy/engine.py` | none in memory: cooldown deadline, isolation weights and recovery progress live in the last recorded decision | `evaluate` | hold the cooldown, isolate, remember an isolation until it is recovered, scale with hysteresis |
| `policy/anomaly.py` | none | `assess_anomaly`, `_find_culprit_backends` | blame a backend only if a healthy one is left |
| `policy/baseline.py` | `_BASELINES`, in memory, lost in a restart | `observe`, `warm`, `is_upper_breach` | no learning from critical cycles; no EWMA verdict before warmup; forget a plateau, not a crisis |
| `policy/scaling.py` | none | `assess_scaling`, `capacity_target_for_anomaly` | no flapping, no loss of capacity |
| `actuator/executor.py` | none | `apply` | at most one effect per decision; never raise |
| `actuator/scaler.py` | `spec.replicas` in the cluster | `scale_deployment`, `clamp_replicas` | bounds and step limit |
| `actuator/router.py` | weights in the HTTPRoute | `set_backend_weights` | step limit, no lost update |
| `metrics/collector.py`, `prometheus_client.py`, `adapters/` | none | `collect` (nine queries), `query` with one retry | normalise; never disguise a gap as a value; end |
| `metrics/hubble_collector.py`, `hubble_client.py` | none | `collect`, `fetch_flows` | count the target's flows in the window |
| `dashboard/hubble_flows.py` | the flow cache and its lock | `_fetch_flows_cached`, `summarize`, `_assign_layers` | one hubble process at a time, bounded age; counts that add up, layers that are hops |
| traffic page in `app.py` | none; the filters travel in the address | `_render_flows`, `_flow_graph_svg`, links | every page can be shown; a link shows what it says |
| `dashboard/auth.py`, login and settings in `app.py` | one login and a session key, in memory and in a file | `_load`, `_try_save`, `update_credentials`, sessions | what was reported saved survives; a change ends sessions |
| `dashboard/data.py`, rest of `app.py` | none | read and render | (not modelled) |
| `main.py` | kopf settings | `configure` | (not modelled) |

Interactions. `reconcile` calls `metrics.collect`, `policy.evaluate` and
`actuator.apply` in turn; the three share only the records of `schemas.py`.
The policy never reads the cluster: it knows replicas as *ready pods* of the
snapshot and weights as *what it last asked for*. The actuator reads and writes
the cluster with two calls each, while controllers and people write the same
objects. What the policy remembers passes through the status patch of kopf,
which may be lost. In the dashboard, FastAPI runs handlers in a thread pool:
they share the flow cache, the credential store and their locks.

Hard behaviours: the read-modify-write of replicas (no resourceVersion) and
weights (with it, one retry); crash or lost patch between applying and
recording; decisions that overwrite what an earlier decision remembered; two
clamps with different starting points (ready pods, `spec.replicas`); queries
that are not a snapshot; a lock held over a subprocess; a file saved while
requests run. `PROJECT.json` lists each as a hazard at its line.

## 2 Modules

| Module | Models | Used by |
|---|---|---|
| `Scaling` | `policy/scaling.py`, `clamp_replicas`: functions on integers | `ScalingLoop`, `Routing` |
| `ScalingLoop` | the decide/clamp/apply loop on one Deployment, nothing else moving | `MCScalingLoop`, `ScalingProofs` |
| `Routing` | `clamp_weight_change`, `_normalize_targets`, `_apply_weights_to_route` | `Policy` |
| `Policy` | anomaly, sample counts, cooldown, recovery, `evaluate` as operators on records | `Reconcile`, `EwmaBaseline` |
| `Reconcile` | the control loop as a state machine with the cluster and its faults | `MCReconcile`, `MCIsolation`, `ReconcileProofs` |
| `RecoveryLifecycle` | the abstract life of an isolation: clear, isolated, recovering with a number of reissues left | refined by `Reconcile`, `ReconcileProofs` |
| `EwmaBaseline` | mean, variance and band of `policy/baseline.py` with the assess-then-learn cycle | `MCEwmaBaseline`, `EwmaBaselineProofs` |
| `Collector` | `collect` over Prometheus, with the adapters | `Metrics` |
| `HubbleCollector` | `collect` over the hubble CLI | `Metrics` |
| `Metrics` | `metrics.collect`: one of the two, by environment and spec | `MCMetrics`, `MetricsProofs` |
| `FlowCache` | `_fetch_flows_cached` under threads | `MCFlowCache`, `FlowCacheProofs` |
| `FlowSummary` | `summarize`, its filters, `_assign_layers`: functions on a list of flows | `FlowPages` |
| `FlowPages` | the traffic page as somebody clicks through it | `MCFlowPages`, `FlowPagesProofs` |
| `Credentials` | `CredentialStore` with the login and settings handlers | `MCCredentials`, `CredentialsProofs` |

The modules `MC...` give constants their values for TLC. Those that end in
`Proofs` hold theorems (section 4); `SumProofs` is about sums and about no
part of the system.

### Reconcile

Variables and what they stand for: `spec` is the TrafficPolicy's spec,
which `EditSpec` exchanges at any time for another of `Specs`; a handler works
with the copy it was called with (`job.spec`). `replicas`, `ready`, `route` are the
cluster (`route` is a function from `Refs`, the backendRefs of all rules, to
weights: rules that name one backend have a weight each; `Backends` are the names
the metrics may tell apart, and nothing says that the route refers to them);
`status` is `status.reconcile` (last decision, and the age of
`lastReconcileAt`); `baseline` the sample counts; `sleep` the time to the next
timer; `pc`, `job`, `held`, `fresh`, `attempt` the handler in progress (the
decision it carries out, what it read, whether the resourceVersion it read is
still current, the retry); `calm` says that from now on only `CalmTraffic`
occurs and no faults; `rest` (auxiliary) is how long the last *recorded* scale or
isolate still has to be left alone, under the cooldown it was decided with.

One cycle is `Collect` (collect, evaluate, and everything of `apply` that does
not touch the cluster), then `ReadScale`/`WriteScale` or
`ReadRoute`/`WriteRoute`/`RouteConflict`, then `Record`. Evaluation and
collection are one step: the snapshot is an input, chosen from `Traffic` with
any number of ready pods the cluster has, or missing (`Collector` and
`HubbleCollector` say which snapshots occur). `CallFails` is an API error at
any call; `RecordFails` a status patch that does not arrive; `Crash` a restart,
which also empties the baseline. `EditReplicas` and `EditRoute` are other
writers, possible at any moment; `PodStarts`/`PodStops` the Deployment
controller.

Time is a number of units: `Tick` ages the deadlines instead of counting a
clock, so that the state stays finite without cutting behaviours off. A
cooldown deadline is kept as time left (`cuLeft`), `lastReconcileAt` as an age
capped at the cooldown, beyond which it makes no difference.

Levels. A metric is one of the cases the comparisons of `assess_anomaly` can
tell apart: normal, over the threshold, an EWMA breach, both. This keeps all
control flow of `evaluate`; the numbers behind the levels are in `EwmaBaseline`.
`Merge` is kopf's JSON merge patch of the result: a null removes its key, the
weights are merged key by key.

The recovery marker that the code writes into the *text* of the reason is the
field `recovery` of a decision, and a decision without one has None.

### EwmaBaseline

With `_ALPHA` = 1/5 every value of `_Stat` is a fraction with a power of 5 below
the line, so the arithmetic is exact on integers: `mean / unit` and
`var / unit^2`. `UpperBreach` compares squares where the code compares with
three standard deviations. Rounding of floats is left out, and with it the
`_EPS` of 1e-9: a variance is flat when it is 0. A `Cycle` is step (B) of
`evaluate` for any snapshot, with `Severity` of `Policy` on the levels that the
numbers have; `CountsAsPolicy` ties the two abstractions of the baseline
together. `MaxSamples` bounds what is learnt between two restarts, because the
denominators grow; the theorems hold for any.

### Metrics, Collector, HubbleCollector

`Metrics` composes the two collectors over one TrafficPolicy and one snapshot.
`ResolveImpl` decides which is used (environment, then spec, then default), and
only that one moves. `Canonical` resolves the aliases of an adapter; case and blanks,
which the code ignores, are not told apart.

`Collector` keeps the series of each label; `Scrape` changes them between any
two queries. A collection is `Begin`, nine times an answer, or a failure and a
retry, and a snapshot, or `GiveUp`; or `Refuse` when there is no route to ask
about. The order of the queries is that of `_collect`. An adapter is what it
makes of a label (`NameOf`: a backend, or none) and what there is to ask for:
NGINX has a mean in place of p50, no other quantile, and totals that include
requests it answers itself (`ZoneExtra`). p50, p95 and p99 are known or
missing: nothing in the collector computes with them.

`HubbleCollector` lets flows arrive while the CLI runs. `now` is read before
(`collector.collect`), so flows that arrive during the fetch also count: the
code puts no upper bound on the window, and `NeverInvents` says so (it counts
from the beginning of the window to the end of the fetch). `ParseWindow` is
the collector's parser on number and unit, with the rounding to even of
Python. `flows` is what the CLI is told to look at: the namespace of the target, or,
where the policy names none (the CRD does not require it), all namespaces.
`ToTarget` of the properties is written from the promise (the flows
of the window to the target) and not from the helpers that compute it.

### FlowSummary, FlowPages

`FlowSummary` is pure. An end of a flow has a label, a namespace and a workload
that may be unknown; the time of a flow is its place in the list. A filtered list
is the set of the places that pass, and `most_common` puts each connection
behind those ahead of it (`InOrder`): more frequent ones, and of equals those seen
first. `_assign_layers` visits the nodes in
the order of a Python set of strings, which differs between processes, so
`AssignLayers` takes the order as a parameter and `FlowPages` any order.

`FlowPages` keeps the cached list and the page in the browser. `Follow` is a
click on any link of the page (namespace, all namespaces, a resource, scope,
clear focus) answered from the cache, `Refresh` a reload, `Renew` a fetch that
finds one more flow, `Unavailable` a Hubble that does not answer. `Shows` says
which of the cases of `_render_flows` the page is, a KeyError in the diagram
included. Coordinates, colours and HTML are left out, and `_clean_param` is the
identity on the values a link carries.

### FlowCache, Credentials

In `FlowCache` a request reads the clock (`Arrive`), later takes the lock and
hits (`Hit`) or starts a fetch (`Miss`), which lasts from 0 to `Timeout` and
succeeds or fails. The key `last` of the cache is constant (`HUBBLE_LAST`) in
every caller and left out. `fetched` (auxiliary) counts the lists fetched since the
start; `RateLimited` relates it to the clock.

In `Credentials` the lock of the store is held while `saving # "no"`; other
requests proceed between the calls of one handler. `_try_save` is three steps
(memory changed, temporary file written, replaced) with a restart or a failure
between any two; the temporary file is never read and not kept in the state.
Requests refused for a wrong password change nothing and are left out.

## 3 Runs

Passing runs, with the distinct states TLC finds:

| Run | States | Question | Properties |
|---|---|---|---|
| `isolation` | 772,272 | do cooldown and the memory of an isolation survive lost results, restarts and edits, and does the backend get its weight back? | `TypeOK`, `CooldownRespected`, `RecoveryCompletes`, `Recovers` |
| `contention` | 6,926,412 | do weight writes keep their limits and the permission of the spec, and who may lose all weight, while the route and the spec are edited and calls fail? | `WeightStepBounded`, `CutOnlyBesideHealthy`, `LowersOnlyIfAllowed` |
| `scaling` | 255,740 | do replicas stay in bounds, also under a refused spec, and do they settle? | `CooldownRespected`, `ReplicasBounded`, `Settles` |
| `scaling_loop` | 78,244 | does the arithmetic flap, lose capacity, or shrink in a surge? | `TypeOK`, `NoReversal`, `DownKeepsCapacity`, `SurgeAdds` |
| `metrics` | 462,769 | is a snapshot honest about what was not measured, does it add up, what is counted over Hubble, does a collection end? | `TypeOK`, `NothingDisguised`, `SteadySums`, `ErrorsHaveCulprit`, `NeverInvents`, `CompleteBelowCap`, `CollectionEnds` |
| `flow_cache` | 512,641 | one process at a time, bounded age, a bounded rate of lists, answers? | `TypeOK`, `SingleFlight`, `Fresh`, `RateLimited`, `Progress` |
| `credentials` | 249,502 | does a saved login survive, is the report of a save true, does a change end sessions? | `TypeOK`, `ChangeEndsSessions`, `ReportedAsSaved`, `SavedSurvive` |
| `baseline` | 84,481 | what does the baseline learn, forget and never mistake? | `TypeOK`, `MeanWithinLearnt`, `Absorbed`, `BlindNeverCritical`, `CriticalPersists`, `CountsAsPolicy` |
| `flow_pages` | 85,380 | are the layers hops, do the numbers of a page add up, do its links keep their word? | `LayersAreHops`, `RowsAddUp`, `LinksKeepWord` |

Runs that find a claim of the repository violated (quoted under `findings` in
`PROJECT.json`):

| Run | What happens |
|---|---|
| `forgotten_isolation` | an anomaly that scaling cannot answer gives a noop without weights: the isolation is forgotten |
| `second_isolation` | a second isolation replaces the memory of the first; a backend stays low for ever |
| `diagram` | a layer of the table without a node among the drawn rows: the traffic page ends with a server error |

`isolation` is run from `MCIsolation`, which is `MCReconcile` with one more
assumption, the one the theorem `RecoveryRefines` makes: TLC evaluates it on the
constants of the run. On those of `forgotten_isolation` it is false.

Each property of a passing run has a mutant: the operator above the definition
it replaces, marked "Mutant of", which is a plausible bug that breaks it.

### Bounds, and why they are enough

* Reconcile: two backends (one to blame and one healthy is what isolation
  needs; isolations can alternate), cooldowns of 0 to 3 units with a timer every
  1 or 2, so that cooldowns end at, between and after timers; warmup after 1
  sample instead of 10, so that both sides of it occur; replicas up to 6 with
  maxReplicas 4, so that counts start outside the bounds; loads below, between
  and above the thresholds. `contention` has two rules, one with a alone, and a
  third name that is in the metrics and not in the route, so that a healthy
  backend can be in another rule or outside. The theorems lift these bounds for
  the safety properties.
* A run has the faults its question needs: all of them at once only multiply
  states. `isolation` has restarts, lost results and a spec that is switched to
  a dry run without cooldown and back; `contention` failing calls, a second
  writer of the route and isolation forbidden and allowed again; `scaling`
  restarts, pods, a second writer of the replicas and a spec that
  `register_policy` refuses.
* ScalingLoop: loads of 0 to 10 and targets of 1 to 3, each with scaleDown of None,
  1 or 3, minReplicas of None, 0 or 2, maxReplicas of None, 1 or 4, maxScaleStep of
  None, 0, 1 or 2, and 0 to 5 pods, in all combinations: quotients with and
  without a rest, and every order of thresholds, bounds and current count, the
  inconsistent ones included.
  `PodLimit` stops the growth under an anomaly without maxReplicas; the run
  may stop there and when the load is balanced, so deadlock is not checked.
* Metrics: two labels, rates 0 and 2 with every share of errors, one scrape at
  any of the ten places; `Scale` = 100 makes a ratio above 1 visible. Over
  Hubble two windows (2500 ms, two ticks of the model's three; 0 s, a minute),
  three flows with `Last` = 2, so that the cap matters, five kinds of flow.
  Specs for every adapter, one that names none, one that names an unknown one,
  and specs without a route or a Deployment.
* EwmaBaseline: four error rates and two latencies or none around thresholds of
  3, warm after 2 samples, five learnt samples: a flat history, a plateau, a
  crisis and its end fit in.
* FlowPages: four kinds of flow that all pass one service: two of them make a
  cycle, one leads into it and one out of it, and together they are one
  connection more than the table has rows. Five flows in the list, three rows
  in the table, two in the diagram against 300, 15 and 10. The theorems lift
  these bounds for every property of the run.
* FlowCache: three requests (a holder, a waiter, a late comer), time to live 2
  and timeout 3 against 6 and 10 seconds in the code: a fetch can outlast the
  time to live, and a waiter can be the next to fetch.
* Credentials: two browsers, names and passwords; five keys are one more than
  can be in use at once.

### Fairness

`Reconcile!Fairness`: weak fairness of the operator's steps together (kopf
runs a due timer and a handler that runs goes on), of time, and of the
Deployment controller. None on faults, edits, or on becoming calm: `Recovers` and
`Settles` are about behaviours in which the traffic is calm from some time on.
`Metrics!Fairness`: a query, and a run of the hubble CLI, ends since it has a
timeout. `FlowCache!Fairness`: a fetch ends, since subprocess.run has a
timeout, and a waiting thread gets a lock that is free. No other module
assumes any.

## 4 Proofs

`ScalingProofs` proves for all integers, with or without each limit, that the
replica loop keeps its types (`LoopTypeCorrect`), never reverses under a
constant load (`LoopNeverReverses`), never scales down below the load
(`LoopKeepsCapacity`), and that a surge adds (`LoopSurgeAdds`). The argument:
the desired count depends on the load only, `clamp_replicas` moves from the
current count towards the clamped target and stops there at the latest
(`ClampReplicasApproaches`), hence the distance to it never changes sign. The
inductive invariant `Inv` (`LoopInvariant`) remembers on which side of the
target a loop that has moved is.

`ReconcileProofs` proves about `Spec`, for every TrafficPolicy, set of
backends, traffic, fault and edit that the assumptions of `Reconcile` admit:

* `TypeInvariant`, `TypeCorrect`. `TypeOK` alone is not inductive: a write step
  uses what the decision must carry, and `Tick` ages a decision in progress.
  `TypeInv` adds that a planned job is complete (`Planned`) and how old it may
  be (`Rearmed`).
* `CooldownHolds`. `CooldownInv` relates the auxiliary `rest` to what
  `evaluate` can read: as long as the last recorded action has to be left alone,
  the decision on record carries a deadline at least that far away, and so does
  a decision that is under way and does not act itself; noops carry the deadline, cycles
  without data keep the decision, lost results change neither. An edit of the
  cooldown does not shorten a deadline that is on record.
* `ReplicasStayBounded`, for consistent bounds and for minReplicas > maxReplicas,
  where the clamp lets maxReplicas win.
* `WeightStepsBounded`, for routes whose weights, also as edited, are in
  0..100 (section 5 says why this is needed). What is read is
  either still current or the replace fails, so the clamp is relative to the
  route as it is.
* `CutsBesideHealthy`, for any rules, and for any names in the metrics, in the
  route or not. `ServingInv`: a job that moves weights asks 100 for some
  backend; one clamped step towards 100 is above 0 (`FullWeightServes`), in each of
  its backendRefs. A weight comes to 0 only where 0 is asked for (`OnlyZeroCuts`),
  which a recovery never does (`PermittedInv`).
* `OnlyAllowedLowers`, under the same bounds. `PermittedInv`: a decision that is not
  an isolation asks for 100 for everybody it names, so that the clamp can only
  move weights up, and no isolation reaches its write under a spec that forbids
  it.

`EwmaBaselineProofs` proves all properties of the run `baseline`, for all
thresholds, samples and warmups. The heart is `UpdateAbsorbs`: after learning x,
x deviates from the new mean by 4/5 of d, where d is the old deviation, and the
new variance is at least 4/25 of d^2, so x lies within three standard
deviations, whatever came before. `CriticalLasts` rests on breaches being
upward closed (`BreachMonotonic`) and on critical cycles leaving it alone; for
this `Inv` (`BaselineInvariant`) remembers how the last assessment came about.
`CountingIsEnough` shows that `Policy`'s counters are a sound abstraction, so
that the theorems of `ReconcileProofs` are about the real warmup.

The same module proves the refinement of `RecoveryLifecycle`, in two parts. What
is on record changes only in `Record`, and only the decision that is under way
can be recorded; `RecoveryInv` therefore says that this decision follows the
one on record in one of the ways the lifecycle knows (nothing new, an
isolation, the next reissue) or drops it. `EvaluateFollows` and `EvaluateDrops` go through
`evaluate` for it, `MergeKeeps` through the merge patch of kopf, which can leave
keys of an older decision behind.

* Without any hypothesis: each step is a step of the lifecycle, or records a
  decision that moves no weights and carries none (`RecoveryKeptOrDropped`);
  and such a decision is made only of a snapshot with an anomaly that `evaluate`
  does not answer by an isolation (`DropsOnlyOnAnomaly`). This is the disagreement
  of `forgotten_isolation`, and the theorems say that there is no other one.
* `RecoveryRefines`: where every anomaly is answered by an isolation
  (`EveryAnomalyIsolated`), `Spec => RecoveryCompletes`. The hypothesis is about
  constants: traffic, specs and the states a baseline can be in. The run
  `isolation` satisfies it.

`FlowCacheProofs`, for any number of threads, any timeout and horizon: one CLI
at a time (`OneFetchAtATime`), fresh answers (`ServedFresh`) and a bounded rate of
lists (`RateIsLimited`). The lock gives the first. For the others `Ordered` relates
the four times there are: a request reads the clock before its fetch begins, and while
it fetches the cache remains of no use to it, because nobody else can fetch. So each
list after the first moves the stamp of the cache on by a time to live (`Spaced`).
`ServedFresh` needs `TTL > 0`: with 0, which the code does not use, a list is as
old as the fetch it comes from.

`CredentialsProofs`, for any browsers, names, passwords and keys: what is
called saved is saved (`SavedAsReported`), is found by the next process that can
read the file (`RestartFindsSaved`), and a change ends all sessions
(`ChangeIsFinal`). `PromiseKept` says that what was promised to survive is in the
file until another save has come to its end; `EndedSessions`, that no ended cookie
carries the present key, for which a rotated key must be one that nobody holds
(`UnusedKeys`; `secrets.token_hex` in the code).

`MetricsProofs`, for any labels, names, adapters, rates, flows, windows, retries and
losses. Its invariant has four layers:

* `CollectorInv` and `RelayInv`: types, from which `TypeCorrect`: each error rate is
  a share though errors and requests are counted at different moments.
* `DisguiseInv`: a collection that is under way has lost nothing, since the
  first loss ends it or loses the ready pods, which is the last query. From this
  `NothingIsDisguised`.
* `SumsInv`: until the first scrape the answers are what Prometheus still holds
  (`Steady`). When the last one is in, the labels are grouped by their names and the
  sums of the groups add up (`PartsMakeTheWhole`), and a ratio of sums is not above
  the largest of the ratios, also when it is rounded down (`RatioHasCulprit`), so the
  whole has a culprit (`CulpritExists`).
* `NothingIsInvented` and `NothingIsMissed` map each event that counts to the flow it
  stands for. That map is one to one, and onto if nothing was cut off.

`FlowPagesProofs`, for any flows, any length of the list, of the table and of the
diagram:

* `PagesInv` says that an address carries known labels and namespaces and that a
  page without an error is the summary of the present list under it; it is
  inductive (`PagesAsAddressed`). The other theorems follow from it and from
  lemmas about `summarize`, which hold for every list.
* `PagesAddUp`: each flow is counted under one verdict and one connection
  (`KeysAddUp`), and the table is the connections that fewer than `TopN` are ahead
  of (`RowsAreNoRarer`). For this, "ahead" is a strict order in which the number of
  those ahead is a rank without gaps (`Ranks`).
* `LinksAreKept`: the page of a link selects some of the flows, with all those of
  the row it was picked from (`WholePairs`); a connection that keeps all its flows
  while others lose some stands no lower (`RowPicked`).
* `LayersAreAlwaysHops`, whatever order the nodes are visited in. The folds of
  `_assign_layers` are read as tables of what the first so many turns make
  (`FoldsAreRuns`, `RunsGoOn`). A node that no cycle leads to is never put further
  than its longest path, and after r rounds it is where it belongs or at r at
  least (`RoundsApproach`). A path has no more nodes than there are (`PathsAreShort`),
  so as many rounds as nodes suffice (`RoundsSuffice`); `Rank` then keeps the
  order and leaves no gap.
* `OnlyCutTablesAreLost`: a page ends in a server error only where its table has
  more rows than the diagram draws, whatever the two limits are. The code ships 10
  and 15: a table of up to 10 connections is always shown, one of 11 to 15 may not
  be, as the run `diagram` shows.

`SumProofs` is what sums and counts rest on. `SumFunctionOnSet` of `Functions` is a fold
that takes some index first; that the order does not matter, that disjoint sets
and groups add up, and that sums are monotonic is proved from this definition.
The library's induction rules cannot be used, since they take an operator as a
parameter; in their place stands a least counterexample (`MinimalSubset`, from
the well-foundedness of inclusion on a finite set), also in `FlowPagesProofs`
(`Climb`).

Assumptions. `ReconcileAssumption` holds the CRD's bounds (`CRType`);
`CollectorAssumption` and `MetricsAssumption` give types to what the environment, the
registry and the specs may be, and keep the values that stand for something
missing apart from measured ones; the other constants are sets and bounds.
Bounds of the models are constants without a value, so the theorems hold for
every one. They are about the abstraction of section 2: integer loads and rates,
levels for metrics in `Reconcile`, exact fractions in `EwmaBaseline`.

Only model-checked:

* Everything temporal beyond `[][A]_vars` (`Recovers`, `Settles`,
  `CollectionEnds`, `Progress`), because liveness under fairness and ENABLED are
  outside what the prover does.
* Without `EveryAnomalyIsolated`, `RecoveryCompletes` is false
  (`forgotten_isolation`).

## 5 Limits

What the properties are conditioned on, because beyond it the code does
otherwise:

* `Recovers` is about weights that the record accounts for (`Accounted`). The
  reissues of a recovery are counted by decisions (engine.py:373): a reroute
  that fails in the API counts, and so the backend ends below its full weight.
* `CutOnlyBesideHealthy` says that a backend loses all weight only beside a healthy
  one, and what is healthy is a name in the metrics. The code does not ask whether
  the route refers to it: Istio's `{route}.*` can match a workload outside
  (istio.py:33), a label of Envoy may resolve to no backendRef
  (envoy_gateway.py:86-106), and targets that match nothing are only noted
  (router.py:149-166). Then the only backend of a route can be isolated to 0,
  and where the healthy backend is in another rule, that of a rule. So the property
  does not say that every rule, or even the route, keeps a backend that serves,
  which is what anomaly.py:74 intends (isolation makes sense only while a healthy
  backend is left).
* The clamp of router.py:9-11 is in weight points. On a route whose weights are left out
  (1 each) one cycle can still move all traffic (1 to 0 beside 1 to 31).
* `WeightStepBounded` assumes weights of 0 to 100. Gateway API weights may be
  larger, and a weight above 130 is confined to 100 in one cycle
  (router.py:50).
* Target weights are absolute. On a route with default weights (1) a warning
  isolation raises the culprit to 20 (engine.py:42, router.py:40).
* `ReplicasBounded` bounds the step from the count that was read. The patch
  carries no resourceVersion (scaler.py:100): when another writer comes in
  between, the step in the cluster can be larger than maxScaleStep.
* `CooldownRespected` is about scale and isolate. Reroutes come every cycle
  of a recovery, as `_cooldown_remaining` explains and README.md:288 does not.
* `CompleteBelowCap`: above HUBBLE_METRICS_LAST flows in the namespace the
  target's are undercounted, down to no_data (hubble_collector.py:56).
* An increase is counted from the ready pods, the clamp from spec.replicas
  (scaling.py:153, scaler.py:48): with 4 replicas of which 1 is ready, an anomaly
  targets 2 and the patch removes pods. `Settles` says that the loop arrives at
  enough pods all the same.
* At minReplicas 0 an idle service is scaled to 0 pods, which only happens
  without any load (`DownKeepsCapacity`); with 0 pods `assess_scaling` decides
  nothing, so nothing wakes the service when load comes back (scaling.py:67).
* A dry run that is switched on during a recovery uses up reissues without
  raising a weight. `Recovers` is about specs that are not a dry run and weights
  that are still accounted for.
* A TrafficPolicy that is deleted leaves an isolated backend low, and its
  baseline stays in memory for one that is created again.
* `SteadySums` and `ErrorsHaveCulprit` hold where totals and parts come from
  one source (`OneSource`). NGINX counts the total at the server zone and the
  parts at the upstreams, and a series without a name belongs to no backend. The
  p99 of labels that share a name are added up (collector.py:262); nothing
  reads them.
* What is learnt as a warning is normal from the next cycle on (`Absorbed`): a
  plateau below the static threshold is reported once, and an outage that
  began before the warmup, or after a restart, becomes critical only by getting
  worse.
* Without a latency, over Hubble, nothing is ever critical
  (`BlindNeverCritical`).
* A link that gives one focus up for another may lead to a table without the
  row it was picked from, when connections no rarer fill it (`RowKept`).
* In the diagram an edge may go up or stay level when a cycle leads to its
  source; `LayersAreHops` leaves these edges out.
* A viewer that waited for the lock stores flows under the time it read before
  (hubble_flows.py:62), and who arrived a time to live or more after that, while
  it fetched, fetches again as soon as the lock is free, although
  hubble_flows.py:55-57 says that all who waited reuse the list just cached. With 6
  and 10 seconds this takes a fetch of more than 6. Failures are not cached: behind
  a fetch that failed each waiter starts the CLI again, and two lists may follow
  each other at once. `RateLimited` is what is left: the successful fetches are
  no more than one per time to live in the long run.
* Output of a CLI that ends with an error counts as complete
  (hubble_client.py:163); `NeverInvents` holds all the same.
* An idle route whose series exist is `ok` with rps 0, not `no_data`
  (collector.py:146).
* `SavedSurvive` is about restarts that can read the file. One that cannot
  (an OSError of open) takes it for missing and overwrites it with the default
  login (auth.py:82-86). After a change whose save failed, a restart finds the
  login saved before, not the default one the settings page names.
* Two settings forms at once: the form resends the present name, so the later
  one can undo the earlier one's change of name, and the earlier browser gets
  a cookie for a name that is no longer valid.
* `ChangeEndsSessions` is about the cookies there were at a change. A login whose
  password was verified before it and whose cookie is issued after it carries the
  new key and is valid.

Not modelled:

* Edits that add or remove backendRefs of the HTTPRoute: other writers change its
  weights only.
* `register_policy` and `cleanup_policy` (they write a status of their own that
  nobody reads), the fallbacks of `handlers.py`, `main.py`.
* Two TrafficPolicies with one target (they share a baseline and a route). The
  other writers of `Reconcile` cover what a second policy does to the cluster.
* How backend names are cut out of the labels of Envoy, Istio and NGINX, the
  text of the queries, HTTP and JSON.
* `dashboard/data.py` and the policy list: one read of the API, rendered.
  Coordinates and HTML of the diagram.
* Two dashboards on one volume during a rolling update.
* `handlers._parse_window_seconds`, whose result is only reported; it disagrees
  with the collector's parser (0s is 0 and not a minute, ms are cut off and not
  rounded).
* Rounding of floats; `_EPS`.
* CRD, charts and CI, except for the bounds the CRD puts on `Specs`.

## 6 Plan

Done: all of section 2, with the control loop under edits of the spec, the
composition of both collectors, the numbers of the baseline, and the traffic
page; the theorems of section 4, about every module that is run, which state
every property of a passing run but the liveness properties.

Left, in this order:

1. Two TrafficPolicies over one route: two handlers, one cluster, one baseline.
2. `Recovers` and `Settles` have a safety part each (what a cycle without faults
   brings nearer) that could be a theorem, although the properties cannot.
