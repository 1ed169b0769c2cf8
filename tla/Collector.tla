----------------------------- MODULE Collector -----------------------------
(***************************************************************************)
(* metrics/collector.py: one snapshot is put together from nine instant    *)
(* queries that are sent to Prometheus one after the other, each with a    *)
(* retry (metrics/prometheus_client.py).  Prometheus goes on scraping      *)
(* meanwhile, so two answers need not describe the same moment.            *)
(*                                                                         *)
(* The data: the rates the series have at the moment, as small numbers; a  *)
(* ratio is an integer share of Scale; a latency is known or missing.  A   *)
(* gateway is one of its adapters (metrics/adapters): they differ in the   *)
(* name they make of a series' label and in what there is to be asked for. *)
(***************************************************************************)
EXTENDS Integers, Sequences, FiniteSets, Functions

CONSTANTS
  Series,        \* values of the backend label
  Backends,      \* names of backendRefs
  Specs,         \* the specs to collect for
  EnvImpl,       \* GATEWAY_IMPLEMENTATION, or None
  Adapters,      \* _REGISTRY
  Aliases,       \* _ALIASES: other spellings of their names
  DefaultImpl,   \* DEFAULT_IMPL
  NameOf(_, _, _),  \* map_backend_name of an adapter, for a label of a route's
                 \* series; None where they carry no such label
  ZoneExtra,     \* requests NGINX answers itself, with an error
  Rates,         \* rates a request series can have
  PodCounts,     \* ready replicas kube-state-metrics can report
  Scale,         \* an error rate of 1.0
  Retries,       \* PrometheusClient.retries
  MaxScrapes,    \* bound of the model: scrapes in the course of one collection
  Known,         \* a latency that was measured
  None           \* no series, NaN, or not answered

ASSUME CollectorAssumption ==
  /\ IsFiniteSet(Series)
  /\ Rates \subseteq Nat
  /\ DefaultImpl \in Adapters
  /\ \A adapter \in Adapters, policy \in Specs, s \in Series :
       NameOf(adapter, policy.route, s) \in Backends \union {None}
  /\ ZoneExtra \in Nat
  /\ Scale \in Nat \ {0}
  /\ Retries \in Nat
  /\ MaxScrapes \in Nat
  /\ None \notin Nat

VARIABLES
  spec,       \* the TrafficPolicy that is collected for
  series,     \* per label: the rates of its request and 5xx series
  at,         \* the query under way, 0 between two collections
  attempt,    \* failed attempts of that query
  got,        \* the answers so far
  snapshot,   \* what the last collection returned
  scrapes,    \* how often the series changed during this collection
  lost        \* auxiliary: the queries this collection gave up

prometheusVars == <<series, at, attempt, got, scrapes, lost>>

----------------------------------------------------------------------------
(* What Prometheus holds *)

\* A series stays, at rate 0, when the traffic stops; the 5xx series appears
\* with the first error.
BackendSeries ==
  UNION {[rps : {rate}, errors : 0..rate \union {None}] : rate \in Rates}

World == [Series -> BackendSeries \union {None}]

Seen   == {s \in Series : series[s] # None}
Erring == {s \in Seen : series[s].errors # None}
Busy   == {s \in Seen : series[s].rps > 0}

RequestRates == [s \in Seen |-> series[s].rps]
ErrorRates   == [s \in Erring |-> series[s].errors]

\* _resolve_impl: the environment, then the spec, then the default.
ResolveImpl ==
  IF EnvImpl # None THEN EnvImpl
  ELSE IF spec.implementation # None THEN spec.implementation ELSE DefaultImpl

Canonical == IF ResolveImpl \in DOMAIN Aliases THEN Aliases[ResolveImpl] ELSE ResolveImpl

\* get_adapter: one that is not known is taken for the default.  Case and blanks
\* do not count: a value stands for all ways to write it.
Adapter == IF Canonical \in Adapters THEN Canonical ELSE DefaultImpl

\* NGINX knows the mean, which stands in for p50, and no other quantile; its
\* totals are those of the server zone, its parts those of the upstreams.
IsNginx == Adapter = "nginx-gateway-fabric"
Extra   == IF IsNginx THEN ZoneExtra ELSE 0

\* sum(rate(...)) has no result without a series, histogram_quantile of a
\* histogram without observations is NaN.
AggregateQuery(q) ==
  CASE q = "total_rps" -> IF Seen = {} THEN None ELSE SumFunction(RequestRates) + Extra
    [] q = "error_rps" -> IF Erring = {} /\ (Extra = 0 \/ Seen = {})
                            THEN None ELSE SumFunction(ErrorRates) + Extra
    [] q = "p50"       -> IF (IF IsNginx THEN Seen ELSE Busy) = {} THEN None ELSE Known
    [] OTHER           -> IF IsNginx \/ Busy = {} THEN None ELSE Known

\* The same, by label.
BackendQuery(q) ==
  CASE q = "backend_rps"    -> RequestRates
    [] q = "backend_errors" -> ErrorRates
    [] OTHER                -> [s \in IF IsNginx THEN {} ELSE Busy |-> Known]

----------------------------------------------------------------------------
(* What the collector makes of it *)

Quantiles     == {"p50", "p95", "p99"}
PerBackend    == {"backend_rps", "backend_errors", "backend_p99"}
Queries ==
  <<"total_rps", "error_rps", "p50", "p95", "p99",
    "backend_rps", "backend_errors", "backend_p99", "ready_pods">>

NoAnswers == [q \in Range(Queries) |-> None]

\* Mutant of SafeRatio: no clamp.
RatioUnclamped(numer, denom) ==
  IF denom <= 0 THEN 0 ELSE (numer * Scale) \div denom

\* _safe_ratio
SafeRatio(numer, denom) ==
  IF denom <= 0 THEN 0
  ELSE IF numer > denom THEN Scale ELSE (numer * Scale) \div denom

Name(s) == NameOf(Adapter, spec.route, s)

\* Mutant of Vector: of labels with the same name one is taken.
VectorOverwrites(answer) ==
  [b \in {Name(s) : s \in DOMAIN answer} \ {None} |->
     answer[CHOOSE s \in DOMAIN answer : Name(s) = b]]

\* _vector: by name; labels with the same name are added up, those without a
\* name dropped.  (So are latencies, which nothing reads: they stay known.)
Vector(answer) ==
  [b \in {Name(s) : s \in DOMAIN answer} \ {None} |->
     LET mine == {s \in DOMAIN answer : Name(s) = b}
     IN  IF \E s \in mine : answer[s] = Known THEN Known
         ELSE SumFunctionOnSet(answer, mine)]

\* What a query without a result stands for where a result is expected.
ValueAt(answer, b, default) == IF b \in DOMAIN answer THEN answer[b] ELSE default

\* Mutant of BuildPerBackend: errors measured against the traffic of all.
BuildAgainstTotal(answers) ==
  {[name  |-> b,
    rps   |-> answers["backend_rps"][b],
    error |-> SafeRatio(ValueAt(answers["backend_errors"], b, 0),
                        answers["total_rps"]),
    p99   |-> ValueAt(answers["backend_p99"], b, None)] :
   b \in DOMAIN answers["backend_rps"]}

\* _build_per_backend: a backend is one with a request series.
BuildPerBackend(answers) ==
  {[name  |-> b,
    rps   |-> answers["backend_rps"][b],
    error |-> SafeRatio(ValueAt(answers["backend_errors"], b, 0),
                        answers["backend_rps"][b]),
    p99   |-> ValueAt(answers["backend_p99"], b, None)] :
   b \in DOMAIN answers["backend_rps"]}

\* _failed, and the early return without traffic: every metric is missing.
Unmeasured(status) ==
  [status |-> status, rps |-> None, error |-> None,
   latency |-> [q \in Quantiles |-> None], backends |-> {}, pods |-> None]

\* _collect, once the answers are there; no 5xx series means no errors.
Measured(answers) ==
  [status   |-> "ok",
   rps      |-> answers["total_rps"],
   error    |-> SafeRatio(IF answers["error_rps"] = None THEN 0 ELSE answers["error_rps"],
                          answers["total_rps"]),
   latency  |-> [q \in Quantiles |-> answers[q]],
   backends |-> BuildPerBackend(answers),
   pods     |-> answers["ready_pods"]]

----------------------------------------------------------------------------
Init ==
  /\ spec \in Specs
  /\ series = [s \in Series |-> None]
  /\ at = 0
  /\ attempt = 0
  /\ got = NoAnswers
  /\ snapshot = None
  /\ scrapes = 0
  /\ lost = {}

Query == Queries[at]

\* A request is under way; without a Deployment there is none for its pods.
Requested == at > 0 /\ (Query = "ready_pods" => spec.deployment)

\* collect is called for the next reconcile, with whatever is measured by then.
Begin ==
  /\ at = 0
  /\ spec.route # None
  /\ at' = 1
  /\ series' \in World
  /\ snapshot' = None
  /\ scrapes' = 0
  /\ lost' = {}
  /\ UNCHANGED <<spec, attempt, got>>

Scrape ==
  /\ at > 0
  /\ scrapes < MaxScrapes
  /\ scrapes' = scrapes + 1
  /\ series' \in World \ {series}
  /\ UNCHANGED <<spec, at, attempt, got, snapshot, lost>>

Return(snap) ==
  /\ snapshot' = snap
  /\ at' = 0
  /\ attempt' = 0
  /\ got' = NoAnswers

Accept(answer) ==
  /\ got' = [got EXCEPT ![Query] = answer]
  /\ at' = at + 1
  /\ attempt' = 0
  /\ UNCHANGED snapshot

\* query answers: no total means no data, the others fill the snapshot.
AnswerAggregate ==
  /\ at > 0
  /\ Query \in {"total_rps", "error_rps"} \union Quantiles
  /\ IF Query = "total_rps" /\ AggregateQuery(Query) = None
       THEN Return(Unmeasured("no_data"))
       ELSE Accept(AggregateQuery(Query))
  /\ UNCHANGED <<spec, series, scrapes, lost>>

AnswerBackends ==
  /\ at > 0
  /\ Query \in PerBackend
  /\ Accept(Vector(BackendQuery(Query)))
  /\ UNCHANGED <<spec, series, scrapes, lost>>

\* collect without a target: it cannot be told what to collect.
Refuse ==
  /\ at = 0
  /\ spec.route = None
  /\ Return(Unmeasured("collection_failed"))
  /\ UNCHANGED <<spec, series, scrapes, lost>>

\* _query_ready_pods is the last one.
AnswerPods ==
  /\ at > 0
  /\ Query = "ready_pods"
  /\ \E pods \in IF spec.deployment THEN PodCounts \union {None} ELSE {None} :
       Return(Measured([got EXCEPT !["ready_pods"] = pods]))
  /\ UNCHANGED <<spec, series, scrapes, lost>>

\* Mutant of Retry: the attempts are counted from the start again.
RetryForever ==
  /\ Requested
  /\ attempt' = (attempt + 1) % (Retries + 1)
  /\ UNCHANGED <<spec, series, at, got, snapshot, scrapes, lost>>

\* An attempt times out, is refused, or its answer cannot be read.
Retry ==
  /\ Requested
  /\ attempt < Retries
  /\ attempt' = attempt + 1
  /\ UNCHANGED <<spec, series, at, got, snapshot, scrapes, lost>>

\* Mutant of GiveUp: a failed 5xx query is taken for one without a result.
GiveUpAsZero ==
  /\ Requested
  /\ attempt = Retries
  /\ lost' = lost \union {Query}
  /\ CASE Query = "ready_pods" -> Return(Measured([got EXCEPT !["ready_pods"] = None]))
       [] Query = "error_rps"  -> Accept(None)
       [] OTHER                -> Return(Unmeasured("collection_failed"))
  /\ UNCHANGED <<spec, series, scrapes>>

\* The last attempt fails: PrometheusConnectionError ends the collection,
\* except that the ready pods are only wished for.
GiveUp ==
  /\ Requested
  /\ attempt = Retries
  /\ lost' = lost \union {Query}
  /\ IF Query = "ready_pods"
       THEN Return(Measured([got EXCEPT !["ready_pods"] = None]))
       ELSE Return(Unmeasured("collection_failed"))
  /\ UNCHANGED <<spec, series, scrapes>>

CollectOverPrometheus ==
  \/ Begin
  \/ Refuse
  \/ Scrape
  \/ AnswerAggregate
  \/ AnswerBackends
  \/ AnswerPods
  \/ Retry
  \/ GiveUp

\* Every attempt ends, at the latest with the timeout of the request.
Answer == AnswerAggregate \/ AnswerBackends \/ AnswerPods \/ Retry \/ GiveUp

----------------------------------------------------------------------------
(* Properties *)

OptionalLatency == {Known, None}

BackendTraffic ==
  [name : Backends, rps : Nat, error : 0..Scale, p99 : OptionalLatency]

\* The normalisation schemas.py demands of a snapshot.
TrafficSnapshot ==
  [status   : {"ok", "no_data", "collection_failed"},
   rps      : Nat \union {None},
   error    : (0..Scale) \union {None},
   latency  : [Quantiles -> OptionalLatency],
   backends : SUBSET BackendTraffic,
   pods     : PodCounts \union {None}]

\* A query that is not answered yet, or has no result, is None.
ByName(answer, values) ==
  answer # None => \E names \in SUBSET Backends : answer \in [names -> values]

AnswersOK ==
  /\ DOMAIN got = Range(Queries)
  /\ \A q \in {"total_rps", "error_rps"} : got[q] \in Nat \union {None}
  /\ \A q \in Quantiles : got[q] \in OptionalLatency
  /\ ByName(got["backend_rps"], Nat)
  /\ ByName(got["backend_errors"], Nat)
  /\ ByName(got["backend_p99"], {Known})
  /\ \A i \in DOMAIN Queries : got[Queries[i]] # None => i < at

PrometheusTypeOK ==
  /\ spec \in Specs
  /\ series \in World
  /\ at \in 0..Len(Queries)
  /\ attempt \in 0..Retries
  /\ AnswersOK
  /\ scrapes \in 0..MaxScrapes
  /\ lost \subseteq Range(Queries)

Done(status) == snapshot # None /\ snapshot.status = status

\* One of the queries a snapshot cannot do without was given up.
Unanswered == lost \ {"ready_pods"} # {}
============================================================================
