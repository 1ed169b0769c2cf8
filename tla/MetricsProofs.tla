---------------------------- MODULE MetricsProofs ----------------------------
(***************************************************************************)
(* Snapshots are honest: for any series, labels, adapters, flows, windows  *)
(* and losses.  The invariant has four layers:                             *)
(*   CollectorInv  the answers so far and the snapshot have their types;   *)
(*   RelayInv      so have the flows, and the time read lies in the past;  *)
(*   DisguiseInv   one collector is under way at most, and has lost        *)
(*                 nothing: the first loss that matters ends it;           *)
(*   SumsInv       until the first scrape the answers are what Prometheus  *)
(*                 still holds, so that they fit together at the end.      *)
(***************************************************************************)
EXTENDS Metrics, SumProofs, TLAPS

\* A share of the whole is between 0 and 1.
LEMMA ShareInRange ==
  ASSUME NEW a \in Nat, NEW b \in Nat, b > 0, a <= b
  PROVE  (a * Scale) \div b \in 0..Scale
<1> DEFINE q == (a * Scale) \div b
<1>0. Scale \in Nat
  BY CollectorAssumption
<1>1. a * Scale <= b * Scale /\ a * Scale \in Nat
  BY <1>0
<1>2. q \in Nat /\ b * q <= a * Scale
  BY <1>1
<1>3. ASSUME q > Scale PROVE b * q > b * Scale
  BY <1>0, <1>2, <1>3
<1> HIDE DEF q
<1>4. b * q \in Int /\ b * Scale \in Int
  BY <1>0, <1>2
<1>5. q <= Scale
  BY <1>0, <1>1, <1>2, <1>3, <1>4
<1>6. q \in 0..Scale
  BY <1>0, <1>2, <1>5
<1> QED
  BY <1>6 DEF q

\* _safe_ratio clamps: a share even of answers that do not fit together.
LEMMA RatioInRange ==
  ASSUME NEW numer \in Nat, NEW denom \in Nat
  PROVE  SafeRatio(numer, denom) \in 0..Scale
BY ShareInRange, CollectorAssumption DEF SafeRatio

----------------------------------------------------------------------------
(* What Prometheus answers, and what the collector makes of it.            *)

\* The nine queries of _collect, in their order, each asked once.
LEMMA QueriesAre ==
  /\ Len(Queries) = 9 /\ DOMAIN Queries = 1..9
  /\ Queries[1] = "total_rps" /\ Queries[2] = "error_rps"
  /\ Queries[3] = "p50" /\ Queries[4] = "p95" /\ Queries[5] = "p99"
  /\ Queries[6] = "backend_rps" /\ Queries[7] = "backend_errors"
  /\ Queries[8] = "backend_p99" /\ Queries[9] = "ready_pods"
BY DEF Queries

LEMMA QueryNames ==
  Range(Queries) =
    {"total_rps", "error_rps", "p50", "p95", "p99",
     "backend_rps", "backend_errors", "backend_p99", "ready_pods"}
BY QueriesAre DEF Range

LEMMA QueriesDistinct ==
  ASSUME NEW i \in DOMAIN Queries, NEW j \in DOMAIN Queries, Queries[i] = Queries[j]
  PROVE  i = j
BY QueriesAre

\* What Prometheus holds: finitely many rates, and no more errors than requests.
LEMMA RatesAreNat ==
  ASSUME series \in World
  PROVE  /\ Seen \subseteq Series /\ Erring \subseteq Seen
         /\ IsFiniteSet(Seen) /\ IsFiniteSet(Erring)
         /\ RequestRates \in [Seen -> Nat]
         /\ ErrorRates \in [Erring -> Nat]
         /\ \A s \in Erring : ErrorRates[s] <= RequestRates[s]
<1>1. Seen \subseteq Series /\ Erring \subseteq Seen
  BY DEF Seen, Erring
<1>2. IsFiniteSet(Seen) /\ IsFiniteSet(Erring)
  BY <1>1, FS_Subset, CollectorAssumption
<1>3. ASSUME NEW s \in Seen PROVE series[s].rps \in Nat
  BY <1>3, CollectorAssumption DEF Seen, World, BackendSeries
<1>4. ASSUME NEW s \in Erring PROVE series[s].errors \in 0..series[s].rps
  BY <1>4, CollectorAssumption DEF Erring, Seen, World, BackendSeries
<1>5. ASSUME NEW s \in Erring
      PROVE  series[s].errors \in Nat /\ series[s].errors <= series[s].rps
  BY <1>1, <1>3, <1>4
<1> QED
  BY <1>1, <1>2, <1>3, <1>5 DEF RequestRates, ErrorRates

\* An adapter makes a backend of a label, or nothing.
LEMMA NameTyped ==
  ASSUME spec \in Specs, NEW s \in Series
  PROVE  Name(s) \in Backends \union {None}
<1>1. Adapter \in Adapters
  BY CollectorAssumption DEF Adapter
<1> QED
  BY <1>1, CollectorAssumption DEF Name

NamesOf(S) == {Name(s) : s \in S} \ {None}

LabelsOf(S, b) == {s \in S : Name(s) = b}

\* _vector: rates with one name are added up.
LEMMA VectorOfRates ==
  ASSUME spec \in Specs, NEW S \in SUBSET Series, NEW answer \in [S -> Nat]
  PROVE  /\ NamesOf(S) \subseteq Backends
         /\ Vector(answer) \in [NamesOf(S) -> Nat]
         /\ \A b \in NamesOf(S) : Vector(answer)[b] = SumFunctionOnSet(answer, LabelsOf(S, b))
<1>1. NamesOf(S) \subseteq Backends
  BY NameTyped DEF NamesOf
<1>2. ASSUME NEW b \in NamesOf(S)
      PROVE  /\ SumFunctionOnSet(answer, LabelsOf(S, b)) \in Nat
             /\ ~ \E s \in LabelsOf(S, b) : answer[s] = Known
  <2>1. IsFiniteSet(LabelsOf(S, b)) /\ LabelsOf(S, b) \subseteq S
    BY FS_Subset, CollectorAssumption DEF LabelsOf
  <2> QED
    BY <2>1, SumIsNat, MetricsAssumption
<1>3. Vector(answer) = [b \in NamesOf(S) |->
        IF \E s \in LabelsOf(S, b) : answer[s] = Known THEN Known
        ELSE SumFunctionOnSet(answer, LabelsOf(S, b))]
  BY DEF Vector, NamesOf, LabelsOf
<1> QED
  BY <1>1, <1>2, <1>3

\* _vector: of latencies it is only kept that they are known.
LEMMA VectorOfLatencies ==
  ASSUME spec \in Specs, NEW S \in SUBSET Series, NEW answer \in [S -> {Known}]
  PROVE  Vector(answer) \in [NamesOf(S) -> {Known}] /\ NamesOf(S) \subseteq Backends
<1>1. NamesOf(S) \subseteq Backends
  BY NameTyped DEF NamesOf
<1>2. ASSUME NEW b \in NamesOf(S) PROVE \E s \in LabelsOf(S, b) : answer[s] = Known
  BY <1>2 DEF NamesOf, LabelsOf
<1>3. Vector(answer) = [b \in NamesOf(S) |->
        IF \E s \in LabelsOf(S, b) : answer[s] = Known THEN Known
        ELSE SumFunctionOnSet(answer, LabelsOf(S, b))]
  BY DEF Vector, NamesOf, LabelsOf
<1> QED
  BY <1>1, <1>2, <1>3

----------------------------------------------------------------------------
(* Types over Prometheus.                                                  *)

Rated(answer, values) == \E names \in SUBSET Backends : answer \in [names -> values]

\* Whatever a snapshot is made of has been answered by the time it is made.
Gathered ==
  /\ at > 1 => got["total_rps"] \in Nat
  /\ at > 6 => Rated(got["backend_rps"], Nat)
  /\ at > 7 => Rated(got["backend_errors"], Nat)
  /\ at > 8 => Rated(got["backend_p99"], {Known})

SnapshotOK == snapshot # None => snapshot \in TrafficSnapshot

CollectorInv == PrometheusTypeOK /\ Gathered /\ SnapshotOK

\* A snapshot in which everything is missing is a snapshot (_failed).
LEMMA UnmeasuredTyped ==
  ASSUME NEW status \in {"ok", "no_data", "collection_failed"}
  PROVE  Unmeasured(status) \in TrafficSnapshot
BY DEF Unmeasured, TrafficSnapshot, OptionalLatency, BackendTraffic

\* So are the backends of _build_per_backend, whatever the answers of the three
\* queries they are made of.
LEMMA BackendsTyped ==
  ASSUME NEW answers, Rated(answers["backend_rps"], Nat),
         Rated(answers["backend_errors"], Nat), Rated(answers["backend_p99"], {Known})
  PROVE  BuildPerBackend(answers) \in SUBSET BackendTraffic
<1> DEFINE rps    == answers["backend_rps"]
           errors == answers["backend_errors"]
           p99    == answers["backend_p99"]
<1>1. SUFFICES ASSUME NEW b \in DOMAIN rps
      PROVE  [name |-> b, rps |-> rps[b],
              error |-> SafeRatio(ValueAt(errors, b, 0), rps[b]),
              p99 |-> ValueAt(p99, b, None)] \in BackendTraffic
  BY DEF BuildPerBackend
<1>2. b \in Backends /\ rps[b] \in Nat
  BY DEF Rated
<1>3. ValueAt(errors, b, 0) \in Nat
  BY DEF Rated, ValueAt
<1>4. ValueAt(p99, b, None) \in OptionalLatency
  BY DEF Rated, ValueAt, OptionalLatency
<1>5. SafeRatio(ValueAt(errors, b, 0), rps[b]) \in 0..Scale
  BY <1>2, <1>3, RatioInRange
<1> HIDE DEF rps, errors, p99
<1> QED
  BY <1>2, <1>4, <1>5 DEF BackendTraffic

\* And so is what _collect returns when the last answer, the ready pods, is there.
LEMMA MeasuredTyped ==
  ASSUME PrometheusTypeOK, Gathered, at = 9, NEW pods \in PodCounts \union {None}
  PROVE  Measured([got EXCEPT !["ready_pods"] = pods]) \in TrafficSnapshot
<1> DEFINE answers == [got EXCEPT !["ready_pods"] = pods]
<1>1. /\ answers["ready_pods"] = pods
      /\ \A q \in Range(Queries) \ {"ready_pods"} : answers[q] = got[q]
  BY QueryNames DEF PrometheusTypeOK, AnswersOK
<1>2. /\ answers["total_rps"] \in Nat
      /\ answers["error_rps"] \in Nat \union {None}
      /\ \A q \in Quantiles : answers[q] \in OptionalLatency
      /\ Rated(answers["backend_rps"], Nat)
      /\ Rated(answers["backend_errors"], Nat)
      /\ Rated(answers["backend_p99"], {Known})
  BY <1>1, QueryNames DEF PrometheusTypeOK, AnswersOK, Gathered, Quantiles
<1> HIDE DEF answers
<1>3. BuildPerBackend(answers) \in SUBSET BackendTraffic
  BY <1>2, BackendsTyped
<1>4. SafeRatio(IF answers["error_rps"] = None THEN 0 ELSE answers["error_rps"],
                answers["total_rps"]) \in 0..Scale
  BY <1>2, RatioInRange
<1>5. [q \in Quantiles |-> answers[q]] \in [Quantiles -> OptionalLatency]
  BY <1>2
<1>6. Measured(answers) \in TrafficSnapshot
  BY <1>1, <1>2, <1>3, <1>4, <1>5 DEF Measured, TrafficSnapshot
<1> QED
  BY <1>6 DEF answers

LEMMA CollectorInit == MetricsInit => CollectorInv
<1> SUFFICES ASSUME MetricsInit PROVE CollectorInv
  OBVIOUS
<1>1. PrometheusTypeOK
  BY CollectorAssumption, QueryNames, QueriesAre
     DEF MetricsInit, Init, PrometheusTypeOK, AnswersOK, NoAnswers, World, ByName,
         Quantiles, OptionalLatency
<1> QED
  BY <1>1 DEF MetricsInit, Init, CollectorInv, Gathered, SnapshotOK

\* A collection that returns leaves no answers behind.
LEMMA ReturnTyped ==
  ASSUME CollectorInv, NEW snap \in TrafficSnapshot, Return(snap),
         UNCHANGED <<spec, series, scrapes>>, lost' \subseteq Range(Queries)
  PROVE  CollectorInv'
<1>1. AnswersOK'
  BY QueryNames, QueriesAre
     DEF Return, AnswersOK, NoAnswers, ByName, Quantiles, OptionalLatency
<1> QED
  BY <1>1, CollectorAssumption
     DEF Return, CollectorInv, PrometheusTypeOK, Gathered, SnapshotOK, World

\* The other queries keep their answers, and this one is the next.
LEMMA AcceptTyped ==
  ASSUME CollectorInv, NEW answer, at \in 1..8, Accept(answer),
         UNCHANGED <<spec, series, scrapes, lost>>,
         Query = "total_rps" => answer \in Nat,
         Query = "error_rps" => answer \in Nat \union {None},
         Query \in Quantiles => answer \in OptionalLatency,
         Query = "backend_rps" => Rated(answer, Nat),
         Query = "backend_errors" => Rated(answer, Nat),
         Query = "backend_p99" => Rated(answer, {Known})
  PROVE  CollectorInv'
<1>1. /\ DOMAIN got' = Range(Queries)
      /\ got'[Query] = answer
      /\ \A q \in Range(Queries) : q # Query => got'[q] = got[q]
      /\ Query \in Range(Queries)
  <2>1. Query \in Range(Queries)
    BY QueriesAre DEF Query, Range
  <2> QED
    BY <2>1 DEF Accept, CollectorInv, PrometheusTypeOK, AnswersOK
<1>2. \A i \in DOMAIN Queries : Queries[i] = Query <=> i = at
  BY QueriesAre, QueriesDistinct DEF Query
<1>3. AnswersOK'
  <2>1. \A q \in {"total_rps", "error_rps"} : got'[q] \in Nat \union {None}
    BY <1>1, QueryNames DEF CollectorInv, PrometheusTypeOK, AnswersOK
  <2>2. \A q \in Quantiles : got'[q] \in OptionalLatency
    BY <1>1, QueryNames DEF CollectorInv, PrometheusTypeOK, AnswersOK, Quantiles
  <2>3. /\ ByName(got'["backend_rps"], Nat)
        /\ ByName(got'["backend_errors"], Nat)
        /\ ByName(got'["backend_p99"], {Known})
    BY <1>1, QueryNames DEF CollectorInv, PrometheusTypeOK, AnswersOK, ByName, Rated
  <2>4. \A i \in DOMAIN Queries : got'[Queries[i]] # None => i < at'
    <3> TAKE i \in DOMAIN Queries
    <3>1. Queries[i] \in Range(Queries)
      BY DEF Range
    <3>2. CASE i = at
      BY <3>2 DEF Accept
    <3>3. CASE i # at
      BY <1>1, <1>2, <3>1, <3>3, QueriesAre
         DEF Accept, CollectorInv, PrometheusTypeOK, AnswersOK
    <3> QED
      BY <3>2, <3>3
  <2> QED
    BY <1>1, <2>1, <2>2, <2>3, <2>4 DEF AnswersOK
<1>4. Gathered'
  <2>1. at' = at + 1
    BY DEF Accept
  <2> QED
    BY <1>1, <1>2, <2>1, QueriesAre, QueryNames DEF CollectorInv, Gathered
<1> QED
  BY <1>3, <1>4, QueriesAre, CollectorAssumption
     DEF Accept, CollectorInv, PrometheusTypeOK, SnapshotOK, World

\* The answers to the queries without a label,
LEMMA AggregateTyped ==
  ASSUME spec \in Specs, series \in World, NEW q
  PROVE  /\ q \in {"total_rps", "error_rps"} => AggregateQuery(q) \in Nat \union {None}
         /\ q \in Quantiles => AggregateQuery(q) \in OptionalLatency
<1>1. SumFunction(RequestRates) \in Nat /\ SumFunction(ErrorRates) \in Nat
  BY RatesAreNat, SumIsNat DEF SumFunction
<1>2. Extra \in Nat
  BY CollectorAssumption DEF Extra
<1>3. CASE q \in {"total_rps", "error_rps"}
  BY <1>1, <1>2, <1>3 DEF AggregateQuery, Quantiles
<1>4. CASE q \in Quantiles
  BY <1>4 DEF AggregateQuery, Quantiles, OptionalLatency
<1> QED
  BY <1>3, <1>4

\* and to those with one, are of the type _collect expects.
LEMMA BackendsAnswerTyped ==
  ASSUME spec \in Specs, series \in World, NEW q \in PerBackend
  PROVE  /\ q \in {"backend_rps", "backend_errors"} => Rated(Vector(BackendQuery(q)), Nat)
         /\ q = "backend_p99" => Rated(Vector(BackendQuery(q)), {Known})
<1>1. CASE q = "backend_rps"
  <2>1. BackendQuery(q) = RequestRates
    BY <1>1 DEF BackendQuery
  <2> QED
    BY <1>1, <2>1, RatesAreNat, VectorOfRates DEF Rated
<1>2. CASE q = "backend_errors"
  <2>1. BackendQuery(q) = ErrorRates /\ Erring \subseteq Series
    BY <1>2, RatesAreNat DEF BackendQuery
  <2> QED
    BY <1>2, <2>1, RatesAreNat, VectorOfRates DEF Rated
<1>3. CASE q = "backend_p99"
  <2> DEFINE S == IF IsNginx THEN {} ELSE Busy
  <2>1. BackendQuery(q) = [s \in S |-> Known] /\ S \in SUBSET Series
    BY <1>3 DEF BackendQuery, Busy, Seen
  <2> HIDE DEF S
  <2> QED
    BY <1>3, <2>1, VectorOfLatencies DEF Rated
<1> QED
  BY <1>1, <1>2, <1>3 DEF PerBackend

\* Each step of a collection over Prometheus: an answer is put in its place, or
\* the collection returns.
LEMMA CollectorStep ==
  ASSUME CollectorInv, CollectOverPrometheus
  PROVE  CollectorInv'
<1> USE DEF CollectorInv, PrometheusTypeOK
<1>1. CASE Begin
  <2>1. at = 0 /\ at' = 1 /\ got' = got
    BY <1>1 DEF Begin
  <2>2. AnswersOK'
    BY <2>1, QueriesAre DEF AnswersOK
  <2> QED
    BY <1>1, <2>1, <2>2, QueriesAre, CollectorAssumption DEF Begin, Gathered, SnapshotOK
<1>2. CASE Refuse
  <2>1. lost' \subseteq Range(Queries)
    BY <1>2 DEF Refuse
  <2> QED
    BY <1>2, <2>1, ReturnTyped, UnmeasuredTyped DEF Refuse
<1>3. CASE Scrape
  <2>1. AnswersOK'
    BY <1>3 DEF Scrape, AnswersOK
  <2> QED
    BY <1>3, <2>1, CollectorAssumption DEF Scrape, Gathered, SnapshotOK
<1>4. CASE AnswerAggregate
  <2>1. CASE Return(Unmeasured("no_data"))
    <3>1. lost' \subseteq Range(Queries)
      BY <1>4 DEF AnswerAggregate
    <3> QED
      BY <1>4, <2>1, <3>1, ReturnTyped, UnmeasuredTyped DEF AnswerAggregate
  <2>2. CASE /\ Accept(AggregateQuery(Query))
             /\ Query = "total_rps" => AggregateQuery(Query) # None
    <3>1. at \in 1..8
      BY <1>4, QueriesAre DEF AnswerAggregate, Query, Quantiles
    <3>2. Query \in {"total_rps", "error_rps"} \union Quantiles
      BY <1>4 DEF AnswerAggregate
    <3> QED
      BY <1>4, <2>2, <3>1, <3>2, AcceptTyped, AggregateTyped DEF AnswerAggregate, Quantiles
  <2> QED
    BY <1>4, <2>1, <2>2 DEF AnswerAggregate
<1>5. CASE AnswerBackends
  <2>1. at \in 1..8
    BY <1>5, QueriesAre DEF AnswerBackends, Query, PerBackend
  <2>2. Query \in PerBackend
    BY <1>5 DEF AnswerBackends
  <2> QED
    BY <1>5, <2>1, <2>2, AcceptTyped, BackendsAnswerTyped
       DEF AnswerBackends, PerBackend, Quantiles
<1>6. CASE AnswerPods
  <2>1. at = 9 /\ lost' \subseteq Range(Queries)
    BY <1>6, QueriesAre DEF AnswerPods, Query
  <2>2. PICK pods \in PodCounts \union {None} :
          Return(Measured([got EXCEPT !["ready_pods"] = pods]))
    BY <1>6 DEF AnswerPods
  <2> QED
    BY <1>6, <2>1, <2>2, MeasuredTyped, ReturnTyped DEF AnswerPods
<1>7. CASE Retry
  <2>1. AnswersOK'
    BY <1>7 DEF Retry, AnswersOK
  <2> QED
    BY <1>7, <2>1, CollectorAssumption DEF Retry, Gathered, SnapshotOK
<1>8. CASE GiveUp
  <2>1. lost' \subseteq Range(Queries)
    BY <1>8, QueriesAre DEF GiveUp, Requested, Query, Range
  <2>2. CASE Query = "ready_pods"
    <3>1. at = 9
      BY <1>8, <2>2, QueriesAre DEF GiveUp, Requested, Query
    <3> QED
      BY <1>8, <2>1, <2>2, <3>1, MeasuredTyped, ReturnTyped DEF GiveUp
  <2>3. CASE Query # "ready_pods"
    BY <1>8, <2>1, <2>3, ReturnTyped, UnmeasuredTyped DEF GiveUp
  <2> QED
    BY <2>2, <2>3
<1> QED
  BY <1>1, <1>2, <1>3, <1>4, <1>5, <1>6, <1>7, <1>8 DEF CollectOverPrometheus

----------------------------------------------------------------------------
(* Types over Hubble, and what the CLI prints.                             *)

RelayInv == spec \in Specs /\ H!HubbleTypeOK

LEMMA RelayInit == MetricsInit => RelayInv
BY MetricsAssumption DEF MetricsInit, Init, H!Init, RelayInv, H!HubbleTypeOK

\* The relay's flows, and the time collect read, stay in the past.
LEMMA RelayStep ==
  ASSUME RelayInv, H!CollectOverHubble
  PROVE  RelayInv'
<1> USE DEF RelayInv, H!HubbleTypeOK
<1>1. CASE H!Tick
  BY <1>1, MetricsAssumption DEF H!Tick
<1>2. CASE H!Arrives
  <2>1. PICK kind \in Kinds : flows' = Append(flows, [kind |-> kind, time |-> clock])
    BY <1>2 DEF H!Arrives
  <2>2. [kind |-> kind, time |-> clock] \in H!Flow
    BY DEF H!Flow
  <2>3. flows' \in Seq(H!Flow) /\ Len(flows') = Len(flows) + 1
    BY <2>1, <2>2
  <2> QED
    BY <1>2, <2>3, MetricsAssumption DEF H!Arrives
<1>3. CASE H!Begin
  BY <1>3 DEF H!Begin
<1>4. CASE H!Refuse
  BY <1>4 DEF H!Refuse
<1>5. CASE H!Fetched
  BY <1>5 DEF H!Fetched, H!FetchReturns, H!FetchBreaksOff, H!FetchFails
<1> QED
  BY <1>1, <1>2, <1>3, <1>4, <1>5 DEF H!CollectOverHubble

\* The flows before the ones that are printed.
Skipped == IF Len(flows) <= Last THEN 0 ELSE Len(flows) - Last

\* The CLI prints the last flows there are, each as _parse_flow_line reads it.
LEMMA PrintedAre ==
  ASSUME RelayInv
  PROVE  /\ Skipped \in 0..Len(flows)
         /\ H!Printed \in Seq([kind : Kinds, epoch : Nat \union {None}])
         /\ Len(H!Printed) = Len(flows) - Skipped
         /\ \A i \in 1..Len(H!Printed) : H!Printed[i] = H!Parsed(flows[i + Skipped])
<1>1. flows \in Seq(H!Flow) /\ Len(flows) \in Nat /\ Last \in Nat
  BY MetricsAssumption DEF RelayInv, H!HubbleTypeOK
<1>2. Skipped \in 0..Len(flows)
  BY <1>1 DEF Skipped
<1> DEFINE chosen == IF Len(flows) <= Last THEN flows ELSE H!LastFlows
<1>3. /\ chosen \in Seq(H!Flow) /\ Len(chosen) = Len(flows) - Skipped
      /\ \A i \in 1..Len(chosen) : chosen[i] = flows[i + Skipped]
  <2>1. CASE Len(flows) <= Last
    BY <1>1, <2>1 DEF Skipped
  <2>2. CASE Len(flows) > Last
    BY <1>1, <2>2 DEF Skipped, H!LastFlows
  <2> QED
    BY <1>1, <2>1, <2>2
<1>4. H!Printed = [i \in DOMAIN chosen |-> H!Parsed(chosen[i])]
  BY DEF H!Printed
<1> HIDE DEF chosen
<1>5. DOMAIN chosen = 1..Len(chosen) /\ Len(chosen) \in Nat
  BY <1>3
<1>6. ASSUME NEW i \in 1..Len(chosen)
      PROVE  H!Parsed(chosen[i]) \in [kind : Kinds, epoch : Nat \union {None}]
  <2>1. chosen[i] \in H!Flow
    BY <1>3
  <2> QED
    BY <2>1, MetricsAssumption DEF H!Parsed, H!Flow
<1>7. H!Printed \in Seq([kind : Kinds, epoch : Nat \union {None}]) /\ Len(H!Printed) = Len(chosen)
  BY <1>4, <1>5, <1>6
<1> QED
  BY <1>2, <1>3, <1>4, <1>5, <1>7

\* A window is a number of seconds (_parse_window).
LEMMA WindowTyped ==
  ASSUME RelayInv
  PROVE  H!Window \in Int
<1>1. spec.window \in [number : Nat, unit : {"ms", "s", "m", "h"}] \union {None}
  BY MetricsAssumption DEF RelayInv
<1>2. CASE spec.window = None
  BY <1>2 DEF H!Window, H!ParseWindow
<1>3. CASE spec.window \in [number : Nat, unit : {"ms", "s", "m", "h"}]
  <2>1. spec.window.number \in Nat /\ H!Milliseconds[spec.window.unit] \in Nat
    BY <1>3 DEF H!Milliseconds
  <2>2. \A ms \in Nat : H!Round(ms) \in Int
    BY DEF H!Round
  <2>3. H!Round(spec.window.number * H!Milliseconds[spec.window.unit]) \in Int
    BY <2>1, <2>2
  <2> QED
    BY <2>3 DEF H!Window, H!ParseWindow
<1> QED
  BY <1>1, <1>2, <1>3

\* Of the lines that came through, those that count are flows to the target.
LEMMA EventsAreFlows ==
  ASSUME RelayInv, NEW i \in 1..Len(H!Printed)
  PROVE  /\ i + Skipped \in DOMAIN flows
         /\ \A events : i \in DOMAIN events /\ events[i] = H!Printed[i] =>
              (i \in H!Windowed(events) <=> i + Skipped \in H!ToTarget)
<1> DEFINE flow == flows[i + Skipped]
<1>1. i + Skipped \in DOMAIN flows /\ flow \in H!Flow /\ now \in Int
  BY PrintedAre DEF RelayInv, H!HubbleTypeOK
<1>2. flow.time \in Nat /\ flow.kind \in H!Kind /\ flow.time # None
  BY <1>1, MetricsAssumption, CollectorAssumption DEF H!Flow
<1>3. H!Printed[i] = H!Parsed(flow)
  BY PrintedAre
<1>4. H!MatchesTarget(flow.kind) <=>
        \/ flow.kind.workload = "target"
        \/ flow.kind.workload = None /\ flow.kind.prefix
  BY MetricsAssumption DEF H!MatchesTarget
<1>5. ASSUME NEW events, i \in DOMAIN events, events[i] = H!Parsed(flow)
      PROVE  i \in H!Windowed(events) <=>
               /\ flow.kind.timed
               /\ flow.time >= now - H!Window
               /\ H!MatchesTarget(flow.kind)
  <2>1. i \in H!Windowed(events) <=>
          /\ events[i].epoch # None
          /\ events[i].epoch >= now - H!Window
          /\ H!MatchesTarget(events[i].kind)
    BY <1>5 DEF H!Windowed
  <2>2. /\ events[i].kind = flow.kind
        /\ events[i].epoch = IF flow.kind.timed THEN flow.time ELSE None
    BY <1>5 DEF H!Parsed
  <2> QED
    BY <1>2, <2>1, <2>2
<1>6. i + Skipped \in H!ToTarget <=>
        /\ flow.kind.timed
        /\ H!MatchesTarget(flow.kind)
        /\ now - flow.time <= H!Window
  BY <1>1, <1>4 DEF H!ToTarget
<1>7. flow.time >= now - H!Window <=> now - flow.time <= H!Window
  BY <1>1, <1>2, WindowTyped
<1> HIDE DEF flow
<1> QED
  BY <1>1, <1>3, <1>5, <1>6, <1>7

Delivered(events) ==
  /\ DOMAIN events \subseteq 1..Len(H!Printed)
  /\ \A i \in DOMAIN events : events[i] = H!Printed[i]

\* The instance has the operators of FiniteSets under names of its own.
LEMMA SameCardinality == ASSUME NEW S PROVE H!Cardinality(S) = Cardinality(S)
BY DEF H!Cardinality, Cardinality

\* Each event that counts stands for a flow of its own, so there are no more.
LEMMA CountBounded ==
  ASSUME RelayInv, NEW events, Delivered(events)
  PROVE  /\ IsFiniteSet(H!Windowed(events)) /\ IsFiniteSet(H!ToTarget)
         /\ Cardinality(H!Windowed(events)) <= Cardinality(H!ToTarget)
<1>1. IsFiniteSet(H!ToTarget)
  <2>1. H!ToTarget \subseteq 1..Len(flows) /\ Len(flows) \in Int
    BY DEF H!ToTarget, RelayInv, H!HubbleTypeOK
  <2>2. IsFiniteSet(1..Len(flows))
    BY <2>1, FS_Interval
  <2> QED
    BY <2>1, <2>2, FS_Subset
<1> DEFINE shift == [i \in H!Windowed(events) |-> i + Skipped]
<1>2. shift \in Injection(H!Windowed(events), H!ToTarget)
  <2>1. ASSUME NEW i \in H!Windowed(events)
        PROVE  i \in Int /\ i + Skipped \in H!ToTarget
    <3>1. i \in DOMAIN events /\ i \in 1..Len(H!Printed)
      BY <2>1 DEF H!Windowed, Delivered
    <3> QED
      BY <2>1, <3>1, EventsAreFlows DEF Delivered
  <2>2. Skipped \in Int
    BY PrintedAre
  <2>3. \A i, j \in H!Windowed(events) : shift[i] = shift[j] => i = j
    <3> TAKE i, j \in H!Windowed(events)
    <3>1. i \in Int /\ j \in Int
      BY <2>1
    <3> QED
      BY <2>2, <3>1
  <2> QED
    BY <2>1, <2>3 DEF Injection, IsInjective
<1> QED
  BY <1>1, <1>2, FS_Injection

\* The error rate over Hubble is a share as well.
LEMMA ResultsTyped ==
  ASSUME RelayInv, NEW events, Delivered(events)
  PROVE  /\ H!Results(events) \subseteq TrafficSnapshot
         /\ \A snap \in H!Results(events) :
              H!Counted(snap) = Cardinality(H!Windowed(events))
<1>1. H!Unmeasured("no_data") \in TrafficSnapshot /\ H!Unmeasured("no_data").rps = None
  BY DEF H!Unmeasured, H!Flat, TrafficSnapshot, Quantiles, OptionalLatency
<1>2. IsFiniteSet(H!Windowed(events)) /\ H!Requests(events) \in Nat
  BY CountBounded, FS_CardinalityType, SameCardinality DEF H!Requests
<1>3. H!Errors(events) \in Nat /\ H!Errors(events) <= H!Requests(events)
  <2>1. H!NonForwarded(events) \in SUBSET H!Windowed(events)
    BY DEF H!NonForwarded
  <2> QED
    BY <1>2, <2>1, FS_Subset, FS_CardinalityType, SameCardinality DEF H!Errors, H!Requests
<1>4. CASE H!Windowed(events) = {}
  BY <1>1, <1>4, FS_EmptySet, SameCardinality DEF H!Results, H!Counted
<1>5. CASE H!Windowed(events) # {}
  <2>1. H!Requests(events) > 0
    BY <1>2, <1>5, FS_EmptySet, SameCardinality DEF H!Requests
  <2>2. (H!Errors(events) * Scale) \div H!Requests(events) \in 0..Scale
    BY <1>2, <1>3, <2>1, ShareInRange
  <2>3. ASSUME NEW pods \in PodCounts \union {None}
        PROVE  /\ H!Measured(events, pods) \in TrafficSnapshot
               /\ H!Measured(events, pods).rps = H!Requests(events)
    BY <1>2, <2>2 DEF H!Measured, H!Flat, TrafficSnapshot, Quantiles, OptionalLatency
  <2>4. H!Requests(events) # None
    BY <1>2, CollectorAssumption
  <2> QED
    BY <1>5, <2>3, <2>4, SameCardinality DEF H!Results, H!Counted, H!Requests
<1> QED
  BY <1>4, <1>5

\* What the CLI has printed, up to where it broke off.
LEMMA AllDelivered ==
  ASSUME RelayInv
  PROVE  /\ Delivered(H!Printed)
         /\ \A n \in 0..Len(H!Printed) : Delivered(SubSeq(H!Printed, 1, n))
BY PrintedAre DEF Delivered

LEMMA FailureTyped == H!Unmeasured("collection_failed") \in TrafficSnapshot
BY DEF H!Unmeasured, H!Flat, TrafficSnapshot, Quantiles, OptionalLatency

\* However the CLI ends, what is returned is a snapshot.
LEMMA HubbleReturns ==
  ASSUME RelayInv, H!CollectOverHubble, snapshot' # snapshot
  PROVE  snapshot' \in TrafficSnapshot \union {None}
<1>1. CASE H!FetchReturns
  BY <1>1, AllDelivered, ResultsTyped DEF H!FetchReturns
<1>2. CASE H!FetchBreaksOff
  BY <1>2, AllDelivered, ResultsTyped DEF H!FetchBreaksOff
<1>3. CASE H!FetchFails \/ H!Refuse
  BY <1>3, FailureTyped DEF H!FetchFails, H!Refuse
<1> QED
  BY <1>1, <1>2, <1>3
     DEF H!CollectOverHubble, H!Fetched, H!Tick, H!Arrives, H!Begin

----------------------------------------------------------------------------
(* Which source is asked, and what has been lost, at each moment.          *)

\* The two collectors never interfere; one that is under way has published
\* nothing, has a target, and has lost nothing so far: the first loss ends it.
UnderWay ==
  /\ OverHubble => at = 0 /\ lost = {}
  /\ ~OverHubble => pc = "idle"
  /\ pc = "fetching" => snapshot = None /\ spec.deployment /\ exit = None
  /\ at > 0 => spec.route # None /\ snapshot = None /\ lost = {}

DisguiseInv == UnderWay /\ NothingDisguised

LEMMA DisguiseInit == MetricsInit => DisguiseInv
  BY DEF MetricsInit, Init, H!Init, DisguiseInv, UnderWay, NothingDisguised

\* Over Hubble a collection fails for want of a Deployment, or with the CLI.
LEMMA DisguiseHubble ==
  ASSUME DisguiseInv, Hubble
  PROVE  DisguiseInv'
<1> USE DEF DisguiseInv, UnderWay, NothingDisguised, Done, Hubble, prometheusVars
<1> USE DEF OverHubble, ResolveImpl
<1>1. CASE H!Tick
  BY <1>1 DEF H!Tick
<1>2. CASE H!Arrives
  BY <1>2 DEF H!Arrives
<1>3. CASE H!Begin
  BY <1>3 DEF H!Begin
<1>4. CASE H!Refuse
  BY <1>4 DEF H!Refuse, H!Unmeasured, H!Flat
<1>5. CASE H!Fetched
  <2>1. ASSUME NEW events, snapshot' \in H!Results(events), exit' # "failed",
               pc = "fetching", pc' = "idle", UNCHANGED spec
        PROVE  DisguiseInv'
    <3>1. snapshot'.status \in {"ok", "no_data"}
      BY <2>1 DEF H!Results, H!Measured, H!Unmeasured, H!Flat
    <3> QED
      BY <2>1, <3>1
  <2>2. CASE H!FetchReturns
    BY <2>1, <2>2 DEF H!FetchReturns
  <2>3. CASE H!FetchBreaksOff
    BY <2>1, <2>3 DEF H!FetchBreaksOff
  <2>4. CASE H!FetchFails
    BY <2>4 DEF H!FetchFails, H!Unmeasured, H!Flat
  <2> QED
    BY <1>5, <2>2, <2>3, <2>4 DEF H!Fetched
<1> QED
  BY <1>1, <1>2, <1>3, <1>4, <1>5 DEF H!CollectOverHubble

\* Over Prometheus it fails for want of a route, or by giving up a query it
\* cannot do without; the ready pods may be lost, and are then missing.
LEMMA DisguisePrometheus ==
  ASSUME DisguiseInv, CollectorInv, Prometheus
  PROVE  DisguiseInv'
<1> USE DEF DisguiseInv, UnderWay, NothingDisguised, Done, Prometheus, hubbleVars
<1> USE DEF Unanswered, OverHubble, ResolveImpl
<1>0. \A pods : [got EXCEPT !["ready_pods"] = pods]["ready_pods"] = pods
  BY QueryNames DEF CollectorInv, PrometheusTypeOK, AnswersOK
<1>1. CASE Begin
  BY <1>1 DEF Begin
<1>2. CASE Refuse
  BY <1>2 DEF Refuse, Return, Unmeasured
<1>3. CASE Scrape
  BY <1>3 DEF Scrape
<1>4. CASE AnswerAggregate
  <2>1. CASE Return(Unmeasured("no_data"))
    BY <1>4, <2>1 DEF AnswerAggregate, Return, Unmeasured
  <2>2. CASE Accept(AggregateQuery(Query))
    BY <1>4, <2>2 DEF AnswerAggregate, Accept
  <2> QED
    BY <1>4, <2>1, <2>2 DEF AnswerAggregate
<1>5. CASE AnswerBackends
  BY <1>5 DEF AnswerBackends, Accept
<1>6. CASE AnswerPods
  BY <1>6 DEF AnswerPods, Return, Measured
<1>7. CASE Retry
  BY <1>7 DEF Retry, Requested
<1>8. CASE GiveUp
  <2>1. CASE Query = "ready_pods"
    BY <1>0, <1>8, <2>1 DEF GiveUp, Requested, Return, Measured
  <2>2. CASE Query # "ready_pods"
    <3>1. Query \in lost' \ {"ready_pods"}
      BY <1>8, <2>2 DEF GiveUp
    <3>2. snapshot' = Unmeasured("collection_failed") /\ at' = 0 /\ spec' = spec
      BY <1>8, <2>2 DEF GiveUp, Return
    <3> QED
      BY <3>1, <3>2 DEF Unmeasured
  <2> QED
    BY <2>1, <2>2
<1> QED
  BY <1>1, <1>2, <1>3, <1>4, <1>5, <1>6, <1>7, <1>8 DEF CollectOverPrometheus

----------------------------------------------------------------------------
(* The whole and its parts.                                                *)

\* A ratio of sums is no larger than the largest of the ratios.
LEMMA RatioHasCulprit ==
  ASSUME NEW B, IsFiniteSet(B), B # {}, NEW rps \in [B -> Nat], NEW errs \in [B -> Nat],
         \A k \in B : errs[k] <= rps[k]
  PROVE  \E k \in B : SafeRatio(errs[k], rps[k]) >=
                      SafeRatio(SumFunctionOnSet(errs, B), SumFunctionOnSet(rps, B))
<1> DEFINE R == SumFunctionOnSet(rps, B)
           E == SumFunctionOnSet(errs, B)
           q == SafeRatio(E, R)
<1>1. R \in Nat /\ E \in Nat /\ E <= R
  BY SumIsNat, SumMonotone
<1>2. q \in Nat /\ Scale \in Nat
  BY <1>1, RatioInRange, CollectorAssumption
<1>3. \A k \in B : SafeRatio(errs[k], rps[k]) \in Nat
  BY <1>2, RatioInRange
<1>4. SUFFICES ASSUME \A k \in B : SafeRatio(errs[k], rps[k]) < q PROVE FALSE
  BY <1>2, <1>3
<1>5. R > 0
  <2>1. q > 0
    BY <1>2, <1>3, <1>4
  <2> QED
    BY <1>1, <2>1 DEF SafeRatio
<1>6. q = (E * Scale) \div R
  BY <1>1, <1>5 DEF SafeRatio
<1>7. q * R <= E * Scale
  <2> HIDE DEF E, R, q
  <2> QED
    BY <1>1, <1>2, <1>5, <1>6
<1> DEFINE f == [k \in B |-> Scale * errs[k]]
           h == [k \in B |-> q * rps[k]]
<1>8. ASSUME NEW k \in B
      PROVE  f[k] \in Nat /\ h[k] \in Nat /\ f[k] <= h[k] /\ (rps[k] > 0 => f[k] < h[k])
  <2> DEFINE e == errs[k]
             r == rps[k]
  <2>1. e \in Nat /\ r \in Nat /\ e <= r
    OBVIOUS
  <2>2. SafeRatio(e, r) < q
    BY <1>4
  <2>3. f[k] = Scale * e /\ h[k] = q * r
    OBVIOUS
  <2> HIDE DEF e, r, q, f, h
  <2>4. CASE r = 0
    <3>1. Scale * e = 0 /\ q * r = 0
      BY <1>2, <2>1, <2>4
    <3> QED
      BY <2>3, <2>4, <3>1 DEF r
  <2>5. CASE r > 0
    <3>1. (e * Scale) \div r < q
      BY <2>1, <2>2, <2>5 DEF SafeRatio
    <3>2. e * Scale \in Nat /\ q * r \in Nat /\ e * Scale = Scale * e
      BY <1>2, <2>1
    <3>3. e * Scale < q * r
      BY <1>2, <2>1, <2>5, <3>1, <3>2
    <3> QED
      BY <2>3, <3>2, <3>3
  <2> QED
    BY <2>1, <2>4, <2>5
<1>9. PICK k \in B : rps[k] > 0
  <2>1. CASE \A k \in B : rps[k] = 0
    <3> DEFINE zero == [k \in B |-> 0 * rps[k]]
    <3>1. \A k \in B : rps[k] \in Nat /\ zero[k] = 0 * rps[k] /\ rps[k] = zero[k]
      BY <2>1
    <3> HIDE DEF zero
    <3>2. SumFunctionOnSet(zero, B) = 0 * R
      BY <3>1, SumScaled
    <3>3. R = SumFunctionOnSet(zero, B)
      BY <3>1, SumSame
    <3> QED
      BY <1>1, <1>5, <3>2, <3>3
  <2> QED
    BY <2>1
<1>10. SumFunctionOnSet(f, B) < SumFunctionOnSet(h, B)
  <2> HIDE DEF f, h, q
  <2> QED
    BY <1>8, <1>9, SumStrict
<1>11. SumFunctionOnSet(f, B) = Scale * E /\ SumFunctionOnSet(h, B) = q * R
  <2>1. \A b \in B : /\ errs[b] \in Nat /\ f[b] = Scale * errs[b]
                     /\ rps[b] \in Nat /\ h[b] = q * rps[b]
    OBVIOUS
  <2> HIDE DEF f, h, q
  <2>2. SumFunctionOnSet(f, B) = Scale * SumFunctionOnSet(errs, B)
    BY <1>2, <2>1, SumScaled
  <2>3. SumFunctionOnSet(h, B) = q * SumFunctionOnSet(rps, B)
    BY <1>2, <2>1, SumScaled
  <2> QED
    BY <2>2, <2>3
<1> HIDE DEF f, h, q, E, R
<1> QED
  BY <1>1, <1>2, <1>7, <1>10, <1>11

\* What was answered before the first scrape is what Prometheus still holds.
Steady ==
  at > 0 /\ scrapes = 0 =>
    /\ at > 1 => got["total_rps"] = AggregateQuery("total_rps")
    /\ at > 2 => got["error_rps"] = AggregateQuery("error_rps")
    /\ at > 6 => got["backend_rps"] = Vector(RequestRates)
    /\ at > 7 => got["backend_errors"] = Vector(ErrorRates)

\* The two totals: sums over all series of the route, and NGINX's zone.
LEMMA TotalsAre ==
  /\ AggregateQuery("total_rps") =
       IF Seen = {} THEN None ELSE SumFunction(RequestRates) + Extra
  /\ AggregateQuery("error_rps") =
       IF Erring = {} /\ (Extra = 0 \/ Seen = {}) THEN None ELSE SumFunction(ErrorRates) + Extra
BY DEF AggregateQuery

\* Answers depend on the series and the spec alone.
LEMMA SameWorld ==
  ASSUME UNCHANGED <<spec, series>>
  PROVE  /\ UNCHANGED <<AggregateQuery("total_rps"), AggregateQuery("error_rps")>>
         /\ UNCHANGED <<Vector(RequestRates), Vector(ErrorRates)>>
<1>1. UNCHANGED <<Seen, Erring, RequestRates, ErrorRates>>
  BY DEF Seen, Erring, RequestRates, ErrorRates
<1>2. UNCHANGED <<Adapter, Extra>> /\ \A s : UNCHANGED Name(s)
  BY DEF Adapter, Canonical, ResolveImpl, Extra, IsNginx, Name
<1>3. UNCHANGED <<AggregateQuery("total_rps"), AggregateQuery("error_rps")>>
  <2>1. Seen' = Seen /\ Erring' = Erring /\ Extra' = Extra
        /\ RequestRates' = RequestRates /\ ErrorRates' = ErrorRates
    BY <1>1, <1>2
  <2>2. AggregateQuery("total_rps")' = AggregateQuery("total_rps")
    BY <2>1, Zenon DEF AggregateQuery
  <2>3. AggregateQuery("error_rps")' = AggregateQuery("error_rps")
    BY <2>1, Zenon DEF AggregateQuery
  <2> QED
    BY <2>2, <2>3
<1>4. UNCHANGED <<Vector(RequestRates), Vector(ErrorRates)>>
  BY <1>1, <1>2 DEF Vector
<1> QED
  BY <1>3, <1>4

\* An answer is what Prometheus holds, and only a scrape changes what it holds.
LEMMA SteadyStep ==
  ASSUME CollectorInv, Steady, CollectOverPrometheus
  PROVE  Steady'
<1>1. CASE Begin
  BY <1>1 DEF Begin, Steady
<1>2. CASE Refuse \/ AnswerPods \/ GiveUp
  <2>1. at' = 0
    BY <1>2 DEF Refuse, AnswerPods, GiveUp, Return
  <2> QED
    BY <2>1 DEF Steady
<1>3. CASE Scrape
  BY <1>3 DEF Scrape, Steady, CollectorInv, PrometheusTypeOK
<1>4. CASE Retry
  BY <1>4, SameWorld DEF Retry, Steady
<1>5. CASE AnswerAggregate
  <2>1. CASE Return(Unmeasured("no_data"))
    BY <2>1 DEF Return, Steady
  <2>2. CASE Accept(AggregateQuery(Query))
    <3>1. /\ Query \in Range(Queries) /\ at \in 1..9
          /\ got' = [got EXCEPT ![Query] = AggregateQuery(Query)] /\ at' = at + 1
          /\ UNCHANGED <<spec, series, scrapes>>
      BY <1>5, <2>2, QueriesAre
         DEF AnswerAggregate, Accept, Query, Range, CollectorInv, PrometheusTypeOK
    <3>2. /\ got'[Query] = AggregateQuery(Query)
          /\ \A q \in Range(Queries) \ {Query} : got'[q] = got[q]
      BY <3>1 DEF CollectorInv, PrometheusTypeOK, AnswersOK
    <3>3. /\ at = 1 <=> Query = "total_rps"
          /\ at = 2 <=> Query = "error_rps"
          /\ Query # "backend_rps" /\ Query # "backend_errors"
      BY <1>5, <3>1, QueriesAre DEF AnswerAggregate, Query, Quantiles
    <3>4. /\ at = 6 <=> Query = "backend_rps"
          /\ at = 7 <=> Query = "backend_errors"
      BY <3>1, QueriesAre DEF Query
    <3> QED
      BY <3>1, <3>2, <3>3, <3>4, QueryNames, SameWorld DEF Steady
  <2> QED
    BY <1>5, <2>1, <2>2 DEF AnswerAggregate
<1>6. CASE AnswerBackends
  <2>1. /\ Query \in Range(Queries) /\ at \in 1..9
        /\ got' = [got EXCEPT ![Query] = Vector(BackendQuery(Query))] /\ at' = at + 1
        /\ UNCHANGED <<spec, series, scrapes>>
    BY <1>6, QueriesAre
       DEF AnswerBackends, Accept, Query, Range, CollectorInv, PrometheusTypeOK
  <2>2. /\ got'[Query] = Vector(BackendQuery(Query))
        /\ \A q \in Range(Queries) \ {Query} : got'[q] = got[q]
    BY <2>1 DEF CollectorInv, PrometheusTypeOK, AnswersOK
  <2>3. /\ at = 6 <=> Query = "backend_rps"
        /\ at = 7 <=> Query = "backend_errors"
        /\ Query # "total_rps" /\ Query # "error_rps"
    BY <1>6, <2>1, QueriesAre DEF AnswerBackends, Query, PerBackend
  <2>4. at # 1 /\ at # 2
    BY <2>1, <2>3, QueriesAre DEF Query
  <2>5. /\ BackendQuery("backend_rps") = RequestRates
        /\ BackendQuery("backend_errors") = ErrorRates
    BY DEF BackendQuery
  <2> QED
    BY <2>1, <2>2, <2>3, <2>4, <2>5, QueryNames, SameWorld DEF Steady
<1> QED
  BY <1>1, <1>2, <1>3, <1>4, <1>5, <1>6 DEF CollectOverPrometheus

\* The snapshot that is put together at the end of a steady collection.
LEMMA SteadySnapshot ==
  ASSUME CollectorInv, Steady, OneSource, at = 9, scrapes = 0, NEW pods,
         NEW snap, snap = Measured([got EXCEPT !["ready_pods"] = pods])
  PROVE  /\ snap.rps = SumFunction([backend \in snap.backends |-> backend.rps])
         /\ \E backend \in snap.backends : backend.error >= snap.error
<1> DEFINE answers == [got EXCEPT !["ready_pods"] = pods]
           rec(b)  == [name  |-> b,
                       rps   |-> answers["backend_rps"][b],
                       error |-> SafeRatio(ValueAt(answers["backend_errors"], b, 0),
                                           answers["backend_rps"][b]),
                       p99   |-> ValueAt(answers["backend_p99"], b, None)]
           B       == snap.backends
<1>1. /\ spec \in Specs /\ series \in World /\ Extra = 0
      /\ \A s \in Series : Name(s) # None
  BY DEF OneSource, CollectorInv, PrometheusTypeOK, Extra
<1>2. /\ answers["total_rps"] = AggregateQuery("total_rps")
      /\ answers["error_rps"] = AggregateQuery("error_rps")
      /\ answers["backend_rps"] = Vector(RequestRates)
      /\ answers["backend_errors"] = Vector(ErrorRates)
      /\ AggregateQuery("total_rps") \in Nat
  <2>1. \A q \in Range(Queries) \ {"ready_pods"} : answers[q] = got[q]
    BY DEF CollectorInv, PrometheusTypeOK, AnswersOK
  <2> HIDE DEF answers
  <2> QED
    BY <2>1, QueryNames DEF Steady, CollectorInv, Gathered
<1>3. /\ Seen # {}
      /\ answers["total_rps"] = SumFunctionOnSet(RequestRates, Seen)
      /\ (IF answers["error_rps"] = None THEN 0 ELSE answers["error_rps"]) =
           SumFunctionOnSet(ErrorRates, Erring)
  <2>1. DOMAIN RequestRates = Seen /\ DOMAIN ErrorRates = Erring
    BY DEF RequestRates, ErrorRates
  <2>2. SumFunctionOnSet(RequestRates, Seen) \in Nat /\ SumFunctionOnSet(ErrorRates, Erring) \in Nat
    BY <1>1, RatesAreNat, SumIsNat
  <2>3. SumFunctionOnSet(ErrorRates, {}) = 0
    BY SumEmpty
  <2> HIDE DEF answers
  <2> QED
    BY <1>1, <1>2, <2>1, <2>2, <2>3, TotalsAre, CollectorAssumption DEF SumFunction
<1>4. /\ snap.rps = answers["total_rps"]
      /\ snap.error = SafeRatio(IF answers["error_rps"] = None THEN 0 ELSE answers["error_rps"],
                                answers["total_rps"])
      /\ B = {rec(b) : b \in DOMAIN answers["backend_rps"]}
  <2> HIDE DEF answers
  <2> QED
    BY DEF Measured, BuildPerBackend, answers
<1> HIDE DEF answers, B
<1>5. /\ B = {rec(b) : b \in NamesOf(Seen)}
      /\ \A b \in NamesOf(Seen) : rec(b).rps = SumFunctionOnSet(RequestRates, LabelsOf(Seen, b))
      /\ NamesOf(Seen) = {Name(s) : s \in Seen}
  <2>1. NamesOf(Seen) = {Name(s) : s \in Seen}
    BY <1>1, RatesAreNat DEF NamesOf
  <2>2. /\ answers["backend_rps"] \in [NamesOf(Seen) -> Nat]
        /\ \A b \in NamesOf(Seen) :
             answers["backend_rps"][b] = SumFunctionOnSet(RequestRates, LabelsOf(Seen, b))
    BY <1>1, <1>2, RatesAreNat, VectorOfRates
  <2> QED
    BY <1>4, <2>1, <2>2
<1> DEFINE group == [s \in Seen |-> rec(Name(s))]
           rps   == [k \in B |-> k.rps]
           errs  == [k \in B |-> SumFunctionOnSet(ErrorRates, LabelsOf(Erring, k.name))]
<1>6. /\ group \in [Seen -> B] /\ IsFiniteSet(B) /\ B # {}
      /\ \A k \in B : {s \in Seen : group[s] = k} = LabelsOf(Seen, k.name)
  <2>1. group \in [Seen -> B] /\ B = {rec(Name(s)) : s \in Seen}
    BY <1>5
  <2>2. group \in Surjection(Seen, B)
    BY <2>1 DEF Surjection
  <2>3. IsFiniteSet(B)
    BY <1>1, <2>2, RatesAreNat, FS_Surjection
  <2>4. B # {}
    BY <1>3, <2>1
  <2>5. ASSUME NEW k \in B PROVE {s \in Seen : group[s] = k} = LabelsOf(Seen, k.name)
    <3>1. PICK b \in NamesOf(Seen) : k = rec(b)
      BY <1>5
    <3>2. k.name = b
      BY <3>1
    <3>3. ASSUME NEW s \in Seen PROVE rec(Name(s)) = k <=> Name(s) = b
      <4>1. rec(Name(s)).name = Name(s)
        OBVIOUS
      <4> QED
        BY <3>1, <3>2, <4>1
    <3> QED
      BY <3>2, <3>3 DEF LabelsOf
  <2> QED
    BY <2>1, <2>3, <2>4, <2>5
<1>7. \A k \in B : k.name \in NamesOf(Seen) /\ k = rec(k.name)
  <2>1. ASSUME NEW b \in NamesOf(Seen) PROVE rec(b).name = b
    OBVIOUS
  <2> HIDE DEF rec
  <2> QED
    BY <1>5, <2>1
<1>8. ASSUME NEW k \in B
      PROVE  /\ rps[k] = SumFunctionOnSet(RequestRates, LabelsOf(Seen, k.name))
             /\ rps[k] \in Nat
             /\ errs[k] = SumFunctionOnSet(ErrorRates, LabelsOf(Erring, k.name))
             /\ errs[k] \in Nat
             /\ errs[k] <= rps[k]
  <2> DEFINE mine   == LabelsOf(Seen, k.name)
             failed == LabelsOf(Erring, k.name)
  <2>1. failed \subseteq mine /\ mine \subseteq Seen /\ failed \subseteq Erring
    BY <1>1, RatesAreNat DEF LabelsOf
  <2>2. /\ IsFiniteSet(mine) /\ IsFiniteSet(failed)
        /\ \A s \in mine : RequestRates[s] \in Nat
        /\ \A s \in failed : ErrorRates[s] \in Nat /\ ErrorRates[s] <= RequestRates[s]
    BY <1>1, <2>1, RatesAreNat, FS_Subset
  <2>3. rps[k] = SumFunctionOnSet(RequestRates, mine)
    BY <1>5, <1>7
  <2>4. errs[k] = SumFunctionOnSet(ErrorRates, failed)
    OBVIOUS
  <2> HIDE DEF mine, failed, rps, errs
  <2>5. /\ SumFunctionOnSet(RequestRates, mine) \in Nat
        /\ SumFunctionOnSet(RequestRates, failed) \in Nat
        /\ SumFunctionOnSet(ErrorRates, failed) \in Nat
    BY <2>1, <2>2, SumIsNat
  <2>6. SumFunctionOnSet(ErrorRates, failed) <= SumFunctionOnSet(RequestRates, failed)
    BY <2>1, <2>2, SumMonotone
  <2>7. SumFunctionOnSet(RequestRates, failed) <= SumFunctionOnSet(RequestRates, mine)
    BY <2>1, <2>2, SumOfPart
  <2> QED
    BY <2>3, <2>4, <2>5, <2>6, <2>7 DEF mine, failed
<1>9. ASSUME NEW k \in B PROVE k.error = SafeRatio(errs[k], rps[k])
  <2>1. ValueAt(Vector(ErrorRates), k.name, 0) = errs[k]
    <3> DEFINE failed == LabelsOf(Erring, k.name)
    <3>1. /\ Erring \in SUBSET Series /\ ErrorRates \in [Erring -> Nat]
          /\ errs[k] = SumFunctionOnSet(ErrorRates, failed)
      BY <1>1, RatesAreNat
    <3>2. /\ DOMAIN Vector(ErrorRates) = NamesOf(Erring)
          /\ \A b \in NamesOf(Erring) :
               Vector(ErrorRates)[b] = SumFunctionOnSet(ErrorRates, LabelsOf(Erring, b))
      BY <1>1, <3>1, VectorOfRates
    <3>3. CASE k.name \in NamesOf(Erring)
      BY <3>1, <3>2, <3>3 DEF ValueAt
    <3>4. CASE k.name \notin NamesOf(Erring)
      <4>1. failed = {}
        BY <1>1, <3>1, <3>4 DEF NamesOf, LabelsOf
      <4> HIDE DEF failed
      <4> QED
        BY <3>1, <3>2, <3>4, <4>1, SumEmpty DEF ValueAt
    <3> QED
      BY <3>3, <3>4
  <2>2. k.error = SafeRatio(ValueAt(answers["backend_errors"], k.name, 0), k.rps)
    BY <1>7
  <2>3. rps[k] = k.rps
    OBVIOUS
  <2> HIDE DEF errs, rps, rec
  <2> QED
    BY <1>2, <2>1, <2>2, <2>3
<1>10. SumFunctionOnSet(rps, B) = SumFunctionOnSet(RequestRates, Seen)
  <2> DEFINE labels == [k \in B |-> LabelsOf(Seen, k.name)]
  <2>1. /\ labels \in [B -> SUBSET Seen]
        /\ \A k \in B, s \in Seen : s \in labels[k] <=> group[s] = k
        /\ \A k \in B : rps[k] = SumFunctionOnSet(RequestRates, labels[k])
    <3> HIDE DEF rps, group
    <3> QED
      BY <1>6, <1>8 DEF LabelsOf
  <2>2. IsFiniteSet(Seen) /\ \A s \in Seen : RequestRates[s] \in Nat
    BY <1>1, RatesAreNat
  <2> HIDE DEF rps, group, labels
  <2> QED
    BY <1>6, <2>1, <2>2, SumByGroup
<1>11. SumFunctionOnSet(errs, B) = SumFunctionOnSet(ErrorRates, Erring)
  <2> DEFINE labels == [k \in B |-> LabelsOf(Erring, k.name)]
             part   == [s \in Erring |-> group[s]]
  <2>1. /\ Erring \subseteq Seen /\ IsFiniteSet(Erring)
        /\ \A s \in Erring : ErrorRates[s] \in Nat
    BY <1>1, RatesAreNat
  <2>2. \A k \in B, s \in Seen : group[s] = k <=> Name(s) = k.name
    BY <1>6 DEF LabelsOf
  <2> HIDE DEF errs, group
  <2>3. /\ part \in [Erring -> B]
        /\ labels \in [B -> SUBSET Erring]
        /\ \A k \in B, s \in Erring : s \in labels[k] <=> part[s] = k
        /\ \A k \in B : errs[k] = SumFunctionOnSet(ErrorRates, labels[k])
    BY <1>6, <1>8, <2>1, <2>2 DEF LabelsOf
  <2> HIDE DEF labels, part
  <2> QED
    BY <1>6, <2>1, <2>3, SumByGroup
<1>12. SumFunction(rps) = SumFunctionOnSet(rps, B)
  BY DEF SumFunction
<1>13. \E k \in B : SafeRatio(errs[k], rps[k]) >=
                    SafeRatio(SumFunctionOnSet(errs, B), SumFunctionOnSet(rps, B))
  <2>1. rps \in [B -> Nat] /\ errs \in [B -> Nat]
    BY <1>8
  <2> HIDE DEF rps, errs
  <2> QED
    BY <1>6, <1>8, <2>1, RatioHasCulprit
<1>14. snap.rps = SumFunction(rps)
  <2> HIDE DEF rps
  <2> QED
    BY <1>3, <1>4, <1>10, <1>12
<1>15. \E k \in B : k.error >= snap.error
  <2> HIDE DEF rps, errs, rec
  <2> QED
    BY <1>3, <1>4, <1>9, <1>10, <1>11, <1>13
<1> QED
  BY <1>14, <1>15 DEF B

\* What the last snapshot says, and the one that is being put together will.
SumsInv == Steady /\ SteadySums /\ ErrorsHaveCulprit

LEMMA SumsInit == MetricsInit => SumsInv
BY DEF MetricsInit, Init, H!Init, SumsInv, Steady, SteadySums, ErrorsHaveCulprit, Done

\* Whether totals and parts have one source is a matter of the spec.
LEMMA SameSource ==
  ASSUME UNCHANGED spec
  PROVE  OneSource' = OneSource /\ OverHubble' = OverHubble
<1>1. Adapter' = Adapter /\ OverHubble' = OverHubble
  BY DEF Adapter, Canonical, ResolveImpl, OverHubble
<1> QED
  BY <1>1 DEF OneSource, IsNginx, Name

\* A snapshot that stays says what it said.
LEMMA SumsKept ==
  ASSUME SumsInv, UNCHANGED <<spec, scrapes, snapshot>>
  PROVE  SteadySums' /\ ErrorsHaveCulprit'
<1>1. OneSource' = OneSource
  BY SameSource
<1> QED
  BY <1>1 DEF SumsInv, SteadySums, ErrorsHaveCulprit, Done

LEMMA SumsHubble ==
  ASSUME SumsInv, Hubble, UNCHANGED spec
  PROVE  SumsInv'
<1>1. ~OneSource'
  BY SameSource DEF Hubble, OneSource
<1>2. Steady'
  BY SameWorld DEF Hubble, prometheusVars, SumsInv, Steady
<1> QED
  BY <1>1, <1>2 DEF SumsInv, SteadySums, ErrorsHaveCulprit

\* A snapshot that is put together at the end says what SteadySnapshot shows; any
\* other that is returned holds no measurement.
LEMMA SumsPrometheus ==
  ASSUME CollectorInv, DisguiseInv, SumsInv, Prometheus
  PROVE  SumsInv'
<1>1. Steady' /\ CollectOverPrometheus
  BY SteadyStep DEF Prometheus, SumsInv
<1>2. SUFFICES SteadySums' /\ ErrorsHaveCulprit'
  BY <1>1 DEF SumsInv
<1>3. ASSUME NEW status \in {"no_data", "collection_failed"}, Return(Unmeasured(status))
      PROVE  SteadySums' /\ ErrorsHaveCulprit'
  BY <1>3 DEF Return, Unmeasured, SteadySums, ErrorsHaveCulprit, Done
<1>4. ASSUME NEW pods, Return(Measured([got EXCEPT !["ready_pods"] = pods])), at = 9,
             UNCHANGED <<spec, scrapes>>
      PROVE  SteadySums' /\ ErrorsHaveCulprit'
  <2>1. OneSource' = OneSource
    BY <1>4, SameSource
  <2> DEFINE snap == Measured([got EXCEPT !["ready_pods"] = pods])
  <2>2. snapshot' = snap
    BY <1>4 DEF Return
  <2>3. scrapes = 0 /\ OneSource =>
          /\ snap.rps = SumFunction([backend \in snap.backends |-> backend.rps])
          /\ \E backend \in snap.backends : backend.error >= snap.error
    BY <1>4, SteadySnapshot DEF SumsInv
  <2> HIDE DEF snap
  <2> QED
    BY <1>4, <2>1, <2>2, <2>3 DEF SteadySums, ErrorsHaveCulprit
<1>5. CASE UNCHANGED <<spec, scrapes, snapshot>>
  BY <1>5, SumsKept
<1>6. CASE Begin
  BY <1>6 DEF Begin, SteadySums, ErrorsHaveCulprit, Done
<1>7. CASE Scrape
  <2>1. scrapes' # 0
    BY <1>7 DEF Scrape, CollectorInv, PrometheusTypeOK
  <2> QED
    BY <2>1 DEF SteadySums, ErrorsHaveCulprit
<1>8. CASE Refuse
  BY <1>3, <1>8 DEF Refuse
<1>9. CASE AnswerAggregate
  BY <1>3, <1>5, <1>9 DEF AnswerAggregate, Accept
<1>10. CASE AnswerBackends
  BY <1>5, <1>10 DEF AnswerBackends, Accept
<1>11. CASE AnswerPods
  <2>1. at = 9
    BY <1>11, QueriesAre DEF AnswerPods, Query, CollectorInv, PrometheusTypeOK
  <2>2. PICK pods : Return(Measured([got EXCEPT !["ready_pods"] = pods]))
    BY <1>11 DEF AnswerPods
  <2> QED
    BY <1>4, <1>11, <2>1, <2>2 DEF AnswerPods
<1>12. CASE Retry
  BY <1>5, <1>12 DEF Retry
<1>13. CASE GiveUp
  <2>1. CASE Query = "ready_pods"
    <3>1. at = 9
      BY <1>13, <2>1, QueriesAre DEF GiveUp, Requested, Query, CollectorInv, PrometheusTypeOK
    <3> QED
      BY <1>4, <1>13, <2>1, <3>1 DEF GiveUp
  <2>2. CASE Query # "ready_pods"
    BY <1>3, <1>13, <2>2 DEF GiveUp
  <2> QED
    BY <2>1, <2>2
<1> QED
  BY <1>1, <1>6, <1>7, <1>8, <1>9, <1>10, <1>11, <1>12, <1>13 DEF CollectOverPrometheus


----------------------------------------------------------------------------
(* The theorems.                                                           *)

\* The inductive invariant, in four layers; the last two need the first.
Inv == CollectorInv /\ RelayInv /\ DisguiseInv /\ SumsInv

\* Nothing is under way at the beginning.
LEMMA InvInit == MetricsInit => Inv
BY CollectorInit, RelayInit, DisguiseInit, SumsInit DEF Inv

\* Only one of the two collectors moves, and leaves what the other keeps alone.
LEMMA InvNext ==
  ASSUME Inv, [Next]_vars
  PROVE  Inv'
<1>1. CASE Hubble
  <2>1. CollectorInv /\ RelayInv /\ H!CollectOverHubble /\ UNCHANGED prometheusVars
    BY <1>1 DEF Hubble, Inv
  <2>2. RelayInv'
    BY <2>1, RelayStep
  <2>3. SnapshotOK'
    BY <2>1, HubbleReturns DEF CollectorInv, SnapshotOK
  <2>4. PrometheusTypeOK' /\ Gathered'
    BY <2>1, <2>2 DEF CollectorInv, RelayInv, PrometheusTypeOK, AnswersOK, Gathered, prometheusVars, World
  <2>5. DisguiseInv'
    BY <1>1, DisguiseHubble DEF Inv
  <2>6. SumsInv'
    BY <1>1, SumsHubble DEF Inv, Hubble, H!CollectOverHubble, H!Tick, H!Arrives, H!Begin,
       H!Refuse, H!Fetched, H!FetchReturns, H!FetchBreaksOff, H!FetchFails
  <2> QED
    BY <2>2, <2>3, <2>4, <2>5, <2>6 DEF Inv, CollectorInv
<1>2. CASE Prometheus
  <2>1. CollectorInv'
    BY <1>2, CollectorStep DEF Inv, Prometheus
  <2>2. RelayInv'
    BY <1>2, <2>1 DEF Inv, Prometheus, hubbleVars, RelayInv, H!HubbleTypeOK, CollectorInv, PrometheusTypeOK
  <2>3. DisguiseInv'
    BY <1>2, DisguisePrometheus DEF Inv
  <2>4. SumsInv'
    BY <1>2, SumsPrometheus DEF Inv
  <2> QED
    BY <2>1, <2>2, <2>3, <2>4 DEF Inv
<1>3. CASE UNCHANGED vars
  <2>1. (CollectorInv /\ RelayInv)'
    BY <1>3 DEF Inv, vars, prometheusVars, hubbleVars, CollectorInv, RelayInv, PrometheusTypeOK,
       AnswersOK, Gathered, SnapshotOK, H!HubbleTypeOK, World
  <2>2. DisguiseInv'
    BY <1>3 DEF Inv, vars, prometheusVars, hubbleVars, DisguiseInv, UnderWay, NothingDisguised,
       Done, Unanswered, OverHubble, ResolveImpl
  <2>3. SumsInv'
    BY <1>3, SumsKept, SameWorld DEF Inv, vars, prometheusVars, SumsInv, Steady
  <2> QED
    BY <2>1, <2>2, <2>3 DEF Inv
<1> QED
  BY <1>1, <1>2, <1>3 DEF Next

\* The snapshot and the answers behind it, the relay's flows, what has been lost
\* and what Prometheus still holds are always as the theorems below need them
\* (metrics.collect, _collect, hubble_collector.collect).
THEOREM Invariance == Spec => []Inv
BY InvInit, InvNext, PTL DEF Spec

\* For any labels, names, rates and adapters: when no scrape came between the
\* queries, the rps of the backends add up to the rps of the snapshot, also where
\* several labels have one name (_vector, _build_per_backend).
THEOREM PartsMakeTheWhole == Spec => []SteadySums
<1>1. Inv => SteadySums
  BY DEF Inv, SumsInv
<1> QED
  BY <1>1, Invariance, PTL

\* Then, whenever the error rate of the whole is over a threshold, so is that of
\* some backend: _find_culprit_backends has somebody to find.
THEOREM CulpritExists == Spec => []ErrorsHaveCulprit
<1>1. Inv => ErrorsHaveCulprit
  BY DEF Inv, SumsInv
<1> QED
  BY <1>1, Invariance, PTL

\* Whatever queries are lost, in whatever attempt, and however the CLI ends: a
\* collection is reported as failed exactly if its source was given up, and lost
\* ready pods are never reported as zero (_collect, _query_ready_pods,
\* hubble_collector.collect).
THEOREM NothingIsDisguised == Spec => []NothingDisguised
<1>1. Inv => NothingDisguised
  BY DEF Inv, DisguiseInv
<1> QED
  BY <1>1, Invariance, PTL

\* Every snapshot is one that schemas.py describes: rates are not negative, each
\* error rate is between 0 and 1 though errors and requests are counted at
\* different moments, and a latency is known or missing (_safe_ratio, _vector).
THEOREM TypeCorrect == Spec => []TypeOK
<1>1. Inv => TypeOK
  BY DEF Inv, CollectorInv, RelayInv, SnapshotOK, TypeOK
<1> QED
  BY <1>1, Invariance, PTL

\* Over Hubble, for any flows, window and --last, and wherever the CLI breaks off:
\* no more is counted than there are flows to the target since the window began
\* (hubble_collector.collect, _matches_target, _parse_window).
THEOREM NothingIsInvented == Spec => NeverInvents
<1>1. ASSUME Inv, [Next]_vars PROVE [H!NothingInvented]_vars
  <2> SUFFICES ASSUME pc = "fetching", pc' = "idle"
               PROVE  H!Counted(snapshot') <= Cardinality(H!ToTarget)
    BY SameCardinality DEF H!NothingInvented
  <2>1. RelayInv /\ H!Fetched
    BY <1>1 DEF Next, Hubble, Prometheus, vars, hubbleVars, Inv, H!CollectOverHubble,
       H!Tick, H!Arrives, H!Begin, H!Refuse
  <2>2. ASSUME NEW events, Delivered(events), snapshot' \in H!Results(events)
        PROVE  H!Counted(snapshot') <= Cardinality(H!ToTarget)
    BY <2>1, <2>2, ResultsTyped, CountBounded
  <2>3. CASE H!FetchReturns
    BY <2>1, <2>2, <2>3, AllDelivered DEF H!FetchReturns
  <2>4. CASE H!FetchBreaksOff
    BY <2>1, <2>2, <2>4, AllDelivered DEF H!FetchBreaksOff
  <2>5. CASE H!FetchFails
    <3>1. H!Counted(snapshot') = 0
      BY <2>5 DEF H!FetchFails, H!Unmeasured, H!Flat, H!Counted
    <3>2. Cardinality(H!ToTarget) \in Nat
      BY <2>1, AllDelivered, CountBounded, FS_CardinalityType
    <3> QED
      BY <3>1, <3>2
  <2> QED
    BY <2>1, <2>3, <2>4, <2>5 DEF H!Fetched
<1> QED
  BY <1>1, Invariance, PTL DEF Spec, NeverInvents

\* With no more flows in the namespace than --last, a run of the CLI that is
\* complete counts every one of them (fetch_flows, _matches_target).
THEOREM NothingIsMissed == Spec => CompleteBelowCap
<1>1. ASSUME Inv, [Next]_vars PROVE [H!NothingMissed]_vars
  <2> SUFFICES ASSUME pc = "fetching", exit' = "clean", Len(flows) <= Last, ~UNCHANGED vars
               PROVE  H!Counted(snapshot') = Cardinality(H!ToTarget)
    BY SameCardinality DEF H!NothingMissed
  <2>0. RelayInv
    BY <1>1 DEF Inv
  <2>1. H!FetchReturns
    BY <1>1, MetricsAssumption
       DEF Next, Hubble, Prometheus, vars, hubbleVars, Inv, DisguiseInv, UnderWay,
       H!CollectOverHubble, H!Fetched, H!Tick, H!Arrives, H!Begin, H!Refuse,
       H!FetchBreaksOff, H!FetchFails
  <2>2. Skipped = 0 /\ Delivered(H!Printed)
    BY <2>0, AllDelivered DEF Skipped
  <2>3. H!Windowed(H!Printed) = H!ToTarget
    <3>1. DOMAIN H!Printed = 1..Len(flows) /\ DOMAIN flows = 1..Len(flows)
          /\ Len(H!Printed) = Len(flows) /\ Len(flows) \in Nat
      BY <2>0, <2>2, PrintedAre DEF RelayInv, H!HubbleTypeOK
    <3>2. ASSUME NEW i \in 1..Len(flows)
          PROVE  i \in H!Windowed(H!Printed) <=> i \in H!ToTarget
      <4>1. i + Skipped = i
        BY <2>2, <3>1
      <4> QED
        BY <2>0, <3>1, <4>1, EventsAreFlows
    <3>3. H!Windowed(H!Printed) \subseteq 1..Len(flows) /\ H!ToTarget \subseteq 1..Len(flows)
      BY <3>1 DEF H!Windowed, H!ToTarget
    <3> QED
      BY <3>2, <3>3
  <2> QED
    BY <2>0, <2>1, <2>2, <2>3, ResultsTyped DEF H!FetchReturns
<1> QED
  BY <1>1, Invariance, PTL DEF Spec, CompleteBelowCap

====
