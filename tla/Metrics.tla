------------------------------ MODULE Metrics ------------------------------
(***************************************************************************)
(* metrics.collect, the whole of it: one TrafficPolicy is collected for    *)
(* again and again, from Prometheus (Collector) or, where the gateway      *)
(* exposes no metrics, from the flows Cilium saw (HubbleCollector).  Which *)
(* one is decided by the environment and the spec alone, so it is the same *)
(* at every call; the two have the snapshot in common.                     *)
(***************************************************************************)
EXTENDS Collector

CONSTANTS
  HubbleNames,  \* _HUBBLE_IMPL_NAMES
  Last,         \* HUBBLE_METRICS_LAST
  Kinds,        \* the flows that may arrive in the namespace of the target
  MaxFlows,     \* bound of the model: flows in all
  Horizon       \* bound of the model: the clock of the relay stops here

VARIABLES
  clock, flows, pc, now, exit   \* see HubbleCollector

H == INSTANCE HubbleCollector WITH Targets <- Specs

hubbleVars == <<clock, flows, pc, now, exit>>

vars == <<spec, snapshot, prometheusVars, hubbleVars>>

ASSUME MetricsAssumption ==
  /\ HubbleNames \intersect Adapters = {}
  /\ Last \in Nat
  /\ Kinds \subseteq H!Kind
  /\ MaxFlows \in Nat
  /\ Horizon \in Nat
  /\ \A policy \in Specs :
       policy.window \in [number : Nat, unit : {"ms", "s", "m", "h"}] \union {None}
  /\ None \notin {"target", "clean", "broken", "failed", Known}
  /\ Known \notin Nat

----------------------------------------------------------------------------
OverHubble == ResolveImpl \in HubbleNames

MetricsInit == Init /\ H!Init

\* collect hands over to hubble_collector before it looks for a route.
Hubble ==
  /\ OverHubble
  /\ H!CollectOverHubble
  /\ UNCHANGED prometheusVars

Prometheus ==
  /\ ~OverHubble
  /\ CollectOverPrometheus
  /\ UNCHANGED hubbleVars

Next == Hubble \/ Prometheus

Spec == MetricsInit /\ [][Next]_vars

\* Requests and the CLI have a timeout.
Fairness ==
  /\ WF_vars(~OverHubble /\ Answer /\ UNCHANGED hubbleVars)
  /\ WF_vars(OverHubble /\ H!Fetched /\ UNCHANGED prometheusVars)

FairSpec == Spec /\ Fairness

----------------------------------------------------------------------------
(* Properties *)

\* The state, and the normalisation schemas.py demands of a snapshot: an error
\* rate is between 0.0 and 1.0 though errors and requests are counted at
\* different moments.
TypeOK ==
  /\ PrometheusTypeOK
  /\ H!HubbleTypeOK
  /\ snapshot # None => snapshot \in TrafficSnapshot

\* A source that does not answer is never taken for a measurement: a
\* collection fails if and only if there is no target for it or its source was
\* given up, and lost ready pods are missing, not zero (collect, both paths).
NothingDisguised ==
  snapshot # None =>
    /\ Done("collection_failed") <=>
         IF OverHubble THEN ~spec.deployment \/ exit = "failed"
                       ELSE spec.route = None \/ Unanswered
    /\ "ready_pods" \in lost => snapshot.pods = None

\* Totals and parts are read from the same series, and each has a name.
OneSource == ~OverHubble /\ ~IsNginx /\ \A s \in Series : Name(s) # None

\* When no scrape came between the queries, the backends account for all of
\* the traffic, also where two labels have one name: the snapshot is one that
\* could have been read at once (_collect, _vector, _build_per_backend).
SteadySums ==
  Done("ok") /\ scrapes = 0 /\ OneSource =>
    snapshot.rps =
      SumFunction([backend \in snapshot.backends |-> backend.rps])

\* Then, too, an error rate of the whole has a backend behind it whose own is
\* no lower: an anomaly of the error rate has a culprit to isolate
\* (_find_culprit_backends looks for one over the same threshold).
ErrorsHaveCulprit ==
  Done("ok") /\ scrapes = 0 /\ OneSource =>
    \E backend \in snapshot.backends : backend.error >= snapshot.error

\* Whatever is lost on the way, no flow is counted that did not reach the
\* target after the window began (hubble_collector.collect).
NeverInvents == [][H!NothingInvented]_vars

\* With no more flows in the namespace than are asked for, a complete run of
\* the CLI counts every flow to the target (collect, _matches_target).
CompleteBelowCap == [][H!NothingMissed]_vars

\* A collection that was begun returns a snapshot, whatever gets lost.
CollectionEnds == at > 0 \/ pc = "fetching" ~> snapshot # None
============================================================================
