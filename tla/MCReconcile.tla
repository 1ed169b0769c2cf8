---------------------------- MODULE MCReconcile ----------------------------
(***************************************************************************)
(* Constants for checking Reconcile: TrafficPolicies, and the traffic and  *)
(* the initial states each run lets them meet.                             *)
(***************************************************************************)
EXTENDS Reconcile

CONSTANTS a, b, c

Pair  == {a, b}
Three == {a, b, c}

----------------------------------------------------------------------------
(* HTTPRoutes *)

Ref(rule, name) == [rule |-> rule, name |-> name]

\* One rule that splits the traffic between two backends.
Split == {Ref(1, a), Ref(1, b)}

\* One rule with a alone, another with both; nothing refers to c.
TwoRules == {Ref(1, a), Ref(2, a), Ref(2, b)}

FullSplit    == {[ref \in Split |-> 100]}
FullTwoRules == {[ref \in TwoRules |-> 100]}

----------------------------------------------------------------------------
(* TrafficPolicies *)

\* Two replicas, fixed: only the weights can move.
RoutingCR ==
  [errorThreshold |-> TRUE, latencyThreshold |-> FALSE,
   targetRPS |-> 10, scaleDownRPS |-> 5,
   minReplicas |-> 2, maxReplicas |-> 2, maxScaleStep |-> 1,
   cooldown |-> 3, allowIsolation |-> TRUE, dryRun |-> FALSE]

\* The same with a latency threshold: an anomaly without a culprit exists.
LatencyCR == [RoutingCR EXCEPT !.latencyThreshold = TRUE, !.maxReplicas = 3]

\* Weights only, without a cooldown.
BriefCR == [RoutingCR EXCEPT !.cooldown = 0]

\* One to four replicas, isolation not allowed.
ScalingCR ==
  [RoutingCR EXCEPT !.latencyThreshold = TRUE, !.minReplicas = 1, !.maxReplicas = 4,
                    !.allowIsolation = FALSE]

\* What register_policy refuses and the timer runs with: minReplicas above
\* maxReplicas; and a shorter cooldown.
RefusedCR == [ScalingCR EXCEPT !.minReplicas = 3, !.maxReplicas = 2, !.cooldown = 1]

\* The specs of each run.
RoutingSpecs == {RoutingCR}
TrialSpecs   ==
  LET cr == [RoutingCR EXCEPT !.cooldown = 2]
  IN  {cr, [cr EXCEPT !.dryRun = TRUE, !.cooldown = 0]}
LatencySpecs == {LatencyCR}
BriefSpecs   == {BriefCR, [BriefCR EXCEPT !.allowIsolation = FALSE]}
ScalingSpecs == {ScalingCR, RefusedCR}

----------------------------------------------------------------------------
(* Traffic *)

Seen(error, p99, rps, backends) ==
  [status |-> "ok", error |-> error, p99 |-> p99, rps |-> rps, backends |-> backends]

Unseen == [Seen("normal", None, 0, [x \in {} |-> "unknown"]) EXCEPT !.status = "no_data"]

Everywhere(v) == [x \in Pair |-> v]
Only(bad)     == [x \in Pair |-> IF x = bad THEN "breach" ELSE "fine"]

Steady(rps) == Seen("normal", "normal", rps, Everywhere("fine"))

\* Errors concentrated on one backend, seen by the static threshold, or by both signals.
Concentrated(bad) == {Seen(l, "normal", 20, Only(bad)) : l \in {"over", "spike"}}

Slow(rps) == Seen("normal", "over", rps, Everywhere("fine"))

\* Every backend fails: nobody in particular is to blame.
Widespread == Seen("spike", "normal", 20, Everywhere("breach"))

RoutingTraffic == {Steady(20), Unseen} \union UNION {Concentrated(x) : x \in Pair}
SteadyTraffic  == {Steady(20)}

\* An anomaly with no culprit, beside the concentrated errors.
MixedTraffic == RoutingTraffic \union {Slow(20)}

\* The healthy backend is a workload the route does not refer to, and the metrics
\* say nothing of b.
HealthyElsewhere ==
  Seen("spike", "normal", 20, [x \in {a, c} |-> IF x = a THEN "breach" ELSE "fine"])

\* Errors of one backend or the other, of both, or of one that only a workload
\* outside the route is better than.
TroubledTraffic ==
  {Steady(20), Seen("spike", "normal", 20, Only(a)), Seen("over", "normal", 20, Only(b)),
   Widespread, HealthyElsewhere}

Loads          == {5, 25, 60}
ScalingTraffic == {Steady(r) : r \in Loads} \union {Slow(25), Unseen}
BusyTraffic    == {Steady(25)}
============================================================================
