------------------------------ MODULE Routing ------------------------------
(***************************************************************************)
(* actuator/router.py: how a map of target weights is laid over the        *)
(* weights of an HTTPRoute.  A route is a function from its backendRefs to *)
(* weights; an omitted weight is DefaultBackendWeight.  A backendRef is a  *)
(* record with the name it refers to and whatever else tells it from the   *)
(* others: its rule, its place there.                                      *)
(***************************************************************************)
EXTENDS Scaling

MaxWeightDelta       == 30     \* MAX_WEIGHT_DELTA_PER_RECONCILE
DefaultBackendWeight == 1      \* DEFAULT_BACKEND_WEIGHT

\* clamp_weight_change: at most MaxWeightDelta away, then into 0..100.
ClampWeightChange(current, target) ==
  Larger(0, Smaller(100, Limited(current, target, MaxWeightDelta)))

\* _normalize_targets: entries outside 0..100 are dropped, not corrected.
NormalizeTargets(weights) ==
  [b \in {c \in DOMAIN weights : weights[c] \in 0..100} |-> weights[b]]

\* The references of all rules whose name is targeted.
MatchedRefs(route, targets) == {ref \in DOMAIN route : ref.name \in DOMAIN targets}

\* _apply_weights_to_route: every matched reference takes one bounded step.
\* Targets the route does not refer to are only mentioned in the result.
ApplyWeights(route, targets) ==
  [ref \in DOMAIN route |->
     IF ref \in MatchedRefs(route, targets)
     THEN ClampWeightChange(route[ref], targets[ref.name])
     ELSE route[ref]]
============================================================================
