---------------------------- MODULE ScalingLoop ----------------------------
(***************************************************************************)
(* The replica loop closed over one Deployment whose pods are all ready    *)
(* and which nobody else scales: policy/scaling.py decides,                *)
(* actuator/scaler.py applies, and the count it wrote is what the next     *)
(* cycle observes, while the load stays what it is.                        *)
(***************************************************************************)
EXTENDS Scaling

CONSTANTS
  Cases,     \* the loads, thresholds, limits and replica counts to start from
  PodLimit   \* bound of the model: without maxReplicas a lasting anomaly adds pods for ever

Case ==
  [rps : Nat, target : Nat \ {0}, scaleDown : OptionalNat,
   low : OptionalNat, high : OptionalNat, step : OptionalNat, pods : Nat]

ASSUME CasesAssumption == Cases \subseteq Case /\ PodLimit \in Nat

VARIABLES
  case,      \* what this Deployment is exposed to, and its initial replicas
  pods,      \* replicas, all of them ready
  heading    \* auxiliary: which way the last load decision went

vars == <<case, pods, heading>>

Init ==
  /\ case \in Cases
  /\ pods = case.pods
  /\ heading = "none"

Decided  == AssessScaling(case.rps, pods, case.target, case.scaleDown, case.low, case.high)
Capacity == CapacityTarget(case.rps, pods, case.target, case.low, case.high)

Applied(target) == ClampReplicas(target, pods, case.low, case.high, case.step)

\* A cycle without anomaly, past its cooldown: engine.evaluate D4-D5.
Balance ==
  /\ Decided # None
  /\ pods' = Applied(Decided)
  /\ heading' = IF pods' > pods THEN "up" ELSE "down"
  /\ UNCHANGED case

\* A cycle with an anomaly nobody is to blame for: engine.evaluate D2.
Surge ==
  /\ Capacity # None
  /\ Capacity > pods
  /\ pods < PodLimit
  /\ pods' = Applied(Capacity)
  /\ heading' = "none"
  /\ UNCHANGED case

Next == Balance \/ Surge

Spec == Init /\ [][Next]_vars

----------------------------------------------------------------------------
(* Properties *)

TypeOK ==
  /\ case \in Case
  /\ pods \in Nat
  /\ heading \in {"none", "up", "down"}

\* Under one load the loop never turns round: what one cycle added a later one
\* does not take away, nor the other way, whatever the step limit makes of the
\* target (assess_scaling aims both ways at targetRPSPerPod).
NoReversal ==
  [][Balance => /\ heading = "up"   => pods' > pods
                /\ heading = "down" => pods' < pods]_vars

\* Scaling down leaves each pod at most its target load, unless maxReplicas
\* forbids as many pods as that takes.
DownKeepsCapacity ==
  [][Balance /\ pods' < pods =>
       case.rps <= case.target * pods' \/ (case.high # None /\ pods' >= case.high)]_vars

\* An anomaly never takes a pod away and adds at least one, past min/max and
\* step limit (capacity_target_for_anomaly).
SurgeAdds == [][Surge => pods' > pods]_vars
============================================================================
