------------------------------- MODULE Policy -------------------------------
(***************************************************************************)
(* The policy engine, policy/engine.py, with the anomaly assessment it     *)
(* calls (policy/anomaly.py) and the part of the EWMA baseline that gates  *)
(* it (policy/baseline.py): evaluate as a function of the spec, the        *)
(* snapshot, the baseline and the status the last cycle left behind.       *)
(*                                                                         *)
(* A metric is abstracted to what the assessment tells apart: its Level    *)
(* says whether it is over the static threshold and whether it is an upper *)
(* breach of the EWMA band.  Times are relative: a cooldown_until is the   *)
(* number of ticks still to go (0: absent or passed), lastReconcileAt is   *)
(* the number of ticks gone by.                                            *)
(***************************************************************************)
EXTENDS Routing, FiniteSetsExt

CONSTANT MinSamples    \* _MIN_SAMPLES: observations before the baseline is warm

ASSUME MinSamplesAssumption == MinSamples \in Nat \ {0}

Levels  == {"normal", "drift", "over", "spike"}
Verdict == {"breach", "fine", "unknown"}      \* of one backend's error rate
Actions == {"noop", "scale", "reroute", "isolate_backend"}

IsolateWeightCritical == 0      \* _ISOLATE_WEIGHT_CRITICAL
IsolateWeightWarning  == 20     \* _ISOLATE_WEIGHT_WARNING
HealthyWeight         == 100    \* _HEALTHY_WEIGHT
AssumedWeightStep     == 30     \* _ASSUMED_ACTUATOR_MAX_WEIGHT_STEP

----------------------------------------------------------------------------
(* policy/baseline.py: how many samples each metric has, up to MinSamples. *)

Baseline   == [error : 0..MinSamples, p99 : 0..MinSamples]
NoBaseline == [error |-> 0, p99 |-> 0]

\* Mutant of Warm: one metric is enough.
WarmEither(baseline) == baseline.error >= MinSamples \/ baseline.p99 >= MinSamples

\* Baseline.warm: both metrics have enough samples.
Warm(baseline) == baseline.error >= MinSamples /\ baseline.p99 >= MinSamples

\* Baseline.observe: a metric that is missing is not counted.
Observe(baseline, snap) ==
  [error |-> Smaller(baseline.error + 1, MinSamples),
   p99   |-> IF snap.p99 = None THEN baseline.p99
             ELSE Smaller(baseline.p99 + 1, MinSamples)]

----------------------------------------------------------------------------
(* policy/anomaly.py *)

\* A metric is compared only when it was measured and its threshold is set;
\* EWMA counts only once the whole baseline is warm.
StaticBreach(level, isSet) == isSet /\ level \in {"over", "spike"}
EwmaBreach(level, isSet, baseline) ==
  isSet /\ level \in {"drift", "spike"} /\ Warm(baseline)

ErrorAnomaly(spec, snap, baseline) ==
  \/ StaticBreach(snap.error, spec.errorThreshold)
  \/ EwmaBreach(snap.error, spec.errorThreshold, baseline)

LatencyAnomaly(spec, snap, baseline) ==
  \/ StaticBreach(snap.p99, spec.latencyThreshold)
  \/ EwmaBreach(snap.p99, spec.latencyThreshold, baseline)

\* Two signals on one metric: the baseline alone can never raise critical.
Severity(spec, snap, baseline) ==
  LET both(level, isSet) == StaticBreach(level, isSet) /\ EwmaBreach(level, isSet, baseline)
  IN  IF both(snap.error, spec.errorThreshold) \/ both(snap.p99, spec.latencyThreshold)
      THEN "critical"
      ELSE IF ErrorAnomaly(spec, snap, baseline) \/ LatencyAnomaly(spec, snap, baseline)
           THEN "warning"
           ELSE "none"

WithVerdict(snap, v) == {b \in DOMAIN snap.backends : snap.backends[b] = v}

\* Mutant of Culprits: a backend is blamed although none is healthy.
CulpritsAnyway(spec, snap) ==
  IF spec.errorThreshold THEN WithVerdict(snap, "breach") ELSE {}

\* _find_culprit_backends: an error is concentrated only while a healthy
\* backend is left; otherwise the problem is systemic and nobody is blamed.
Culprits(spec, snap) ==
  IF spec.errorThreshold /\ WithVerdict(snap, "fine") # {}
  THEN WithVerdict(snap, "breach")
  ELSE {}
----------------------------------------------------------------------------
(* policy/engine.py: decisions, and what is read back from the last one. *)

\* schemas.Decision: what status keeps of it and reads back.  recovery is the
\* marker a reroute leaves in its reason.
MakeDecision(action, target, weights, recovery, cuLeft) ==
  [action |-> action, target |-> target, weights |-> weights,
   recovery |-> recovery, cuLeft |-> cuLeft]

NoOp == MakeDecision("noop", None, None, None, 0)

\* Mutant of InCooldown: the age of the last action is all that is looked at.
InCooldownByAge(cooldown, status) ==
  /\ cooldown > 0
  /\ status.decision # None
  /\ status.decision.action \notin {"noop", "reroute"}
  /\ status.age # None
  /\ status.age < cooldown

\* _cooldown_remaining is not None.  A path (1) deadline travels with the
\* decision; path (2) falls back on the age of a decision that acted.
InCooldown(cooldown, status) ==
  /\ cooldown > 0
  /\ status.decision # None
  /\ \/ status.decision.cuLeft > 0
     \/ /\ status.decision.action \notin {"noop", "reroute"}
        /\ status.age # None
        /\ status.age < cooldown

\* Mutants of SuppressedNoOp: the deadline, or the weights, are not carried on.
SuppressedWithoutDeadline(prev) == MakeDecision("noop", None, prev.weights, None, 0)

SuppressedWithoutWeights(prev) == MakeDecision("noop", None, None, None, prev.cuLeft)

\* The noop a cooldown forces keeps the deadline and the weights
\* (_carry_cooldown_until, _carry_backend_weights) of the decision it replaces.
SuppressedNoOp(prev) ==
  MakeDecision("noop", None, prev.weights, None, prev.cuLeft)

\* _isolation_weights: every backend of the snapshot gets a weight.
IsolationWeights(snap, culprits, weight) ==
  [b \in DOMAIN snap.backends |-> IF b \in culprits THEN weight ELSE HealthyWeight]

Isolate(spec, snap, severity) ==
  LET weight  == IF severity = "critical" THEN IsolateWeightCritical ELSE IsolateWeightWarning
      weights == IsolationWeights(snap, Culprits(spec, snap), weight)
  IN  MakeDecision("isolate_backend", None, weights, None, spec.cooldown)

ScaleTo(spec, target) ==
  MakeDecision("scale", target, None, None, spec.cooldown)

\* The backends a decision left below HealthyWeight.
Degraded(decision) ==
  IF decision = None THEN {}
  ELSE IF decision.weights = None THEN {}
  ELSE {b \in DOMAIN decision.weights : decision.weights[b] < HealthyWeight}

\* Mutant of RecoverySteps: the last, shorter step is not counted.
RecoveryStepsRoundedDown(decision) ==
  LET lowest == Min({decision.weights[b] : b \in Degraded(decision)})
  IN  Larger(1, (HealthyWeight - lowest) \div AssumedWeightStep)

\* Reissues needed from the lowest weight, at AssumedWeightStep each.
RecoverySteps(decision) ==
  LET lowest == Min({decision.weights[b] : b \in Degraded(decision)})
  IN  Larger(1, CeilDiv(HealthyWeight - lowest, AssumedWeightStep))

\* Mutant of RecoveryState: a finished recovery goes on.
RecoveryStateEndless(prev) ==
  IF prev # None /\ prev.action = "reroute"
  THEN IF prev.recovery # None /\ prev.recovery.done <= prev.recovery.total
       THEN prev.recovery
       ELSE None
  ELSE IF Degraded(prev) = {}
       THEN None
       ELSE [done |-> 0, total |-> RecoverySteps(prev), backends |-> Degraded(prev)]

\* _recovery_state: how far the recovery is after the previous decision, or None.
\* A reroute tells by its own marker (_parse_recovery_marker); anything else
\* by the weights it carries.
RecoveryState(prev) ==
  IF prev # None /\ prev.action = "reroute"
  THEN IF prev.recovery # None /\ prev.recovery.done < prev.recovery.total
       THEN prev.recovery
       ELSE None
  ELSE IF Degraded(prev) = {}
       THEN None
       ELSE [done |-> 0, total |-> RecoverySteps(prev), backends |-> Degraded(prev)]

\* Mutant of Reroute: it asks for one step at a time.
RerouteStepwise(state) ==
  LET target  == HealthyWeight - AssumedWeightStep * (state.total - state.done - 1)
      weights == [b \in state.backends |-> target]
      marker  == [done |-> state.done + 1, total |-> state.total, backends |-> state.backends]
  IN  MakeDecision("reroute", None, weights, marker, 0)

\* The goal is always full weight: how far a cycle gets is the actuator's clamp.
Reroute(state) ==
  LET weights == [b \in state.backends |-> HealthyWeight]
      marker  == [done |-> state.done + 1, total |-> state.total, backends |-> state.backends]
  IN  MakeDecision("reroute", None, weights, marker, 0)

----------------------------------------------------------------------------
(* evaluate, steps (A) to (D) in the order of the code *)

\* (A) no observation.  (C) cooldown.  (D) 1 isolate, 2 add capacity,
\* 3 recover, 4-5 scale on load, 6 keep.
Evaluate(spec, snap, baseline, status) ==
  LET severity == Severity(spec, snap, baseline)
      prev     == status.decision
      isolate  == /\ ErrorAnomaly(spec, snap, baseline)
                  /\ Culprits(spec, snap) # {}
                  /\ spec.allowIsolation
      capacity == CapacityTarget(snap.rps, snap.pods, spec.targetRPS,
                                 spec.minReplicas, spec.maxReplicas)
      scale    == AssessScaling(snap.rps, snap.pods, spec.targetRPS, spec.scaleDownRPS,
                                spec.minReplicas, spec.maxReplicas)
  IN  IF snap.status # "ok" THEN NoOp
      ELSE IF InCooldown(spec.cooldown, status) THEN SuppressedNoOp(prev)
      ELSE IF isolate THEN Isolate(spec, snap, severity)
      ELSE IF severity # "none"
           THEN IF capacity # None /\ capacity > snap.pods
                THEN ScaleTo(spec, capacity)
                ELSE NoOp
      ELSE IF RecoveryState(prev) # None THEN Reroute(RecoveryState(prev))
      ELSE IF scale # None THEN ScaleTo(spec, scale)
      ELSE NoOp

\* (B) the baseline learns from every ok snapshot except a critical one.
Learn(spec, snap, baseline) ==
  IF snap.status = "ok" /\ Severity(spec, snap, baseline) # "critical"
  THEN Observe(baseline, snap)
  ELSE baseline
============================================================================
