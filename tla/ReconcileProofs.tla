-------------------------- MODULE ReconcileProofs --------------------------
(***************************************************************************)
(* Type correctness of Reconcile and the safety of its cooldown, of its    *)
(* weight steps and of its replica steps, for every TrafficPolicy, every   *)
(* HTTPRoute and every traffic.  Then that Reconcile implements            *)
(* RecoveryLifecycle.                                                      *)
(***************************************************************************)
EXTENDS Reconcile, TLAPS

SnapshotType ==
  [status : Status, error : Levels, p99 : Levels \union {None}, rps : Nat,
   backends : UNION {[D -> Verdict] : D \in SUBSET Backends}, pods : OptionalNat]

StatusType == [decision : {None} \union Decision, age : {None} \union 0..MaxCooldown]

JobType ==
  [spec : {None} \union Specs, decision : {None} \union Decision, age : 0..MaxCooldown]

\* A decision carries what the executor needs to carry it out (schemas.Decision).
Complete(decision) ==
  /\ decision.action = "scale" => decision.target \in Nat
  /\ decision.action \in Rerouting => decision.weights \in PartialWeights

----------------------------------------------------------------------------
(* What the operators of Scaling and Policy return *)

LEMMA CeilDivType ==
  ASSUME NEW m \in Nat, NEW d \in Nat \ {0}
  PROVE  CeilDiv(m, d) \in Nat
<1>1. m + d - 1 \in Nat
  OBVIOUS
<1> QED
  BY <1>1, SMTT(30) DEF CeilDiv

LEMMA ClampType ==
  ASSUME NEW v \in Nat, NEW low \in OptionalNat, NEW high \in OptionalNat
  PROVE  Clamp(v, low, high) \in Nat
BY NoneAssumption DEF Clamp, OptionalNat, Larger, Smaller

LEMMA AssessScalingType ==
  ASSUME NEW rps \in Nat, NEW pods \in OptionalNat, NEW target \in OptionalNat,
         NEW scaleDown \in OptionalNat, NEW low \in OptionalNat, NEW high \in OptionalNat
  PROVE  AssessScaling(rps, pods, target, scaleDown, low, high) \in OptionalNat
<1>1. CASE target \in Nat \ {0}
  <2>1. DesiredPods(rps, target, low, high) \in Nat
    BY <1>1, CeilDivType, ClampType DEF DesiredPods
  <2> QED
    BY <2>1 DEF AssessScaling, OptionalNat
<1>2. CASE target \notin Nat \ {0}
  BY <1>2 DEF AssessScaling, InsufficientInput, OptionalNat
<1> QED
  BY <1>1, <1>2

LEMMA CapacityTargetType ==
  ASSUME NEW rps \in Nat, NEW pods \in OptionalNat, NEW target \in OptionalNat,
         NEW low \in OptionalNat, NEW high \in OptionalNat
  PROVE  CapacityTarget(rps, pods, target, low, high) \in OptionalNat
<1>1. CASE pods = None
  BY <1>1 DEF CapacityTarget, OptionalNat
<1>2. CASE pods \in Nat
  <2> DEFINE loaded == rps # None /\ target # None /\ target # 0
             wanted == IF loaded THEN Larger(pods + 1, CeilDiv(rps, target)) ELSE pods + 1
  <2>1. loaded => CeilDiv(rps, target) \in Nat
    BY CeilDivType DEF OptionalNat
  <2>2. wanted \in Nat
    BY <1>2, <2>1 DEF Larger
  <2> HIDE DEF wanted
  <2>3. Clamp(wanted, low, high) \in Nat
    BY <2>2, ClampType
  <2> QED
    BY <2>3 DEF CapacityTarget, OptionalNat, wanted
<1> QED
  BY <1>1, <1>2 DEF OptionalNat

\* clamp_weight_change stays within 0..100, and within one step of a weight
\* that was there before.
LEMMA ClampWeightChangeBounds ==
  ASSUME NEW current \in Nat, NEW target \in 0..100
  PROVE  /\ ClampWeightChange(current, target) \in 0..100
         /\ current \in 0..100 =>
              Distance(ClampWeightChange(current, target), current) <= MaxWeightDelta
BY DEF ClampWeightChange, Limited, Larger, Smaller, Distance, MaxWeightDelta

LEMMA LearnType ==
  ASSUME NEW cr, NEW snap \in SnapshotType, NEW base \in Baseline
  PROVE  Learn(cr, snap, base) \in Baseline
BY MinSamplesAssumption DEF Learn, Observe, Baseline, Smaller, SnapshotType

----------------------------------------------------------------------------
(* Recovery state and decisions *)

LEMMA PartialWeightsIntro ==
  ASSUME NEW D \in SUBSET Backends, NEW w \in [D -> IssuedWeights]
  PROVE  w \in PartialWeights
BY DEF PartialWeights

LEMMA PartialWeightsElim ==
  ASSUME NEW w \in PartialWeights
  PROVE  /\ DOMAIN w \in SUBSET Backends
         /\ w \in [DOMAIN w -> IssuedWeights]
BY DEF PartialWeights

LEMMA DegradedType ==
  ASSUME NEW prev \in {None} \union Decision
  PROVE  Degraded(prev) \in SUBSET Backends
<1>1. CASE prev # None /\ prev.weights # None
  <2>1. prev.weights \in PartialWeights
    BY <1>1 DEF Decision
  <2> QED
    BY <1>1, <2>1, PartialWeightsElim DEF Degraded
<1>2. CASE ~(prev # None /\ prev.weights # None)
  BY <1>2 DEF Degraded
<1> QED
  BY <1>1, <1>2

\* From weight 20 it takes 3 reissues, from weight 0 it takes 4.
LEMMA RecoveryStepsType ==
  ASSUME NEW prev \in Decision, Degraded(prev) # {}
  PROVE  RecoverySteps(prev) \in 1..4
<1> DEFINE S == {prev.weights[b] : b \in Degraded(prev)}
<1>1. prev.weights \in PartialWeights
  BY DEF Degraded, Decision
<1>2. S \in SUBSET {0, 20} /\ S # {}
  BY <1>1, PartialWeightsElim
     DEF Degraded, IssuedWeights, IsolateWeightCritical, IsolateWeightWarning, HealthyWeight
<1>3. \E x \in S : \A y \in S : x =< y
  <2> HIDE DEF S
  <2>1. CASE 0 \in S
    BY <1>2, <2>1
  <2>2. CASE 0 \notin S
    <3>1. S = {20}
      BY <1>2, <2>2
    <3> QED
      BY <3>1
  <2> QED
    BY <2>1, <2>2
<1>4. Min(S) \in S
  BY <1>3 DEF Min
<1>5. Min(S) \in {0, 20}
  BY <1>2, <1>4
<1> HIDE DEF S
<1>6. Larger(1, CeilDiv(HealthyWeight - Min(S), AssumedWeightStep)) \in 1..4
  BY <1>5 DEF Larger, CeilDiv, HealthyWeight, AssumedWeightStep
<1> QED
  BY <1>6 DEF RecoverySteps, S

\* What is left of a recovery, between none of its reissues and all but one.
LEMMA RecoveryStateType ==
  ASSUME NEW prev \in {None} \union Decision, RecoveryState(prev) # None
  PROVE  /\ prev \in Decision
         /\ RecoveryState(prev) \in
              [done : 0..3, total : 1..4, backends : (SUBSET Backends) \ {{}}]
         /\ RecoveryState(prev).done < RecoveryState(prev).total
<1>1. prev \in Decision /\ prev # None
  BY DEF RecoveryState, Degraded
<1>2. CASE prev.action = "reroute"
  <2>1. /\ prev.recovery # None
        /\ prev.recovery.done < prev.recovery.total
        /\ RecoveryState(prev) = prev.recovery
    BY <1>1, <1>2 DEF RecoveryState
  <2>2. prev.recovery \in Recovery
    BY <1>1, <2>1 DEF Decision
  <2> QED
    BY <1>1, <2>1, <2>2 DEF Recovery
<1>3. CASE prev.action # "reroute"
  <2>1. /\ Degraded(prev) # {}
        /\ RecoveryState(prev) =
             [done |-> 0, total |-> RecoverySteps(prev), backends |-> Degraded(prev)]
    BY <1>1, <1>3 DEF RecoveryState
  <2>2. RecoverySteps(prev) \in 1..4 /\ Degraded(prev) \in SUBSET Backends
    BY <1>1, <2>1, RecoveryStepsType, DegradedType
  <2> QED
    BY <1>1, <2>1, <2>2
<1> QED
  BY <1>2, <1>3

LEMMA CooldownType ==
  ASSUME NEW cr \in Specs
  PROVE  cr \in CRType /\ cr.cooldown \in Nat /\ cr.cooldown <= MaxCooldown
BY ReconcileAssumption DEF CRType

LEMMA MakeDecisionType ==
  ASSUME NEW act \in Actions, NEW target \in OptionalNat,
         NEW weights \in {None} \union PartialWeights,
         NEW recovery \in {None} \union Recovery, NEW cuLeft \in 0..MaxCooldown,
         act = "scale" => target \in Nat,
         act \in Rerouting => weights \in PartialWeights
  PROVE  /\ MakeDecision(act, target, weights, recovery, cuLeft) \in Decision
         /\ Complete(MakeDecision(act, target, weights, recovery, cuLeft))
BY DEF MakeDecision, Decision, Complete

LEMMA NoOpType == NoOp \in Decision /\ Complete(NoOp)
<1>1. /\ "noop" \in Actions /\ "noop" \notin Rerouting
      /\ None \in OptionalNat
      /\ None \in {None} \union PartialWeights
      /\ None \in {None} \union Recovery
  BY DEF Actions, Rerouting, OptionalNat
<1>2. 0 \in 0..MaxCooldown
  BY ReconcileAssumption
<1> QED
  BY <1>1, <1>2, MakeDecisionType DEF NoOp

LEMMA SuppressedType ==
  ASSUME NEW prev \in Decision
  PROVE  SuppressedNoOp(prev) \in Decision /\ Complete(SuppressedNoOp(prev))
<1>1. prev.cuLeft \in 0..MaxCooldown /\ prev.weights \in {None} \union PartialWeights
  BY DEF Decision
<1> QED
  BY <1>1, MakeDecisionType DEF SuppressedNoOp, Actions, OptionalNat, Rerouting

LEMMA IsolateType ==
  ASSUME NEW cr \in Specs, NEW snap \in SnapshotType, NEW severity
  PROVE  /\ Isolate(cr, snap, severity) \in Decision
         /\ Complete(Isolate(cr, snap, severity))
<1> DEFINE weight  == IF severity = "critical" THEN IsolateWeightCritical ELSE IsolateWeightWarning
           weights == IsolationWeights(snap, Culprits(cr, snap), weight)
<1>1. DOMAIN snap.backends \in SUBSET Backends
  BY DEF SnapshotType
<1>2. weight \in IssuedWeights /\ HealthyWeight \in IssuedWeights
  BY DEF IssuedWeights
<1>3. weights \in [DOMAIN snap.backends -> IssuedWeights]
  BY <1>2 DEF IsolationWeights
<1>4. weights \in PartialWeights
  BY <1>1, <1>3, PartialWeightsIntro
<1>5. Isolate(cr, snap, severity) =
        MakeDecision("isolate_backend", None, weights, None, cr.cooldown)
  BY DEF Isolate
<1>6. /\ "isolate_backend" \in Actions
      /\ None \in OptionalNat
      /\ None \in {None} \union Recovery
      /\ cr.cooldown \in 0..MaxCooldown
  BY CooldownType DEF Actions, OptionalNat
<1> HIDE DEF weights
<1> QED
  BY <1>4, <1>5, <1>6, MakeDecisionType

LEMMA ScaleToType ==
  ASSUME NEW cr \in Specs, NEW target \in Nat
  PROVE  ScaleTo(cr, target) \in Decision /\ Complete(ScaleTo(cr, target))
<1>1. cr.cooldown \in 0..MaxCooldown
  BY CooldownType, ReconcileAssumption
<1> QED
  BY <1>1, MakeDecisionType DEF ScaleTo, Actions, OptionalNat, Rerouting

LEMMA RerouteType ==
  ASSUME NEW prev \in {None} \union Decision, RecoveryState(prev) # None
  PROVE  /\ Reroute(RecoveryState(prev)) \in Decision
         /\ Complete(Reroute(RecoveryState(prev)))
<1> DEFINE state   == RecoveryState(prev)
           weights == [b \in state.backends |-> HealthyWeight]
           marker  == [done |-> state.done + 1, total |-> state.total,
                       backends |-> state.backends]
<1>1. /\ state.done \in 0..3 /\ state.total \in 1..4 /\ state.done < state.total
      /\ state.backends \in (SUBSET Backends) \ {{}}
  BY RecoveryStateType
<1>2. weights \in PartialWeights
  BY <1>1, PartialWeightsIntro DEF IssuedWeights
<1>3. marker \in Recovery
  BY <1>1 DEF Recovery
<1>4. Reroute(state) = MakeDecision("reroute", None, weights, marker, 0)
  BY DEF Reroute
<1> HIDE DEF state, weights, marker
<1>5. /\ MakeDecision("reroute", None, weights, marker, 0) \in Decision
      /\ Complete(MakeDecision("reroute", None, weights, marker, 0))
  <2>1. /\ "reroute" \in Actions
        /\ None \in OptionalNat
        /\ 0 \in 0..MaxCooldown
    BY ReconcileAssumption DEF Actions, OptionalNat
  <2> QED
    BY <1>2, <1>3, <2>1, MakeDecisionType
<1> QED
  BY <1>4, <1>5 DEF state

\* Whatever evaluate sees, it decides something its executor can carry out.
LEMMA EvaluateType ==
  ASSUME NEW cr \in Specs, NEW snap \in SnapshotType, NEW base, NEW st \in StatusType
  PROVE  Evaluate(cr, snap, base, st) \in Decision /\ Complete(Evaluate(cr, snap, base, st))
<1> DEFINE prev     == st.decision
           severity == Severity(cr, snap, base)
           capacity == CapacityTarget(snap.rps, snap.pods, cr.targetRPS,
                                      cr.minReplicas, cr.maxReplicas)
           scale    == AssessScaling(snap.rps, snap.pods, cr.targetRPS, cr.scaleDownRPS,
                                     cr.minReplicas, cr.maxReplicas)
           Good(d)  == d \in Decision /\ Complete(d)
<1>1. /\ snap.rps \in Nat /\ snap.pods \in OptionalNat
      /\ cr.targetRPS \in OptionalNat /\ cr.scaleDownRPS \in OptionalNat
      /\ cr.minReplicas \in OptionalNat /\ cr.maxReplicas \in OptionalNat
  BY CooldownType DEF SnapshotType, CRType
<1>2. capacity \in OptionalNat /\ scale \in OptionalNat
  BY <1>1, CapacityTargetType, AssessScalingType
<1>3. prev \in {None} \union Decision
  BY DEF StatusType
<1>4. Good(NoOp)
  BY NoOpType
<1>5. InCooldown(cr.cooldown, st) => Good(SuppressedNoOp(prev))
  BY <1>3, SuppressedType DEF InCooldown
<1>6. Good(Isolate(cr, snap, severity))
  BY IsolateType
<1>7. capacity # None => Good(ScaleTo(cr, capacity))
  BY <1>2, ScaleToType DEF OptionalNat
<1>8. RecoveryState(prev) # None => Good(Reroute(RecoveryState(prev)))
  BY <1>3, RerouteType
<1>9. scale # None => Good(ScaleTo(cr, scale))
  BY <1>2, ScaleToType DEF OptionalNat
<1>10. Evaluate(cr, snap, base, st) \in
         {NoOp, Isolate(cr, snap, severity)}
         \union {d \in {SuppressedNoOp(prev)} : InCooldown(cr.cooldown, st)}
         \union {d \in {ScaleTo(cr, capacity)} : capacity # None}
         \union {d \in {Reroute(RecoveryState(prev))} : RecoveryState(prev) # None}
         \union {d \in {ScaleTo(cr, scale)} : scale # None}
  <2> HIDE DEF severity, capacity, scale, prev
  <2> QED
    BY DEF Evaluate, severity, capacity, scale, prev
<1> HIDE DEF severity, capacity, scale, prev
<1> QED
  BY <1>4, <1>5, <1>6, <1>7, <1>8, <1>9, <1>10

\* A JSON merge patch of two decisions is a decision.
LEMMA MergeType ==
  ASSUME NEW prev \in {None} \union Decision, NEW next \in Decision
  PROVE  Merge(prev, next) \in Decision
<1>1. CASE prev = None \/ next.weights = None \/ prev.weights = None
  BY <1>1 DEF Merge
<1>2. CASE ~(prev = None \/ next.weights = None \/ prev.weights = None)
  <2> DEFINE D == DOMAIN prev.weights \union DOMAIN next.weights
             w == [b \in D |->
                     IF b \in DOMAIN next.weights THEN next.weights[b] ELSE prev.weights[b]]
  <2>1. prev.weights \in PartialWeights /\ next.weights \in PartialWeights
    BY <1>2 DEF Decision
  <2>2. D \in SUBSET Backends /\ w \in [D -> IssuedWeights]
    BY <2>1, PartialWeightsElim
  <2>3. w \in PartialWeights
    BY <2>2, PartialWeightsIntro
  <2>4. Merge(prev, next) = [next EXCEPT !.weights = w]
    BY <1>2 DEF Merge
  <2> HIDE DEF D, w
  <2> QED
    BY <2>3, <2>4 DEF Decision
<1> QED
  BY <1>1, <1>2

\* The passing of time touches the deadline of a decision and nothing else.
LEMMA SoonerType ==
  ASSUME NEW d \in Decision
  PROVE  /\ Sooner(d) \in Decision
         /\ Sooner(d).action = d.action
         /\ Sooner(d).cuLeft = Larger(0, d.cuLeft - 1)
         /\ Complete(d) => Complete(Sooner(d))
<1>1. d # None
  BY NoDecisionAssumption
<1>2. Larger(0, d.cuLeft - 1) \in 0..MaxCooldown
  BY ReconcileAssumption DEF Decision, Larger
<1>3. Sooner(d) = [d EXCEPT !.cuLeft = Larger(0, d.cuLeft - 1)]
  BY <1>1 DEF Sooner
<1> QED
  BY <1>2, <1>3 DEF Decision, Complete

LEMMA SoonerNone == Sooner(None) = None
BY DEF Sooner

LEMMA AgedType ==
  ASSUME NEW n \in 0..MaxCooldown
  PROVE  /\ Aged(n) \in 0..MaxCooldown
         /\ Aged(n) >= n
         /\ Aged(n) <= n + 1
BY ReconcileAssumption DEF Aged, Smaller

\* What the collector returns.
LEMMA SnapshotsType ==
  ASSUME ready \in Nat
  PROVE  Snapshots \subseteq SnapshotType
<1>1. Traffic \subseteq Observation(Backends) /\ CalmTraffic \subseteq Observation(Backends)
  BY ReconcileAssumption
<1>2. ASSUME NEW t \in Observation(Backends), NEW p \in OptionalNat
      PROVE  Snapshot(t, p) \in SnapshotType
  BY DEF Snapshot, SnapshotType, Observation
<1>3. ready \in OptionalNat /\ None \in OptionalNat
  BY DEF OptionalNat
<1> QED
  BY <1>1, <1>2, <1>3 DEF Snapshots

----------------------------------------------------------------------------
(* The cluster: what scaler.py and router.py write *)

LEMMA ClampReplicasType ==
  ASSUME NEW cr \in Specs, NEW target \in Nat, NEW current \in Nat
  PROVE  ClampReplicas(target, current, cr.minReplicas, cr.maxReplicas, cr.maxScaleStep) \in Nat
<1> DEFINE goal == Clamp(target, cr.minReplicas, cr.maxReplicas)
<1>1. /\ cr.minReplicas \in OptionalNat /\ cr.maxReplicas \in OptionalNat
      /\ cr.maxScaleStep \in OptionalNat
  BY CooldownType DEF CRType
<1>2. goal \in Nat
  BY <1>1, ClampType
<1> HIDE DEF goal
<1>3. cr.maxScaleStep # None => Limited(current, goal, cr.maxScaleStep) \in Int
  BY <1>1, <1>2 DEF Limited, OptionalNat
<1> QED
  BY <1>2, <1>3 DEF ClampReplicas, Larger, goal

\* Whatever the targets, the new route has the references of the old one.
LEMMA ApplyWeightsType ==
  ASSUME NEW r \in [Refs -> Nat], NEW weights \in PartialWeights
  PROVE  ApplyWeights(r, NormalizeTargets(weights)) \in [Refs -> Nat]
<1> DEFINE targets == NormalizeTargets(weights)
<1>1. DOMAIN r = Refs
  OBVIOUS
<1>2. \A b \in DOMAIN targets : targets[b] \in 0..100
  BY DEF NormalizeTargets
<1> HIDE DEF targets
<1>3. ASSUME NEW ref \in MatchedRefs(r, targets)
      PROVE  ClampWeightChange(r[ref], targets[ref.name]) \in Nat
  <2>1. r[ref] \in Nat /\ targets[ref.name] \in 0..100
    BY <1>1, <1>2 DEF MatchedRefs
  <2>2. ClampWeightChange(r[ref], targets[ref.name]) \in 0..100
    BY <2>1, ClampWeightChangeBounds
  <2> QED
    BY <2>2
<1>4. ApplyWeights(r, targets) \in [Refs -> Nat]
  BY <1>1, <1>3 DEF ApplyWeights
<1> QED
  BY <1>4 DEF targets

----------------------------------------------------------------------------
(* Type correctness *)

\* A handler on its way to the cluster has a decision it can carry out.
Planned ==
  pc \in {"read", "write"} =>
    /\ job.decision \in Decision
    /\ job.decision.action # "noop"
    /\ Complete(job.decision)

\* A handler is only started by a timer that has been armed again.
Rearmed == pc # "idle" => sleep # 0

TypeInv == TypeOK /\ Planned /\ Rearmed

LEMMA TypeInit == Init => TypeInv
<1> SUFFICES ASSUME Init PROVE TypeInv
  OBVIOUS
<1>1. replicas \in Nat /\ ready \in Nat /\ route \in [Refs -> Nat]
  BY ReconcileAssumption DEF Init
<1>2. status \in [decision : {None} \union Decision, age : {None} \union 0..MaxCooldown]
  BY DEF Init
<1>3. baseline \in Baseline
  BY MinSamplesAssumption DEF Init, NoBaseline, Baseline
<1>4. sleep \in 0..Interval
  BY ReconcileAssumption DEF Init
<1>5. job \in JobType
  BY ReconcileAssumption DEF Init, NoJob, JobType
<1>6. rest \in 0..MaxCooldown
  BY ReconcileAssumption DEF Init
<1>7. pc = "idle" /\ attempt \in 0..1 /\ spec \in Specs
  BY DEF Init
<1>10. fresh \in BOOLEAN /\ calm \in BOOLEAN
  BY Zenon DEF Init
<1>8. held \in IF pc # "write" THEN {None}
               ELSE IF job.decision.action = "scale" THEN Nat ELSE [Refs -> Nat]
  BY DEF Init
<1>9. TypeOK
  BY <1>1, <1>2, <1>3, <1>4, <1>5, <1>6, <1>7, <1>8, <1>10 DEF TypeOK, JobType
<1> QED
  BY <1>7, <1>9 DEF TypeInv, Planned, Rearmed

LEMMA TypeTick == TypeInv /\ Tick => TypeInv'
<1> SUFFICES ASSUME TypeInv, Tick PROVE TypeInv'
  OBVIOUS
<1>1. sleep' \in 0..Interval /\ (pc # "idle" => sleep' # 0)
  <2>1. Interval \in Nat \ {0} /\ sleep \in 0..Interval /\ (pc # "idle" => sleep # 0)
    BY ReconcileAssumption DEF TypeInv, TypeOK, Rearmed
  <2>2. sleep' = IF pc = "idle" THEN Larger(0, sleep - 1)
                 ELSE IF sleep = 1 THEN Interval ELSE sleep - 1
    BY DEF Tick
  <2>3. Larger(0, sleep - 1) \in 0..Interval
    BY <2>1 DEF Larger
  <2> QED
    BY <2>1, <2>2, <2>3
<1>2. status' \in [decision : {None} \union Decision, age : {None} \union 0..MaxCooldown]
  <2>1. Sooner(status.decision) \in {None} \union Decision
    BY SoonerType, SoonerNone DEF TypeInv, TypeOK
  <2>2. (IF status.age = None THEN None ELSE Aged(status.age)) \in {None} \union 0..MaxCooldown
    BY AgedType DEF TypeInv, TypeOK
  <2> QED
    BY <2>1, <2>2 DEF Tick
<1>3. job' \in JobType /\ job'.spec = job.spec
  <2>1. Sooner(job.decision) \in {None} \union Decision
    BY SoonerType, SoonerNone DEF TypeInv, TypeOK
  <2>2. Aged(job.age) \in 0..MaxCooldown
    BY AgedType DEF TypeInv, TypeOK
  <2>3. job \in JobType
    BY DEF TypeInv, TypeOK, JobType
  <2>4. job' = job \/ job' = [job EXCEPT !.decision = Sooner(@), !.age = Aged(@)]
    BY DEF Tick
  <2> QED
    BY <2>1, <2>2, <2>3, <2>4 DEF JobType
<1>4. rest' \in 0..MaxCooldown
  BY ReconcileAssumption DEF TypeInv, TypeOK, Tick, Larger
<1>5. pc \in {"read", "write"} =>
        /\ job'.decision \in Decision
        /\ job'.decision.action = job.decision.action
        /\ Complete(job'.decision)
  <2> SUFFICES ASSUME pc \in {"read", "write"}
               PROVE  /\ job'.decision \in Decision
                      /\ job'.decision.action = job.decision.action
                      /\ Complete(job'.decision)
    OBVIOUS
  <2>1. job.decision \in Decision /\ Complete(job.decision)
    BY DEF TypeInv, Planned
  <2>2. job'.decision = Sooner(job.decision)
    BY DEF Tick, TypeInv, TypeOK
  <2> QED
    BY <2>1, <2>2, SoonerType
<1>6. held' \in IF pc' # "write" THEN {None}
                ELSE IF job'.decision.action = "scale" THEN Nat ELSE [Refs -> Nat]
  BY <1>5 DEF TypeInv, TypeOK, Tick
<1>7. UNCHANGED <<spec, replicas, ready, route, baseline, pc, fresh, attempt, calm>>
  BY DEF Tick, cluster
<1>8. TypeOK'
  BY <1>1, <1>2, <1>3, <1>4, <1>6, <1>7 DEF TypeInv, TypeOK, JobType
<1>9. Planned'
  BY <1>5, <1>7 DEF TypeInv, Planned
<1>10. Rearmed'
  BY <1>1, <1>7 DEF Rearmed
<1> QED
  BY <1>8, <1>9, <1>10 DEF TypeInv

LEMMA TypeCollect == TypeInv /\ Collect => TypeInv'
<1> SUFFICES ASSUME TypeInv, Collect PROVE TypeInv'
  OBVIOUS
<1>1. PICK snap \in Snapshots : Observing(snap)
  BY DEF Collect
<1>2. snap \in SnapshotType
  BY <1>1, SnapshotsType DEF TypeInv, TypeOK
<1> DEFINE decision ==
      IF snap.status = "ok" THEN Evaluate(spec, snap, baseline, status) ELSE None
<1>3. /\ job' = [spec |-> spec, decision |-> decision, age |-> 0]
      /\ baseline' = Learn(spec, snap, baseline)
      /\ pc' = IF decision # None /\ decision.action # "noop" THEN "read" ELSE "record"
  BY <1>1 DEF Observing
<1>4. decision = None \/ (decision \in Decision /\ Complete(decision))
  BY <1>2, EvaluateType DEF TypeInv, TypeOK, StatusType
<1> HIDE DEF decision
<1>5. job' \in JobType /\ job'.spec \in Specs
  BY <1>3, <1>4, ReconcileAssumption DEF TypeInv, TypeOK, JobType
<1>6. baseline' \in Baseline
  BY <1>2, <1>3, LearnType DEF TypeInv, TypeOK
<1>7. /\ pc = "idle" /\ held' = held /\ sleep' = Interval /\ attempt' = 0
      /\ UNCHANGED <<spec, replicas, ready, route, status, fresh, calm, rest>>
  BY DEF Collect, cluster
<1>8. TypeOK'
  BY <1>3, <1>5, <1>6, <1>7, ReconcileAssumption DEF TypeInv, TypeOK, JobType
<1>9. Planned'
  BY <1>3, <1>4 DEF Planned
<1>10. Rearmed'
  BY <1>7, ReconcileAssumption DEF Rearmed
<1> QED
  BY <1>8, <1>9, <1>10 DEF TypeInv

LEMMA TypeCalls ==
  TypeInv /\ (ReadScale \/ WriteScale \/ ReadRoute \/ WriteRoute \/ RouteConflict) => TypeInv'
<1> USE DEF TypeInv, TypeOK, Planned, Rearmed, cluster
<1>1. ASSUME TypeInv, ReadScale PROVE TypeInv'
  BY <1>1 DEF ReadScale
<1>2. ASSUME TypeInv, WriteScale PROVE TypeInv'
  <2>1. held \in Nat /\ job.decision.target \in Nat /\ job.spec \in Specs
    BY <1>2 DEF WriteScale, Complete
  <2>2. PlannedReplicas(held) \in Nat
    BY <2>1, ClampReplicasType DEF PlannedReplicas
  <2> QED
    BY <1>2, <2>2 DEF WriteScale
<1>3. ASSUME TypeInv, ReadRoute PROVE TypeInv'
  <2>1. job.decision.action # "scale"
    BY <1>3 DEF ReadRoute, Rerouting
  <2>2. fresh' \in BOOLEAN
    BY <1>3, Zenon DEF ReadRoute
  <2> QED
    BY <1>3, <2>1, <2>2 DEF ReadRoute
<1>4. ASSUME TypeInv, WriteRoute PROVE TypeInv'
  <2>1. held \in [Refs -> Nat] /\ job.decision.weights \in PartialWeights
    BY <1>4 DEF WriteRoute, Rerouting, Complete
  <2>2. ApplyWeights(held, Targets) \in [Refs -> Nat]
    BY <2>1, ApplyWeightsType DEF Targets
  <2>3. fresh' \in BOOLEAN
    BY <1>4, Zenon DEF WriteRoute
  <2> QED
    BY <1>4, <2>2, <2>3 DEF WriteRoute
<1>5. ASSUME TypeInv, RouteConflict PROVE TypeInv'
  BY <1>5 DEF RouteConflict
<1> QED
  BY <1>1, <1>2, <1>3, <1>4, <1>5

LEMMA TypeEnvironment ==
  TypeInv /\ (PodStarts \/ PodStops \/ EditReplicas \/ EditRoute \/ EditSpec \/ CalmDown)
    => TypeInv'
<1> USE DEF TypeInv, TypeOK, Planned, Rearmed, handler
<1>1. ASSUME TypeInv, PodStarts PROVE TypeInv'
  BY <1>1 DEF PodStarts
<1>2. ASSUME TypeInv, PodStops PROVE TypeInv'
  <2>1. ready > 0
    BY <1>2 DEF PodStops
  <2> QED
    BY <1>2, <2>1 DEF PodStops
<1>3. ASSUME TypeInv, EditReplicas PROVE TypeInv'
  BY <1>3, ReconcileAssumption DEF EditReplicas
<1>4. ASSUME TypeInv, EditRoute PROVE TypeInv'
  <2>1. route' \in [Refs -> Nat]
    BY <1>4, ReconcileAssumption DEF EditRoute
  <2>2. fresh' \in BOOLEAN
    BY <1>4, Zenon DEF EditRoute
  <2> QED
    BY <1>4, <2>1, <2>2 DEF EditRoute
<1>5. ASSUME TypeInv, CalmDown PROVE TypeInv'
  <2>1. calm' \in BOOLEAN
    BY <1>5, Zenon DEF CalmDown
  <2> QED
    BY <1>5, <2>1 DEF CalmDown, cluster
<1>6. ASSUME TypeInv, EditSpec PROVE TypeInv'
  BY <1>6 DEF EditSpec, cluster
<1> QED
  BY <1>1, <1>2, <1>3, <1>4, <1>5, <1>6

LEMMA TypeEnds ==
  TypeInv /\ (CallFails \/ Record \/ RecordFails \/ Crash) => TypeInv'
<1> USE DEF TypeInv, TypeOK, Planned, Rearmed, cluster
<1>1. ASSUME TypeInv, CallFails PROVE TypeInv'
  <2>1. fresh' \in BOOLEAN
    BY <1>1, Zenon DEF CallFails
  <2> QED
    BY <1>1, <2>1 DEF CallFails
<1>2. NoJob \in JobType
  BY ReconcileAssumption DEF NoJob, JobType
<1>3. ASSUME TypeInv, Record PROVE TypeInv'
  <2>1. (IF job.decision = None THEN status.decision
         ELSE Merge(status.decision, job.decision)) \in {None} \union Decision
    BY <1>3, MergeType
  <2>2. status' \in [decision : {None} \union Decision, age : {None} \union 0..MaxCooldown]
    BY <1>3, <2>1, ReconcileAssumption DEF Record
  <2>3. rest' \in 0..MaxCooldown
    <3>1. job.spec \in Specs
      BY <1>3 DEF Record
    <3>2. job.spec.cooldown \in Nat /\ job.spec.cooldown <= MaxCooldown
      BY <3>1, CooldownType
    <3>3. Larger(0, job.spec.cooldown - job.age) \in 0..MaxCooldown
      BY <1>3, <3>2, ReconcileAssumption DEF Larger
    <3> QED
      BY <1>3, <3>3, ReconcileAssumption DEF Record
  <2>4. job' \in JobType
    BY <1>2, <1>3 DEF Record
  <2> QED
    BY <1>3, <2>2, <2>3, <2>4 DEF Record, JobType
<1>4. ASSUME TypeInv, RecordFails PROVE TypeInv'
  BY <1>2, <1>4 DEF RecordFails, JobType
<1>5. ASSUME TypeInv, Crash PROVE TypeInv'
  <2>1. fresh' \in BOOLEAN
    BY <1>5, Zenon DEF Crash
  <2>2. baseline' \in Baseline /\ sleep' \in 0..Interval
    BY <1>5, MinSamplesAssumption, ReconcileAssumption DEF Crash, NoBaseline, Baseline
  <2> QED
    BY <1>2, <1>5, <2>1, <2>2 DEF Crash, JobType
<1> QED
  BY <1>1, <1>3, <1>4, <1>5

LEMMA TypeStep == TypeInv /\ [Next]_vars => TypeInv'
<1>1. TypeInv /\ Next => TypeInv'
  BY TypeTick, TypeCollect, TypeCalls, TypeEnvironment, TypeEnds
     DEF Next, Operator, Actuate, Environment, Failure
<1>2. TypeInv /\ UNCHANGED vars => TypeInv'
  BY DEF TypeInv, TypeOK, Planned, Rearmed, vars, cluster, handler
<1> QED
  BY <1>1, <1>2

THEOREM TypeInvariant == Spec => []TypeInv
BY TypeInit, TypeStep, PTL DEF Spec

\* The operator's state stays well typed, and no decision reaches the executor
\* without the weights or the target it needs.
THEOREM TypeCorrect == Spec => []TypeOK
<1>1. TypeInv => TypeOK
  BY DEF TypeInv
<1> QED
  BY <1>1, TypeInvariant, PTL

----------------------------------------------------------------------------
(* The cooldown *)

\* While the last scale or isolate has to be left alone, the decision on record
\* knows how long, and so does the one that is about to replace it, unless its
\* spec knows no cooldown.
CooldownInv ==
  /\ rest > 0 => status.decision \in Decision /\ status.decision.cuLeft >= rest
  /\ pc # "idle" /\ job.decision # None /\ job.spec.cooldown # 0 =>
       IF job.decision.action \in Acting
       THEN job.decision.cuLeft >= job.spec.cooldown - job.age
       ELSE rest > 0 => job.decision.cuLeft >= rest

\* What evaluate decides inside a cooldown and outside of it.
LEMMA EvaluateCooldown ==
  ASSUME TypeInv, CooldownInv, NEW snap \in SnapshotType, snap.status = "ok", NEW base
  PROVE  /\ rest > 0 /\ spec.cooldown > 0 =>
              /\ Evaluate(spec, snap, base, status).action \notin Acting
              /\ Evaluate(spec, snap, base, status).cuLeft >= rest
         /\ Evaluate(spec, snap, base, status).action \in Acting =>
              Evaluate(spec, snap, base, status).cuLeft = spec.cooldown
<1> DEFINE d == Evaluate(spec, snap, base, status)
<1>1. rest \in 0..MaxCooldown /\ spec.cooldown \in Nat
  BY CooldownType DEF TypeInv, TypeOK
<1>2. CASE rest > 0 /\ spec.cooldown > 0
  <2>1. status.decision \in Decision /\ status.decision.cuLeft >= rest
    BY <1>2 DEF CooldownInv
  <2>2. status.decision.cuLeft > 0
    BY <1>1, <1>2, <2>1 DEF Decision
  <2>3. InCooldown(spec.cooldown, status)
    BY <1>2, <2>1, <2>2, NoDecisionAssumption DEF InCooldown
  <2>4. d = SuppressedNoOp(status.decision)
    BY <2>3 DEF Evaluate
  <2>5. d.action = "noop" /\ d.cuLeft = status.decision.cuLeft
    BY <2>4 DEF SuppressedNoOp, MakeDecision
  <2> QED
    BY <1>2, <2>1, <2>5 DEF Acting
<1>3. CASE ~(rest > 0 /\ spec.cooldown > 0)
  <2>1. ASSUME NEW severity
        PROVE  Isolate(spec, snap, severity).cuLeft = spec.cooldown
    BY DEF Isolate, MakeDecision
  <2>2. ASSUME NEW target
        PROVE  ScaleTo(spec, target).cuLeft = spec.cooldown
    BY DEF ScaleTo, MakeDecision
  <2>3. NoOp.action \notin Acting /\ SuppressedNoOp(status.decision).action \notin Acting
    BY DEF NoOp, SuppressedNoOp, MakeDecision, Acting
  <2>4. Reroute(RecoveryState(status.decision)).action \notin Acting
    BY DEF Reroute, MakeDecision, Acting
  <2>5. \/ d = NoOp \/ d = SuppressedNoOp(status.decision)
        \/ d = Isolate(spec, snap, Severity(spec, snap, base))
        \/ \E target : d = ScaleTo(spec, target)
        \/ d = Reroute(RecoveryState(status.decision))
    BY DEF Evaluate
  <2> HIDE DEF d
  <2>6. d.action \in Acting => d.cuLeft = spec.cooldown
    BY <2>1, <2>2, <2>3, <2>4, <2>5
  <2> QED
    BY <1>3, <2>6 DEF d
<1> QED
  BY <1>2, <1>3

LEMMA CooldownInit == Init => CooldownInv
BY DEF Init, CooldownInv

LEMMA CooldownTick == TypeInv /\ CooldownInv /\ Tick => CooldownInv'
<1> SUFFICES ASSUME TypeInv, CooldownInv, Tick PROVE CooldownInv'
  OBVIOUS
<1>1. rest \in Nat /\ job.age \in 0..MaxCooldown /\ pc' = pc /\ rest' = Larger(0, rest - 1)
  BY ReconcileAssumption DEF TypeInv, TypeOK, Tick
<1>2. rest' > 0 => rest > 0 /\ rest' = rest - 1
  BY <1>1 DEF Larger
<1>3. ASSUME NEW d \in Decision, rest' > 0, d.cuLeft >= rest
      PROVE  Sooner(d).cuLeft >= rest'
  <2>1. d.cuLeft \in Int /\ Sooner(d).cuLeft = Larger(0, d.cuLeft - 1)
    BY SoonerType DEF Decision
  <2> QED
    BY <1>1, <1>2, <1>3, <2>1 DEF Larger
<1>4. ASSUME rest' > 0
      PROVE  status'.decision \in Decision /\ status'.decision.cuLeft >= rest'
  <2>1. status.decision \in Decision /\ status.decision.cuLeft >= rest
    BY <1>2, <1>4 DEF CooldownInv
  <2>2. status'.decision = Sooner(status.decision)
    BY DEF Tick
  <2> QED
    BY <1>3, <1>4, <2>1, <2>2, SoonerType
<1>5. ASSUME pc # "idle", job'.decision # None, job'.spec.cooldown # 0
      PROVE  IF job'.decision.action \in Acting
             THEN job'.decision.cuLeft >= job'.spec.cooldown - job'.age
             ELSE rest' > 0 => job'.decision.cuLeft >= rest'
  <2>1. job'.decision = Sooner(job.decision) /\ job'.age = Aged(job.age) /\ job'.spec = job.spec
    BY <1>5 DEF Tick, TypeInv, TypeOK
  <2>2. job.decision \in Decision /\ job.decision # None
    BY <1>5, <2>1, SoonerNone DEF TypeInv, TypeOK
  <2>3. job'.decision.action = job.decision.action
    BY <2>1, <2>2, SoonerType
  <2>4. CASE job.decision.action \in Acting
    <3>1. job.decision.cuLeft >= job.spec.cooldown - job.age
      BY <1>5, <2>1, <2>2, <2>4 DEF CooldownInv
    <3>2. job.spec.cooldown \in Nat /\ job.spec.cooldown <= MaxCooldown
      BY <1>5, CooldownType DEF TypeInv, TypeOK
    <3>3. job.decision.cuLeft \in Int /\ job'.decision.cuLeft = Larger(0, job.decision.cuLeft - 1)
      BY <2>1, <2>2, SoonerType DEF Decision
    <3>4. job'.decision.cuLeft >= job.spec.cooldown - Aged(job.age)
      BY <1>1, <3>1, <3>2, <3>3, ReconcileAssumption DEF Larger, Aged, Smaller
    <3> QED
      BY <2>1, <2>3, <2>4, <3>4
  <2>5. CASE job.decision.action \notin Acting
    <3>1. rest > 0 => job.decision.cuLeft >= rest
      BY <1>5, <2>1, <2>2, <2>5 DEF CooldownInv
    <3> QED
      BY <1>2, <1>3, <2>1, <2>2, <2>3, <2>5, <3>1
  <2> QED
    BY <2>4, <2>5
<1> QED
  BY <1>1, <1>4, <1>5 DEF CooldownInv

LEMMA CooldownCollect == TypeInv /\ CooldownInv /\ Collect => CooldownInv'
<1> SUFFICES ASSUME TypeInv, CooldownInv, Collect PROVE CooldownInv'
  OBVIOUS
<1>1. PICK snap \in Snapshots : Observing(snap)
  BY DEF Collect
<1>2. snap \in SnapshotType
  BY <1>1, SnapshotsType DEF TypeInv, TypeOK
<1>3. /\ job'.decision =
           IF snap.status = "ok" THEN Evaluate(spec, snap, baseline, status) ELSE None
      /\ job'.age = 0
      /\ job'.spec = spec
  BY <1>1 DEF Observing
<1>4. UNCHANGED <<status, rest>>
  BY DEF Collect
<1>5. spec.cooldown \in Nat
  BY CooldownType DEF TypeInv, TypeOK
<1>6. ASSUME job'.decision # None, job'.spec.cooldown # 0
      PROVE  IF job'.decision.action \in Acting
             THEN job'.decision.cuLeft >= job'.spec.cooldown - job'.age
             ELSE rest > 0 => job'.decision.cuLeft >= rest
  <2>1. snap.status = "ok" /\ job'.decision = Evaluate(spec, snap, baseline, status)
    BY <1>3, <1>6
  <2>2. spec.cooldown > 0
    BY <1>3, <1>5, <1>6
  <2> QED
    BY <1>2, <1>3, <1>5, <2>1, <2>2, EvaluateCooldown
<1> QED
  BY <1>4, <1>6 DEF CooldownInv

LEMMA CooldownRecord == TypeInv /\ CooldownInv /\ Record => CooldownInv'
<1> SUFFICES ASSUME TypeInv, CooldownInv, Record PROVE CooldownInv'
  OBVIOUS
<1>1. /\ pc = "record" /\ pc' = "idle"
      /\ rest' = IF job.decision = None THEN rest
                 ELSE IF job.spec.cooldown = 0 THEN 0
                 ELSE IF job.decision.action \in Acting
                      THEN Larger(0, job.spec.cooldown - job.age)
                      ELSE rest
      /\ status'.decision = IF job.decision = None THEN status.decision
                            ELSE Merge(status.decision, job.decision)
  BY DEF Record
<1>2. CASE job.decision = None
  BY <1>1, <1>2 DEF CooldownInv
<1>3. CASE job.decision # None
  <2>1. job.decision \in Decision /\ status.decision \in {None} \union Decision
    BY <1>3 DEF TypeInv, TypeOK
  <2>2. status'.decision \in Decision /\ status'.decision.cuLeft = job.decision.cuLeft
    <3>1. status'.decision = Merge(status.decision, job.decision)
      BY <1>1, <1>3
    <3>2. Merge(status.decision, job.decision).cuLeft = job.decision.cuLeft
      BY <2>1 DEF Merge, Decision
    <3> QED
      BY <2>1, <3>1, <3>2, MergeType
  <2>3. CASE job.spec.cooldown = 0
    BY <1>1, <1>3, <2>3 DEF CooldownInv
  <2>4. CASE job.spec.cooldown # 0 /\ job.decision.action \in Acting
    <3>1. job.decision.cuLeft >= job.spec.cooldown - job.age
      BY <1>1, <1>3, <2>4 DEF CooldownInv
    <3>2. job.decision.cuLeft \in 0..MaxCooldown /\ job.age \in 0..MaxCooldown
      BY <2>1 DEF Decision, TypeInv, TypeOK
    <3>3. job.spec.cooldown \in Nat
      BY <1>1, CooldownType DEF TypeInv, TypeOK
    <3>4. rest' = Larger(0, job.spec.cooldown - job.age)
      BY <1>1, <1>3, <2>4
    <3>5. job.decision.cuLeft >= rest'
      BY <3>1, <3>2, <3>3, <3>4, ReconcileAssumption DEF Larger
    <3> QED
      BY <1>1, <2>2, <3>5 DEF CooldownInv
  <2>5. CASE job.spec.cooldown # 0 /\ job.decision.action \notin Acting
    BY <1>1, <1>3, <2>2, <2>5 DEF CooldownInv
  <2> QED
    BY <2>3, <2>4, <2>5
<1> QED
  BY <1>2, <1>3

LEMMA CooldownStep == TypeInv /\ CooldownInv /\ [Next]_vars => CooldownInv'
<1> SUFFICES ASSUME TypeInv, CooldownInv, [Next]_vars PROVE CooldownInv'
  OBVIOUS
<1>1. CASE Tick
  BY <1>1, CooldownTick
<1>2. CASE Collect
  BY <1>2, CooldownCollect
<1>3. CASE Record
  BY <1>3, CooldownRecord
<1>4. CASE CallFails \/ Actuate
  <2>1. pc # "idle" /\ UNCHANGED <<status, rest, job>>
    BY <1>4 DEF CallFails, Actuate, ReadScale, WriteScale, ReadRoute, WriteRoute, RouteConflict
  <2> QED
    BY <2>1 DEF CooldownInv
<1>5. CASE RecordFails \/ Crash
  <2>1. pc' = "idle" /\ UNCHANGED <<status, rest>>
    BY <1>5 DEF RecordFails, Crash
  <2> QED
    BY <2>1 DEF CooldownInv
<1>6. CASE PodStarts \/ PodStops \/ EditReplicas \/ EditRoute \/ EditSpec \/ CalmDown
  <2>1. UNCHANGED <<status, rest, pc, job>>
    BY <1>6 DEF PodStarts, PodStops, EditReplicas, EditRoute, EditSpec, CalmDown, handler
  <2> QED
    BY <2>1 DEF CooldownInv
<1>7. CASE UNCHANGED vars
  <2>1. UNCHANGED <<status, rest, pc, job>>
    BY <1>7 DEF vars, handler
  <2> QED
    BY <2>1 DEF CooldownInv
<1> QED
  BY <1>1, <1>2, <1>3, <1>4, <1>5, <1>6, <1>7 DEF Next, Operator, Environment, Failure

\* No scale and no isolation is issued before the cooldown of the last recorded
\* one is over (_cooldown_remaining with _carry_cooldown_until), for every
\* timer period and fault, and whatever the TrafficPolicy is edited to as long
\* as it has a cooldown.
THEOREM CooldownHolds == Spec => CooldownRespected
<1>1. ASSUME TypeInv, CooldownInv, Next, Issues(Acting), spec.cooldown > 0
      PROVE  rest = 0
  <2>1. PICK snap \in Snapshots : Observing(snap)
    BY <1>1 DEF Issues, Collect
  <2>2. snap \in SnapshotType
    BY <1>1, <2>1, SnapshotsType DEF TypeInv, TypeOK
  <2>3. /\ snap.status = "ok"
        /\ Evaluate(spec, snap, baseline, status).action \in Acting
    BY <1>1, <2>1 DEF Issues, Observing
  <2>4. ~(rest > 0)
    BY <1>1, <2>2, <2>3, EvaluateCooldown
  <2> QED
    BY <1>1, <2>4, ReconcileAssumption DEF TypeInv, TypeOK
<1>2. TypeInv /\ CooldownInv /\ [Next]_vars
        => [Issues(Acting) /\ spec.cooldown > 0 => rest = 0]_vars
  BY <1>1
<1>3. Spec => []CooldownInv
  BY TypeInvariant, CooldownInit, CooldownStep, PTL DEF Spec
<1> QED
  BY <1>2, <1>3, TypeInvariant, PTL DEF Spec, CooldownRespected

----------------------------------------------------------------------------
(* The replicas *)

\* Whatever the bounds: where minReplicas exceeds maxReplicas, the latter wins.
LEMMA ClampReplicasBounds ==
  ASSUME NEW target \in Nat, NEW current \in Nat,
         NEW low \in OptionalNat, NEW high \in OptionalNat, NEW step \in OptionalNat
  PROVE  LET next == ClampReplicas(target, current, low, high, step) IN
           /\ low # None /\ high = None => next >= Smaller(current, low)
           /\ low # None /\ high # None => next >= Smaller(current, Smaller(low, high))
           /\ high # None => next <= Larger(current, high)
           /\ step # None /\ step > 0 => Distance(next, current) <= step
<1> DEFINE goal == Clamp(target, low, high)
           stepped == IF step = None \/ step = 0 THEN goal ELSE Limited(current, goal, step)
<1>1. goal \in Nat
  BY ClampType
<1>2. /\ low # None /\ high = None => low <= goal
      /\ low # None /\ high # None => Smaller(low, high) <= goal
      /\ high # None => goal <= high
  BY NoneAssumption DEF Clamp, Larger, Smaller, OptionalNat
<1> HIDE DEF goal
<1>3. /\ low # None /\ high = None => stepped >= Smaller(current, low)
      /\ low # None /\ high # None => stepped >= Smaller(current, Smaller(low, high))
      /\ high # None => stepped <= Larger(current, high)
      /\ step # None /\ step > 0 => Distance(stepped, current) <= step
      /\ stepped \in Int
  BY <1>1, <1>2, NoneAssumption DEF Limited, Larger, Smaller, Distance, OptionalNat
<1> HIDE DEF stepped
<1>4. /\ low # None /\ high = None => Larger(0, stepped) >= Smaller(current, low)
      /\ low # None /\ high # None =>
           Larger(0, stepped) >= Smaller(current, Smaller(low, high))
      /\ high # None => Larger(0, stepped) <= Larger(current, high)
      /\ step # None /\ step > 0 => Distance(Larger(0, stepped), current) <= step
  BY <1>3, NoneAssumption DEF Larger, Smaller, Distance, OptionalNat
<1> QED
  BY <1>4 DEF ClampReplicas, stepped, goal

\* No write leaves minReplicas..maxReplicas further behind than it found it, nor
\* moves more than maxScaleStep from what was read (clamp_replicas), for every
\* TrafficPolicy, one that register_policy refused included, and whatever it
\* is edited to while the handler runs.
THEOREM ReplicasStayBounded == Spec => ReplicasBounded
<1> DEFINE Bounded(low, high, step) ==
      /\ low # None /\ high = None => replicas' >= Smaller(held, low)
      /\ low # None /\ high # None => replicas' >= Smaller(held, Smaller(low, high))
      /\ high # None => replicas' <= Larger(held, high)
      /\ step # None /\ step > 0 => Distance(replicas', held) <= step
    Kept == Bounded(job.spec.minReplicas, job.spec.maxReplicas, job.spec.maxScaleStep)
<1>1. ASSUME TypeInv, WriteScale PROVE Kept
  <2>1. held \in Nat /\ job.decision.target \in Nat /\ job.spec \in Specs
    BY <1>1 DEF WriteScale, TypeInv, TypeOK, Planned, Complete
  <2>2. /\ job.spec.minReplicas \in OptionalNat /\ job.spec.maxReplicas \in OptionalNat
        /\ job.spec.maxScaleStep \in OptionalNat
    BY <2>1, CooldownType DEF CRType
  <2>3. replicas' = ClampReplicas(job.decision.target, held, job.spec.minReplicas,
                                  job.spec.maxReplicas, job.spec.maxScaleStep)
    BY <1>1 DEF WriteScale, PlannedReplicas
  <2> QED
    BY <2>1, <2>2, <2>3, ClampReplicasBounds
<1> HIDE DEF Kept
<1>2. TypeInv /\ [Next]_vars => [WriteScale => Kept]_vars
  BY <1>1
<1>3. Spec => [][WriteScale => Kept]_vars
  BY <1>2, TypeInvariant, PTL DEF Spec
<1> QED
  BY <1>3 DEF ReplicasBounded, Kept

----------------------------------------------------------------------------
(* The weights *)

\* A route held for writing is the live one for as long as it is fresh.
HeldInv == pc = "write" /\ job.decision.action \in Rerouting /\ fresh => held = route

\* With what the HTTPRoute API and router.py's own range make of a weight.
RouteInv == route \in [Refs -> 0..100] /\ HeldInv

LEMMA ApplyWeightsBounds ==
  ASSUME NEW r \in [Refs -> 0..100], NEW weights \in PartialWeights
  PROVE  LET next == ApplyWeights(r, NormalizeTargets(weights)) IN
           /\ next \in [Refs -> 0..100]
           /\ \A ref \in Refs : Distance(next[ref], r[ref]) <= MaxWeightDelta
<1> DEFINE targets == NormalizeTargets(weights)
           next    == ApplyWeights(r, targets)
<1>1. \A b \in DOMAIN targets : targets[b] \in 0..100
  BY DEF NormalizeTargets
<1> HIDE DEF targets, next
<1>2. next = [ref \in Refs |->
               IF ref \in MatchedRefs(r, targets)
               THEN ClampWeightChange(r[ref], targets[ref.name]) ELSE r[ref]]
  BY DEF ApplyWeights, next
<1>3. ASSUME NEW ref \in Refs
      PROVE  next[ref] \in 0..100 /\ Distance(next[ref], r[ref]) <= MaxWeightDelta
  <2>1. CASE ref \in MatchedRefs(r, targets)
    <3>1. r[ref] \in 0..100 /\ r[ref] \in Nat /\ targets[ref.name] \in 0..100
      BY <1>1, <2>1 DEF MatchedRefs
    <3>2. next[ref] = ClampWeightChange(r[ref], targets[ref.name])
      BY <1>2, <2>1
    <3>3. /\ ClampWeightChange(r[ref], targets[ref.name]) \in 0..100
          /\ Distance(ClampWeightChange(r[ref], targets[ref.name]), r[ref]) <= MaxWeightDelta
      BY <3>1, ClampWeightChangeBounds
    <3> QED
      BY <3>2, <3>3
  <2>2. CASE ref \notin MatchedRefs(r, targets)
    <3>1. next[ref] = r[ref] /\ r[ref] \in 0..100
      BY <1>2, <2>2
    <3> QED
      BY <3>1 DEF Distance, MaxWeightDelta
  <2> QED
    BY <2>1, <2>2
<1>4. next \in [Refs -> 0..100]
  BY <1>2, <1>3
<1> QED
  BY <1>3, <1>4 DEF targets, next

LEMMA HeldStep == TypeInv /\ HeldInv /\ [Next]_vars => HeldInv'
<1> SUFFICES ASSUME TypeInv, HeldInv, [Next]_vars PROVE HeldInv'
  OBVIOUS
<1> USE DEF HeldInv
<1>1. CASE ReadRoute
  BY <1>1 DEF ReadRoute, cluster
<1>2. CASE WriteRoute \/ EditRoute
  <2>1. fresh' = FALSE
    BY <1>2 DEF WriteRoute, EditRoute
  <2> QED
    BY <2>1
<1>3. CASE Tick
  <2>1. UNCHANGED <<route, pc, held, fresh>>
    BY <1>3 DEF Tick, cluster
  <2>2. CASE pc = "write"
    <3>1. job.decision \in Decision /\ job'.decision = Sooner(job.decision)
      BY <1>3, <2>2 DEF Tick, TypeInv, TypeOK, Planned
    <3>2. job'.decision.action = job.decision.action
      BY <3>1, SoonerType
    <3> QED
      BY <2>1, <3>2
  <2> QED
    BY <2>1, <2>2
<1>4. CASE Collect \/ ReadScale \/ WriteScale \/ RouteConflict \/ CallFails \/ Record
           \/ RecordFails \/ Crash
  <2>1. route' = route
    BY <1>4 DEF Collect, ReadScale, WriteScale, RouteConflict, CallFails, Record,
                RecordFails, Crash, cluster
  <2>2. pc' # "write" \/ (job' = job /\ job.decision.action = "scale")
    BY <1>4 DEF Collect, Observing, ReadScale, WriteScale, RouteConflict, CallFails,
                Record, RecordFails, Crash
  <2> QED
    BY <2>1, <2>2 DEF Rerouting
<1>5. CASE PodStarts \/ PodStops \/ EditReplicas \/ EditSpec \/ CalmDown \/ UNCHANGED vars
  <2>1. UNCHANGED <<route, pc, job, held, fresh>>
    BY <1>5 DEF PodStarts, PodStops, EditReplicas, EditSpec, CalmDown, vars, cluster, handler
  <2> QED
    BY <2>1
<1> QED
  BY <1>1, <1>2, <1>3, <1>4, <1>5 DEF Next, Operator, Actuate, Environment, Failure

LEMMA RouteStep ==
  ASSUME WeightEdits \subseteq 0..100
  PROVE  TypeInv /\ RouteInv /\ [Next]_vars => RouteInv'
<1> SUFFICES ASSUME TypeInv, RouteInv, [Next]_vars PROVE route' \in [Refs -> 0..100]
  BY HeldStep DEF RouteInv
<1>1. CASE WriteRoute
  <2>1. held = route /\ job.decision.weights \in PartialWeights
    BY <1>1 DEF WriteRoute, RouteInv, HeldInv, TypeInv, Planned, Complete
  <2> QED
    BY <1>1, <2>1, ApplyWeightsBounds DEF WriteRoute, Targets, RouteInv
<1>2. CASE EditRoute
  BY <1>2 DEF EditRoute, RouteInv
<1>3. CASE UNCHANGED route
  BY <1>3 DEF RouteInv
<1>4. WriteRoute \/ EditRoute \/ UNCHANGED route
  BY DEF Next, Operator, Actuate, Environment, Failure, Collect, ReadScale, WriteScale,
         ReadRoute, RouteConflict, CallFails, Record, RecordFails, Crash, Tick, PodStarts,
         PodStops, EditReplicas, EditSpec, CalmDown, vars, cluster
<1> QED
  BY <1>1, <1>2, <1>3, <1>4

\* No write of the operator moves a weight by more than MaxWeightDelta from what
\* it is at that moment, whoever edited the HTTPRoute between the read and the
\* write (clamp_weight_change, and the resourceVersion of set_backend_weights),
\* if every weight it finds is within 0..100.
THEOREM WeightStepsBounded ==
  ASSUME InitRoutes \subseteq [Refs -> 0..100], WeightEdits \subseteq 0..100
  PROVE  Spec => WeightStepBounded
<1> DEFINE Bounded == \A ref \in Refs : Distance(route'[ref], route[ref]) <= MaxWeightDelta
<1>1. Init => RouteInv
  BY DEF Init, RouteInv, HeldInv
<1>2. ASSUME TypeInv, RouteInv, WriteRoute PROVE Bounded
  <2>1. held = route /\ job.decision.weights \in PartialWeights
    BY <1>2 DEF WriteRoute, RouteInv, HeldInv, TypeInv, Planned, Complete
  <2> QED
    BY <1>2, <2>1, ApplyWeightsBounds DEF WriteRoute, Targets, RouteInv
<1> HIDE DEF Bounded
<1>3. TypeInv /\ RouteInv /\ [Next]_vars => [WriteRoute => Bounded]_vars
  BY <1>2
<1>4. TypeInv /\ RouteInv /\ [Next]_vars => RouteInv'
  BY RouteStep
<1>5. Spec => [][WriteRoute => Bounded]_vars
  BY <1>1, <1>3, <1>4, TypeInvariant, PTL DEF Spec
<1> QED
  BY <1>5 DEF WeightStepBounded, Bounded

----------------------------------------------------------------------------
(* Somebody is healthy *)

\* A decision that moves weights names a backend for full weight.
Serving(decision) ==
  decision.action \in Rerouting =>
    \E b \in DOMAIN decision.weights : decision.weights[b] = HealthyWeight

LEMMA IsolateServes ==
  ASSUME NEW cr, NEW snap \in SnapshotType, NEW severity, Culprits(cr, snap) # {}
  PROVE  Serving(Isolate(cr, snap, severity))
<1>1. PICK b \in DOMAIN snap.backends : snap.backends[b] = "fine"
  BY DEF Culprits, WithVerdict
<1>2. b \notin Culprits(cr, snap)
  BY <1>1 DEF Culprits, WithVerdict
<1> DEFINE d == Isolate(cr, snap, severity)
<1>3. DOMAIN d.weights = DOMAIN snap.backends /\ d.weights[b] = HealthyWeight
  BY <1>1, <1>2 DEF Isolate, IsolationWeights, MakeDecision
<1> HIDE DEF d
<1>4. Serving(d)
  BY <1>1, <1>3 DEF Serving
<1> QED
  BY <1>4 DEF d

LEMMA RerouteServes ==
  ASSUME NEW prev \in {None} \union Decision, RecoveryState(prev) # None
  PROVE  Serving(Reroute(RecoveryState(prev)))
<1> DEFINE backends == RecoveryState(prev).backends
           d        == Reroute(RecoveryState(prev))
<1>1. PICK b : b \in backends
  BY RecoveryStateType
<1>2. DOMAIN d.weights = backends /\ d.weights[b] = HealthyWeight
  BY <1>1 DEF Reroute, MakeDecision
<1> HIDE DEF d, backends
<1>3. Serving(d)
  BY <1>1, <1>2 DEF Serving
<1> QED
  BY <1>3 DEF d

LEMMA EvaluateServes ==
  ASSUME NEW cr, NEW snap \in SnapshotType, NEW base, NEW st \in StatusType
  PROVE  Serving(Evaluate(cr, snap, base, st))
<1> DEFINE d        == Evaluate(cr, snap, base, st)
           severity == Severity(cr, snap, base)
<1>1. \/ d.action \notin Rerouting
      \/ Culprits(cr, snap) # {} /\ d = Isolate(cr, snap, severity)
      \/ RecoveryState(st.decision) # None /\ d = Reroute(RecoveryState(st.decision))
  <2>1. NoOp.action = "noop" /\ SuppressedNoOp(st.decision).action = "noop"
    BY DEF NoOp, SuppressedNoOp, MakeDecision
  <2>2. ASSUME NEW target PROVE ScaleTo(cr, target).action = "scale"
    BY DEF ScaleTo, MakeDecision
  <2>3. \/ d = NoOp \/ d = SuppressedNoOp(st.decision)
        \/ \E target : d = ScaleTo(cr, target)
        \/ Culprits(cr, snap) # {} /\ d = Isolate(cr, snap, severity)
        \/ RecoveryState(st.decision) # None /\ d = Reroute(RecoveryState(st.decision))
    BY DEF Evaluate
  <2> HIDE DEF d
  <2> QED
    BY <2>1, <2>2, <2>3 DEF Rerouting
<1>2. st.decision \in {None} \union Decision
  BY DEF StatusType
<1>3. d.action \notin Rerouting => Serving(d)
  BY DEF Serving
<1> HIDE DEF d
<1>4. Serving(d)
  BY <1>1, <1>2, <1>3, IsolateServes, RerouteServes
<1> QED
  BY <1>4 DEF d

ServingInv == pc \in {"read", "write"} => Serving(job.decision)

LEMMA ServingStep == TypeInv /\ ServingInv /\ [Next]_vars => ServingInv'
<1> SUFFICES ASSUME TypeInv, ServingInv, [Next]_vars PROVE ServingInv'
  OBVIOUS
<1>1. CASE Collect
  <2>1. PICK snap \in Snapshots : Observing(snap)
    BY <1>1 DEF Collect
  <2>2. snap \in SnapshotType
    BY <2>1, SnapshotsType DEF TypeInv, TypeOK
  <2>3. pc' = "read" => job'.decision = Evaluate(spec, snap, baseline, status)
    BY <2>1 DEF Observing
  <2>4. pc' = "read" \/ pc' = "record"
    BY <2>1 DEF Observing
  <2> QED
    BY <2>2, <2>3, <2>4, EvaluateServes DEF ServingInv, TypeInv, TypeOK, StatusType
<1>2. CASE Tick
  <2>1. pc' = pc
    BY <1>2 DEF Tick
  <2>2. CASE pc \in {"read", "write"}
    <3>1. job.decision \in Decision /\ Serving(job.decision)
      BY <2>2 DEF TypeInv, Planned, ServingInv
    <3>2. job'.decision = [job.decision EXCEPT !.cuLeft = Larger(0, @ - 1)]
      BY <1>2, <2>2, <3>1, NoDecisionAssumption DEF Tick, Sooner, TypeInv, TypeOK
    <3>3. job'.decision.action = job.decision.action
          /\ job'.decision.weights = job.decision.weights
      BY <3>1, <3>2 DEF Decision
    <3> QED
      BY <3>1, <3>3 DEF Serving, ServingInv
  <2> QED
    BY <2>1, <2>2 DEF ServingInv
<1>3. CASE Actuate \/ CallFails \/ Record \/ RecordFails \/ Crash
  <2>1. pc' \in {"read", "write"} => pc \in {"read", "write"} /\ job' = job
    BY <1>3 DEF Actuate, ReadScale, WriteScale, ReadRoute, WriteRoute, RouteConflict,
                CallFails, Record, RecordFails, Crash
  <2> QED
    BY <2>1 DEF ServingInv
<1>4. CASE PodStarts \/ PodStops \/ EditReplicas \/ EditRoute \/ EditSpec \/ CalmDown \/ UNCHANGED vars
  <2>1. UNCHANGED <<pc, job>>
    BY <1>4 DEF PodStarts, PodStops, EditReplicas, EditRoute, EditSpec, CalmDown, vars, handler
  <2> QED
    BY <2>1 DEF ServingInv
<1> QED
  BY <1>1, <1>2, <1>3, <1>4 DEF Next, Operator, Environment, Failure

----------------------------------------------------------------------------
(* Who may lower a weight *)

\* A recovery asks for full weight only.
RaisesOnly(decision) ==
  decision.action = "reroute" =>
    \A b \in DOMAIN decision.weights : decision.weights[b] = HealthyWeight

LEMMA EvaluateRaises ==
  ASSUME NEW cr, NEW snap, NEW base, NEW st
  PROVE  RaisesOnly(Evaluate(cr, snap, base, st))
<1> DEFINE d == Evaluate(cr, snap, base, st)
<1>1. ASSUME NEW severity PROVE Isolate(cr, snap, severity).action # "reroute"
  BY DEF Isolate, MakeDecision
<1>2. ASSUME NEW target PROVE ScaleTo(cr, target).action # "reroute"
  BY DEF ScaleTo, MakeDecision
<1>3. NoOp.action # "reroute" /\ SuppressedNoOp(st.decision).action # "reroute"
  BY DEF NoOp, SuppressedNoOp, MakeDecision
<1>4. RaisesOnly(Reroute(RecoveryState(st.decision)))
  BY DEF RaisesOnly, Reroute, MakeDecision
<1>5. \/ d = NoOp \/ d = SuppressedNoOp(st.decision)
      \/ d = Isolate(cr, snap, Severity(cr, snap, base))
      \/ \E target : d = ScaleTo(cr, target)
      \/ d = Reroute(RecoveryState(st.decision))
  BY DEF Evaluate
<1> HIDE DEF d
<1>6. RaisesOnly(d)
  BY <1>1, <1>2, <1>3, <1>4, <1>5 DEF RaisesOnly
<1> QED
  BY <1>6 DEF d

\* What is about to be written raises, or its spec allowed more.
PermittedInv ==
  /\ pc \in {"read", "write"} => RaisesOnly(job.decision)
  /\ pc = "write" /\ job.decision.action = "isolate_backend" => job.spec.allowIsolation

LEMMA PermittedStep == TypeInv /\ PermittedInv /\ [Next]_vars => PermittedInv'
<1> SUFFICES ASSUME TypeInv, PermittedInv, [Next]_vars PROVE PermittedInv'
  OBVIOUS
<1>1. CASE Collect
  <2>1. PICK snap \in Snapshots : Observing(snap)
    BY <1>1 DEF Collect
  <2>2. /\ pc' = "read" => job'.decision = Evaluate(spec, snap, baseline, status)
        /\ pc' = "read" \/ pc' = "record"
    BY <2>1 DEF Observing
  <2> QED
    BY <2>2, EvaluateRaises DEF PermittedInv
<1>2. CASE Tick
  <2>1. pc' = pc
    BY <1>2 DEF Tick
  <2>2. CASE pc \in {"read", "write"}
    <3>1. job.decision \in Decision
      BY <2>2 DEF TypeInv, Planned
    <3>2. /\ job'.decision = [job.decision EXCEPT !.cuLeft = Larger(0, @ - 1)]
          /\ job'.spec = job.spec
      BY <1>2, <2>2, <3>1, NoDecisionAssumption DEF Tick, Sooner, TypeInv, TypeOK
    <3>3. job'.decision.action = job.decision.action
          /\ job'.decision.weights = job.decision.weights
      BY <3>1, <3>2 DEF Decision
    <3> QED
      BY <2>1, <3>2, <3>3 DEF PermittedInv, RaisesOnly
  <2> QED
    BY <2>1, <2>2 DEF PermittedInv
<1>3. CASE ReadRoute
  <2>1. /\ job' = job /\ pc = "read"
        /\ pc' = "write" => ~Refused
    BY <1>3 DEF ReadRoute
  <2> QED
    BY <2>1 DEF PermittedInv, Refused
<1>4. CASE ReadScale
  <2>1. job' = job /\ pc = "read" /\ job.decision.action = "scale"
    BY <1>4 DEF ReadScale
  <2> QED
    BY <2>1 DEF PermittedInv
<1>5. CASE WriteScale \/ WriteRoute \/ RouteConflict \/ CallFails \/ Record \/ RecordFails \/ Crash
  <2>1. /\ pc' # "write"
        /\ pc' = "read" => pc = "write" /\ job' = job
    BY <1>5 DEF WriteScale, WriteRoute, RouteConflict, CallFails, Record, RecordFails, Crash
  <2> QED
    BY <2>1 DEF PermittedInv
<1>6. CASE PodStarts \/ PodStops \/ EditReplicas \/ EditRoute \/ EditSpec \/ CalmDown
           \/ UNCHANGED vars
  <2>1. UNCHANGED <<pc, job>>
    BY <1>6 DEF PodStarts, PodStops, EditReplicas, EditRoute, EditSpec, CalmDown, vars, handler
  <2> QED
    BY <2>1 DEF PermittedInv
<1> QED
  BY <1>1, <1>2, <1>3, <1>4, <1>5, <1>6
     DEF Next, Operator, Actuate, Environment, Failure

\* A cycle whose spec forbids isolation takes no traffic off any backend,
\* whatever was isolated under an earlier spec, in whatever route and whoever
\* edits it meanwhile (evaluate (D) 1 and 3, _do_reroute).
THEOREM OnlyAllowedLowers ==
  ASSUME InitRoutes \subseteq [Refs -> 0..100], WeightEdits \subseteq 0..100
  PROVE  Spec => LowersOnlyIfAllowed
<1> DEFINE Raised == \A ref \in Refs : route'[ref] >= Smaller(route[ref], HealthyWeight)
<1>1. ASSUME TypeInv, RouteInv, PermittedInv, WriteRoute, ~job.spec.allowIsolation
      PROVE  Raised
  <2> DEFINE weights == job.decision.weights
  <2>1. held = route /\ weights \in PartialWeights /\ job.decision.action = "reroute"
    BY <1>1 DEF WriteRoute, RouteInv, HeldInv, PermittedInv, TypeInv, Planned, Complete, Rerouting
  <2>2. \A b \in DOMAIN Targets : Targets[b] = 100
    BY <1>1, <2>1 DEF WriteRoute, PermittedInv, RaisesOnly, Targets, NormalizeTargets,
                      HealthyWeight
  <2>3. route' = ApplyWeights(route, Targets) /\ route \in [Refs -> 0..100]
    BY <1>1, <2>1 DEF WriteRoute, RouteInv
  <2>4. ASSUME NEW ref \in Refs
        PROVE  route'[ref] >= Smaller(route[ref], HealthyWeight)
    <3>1. CASE ref \in MatchedRefs(route, Targets)
      <4>1. route'[ref] = ClampWeightChange(route[ref], 100)
        BY <2>2, <2>3, <3>1 DEF ApplyWeights, MatchedRefs
      <4>2. route[ref] \in 0..100
        BY <2>3
      <4> QED
        BY <4>1, <4>2 DEF ClampWeightChange, Limited, Larger, Smaller, MaxWeightDelta,
                          HealthyWeight, Distance
    <3>2. CASE ref \notin MatchedRefs(route, Targets)
      <4>1. route'[ref] = route[ref] /\ route[ref] \in 0..100
        BY <2>3, <3>2 DEF ApplyWeights
      <4> QED
        BY <4>1 DEF Smaller, HealthyWeight
    <3> QED
      BY <3>1, <3>2
  <2> QED
    BY <2>4
<1> HIDE DEF Raised
<1>2. TypeInv /\ RouteInv /\ PermittedInv /\ [Next]_vars
        => [WriteRoute /\ ~job.spec.allowIsolation => Raised]_vars
  BY <1>1
<1>3. Init => RouteInv /\ PermittedInv
  BY DEF Init, RouteInv, HeldInv, PermittedInv
<1>4. TypeInv /\ RouteInv /\ [Next]_vars => RouteInv'
  BY RouteStep
<1>5. Spec => [][WriteRoute /\ ~job.spec.allowIsolation => Raised]_vars
  BY <1>2, <1>3, <1>4, PermittedStep, TypeInvariant, PTL DEF Spec
<1> QED
  BY <1>5 DEF LowersOnlyIfAllowed, Raised

----------------------------------------------------------------------------
(* Who may lose all weight *)

\* The weight of a reference falls to 0 only where 0 is asked of its name.
LEMMA OnlyZeroCuts ==
  ASSUME NEW weight \in Nat, NEW target \in 0..100,
         weight > 0, ClampWeightChange(weight, target) = 0
  PROVE  target = 0
BY DEF ClampWeightChange, Limited, Larger, Smaller, Distance, MaxWeightDelta

LEMMA FullWeightServes ==
  ASSUME NEW weight \in Nat
  PROVE  ClampWeightChange(weight, HealthyWeight) > 0
BY DEF ClampWeightChange, Limited, Larger, Smaller, Distance, MaxWeightDelta, HealthyWeight

\* In whatever rules of the HTTPRoute a backend is, and whatever weights others
\* set: a backendRef loses its last weight only where a critical isolation its
\* spec allows asks for it, beside a healthy backend that serves wherever the
\* route refers to it (_find_culprit_backends, _isolation_weights, evaluate (D) 1).
THEOREM CutsBesideHealthy == Spec => CutOnlyBesideHealthy
<1> DEFINE weights    == job.decision.weights
           Healthy(b) == /\ b \in DOMAIN weights /\ weights[b] = HealthyWeight
                         /\ \A other \in Refs : other.name = b => route'[other] > 0
           Beside     == \A ref \in Refs : route[ref] > 0 /\ route'[ref] = 0 =>
                           /\ Asked(ref, IsolateWeightCritical)
                           /\ job.decision.action = "isolate_backend" /\ job.spec.allowIsolation
                           /\ \E b \in Backends : Healthy(b)
<1>1. ASSUME TypeInv, HeldInv, ServingInv, PermittedInv, WriteRoute PROVE Beside
  <2>1. held = route /\ route \in [Refs -> Nat] /\ weights \in PartialWeights
    BY <1>1 DEF WriteRoute, HeldInv, TypeInv, TypeOK, Planned, Complete
  <2>2. \A ref \in Refs : route'[ref] = IF ref.name \in DOMAIN Targets
                                        THEN ClampWeightChange(route[ref], Targets[ref.name])
                                        ELSE route[ref]
    BY <1>1, <2>1 DEF WriteRoute, ApplyWeights, MatchedRefs
  <2>3. /\ DOMAIN Targets \subseteq DOMAIN weights
        /\ \A b \in DOMAIN Targets : Targets[b] = weights[b] /\ Targets[b] \in 0..100
        /\ \A b \in DOMAIN weights : weights[b] \in 0..100 => b \in DOMAIN Targets
    BY DEF Targets, NormalizeTargets
  <2>4. PICK b \in DOMAIN weights : weights[b] = HealthyWeight
    BY <1>1 DEF WriteRoute, ServingInv, Serving
  <2>5. b \in Backends /\ b \in DOMAIN Targets /\ Targets[b] = HealthyWeight
    BY <2>1, <2>3, <2>4, PartialWeightsElim DEF HealthyWeight
  <2>6. \A other \in Refs : other.name = b => route'[other] > 0
    BY <2>1, <2>2, <2>5, FullWeightServes
  <2>7. \E x \in Backends : Healthy(x)
    BY <2>4, <2>5, <2>6
  <2>8. ASSUME NEW ref \in Refs, route[ref] > 0, route'[ref] = 0
        PROVE  /\ Asked(ref, IsolateWeightCritical)
               /\ job.decision.action = "isolate_backend" /\ job.spec.allowIsolation
    <3>1. ref.name \in DOMAIN Targets
      BY <2>2, <2>8
    <3>2. Targets[ref.name] = 0
      BY <2>1, <2>2, <2>3, <2>8, <3>1, OnlyZeroCuts
    <3>3. ref.name \in DOMAIN weights /\ weights[ref.name] = 0
      BY <2>3, <3>1, <3>2
    <3>4. job.decision.action # "reroute"
      BY <1>1, <3>3 DEF WriteRoute, PermittedInv, RaisesOnly, HealthyWeight
    <3>5. job.decision.action = "isolate_backend"
      BY <1>1, <3>4 DEF WriteRoute, Rerouting
    <3>6. job.spec.allowIsolation
      BY <1>1, <3>5 DEF WriteRoute, PermittedInv
    <3> QED
      BY <3>3, <3>5, <3>6 DEF Asked, IsolateWeightCritical
  <2> QED
    BY <2>7, <2>8
<1> HIDE DEF Beside
<1>2. TypeInv /\ HeldInv /\ ServingInv /\ PermittedInv /\ [Next]_vars
        => [WriteRoute => Beside]_vars
  BY <1>1
<1>3. Init => HeldInv /\ ServingInv /\ PermittedInv
  BY DEF Init, HeldInv, ServingInv, PermittedInv
<1>4. Spec => [][WriteRoute => Beside]_vars
  BY <1>2, <1>3, HeldStep, ServingStep, PermittedStep, TypeInvariant, PTL DEF Spec
<1> QED
  BY <1>4 DEF CutOnlyBesideHealthy, Beside

----------------------------------------------------------------------------
(* An isolation stays on record until its recovery has been reissued often *)
(* enough.  The engine departs from this in one way only, an anomaly it    *)
(* cannot answer by an isolation: RecoveryKeptOrDropped and                *)
(* DropsOnlyOnAnomaly say so without any hypothesis, RecoveryRefines       *)
(* proves the refinement where no such anomaly occurs.                     *)

\* What a decision on record stands for in the abstract specification.
StageOf(d) ==
  IF RecoveryState(d) = None THEN "clear"
  ELSE IF d.action = "reroute" THEN "recovering" ELSE "isolated"

LeftOf(d) ==
  IF RecoveryState(d) = None THEN 0 ELSE RecoveryState(d).total - RecoveryState(d).done

\* The next reissue after prev.
NextMarker(prev) ==
  [done |-> RecoveryState(prev).done + 1, total |-> RecoveryState(prev).total,
   backends |-> RecoveryState(prev).backends]

\* The weights are handed on by a decision that suppresses another.
Carries(prev, next) ==
  prev # None /\ prev.action # "reroute" /\ next.weights = prev.weights

\* How a decision relates to the one on record while it was made and carried out.
Follows(prev, next) ==
  /\ next.action = "isolate_backend" => Degraded(next) # {}
  /\ next.action = "reroute" => /\ RecoveryState(prev) # None
                                /\ next.recovery = NextMarker(prev)
                                /\ next.cuLeft = 0
  /\ next.action \notin Rerouting => next.weights = None \/ Carries(prev, next)

\* A decision that drops a recovery: it moves no weights, and carries none.
Drops(prev, next) ==
  /\ next.action \notin Rerouting
  /\ next.weights = None
  /\ RecoveryState(prev) # None

\* No reroute has a deadline, so nothing suppresses what comes after it; what
\* the handler is about to record follows what is on record.
RecoveryInv ==
  /\ status.decision # None /\ status.decision.action = "reroute" =>
       status.decision.cuLeft = 0
  /\ pc # "idle" /\ job.decision # None => Follows(status.decision, job.decision)

----------------------------------------------------------------------------
(* What evaluate decides *)

\* An isolation leaves somebody below full weight.
LEMMA IsolateDegrades ==
  ASSUME NEW cr \in Specs, NEW snap \in SnapshotType, NEW severity,
         Culprits(cr, snap) # {}
  PROVE  Degraded(Isolate(cr, snap, severity)) # {}
<1> DEFINE d      == Isolate(cr, snap, severity)
           weight == IF severity = "critical" THEN IsolateWeightCritical ELSE IsolateWeightWarning
<1>1. PICK b \in Culprits(cr, snap) : TRUE
  OBVIOUS
<1>2. b \in DOMAIN snap.backends
  BY DEF Culprits, WithVerdict
<1>3. d # None /\ d.weights # None
  <2>1. d \in Decision
    BY IsolateType
  <2>2. d.weights \in PartialWeights
    BY IsolateType DEF Complete, Isolate, MakeDecision, Rerouting
  <2> QED
    BY <2>1, <2>2, NoDecisionAssumption
<1>4. DOMAIN d.weights = DOMAIN snap.backends /\ d.weights[b] = weight
  BY <1>2 DEF Isolate, IsolationWeights, MakeDecision
<1>5. weight < HealthyWeight
  BY DEF IsolateWeightCritical, IsolateWeightWarning, HealthyWeight
<1> HIDE DEF d, weight
<1>6. Degraded(d) # {}
  BY <1>2, <1>3, <1>4, <1>5 DEF Degraded
<1> QED
  BY <1>6 DEF d

\* After a reroute nothing is suppressed.
LEMMA SuppressedCarries ==
  ASSUME NEW cr, NEW st, InCooldown(cr.cooldown, st), st.decision \in Decision,
         st.decision.action = "reroute" => st.decision.cuLeft = 0
  PROVE  Carries(st.decision, SuppressedNoOp(st.decision))
<1>1. st.decision.action # "reroute"
  BY DEF InCooldown
<1> QED
  BY <1>1, NoDecisionAssumption DEF Carries, SuppressedNoOp, MakeDecision

\* evaluate ends in one of six decisions; the two that carry nothing on and move
\* no weights are made when nothing is to be recovered, or on an anomaly.
LEMMA EvaluateCases ==
  ASSUME NEW cr, NEW snap, snap.status = "ok", NEW base, NEW st
  PROVE  LET d        == Evaluate(cr, snap, base, st)
             severity == Severity(cr, snap, base)
             isolate  == /\ ErrorAnomaly(cr, snap, base)
                         /\ Culprits(cr, snap) # {}
                         /\ cr.allowIsolation
         IN  \/ InCooldown(cr.cooldown, st) /\ d = SuppressedNoOp(st.decision)
             \/ isolate /\ d = Isolate(cr, snap, severity)
             \/ /\ severity # "none" /\ ~isolate
                /\ d = NoOp \/ \E target : d = ScaleTo(cr, target)
             \/ RecoveryState(st.decision) # None /\ d = Reroute(RecoveryState(st.decision))
             \/ /\ RecoveryState(st.decision) = None
                /\ d = NoOp \/ \E target : d = ScaleTo(cr, target)
BY DEF Evaluate

\* NoOp and ScaleTo move no weights and carry none.
LEMMA PlainDecisions ==
  /\ NoOp.action \notin Rerouting /\ NoOp.weights = None
  /\ \A cr, target : /\ ScaleTo(cr, target).action \notin Rerouting
                     /\ ScaleTo(cr, target).weights = None
BY DEF NoOp, ScaleTo, MakeDecision, Rerouting

LEMMA EvaluateFollows ==
  ASSUME NEW cr \in Specs, NEW snap \in SnapshotType, snap.status = "ok", NEW base,
         NEW st \in StatusType,
         st.decision # None /\ st.decision.action = "reroute" => st.decision.cuLeft = 0
  PROVE  Follows(st.decision, Evaluate(cr, snap, base, st))
<1> DEFINE d    == Evaluate(cr, snap, base, st)
           prev == st.decision
<1>1. ASSUME InCooldown(cr.cooldown, st), d = SuppressedNoOp(prev)
      PROVE  Follows(prev, d)
  <2>1. prev \in Decision
    BY <1>1 DEF InCooldown, StatusType
  <2>2. Carries(prev, d)
    BY <1>1, <2>1, SuppressedCarries, NoDecisionAssumption
  <2>3. d.action = "noop"
    BY <1>1 DEF SuppressedNoOp, MakeDecision
  <2> HIDE DEF d, prev
  <2> QED
    BY <2>2, <2>3 DEF Follows, Rerouting
<1>2. ASSUME Culprits(cr, snap) # {}, d = Isolate(cr, snap, Severity(cr, snap, base))
      PROVE  Follows(prev, d)
  <2>1. d.action = "isolate_backend"
    BY <1>2 DEF Isolate, MakeDecision
  <2>2. Degraded(d) # {}
    BY <1>2, IsolateDegrades
  <2> HIDE DEF d, prev
  <2> QED
    BY <2>1, <2>2 DEF Follows, Rerouting
<1>3. ASSUME d = NoOp \/ \E target : d = ScaleTo(cr, target)
      PROVE  Follows(prev, d)
  <2>1. d.action \notin Rerouting /\ d.weights = None
    BY <1>3, PlainDecisions
  <2> HIDE DEF d, prev
  <2> QED
    BY <2>1 DEF Follows, Rerouting
<1>4. ASSUME RecoveryState(prev) # None, d = Reroute(RecoveryState(prev))
      PROVE  Follows(prev, d)
  <2>1. /\ d.action = "reroute" /\ d.cuLeft = 0
        /\ d.recovery = NextMarker(prev)
    BY <1>4 DEF Reroute, MakeDecision, NextMarker
  <2> HIDE DEF d, prev
  <2> QED
    BY <1>4, <2>1 DEF Follows, Rerouting
<1> QED
  BY <1>1, <1>2, <1>3, <1>4, EvaluateCases

\* Only an anomaly that is not answered by an isolation drops a recovery.
LEMMA EvaluateDrops ==
  ASSUME NEW cr \in Specs, NEW snap \in SnapshotType, snap.status = "ok", NEW base,
         NEW st \in StatusType,
         st.decision # None /\ st.decision.action = "reroute" => st.decision.cuLeft = 0,
         Drops(st.decision, Evaluate(cr, snap, base, st))
  PROVE  Unanswered(cr, snap, base)
<1> DEFINE d    == Evaluate(cr, snap, base, st)
           prev == st.decision
<1>1. d.action \notin Rerouting /\ d.weights = None /\ RecoveryState(prev) # None
  BY DEF Drops
<1>2. ~(InCooldown(cr.cooldown, st) /\ d = SuppressedNoOp(prev))
  <2> SUFFICES ASSUME InCooldown(cr.cooldown, st), d = SuppressedNoOp(prev)
               PROVE  FALSE
    OBVIOUS
  <2>1. prev \in Decision
    BY DEF InCooldown, StatusType
  <2>2. Carries(prev, d)
    BY <2>1, SuppressedCarries, NoDecisionAssumption
  <2> HIDE DEF d, prev
  <2>3. RecoveryState(prev) = None
    BY <1>1, <2>2 DEF Carries, RecoveryState, Degraded
  <2> QED
    BY <1>1, <2>3
<1>3. d # Isolate(cr, snap, Severity(cr, snap, base))
  BY <1>1 DEF Isolate, MakeDecision, Rerouting
<1>4. d # Reroute(RecoveryState(prev))
  BY <1>1 DEF Reroute, MakeDecision, Rerouting
<1> HIDE DEF d
<1> QED
  BY <1>1, <1>2, <1>3, <1>4, EvaluateCases DEF Unanswered, d

----------------------------------------------------------------------------
(* What becomes of it as time passes and when it is recorded *)

LEMMA SoonerKeeps ==
  ASSUME NEW d \in {None} \union Decision
  PROVE  /\ Sooner(d) = None <=> d = None
         /\ d # None => /\ Sooner(d).action = d.action
                        /\ Sooner(d).weights = d.weights
                        /\ Sooner(d).recovery = d.recovery
         /\ Degraded(Sooner(d)) = Degraded(d)
         /\ RecoveryState(Sooner(d)) = RecoveryState(d)
<1>1. CASE d = None
  BY <1>1, SoonerNone
<1>2. CASE d # None
  <2> DEFINE e == Sooner(d)
  <2>1. d \in Decision /\ e \in Decision /\ e # None
    BY <1>2, SoonerType, NoDecisionAssumption
  <2>2. e = [d EXCEPT !.cuLeft = Larger(0, d.cuLeft - 1)]
    BY <1>2 DEF Sooner
  <2>3. e.action = d.action /\ e.weights = d.weights /\ e.recovery = d.recovery
    BY <2>1, <2>2 DEF Decision
  <2> HIDE DEF e
  <2>4. Degraded(e) = Degraded(d)
    BY <1>2, <2>1, <2>3 DEF Degraded
  <2>5. RecoverySteps(e) = RecoverySteps(d)
    BY <2>3, <2>4 DEF RecoverySteps
  <2>6. RecoveryState(e) = RecoveryState(d)
    BY <1>2, <2>1, <2>3, <2>4, <2>5 DEF RecoveryState
  <2> QED
    BY <1>2, <2>1, <2>3, <2>4, <2>6 DEF e
<1> QED
  BY <1>1, <1>2

\* Time changes neither what is on record nor what follows it.
LEMMA FollowsSooner ==
  ASSUME NEW prev \in {None} \union Decision, NEW next \in Decision, Follows(prev, next)
  PROVE  Follows(Sooner(prev), Sooner(next))
<1>1. next # None /\ Sooner(next) # None
  BY NoDecisionAssumption, SoonerKeeps
<1>2. /\ Sooner(next).action = next.action
      /\ Sooner(next).weights = next.weights
      /\ Sooner(next).recovery = next.recovery
      /\ Degraded(Sooner(next)) = Degraded(next)
  BY <1>1, SoonerKeeps
<1>3. next.cuLeft = 0 => Sooner(next).cuLeft = 0
  BY SoonerType DEF Larger
<1>4. RecoveryState(Sooner(prev)) = RecoveryState(prev)
  BY SoonerKeeps
<1>5. Carries(prev, next) => Carries(Sooner(prev), Sooner(next))
  BY <1>2, SoonerKeeps DEF Carries
<1> QED
  BY <1>2, <1>3, <1>4, <1>5 DEF Follows, NextMarker

\* An isolation on record owes one to four reissues.
LEMMA IsolatedOwes ==
  ASSUME NEW d \in Decision, d.action # "reroute", Degraded(d) # {}
  PROVE  StageOf(d) = "isolated" /\ LeftOf(d) \in 1..4
<1> DEFINE state == [done |-> 0, total |-> RecoverySteps(d), backends |-> Degraded(d)]
<1>1. RecoveryState(d) = state
  BY DEF RecoveryState
<1>2. RecoverySteps(d) \in 1..4 /\ Degraded(d) \in SUBSET Backends
  BY RecoveryStepsType, DegradedType
<1>3. state \in [done : 0..4, total : 1..4, backends : SUBSET Backends]
  BY <1>2
<1>4. RecoveryState(d) # None
  BY <1>1, <1>3, NoDecisionAssumption
<1> QED
  BY <1>1, <1>2, <1>4 DEF StageOf, LeftOf

\* A merge keeps what was degraded in the decision it takes in.
LEMMA MergeKeeps ==
  ASSUME NEW prev \in {None} \union Decision, NEW next \in Decision
  PROVE  /\ Merge(prev, next).action = next.action
         /\ Merge(prev, next).recovery = next.recovery
         /\ Merge(prev, next).cuLeft = next.cuLeft
         /\ Degraded(next) \subseteq Degraded(Merge(prev, next))
         /\ next.weights = None => Merge(prev, next).weights = None
         /\ prev # None /\ next.weights = prev.weights
              => Merge(prev, next).weights = prev.weights
<1>1. CASE prev = None \/ next.weights = None \/ prev.weights = None
  BY <1>1 DEF Merge
<1>2. CASE ~(prev = None \/ next.weights = None \/ prev.weights = None)
  <2> DEFINE w == [b \in DOMAIN prev.weights \union DOMAIN next.weights |->
                     IF b \in DOMAIN next.weights THEN next.weights[b] ELSE prev.weights[b]]
             m == Merge(prev, next)
  <2>1. m = [next EXCEPT !.weights = w]
    BY <1>2 DEF Merge
  <2>2. m \in Decision /\ m # None /\ next # None
    BY MergeType, NoDecisionAssumption
  <2>3. next.weights \in PartialWeights /\ prev.weights \in PartialWeights
    BY <1>2 DEF Decision
  <2>4. /\ m.action = next.action /\ m.recovery = next.recovery /\ m.cuLeft = next.cuLeft
        /\ m.weights = w
    BY <2>1 DEF Decision
  <2>5. w # None
    <3>1. m.weights \in {None} \union PartialWeights
      BY <2>2 DEF Decision
    <3>2. DOMAIN prev.weights \union DOMAIN next.weights \in SUBSET Backends
      BY <2>3, PartialWeightsElim
    <3>3. w \in [DOMAIN prev.weights \union DOMAIN next.weights -> IssuedWeights]
      BY <2>3, PartialWeightsElim
    <3> HIDE DEF w
    <3> QED
      BY <3>2, <3>3, PartialWeightsIntro, NoDecisionAssumption
  <2>6. Degraded(next) \subseteq Degraded(m)
    BY <1>2, <2>2, <2>4, <2>5 DEF Degraded
  <2>7. next.weights = prev.weights => w = prev.weights
    BY <2>3, PartialWeightsElim
  <2> HIDE DEF w
  <2> QED
    BY <1>2, <2>4, <2>6, <2>7 DEF m
<1> QED
  BY <1>1, <1>2

\* Recording a decision that follows the one on record is an isolation, a
\* reissue or nothing, unless it drops a recovery.
LEMMA RecordedStep ==
  ASSUME NEW prev \in {None} \union Decision, NEW next \in Decision,
         Follows(prev, next), ~Drops(prev, next)
  PROVE  LET new == Merge(prev, next)
         IN  \/ StageOf(new) = "isolated" /\ LeftOf(new) \in 1..4
             \/ /\ StageOf(prev) # "clear"
                /\ LeftOf(new) = LeftOf(prev) - 1
                /\ StageOf(new) = IF LeftOf(new) = 0 THEN "clear" ELSE "recovering"
             \/ StageOf(new) = StageOf(prev) /\ LeftOf(new) = LeftOf(prev)
<1> DEFINE new == Merge(prev, next)
<1>1. /\ new \in Decision /\ new # None
      /\ new.action = next.action /\ new.recovery = next.recovery
      /\ Degraded(next) \subseteq Degraded(new)
      /\ next.weights = None => new.weights = None
      /\ prev # None /\ next.weights = prev.weights => new.weights = prev.weights
  BY MergeType, MergeKeeps, NoDecisionAssumption
<1> HIDE DEF new
<1>2. CASE next.action = "isolate_backend"
  <2>1. Degraded(new) # {}
    BY <1>1, <1>2 DEF Follows
  <2> QED
    BY <1>1, <1>2, <2>1, IsolatedOwes DEF new
<1>3. CASE next.action = "reroute"
  <2> DEFINE state == RecoveryState(prev)
  <2>1. /\ state.done \in 0..3 /\ state.total \in 1..4 /\ state.done < state.total
        /\ state.backends \in SUBSET Backends
        /\ state # None
    BY <1>3, RecoveryStateType DEF Follows
  <2> HIDE DEF state
  <2>2. new.recovery = [done |-> state.done + 1, total |-> state.total,
                        backends |-> state.backends]
    BY <1>1, <1>3 DEF Follows, NextMarker, state
  <2>3. new.recovery \in [done : 0..4, total : 1..4, backends : SUBSET Backends]
    BY <2>1, <2>2
  <2>4. new.recovery # None
    BY <2>3, NoDecisionAssumption
  <2>5. RecoveryState(new) = IF state.done + 1 < state.total THEN new.recovery ELSE None
    BY <1>1, <1>3, <2>2, <2>4 DEF RecoveryState
  <2>6. StageOf(prev) # "clear" /\ LeftOf(prev) = state.total - state.done
    BY <2>1 DEF StageOf, LeftOf, state
  <2>7. LeftOf(new) = IF state.done + 1 < state.total
                      THEN state.total - (state.done + 1) ELSE 0
    BY <2>2, <2>4, <2>5 DEF LeftOf
  <2>8. StageOf(new) = IF state.done + 1 < state.total THEN "recovering" ELSE "clear"
    BY <1>1, <1>3, <2>4, <2>5 DEF StageOf
  <2> QED
    BY <2>1, <2>6, <2>7, <2>8 DEF new
<1>4. CASE next.action \notin Rerouting /\ Carries(prev, next)
  <2>1. /\ prev # None /\ prev.action # "reroute"
        /\ new.action # "reroute" /\ new.weights = prev.weights
    BY <1>1, <1>4 DEF Carries, Rerouting
  <2>2. Degraded(new) = Degraded(prev)
    BY <1>1, <2>1 DEF Degraded
  <2>3. RecoverySteps(new) = RecoverySteps(prev)
    BY <2>1, <2>2 DEF RecoverySteps
  <2>4. RecoveryState(new) = RecoveryState(prev)
    BY <1>1, <2>1, <2>2, <2>3 DEF RecoveryState
  <2> QED
    BY <2>1, <2>4 DEF StageOf, LeftOf, new
<1>5. CASE next.action \notin Rerouting /\ next.weights = None
  <2>1. RecoveryState(prev) = None
    BY <1>5 DEF Drops
  <2>2. new.action # "reroute" /\ Degraded(new) = {}
    BY <1>1, <1>5 DEF Degraded, Rerouting
  <2>3. RecoveryState(new) = None
    BY <2>2 DEF RecoveryState
  <2> QED
    BY <2>1, <2>3 DEF StageOf, LeftOf, new
<1> QED
  BY <1>2, <1>3, <1>4, <1>5 DEF Follows, Rerouting

----------------------------------------------------------------------------
(* The inductive invariant *)

LEMMA RecoveryInit == Init => RecoveryInv
BY DEF Init, RecoveryInv

LEMMA RecoveryTick == TypeInv /\ RecoveryInv /\ Tick => RecoveryInv'
<1> SUFFICES ASSUME TypeInv, RecoveryInv, Tick PROVE RecoveryInv'
  OBVIOUS
<1>1. /\ status.decision \in {None} \union Decision
      /\ job.decision \in {None} \union Decision
      /\ status'.decision = Sooner(status.decision) /\ pc' = pc
  BY DEF TypeInv, TypeOK, Tick
<1>2. ASSUME status'.decision # None, status'.decision.action = "reroute"
      PROVE  status'.decision.cuLeft = 0
  <2>1. /\ status.decision \in Decision /\ status.decision # None
        /\ status.decision.action = "reroute"
    BY <1>1, <1>2, SoonerKeeps
  <2>2. status.decision.cuLeft = 0
    BY <2>1 DEF RecoveryInv
  <2> QED
    BY <1>1, <2>1, <2>2, SoonerType DEF Larger
<1>3. ASSUME pc' # "idle", job'.decision # None
      PROVE  Follows(status'.decision, job'.decision)
  <2>1. job'.decision = Sooner(job.decision)
    BY <1>1, <1>3 DEF Tick, TypeInv, TypeOK
  <2>2. job.decision \in Decision /\ job.decision # None
    BY <1>1, <1>3, <2>1, SoonerKeeps
  <2>3. Follows(status.decision, job.decision)
    BY <1>1, <1>3, <2>2 DEF RecoveryInv
  <2> QED
    BY <1>1, <2>1, <2>2, <2>3, FollowsSooner
<1> QED
  BY <1>2, <1>3 DEF RecoveryInv

LEMMA RecoveryCollect == TypeInv /\ RecoveryInv /\ Collect => RecoveryInv'
<1> SUFFICES ASSUME TypeInv, RecoveryInv, Collect PROVE RecoveryInv'
  OBVIOUS
<1>1. PICK snap \in Snapshots : Observing(snap)
  BY DEF Collect
<1>2. snap \in SnapshotType
  BY <1>1, SnapshotsType DEF TypeInv, TypeOK
<1>3. job'.decision =
        IF snap.status = "ok" THEN Evaluate(spec, snap, baseline, status) ELSE None
  BY <1>1 DEF Observing
<1>4. UNCHANGED status /\ spec \in Specs /\ status \in StatusType
  BY DEF Collect, TypeInv, TypeOK, StatusType
<1>5. job'.decision # None => Follows(status.decision, job'.decision)
  BY <1>2, <1>3, <1>4, EvaluateFollows DEF RecoveryInv
<1> QED
  BY <1>4, <1>5 DEF RecoveryInv

LEMMA RecoveryRecord == TypeInv /\ RecoveryInv /\ Record => RecoveryInv'
<1> SUFFICES ASSUME TypeInv, RecoveryInv, Record PROVE RecoveryInv'
  OBVIOUS
<1>1. /\ pc = "record" /\ pc' = "idle"
      /\ status'.decision = IF job.decision = None THEN status.decision
                            ELSE Merge(status.decision, job.decision)
  BY DEF Record
<1>2. CASE job.decision = None
  BY <1>1, <1>2 DEF RecoveryInv
<1>3. CASE job.decision # None
  <2>1. job.decision \in Decision /\ status.decision \in {None} \union Decision
    BY <1>3 DEF TypeInv, TypeOK
  <2>2. job.decision.action = "reroute" => job.decision.cuLeft = 0
    BY <1>1, <1>3 DEF RecoveryInv, Follows
  <2> QED
    BY <1>1, <1>3, <2>1, <2>2, MergeKeeps DEF RecoveryInv
<1> QED
  BY <1>2, <1>3

\* The steps that change neither the status nor what is to be recorded, or give
\* up recording it.
Aside ==
  \/ CallFails \/ Actuate \/ RecordFails \/ Crash
  \/ PodStarts \/ PodStops \/ EditReplicas \/ EditRoute \/ EditSpec \/ CalmDown
  \/ UNCHANGED vars

LEMMA AsideKeeps ==
  Aside => status' = status /\ (pc' = "idle" \/ (job' = job /\ (pc' # "idle" => pc # "idle")))
<1>1. CASE CallFails \/ Actuate
  BY <1>1 DEF CallFails, Actuate, ReadScale, WriteScale, ReadRoute, WriteRoute, RouteConflict
<1>2. CASE RecordFails \/ Crash
  BY <1>2 DEF RecordFails, Crash
<1>3. CASE PodStarts \/ PodStops \/ EditReplicas \/ EditRoute \/ EditSpec \/ CalmDown
  BY <1>3 DEF PodStarts, PodStops, EditReplicas, EditRoute, EditSpec, CalmDown, handler
<1>4. CASE UNCHANGED vars
  BY <1>4 DEF vars, handler
<1> QED
  BY <1>1, <1>2, <1>3, <1>4 DEF Aside

LEMMA StepCases == [Next]_vars => Tick \/ Collect \/ Record \/ Aside
BY DEF Next, Operator, Environment, Failure, Aside

LEMMA RecoveryStep == TypeInv /\ RecoveryInv /\ [Next]_vars => RecoveryInv'
<1>1. TypeInv /\ RecoveryInv /\ Aside => RecoveryInv'
  BY AsideKeeps DEF RecoveryInv
<1> QED
  BY <1>1, RecoveryTick, RecoveryCollect, RecoveryRecord, StepCases

\* Whatever the handler is about to record was made from what is on record, and
\* a reroute has no deadline (evaluate, _recovery_state, _cooldown_remaining).
THEOREM RecoveryInvariant == Spec => []RecoveryInv
BY TypeInvariant, RecoveryInit, RecoveryStep, PTL DEF Spec

----------------------------------------------------------------------------
(* The refinement *)

\* A decision that drops the recovery on record is recorded.
Forgets == Record /\ job.decision # None /\ Drops(status.decision, job.decision)

\* A step to another decision on record, as the abstract specification sees it.
LEMMA LifecycleSteps ==
  ASSUME \/ /\ StageOf(status'.decision) = "isolated"
            /\ LeftOf(status'.decision) \in 1..4
         \/ /\ StageOf(status.decision) # "clear"
            /\ LeftOf(status'.decision) = LeftOf(status.decision) - 1
            /\ StageOf(status'.decision) =
                 IF LeftOf(status'.decision) = 0 THEN "clear" ELSE "recovering"
         \/ /\ StageOf(status'.decision) = StageOf(status.decision)
            /\ LeftOf(status'.decision) = LeftOf(status.decision)
  PROVE  [Lifecycle!Next]_(Lifecycle!vars)
BY DEF Lifecycle!Next, Lifecycle!Isolate, Lifecycle!Reissue, Lifecycle!vars,
       Remembered, StageOf, LeftOf

LEMMA RefinementStep ==
  TypeInv /\ RecoveryInv /\ [Next]_vars => [Lifecycle!Next \/ Forgets]_(Lifecycle!vars)
<1> SUFFICES ASSUME TypeInv, RecoveryInv, [Next]_vars, ~Forgets
             PROVE  [Lifecycle!Next]_(Lifecycle!vars)
  OBVIOUS
<1>1. status.decision \in {None} \union Decision /\ job.decision \in {None} \union Decision
  BY DEF TypeInv, TypeOK
<1>2. CASE status'.decision = status.decision
  BY <1>2, LifecycleSteps
<1>3. CASE Tick
  <2>1. status'.decision = Sooner(status.decision)
    BY <1>3 DEF Tick
  <2>2. /\ StageOf(status'.decision) = StageOf(status.decision)
        /\ LeftOf(status'.decision) = LeftOf(status.decision)
    BY <1>1, <2>1, SoonerKeeps DEF StageOf, LeftOf, RecoveryState
  <2> QED
    BY <2>2, LifecycleSteps
<1>4. CASE Record /\ job.decision # None
  <2>1. status'.decision = Merge(status.decision, job.decision)
    BY <1>4 DEF Record
  <2>2. /\ job.decision \in Decision
        /\ Follows(status.decision, job.decision)
        /\ ~Drops(status.decision, job.decision)
    BY <1>1, <1>4 DEF Record, RecoveryInv, Forgets
  <2> QED
    BY <1>1, <2>1, <2>2, RecordedStep, LifecycleSteps
<1>5. CASE Record /\ job.decision = None
  <2>1. status'.decision = status.decision
    BY <1>5 DEF Record
  <2> QED
    BY <2>1, <1>2
<1>6. CASE Collect \/ Aside
  <2>1. status'.decision = status.decision
    BY <1>6, AsideKeeps DEF Collect
  <2> QED
    BY <2>1, <1>2
<1> QED
  BY <1>3, <1>4, <1>5, <1>6, StepCases

LEMMA RefinementInit == Init => Lifecycle!Init
BY DEF Init, Lifecycle!Init, Remembered, RecoveryState, Degraded

\* Whatever the policy, the traffic and the faults, the recovery of an isolation
\* goes its way on record, or is forgotten in one kind of step: a decision is
\* recorded that moves no weights and carries none (_carry_backend_weights).
THEOREM RecoveryKeptOrDropped ==
  Spec => Lifecycle!Init /\ [][Lifecycle!Next \/ Forgets]_(Lifecycle!vars)
BY RefinementInit, RefinementStep, TypeInvariant, RecoveryInvariant, PTL DEF Spec

\* Such a decision is made only of a snapshot with an anomaly that evaluate does
\* not answer by an isolation: nobody in particular is to blame, or isolation
\* is not allowed (evaluate (D) 2).
THEOREM DropsOnlyOnAnomaly ==
  Spec => [][Collect /\ job'.decision # None /\ Drops(status.decision, job'.decision)
               => \E snap \in Snapshots : Observing(snap) /\ Unanswered(spec, snap, baseline)]_vars
<1>1. ASSUME TypeInv, RecoveryInv, Collect, job'.decision # None,
             Drops(status.decision, job'.decision)
      PROVE  \E snap \in Snapshots : Observing(snap) /\ Unanswered(spec, snap, baseline)
  <2>1. PICK snap \in Snapshots : Observing(snap)
    BY <1>1 DEF Collect
  <2>2. snap \in SnapshotType
    BY <1>1, <2>1, SnapshotsType DEF TypeInv, TypeOK
  <2>3. snap.status = "ok" /\ job'.decision = Evaluate(spec, snap, baseline, status)
    BY <1>1, <2>1 DEF Observing
  <2>4. spec \in Specs /\ status \in StatusType
    BY <1>1 DEF TypeInv, TypeOK, StatusType
  <2>5. Unanswered(spec, snap, baseline)
    BY <1>1, <2>2, <2>3, <2>4, EvaluateDrops DEF RecoveryInv
  <2> QED
    BY <2>1, <2>5
<1> QED
  BY <1>1, TypeInvariant, RecoveryInvariant, PTL DEF Spec

----------------------------------------------------------------------------
(* Where every anomaly can be isolated *)

\* How many pods are ready has no part in whether an anomaly is isolated.
LEMMA PodsHaveNoPart ==
  ASSUME NEW cr, NEW t, NEW p, NEW base
  PROVE  Unanswered(cr, Snapshot(t, p), base) <=> Unanswered(cr, t, base)
<1> DEFINE snap == Snapshot(t, p)
<1>1. snap.error = t.error /\ snap.p99 = t.p99 /\ snap.backends = t.backends
  BY DEF Snapshot
<1> HIDE DEF snap
<1>2. /\ Severity(cr, snap, base) = Severity(cr, t, base)
      /\ ErrorAnomaly(cr, snap, base) <=> ErrorAnomaly(cr, t, base)
  BY <1>1 DEF Severity, ErrorAnomaly, LatencyAnomaly
<1>3. Culprits(cr, snap) = Culprits(cr, t)
  BY <1>1 DEF Culprits, WithVerdict
<1> QED
  BY <1>2, <1>3 DEF Unanswered, snap

\* What is about to be recorded drops nothing.
KeepsInv ==
  pc # "idle" /\ job.decision # None => ~Drops(status.decision, job.decision)

LEMMA KeepsCollect ==
  ASSUME EveryAnomalyIsolated, TypeInv, RecoveryInv, Collect
  PROVE  KeepsInv'
<1>1. PICK snap \in Snapshots : Observing(snap)
  BY DEF Collect
<1>2. snap \in SnapshotType /\ ready \in OptionalNat /\ None \in OptionalNat
  BY <1>1, SnapshotsType DEF TypeInv, TypeOK, OptionalNat
<1>3. PICK t \in Traffic \union CalmTraffic, p \in OptionalNat : snap = Snapshot(t, p)
  BY <1>2 DEF Snapshots
<1>4. /\ job'.decision =
           IF snap.status = "ok" THEN Evaluate(spec, snap, baseline, status) ELSE None
      /\ status' = status
  BY <1>1 DEF Observing, Collect
<1>5. spec \in Specs /\ status \in StatusType /\ baseline \in Baseline
  BY DEF TypeInv, TypeOK, StatusType
<1>6. ASSUME job'.decision # None, Drops(status.decision, job'.decision)
      PROVE  FALSE
  <2>1. snap.status = "ok" /\ t.status = "ok"
    BY <1>3, <1>4, <1>6 DEF Snapshot
  <2>2. Unanswered(spec, snap, baseline)
    BY <1>2, <1>4, <1>5, <1>6, <2>1, EvaluateDrops DEF RecoveryInv
  <2> QED
    BY <1>3, <1>5, <2>1, <2>2, PodsHaveNoPart DEF EveryAnomalyIsolated
<1> QED
  BY <1>4, <1>6 DEF KeepsInv

LEMMA KeepsTick ==
  ASSUME TypeInv, KeepsInv, Tick
  PROVE  KeepsInv'
<1>1. /\ status.decision \in {None} \union Decision
      /\ job.decision \in {None} \union Decision
      /\ status'.decision = Sooner(status.decision) /\ pc' = pc
  BY DEF TypeInv, TypeOK, Tick
<1>2. ASSUME pc # "idle", job'.decision # None
      PROVE  ~Drops(status'.decision, job'.decision)
  <2>1. job'.decision = Sooner(job.decision)
    BY <1>2 DEF Tick, TypeInv, TypeOK
  <2>2. job.decision # None
    BY <1>1, <1>2, <2>1, SoonerKeeps
  <2>3. ~Drops(status.decision, job.decision)
    BY <1>2, <2>2 DEF KeepsInv
  <2> QED
    BY <1>1, <2>1, <2>2, <2>3, SoonerKeeps DEF Drops
<1> QED
  BY <1>1, <1>2 DEF KeepsInv

LEMMA KeepsStep ==
  ASSUME EveryAnomalyIsolated
  PROVE  TypeInv /\ RecoveryInv /\ KeepsInv /\ [Next]_vars => KeepsInv'
<1>1. KeepsInv /\ Aside => KeepsInv'
  BY AsideKeeps DEF KeepsInv
<1>2. Record => KeepsInv'
  BY DEF Record, KeepsInv
<1> QED
  BY <1>1, <1>2, KeepsCollect, KeepsTick, StepCases

\* An isolation stays on record until as many reissues as its recovery needs have
\* been recorded, across cooldown noops, failed collections, lost results,
\* restarts and edits of the policy (_carry_backend_weights, _recovery_state,
\* FINDING-1), if every anomaly is one that is answered by an isolation.
THEOREM RecoveryRefines == ASSUME EveryAnomalyIsolated PROVE Spec => RecoveryCompletes
<1>1. Init => KeepsInv
  BY DEF Init, KeepsInv
<1>2. TypeInv /\ RecoveryInv /\ KeepsInv /\ [Next]_vars => KeepsInv'
  BY KeepsStep
<1>3. KeepsInv => ~Forgets
  BY DEF KeepsInv, Forgets, Record
<1>4. TypeInv /\ RecoveryInv /\ KeepsInv /\ [Next]_vars => [Lifecycle!Next]_(Lifecycle!vars)
  BY <1>3, RefinementStep
<1>5. Spec => Lifecycle!Init /\ [][Lifecycle!Next]_(Lifecycle!vars)
  BY <1>1, <1>2, <1>4, RefinementInit, TypeInvariant, RecoveryInvariant, PTL DEF Spec
<1> QED
  BY <1>5 DEF RecoveryCompletes, Lifecycle!Spec
=============================================================================
