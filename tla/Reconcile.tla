----------------------------- MODULE Reconcile -----------------------------
(***************************************************************************)
(* One TrafficPolicy under the operator: the timer handler of handlers.py  *)
(* observes, evaluates (module Policy), actuates (actuator/executor.py,    *)
(* scaler.py, router.py) and returns a result that kopf merges into        *)
(* status.reconcile.  Between any two of these steps time passes, pods     *)
(* come and go, somebody else edits the cluster or the TrafficPolicy, a    *)
(* call fails or the operator restarts.                                    *)
(*                                                                         *)
(* Time is counted in ticks, Interval of them to a timer period, and every *)
(* time stamp is kept as its distance from now, so the state is finite.    *)
(***************************************************************************)
EXTENDS Policy

CONSTANTS
  Specs,          \* specs the TrafficPolicy may have, now or after an edit
  MaxCooldown,    \* no cooldown is longer; ages beyond it are all alike
  Backends,       \* names the metrics may tell apart, of the route or not
  Refs,           \* backendRefs of the HTTPRoute, in all its rules
  InitRoutes,     \* weights the HTTPRoute may start with
  InitReplicas,   \* replica counts the Deployment may start with
  Interval,       \* ticks between two firings of the timer
  Traffic,        \* what a collector may return while the traffic is stormy ...
  CalmTraffic,    \* ... and once it is calm
  Faults,         \* what may go wrong while it is stormy
  ReplicaEdits,   \* replica counts somebody else may set
  WeightEdits     \* weights somebody else may set

Status == {"ok", "no_data", "collection_failed"}

CRType ==
  [errorThreshold : BOOLEAN, latencyThreshold : BOOLEAN,
   targetRPS : OptionalNat, scaleDownRPS : OptionalNat,
   minReplicas : OptionalNat, maxReplicas : OptionalNat, maxScaleStep : OptionalNat,
   cooldown : Nat, allowIsolation : BOOLEAN, dryRun : BOOLEAN]

\* A snapshot without its pod count, which is read off the cluster.
Observation(names) ==
  [status : Status, error : Levels, p99 : Levels \union {None}, rps : Nat,
   backends : UNION {[D -> Verdict] : D \in SUBSET names}]

AllFaults == {"api", "crash", "pods", "record", "replicas", "route", "spec"}

ASSUME ReconcileAssumption ==
  /\ Specs \subseteq CRType
  /\ MaxCooldown \in Nat
  /\ \A cr \in Specs : cr.cooldown <= MaxCooldown
  /\ IsFiniteSet(Backends)
  /\ InitRoutes \subseteq [Refs -> Nat]
  /\ InitReplicas \subseteq Nat
  /\ Interval \in Nat \ {0}
  /\ Traffic \subseteq Observation(Backends)
  /\ CalmTraffic \subseteq Observation(Backends)
  /\ Faults \subseteq AllFaults
  /\ ReplicaEdits \subseteq Nat
  /\ WeightEdits \subseteq Nat

VARIABLES
  spec,       \* the TrafficPolicy's spec
  replicas,   \* Deployment spec.replicas
  ready,      \* ready pods of the Deployment
  route,      \* weights in the HTTPRoute
  status,     \* CR status.reconcile: lastDecision, age of lastReconcileAt
  baseline,   \* _BASELINES entry of the target, in process memory
  sleep,      \* ticks until the timer fires
  pc,         \* where the running handler is
  job,        \* its copy of the spec, its Decision (None: the snapshot was not ok)
              \* and the age of its snapshot
  held,       \* what it read from the cluster and has not yet written back
  fresh,      \* the resourceVersion of the route it read is still current
  attempt,    \* set_backend_weights' loop counter
  calm,       \* the environment has become quiet for good
  rest        \* auxiliary: ticks the last recorded scale or isolate still has to be
              \* left alone

cluster  == <<replicas, ready, route>>
handler  == <<pc, job, held, attempt>>
vars     == <<spec, cluster, status, baseline, sleep, handler, fresh, calm, rest>>

NoJob    == [spec |-> None, decision |-> None, age |-> 0]
Acting    == {"scale", "isolate_backend"}     \* the decisions that start a cooldown
Rerouting == {"reroute", "isolate_backend"}   \* the decisions _do_reroute carries out

Aged(n)   == Smaller(n + 1, MaxCooldown)
Sooner(decision) ==
  IF decision = None THEN None ELSE [decision EXCEPT !.cuLeft = Larger(0, @ - 1)]

Init ==
  /\ spec \in Specs
  /\ replicas \in InitReplicas
  /\ ready = replicas
  /\ route \in InitRoutes
  /\ status = [decision |-> None, age |-> None]
  /\ baseline = NoBaseline
  /\ sleep = 0
  /\ pc = "idle"
  /\ job = NoJob
  /\ held = None
  /\ fresh = FALSE
  /\ attempt = 0
  /\ calm = FALSE
  /\ rest = 0
----------------------------------------------------------------------------
(* The environment *)

Fault(f) == f \in Faults /\ ~calm

\* 30 seconds cut into Interval ticks.  The timer is sharp: a handler that
\* overruns its period fires again on the next multiple of it.
Tick ==
  /\ sleep' = IF pc = "idle" THEN Larger(0, sleep - 1)
              ELSE IF sleep = 1 THEN Interval ELSE sleep - 1
  /\ status' = [decision |-> Sooner(status.decision),
                age      |-> IF status.age = None THEN None ELSE Aged(status.age)]
  /\ job' = IF pc = "idle" THEN job
            ELSE [job EXCEPT !.decision = Sooner(@), !.age = Aged(@)]
  /\ rest' = Larger(0, rest - 1)
  /\ UNCHANGED <<spec, cluster, baseline, pc, held, attempt, fresh, calm>>

\* The Deployment controller brings the pods to spec.replicas one at a time.
PodStarts ==
  /\ ready < replicas
  /\ ready' = ready + 1
  /\ UNCHANGED <<spec, replicas, route, status, baseline, sleep, handler, fresh, calm, rest>>

PodStops ==
  /\ ready > replicas \/ (ready > 0 /\ Fault("pods"))
  /\ ready' = ready - 1
  /\ UNCHANGED <<spec, replicas, route, status, baseline, sleep, handler, fresh, calm, rest>>

\* An HPA, a person or another policy sets the replicas.
EditReplicas ==
  /\ Fault("replicas")
  /\ replicas' \in ReplicaEdits
  /\ UNCHANGED <<spec, ready, route, status, baseline, sleep, handler, fresh, calm, rest>>

\* Any write to the HTTPRoute, one that leaves the weights alone included.
EditRoute ==
  /\ Fault("route")
  /\ \/ \E ref \in Refs, w \in WeightEdits : route' = [route EXCEPT ![ref] = w]
     \/ route' = route
  /\ fresh' = FALSE
  /\ UNCHANGED <<spec, replicas, ready, status, baseline, sleep, handler, calm, rest>>

\* The TrafficPolicy is edited.  register_policy refuses an inconsistent spec
\* and says so in an event; the spec and the timer stay.
EditSpec ==
  /\ Fault("spec")
  /\ spec' \in Specs
  /\ UNCHANGED <<cluster, status, baseline, sleep, handler, fresh, calm, rest>>

CalmDown ==
  /\ ~calm
  /\ calm' = TRUE
  /\ UNCHANGED <<spec, cluster, status, baseline, sleep, handler, fresh, rest>>

----------------------------------------------------------------------------
(* reconcile: collect and evaluate *)

Snapshot(traffic, pods) ==
  [status |-> traffic.status, error |-> traffic.error, p99 |-> traffic.p99,
   rps |-> traffic.rps, backends |-> traffic.backends, pods |-> pods]

\* Snapshots the collector can return now; the pod count is best effort.
Snapshots ==
  IF calm THEN {Snapshot(t, ready) : t \in CalmTraffic}
          ELSE {Snapshot(t, p) : t \in Traffic, p \in {ready, None}}

\* A snapshot that is not ok skips evaluation and actuation; a noop skips
\* actuation.
Observing(snap) ==
  LET decision == IF snap.status = "ok" THEN Evaluate(spec, snap, baseline, status) ELSE None
      acts     == decision # None /\ decision.action # "noop"
  IN  /\ job' = [spec |-> spec, decision |-> decision, age |-> 0]
      /\ baseline' = Learn(spec, snap, baseline)
      /\ pc' = IF acts THEN "read" ELSE "record"

Collect ==
  /\ pc = "idle"
  /\ sleep = 0
  /\ \E snap \in Snapshots : Observing(snap)
  /\ sleep' = Interval
  /\ attempt' = 0
  /\ UNCHANGED <<spec, cluster, status, held, fresh, calm, rest>>

----------------------------------------------------------------------------
(* apply: read, compute, write *)

PlannedReplicas(current) ==
  ClampReplicas(job.decision.target, current,
                job.spec.minReplicas, job.spec.maxReplicas, job.spec.maxScaleStep)

\* scale_deployment up to the patch: nothing is written when the plan is
\* what is already there, or in a dry run.
ReadScale ==
  /\ pc = "read"
  /\ job.decision.action = "scale"
  /\ IF PlannedReplicas(replicas) = replicas \/ job.spec.dryRun
     THEN pc' = "record" /\ UNCHANGED held
     ELSE pc' = "write" /\ held' = replicas
  /\ UNCHANGED <<spec, cluster, status, baseline, sleep, job, attempt, fresh, calm, rest>>

\* The patch carries no resourceVersion: it lands whatever happened since.
WriteScale ==
  /\ pc = "write"
  /\ job.decision.action = "scale"
  /\ replicas' = PlannedReplicas(held)
  /\ held' = None
  /\ pc' = "record"
  /\ UNCHANGED <<spec, ready, route, status, baseline, sleep, job, attempt, fresh, calm, rest>>

Targets == NormalizeTargets(job.decision.weights)

\* _do_reroute asks again whether an isolation is allowed.
Refused == job.decision.action = "isolate_backend" /\ ~job.spec.allowIsolation

\* set_backend_weights up to the replace.
ReadRoute ==
  /\ pc = "read"
  /\ job.decision.action \in Rerouting
  /\ IF Refused \/ ApplyWeights(route, Targets) = route \/ job.spec.dryRun
     THEN pc' = "record" /\ UNCHANGED <<held, fresh>>
     ELSE pc' = "write" /\ held' = route /\ fresh' = TRUE
  /\ UNCHANGED <<spec, cluster, status, baseline, sleep, job, attempt, calm, rest>>

\* Mutant of WriteRoute: the replace carries no resourceVersion.
WriteRouteBlindly ==
  /\ pc = "write"
  /\ job.decision.action \in Rerouting
  /\ route' = ApplyWeights(held, Targets)
  /\ held' = None
  /\ fresh' = FALSE
  /\ pc' = "record"
  /\ UNCHANGED <<spec, replicas, ready, status, baseline, sleep, job, attempt, calm, rest>>

\* The replace carries the resourceVersion that was read.
WriteRoute ==
  /\ pc = "write"
  /\ job.decision.action \in Rerouting
  /\ fresh
  /\ route' = ApplyWeights(held, Targets)
  /\ held' = None
  /\ fresh' = FALSE
  /\ pc' = "record"
  /\ UNCHANGED <<spec, replicas, ready, status, baseline, sleep, job, attempt, calm, rest>>

\* 409: read again and retry, once.
RouteConflict ==
  /\ pc = "write"
  /\ job.decision.action \in Rerouting
  /\ ~fresh
  /\ IF attempt = 0 THEN pc' = "read" /\ attempt' = 1
                    ELSE pc' = "record" /\ UNCHANGED attempt
  /\ held' = None
  /\ UNCHANGED <<spec, cluster, status, baseline, sleep, job, fresh, calm, rest>>

\* Any other API error, on the read or on the write: reported, not retried.
CallFails ==
  /\ Fault("api")
  /\ pc \in {"read", "write"}
  /\ held' = None
  /\ fresh' = FALSE
  /\ pc' = "record"
  /\ UNCHANGED <<spec, cluster, status, baseline, sleep, job, attempt, calm, rest>>

----------------------------------------------------------------------------
(* The result reaches status.reconcile, or does not *)

\* kopf patches the result as a JSON merge patch: a null deletes its key,
\* backend_weights is merged key by key.
Merge(prev, next) ==
  IF prev = None \/ next.weights = None THEN next
  ELSE IF prev.weights = None THEN next
  ELSE [next EXCEPT !.weights =
          [b \in DOMAIN prev.weights \union DOMAIN next.weights |->
             IF b \in DOMAIN next.weights THEN next.weights[b] ELSE prev.weights[b]]]

\* A result without lastDecision (the snapshot was not ok) leaves the
\* previous one in place and renews lastReconcileAt.
Record ==
  /\ pc = "record"
  /\ status' = [decision |-> IF job.decision = None THEN status.decision
                             ELSE Merge(status.decision, job.decision),
                age      |-> 0]
  /\ rest' = IF job.decision = None THEN rest
             ELSE IF job.spec.cooldown = 0 THEN 0
             ELSE IF job.decision.action \in Acting
                  THEN Larger(0, job.spec.cooldown - job.age)
                  ELSE rest
  /\ pc' = "idle"
  /\ job' = NoJob
  /\ UNCHANGED <<spec, cluster, baseline, sleep, held, attempt, fresh, calm>>

\* The status patch fails: the cycle happened and leaves no trace.
RecordFails ==
  /\ Fault("record")
  /\ pc = "record"
  /\ pc' = "idle"
  /\ job' = NoJob
  /\ UNCHANGED <<spec, cluster, status, baseline, sleep, held, attempt, fresh, calm, rest>>

\* The operator process restarts: the baseline is gone, the timer fires at once.
Crash ==
  /\ Fault("crash")
  /\ pc' = "idle"
  /\ job' = NoJob
  /\ held' = None
  /\ fresh' = FALSE
  /\ attempt' = 0
  /\ sleep' = 0
  /\ baseline' = NoBaseline
  /\ UNCHANGED <<spec, cluster, status, calm, rest>>

----------------------------------------------------------------------------
Actuate == ReadScale \/ WriteScale \/ ReadRoute \/ WriteRoute \/ RouteConflict

Operator == Collect \/ Actuate \/ Record

Environment ==
  Tick \/ PodStarts \/ PodStops \/ EditReplicas \/ EditRoute \/ EditSpec \/ CalmDown

Failure == CallFails \/ RecordFails \/ Crash

Next == Operator \/ Environment \/ Failure

Spec == Init /\ [][Next]_vars

\* kopf runs a due timer, a handler that is running runs on, time passes and
\* the Deployment controller works.  Nothing is assumed of faults and edits,
\* nor that it ever becomes calm.
Fairness ==
  /\ WF_vars(Operator)
  /\ WF_vars(Tick)
  /\ WF_vars(PodStarts \/ PodStops)

FairSpec == Spec /\ Fairness
----------------------------------------------------------------------------
(* Properties *)

IssuedWeights  == {IsolateWeightCritical, IsolateWeightWarning, HealthyWeight}
PartialWeights == UNION {[D -> IssuedWeights] : D \in SUBSET Backends}
Recovery       == [done : 1..4, total : 1..4, backends : (SUBSET Backends) \ {{}}]

Decision ==
  [action : Actions, target : OptionalNat, weights : {None} \union PartialWeights,
   recovery : {None} \union Recovery, cuLeft : 0..MaxCooldown]

ASSUME NoDecisionAssumption ==
  /\ None \notin Decision
  /\ None \notin PartialWeights
  /\ None \notin [done : 0..4, total : 1..4, backends : SUBSET Backends]

\* Types of all variables (schemas.Decision as evaluate fills it in).
TypeOK ==
  /\ spec \in Specs
  /\ replicas \in Nat
  /\ ready \in Nat
  /\ route \in [Refs -> Nat]
  /\ status \in [decision : {None} \union Decision, age : {None} \union 0..MaxCooldown]
  /\ baseline \in Baseline
  /\ sleep \in 0..Interval
  /\ pc \in {"idle", "read", "write", "record"}
  /\ job \in [spec : {None} \union Specs, decision : {None} \union Decision,
              age : 0..MaxCooldown]
  /\ pc # "idle" => job.spec \in Specs
  /\ held \in IF pc # "write" THEN {None}
              ELSE IF job.decision.action = "scale" THEN Nat ELSE [Refs -> Nat]
  /\ fresh \in BOOLEAN
  /\ attempt \in 0..1
  /\ calm \in BOOLEAN
  /\ rest \in 0..MaxCooldown

Issues(actions) ==
  Collect /\ job'.decision # None /\ job'.decision.action \in actions

\* From the snapshot of a recorded scale or isolate, no other scale or
\* isolate is issued for the cooldown it was decided under, however many
\* noops, failed collections, lost results, restarts and edits of the cooldown
\* come in between, except by a spec, or after a cycle, without any cooldown
\* (_cooldown_remaining, _carry_cooldown_until).
CooldownRespected == [][Issues(Acting) /\ spec.cooldown > 0 => rest = 0]_vars

\* One cycle moves the weight of a backendRef by at most MaxWeightDelta from
\* what it is at that moment, whoever edited the route in between
\* (clamp_weight_change, and the replace that carries the resourceVersion).
WeightStepBounded ==
  [][WriteRoute => \A ref \in Refs : Distance(route'[ref], route[ref]) <= MaxWeightDelta]_vars

Asked(ref, weight) ==
  ref.name \in DOMAIN job.decision.weights /\ job.decision.weights[ref.name] = weight

\* The operator takes the last weight from a backendRef only to isolate what it
\* names, as critical, under a spec that allows it, and only while the metrics
\* show a healthy backend, which serves after the same write wherever the route
\* refers to it (_find_culprit_backends, _isolation_weights).  A backend that
\* is no backendRef counts as healthy too: a rule may be left without weight.
CutOnlyBesideHealthy ==
  [][WriteRoute =>
       \A ref \in Refs : route[ref] > 0 /\ route'[ref] = 0 =>
         /\ Asked(ref, IsolateWeightCritical)
         /\ job.decision.action = "isolate_backend" /\ job.spec.allowIsolation
         /\ \E b \in Backends :
              /\ b \in DOMAIN job.decision.weights /\ job.decision.weights[b] = HealthyWeight
              /\ \A other \in Refs : other.name = b => route'[other] > 0]_vars

\* A weight is only ever lowered by a cycle whose spec allows isolation, also
\* while the spec is edited between an isolation and its recovery: recovering
\* under a spec that forbids it never takes traffic off a backend (evaluate
\* (D) 1 and 3, _recovery_state).
LowersOnlyIfAllowed ==
  [][WriteRoute /\ ~job.spec.allowIsolation =>
       \A ref \in Refs : route'[ref] >= Smaller(route[ref], HealthyWeight)]_vars

\* A count outside minReplicas..maxReplicas is only ever written on the way
\* back from one further outside, and no write is a larger step than
\* maxScaleStep from what was read (clamp_replicas).  Where register_policy
\* refused minReplicas > maxReplicas and the timer goes on, maxReplicas wins.
ReplicasBounded ==
  [][WriteScale =>
       LET low  == job.spec.minReplicas
           high == job.spec.maxReplicas
           step == job.spec.maxScaleStep
       IN  /\ low # None /\ high = None => replicas' >= Smaller(held, low)
           /\ low # None /\ high # None => replicas' >= Smaller(held, Smaller(low, high))
           /\ high # None => replicas' <= Larger(held, high)
           /\ step # None /\ step > 0 => Distance(replicas', held) <= step]_vars

----------------------------------------------------------------------------
(* The recovery of an isolated backend, as the status remembers it *)

Remembered == RecoveryState(status.decision)

Lifecycle ==
  INSTANCE RecoveryLifecycle WITH
    MaxReissues <- 4,
    stage <- IF Remembered = None THEN "clear"
             ELSE IF status.decision.action = "reroute" THEN "recovering" ELSE "isolated",
    left  <- IF Remembered = None THEN 0 ELSE Remembered.total - Remembered.done

\* An isolation stays on record until every reissue of its recovery has been
\* recorded, across cooldown noops, failed collections and restarts
\* (_carry_backend_weights, _recovery_state, FINDING-1).
RecoveryCompletes == Lifecycle!Spec

\* An anomaly that evaluate does not answer by an isolation.
Unanswered(cr, snap, base) ==
  /\ Severity(cr, snap, base) # "none"
  /\ ~(ErrorAnomaly(cr, snap, base) /\ Culprits(cr, snap) # {} /\ cr.allowIsolation)

\* Where RecoveryCompletes is promised: every anomaly the collector can show is
\* an error of backends that can be told from healthy ones, and every spec
\* allows to isolate them.
EveryAnomalyIsolated ==
  \A cr \in Specs, t \in Traffic \union CalmTraffic, base \in Baseline :
    t.status = "ok" => ~Unanswered(cr, t, base)

\* The weight in the cluster is one the record accounts for: at least what an
\* isolation asked for, or what the reissues that are left can make up for.  A
\* lost record of a stronger isolation, or a failed reissue, leaves it lower.
Accounted(ref) ==
  IF status.decision.action = "reroute"
  THEN route[ref] + MaxWeightDelta * (Remembered.total - Remembered.done) >= HealthyWeight
  ELSE route[ref] >= status.decision.weights[ref.name]

\* The recovery of what a backendRef names is owed or under way.
Owed(ref) ==
  /\ calm /\ ~spec.dryRun /\ pc = "idle"
  /\ Remembered # None /\ ref.name \in Remembered.backends
  /\ Accounted(ref)

\* Once the traffic is calm, a backend whose recovery is on record as owed or
\* under way gets its full weight back, through the clamp of every cycle: the
\* estimate of the reissues is never too small (_recovery_state,
\* _ASSUMED_ACTUATOR_MAX_WEIGHT_STEP, set_backend_weights).
Recovers == \A ref \in Refs : Owed(ref) ~> (route[ref] = HealthyWeight)

\* Once the load is steady, the Deployment ends up with enough ready pods for
\* it, or with all maxReplicas allows, and stays there (assess_scaling with
\* clamp_replicas over several cycles).
Served ==
  /\ ready = replicas
  /\ \A t \in CalmTraffic : t.rps <= spec.targetRPS * ready \/ ready = spec.maxReplicas

Settles == <>(calm /\ ~spec.dryRun) => <>[]Served

----------------------------------------------------------------------------
(* Claims of the repository that the code does not keep *)

\* "otherwise a backend is stuck at a low weight for ever" (FINDING-1, engine.py
\* D3): once the traffic is calm nobody stays below the full weight.
NobodyStaysLow ==
  \A ref \in Refs :
    (calm /\ route[ref] < HealthyWeight) ~> (route[ref] = HealthyWeight)
============================================================================
