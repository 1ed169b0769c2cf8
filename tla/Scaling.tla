------------------------------ MODULE Scaling ------------------------------
(***************************************************************************)
(* The replica arithmetic: policy/scaling.py turns an observed load into   *)
(* a target, and actuator/scaler.py turns a target into the replica count  *)
(* it patches.  Requests per second are integers here: a float only enters *)
(* the code through comparisons and a ceiling, which scaling by a common   *)
(* denominator leaves unchanged.                                           *)
(***************************************************************************)
EXTENDS Integers

CONSTANT None      \* Python's None: an absent optional value

ASSUME NoneAssumption == None \notin Int

OptionalNat == Nat \union {None}

Larger(a, b)  == IF a >= b THEN a ELSE b
Smaller(a, b) == IF a <= b THEN a ELSE b
Distance(a, b) == IF a >= b THEN a - b ELSE b - a

\* -(-a // b): the ceiling of a / b for a natural a and a positive b.
CeilDiv(a, b) == (a + b - 1) \div b

\* _clamp: low first, then high, so that high wins when low > high.
Clamp(value, low, high) ==
  LET raised == IF low = None THEN value ELSE Larger(value, low)
  IN  IF high = None THEN raised ELSE Smaller(raised, high)

----------------------------------------------------------------------------
(* policy/scaling.py *)

\* The load per pod cannot be computed: no rps or target, or no ready pod.
InsufficientInput(rps, pods, target) ==
  \/ rps = None
  \/ target = None
  \/ target = 0
  \/ pods = None
  \/ pods = 0

\* Mutant of DesiredPods: the division rounds down.
DesiredRoundedDown(rps, target, low, high) == Clamp(rps \div target, low, high)

DesiredPods(rps, target, low, high) == Clamp(CeilDiv(rps, target), low, high)

\* Mutant of AssessScaling: crossing a threshold is enough to act.
AssessEagerly(rps, pods, target, scaleDown, low, high) ==
  IF InsufficientInput(rps, pods, target)
  THEN None
  ELSE IF rps > target * pods \/ (scaleDown # None /\ rps < scaleDown * pods)
       THEN DesiredPods(rps, target, low, high)
       ELSE None

\* Mutant of AssessScaling: one pod too few is not worth an action.
AssessLazily(rps, pods, target, scaleDown, low, high) ==
  IF InsufficientInput(rps, pods, target)
  THEN None
  ELSE LET desired == DesiredPods(rps, target, low, high)
           up      == rps > target * pods /\ desired > pods + 1
           down    == scaleDown # None /\ rps < scaleDown * pods /\ desired < pods
       IN  IF up \/ down THEN desired ELSE None

\* assess_scaling: the target replica count, or None to keep the replicas.
\* Between scaleDown and target (requests per pod) nothing moves.
AssessScaling(rps, pods, target, scaleDown, low, high) ==
  IF InsufficientInput(rps, pods, target)
  THEN None
  ELSE LET desired == DesiredPods(rps, target, low, high)
           up      == rps > target * pods /\ desired > pods
           down    == scaleDown # None /\ rps < scaleDown * pods /\ desired < pods
       IN  IF up \/ down THEN desired ELSE None

\* capacity_target_for_anomaly: at least one pod more than are ready now.
CapacityTarget(rps, pods, target, low, high) ==
  IF pods = None \/ pods = 0
  THEN None
  ELSE LET loaded == rps # None /\ target # None /\ target # 0
           wanted == IF loaded THEN Larger(pods + 1, CeilDiv(rps, target)) ELSE pods + 1
       IN  Clamp(wanted, low, high)

----------------------------------------------------------------------------
(* actuator/scaler.py *)

\* The part of a change the step limit lets through, in either direction.
Limited(current, goal, step) ==
  IF Distance(goal, current) <= step THEN goal
  ELSE IF goal > current THEN current + step ELSE current - step

\* Mutant of ClampReplicas: step first, then range.
ClampStepFirst(target, current, low, high, step) ==
  LET stepped == IF step = None \/ step = 0 THEN target ELSE Limited(current, target, step)
  IN  Larger(0, Clamp(stepped, low, high))

\* Mutant of ClampReplicas: a whole step is taken even when less is left to go.
ClampOvershoots(target, current, low, high, step) ==
  LET goal == Clamp(target, low, high)
  IN  IF step = None \/ step = 0 THEN goal
      ELSE IF goal > current THEN current + step ELSE current - step

\* Mutant of ClampReplicas: a step of 0 is a limit, and not the absence of one.
ClampZeroStep(target, current, low, high, step) ==
  LET goal    == Clamp(target, low, high)
      stepped == IF step = None THEN goal ELSE Limited(current, goal, step)
  IN  Larger(0, stepped)

\* clamp_replicas: range first, then step, then never negative.
ClampReplicas(target, current, low, high, step) ==
  LET goal    == Clamp(target, low, high)
      stepped == IF step = None \/ step = 0 THEN goal ELSE Limited(current, goal, step)
  IN  Larger(0, stepped)
============================================================================
