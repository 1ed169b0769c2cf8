--------------------------- MODULE ScalingProofs ---------------------------
(***************************************************************************)
(* The replica and weight arithmetic for every value of its parameters,    *)
(* and the properties of ScalingLoop that follow from it.                  *)
(***************************************************************************)
EXTENDS ScalingLoop, TLAPS

\* A ceiling is enough: b times CeilDiv(a, b) covers a (math.ceil in scaling.py).
LEMMA CeilDivCovers ==
  ASSUME NEW a \in Nat, NEW d \in Nat \ {0}
  PROVE  CeilDiv(a, d) \in Nat /\ a <= d * CeilDiv(a, d)
<1>1. (a + d - 1) \in Nat
  OBVIOUS
<1>2. /\ ((a + d - 1) \div d) \in Int
      /\ d * ((a + d - 1) \div d) <= a + d - 1
      /\ a + d - 1 < d * ((a + d - 1) \div d) + d
  BY <1>1, SMTT(30)
<1> QED
  BY <1>1, <1>2, SMTT(30) DEF CeilDiv

\* _clamp returns a count, whatever of its bounds are absent.
LEMMA ClampType ==
  ASSUME NEW v \in Nat, NEW low \in OptionalNat, NEW high \in OptionalNat
  PROVE  Clamp(v, low, high) \in Nat
BY NoneAssumption DEF Clamp, OptionalNat, Larger, Smaller

\* What _clamp has let through once, clamp_replicas lets through again.
LEMMA ClampIdempotent ==
  ASSUME NEW v \in Nat, NEW low \in OptionalNat, NEW high \in OptionalNat
  PROVE  Clamp(Clamp(v, low, high), low, high) = Clamp(v, low, high)
BY NoneAssumption DEF Clamp, OptionalNat, Larger, Smaller

\* clamp_replicas goes towards the clamped target, never past it, never stands
\* still short of it, and changes at most the step limit.
LEMMA ClampReplicasApproaches ==
  ASSUME NEW target \in Nat, NEW current \in Nat,
         NEW low \in OptionalNat, NEW high \in OptionalNat, NEW step \in OptionalNat,
         NEW goal \in Nat, Clamp(target, low, high) = goal
  PROVE  /\ ClampReplicas(target, current, low, high, step) \in Nat
         /\ current < goal => /\ current < ClampReplicas(target, current, low, high, step)
                              /\ ClampReplicas(target, current, low, high, step) <= goal
         /\ current > goal => /\ goal <= ClampReplicas(target, current, low, high, step)
                              /\ ClampReplicas(target, current, low, high, step) < current
         /\ current = goal => ClampReplicas(target, current, low, high, step) = goal
         /\ step # None /\ step > 0
              => Distance(ClampReplicas(target, current, low, high, step), current) <= step
<1> DEFINE stepped == IF step = None \/ step = 0 THEN goal ELSE Limited(current, goal, step)
           result  == Larger(0, stepped)
<1>1. step = None \/ step \in Nat
  BY DEF OptionalNat
<1>2. ClampReplicas(target, current, low, high, step) = result
  BY DEF ClampReplicas
<1>3. /\ result \in Nat
      /\ current < goal => current < result /\ result <= goal
      /\ current > goal => goal <= result /\ result < current
      /\ current = goal => result = goal
      /\ step # None /\ step > 0 => Distance(result, current) <= step
  BY <1>1, NoneAssumption DEF Limited, Larger, Distance
<1> QED
  BY <1>2, <1>3

----------------------------------------------------------------------------
(* The closed loop *)

Desired == DesiredPods(case.rps, case.target, case.low, case.high)

\* The last decision left the count on its own side of the target or on it.
HeadingInv ==
  /\ heading = "up"   => pods <= Desired
  /\ heading = "down" => pods >= Desired

Inv == TypeOK /\ HeadingInv

LEMMA DesiredType ==
  ASSUME TypeOK
  PROVE  Desired \in Nat
<1>1. /\ case.rps \in Nat /\ case.target \in Nat \ {0}
      /\ case.low \in OptionalNat /\ case.high \in OptionalNat
  BY DEF TypeOK, Case
<1>2. CeilDiv(case.rps, case.target) \in Nat
  BY <1>1, CeilDivCovers
<1> QED
  BY <1>1, <1>2, ClampType DEF Desired, DesiredPods

\* A load decision is always for the one target count, and only when the pods
\* are not there yet; applying it brings them closer.
LEMMA BalanceApproaches ==
  ASSUME TypeOK, Balance
  PROVE  /\ pods' \in Nat
         /\ Desired > pods => pods < pods' /\ pods' <= Desired
         /\ Desired < pods => Desired <= pods' /\ pods' < pods
         /\ Desired # pods
<1>1. /\ case.low \in OptionalNat /\ case.high \in OptionalNat /\ case.step \in OptionalNat
      /\ pods \in Nat /\ case.rps \in Nat /\ case.target \in Nat \ {0}
  BY DEF TypeOK, Case
<1>2. Decided = Desired /\ Desired # pods
  <2>1. /\ Decided # None
        /\ Desired \in Nat
    BY DesiredType DEF Balance
  <2> QED
    BY <1>1, <2>1 DEF Decided, Desired, AssessScaling
<1>3. CeilDiv(case.rps, case.target) \in Nat
  BY <1>1, CeilDivCovers
<1>4. Clamp(Desired, case.low, case.high) = Desired
  BY <1>1, <1>3, ClampIdempotent DEF Desired, DesiredPods
<1>5. pods' = ClampReplicas(Desired, pods, case.low, case.high, case.step)
  BY <1>2 DEF Balance, Applied
<1> QED
  BY <1>1, <1>2, <1>4, <1>5, DesiredType, ClampReplicasApproaches

LEMMA SurgeApproaches ==
  ASSUME TypeOK, Surge
  PROVE  pods' \in Nat /\ pods' > pods
<1>1. /\ case.low \in OptionalNat /\ case.high \in OptionalNat /\ case.step \in OptionalNat
      /\ pods \in Nat /\ case.rps \in Nat /\ case.target \in Nat \ {0}
  BY DEF TypeOK, Case
<1>2. CeilDiv(case.rps, case.target) \in Nat
  BY <1>1, CeilDivCovers
<1> DEFINE loaded == case.rps # None /\ case.target # None /\ case.target # 0
           wanted == IF loaded THEN Larger(pods + 1, CeilDiv(case.rps, case.target))
                     ELSE pods + 1
<1>3. wanted \in Nat
  BY <1>1, <1>2 DEF Larger
<1>4. Capacity = Clamp(wanted, case.low, case.high)
  BY DEF Surge, Capacity, CapacityTarget
<1> HIDE DEF wanted
<1>5. /\ Capacity \in Nat
      /\ Clamp(Capacity, case.low, case.high) = Capacity
  BY <1>1, <1>3, <1>4, ClampType, ClampIdempotent
<1>6. Capacity > pods /\ pods' = ClampReplicas(Capacity, pods, case.low, case.high, case.step)
  BY DEF Surge, Applied
<1> QED
  BY <1>1, <1>5, <1>6, ClampReplicasApproaches

\* Inv is inductive: no step loses the type of a variable, and the side of the
\* target the count is on changes only at the target.
THEOREM LoopInvariant == Spec => []Inv
<1>1. Init => Inv
  BY CasesAssumption DEF Init, Inv, TypeOK, HeadingInv, Case
<1>2. Inv /\ [Next]_vars => Inv'
  <2> SUFFICES ASSUME Inv, [Next]_vars
               PROVE  Inv'
    OBVIOUS
  <2>1. CASE Balance
    <3>1. pods \in Nat /\ Desired \in Nat
      BY DesiredType DEF Inv, TypeOK
    <3>2. Desired' = Desired /\ case' = case
      BY <2>1 DEF Balance, Desired
    <3>3. heading' = IF pods' > pods THEN "up" ELSE "down"
      BY <2>1 DEF Balance
    <3> QED
      BY <2>1, <3>1, <3>2, <3>3, BalanceApproaches DEF Inv, TypeOK, HeadingInv
  <2>2. CASE Surge
    BY <2>2, SurgeApproaches DEF Inv, TypeOK, HeadingInv, Surge
  <2>3. CASE UNCHANGED vars
    BY <2>3 DEF Inv, TypeOK, HeadingInv, Desired, vars
  <2> QED
    BY <2>1, <2>2, <2>3 DEF Next
<1> QED
  BY <1>1, <1>2, PTL DEF Spec

\* The loop's variables keep their types.
THEOREM LoopTypeCorrect == Spec => []TypeOK
<1>1. Inv => TypeOK
  BY DEF Inv
<1> QED
  BY <1>1, LoopInvariant, PTL

\* Under one load, no cycle undoes what an earlier one did.
THEOREM LoopNeverReverses == Spec => NoReversal
<1> DEFINE Step == Balance => /\ heading = "up"   => pods' > pods
                              /\ heading = "down" => pods' < pods
<1>1. Inv => Step
  <2> SUFFICES ASSUME Inv, Balance PROVE Step
    OBVIOUS
  <2>1. TypeOK /\ HeadingInv /\ Desired \in Nat /\ pods \in Nat
    BY DesiredType DEF Inv, TypeOK
  <2> QED
    BY <2>1, BalanceApproaches DEF HeadingInv
<1> QED
  BY <1>1, LoopInvariant, PTL DEF NoReversal

\* Scaling down keeps enough pods for the load, or as many as maxReplicas allows.
THEOREM LoopKeepsCapacity == Spec => DownKeepsCapacity
<1> DEFINE Enough == \/ case.rps <= case.target * pods'
                     \/ case.high # None /\ pods' >= case.high
<1>1. Inv => (Balance /\ pods' < pods => Enough)
  <2> SUFFICES ASSUME Inv, Balance, pods' < pods PROVE Enough
    OBVIOUS
  <2>1. /\ TypeOK /\ Desired \in Nat /\ pods \in Nat /\ case.rps \in Nat
        /\ case.target \in Nat \ {0} /\ case.low \in OptionalNat /\ case.high \in OptionalNat
    BY DesiredType DEF Inv, TypeOK, Case
  <2>2. pods' \in Nat /\ Desired <= pods'
    BY <2>1, BalanceApproaches
  <2> DEFINE enough == CeilDiv(case.rps, case.target)
  <2>3. enough \in Nat /\ case.rps <= case.target * enough
    BY <2>1, CeilDivCovers
  <2> HIDE DEF enough
  <2>4. Desired = Clamp(enough, case.low, case.high)
    BY DEF Desired, DesiredPods, enough
  <2>5. enough <= Desired \/ (case.high # None /\ Desired = case.high)
    BY <2>1, <2>3, <2>4, NoneAssumption DEF Clamp, Larger, Smaller, OptionalNat
  <2>6. CASE enough <= Desired
    <3>1. enough <= pods'
      BY <2>1, <2>2, <2>3, <2>6
    <3>2. case.target * enough <= case.target * pods'
      BY <2>1, <2>2, <2>3, <3>1, SMTT(30)
    <3> QED
      BY <2>1, <2>2, <2>3, <3>2, SMTT(30)
  <2>7. CASE case.high # None /\ Desired = case.high
    BY <2>2, <2>7
  <2> QED
    BY <2>5, <2>6, <2>7
<1> QED
  BY <1>1, LoopInvariant, PTL DEF DownKeepsCapacity

\* An anomaly nobody is to blame for always ends in more pods.
THEOREM LoopSurgeAdds == Spec => SurgeAdds
<1>1. Inv => (Surge => pods' > pods)
  BY SurgeApproaches DEF Inv
<1> QED
  BY <1>1, LoopInvariant, PTL DEF SurgeAdds
============================================================================
