------------------------- MODULE RecoveryLifecycle -------------------------
(***************************************************************************)
(* What policy/engine.py promises about an isolation (FINDING-1 and the    *)
(* comments of _carry_backend_weights and _recovery_state): it is kept in  *)
(* mind until the weights have been reissued as often as the recovery      *)
(* needs.  Nothing else ends it; a new isolation starts the count afresh.  *)
(***************************************************************************)
EXTENDS Integers

CONSTANT MaxReissues     \* reissues from weight 0 back to full weight

VARIABLES
  stage,     \* "clear", "isolated" or "recovering"
  left       \* reissues still owed

vars == <<stage, left>>

Init == stage = "clear" /\ left = 0

Isolate ==
  /\ stage' = "isolated"
  /\ left' \in 1..MaxReissues

Reissue ==
  /\ stage # "clear"
  /\ left' = left - 1
  /\ stage' = IF left' = 0 THEN "clear" ELSE "recovering"

Next == Isolate \/ Reissue

Spec == Init /\ [][Next]_vars
============================================================================
