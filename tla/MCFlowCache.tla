---------------------------- MODULE MCFlowCache ----------------------------
(***************************************************************************)
(* Three viewers of the dashboard.  The shipped values are a timeout of 10 *)
(* seconds and a TTL of 6; the ratio is what matters.                      *)
(***************************************************************************)
EXTENDS FlowCache, TLC

CONSTANTS r1, r2, r3

Viewers  == {r1, r2, r3}
Symmetry == Permutations(Viewers)
============================================================================
