---------------------------- MODULE MCIsolation ----------------------------
(***************************************************************************)
(* MCReconcile where every anomaly is one that is answered by an isolation.*)
(***************************************************************************)
EXTENDS MCReconcile

ASSUME IsolationAssumption == EveryAnomalyIsolated
============================================================================
