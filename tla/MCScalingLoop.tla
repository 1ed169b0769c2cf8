--------------------------- MODULE MCScalingLoop ---------------------------
(***************************************************************************)
(* Every combination of small loads, thresholds and limits, misconfigured  *)
(* ones (minReplicas above maxReplicas, scaleDown above target) included.  *)
(***************************************************************************)
EXTENDS ScalingLoop

SmallCases ==
  [rps : 0..10, target : 1..3, scaleDown : {None, 1, 3},
   low : {None, 0, 2}, high : {None, 1, 4}, step : {None, 0, 1, 2}, pods : 0..5]
============================================================================
