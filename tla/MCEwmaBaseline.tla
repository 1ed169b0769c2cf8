--------------------------- MODULE MCEwmaBaseline ---------------------------
(***************************************************************************)
(* Constants for checking EwmaBaseline: values of 0, of the usual, a       *)
(* little and far above it, and snapshots without a latency.               *)
(***************************************************************************)
EXTENDS EwmaBaseline

MCErrorRates == {0, 1, 2, 4}
MCLatencies  == {None, 1, 4}
============================================================================
