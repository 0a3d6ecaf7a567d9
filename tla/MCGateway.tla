----------------------------- MODULE MCGateway -----------------------------
(* The process with a handful of loops, workers and items, for TLC.        *)
EXTENDS Gateway
=============================================================================
