-------------------------- MODULE MCRealTimeReport --------------------------
(* Real-time reports of a few units, for TLC.                              *)
EXTENDS RealTimeReport
=============================================================================
