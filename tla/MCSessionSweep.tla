--------------------------- MODULE MCSessionSweep ---------------------------
(* CheckHeartbeat on a few sessions, for TLC.                              *)
EXTENDS SessionSweep, TLC

\* The other callers, the vehicles and the connections are interchangeable.
SweepSymmetry ==
    Permutations(Callers \ {Sweeper}) \cup Permutations(Vins) \cup Permutations(Conns)
=============================================================================
