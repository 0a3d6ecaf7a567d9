----------------------------- MODULE MCHandler ------------------------------
(* The handler with a few connections and vehicles, for TLC.               *)
EXTENDS Handler
=============================================================================
