---------------------------- MODULE SessionTable ----------------------------
(***************************************************************************)
(* What the session manager promises its callers, without pointers, locks  *)
(* or half-finished methods: a table from vehicles to the connection and   *)
(* the time each was last heard of, whose operations happen at once.  A    *)
(* removal leaves behind the duty to close the connection it found, to be  *)
(* discharged later, once for each removal and never without one.          *)
(***************************************************************************)
EXTENDS Naturals

CONSTANTS Vins,  \* vehicles
          Conns, \* connections
          Delay  \* how old the time in an entry may be when it is written

VARIABLES entry,  \* vehicle -> {its entry}, or {}
          owed,   \* connection -> how many removals have yet to close it
          shut,   \* connections that have been told to close
          stored, \* number of registrations so far
          clock   \* the time

vars == <<entry, owed, shut, stored, clock>>

Init == /\ entry = [v \in Vins |-> {}]
        /\ owed = [c \in Conns |-> 0]
        /\ shut = {}
        /\ stored = 0
        /\ clock = 0

Recent == {t \in 0 .. clock : clock <= t + Delay}

\* The newest registration wins, and nothing else makes an entry.
Register(v, c) ==
    /\ \E t \in Recent : entry' = [entry EXCEPT ![v] = {[conn |-> c, seen |-> t]}]
    /\ stored' = stored + 1
    /\ UNCHANGED <<owed, shut, clock>>

\* A refresh keeps the connection and makes the time recent.
Refresh(v) ==
    /\ \E e \in entry[v], t \in Recent :
           entry' = [entry EXCEPT ![v] = {[conn |-> e.conn, seen |-> t]}]
    /\ UNCHANGED <<owed, shut, stored, clock>>

Remove(v) ==
    /\ \E e \in entry[v] : owed' = [owed EXCEPT ![e.conn] = @ + 1]
    /\ entry' = [entry EXCEPT ![v] = {}]
    /\ UNCHANGED <<shut, stored, clock>>

Disconnect(c) ==
    /\ owed[c] > 0
    /\ owed' = [owed EXCEPT ![c] = @ - 1]
    /\ shut' = shut \cup {c}
    /\ UNCHANGED <<entry, stored, clock>>

Tick == clock' = clock + 1 /\ UNCHANGED <<entry, owed, shut, stored>>

Next == \/ \E v \in Vins : Refresh(v) \/ Remove(v) \/ \E c \in Conns : Register(v, c)
        \/ \E c \in Conns : Disconnect(c)
        \/ Tick

Spec == Init /\ [][Next]_vars
=============================================================================
