---------------------------- MODULE SessionSweep ----------------------------
(***************************************************************************)
(* CheckHeartbeat against arbitrary callers of the session manager: while  *)
(* one goroutine ranges over the sessions and removes the expired ones,    *)
(* others log vehicles in, log them out and refresh them.                  *)
(***************************************************************************)
EXTENDS SessionManager

CONSTANTS Sweeper,  \* the goroutine that runs CheckHeartbeat
          Timeout,  \* its argument
          MaxClock  \* bound of the model: how far time goes

ASSUME SweeperAssumption == Sweeper \in Callers
ASSUME TimeoutAssumption == Timeout \in Nat
ASSUME MaxClockAssumption == MaxClock \in Nat

VARIABLES sweep,     \* "idle", "ranging" or "removing"
          sweepNow,  \* now := time.Now(), read once
          sweepBase, \* sessions that existed when Range began
          todo,      \* keys Range has not visited yet
          victim,    \* session the callback has judged expired
          touched    \* history: those of them refreshed since

sweepVars == <<sweep, sweepNow, sweepBase, todo, victim, touched>>
vars == <<smVars, sweepVars>>

TypeOK == /\ SMTypeOK
          /\ sweep \in {"idle", "ranging", "removing"}
          /\ sweepNow \in Nat
          /\ sweepBase \in 0 .. Len(heap)
          /\ todo \subseteq Vins
          /\ victim \in Allocated \cup {NoSession}
          /\ touched \subseteq Allocated

Init == /\ SMInit
        /\ sweep = "idle"
        /\ sweepNow = 0
        /\ sweepBase = 0
        /\ todo = {}
        /\ victim = NoSession
        /\ touched = {}

Expired(s) == sweepNow > heap[s].lastActive + Timeout

-----------------------------------------------------------------------------
(* The other callers, in any order.                                        *)

Free(c) == c # Sweeper /\ doing[c] = "none"

Register(vin, conn) == Add(vin, conn) /\ UNCHANGED sweepVars

StartRemove(c, vin) == Free(c) /\ LoadAndDelete(c, vin) /\ UNCHANGED sweepVars

FinishRemove(c) == c # Sweeper /\ CloseRemoved(c) /\ UNCHANGED sweepVars

StartTouch(c, vin) == Free(c) /\ TouchLoad(c, vin) /\ UNCHANGED sweepVars

FinishTouch(c) == /\ c # Sweeper
                  /\ TouchStore(c)
                  /\ touched' = touched \cup ({held[c]} \cap 1 .. sweepBase)
                  /\ UNCHANGED <<sweep, sweepNow, sweepBase, todo, victim>>

Tick == /\ clock < MaxClock
        /\ clock' = clock + 1
        /\ UNCHANGED <<sessions, heap, removed, closeReq, doing, held, sweepVars>>

-----------------------------------------------------------------------------
(* CheckHeartbeat.  Range visits every key that stays in the map, each at  *)
(* most once, and sees the value it has when visited.                      *)

SweepStart == /\ sweep = "idle"
              /\ sweep' = "ranging"
              /\ sweepNow' = clock
              /\ sweepBase' = Len(heap)
              /\ todo' = Vins
              /\ UNCHANGED <<smVars, victim, touched>>

\* A key that is absent, or was stored after Range began, may be passed over.
SweepSkip(vin) == /\ sweep = "ranging" /\ doing[Sweeper] = "none"
                  /\ vin \in todo
                  /\ sessions[vin] = NoSession \/ sessions[vin] > sweepBase
                  /\ todo' = todo \ {vin}
                  /\ UNCHANGED <<smVars, sweep, sweepNow, sweepBase, victim, touched>>

\* Mutant of SweepVisit: the callback returns false, which ends the Range,
\* at the first session that is still alive.
SweepVisitStops(vin) == /\ sweep = "ranging" /\ doing[Sweeper] = "none"
                        /\ vin \in todo
                        /\ Registered(vin)
                        /\ IF Expired(sessions[vin])
                           THEN /\ sweep' = "removing" /\ victim' = sessions[vin]
                                /\ todo' = todo \ {vin}
                           ELSE todo' = {} /\ UNCHANGED <<sweep, victim>>
                        /\ UNCHANGED <<smVars, sweepNow, sweepBase, touched>>

\* The callback compares the session's last activity with now.
SweepVisit(vin) == /\ sweep = "ranging" /\ doing[Sweeper] = "none"
                   /\ vin \in todo
                   /\ Registered(vin)
                   /\ todo' = todo \ {vin}
                   /\ IF Expired(sessions[vin])
                      THEN sweep' = "removing" /\ victim' = sessions[vin]
                      ELSE UNCHANGED <<sweep, victim>>
                   /\ UNCHANGED <<smVars, sweepNow, sweepBase, touched>>

\* sm.Remove(sess.VIN): by name, so it takes whatever is there by now.
SweepRemove == /\ sweep = "removing"
               /\ LoadAndDelete(Sweeper, heap[victim].vin)
               /\ sweep' = "ranging"
               /\ victim' = NoSession
               /\ UNCHANGED <<sweepNow, sweepBase, todo, touched>>

SweepClose == sweep = "ranging" /\ CloseRemoved(Sweeper) /\ UNCHANGED sweepVars

SweepEnd == /\ sweep = "ranging" /\ doing[Sweeper] = "none"
            /\ todo = {}
            /\ sweep' = "idle"
            /\ sweepNow' = 0 /\ sweepBase' = 0 /\ touched' = {}
            /\ UNCHANGED <<smVars, todo, victim>>

-----------------------------------------------------------------------------
Sweep == \/ SweepStart
         \/ \E vin \in Vins : SweepSkip(vin) \/ SweepVisit(vin)
         \/ SweepRemove
         \/ SweepClose
         \/ SweepEnd

Others == \/ \E vin \in Vins, conn \in Conns : Register(vin, conn)
          \/ \E c \in Callers, vin \in Vins : StartRemove(c, vin) \/ StartTouch(c, vin)
          \/ \E c \in Callers : FinishRemove(c) \/ FinishTouch(c)
          \/ Tick

Next == Sweep \/ Others

Spec == Init /\ [][Next]_vars

-----------------------------------------------------------------------------
(* Correctness.                                                            *)

(* A sweep is complete: of the sessions that existed when it began and     *)
(* that nobody refreshed meanwhile, it leaves none expired on the keys it  *)
(* has passed (session_manager.go:76-87), whatever else goes on.           *)
SweepLeavesNoExpired ==
    \A vin \in Vins \ todo :
        LET s == sessions[vin]
        IN  s \in 1 .. sweepBase \ touched /\ s # victim => ~Expired(s)

(* "Checks for expired sessions and closes them": the session a sweep      *)
(* removes is one that has expired (comment at session_manager.go:76).     *)
SweepClosesOnlyExpired ==
    [][SweepRemove => removed' = removed \/ \E s \in removed' \ removed : Expired(s)]_vars
=============================================================================
