--------------------------- MODULE SessionManager ---------------------------
(***************************************************************************)
(* The map from vehicles to connections                                    *)
(* (internal/usecase/gbt32960/session_manager.go), at the granularity of   *)
(* its accesses to the sync.Map: each operation below is one atomic step,  *)
(* and the methods that access the map or a session twice are two steps    *)
(* with the pointer they carry between them in "held".                     *)
(*                                                                         *)
(* The modules Handler and SessionSweep say which caller takes which step  *)
(* when.  A session is the number of its Store, so a greater number is a   *)
(* later registration.                                                     *)
(***************************************************************************)
EXTENDS Naturals, Sequences, FiniteSets

CONSTANTS Callers,     \* goroutines that call the session manager
          Vins,        \* vehicles
          Conns,       \* connections a session may name
          MaxSessions, \* bound of the model: sessions ever stored
          Delay        \* how stale time.Now() may be when its value is written

ASSUME MaxSessionsAssumption == MaxSessions \in Nat
ASSUME DelayAssumption == Delay \in Nat
ASSUME CallersFinite == IsFiniteSet(Callers)

VARIABLES sessions, \* the sync.Map: VIN -> session, or NoSession
          heap,     \* the Session objects, in the order they were stored
          removed,  \* sessions LoadAndDelete has handed to a Remove
          closeReq, \* connections on which Remove has called Close
          doing,    \* which two-step method a caller is in the middle of
          held,     \* the session pointer that method has loaded
          clock     \* the time

smVars == <<sessions, heap, removed, closeReq, doing, held, clock>>

NoSession == 0
Allocated == 1 .. Len(heap)

\* What time.Now() may have returned by the time its value is written.
Now == {t \in 0 .. clock : clock <= t + Delay}

SMTypeOK ==
    /\ heap \in Seq([vin : Vins, conn : Conns, lastActive : Nat])
    /\ Len(heap) <= MaxSessions
    /\ sessions \in [Vins -> Allocated \cup {NoSession}]
    /\ removed \subseteq Allocated
    /\ closeReq \subseteq Conns
    /\ doing \in [Callers -> {"none", "close", "touch"}]
    /\ held \in [Callers -> Allocated \cup {NoSession}]
    /\ clock \in Nat

SMInit == /\ sessions = [v \in Vins |-> NoSession]
          /\ heap = <<>>
          /\ removed = {}
          /\ closeReq = {}
          /\ doing = [c \in Callers |-> "none"]
          /\ held = [c \in Callers |-> NoSession]
          /\ clock = 0

-----------------------------------------------------------------------------
(* Get: the answer is part of the caller's guard.                          *)
Registered(vin) == sessions[vin] # NoSession

\* Mutant of Add: LoadOrStore, which keeps the session that is there.
AddIfAbsent(vin, conn) ==
    /\ Len(heap) < MaxSessions
    /\ \E t \in Now :
           heap' = Append(heap, [vin |-> vin, conn |-> conn, lastActive |-> t])
    /\ sessions' = [sessions EXCEPT ![vin] = IF @ = NoSession THEN Len(heap') ELSE @]
    /\ UNCHANGED <<removed, closeReq, doing, held, clock>>

(* Add: a new Session object is stored, whatever was there before.         *)
Add(vin, conn) ==
    /\ Len(heap) < MaxSessions
    /\ \E t \in Now :
           heap' = Append(heap, [vin |-> vin, conn |-> conn, lastActive |-> t])
    /\ sessions' = [sessions EXCEPT ![vin] = Len(heap')]
    /\ UNCHANGED <<removed, closeReq, doing, held, clock>>

\* Mutants of LoadAndDelete: the ok result is ignored; Load without Delete.
LoadAndDeleteUnchecked(caller, vin) ==
    /\ sessions' = [sessions EXCEPT ![vin] = NoSession]
    /\ removed' = removed \cup {sessions[vin]}
    /\ held' = [held EXCEPT ![caller] = sessions[vin]]
    /\ doing' = [doing EXCEPT ![caller] = "close"]
    /\ UNCHANGED <<heap, closeReq, clock>>

LoadWithoutDelete(caller, vin) ==
    /\ IF Registered(vin)
       THEN /\ removed' = removed \cup {sessions[vin]}
            /\ held' = [held EXCEPT ![caller] = sessions[vin]]
            /\ doing' = [doing EXCEPT ![caller] = "close"]
       ELSE UNCHANGED <<removed, held, doing>>
    /\ UNCHANGED <<sessions, heap, closeReq, clock>>

(* Remove, first half: LoadAndDelete.  Nothing follows when it misses.     *)
LoadAndDelete(caller, vin) ==
    /\ sessions' = [sessions EXCEPT ![vin] = NoSession]
    /\ IF Registered(vin)
       THEN /\ removed' = removed \cup {sessions[vin]}
            /\ held' = [held EXCEPT ![caller] = sessions[vin]]
            /\ doing' = [doing EXCEPT ![caller] = "close"]
       ELSE UNCHANGED <<removed, held, doing>>
    /\ UNCHANGED <<heap, closeReq, clock>>

\* Mutant of CloseRemoved: the connection is left open.
CloseForgotten(caller) ==
    /\ doing[caller] = "close"
    /\ doing' = [doing EXCEPT ![caller] = "none"]
    /\ held' = [held EXCEPT ![caller] = NoSession]
    /\ UNCHANGED <<sessions, heap, removed, closeReq, clock>>

(* Remove, second half: sess.Conn.Close() on the session it took out.      *)
CloseRemoved(caller) ==
    /\ doing[caller] = "close"
    /\ closeReq' = closeReq \cup {heap[held[caller]].conn}
    /\ doing' = [doing EXCEPT ![caller] = "none"]
    /\ held' = [held EXCEPT ![caller] = NoSession]
    /\ UNCHANGED <<sessions, heap, removed, clock>>

(* UpdateLastActive, first half: the pointer is loaded.                    *)
TouchLoad(caller, vin) ==
    /\ IF Registered(vin)
       THEN /\ held' = [held EXCEPT ![caller] = sessions[vin]]
            /\ doing' = [doing EXCEPT ![caller] = "touch"]
       ELSE UNCHANGED <<held, doing>>
    /\ UNCHANGED <<sessions, heap, removed, closeReq, clock>>

\* Mutant of TouchStore: the refreshed session is stored again, which undoes
\* a removal or a newer registration in between.
TouchStoreBack(caller) ==
    /\ doing[caller] = "touch"
    /\ \E t \in Now : heap' = [heap EXCEPT ![held[caller]].lastActive = t]
    /\ sessions' = [sessions EXCEPT ![heap[held[caller]].vin] = held[caller]]
    /\ doing' = [doing EXCEPT ![caller] = "none"]
    /\ held' = [held EXCEPT ![caller] = NoSession]
    /\ UNCHANGED <<removed, closeReq, clock>>

(* UpdateLastActive, second half: the time is written through the pointer. *)
(* The field is written and read without a lock; readers subtract only its *)
(* monotonic word, so they see the old or the new time.                    *)
TouchStore(caller) ==
    /\ doing[caller] = "touch"
    /\ \E t \in Now : heap' = [heap EXCEPT ![held[caller]].lastActive = t]
    /\ doing' = [doing EXCEPT ![caller] = "none"]
    /\ held' = [held EXCEPT ![caller] = NoSession]
    /\ UNCHANGED <<sessions, removed, closeReq, clock>>

-----------------------------------------------------------------------------
(* What must hold of the map whoever calls it.                             *)

(* No registration is lost and none comes back: the map holds a vehicle's  *)
(* last stored session, until that one is removed (Store and LoadAndDelete *)
(* at session_manager.go:46 and :52 are single accesses of the sync.Map).  *)
LatestWins ==
    \A vin \in Vins :
        LET stored == {s \in Allocated : heap[s].vin = vin}
        IN  IF stored = {}
            THEN sessions[vin] = NoSession
            ELSE \E last \in stored :
                     /\ \A s \in stored : s <= last
                     /\ sessions[vin] = IF last \in removed THEN NoSession ELSE last

(* A connection is asked to close exactly for the sessions taken out of    *)
(* the map: each of them has had its connection closed, or is in the hands *)
(* of the one Remove that took it out; and nobody else is cut off.         *)
CloseMatchesRemoval ==
    /\ \A s \in removed :
           \/ heap[s].conn \in closeReq
           \/ \E c \in Callers : doing[c] = "close" /\ held[c] = s
    /\ \A conn \in closeReq : \E s \in removed : heap[s].conn = conn
    /\ \A c, d \in Callers :
           doing[c] = "close" /\ doing[d] = "close" /\ held[c] = held[d] => c = d
(* Whatever its callers do between two halves of a method, the session     *)
(* manager works like a table whose operations happen at once: a write     *)
(* through an old pointer never reaches a newer registration of the same   *)
(* vehicle, a time written late is never more than the write's own delay   *)
(* old, and each removal closes the connection it found, once              *)
(* (session_manager.go:41-66).                                             *)
Entry == [v \in Vins |->
              {[conn |-> heap[s].conn, seen |-> heap[s].lastActive] :
                   s \in {sessions[v]} \ {NoSession}}]

Closing(conn) == {c \in Callers : doing[c] = "close" /\ heap[held[c]].conn = conn}
Owed == [conn \in Conns |-> Cardinality(Closing(conn))]

Table == INSTANCE SessionTable
             WITH entry <- Entry, owed <- Owed, shut <- closeReq, stored <- Len(heap)

ImplementsTable == Table!Spec
=============================================================================
