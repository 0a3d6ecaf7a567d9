------------------------- MODULE SessionSweepProofs -------------------------
(* CheckHeartbeat's safety, proved for every set of callers, vehicles and  *)
(* connections, every timeout and every delay between clock and write.     *)
EXTENDS SessionSweep, SessionManagerProofs

\* The sweeper is in one place at a time.
SweepControl ==
    /\ sweep = "removing" => victim \in Allocated /\ doing[Sweeper] = "none"
    /\ sweep # "removing" => victim = NoSession
    /\ sweep = "idle" => sweepBase = 0 /\ doing[Sweeper] = "none"
    /\ doing[Sweeper] # "touch"

IInv == SMInv /\ TypeOK /\ SweepControl /\ SweepLeavesNoExpired

\* Before the first sweep nothing has been passed.
LEMMA InitIInv == Init => IInv
<1> SUFFICES ASSUME Init PROVE IInv
  OBVIOUS
<1>1. SMInv /\ SMTypeOK
  BY SMInitInv DEF Init, SMInv
<1>2. TypeOK
  <2>1. Len(heap) = 0
    BY EmptySeq DEF Init, SMInit
  <2> QED BY <1>1, <2>1 DEF Init, TypeOK
<1>3. SweepControl
  BY SweeperAssumption DEF Init, SMInit, SweepControl
<1>4. SweepLeavesNoExpired
  BY DEF Init, SweepLeavesNoExpired
<1> QED BY <1>1, <1>2, <1>3, <1>4 DEF IInv

\* A new registration is not one the sweep has to answer for.
LEMMA RegisterKeepsIInv ==
    ASSUME IInv, NEW v \in Vins, NEW k \in Conns, Register(v, k)
    PROVE  IInv'
<1>1. SMInv /\ SMTypeOK /\ TypeOK /\ SweepControl /\ SweepLeavesNoExpired
  BY DEF IInv, SMInv
<1>2. Add(v, k) /\ UNCHANGED <<sweep, sweepNow, sweepBase, todo, victim, touched>>
  BY DEF Register, sweepVars
<1>3. SMInv' /\ SMTypeOK' /\ sessions'[v] = Len(heap) + 1 /\ Len(heap') = Len(heap) + 1
  BY <1>1, <1>2, AddKeepsSMInv DEF SMInv
<1>4. /\ \A s \in Allocated : heap'[s] = heap[s]
      /\ \A u \in Vins : u # v => sessions'[u] = sessions[u]
      /\ UNCHANGED doing
      /\ Len(heap) \in Nat
  <2>1. PICK t \in Now : heap' = Append(heap, [vin |-> v, conn |-> k, lastActive |-> t])
    BY <1>2 DEF Add
  <2>2. heap \in Seq(Sessions) /\ [vin |-> v, conn |-> k, lastActive |-> t] \in Sessions
    BY <1>1 DEF SMTypeOK, Sessions, Now
  <2>3. \A s \in Allocated : heap'[s] = heap[s]
    BY <2>1, <2>2, AppendProperties DEF Allocated
  <2> QED BY <1>1, <1>2, <2>2, <2>3, LenProperties DEF Add, SMTypeOK
<1>5. Allocated \subseteq Allocated' /\ sweepBase \in 0 .. Len(heap) /\ 1 .. sweepBase \subseteq Allocated
  BY <1>1, <1>3, <1>4 DEF Allocated, TypeOK
<1>6. TypeOK'
  BY <1>1, <1>2, <1>3, <1>4, <1>5 DEF TypeOK
<1>7. SweepControl'
  BY <1>1, <1>2, <1>4, <1>5 DEF SweepControl
<1>8. SweepLeavesNoExpired'
  <2>1. \A s \in 1 .. sweepBase : Expired(s)' <=> Expired(s)
    BY <1>2, <1>4, <1>5 DEF Expired
  <2>2. Len(heap) + 1 \notin 1 .. sweepBase
    BY <1>4, <1>5
  <2> QED BY <1>1, <1>2, <1>3, <1>4, <2>1, <2>2 DEF SweepLeavesNoExpired
<1> QED BY <1>3, <1>6, <1>7, <1>8 DEF IInv

\* The first halves of the other callers' methods.
LEMMA StartKeepsIInv ==
    ASSUME IInv, NEW c \in Callers, NEW v \in Vins,
           StartRemove(c, v) \/ StartTouch(c, v)
    PROVE  IInv'
<1>1. SMInv /\ SMTypeOK /\ TypeOK /\ SweepControl /\ SweepLeavesNoExpired
  BY DEF IInv, SMInv
<1>2. /\ c # Sweeper /\ doing[c] = "none"
      /\ LoadAndDelete(c, v) \/ TouchLoad(c, v)
      /\ UNCHANGED <<sweep, sweepNow, sweepBase, todo, victim, touched>>
  BY DEF StartRemove, StartTouch, Free, sweepVars
<1>3. SMInv' /\ SMTypeOK'
  BY <1>1, <1>2, LoadAndDeleteKeepsSMInv, TouchLoadKeepsSMInv DEF SMInv
<1>4. /\ heap' = heap
      /\ \A u \in Vins : sessions'[u] \in {sessions[u], NoSession}
      /\ doing'[Sweeper] = doing[Sweeper]
  BY <1>1, <1>2, SweeperAssumption DEF LoadAndDelete, TouchLoad, SMTypeOK
<1>5. TypeOK' /\ SweepControl'
  <2>1. Allocated' = Allocated
    BY <1>4 DEF Allocated
  <2>2. TypeOK'
    BY <1>1, <1>2, <1>3, <1>4, <2>1 DEF TypeOK
  <2>3. SweepControl'
    BY <1>1, <1>2, <1>4, <2>1 DEF SweepControl
  <2> QED BY <2>2, <2>3
<1>6. SweepLeavesNoExpired'
  <2>1. NoSession \notin 1 .. sweepBase
    BY DEF NoSession
  <2> QED BY <1>1, <1>2, <1>4, <2>1 DEF SweepLeavesNoExpired, Expired
<1> QED BY <1>3, <1>5, <1>6 DEF IInv

\* Closing a connection changes neither the table nor a session.
LEMMA FinishRemoveKeepsIInv ==
    ASSUME IInv, NEW c \in Callers, FinishRemove(c)
    PROVE  IInv'
<1>1. SMInv /\ SMTypeOK /\ TypeOK /\ SweepControl /\ SweepLeavesNoExpired
  BY DEF IInv, SMInv
<1>2. /\ c # Sweeper /\ CloseRemoved(c)
      /\ UNCHANGED <<sweep, sweepNow, sweepBase, todo, victim, touched>>
  BY DEF FinishRemove, sweepVars
<1>3. SMInv' /\ SMTypeOK'
  BY <1>1, <1>2, CloseRemovedKeepsSMInv DEF SMInv
<1>4. UNCHANGED <<heap, sessions>> /\ doing'[Sweeper] = doing[Sweeper]
  BY <1>1, <1>2, SweeperAssumption DEF CloseRemoved, SMTypeOK
<1>5. Allocated' = Allocated
  BY <1>4 DEF Allocated
<1>6. TypeOK'
  BY <1>1, <1>2, <1>3, <1>4, <1>5 DEF TypeOK
<1>7. SweepControl'
  BY <1>1, <1>2, <1>4, <1>5 DEF SweepControl
<1>8. SweepLeavesNoExpired'
  BY <1>1, <1>2, <1>4 DEF SweepLeavesNoExpired, Expired
<1> QED BY <1>3, <1>6, <1>7, <1>8 DEF IInv

\* A refreshed session is no longer the sweep's to answer for.
LEMMA FinishTouchKeepsIInv ==
    ASSUME IInv, NEW c \in Callers, FinishTouch(c)
    PROVE  IInv'
<1>1. SMInv /\ SMTypeOK /\ TypeOK /\ SweepControl /\ SweepLeavesNoExpired
  BY DEF IInv, SMInv
<1>2. /\ c # Sweeper /\ TouchStore(c)
      /\ touched' = touched \cup ({held[c]} \cap 1 .. sweepBase)
      /\ UNCHANGED <<sweep, sweepNow, sweepBase, todo, victim>>
  BY DEF FinishTouch
<1>3. /\ SMInv' /\ SMTypeOK'
      /\ held[c] \in Allocated /\ Allocated' = Allocated /\ Len(heap') = Len(heap)
      /\ \A s \in Allocated : s # held[c] => heap'[s] = heap[s]
  BY <1>1, <1>2, TouchStoreKeepsSMInv DEF SMInv
<1>4. sessions' = sessions /\ doing'[Sweeper] = doing[Sweeper]
  BY <1>1, <1>2, SweeperAssumption DEF TouchStore, SMTypeOK
<1>5. TypeOK'
  BY <1>1, <1>2, <1>3 DEF TypeOK
<1>6. SweepControl'
  BY <1>1, <1>2, <1>3, <1>4 DEF SweepControl
<1>7. SweepLeavesNoExpired'
  <2>1. 1 .. sweepBase \subseteq Allocated
    BY <1>1, HeapFacts DEF TypeOK, Allocated
  <2>2. \A s \in 1 .. sweepBase \ touched' : heap'[s] = heap[s]
    BY <1>2, <1>3, <2>1
  <2> QED BY <1>1, <1>2, <1>4, <2>2 DEF SweepLeavesNoExpired, Expired
<1> QED BY <1>3, <1>5, <1>6, <1>7 DEF IInv

\* The sweep reads the time once, so its verdicts do not age.
LEMMA TickKeepsIInv == IInv /\ Tick => IInv'
<1> SUFFICES ASSUME IInv, Tick PROVE IInv'
  OBVIOUS
<1>1. SMInv /\ TypeOK /\ SweepControl /\ SweepLeavesNoExpired
  BY DEF IInv
<1>2. /\ UNCHANGED <<sessions, heap, removed, closeReq, doing, held>>
      /\ UNCHANGED <<sweep, sweepNow, sweepBase, todo, victim, touched>>
      /\ clock' \in Nat
  BY <1>1 DEF Tick, sweepVars, TypeOK, SMTypeOK
<1>3. SMInv' /\ SMTypeOK' /\ Allocated' = Allocated
  BY <1>1, <1>2, RestKeepsSMInv DEF SMInv, Allocated
<1>4. TypeOK'
  BY <1>1, <1>2, <1>3 DEF TypeOK
<1>5. SweepControl'
  BY <1>1, <1>2, <1>3 DEF SweepControl
<1>6. SweepLeavesNoExpired'
  BY <1>1, <1>2 DEF SweepLeavesNoExpired, Expired
<1> QED BY <1>3, <1>4, <1>5, <1>6 DEF IInv

-----------------------------------------------------------------------------
(* The sweeper's own steps.                                                *)

\* A sweep starts having passed no key.
LEMMA SweepStartKeepsIInv == IInv /\ SweepStart => IInv'
<1> SUFFICES ASSUME IInv, SweepStart PROVE IInv'
  OBVIOUS
<1>1. SMInv /\ SMTypeOK /\ TypeOK /\ SweepControl /\ SweepLeavesNoExpired
  BY DEF IInv, SMInv
<1>2. /\ UNCHANGED <<sessions, heap, removed, closeReq, doing, held, clock>>
      /\ UNCHANGED <<victim, touched>>
      /\ sweep = "idle" /\ sweep' = "ranging"
      /\ sweepNow' = clock /\ sweepBase' = Len(heap) /\ todo' = Vins
  BY DEF SweepStart, smVars
<1>3. SMInv' /\ SMTypeOK' /\ Allocated' = Allocated
  BY <1>1, <1>2, RestKeepsSMInv DEF SMInv, Allocated, SMTypeOK
<1>4. TypeOK'
  <2>1. Len(heap) \in 0 .. Len(heap)
    BY <1>1, HeapFacts
  <2> QED BY <1>1, <1>2, <1>3, <2>1 DEF TypeOK, SMTypeOK
<1>5. SweepControl'
  BY <1>1, <1>2, <1>3 DEF SweepControl
<1>6. SweepLeavesNoExpired'
  BY <1>2 DEF SweepLeavesNoExpired
<1> QED BY <1>3, <1>4, <1>5, <1>6 DEF IInv

\* A key is passed over, or its session has been judged.
LEMMA SweepPassKeepsIInv ==
    ASSUME IInv, NEW v \in Vins, SweepSkip(v) \/ SweepVisit(v)
    PROVE  IInv'
<1>1. SMInv /\ SMTypeOK /\ TypeOK /\ SweepControl /\ SweepLeavesNoExpired
  BY DEF IInv, SMInv
<1>2. /\ UNCHANGED <<sessions, heap, removed, closeReq, doing, held, clock>>
      /\ UNCHANGED <<sweepNow, sweepBase, touched>>
      /\ sweep = "ranging" /\ doing[Sweeper] = "none"
      /\ todo' = todo \ {v}
  BY DEF SweepSkip, SweepVisit, smVars
<1>3. SMInv' /\ SMTypeOK' /\ Allocated' = Allocated
  BY <1>1, <1>2, RestKeepsSMInv DEF SMInv, Allocated, SMTypeOK
<1>4. victim = NoSession
  BY <1>1, <1>2 DEF SweepControl
<1>5. \/ /\ sessions[v] = NoSession \/ sessions[v] > sweepBase
         /\ UNCHANGED <<sweep, victim>>
      \/ /\ sessions[v] \in Allocated
         /\ ~Expired(sessions[v])
         /\ UNCHANGED <<sweep, victim>>
      \/ /\ sessions[v] \in Allocated
         /\ sweep' = "removing" /\ victim' = sessions[v]
  BY <1>1 DEF SweepSkip, SweepVisit, Registered, SMTypeOK
<1>6. TypeOK'
  BY <1>1, <1>2, <1>3, <1>5 DEF TypeOK
<1>7. SweepControl'
  BY <1>1, <1>2, <1>3, <1>4, <1>5 DEF SweepControl
<1>8. SweepLeavesNoExpired'
  <2> SUFFICES ASSUME NEW u \in Vins, u \notin todo',
                      sessions[u] \in 1 .. sweepBase \ touched,
                      sessions[u] # victim'
               PROVE  ~Expired(sessions[u])
    BY <1>2 DEF SweepLeavesNoExpired, Expired
  <2>1. CASE u \in todo
    <3>1. u = v
      BY <2>1, <1>2
    <3>2. sessions[u] # NoSession /\ ~(sessions[u] > sweepBase)
      BY <1>1 DEF NoSession, TypeOK
    <3> QED BY <1>5, <3>1, <3>2
  <2>2. CASE u \notin todo
    BY <2>2, <1>1, <1>4 DEF SweepLeavesNoExpired, NoSession
  <2> QED BY <2>1, <2>2
<1> QED BY <1>3, <1>6, <1>7, <1>8 DEF IInv

\* The removal empties the victim's key, whatever it held by then, and no
\* other key holds the victim.
LEMMA SweepRemoveKeepsIInv == IInv /\ SweepRemove => IInv'
<1> SUFFICES ASSUME IInv, SweepRemove PROVE IInv'
  OBVIOUS
<1>1. SMInv /\ SMTypeOK /\ LatestWins /\ TypeOK /\ SweepControl /\ SweepLeavesNoExpired
  BY DEF IInv, SMInv
<1> DEFINE vin == heap[victim].vin
<1>2. /\ sweep = "removing" /\ LoadAndDelete(Sweeper, vin)
      /\ sweep' = "ranging" /\ victim' = NoSession
      /\ UNCHANGED <<sweepNow, sweepBase, todo, touched>>
  BY DEF SweepRemove
<1>3. doing[Sweeper] = "none" /\ victim \in Allocated /\ vin \in Vins
  BY <1>1, <1>2, HeapFacts DEF SweepControl
<1>4. SMInv' /\ SMTypeOK'
  BY <1>1, <1>2, <1>3, LoadAndDeleteKeepsSMInv, SweeperAssumption DEF SMInv
<1>5. /\ heap' = heap
      /\ sessions' = [sessions EXCEPT ![vin] = NoSession]
      /\ doing'[Sweeper] \in {"none", "close"}
  BY <1>1, <1>2, <1>3, SweeperAssumption DEF LoadAndDelete, SMTypeOK
<1>6. Allocated' = Allocated
  BY <1>5 DEF Allocated
<1>7. TypeOK'
  BY <1>1, <1>2, <1>4, <1>5, <1>6 DEF TypeOK
<1>8. SweepControl'
  BY <1>2, <1>5 DEF SweepControl
<1>9. SweepLeavesNoExpired'
  <2> SUFFICES ASSUME NEW u \in Vins, u \notin todo,
                      sessions'[u] \in 1 .. sweepBase \ touched
               PROVE  ~Expired(sessions'[u])
    BY <1>2, <1>5 DEF SweepLeavesNoExpired, Expired
  <2>1. sessions'[u] # NoSession
    BY DEF NoSession
  <2>2. u # vin /\ sessions'[u] = sessions[u]
    BY <1>1, <1>3, <1>5, <2>1 DEF SMTypeOK
  <2>3. heap[sessions[u]].vin = u
    BY <1>1, <2>1, <2>2, RegisteredFacts
  <2> QED BY <1>1, <2>2, <2>3 DEF SweepLeavesNoExpired
<1> QED BY <1>4, <1>7, <1>8, <1>9 DEF IInv

\* The sweeper closes the connection of the session it removed.
LEMMA SweepCloseKeepsIInv == IInv /\ SweepClose => IInv'
<1> SUFFICES ASSUME IInv, SweepClose PROVE IInv'
  OBVIOUS
<1>1. SMInv /\ SMTypeOK /\ TypeOK /\ SweepControl /\ SweepLeavesNoExpired
  BY DEF IInv, SMInv
<1>2. /\ sweep = "ranging" /\ CloseRemoved(Sweeper)
      /\ UNCHANGED <<sweep, sweepNow, sweepBase, todo, victim, touched>>
  BY DEF SweepClose, sweepVars
<1>3. SMInv' /\ SMTypeOK'
  BY <1>1, <1>2, CloseRemovedKeepsSMInv, SweeperAssumption DEF SMInv
<1>4. UNCHANGED <<heap, sessions>> /\ doing'[Sweeper] = "none"
  BY <1>1, <1>2, SweeperAssumption DEF CloseRemoved, SMTypeOK
<1>5. Allocated' = Allocated
  BY <1>4 DEF Allocated
<1>6. TypeOK'
  BY <1>1, <1>2, <1>3, <1>4, <1>5 DEF TypeOK
<1>7. SweepControl'
  BY <1>1, <1>2, <1>4 DEF SweepControl
<1>8. SweepLeavesNoExpired'
  BY <1>1, <1>2, <1>4 DEF SweepLeavesNoExpired, Expired
<1> QED BY <1>3, <1>6, <1>7, <1>8 DEF IInv

\* A finished sweep answers for nothing any more.
LEMMA SweepEndKeepsIInv == IInv /\ SweepEnd => IInv'
<1> SUFFICES ASSUME IInv, SweepEnd PROVE IInv'
  OBVIOUS
<1>1. SMInv /\ SMTypeOK /\ TypeOK /\ SweepControl
  BY DEF IInv, SMInv
<1>2. /\ UNCHANGED <<sessions, heap, removed, closeReq, doing, held, clock>>
      /\ UNCHANGED <<victim, todo>>
      /\ sweep = "ranging" /\ sweep' = "idle" /\ doing[Sweeper] = "none"
      /\ sweepNow' = 0 /\ sweepBase' = 0 /\ touched' = {}
  BY DEF SweepEnd, smVars
<1>3. SMInv' /\ SMTypeOK' /\ Allocated' = Allocated
  BY <1>1, <1>2, RestKeepsSMInv DEF SMInv, Allocated, SMTypeOK
<1>4. TypeOK'
  BY <1>1, <1>2, <1>3, HeapFacts DEF TypeOK
<1>5. SweepControl'
  BY <1>1, <1>2 DEF SweepControl
<1>6. SweepLeavesNoExpired'
  BY <1>2 DEF SweepLeavesNoExpired
<1> QED BY <1>3, <1>4, <1>5, <1>6 DEF IInv

-----------------------------------------------------------------------------
\* Every step of the sweeper and of the others.
LEMMA NextKeepsIInv == IInv /\ [Next]_vars => IInv'
<1> SUFFICES ASSUME IInv, [Next]_vars PROVE IInv'
  OBVIOUS
<1>1. CASE Sweep
  BY <1>1, SweepStartKeepsIInv, SweepPassKeepsIInv, SweepRemoveKeepsIInv,
     SweepCloseKeepsIInv, SweepEndKeepsIInv DEF Sweep
<1>2. CASE Others
  BY <1>2, RegisterKeepsIInv, StartKeepsIInv, FinishRemoveKeepsIInv,
     FinishTouchKeepsIInv, TickKeepsIInv DEF Others
<1>3. CASE UNCHANGED vars
  <2>1. /\ UNCHANGED <<sessions, heap, removed, closeReq, doing, held, clock>>
        /\ UNCHANGED <<sweep, sweepNow, sweepBase, todo, victim, touched>>
    BY <1>3 DEF vars, smVars, sweepVars
  <2>2. SMInv /\ SMTypeOK /\ TypeOK /\ SweepControl /\ SweepLeavesNoExpired
    BY DEF IInv, SMInv
  <2>3. SMInv' /\ SMTypeOK' /\ Allocated' = Allocated
    BY <2>1, <2>2, RestKeepsSMInv DEF SMInv, Allocated, SMTypeOK
  <2>4. TypeOK'
    BY <2>1, <2>2, <2>3 DEF TypeOK
  <2>5. SweepControl' /\ SweepLeavesNoExpired'
    BY <2>1, <2>2, <2>3 DEF SweepControl, SweepLeavesNoExpired, Expired
  <2> QED BY <2>3, <2>4, <2>5 DEF IInv
<1> QED BY <1>1, <1>2, <1>3 DEF Next

(* The inductive invariant holds of every behaviour of the sweep.          *)
THEOREM InvariantHolds == Spec => []IInv
  BY InitIInv, NextKeepsIInv, PTL DEF Spec

(* Every variable keeps its type: in particular a sweep never judges a     *)
(* session that was not stored.                                            *)
THEOREM TypeCorrect == Spec => []TypeOK
<1>1. IInv => TypeOK
  BY DEF IInv
<1> QED BY <1>1, InvariantHolds, PTL

(* The table names each vehicle's last registration while sweeps, logins   *)
(* and logouts interleave at every access of the sync.Map.                 *)
THEOREM TableIsUpToDate == Spec => []LatestWins
<1>1. IInv => LatestWins
  BY DEF IInv, SMInv
<1> QED BY <1>1, InvariantHolds, PTL

(* Each removed session's connection is closed by the one Remove that took *)
(* it out, and no other connection is closed, sweeps included.             *)
THEOREM ClosesAreOwed == Spec => []CloseMatchesRemoval
<1>1. IInv => CloseMatchesRemoval
  BY DEF IInv, SMInv
<1> QED BY <1>1, InvariantHolds, PTL

(* A sweep leaves no expired session it should have seen, for any timeout, *)
(* any number of vehicles and any interleaving.                            *)
THEOREM SweepIsComplete == Spec => []SweepLeavesNoExpired
<1>1. IInv => SweepLeavesNoExpired
  BY DEF IInv
<1> QED BY <1>1, InvariantHolds, PTL

\* Every step of the sweeper and of the others is one of the table's.
LEMMA NextIsTableNext == IInv /\ [Next]_vars => [Table!Next]_Table!vars
<1> SUFFICES ASSUME IInv, [Next]_vars PROVE Table!Next \/ UNCHANGED Table!vars
  OBVIOUS
<1>1. SMInv /\ SMTypeOK /\ TypeOK /\ SweepControl
  BY DEF IInv, SMInv
<1>2. ASSUME UNCHANGED <<sessions, heap, closeReq, doing, held, clock>>
      PROVE  UNCHANGED Table!vars
  BY <1>2, RestIsNothing DEF Table!vars
<1>3. CASE Sweep
  <2>1. CASE SweepStart \/ SweepEnd \/ \E v \in Vins : SweepSkip(v) \/ SweepVisit(v)
    BY <2>1, <1>2 DEF SweepStart, SweepEnd, SweepSkip, SweepVisit, smVars
  <2>2. CASE SweepRemove
    <3>1. /\ doing[Sweeper] = "none" /\ heap[victim].vin \in Vins
          /\ LoadAndDelete(Sweeper, heap[victim].vin)
      BY <1>1, <2>2, HeapFacts DEF SweepRemove, SweepControl
    <3> QED BY <1>1, <3>1, LoadAndDeleteIsRemove, SweeperAssumption DEF Table!Next
  <2>3. CASE SweepClose
    BY <1>1, <2>3, CloseRemovedIsDisconnect, SweeperAssumption DEF SweepClose, Table!Next
  <2> QED BY <1>3, <2>1, <2>2, <2>3 DEF Sweep
<1>4. CASE Others
  <2>1. ASSUME NEW v \in Vins, NEW k \in Conns, Register(v, k) PROVE Table!Next
    <3>1. Table!Register(v, k)
      BY <1>1, <2>1, AddIsRegister DEF Register
    <3> QED BY <3>1 DEF Table!Next
  <2>2. ASSUME NEW c \in Callers, NEW v \in Vins, StartRemove(c, v)
        PROVE  Table!Next \/ UNCHANGED Table!vars
    <3>1. Table!Remove(v) \/ UNCHANGED Table!vars
      BY <1>1, <2>2, LoadAndDeleteIsRemove DEF StartRemove, Free
    <3> QED BY <3>1 DEF Table!Next
  <2>3. ASSUME NEW c \in Callers, NEW v \in Vins, StartTouch(c, v)
        PROVE  UNCHANGED Table!vars
    BY <1>1, <2>3, TouchLoadIsNothing DEF StartTouch, Free
  <2>4. ASSUME NEW c \in Callers, FinishRemove(c) PROVE Table!Next
    BY <1>1, <2>4, CloseRemovedIsDisconnect DEF FinishRemove, Table!Next
  <2>5. ASSUME NEW c \in Callers, FinishTouch(c)
        PROVE  Table!Next \/ UNCHANGED Table!vars
    BY <1>1, <2>5, TouchStoreIsRefresh DEF FinishTouch, Table!Next
  <2>6. ASSUME Tick PROVE Table!Next
    BY <2>6, RestIsNothing DEF Tick, Table!Next, Table!Tick
  <2> QED BY <1>4, <2>1, <2>2, <2>3, <2>4, <2>5, <2>6 DEF Others
<1>5. CASE UNCHANGED vars
  BY <1>2, <1>5 DEF vars, smVars
<1> QED BY <1>3, <1>4, <1>5 DEF Next

(* While sweeps, logins, logouts and refreshes interleave at every access  *)
(* of the map and of a session, the session manager works like a table     *)
(* whose operations happen at once (session_manager.go:38-87).             *)
THEOREM WorksLikeATable == Spec => ImplementsTable
<1>1. Init => Table!Init
  BY InitIsTableInit DEF Init
<1> QED BY <1>1, NextIsTableNext, InvariantHolds, PTL DEF Spec, ImplementsTable, Table!Spec
=============================================================================
