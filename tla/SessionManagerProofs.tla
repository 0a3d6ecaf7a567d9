------------------------ MODULE SessionManagerProofs ------------------------
(* Every operation of the session manager keeps its invariant, whoever     *)
(* calls it: the lemmas that the proofs of Handler and SessionSweep share. *)
EXTENDS SessionManager, SequenceTheorems, FiniteSetTheorems, TLAPS

\* What a caller carries from the first half of a method to the second.
Carried ==
    \A c \in Callers :
        /\ doing[c] # "none" => held[c] \in Allocated
        /\ doing[c] = "close" => held[c] \in removed

SMInv == SMTypeOK /\ LatestWins /\ CloseMatchesRemoval /\ Carried

Sessions == [vin : Vins, conn : Conns, lastActive : Nat]

\* An empty table is up to date.
LEMMA SMInitInv == SMInit => SMInv
<1> SUFFICES ASSUME SMInit PROVE SMInv
  OBVIOUS
<1>1. heap = <<>> /\ Len(heap) = 0 /\ heap \in Seq(Sessions) /\ Allocated = {}
  BY EmptySeq DEF SMInit, Allocated
<1>2. SMTypeOK
  BY <1>1, MaxSessionsAssumption DEF SMInit, SMTypeOK, Sessions
<1>3. LatestWins
  BY <1>1 DEF SMInit, LatestWins
<1>4. CloseMatchesRemoval /\ Carried
  BY DEF SMInit, CloseMatchesRemoval, Carried
<1> QED BY <1>2, <1>3, <1>4 DEF SMInv

\* Sessions are the indices of the heap.
LEMMA HeapFacts ==
    ASSUME SMTypeOK
    PROVE  /\ Len(heap) \in Nat
           /\ \A s \in Allocated : /\ s \in Nat
                                   /\ heap[s].vin \in Vins
                                   /\ heap[s].conn \in Conns
                                   /\ heap[s].lastActive \in Nat
<1>1. heap \in Seq(Sessions)
  BY DEF SMTypeOK, Sessions
<1>2. Len(heap) \in Nat /\ \A s \in Allocated : heap[s] \in Sessions
  BY <1>1, LenProperties, ElementOfSeq DEF Allocated
<1> QED BY <1>2 DEF Sessions, Allocated

\* The map names the vehicle's last session, and not a removed one.
LEMMA RegisteredFacts ==
    ASSUME SMTypeOK, LatestWins, NEW v \in Vins, sessions[v] # NoSession
    PROVE  /\ sessions[v] \in Allocated
           /\ heap[sessions[v]].vin = v
           /\ sessions[v] \notin removed
           /\ \A s \in Allocated : heap[s].vin = v => s <= sessions[v]
  BY DEF SMTypeOK, LatestWins

\* A store is the last one for its vehicle.
LEMMA AddKeepsSMInv ==
    ASSUME SMInv, NEW v \in Vins, NEW k \in Conns, Add(v, k)
    PROVE  SMInv' /\ sessions'[v] = Len(heap) + 1 /\ Len(heap') = Len(heap) + 1
<1>1. SMTypeOK /\ LatestWins /\ CloseMatchesRemoval /\ Carried
  BY DEF SMInv
<1>2. PICK t \in Now : heap' = Append(heap, [vin |-> v, conn |-> k, lastActive |-> t])
  BY DEF Add
<1> DEFINE new == [vin |-> v, conn |-> k, lastActive |-> t]
<1>3. new \in Sessions /\ heap \in Seq(Sessions) /\ Len(heap) \in Nat
  BY <1>1, LenProperties DEF SMTypeOK, Sessions, Now
<1>4. /\ heap' \in Seq(Sessions)
      /\ Len(heap') = Len(heap) + 1
      /\ \A s \in Allocated : heap'[s] = heap[s]
      /\ heap'[Len(heap')] = new
  BY <1>2, <1>3, AppendProperties DEF Allocated
<1>5. Allocated' = Allocated \cup {Len(heap')} /\ \A s \in Allocated : s < Len(heap')
  BY <1>3, <1>4 DEF Allocated
<1>6. sessions' = [sessions EXCEPT ![v] = Len(heap')]
      /\ UNCHANGED <<removed, closeReq, doing, held, clock>>
      /\ Len(heap) < MaxSessions
  BY DEF Add
<1>7. SMTypeOK'
  <2>1. sessions' \in [Vins -> Allocated' \cup {NoSession}]
    BY <1>1, <1>5, <1>6 DEF SMTypeOK
  <2>2. held' \in [Callers -> Allocated' \cup {NoSession}] /\ removed' \subseteq Allocated'
    BY <1>1, <1>5, <1>6 DEF SMTypeOK
  <2>3. Len(heap') <= MaxSessions
    BY <1>3, <1>4, <1>6, MaxSessionsAssumption
  <2> QED BY <1>1, <1>4, <1>6, <2>1, <2>2, <2>3 DEF SMTypeOK, Sessions
<1>8. LatestWins'
  <2> SUFFICES ASSUME NEW u \in Vins
               PROVE  LET stored == {s \in Allocated' : heap'[s].vin = u}
                      IN  IF stored = {}
                          THEN sessions'[u] = NoSession
                          ELSE \E last \in stored :
                                   /\ \A s \in stored : s <= last
                                   /\ sessions'[u] = IF last \in removed' THEN NoSession ELSE last
    BY DEF LatestWins
  <2>1. CASE u = v
    <3>1. Len(heap') \in {s \in Allocated' : heap'[s].vin = u}
      BY <2>1, <1>4, <1>5
    <3>2. \A s \in Allocated' : s <= Len(heap')
      BY <1>3, <1>4 DEF Allocated
    <3>3. Len(heap') \notin removed' /\ sessions'[u] = Len(heap')
      BY <2>1, <1>1, <1>3, <1>4, <1>6 DEF SMTypeOK, Allocated
    <3> QED BY <3>1, <3>2, <3>3
  <2>2. CASE u # v
    <3>1. {s \in Allocated' : heap'[s].vin = u} = {s \in Allocated : heap[s].vin = u}
      BY <2>2, <1>4, <1>5
    <3>2. sessions'[u] = sessions[u] /\ removed' = removed
      BY <2>2, <1>1, <1>6 DEF SMTypeOK
    <3> QED BY <1>1, <3>1, <3>2 DEF LatestWins
  <2> QED BY <2>1, <2>2
<1>9. CloseMatchesRemoval' /\ Carried'
  <2>1. \A s \in removed : s \in Allocated /\ heap'[s] = heap[s]
    BY <1>1, <1>4 DEF SMTypeOK
  <2>2. CloseMatchesRemoval'
    BY <1>1, <1>6, <2>1 DEF CloseMatchesRemoval
  <2>3. Carried'
    BY <1>1, <1>5, <1>6 DEF Carried
  <2> QED BY <2>2, <2>3
<1>10. sessions'[v] = Len(heap) + 1
  BY <1>1, <1>4, <1>6 DEF SMTypeOK
<1> QED BY <1>4, <1>7, <1>8, <1>9, <1>10 DEF SMInv

\* What the session manager does not do leaves its invariant alone.
LEMMA RestKeepsSMInv ==
    ASSUME SMInv, UNCHANGED <<sessions, heap, removed, closeReq, doing, held>>, clock' \in Nat
    PROVE  SMInv'
<1> USE DEF SMInv
<1>1. Allocated' = Allocated
  BY DEF Allocated
<1>2. SMTypeOK'
  BY <1>1 DEF SMTypeOK
<1>3. LatestWins'
  BY <1>1 DEF LatestWins
<1>4. CloseMatchesRemoval' /\ Carried'
  BY <1>1 DEF CloseMatchesRemoval, Carried
<1> QED BY <1>2, <1>3, <1>4

\* A removal takes the vehicle's last session out of the map, for good, and
\* leaves it in the hands of its caller alone.
LEMMA LoadAndDeleteKeepsSMInv ==
    ASSUME SMInv, NEW c \in Callers, NEW v \in Vins,
           doing[c] = "none", LoadAndDelete(c, v)
    PROVE  SMInv'
<1>1. SMTypeOK /\ LatestWins /\ CloseMatchesRemoval /\ Carried
  BY DEF SMInv
<1>2. sessions' = [sessions EXCEPT ![v] = NoSession] /\ UNCHANGED <<heap, closeReq, clock>>
  BY DEF LoadAndDelete
<1>3. Allocated' = Allocated
  BY <1>2 DEF Allocated
<1>4. CASE ~Registered(v)
  <2>1. UNCHANGED <<removed, held, doing>> /\ sessions[v] = NoSession
    BY <1>4 DEF LoadAndDelete, Registered
  <2>2. sessions' = sessions
    BY <1>1, <1>2, <2>1 DEF SMTypeOK
  <2>3. UNCHANGED <<sessions, heap, removed, closeReq, doing, held>> /\ clock' \in Nat
    BY <1>1, <1>2, <2>1, <2>2 DEF SMTypeOK
  <2> QED BY <2>3, RestKeepsSMInv
<1>5. CASE Registered(v)
  <2> DEFINE gone == sessions[v]
  <2>1. /\ removed' = removed \cup {gone}
        /\ held' = [held EXCEPT ![c] = gone]
        /\ doing' = [doing EXCEPT ![c] = "close"]
        /\ gone # NoSession
    BY <1>5 DEF LoadAndDelete, Registered
  <2>2. /\ gone \in Allocated /\ gone \notin removed /\ heap[gone].vin = v
        /\ \A s \in Allocated : heap[s].vin = v => s <= gone
    BY <1>1, <2>1, RegisteredFacts
  <2>3. SMTypeOK'
    BY <1>1, <1>2, <1>3, <2>1, <2>2 DEF SMTypeOK
  <2>4. LatestWins'
    <3> SUFFICES ASSUME NEW u \in Vins
                 PROVE  LET stored == {s \in Allocated : heap[s].vin = u}
                        IN  IF stored = {}
                            THEN sessions'[u] = NoSession
                            ELSE \E last \in stored :
                                     /\ \A s \in stored : s <= last
                                     /\ sessions'[u] = IF last \in removed' THEN NoSession ELSE last
      BY <1>2, <1>3 DEF LatestWins
    <3>1. CASE u = v
      <4>1. gone \in {s \in Allocated : heap[s].vin = u}
        BY <3>1, <2>2
      <4>2. sessions'[u] = NoSession /\ gone \in removed'
        BY <3>1, <1>1, <1>2, <2>1 DEF SMTypeOK
      <4> QED BY <3>1, <4>1, <4>2, <2>2
    <3>2. CASE u # v
      <4>1. sessions'[u] = sessions[u]
        BY <3>2, <1>1, <1>2 DEF SMTypeOK
      <4>2. \A s \in Allocated : heap[s].vin = u => (s \in removed' <=> s \in removed)
        BY <3>2, <2>1, <2>2
      <4> QED BY <1>1, <4>1, <4>2 DEF LatestWins
    <3> QED BY <3>1, <3>2
  <2>5. doing'[c] = "close" /\ held'[c] = gone
        /\ \A d \in Callers : d # c => doing'[d] = doing[d] /\ held'[d] = held[d]
    BY <1>1, <2>1 DEF SMTypeOK
  <2>6. Carried'
    BY <1>1, <1>3, <2>1, <2>2, <2>5 DEF Carried
  <2>7. CloseMatchesRemoval'
    <3>1. \A s \in removed' :
              \/ heap[s].conn \in closeReq
              \/ \E d \in Callers : doing'[d] = "close" /\ held'[d] = s
      <4> SUFFICES ASSUME NEW s \in removed, heap[s].conn \notin closeReq
                   PROVE  \E d \in Callers : doing'[d] = "close" /\ held'[d] = s
        BY <2>1, <2>5
      <4>1. PICK d \in Callers : doing[d] = "close" /\ held[d] = s
        BY <1>1 DEF CloseMatchesRemoval
      <4>2. d # c
        BY <4>1
      <4> QED BY <4>1, <4>2, <2>5
    <3>2. \A k \in closeReq : \E s \in removed' : heap[s].conn = k
      BY <1>1, <2>1 DEF CloseMatchesRemoval
    <3>3. \A d \in Callers : d # c /\ doing'[d] = "close" => held'[d] # gone
      BY <1>1, <2>2, <2>5 DEF Carried
    <3>4. \A d, e \in Callers :
              doing'[d] = "close" /\ doing'[e] = "close" /\ held'[d] = held'[e] => d = e
      BY <1>1, <2>5, <3>3 DEF CloseMatchesRemoval
    <3> QED BY <1>2, <3>1, <3>2, <3>4 DEF CloseMatchesRemoval
  <2> QED BY <2>3, <2>4, <2>6, <2>7 DEF SMInv
<1> QED BY <1>4, <1>5

\* The removed session's connection is asked to close, and its Remove is over.
LEMMA CloseRemovedKeepsSMInv ==
    ASSUME SMInv, NEW c \in Callers, CloseRemoved(c)
    PROVE  SMInv'
<1>1. SMTypeOK /\ LatestWins /\ CloseMatchesRemoval /\ Carried
  BY DEF SMInv
<1>2. /\ doing[c] = "close"
      /\ closeReq' = closeReq \cup {heap[held[c]].conn}
      /\ UNCHANGED <<sessions, heap, removed, clock>>
  BY DEF CloseRemoved
<1>3. held[c] \in Allocated /\ held[c] \in removed /\ Allocated' = Allocated
  BY <1>1, <1>2 DEF Carried, Allocated
<1>4. /\ doing'[c] = "none"
      /\ \A d \in Callers : d # c => doing'[d] = doing[d] /\ held'[d] = held[d]
  BY <1>1 DEF CloseRemoved, SMTypeOK
<1>5. SMTypeOK'
  BY <1>1, <1>2, <1>3, HeapFacts DEF SMTypeOK, CloseRemoved
<1>6. LatestWins'
  BY <1>1, <1>2, <1>3 DEF LatestWins
<1>7. Carried'
  BY <1>1, <1>2, <1>3, <1>4 DEF Carried
<1>8. CloseMatchesRemoval'
  <2>1. \A s \in removed :
            \/ heap[s].conn \in closeReq'
            \/ \E d \in Callers : doing'[d] = "close" /\ held'[d] = s
    <3> SUFFICES ASSUME NEW s \in removed, heap[s].conn \notin closeReq'
                 PROVE  \E d \in Callers : doing'[d] = "close" /\ held'[d] = s
      OBVIOUS
    <3>1. PICK d \in Callers : doing[d] = "close" /\ held[d] = s
      BY <1>1, <1>2 DEF CloseMatchesRemoval
    <3>2. d # c
      BY <1>2, <3>1
    <3> QED BY <1>4, <3>1, <3>2
  <2>2. \A k \in closeReq' : \E s \in removed : heap[s].conn = k
    BY <1>1, <1>2, <1>3 DEF CloseMatchesRemoval
  <2>3. \A d, e \in Callers :
            doing'[d] = "close" /\ doing'[e] = "close" /\ held'[d] = held'[e] => d = e
    BY <1>1, <1>4 DEF CloseMatchesRemoval
  <2> QED BY <1>2, <2>1, <2>2, <2>3 DEF CloseMatchesRemoval
<1> QED BY <1>5, <1>6, <1>7, <1>8 DEF SMInv

\* Loading a pointer to refresh a session disturbs no removal.
LEMMA TouchLoadKeepsSMInv ==
    ASSUME SMInv, NEW c \in Callers, NEW v \in Vins,
           doing[c] = "none", TouchLoad(c, v)
    PROVE  SMInv'
<1>1. SMTypeOK /\ LatestWins /\ CloseMatchesRemoval /\ Carried
  BY DEF SMInv
<1>2. UNCHANGED <<sessions, heap, removed, closeReq, clock>> /\ Allocated' = Allocated
  BY DEF TouchLoad, Allocated
<1>3. /\ held' \in [Callers -> Allocated \cup {NoSession}]
      /\ doing' \in [Callers -> {"none", "close", "touch"}]
      /\ doing'[c] # "close" /\ (doing'[c] # "none" => held'[c] \in Allocated)
      /\ \A d \in Callers : d # c => doing'[d] = doing[d] /\ held'[d] = held[d]
  <2>1. CASE Registered(v)
    BY <1>1, <2>1 DEF TouchLoad, SMTypeOK, Registered
  <2>2. CASE ~Registered(v)
    BY <1>1, <2>2 DEF TouchLoad, SMTypeOK
  <2> QED BY <2>1, <2>2
<1>4. SMTypeOK'
  BY <1>1, <1>2, <1>3 DEF SMTypeOK
<1>5. LatestWins'
  BY <1>1, <1>2 DEF LatestWins
<1>6. Carried'
  BY <1>1, <1>2, <1>3 DEF Carried
<1>7. CloseMatchesRemoval'
  <2>1. \A s \in removed :
            \/ heap[s].conn \in closeReq
            \/ \E d \in Callers : doing'[d] = "close" /\ held'[d] = s
    BY <1>1, <1>3 DEF CloseMatchesRemoval
  <2>2. \A d, e \in Callers :
            doing'[d] = "close" /\ doing'[e] = "close" /\ held'[d] = held'[e] => d = e
    BY <1>1, <1>3 DEF CloseMatchesRemoval
  <2> QED BY <1>1, <1>2, <2>1, <2>2 DEF CloseMatchesRemoval
<1> QED BY <1>4, <1>5, <1>6, <1>7 DEF SMInv

\* A refresh changes a time stamp and nothing that identifies the session.
LEMMA TouchStoreKeepsSMInv ==
    ASSUME SMInv, NEW c \in Callers, TouchStore(c)
    PROVE  /\ SMInv'
           /\ held[c] \in Allocated
           /\ Allocated' = Allocated /\ Len(heap') = Len(heap)
           /\ \A s \in Allocated : s # held[c] => heap'[s] = heap[s]
<1>1. SMTypeOK /\ LatestWins /\ CloseMatchesRemoval /\ Carried
  BY DEF SMInv
<1>2. doing[c] = "touch" /\ UNCHANGED <<sessions, removed, closeReq, clock>>
  BY DEF TouchStore
<1>3. PICK t \in Now : heap' = [heap EXCEPT ![held[c]].lastActive = t]
  BY DEF TouchStore
<1> DEFINE fresh == [heap[held[c]] EXCEPT !.lastActive = t]
<1>4. held[c] \in Allocated
  BY <1>1, <1>2 DEF Carried
<1>5. heap \in Seq(Sessions) /\ t \in Nat /\ held[c] \in 1 .. Len(heap)
  BY <1>1, <1>4 DEF SMTypeOK, Sessions, Now, Allocated
<1>6. heap[held[c]] \in Sessions /\ fresh \in Sessions
  <2>1. heap[held[c]] \in Sessions
    BY <1>5, ElementOfSeq
  <2> QED BY <1>5, <2>1 DEF Sessions
<1>7. heap' = [heap EXCEPT ![held[c]] = fresh]
  BY <1>3
<1>8. /\ heap' \in Seq(Sessions)
      /\ Len(heap') = Len(heap)
      /\ \A s \in 1 .. Len(heap) : heap'[s] = IF s = held[c] THEN fresh ELSE heap[s]
  BY <1>5, <1>6, <1>7, ExceptSeq
<1>9. Allocated' = Allocated
  BY <1>8 DEF Allocated
<1>10. \A s \in Allocated : heap'[s].vin = heap[s].vin /\ heap'[s].conn = heap[s].conn
  BY <1>5, <1>6, <1>8 DEF Allocated, Sessions
<1>11. /\ doing'[c] = "none"
       /\ \A d \in Callers : d # c => doing'[d] = doing[d] /\ held'[d] = held[d]
  BY <1>1 DEF TouchStore, SMTypeOK
<1>12. SMTypeOK'
  BY <1>1, <1>2, <1>8, <1>9 DEF SMTypeOK, Sessions, TouchStore
<1>13. LatestWins'
  <2>1. \A u \in Vins :
            {s \in Allocated' : heap'[s].vin = u} = {s \in Allocated : heap[s].vin = u}
    BY <1>9, <1>10
  <2> QED BY <1>1, <1>2, <2>1 DEF LatestWins
<1>14. Carried'
  BY <1>1, <1>2, <1>9, <1>11 DEF Carried
<1>15. CloseMatchesRemoval'
  <2>1. \A s \in removed : heap'[s].conn = heap[s].conn
    BY <1>1, <1>10 DEF SMTypeOK
  <2>2. \A d \in Callers : doing'[d] = "close" <=> doing[d] = "close"
    BY <1>2, <1>11
  <2>3. \A d \in Callers : doing'[d] = "close" => held'[d] = held[d]
    BY <1>11
  <2> QED BY <1>1, <1>2, <2>1, <2>2, <2>3 DEF CloseMatchesRemoval
<1> QED BY <1>4, <1>8, <1>9, <1>12, <1>13, <1>14, <1>15 DEF SMInv, Allocated

-----------------------------------------------------------------------------
(* Every operation, and every half of one, is an operation of the table or *)
(* does nothing to it.                                                     *)

\* The table at one vehicle.
LEMMA EntryAt ==
    /\ Entry = [v \in Vins |-> Entry[v]]
    /\ \A v \in Vins :
           /\ ~Registered(v) => Entry[v] = {}
           /\ Registered(v) => Entry[v] = {[conn |-> heap[sessions[v]].conn,
                                            seen |-> heap[sessions[v]].lastActive]}
  BY DEF Entry, Registered

\* The closes owed to a connection are as many as its Removes in progress.
LEMMA ClosingFinite == \A k \in Conns : IsFiniteSet(Closing(k)) /\ Cardinality(Closing(k)) \in Nat
<1> SUFFICES ASSUME NEW k \in Conns PROVE IsFiniteSet(Closing(k))
  BY FS_CardinalityType
<1>1. Closing(k) \subseteq Callers
  BY DEF Closing
<1> QED BY <1>1, CallersFinite, FS_Subset

\* An empty session manager is an empty table.
LEMMA InitIsTableInit == SMInit => Table!Init
<1> SUFFICES ASSUME SMInit PROVE Table!Init
  OBVIOUS
<1>1. Entry = [v \in Vins |-> {}]
  BY DEF Entry, SMInit
<1>2. Owed = [k \in Conns |-> 0]
  <2>1. \A k \in Conns : Closing(k) = {}
    BY DEF Closing, SMInit
  <2> QED BY <2>1, FS_EmptySet DEF Owed
<1>3. Len(heap) = 0
  BY EmptySeq DEF SMInit
<1> QED BY <1>1, <1>2, <1>3 DEF Table!Init, SMInit

\* Where the closes in progress and their connections stay, so does the debt.
LEMMA SameClosing ==
    ASSUME SMInv,
           \A c \in Callers : /\ doing'[c] = "close" <=> doing[c] = "close"
                              /\ doing[c] = "close" => held'[c] = held[c],
           \A s \in Allocated : heap'[s].conn = heap[s].conn
    PROVE  Owed' = Owed
<1>1. \A k \in Conns : Closing(k)' = Closing(k)
  BY DEF Closing, SMInv, Carried
<1> QED BY <1>1 DEF Owed

\* Add registers.
LEMMA AddIsRegister ==
    ASSUME SMInv, NEW v \in Vins, NEW k \in Conns, Add(v, k)
    PROVE  Table!Register(v, k)
<1>1. SMTypeOK
  BY DEF SMInv
<1>2. PICK t \in Now : heap' = Append(heap, [vin |-> v, conn |-> k, lastActive |-> t])
  BY DEF Add
<1> DEFINE new == [vin |-> v, conn |-> k, lastActive |-> t]
<1>3. new \in Sessions /\ heap \in Seq(Sessions) /\ Len(heap) \in Nat
  BY <1>1, LenProperties DEF SMTypeOK, Sessions, Now
<1>4. /\ Len(heap') = Len(heap) + 1
      /\ \A s \in Allocated : heap'[s] = heap[s]
      /\ heap'[Len(heap')] = new
  BY <1>2, <1>3, AppendProperties DEF Allocated
<1>5. /\ sessions' = [sessions EXCEPT ![v] = Len(heap')]
      /\ UNCHANGED <<removed, closeReq, doing, held, clock>>
  BY DEF Add
<1>6. Entry' = [Entry EXCEPT ![v] = {[conn |-> k, seen |-> t]}]
  <2>1. Registered(v)' /\ sessions'[v] = Len(heap')
    BY <1>1, <1>3, <1>4, <1>5 DEF Registered, SMTypeOK, NoSession
  <2>2. Entry'[v] = {[conn |-> k, seen |-> t]}
    <3>1. Entry'[v] = {[conn |-> heap'[sessions'[v]].conn,
                        seen |-> heap'[sessions'[v]].lastActive]}
      BY <2>1, EntryAt DEF Entry, Registered
    <3> QED BY <3>1, <2>1, <1>4
  <2>3. ASSUME NEW u \in Vins, u # v PROVE Entry'[u] = Entry[u]
    <3>1. sessions'[u] = sessions[u]
      BY <1>1, <1>5, <2>3 DEF SMTypeOK
    <3>2. sessions[u] # NoSession => heap'[sessions[u]] = heap[sessions[u]]
      BY <1>1, <1>4 DEF SMTypeOK
    <3> QED BY <3>1, <3>2 DEF Entry
  <2> QED BY <2>2, <2>3 DEF Entry
<1>7. Owed' = Owed
  BY <1>4, <1>5, SameClosing
<1>8. t \in Table!Recent
  BY DEF Table!Recent, Now
<1> QED BY <1>4, <1>5, <1>6, <1>7, <1>8 DEF Table!Register

\* LoadAndDelete removes, or finds nothing.
LEMMA LoadAndDeleteIsRemove ==
    ASSUME SMInv, NEW c \in Callers, NEW v \in Vins,
           doing[c] = "none", LoadAndDelete(c, v)
    PROVE  Table!Remove(v) \/ UNCHANGED Table!vars
<1>1. SMTypeOK /\ LatestWins
  BY DEF SMInv
<1>2. sessions' = [sessions EXCEPT ![v] = NoSession] /\ UNCHANGED <<heap, closeReq, clock>>
  BY DEF LoadAndDelete
<1>3. CASE ~Registered(v)
  <2>1. UNCHANGED <<held, doing>> /\ sessions' = sessions
    BY <1>1, <1>2, <1>3 DEF LoadAndDelete, Registered, SMTypeOK
  <2>2. Entry' = Entry /\ Owed' = Owed
    BY <1>2, <2>1 DEF Entry, Owed, Closing
  <2> QED BY <1>2, <2>2 DEF Table!vars
<1>4. CASE Registered(v)
  <2>1. /\ held' = [held EXCEPT ![c] = sessions[v]]
        /\ doing' = [doing EXCEPT ![c] = "close"]
    BY <1>4 DEF LoadAndDelete
  <2>2. PICK k \in Conns : k = heap[sessions[v]].conn
    BY <1>1, <1>4, RegisteredFacts, HeapFacts DEF Registered
  <2> DEFINE e == [conn |-> k, seen |-> heap[sessions[v]].lastActive]
  <2>3. Entry[v] = {e}
    BY <1>4, <2>2, EntryAt
  <2>4. Entry' = [Entry EXCEPT ![v] = {}]
    <3>1. \A u \in Vins : sessions'[u] = IF u = v THEN NoSession ELSE sessions[u]
      BY <1>1, <1>2 DEF SMTypeOK
    <3> QED BY <1>2, <3>1 DEF Entry
  <2>5. /\ doing'[c] = "close" /\ held'[c] = sessions[v]
        /\ \A d \in Callers : d # c => doing'[d] = doing[d] /\ held'[d] = held[d]
    BY <1>1, <2>1 DEF SMTypeOK
  <2>6. Closing(k)' = Closing(k) \cup {c} /\ c \notin Closing(k)
    BY <1>2, <2>2, <2>5 DEF Closing
  <2>7. \A j \in Conns : j # k => Closing(j)' = Closing(j)
    BY <1>2, <2>2, <2>5 DEF Closing
  <2>8. Cardinality(Closing(k)') = Cardinality(Closing(k)) + 1
    BY <2>2, <2>6, ClosingFinite, FS_AddElement
  <2>9. Owed' = [Owed EXCEPT ![k] = @ + 1]
    BY <2>2, <2>7, <2>8 DEF Owed
  <2> QED BY <1>2, <2>3, <2>4, <2>9 DEF Table!Remove
<1> QED BY <1>3, <1>4

\* Close pays one of the connection's debts.
LEMMA CloseRemovedIsDisconnect ==
    ASSUME SMInv, NEW c \in Callers, CloseRemoved(c)
    PROVE  \E k \in Conns : Table!Disconnect(k)
<1>1. SMTypeOK /\ Carried
  BY DEF SMInv
<1>2. /\ doing[c] = "close"
      /\ closeReq' = closeReq \cup {heap[held[c]].conn}
      /\ UNCHANGED <<sessions, heap, clock>>
  BY DEF CloseRemoved
<1>3. PICK k \in Conns : k = heap[held[c]].conn
  BY <1>1, <1>2, HeapFacts DEF Carried
<1>4. /\ doing'[c] = "none"
      /\ \A d \in Callers : d # c => doing'[d] = doing[d] /\ held'[d] = held[d]
  BY <1>1 DEF CloseRemoved, SMTypeOK
<1>5. Closing(k)' = Closing(k) \ {c} /\ c \in Closing(k)
  BY <1>2, <1>3, <1>4 DEF Closing
<1>6. \A j \in Conns : j # k => Closing(j)' = Closing(j)
  BY <1>2, <1>3, <1>4 DEF Closing
<1>7. Cardinality(Closing(k)') = Cardinality(Closing(k)) - 1 /\ Cardinality(Closing(k)) > 0
  <2>1. Cardinality(Closing(k)') = Cardinality(Closing(k)) - 1
    BY <1>3, <1>5, ClosingFinite, FS_RemoveElement
  <2>2. Cardinality(Closing(k)) # 0
    BY <1>3, <1>5, ClosingFinite, FS_EmptySet
  <2> QED BY <1>3, <2>1, <2>2, ClosingFinite
<1>8. Owed' = [Owed EXCEPT ![k] = @ - 1] /\ Owed[k] > 0
  BY <1>3, <1>6, <1>7 DEF Owed
<1>9. Entry' = Entry
  BY <1>2 DEF Entry
<1> QED BY <1>2, <1>3, <1>8, <1>9 DEF Table!Disconnect

\* Loading a pointer is not yet an operation.
LEMMA TouchLoadIsNothing ==
    ASSUME SMInv, NEW c \in Callers, NEW v \in Vins,
           doing[c] = "none", TouchLoad(c, v)
    PROVE  UNCHANGED Table!vars
<1>1. SMTypeOK
  BY DEF SMInv
<1>2. UNCHANGED <<sessions, heap, closeReq, clock>>
  BY DEF TouchLoad
<1>3. \A d \in Callers : /\ doing'[d] = "close" <=> doing[d] = "close"
                         /\ doing[d] = "close" => held'[d] = held[d]
  BY <1>1 DEF TouchLoad, SMTypeOK
<1>4. Owed' = Owed
  BY <1>2, <1>3, SameClosing
<1>5. Entry' = Entry
  BY <1>2 DEF Entry
<1> QED BY <1>2, <1>4, <1>5 DEF Table!vars

\* The write refreshes the vehicle whose entry the pointer still is, and
\* nobody when it is none's any more.
LEMMA TouchStoreIsRefresh ==
    ASSUME SMInv, NEW c \in Callers, TouchStore(c)
    PROVE  (\E v \in Vins : Table!Refresh(v)) \/ UNCHANGED Table!vars
<1>1. SMTypeOK /\ LatestWins
  BY DEF SMInv
<1>2. doing[c] = "touch" /\ UNCHANGED <<sessions, closeReq, clock>>
  BY DEF TouchStore
<1>3. /\ held[c] \in Allocated /\ Len(heap') = Len(heap)
      /\ \A s \in Allocated : s # held[c] => heap'[s] = heap[s]
  BY TouchStoreKeepsSMInv
<1>4. PICK t \in Now : heap' = [heap EXCEPT ![held[c]].lastActive = t]
  BY DEF TouchStore
<1>5. heap'[held[c]].conn = heap[held[c]].conn /\ heap'[held[c]].lastActive = t
  <2>1. heap \in Seq(Sessions)
    BY <1>1 DEF SMTypeOK, Sessions
  <2>2. heap[held[c]] \in Sessions /\ held[c] \in DOMAIN heap
    BY <1>3, <2>1, ElementOfSeq, LenProperties DEF Allocated
  <2>3. heap'[held[c]] = [heap[held[c]] EXCEPT !.lastActive = t]
    BY <1>4, <2>2
  <2> QED BY <2>2, <2>3 DEF Sessions
<1>6. \A s \in Allocated : heap'[s].conn = heap[s].conn
  BY <1>3, <1>5
<1>7. \A d \in Callers : /\ doing'[d] = "close" <=> doing[d] = "close"
                         /\ doing[d] = "close" => held'[d] = held[d]
  BY <1>1, <1>2 DEF TouchStore, SMTypeOK
<1>8. Owed' = Owed
  BY <1>6, <1>7, SameClosing
<1> DEFINE v == heap[held[c]].vin
<1>9. v \in Vins
  BY <1>1, <1>3, HeapFacts
<1>10. ASSUME NEW u \in Vins, sessions[u] # held[c] PROVE Entry'[u] = Entry[u]
  <2>1. sessions[u] # NoSession => heap'[sessions[u]] = heap[sessions[u]]
    BY <1>1, <1>3, <1>10 DEF SMTypeOK
  <2> QED BY <1>2, <2>1 DEF Entry
<1>11. CASE sessions[v] = held[c]
  <2> DEFINE e == [conn |-> heap[held[c]].conn, seen |-> heap[held[c]].lastActive]
             fresh == [conn |-> heap[held[c]].conn, seen |-> t]
  <2>1. held[c] # NoSession
    BY <1>1, <1>3, HeapFacts DEF Allocated, NoSession
  <2>2. Entry[v] = {e} /\ Entry'[v] = {fresh}
    BY <1>2, <1>5, <1>9, <1>11, <2>1 DEF Entry
  <2>3. \A u \in Vins : u # v => sessions[u] # held[c]
    BY <1>1, <2>1, RegisteredFacts
  <2>4. Entry' = [Entry EXCEPT ![v] = {fresh}]
    BY <1>9, <1>10, <2>2, <2>3 DEF Entry
  <2>5. t \in Table!Recent
    BY DEF Table!Recent, Now
  <2>6. e \in Entry[v] /\ fresh = [conn |-> e.conn, seen |-> t]
    BY <2>2
  <2>7. Table!Refresh(v)
    BY <1>2, <1>3, <1>8, <2>4, <2>5, <2>6 DEF Table!Refresh
  <2> QED BY <1>9, <2>7
<1>12. CASE sessions[v] # held[c]
  <2>1. \A u \in Vins : sessions[u] # held[c]
    <3> SUFFICES ASSUME NEW u \in Vins, sessions[u] = held[c] PROVE FALSE
      OBVIOUS
    <3>1. held[c] # NoSession
      BY <1>1, <1>3, HeapFacts DEF Allocated, NoSession
    <3>2. heap[held[c]].vin = u
      BY <1>1, <3>1, RegisteredFacts
    <3> QED BY <1>12, <3>2
  <2>2. Entry' = Entry
    BY <1>10, <2>1 DEF Entry
  <2> QED BY <1>2, <1>3, <1>8, <2>2 DEF Table!vars
<1> QED BY <1>11, <1>12

\* What touches neither map, sessions nor closes leaves the table alone.
LEMMA RestIsNothing ==
    UNCHANGED <<sessions, heap, closeReq, doing, held>> =>
        UNCHANGED <<Entry, Owed, closeReq, Len(heap)>>
  BY DEF Entry, Owed, Closing

=============================================================================
