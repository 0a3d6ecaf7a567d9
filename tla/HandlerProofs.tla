--------------------------- MODULE HandlerProofs ---------------------------
(* The handler's safety, proved for every number of connections, vehicles  *)
(* and requests.                                                           *)
EXTENDS Handler, SessionManagerProofs

\* Only a finishing handler is inside a method of the session manager, and
\* the authentication flag is never set for nothing.
Control == \A c \in Conns : /\ doing[c] # "none" => pc[c] = "finish"
                            /\ authed[c] => c \in proven

HTypeOK == /\ link \in [Conns -> {"fresh", "open", "closed"}]
           /\ authed \in [Conns -> BOOLEAN]
           /\ pc \in [Conns -> {"idle", "add", "register", "touch", "finish"}]
           /\ subject \in [Conns -> Vins]
           /\ requests \in 0 .. MaxRequests
           /\ proven \subseteq Conns
           /\ welcomed \subseteq Conns \X Vins

HInv == SMInv /\ HTypeOK /\ Control /\ WelcomedIsRegistered /\ WelcomedIsProven

\* No step makes a stored session forget whose it was.
Remembered == /\ Allocated \subseteq Allocated'
              /\ \A s \in Allocated : /\ heap'[s].vin = heap[s].vin
                                      /\ heap'[s].conn = heap[s].conn

\* Before the first connection nothing is owed to anybody.
LEMMA InitHInv == Init => HInv
<1> SUFFICES ASSUME Init PROVE HInv
  OBVIOUS
<1>1. SMInv
  BY SMInitInv DEF Init
<1>2. HTypeOK
  <2>1. requests \in 0 .. MaxRequests
    BY MaxRequestsAssumption DEF Init
  <2> QED BY <2>1 DEF Init, HTypeOK
<1>3. Control
  BY CallersAssumption DEF Init, SMInit, Control
<1>4. WelcomedIsRegistered /\ WelcomedIsProven
  BY DEF Init, WelcomedIsRegistered, WelcomedIsProven
<1> QED BY <1>1, <1>2, <1>3, <1>4 DEF HInv

\* Steps that do not welcome anyone and leave pending logins pending.
LEMMA WelcomeKept ==
    ASSUME WelcomedIsRegistered, Remembered, welcomed' = welcomed,
           \A c \in Conns : pc[c] = "add" => pc'[c] = "add" /\ subject'[c] = subject[c]
    PROVE  WelcomedIsRegistered'
<1> SUFFICES ASSUME NEW c \in Conns, NEW v \in Vins, <<c, v>> \in welcomed
             PROVE  \/ pc'[c] = "add" /\ subject'[c] = v
                    \/ \E s \in Allocated' : heap'[s].vin = v /\ heap'[s].conn = c
  BY DEF WelcomedIsRegistered
<1>1. CASE pc[c] = "add" /\ subject[c] = v
  BY <1>1
<1>2. CASE \E s \in Allocated : heap[s].vin = v /\ heap[s].conn = c
  BY <1>2 DEF Remembered
<1> QED BY <1>1, <1>2 DEF WelcomedIsRegistered

\* Steps that leave the heap alone.
LEMMA StillRemembered == heap' = heap => Remembered
  BY DEF Remembered, Allocated

\* The callbacks of the connection's own life.
LEMMA LinkKeepsHInv ==
    ASSUME HInv, NEW c \in Conns, OnOpen(c) \/ Disconnect(c) \/ CloseRequested(c)
    PROVE  HInv'
<1>1. SMInv /\ HTypeOK /\ Control /\ WelcomedIsRegistered /\ WelcomedIsProven
  BY DEF HInv
<1>2. /\ UNCHANGED <<sessions, heap, removed, closeReq, doing, held, clock>>
      /\ UNCHANGED <<authed, pc, subject, requests, proven, welcomed>>
      /\ link' \in [Conns -> {"fresh", "open", "closed"}]
  BY <1>1 DEF OnOpen, Disconnect, CloseRequested, smVars, HTypeOK
<1>3. SMInv'
  BY <1>1, <1>2, RestKeepsSMInv DEF SMInv, SMTypeOK
<1>4. HTypeOK' /\ Control' /\ WelcomedIsProven'
  BY <1>1, <1>2 DEF HTypeOK, Control, WelcomedIsProven
<1>5. WelcomedIsRegistered'
  BY <1>1, <1>2, StillRemembered, WelcomeKept
<1> QED BY <1>3, <1>4, <1>5 DEF HInv

\* A request finds its connection idle, so outside the session manager.
LEMMA ReceiveFacts ==
    ASSUME HInv, NEW c \in Conns, NEW v \in Vins, Receive(c, v)
    PROVE  /\ pc[c] = "idle" /\ doing[c] = "none"
           /\ subject' = [subject EXCEPT ![c] = v]
           /\ subject' \in [Conns -> Vins]
           /\ requests' \in 0 .. MaxRequests
           /\ \A d \in Conns : pc[d] = "add" => d # c /\ subject'[d] = subject[d]
<1>1. HTypeOK /\ Control
  BY DEF HInv
<1>2. pc[c] = "idle" /\ subject' = [subject EXCEPT ![c] = v]
      /\ requests < MaxRequests /\ requests' = requests + 1
  BY DEF Receive
<1>3. requests' \in 0 .. MaxRequests
  BY <1>1, <1>2, MaxRequestsAssumption DEF HTypeOK
<1>4. doing[c] = "none"
  BY <1>1, <1>2 DEF Control
<1>5. subject' \in [Conns -> Vins]
      /\ \A d \in Conns : pc[d] = "add" => d # c /\ subject'[d] = subject[d]
  BY <1>1, <1>2 DEF HTypeOK
<1> QED BY <1>2, <1>3, <1>4, <1>5

\* Requests that do not reach the session manager at once.
LEMMA QuietRequestKeepsHInv ==
    ASSUME HInv, NEW c \in Conns, NEW v \in Vins,
           \/ PlatformLoginAccepted(c, v) \/ Refused(c, v)
           \/ VehicleLoginAnswered(c, v) \/ RealTime(c, v) \/ OtherCommand(c, v)
    PROVE  HInv'
<1>1. SMInv /\ HTypeOK /\ Control /\ WelcomedIsRegistered /\ WelcomedIsProven
  BY DEF HInv
<1>2. Receive(c, v) /\ link' = link
      /\ UNCHANGED <<sessions, heap, removed, closeReq, doing, held, clock>>
  BY DEF PlatformLoginAccepted, Refused, VehicleLoginAnswered, RealTime, OtherCommand, smVars
<1>3. /\ pc[c] = "idle" /\ doing[c] = "none"
      /\ subject' = [subject EXCEPT ![c] = v]
      /\ subject' \in [Conns -> Vins]
      /\ requests' \in 0 .. MaxRequests
      /\ \A d \in Conns : pc[d] = "add" => d # c /\ subject'[d] = subject[d]
  BY <1>2, ReceiveFacts
<1>4. /\ pc' \in [Conns -> {"idle", "add", "register", "touch", "finish"}]
      /\ \A d \in Conns : d # c => pc'[d] = pc[d]
  BY <1>1 DEF PlatformLoginAccepted, Refused, VehicleLoginAnswered, RealTime,
              OtherCommand, HTypeOK
<1>5. \/ UNCHANGED <<authed, proven>>
      \/ authed' = [authed EXCEPT ![c] = TRUE] /\ proven' = proven \cup {c}
  BY DEF PlatformLoginAccepted, Refused, VehicleLoginAnswered, RealTime, OtherCommand
<1>6. \/ welcomed' = welcomed
      \/ authed[c] /\ welcomed' = welcomed \cup {<<c, v>>} /\ pc'[c] = "add"
  <2>1. CASE VehicleLoginAnswered(c, v)
    <3>1. pc'[c] = "add"
      BY <1>1, <2>1 DEF VehicleLoginAnswered, HTypeOK
    <3> QED BY <2>1, <3>1 DEF VehicleLoginAnswered
  <2>2. CASE ~VehicleLoginAnswered(c, v)
    BY <2>2 DEF PlatformLoginAccepted, Refused, RealTime, OtherCommand
  <2> QED BY <2>1, <2>2
<1>7. SMInv'
  BY <1>1, <1>2, RestKeepsSMInv DEF SMInv, SMTypeOK
<1>8. HTypeOK'
  <2>1. authed' \in [Conns -> BOOLEAN] /\ proven' \subseteq Conns
    BY <1>1, <1>5 DEF HTypeOK
  <2>2. welcomed' \subseteq Conns \X Vins
    BY <1>1, <1>6 DEF HTypeOK
  <2> QED BY <1>1, <1>2, <1>3, <1>4, <2>1, <2>2 DEF HTypeOK
<1>9. Control'
  <2> SUFFICES ASSUME NEW d \in Conns
               PROVE  /\ doing'[d] # "none" => pc'[d] = "finish"
                      /\ authed'[d] => d \in proven'
    BY DEF Control
  <2>1. doing'[d] # "none" => pc'[d] = "finish"
    BY <1>1, <1>2, <1>3, <1>4 DEF Control
  <2>2. authed'[d] => d \in proven'
    BY <1>1, <1>5 DEF Control, HTypeOK
  <2> QED BY <2>1, <2>2
<1>10. WelcomedIsRegistered'
  <2> SUFFICES ASSUME NEW d \in Conns, NEW u \in Vins, <<d, u>> \in welcomed'
               PROVE  \/ pc'[d] = "add" /\ subject'[d] = u
                      \/ \E s \in Allocated' : heap'[s].vin = u /\ heap'[s].conn = d
    BY DEF WelcomedIsRegistered
  <2>1. CASE <<d, u>> \in welcomed
    <3>1. \/ pc[d] = "add" /\ subject[d] = u
          \/ \E s \in Allocated : heap[s].vin = u /\ heap[s].conn = d
      BY <1>1, <2>1 DEF WelcomedIsRegistered
    <3>2. Remembered
      BY <1>2, StillRemembered
    <3> QED BY <1>3, <1>4, <3>1, <3>2 DEF Remembered
  <2>2. CASE <<d, u>> \notin welcomed
    <3>1. d = c /\ u = v /\ pc'[c] = "add"
      BY <1>6, <2>2
    <3> QED BY <1>1, <1>3, <3>1 DEF HTypeOK
  <2> QED BY <2>1, <2>2
<1>11. WelcomedIsProven'
  BY <1>1, <1>5, <1>6 DEF WelcomedIsProven, Control
<1> QED BY <1>7, <1>8, <1>9, <1>10, <1>11 DEF HInv

\* A logout takes a session out of the table, never out of the heap.
LEMMA LogoutKeepsHInv ==
    ASSUME HInv, NEW c \in Conns, NEW v \in Vins, Logout(c, v)
    PROVE  HInv'
<1>1. SMInv /\ SMTypeOK /\ HTypeOK /\ Control /\ WelcomedIsRegistered /\ WelcomedIsProven
  BY DEF HInv, SMInv
<1>2. /\ Receive(c, v) /\ LoadAndDelete(c, v)
      /\ pc' = [pc EXCEPT ![c] = "finish"]
      /\ UNCHANGED <<link, authed, proven, welcomed>>
  BY DEF Logout
<1>3. /\ pc[c] = "idle" /\ doing[c] = "none"
      /\ subject' \in [Conns -> Vins]
      /\ requests' \in 0 .. MaxRequests
      /\ \A d \in Conns : pc[d] = "add" => d # c /\ subject'[d] = subject[d]
  BY <1>2, ReceiveFacts
<1>4. SMInv'
  BY <1>1, <1>2, <1>3, CallersAssumption, LoadAndDeleteKeepsSMInv
<1>5. heap' = heap /\ \A d \in Conns : d # c => doing'[d] = doing[d]
  BY <1>1, <1>2, CallersAssumption DEF LoadAndDelete, SMTypeOK
<1>6. HTypeOK'
  BY <1>1, <1>2, <1>3 DEF HTypeOK
<1>7. Control' /\ WelcomedIsProven'
  BY <1>1, <1>2, <1>5 DEF Control, WelcomedIsProven, HTypeOK
<1>8. WelcomedIsRegistered'
  BY <1>1, <1>2, <1>3, <1>5, StillRemembered, WelcomeKept DEF HTypeOK
<1> QED BY <1>4, <1>6, <1>7, <1>8 DEF HInv

\* The two places that store a session: a vehicle login, a first report.
LEMMA StoreKeepsHInv ==
    ASSUME HInv, NEW c \in Conns, VehicleLoginAdd(c) \/ AutoRegister(c)
    PROVE  HInv'
<1>1. SMInv /\ SMTypeOK /\ HTypeOK /\ Control /\ WelcomedIsRegistered /\ WelcomedIsProven
  BY DEF HInv, SMInv
<1>2. /\ Add(subject[c], c)
      /\ pc[c] \in {"add", "register"}
      /\ pc' \in [Conns -> {"idle", "add", "register", "touch", "finish"}]
      /\ \A d \in Conns : d # c => pc'[d] = pc[d]
      /\ UNCHANGED <<link, authed, subject, requests, proven, welcomed>>
  BY <1>1 DEF VehicleLoginAdd, AutoRegister, HTypeOK
<1>3. subject[c] \in Vins
  BY <1>1 DEF HTypeOK
<1>4. SMInv' /\ Len(heap') = Len(heap) + 1
  BY <1>1, <1>2, <1>3, AddKeepsSMInv
<1>5. /\ Remembered
      /\ Len(heap') \in Allocated'
      /\ heap'[Len(heap')].vin = subject[c] /\ heap'[Len(heap')].conn = c
      /\ doing' = doing
  <2>1. PICK t \in Now : heap' = Append(heap, [vin |-> subject[c], conn |-> c, lastActive |-> t])
    BY <1>2 DEF Add
  <2>2. heap \in Seq(Sessions) /\ [vin |-> subject[c], conn |-> c, lastActive |-> t] \in Sessions
    BY <1>1, <1>3 DEF SMTypeOK, Sessions, Now
  <2>3. /\ \A s \in Allocated : heap'[s] = heap[s]
        /\ heap'[Len(heap')] = [vin |-> subject[c], conn |-> c, lastActive |-> t]
    BY <2>1, <2>2, <1>4, AppendProperties DEF Allocated
  <2>4. Len(heap) \in Nat
    BY <2>2, LenProperties
  <2>5. Remembered /\ Len(heap') \in Allocated'
    BY <2>3, <2>4, <1>4 DEF Remembered, Allocated
  <2> QED BY <1>2, <2>3, <2>5 DEF Add
<1>6. HTypeOK'
  BY <1>1, <1>2 DEF HTypeOK
<1>7. Control' /\ WelcomedIsProven'
  BY <1>1, <1>2, <1>5 DEF Control, WelcomedIsProven
<1>8. WelcomedIsRegistered'
  <2> SUFFICES ASSUME NEW d \in Conns, NEW u \in Vins, <<d, u>> \in welcomed
               PROVE  \/ pc'[d] = "add" /\ subject'[d] = u
                      \/ \E s \in Allocated' : heap'[s].vin = u /\ heap'[s].conn = d
    BY <1>2 DEF WelcomedIsRegistered
  <2>1. CASE pc[d] = "add" /\ subject[d] = u
    BY <1>2, <1>5, <2>1
  <2>2. CASE \E s \in Allocated : heap[s].vin = u /\ heap[s].conn = d
    BY <1>5, <2>2 DEF Remembered
  <2> QED BY <1>1, <2>1, <2>2 DEF WelcomedIsRegistered
<1> QED BY <1>4, <1>6, <1>7, <1>8 DEF HInv

\* The rest of a handler: the session manager's other half steps.
LEMMA RestOfHandlerKeepsHInv ==
    ASSUME HInv, NEW c \in Conns,
           LogoutClose(c) \/ Touch(c) \/ TouchWrite(c) \/ Finish(c)
    PROVE  HInv'
<1>1. SMInv /\ SMTypeOK /\ HTypeOK /\ Control /\ WelcomedIsRegistered /\ WelcomedIsProven
  BY DEF HInv, SMInv
<1>2. /\ UNCHANGED <<link, authed, subject, requests, proven, welcomed>>
      /\ pc' \in [Conns -> {"idle", "add", "register", "touch", "finish"}]
      /\ \A d \in Conns : pc[d] = "add" => pc'[d] = "add"
  BY <1>1 DEF LogoutClose, Touch, TouchWrite, Finish, hVars, HTypeOK
<1>3. SMInv'
  <2>1. CASE LogoutClose(c)
    BY <1>1, <2>1, CallersAssumption, CloseRemovedKeepsSMInv DEF LogoutClose
  <2>2. CASE Touch(c)
    <3>1. subject[c] \in Vins /\ doing[c] = "none"
      BY <1>1, <2>2 DEF HTypeOK, Control, Touch
    <3> QED BY <1>1, <2>2, <3>1, CallersAssumption, TouchLoadKeepsSMInv DEF Touch
  <2>3. CASE TouchWrite(c)
    BY <1>1, <2>3, CallersAssumption, TouchStoreKeepsSMInv DEF TouchWrite
  <2>4. CASE Finish(c)
    <3>1. UNCHANGED <<sessions, heap, removed, closeReq, doing, held, clock>>
      BY <2>4 DEF Finish, smVars
    <3> QED BY <1>1, <3>1, RestKeepsSMInv DEF SMTypeOK
  <2> QED BY <2>1, <2>2, <2>3, <2>4
<1>4. Remembered
  <2>1. CASE LogoutClose(c) \/ Touch(c) \/ Finish(c)
    <3>1. heap' = heap
      BY <2>1 DEF LogoutClose, CloseRemoved, Touch, TouchLoad, Finish, smVars
    <3> QED BY <3>1, StillRemembered
  <2>2. CASE TouchWrite(c)
    <3>1. TouchStore(c) /\ c \in Callers
      BY <2>2, CallersAssumption DEF TouchWrite
    <3>2. /\ held[c] \in Allocated /\ Allocated' = Allocated
          /\ \A s \in Allocated : s # held[c] => heap'[s] = heap[s]
      BY <1>1, <3>1, TouchStoreKeepsSMInv
    <3>3. PICK t \in Now : heap' = [heap EXCEPT ![held[c]].lastActive = t]
      BY <3>1 DEF TouchStore
    <3>4. heap \in Seq(Sessions)
      BY <1>1 DEF SMTypeOK, Sessions
    <3>5. heap[held[c]] \in Sessions /\ held[c] \in DOMAIN heap
      BY <3>2, <3>4, ElementOfSeq, LenProperties DEF Allocated
    <3>6. heap'[held[c]] = [heap[held[c]] EXCEPT !.lastActive = t]
      BY <3>3, <3>5
    <3>7. heap'[held[c]].vin = heap[held[c]].vin /\ heap'[held[c]].conn = heap[held[c]].conn
      BY <3>5, <3>6 DEF Sessions
    <3> QED BY <3>2, <3>7 DEF Remembered
  <2> QED BY <2>1, <2>2
<1>5. HTypeOK'
  BY <1>1, <1>2 DEF HTypeOK
<1>6. WelcomedIsProven'
  BY <1>1, <1>2 DEF WelcomedIsProven
<1>7. Control'
  <2>1. \A d \in Conns : doing'[d] # "none" => pc'[d] = "finish"
    BY <1>1, CallersAssumption DEF LogoutClose, CloseRemoved, Touch, TouchLoad, TouchWrite,
       TouchStore, Finish, Control, HTypeOK, SMTypeOK, hVars, smVars
  <2> QED BY <1>1, <1>2, <2>1 DEF Control
<1>8. WelcomedIsRegistered'
  BY <1>1, <1>2, <1>4, WelcomeKept
<1> QED BY <1>3, <1>5, <1>6, <1>7, <1>8 DEF HInv

-----------------------------------------------------------------------------
\* Every step of the handler and of its connections.
LEMMA NextKeepsHInv == HInv /\ [Next]_vars => HInv'
<1> SUFFICES ASSUME HInv, [Next]_vars PROVE HInv'
  OBVIOUS
<1>1. CASE Next
  <2>1. PICK c \in Conns : \/ OnOpen(c) \/ Disconnect(c) \/ CloseRequested(c)
                           \/ \E v \in Vins : Request(c, v)
                           \/ Continue(c)
    BY <1>1 DEF Next
  <2>2. CASE OnOpen(c) \/ Disconnect(c) \/ CloseRequested(c)
    BY <2>2, LinkKeepsHInv
  <2>3. CASE \E v \in Vins : Request(c, v)
    BY <2>3, QuietRequestKeepsHInv, LogoutKeepsHInv DEF Request
  <2>4. CASE Continue(c)
    BY <2>4, StoreKeepsHInv, RestOfHandlerKeepsHInv DEF Continue
  <2> QED BY <2>1, <2>2, <2>3, <2>4
<1>2. CASE UNCHANGED vars
  <2>1. /\ UNCHANGED <<sessions, heap, removed, closeReq, doing, held, clock>>
        /\ UNCHANGED <<link, authed, pc, subject, requests, proven, welcomed>>
    BY <1>2 DEF vars, smVars, hVars
  <2>2. SMInv /\ HTypeOK /\ Control /\ WelcomedIsRegistered /\ WelcomedIsProven
    BY DEF HInv
  <2>3. SMInv'
    BY <2>1, <2>2, RestKeepsSMInv DEF SMInv, SMTypeOK
  <2>4. HTypeOK' /\ Control' /\ WelcomedIsProven'
    BY <2>1, <2>2 DEF HTypeOK, Control, WelcomedIsProven
  <2>5. WelcomedIsRegistered'
    BY <2>1, <2>2, StillRemembered, WelcomeKept
  <2> QED BY <2>3, <2>4, <2>5 DEF HInv
<1> QED BY <1>1, <1>2

(* The inductive invariant holds of every behaviour of the handler.        *)
THEOREM InvariantHolds == Spec => []HInv
  BY InitHInv, NextKeepsHInv, PTL DEF Spec

(* Every variable keeps its type.                                          *)
THEOREM TypeCorrect == Spec => []TypeOK
<1>1. HInv => TypeOK
  BY DEF HInv, SMInv, HTypeOK, TypeOK
<1> QED BY <1>1, InvariantHolds, PTL

(* The table names each vehicle's last registration, however the handlers  *)
(* of different connections interleave.                                    *)
THEOREM TableIsUpToDate == Spec => []LatestWins
<1>1. HInv => LatestWins
  BY DEF HInv, SMInv
<1> QED BY <1>1, InvariantHolds, PTL

(* A logout closes the connection of the session it took out, and only     *)
(* that; two logouts never hold the same session.                          *)
THEOREM ClosesAreOwed == Spec => []CloseMatchesRemoval
<1>1. HInv => CloseMatchesRemoval
  BY DEF HInv, SMInv
<1> QED BY <1>1, InvariantHolds, PTL

(* A positive answer to a vehicle login is followed by its registration    *)
(* (handler.go:179-187).                                                   *)
THEOREM WelcomeIsKept == Spec => []WelcomedIsRegistered
<1>1. HInv => WelcomedIsRegistered
  BY DEF HInv
<1> QED BY <1>1, InvariantHolds, PTL

(* No vehicle logs in through a connection that never authenticated        *)
(* (handler.go:131-148).                                                   *)
THEOREM LoginNeedsPlatform == Spec => []WelcomedIsProven
<1>1. HInv => WelcomedIsProven
  BY DEF HInv
<1> QED BY <1>1, InvariantHolds, PTL

\* Every step of a connection is one of the table's.
LEMMA NextIsTableNext == HInv /\ [Next]_vars => [Table!Next]_Table!vars
<1> SUFFICES ASSUME HInv, [Next]_vars PROVE Table!Next \/ UNCHANGED Table!vars
  OBVIOUS
<1>1. SMInv /\ HTypeOK /\ Control
  BY DEF HInv
<1>2. ASSUME UNCHANGED smVars PROVE UNCHANGED Table!vars
  BY <1>2, RestIsNothing DEF smVars, Table!vars
<1>3. ASSUME NEW c \in Conns, NEW v \in Vins, Logout(c, v)
      PROVE  Table!Next \/ UNCHANGED Table!vars
  <2>1. doing[c] = "none" /\ LoadAndDelete(c, v)
    BY <1>3, ReceiveFacts DEF Logout
  <2>2. Table!Remove(v) \/ UNCHANGED Table!vars
    BY <1>1, <2>1, LoadAndDeleteIsRemove, CallersAssumption
  <2> QED BY <2>2 DEF Table!Next
<1>4. ASSUME NEW c \in Conns, NEW v \in Vins, Request(c, v)
      PROVE  Table!Next \/ UNCHANGED Table!vars
  BY <1>2, <1>3, <1>4 DEF Request, PlatformLoginAccepted, Refused, VehicleLoginAnswered,
     RealTime, OtherCommand
<1>5. ASSUME NEW c \in Conns, Continue(c)
      PROVE  Table!Next \/ UNCHANGED Table!vars
  <2>1. c \in Callers /\ subject[c] \in Vins
    BY <1>1, CallersAssumption DEF HTypeOK
  <2>2. CASE VehicleLoginAdd(c) \/ AutoRegister(c)
    <3>1. Table!Register(subject[c], c)
      BY <1>1, <2>1, <2>2, AddIsRegister DEF VehicleLoginAdd, AutoRegister
    <3> QED BY <2>1, <3>1 DEF Table!Next
  <2>3. CASE LogoutClose(c)
    BY <1>1, <2>1, <2>3, CloseRemovedIsDisconnect DEF LogoutClose, Table!Next
  <2>4. CASE Touch(c)
    <3>1. doing[c] = "none"
      BY <1>1, <2>4 DEF Touch, Control
    <3> QED BY <1>1, <2>1, <2>4, <3>1, TouchLoadIsNothing DEF Touch
  <2>5. CASE TouchWrite(c)
    BY <1>1, <2>1, <2>5, TouchStoreIsRefresh DEF TouchWrite, Table!Next
  <2>6. CASE Finish(c)
    BY <1>2, <2>6 DEF Finish
  <2> QED BY <1>5, <2>2, <2>3, <2>4, <2>5, <2>6 DEF Continue
<1>6. ASSUME NEW c \in Conns, OnOpen(c) \/ Disconnect(c) \/ CloseRequested(c)
      PROVE  UNCHANGED Table!vars
  BY <1>2, <1>6 DEF OnOpen, Disconnect, CloseRequested
<1>7. CASE UNCHANGED vars
  BY <1>2, <1>7 DEF vars
<1> QED BY <1>4, <1>5, <1>6, <1>7 DEF Next

(* For the handlers of all connections together the session manager works  *)
(* like a table whose operations happen at once.                           *)
THEOREM WorksLikeATable == Spec => ImplementsTable
<1>1. Init => Table!Init
  BY InitIsTableInit DEF Init
<1> QED BY <1>1, NextIsTableNext, InvariantHolds, PTL DEF Spec, ImplementsTable, Table!Spec
=============================================================================
