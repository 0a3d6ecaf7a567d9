----------------------- MODULE RabbitMQProducerProofs -----------------------
(* The producer's safety, proved for every set of callers and for every    *)
(* number of connections it may go through.                                *)
EXTENDS RabbitMQProducer, TLAPS

\* The mutex is with whoever is dialling; the current connection is the last
\* one dialled; a monitor that has left its post has seen its connection go.
Control ==
    /\ mu = "initial" <=> initial = "dialing"
    /\ mu = "loop" <=> loop = "dialing"
    /\ cur = dialed
    /\ \A i \in ConnIds : i <= dialed => conn[i] # "none" /\ monitor[i] # "none"
    /\ \A i \in ConnIds : monitor[i] \in {"signal", "done"} => conn[i] = "lost"

IInv == TypeOK /\ Control /\ NoLostWakeup

\* Before the first dial, the initial goroutine is the pending attempt.
LEMMA InitIInv == Init => IInv
<1> SUFFICES ASSUME Init PROVE IInv
  OBVIOUS
<1> USE DEF Init
<1>1. TypeOK
  <2>1. dialed \in 0 .. MaxConns /\ cur \in 0 .. dialed
    BY MaxConnsAssumption DEF NoConn
  <2>2. /\ conn \in [ConnIds -> {"none", "open", "lost"}]
        /\ monitor \in [ConnIds -> {"none", "waiting", "signal", "done"}]
        /\ prod \in [Producers -> {"idle", "lock", "signal", "publish"}]
    OBVIOUS
  <2> QED BY <2>1, <2>2 DEF TypeOK
<1>2. Control
  BY DEF Control, ConnIds, NoConn
<1>3. NoLostWakeup
  BY DEF NoLostWakeup, AttemptPending
<1> QED BY <1>1, <1>2, <1>3 DEF IInv

\* A dial that succeeds puts a fresh, watched connection in place.
LEMMA DialOkFacts ==
    ASSUME TypeOK, Control, NEW who, DialOk(who)
    PROVE  /\ dialed' \in ConnIds /\ dialed' = dialed + 1 /\ cur' = dialed'
           /\ conn' \in [ConnIds -> {"none", "open", "lost"}]
           /\ monitor' \in [ConnIds -> {"none", "waiting", "signal", "done"}]
           /\ conn'[dialed'] = "open" /\ monitor'[dialed'] = "waiting"
           /\ \A i \in ConnIds : i # dialed' => conn'[i] = conn[i] /\ monitor'[i] = monitor[i]
           /\ \A i \in ConnIds : i <= dialed' => conn'[i] # "none" /\ monitor'[i] # "none"
           /\ \A i \in ConnIds : monitor'[i] \in {"signal", "done"} => conn'[i] = "lost"
<1>1. dialed' \in ConnIds /\ dialed' = dialed + 1 /\ dialed \in Nat
  BY MaxConnsAssumption DEF TypeOK, DialOk, ConnIds
<1>2. /\ conn' \in [ConnIds -> {"none", "open", "lost"}]
      /\ monitor' \in [ConnIds -> {"none", "waiting", "signal", "done"}]
      /\ conn'[dialed'] = "open" /\ monitor'[dialed'] = "waiting"
      /\ \A i \in ConnIds : i # dialed' => conn'[i] = conn[i] /\ monitor'[i] = monitor[i]
  BY <1>1 DEF TypeOK, DialOk
<1>3. \A i \in ConnIds : i <= dialed' => i = dialed' \/ i <= dialed
  BY <1>1 DEF ConnIds
<1> QED BY <1>1, <1>2, <1>3 DEF DialOk, Control

\* The first connection is made, or its failure is passed to the loop.
LEMMA InitialKeepsIInv == IInv /\ Initial => IInv'
<1> SUFFICES ASSUME IInv, Initial PROVE IInv'
  OBVIOUS
<1>1. TypeOK /\ Control /\ NoLostWakeup
  BY DEF IInv
<1>2. CASE InitialLock
  <2> USE <1>1, <1>2 DEF InitialLock, Lock
  <2>1. TypeOK'
    BY DEF TypeOK
  <2>2. Control'
    BY DEF Control, TypeOK
  <2>3. NoLostWakeup'
    BY DEF NoLostWakeup, AttemptPending
  <2> QED BY <2>1, <2>2, <2>3 DEF IInv
<1>3. CASE InitialOk
  <2>1. DialOk("initial") /\ initial' = "done" /\ loop' = loop
    BY <1>3 DEF InitialOk
  <2>2. TypeOK'
    <3>1. dialed' \in 0 .. MaxConns /\ cur' \in 0 .. dialed'
      BY <1>1, <2>1, DialOkFacts, MaxConnsAssumption DEF ConnIds
    <3>2. /\ conn' \in [ConnIds -> {"none", "open", "lost"}]
          /\ monitor' \in [ConnIds -> {"none", "waiting", "signal", "done"}]
      BY <1>1, <2>1, DialOkFacts
    <3> QED BY <1>1, <2>1, <3>1, <3>2 DEF TypeOK, DialOk
  <2>3. Control'
    BY <1>1, <2>1, DialOkFacts DEF TypeOK, Control, DialOk
  <2>4. NoLostWakeup'
    BY <1>1, <2>1, DialOkFacts DEF NoLostWakeup, NoConn, ConnIds
  <2> QED BY <2>2, <2>3, <2>4 DEF IInv
<1>4. CASE InitialFail
  <2> USE <1>1, <1>4 DEF InitialFail, DialFail
  <2>1. TypeOK'
    BY DEF TypeOK
  <2>2. Control'
    BY DEF Control, TypeOK
  <2>3. NoLostWakeup'
    BY DEF NoLostWakeup, AttemptPending
  <2> QED BY <2>1, <2>2, <2>3 DEF IInv
<1>5. CASE InitialSignal
  <2> USE <1>1, <1>5 DEF InitialSignal, SignalReconnect
  <2>1. TypeOK'
    BY DEF TypeOK
  <2>2. Control'
    BY DEF Control, TypeOK
  <2>3. NoLostWakeup'
    BY DEF NoLostWakeup, AttemptPending, TypeOK
  <2> QED BY <2>1, <2>2, <2>3 DEF IInv
<1> QED BY <1>2, <1>3, <1>4, <1>5 DEF Initial

\* The loop gives its attempt up only for a connection.
LEMMA LoopKeepsIInv == IInv /\ Loop => IInv'
<1> SUFFICES ASSUME IInv, Loop PROVE IInv'
  OBVIOUS
<1>1. TypeOK /\ Control /\ NoLostWakeup
  BY DEF IInv
<1>2. CASE LoopReceive
  <2> USE <1>1, <1>2 DEF LoopReceive
  <2>1. TypeOK'
    BY DEF TypeOK
  <2>2. Control'
    BY DEF Control, TypeOK
  <2>3. NoLostWakeup'
    BY DEF NoLostWakeup, AttemptPending
  <2> QED BY <2>1, <2>2, <2>3 DEF IInv
<1>3. CASE LoopLock
  <2> USE <1>1, <1>3 DEF LoopLock, Lock
  <2>1. TypeOK'
    BY DEF TypeOK
  <2>2. Control'
    BY DEF Control, TypeOK
  <2>3. NoLostWakeup'
    BY DEF NoLostWakeup, AttemptPending
  <2> QED BY <2>1, <2>2, <2>3 DEF IInv
<1>4. CASE LoopOk
  <2>1. DialOk("loop") /\ loop' = "waiting" /\ initial' = initial
    BY <1>4 DEF LoopOk
  <2>2. TypeOK'
    <3>1. dialed' \in 0 .. MaxConns /\ cur' \in 0 .. dialed'
      BY <1>1, <2>1, DialOkFacts, MaxConnsAssumption DEF ConnIds
    <3>2. /\ conn' \in [ConnIds -> {"none", "open", "lost"}]
          /\ monitor' \in [ConnIds -> {"none", "waiting", "signal", "done"}]
      BY <1>1, <2>1, DialOkFacts
    <3> QED BY <1>1, <2>1, <3>1, <3>2 DEF TypeOK, DialOk
  <2>3. Control'
    BY <1>1, <2>1, DialOkFacts DEF TypeOK, Control, DialOk
  <2>4. NoLostWakeup'
    BY <1>1, <2>1, DialOkFacts DEF NoLostWakeup, NoConn, ConnIds
  <2> QED BY <2>2, <2>3, <2>4 DEF IInv
<1>5. CASE LoopFail
  <2> USE <1>1, <1>5 DEF LoopFail, DialFail
  <2>1. TypeOK'
    BY DEF TypeOK
  <2>2. Control'
    BY DEF Control, TypeOK
  <2>3. NoLostWakeup'
    BY DEF NoLostWakeup, AttemptPending
  <2> QED BY <2>1, <2>2, <2>3 DEF IInv
<1>6. CASE LoopWake
  <2> USE <1>1, <1>6 DEF LoopWake
  <2>1. TypeOK'
    BY DEF TypeOK
  <2>2. Control'
    BY DEF Control, TypeOK
  <2>3. NoLostWakeup'
    BY DEF NoLostWakeup, AttemptPending
  <2> QED BY <2>1, <2>2, <2>3 DEF IInv
<1> QED BY <1>2, <1>3, <1>4, <1>5, <1>6 DEF Loop

\* A monitor leaves its post only after asking for a new connection.
LEMMA MonitorKeepsIInv ==
    ASSUME IInv, NEW i \in ConnIds, Monitor(i)
    PROVE  IInv'
<1>1. TypeOK /\ Control /\ NoLostWakeup
  BY DEF IInv
<1>2. CASE MonitorNotified(i)
  <2> USE <1>1, <1>2 DEF MonitorNotified
  <2>1. TypeOK'
    BY DEF TypeOK
  <2>2. Control'
    BY DEF Control, TypeOK
  <2>3. NoLostWakeup'
    BY DEF NoLostWakeup, AttemptPending, TypeOK
  <2> QED BY <2>1, <2>2, <2>3 DEF IInv
<1>3. CASE MonitorSignal(i)
  <2> USE <1>1, <1>3 DEF MonitorSignal, SignalReconnect
  <2>1. TypeOK'
    BY DEF TypeOK
  <2>2. Control'
    BY DEF Control, TypeOK
  <2>3. NoLostWakeup'
    BY DEF NoLostWakeup, AttemptPending, TypeOK
  <2> QED BY <2>1, <2>2, <2>3 DEF IInv
<1> QED BY <1>2, <1>3 DEF Monitor

\* Callers of Produce never take a token away.
LEMMA ProduceKeepsIInv ==
    ASSUME IInv, NEW p \in Producers, ProduceCall(p) \/ ProduceStep(p)
    PROVE  IInv'
<1>1. TypeOK /\ Control /\ NoLostWakeup
  BY DEF IInv
<1>2. /\ UNCHANGED <<mu, dialed, cur, conn, ch, isClosed, monitor, initial, loop, closeCalled>>
      /\ reconnectC' \in {reconnectC, reconnectC \/ ~isClosed}
      /\ prod' \in [Producers -> {"idle", "lock", "signal", "publish"}]
  BY <1>1 DEF ProduceCall, ProduceStep, ProduceCheck, ProduceSignal, ProducePublish,
              SignalReconnect, TypeOK
<1>3. TypeOK'
  BY <1>1, <1>2 DEF TypeOK
<1>4. Control'
  BY <1>1, <1>2 DEF Control
<1>5. NoLostWakeup'
  BY <1>1, <1>2 DEF NoLostWakeup, AttemptPending, TypeOK
<1> QED BY <1>3, <1>4, <1>5 DEF IInv

\* Close ends the connection in place.
LEMMA CloseKeepsIInv == IInv /\ Close => IInv'
<1> SUFFICES ASSUME IInv, Close PROVE IInv'
  OBVIOUS
<1> USE DEF Close
<1>1. TypeOK /\ Control
  BY DEF IInv
<1>2. TypeOK'
  BY <1>1 DEF TypeOK
<1>3. Control'
  BY <1>1 DEF Control, TypeOK
<1>4. NoLostWakeup'
  BY DEF NoLostWakeup
<1> QED BY <1>2, <1>3, <1>4 DEF IInv

\* A connection that goes while it is the current one is still watched.
LEMMA EnvironmentKeepsIInv == IInv /\ Environment => IInv'
<1> SUFFICES ASSUME IInv, Environment PROVE IInv'
  OBVIOUS
<1>1. TypeOK /\ Control /\ NoLostWakeup
  BY DEF IInv
<1>2. CASE ChannelException
  <2> USE <1>1, <1>2 DEF ChannelException
  <2>1. TypeOK'
    BY DEF TypeOK
  <2>2. Control'
    BY DEF Control
  <2>3. NoLostWakeup'
    BY DEF NoLostWakeup, AttemptPending
  <2> QED BY <2>1, <2>2, <2>3 DEF IInv
<1>3. ASSUME NEW i \in ConnIds, ConnectionLost(i)
      PROVE  IInv'
  <2> USE <1>1, <1>3 DEF ConnectionLost
  <2>1. TypeOK'
    BY DEF TypeOK
  <2>2. Control'
    BY DEF Control, TypeOK
  <2>3. NoLostWakeup'
    <3>1. CASE i = cur
      <4>1. i <= dialed
        BY <3>1 DEF Control, ConnIds, TypeOK
      <4>2. monitor[i] = "waiting"
        BY <4>1 DEF Control, TypeOK
      <4> QED BY <3>1, <4>2 DEF NoLostWakeup, NoConn, ConnIds
    <3>2. CASE i # cur
      BY <3>2 DEF NoLostWakeup, AttemptPending, TypeOK
    <3> QED BY <3>1, <3>2
  <2> QED BY <2>1, <2>2, <2>3 DEF IInv
<1> QED BY <1>2, <1>3 DEF Environment

\* Every step of the producer and of the broker.
LEMMA NextKeepsIInv == IInv /\ [Next]_vars => IInv'
<1> SUFFICES ASSUME IInv, [Next]_vars PROVE IInv'
  OBVIOUS
<1>1. CASE Next
  BY <1>1, InitialKeepsIInv, LoopKeepsIInv, MonitorKeepsIInv, ProduceKeepsIInv,
     CloseKeepsIInv, EnvironmentKeepsIInv DEF Next
<1>2. CASE UNCHANGED vars
  BY <1>2 DEF vars, IInv, TypeOK, Control, NoLostWakeup, AttemptPending
<1> QED BY <1>1, <1>2

(* The inductive invariant holds of every behaviour of the producer.       *)
THEOREM InvariantHolds == Spec => []IInv
<1>1. Init => IInv
  BY InitIInv
<1>2. IInv /\ [Next]_vars => IInv'
  BY NextKeepsIInv
<1> QED BY <1>1, <1>2, PTL DEF Spec

\* The producer's variables stay in range, whatever the network does.
THEOREM TypeCorrect == Spec => []TypeOK
<1>1. IInv => TypeOK
  BY DEF IInv
<1> QED BY <1>1, InvariantHolds, PTL

\* A lost connection always leaves behind somebody who will replace it.
THEOREM WakeupIsNeverLost == Spec => []NoLostWakeup
<1>1. IInv => NoLostWakeup
  BY DEF IInv
<1> QED BY <1>1, InvariantHolds, PTL

\* Close is final once no attempt to connect is left over from before it.
THEOREM CloseIsFinal == Spec => ClosedForGood
<1> DEFINE Stays == isClosed /\ ~AttemptPending => isClosed' /\ ~AttemptPending'
<1>1. IInv /\ [Next]_vars => [Stays]_vars
  <2> SUFFICES ASSUME IInv, Next, isClosed, ~AttemptPending
               PROVE  isClosed' /\ ~AttemptPending'
    BY DEF Stays
  <2>1. TypeOK /\ Control /\ initial = "done" /\ loop = "waiting" /\ reconnectC = FALSE
    BY DEF IInv, AttemptPending, TypeOK
  <2>2. mu = "free"
    BY <2>1 DEF Control, TypeOK
  <2> USE <2>1, <2>2
  <2>3. ~Initial /\ ~Loop
    BY DEF Initial, InitialLock, InitialOk, InitialFail, InitialSignal, DialOk, DialFail,
           Loop, LoopReceive, LoopLock, LoopOk, LoopFail, LoopWake
  <2>4. ASSUME NEW i \in ConnIds, Monitor(i)
        PROVE  isClosed' /\ ~AttemptPending'
    BY <2>4 DEF Monitor, MonitorNotified, MonitorSignal, SignalReconnect, AttemptPending
  <2>5. ASSUME NEW p \in Producers, ProduceCall(p) \/ ProduceStep(p)
        PROVE  isClosed' /\ ~AttemptPending'
    BY <2>5 DEF ProduceCall, ProduceStep, ProduceCheck, ProduceSignal, ProducePublish,
                SignalReconnect, AttemptPending
  <2>6. Close => isClosed' /\ ~AttemptPending'
    BY DEF Close, AttemptPending
  <2>7. Environment => isClosed' /\ ~AttemptPending'
    BY DEF Environment, ChannelException, ConnectionLost, AttemptPending
  <2> QED BY <2>3, <2>4, <2>5, <2>6, <2>7 DEF Next
<1> QED BY <1>1, InvariantHolds, PTL DEF Spec, ClosedForGood, Stays
=============================================================================
