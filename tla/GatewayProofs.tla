--------------------------- MODULE GatewayProofs ---------------------------
(* The dispatcher, proved for every number of workers, every capacity and  *)
(* every number of items; then the process around it, for every number of  *)
(* event loops too: what holds of the dispatcher alone holds of it here,   *)
(* and the order in which main takes things down is right.                 *)
EXTENDS Gateway, FiniteSetTheorems, SequenceTheorems, TLAPS

-----------------------------------------------------------------------------
(* Sequences as channels.                                                  *)

\* Sending adds one item to the set of queued items.
LEMMA AppendToSet ==
    ASSUME NEW S, NEW s \in Seq(S), NEW x \in S
    PROVE  ToSet(Append(s, x)) = ToSet(s) \cup {x}
<1>1. Append(s, x) \in Seq(S) /\ Len(Append(s, x)) = Len(s) + 1
  BY AppendProperties
<1>2. \A i \in 1 .. Len(s) : Append(s, x)[i] = s[i]
  BY AppendProperties
<1>3. Append(s, x)[Len(s) + 1] = x
  BY AppendProperties
<1>4. DOMAIN s = 1 .. Len(s) /\ DOMAIN Append(s, x) = 1 .. (Len(s) + 1) /\ Len(s) \in Nat
  BY <1>1, LenProperties
<1> QED BY <1>2, <1>3, <1>4 DEF ToSet

\* Receiving splits the queued items into the head and the rest.
LEMMA HeadTailToSet ==
    ASSUME NEW S, NEW s \in Seq(S), s # <<>>
    PROVE  /\ Head(s) \in S
           /\ Tail(s) \in Seq(S)
           /\ Len(Tail(s)) = Len(s) - 1
           /\ \A i \in 1 .. Len(Tail(s)) : Tail(s)[i] = s[i + 1]
           /\ Head(s) = s[1]
           /\ ToSet(s) = {Head(s)} \cup ToSet(Tail(s))
<1>1. /\ Head(s) \in S
      /\ Tail(s) \in Seq(S)
      /\ Len(Tail(s)) = Len(s) - 1
      /\ \A i \in 1 .. Len(Tail(s)) : Tail(s)[i] = s[i + 1]
  BY HeadTailProperties
<1>2. Head(s) = s[1]
  OBVIOUS
<1>3. Len(s) \in Nat /\ Len(s) >= 1 /\ DOMAIN s = 1 .. Len(s)
  BY LenProperties, EmptySeq
<1>4. DOMAIN Tail(s) = 1 .. (Len(s) - 1)
  BY <1>1, LenProperties
<1>5. ToSet(s) \subseteq {Head(s)} \cup ToSet(Tail(s))
  <2> SUFFICES ASSUME NEW i \in 1 .. Len(s), s[i] # Head(s)
               PROVE  s[i] \in ToSet(Tail(s))
    BY <1>3 DEF ToSet
  <2>1. i - 1 \in 1 .. (Len(s) - 1)
    BY <1>2, <1>3
  <2>2. Tail(s)[i - 1] = s[i]
    BY <2>1, <1>1, <1>3
  <2> QED BY <2>1, <2>2, <1>4 DEF ToSet
<1>6. {Head(s)} \cup ToSet(Tail(s)) \subseteq ToSet(s)
  <2>1. Head(s) \in ToSet(s)
    BY <1>2, <1>3 DEF ToSet
  <2>2. ASSUME NEW i \in 1 .. (Len(s) - 1)
        PROVE  Tail(s)[i] \in ToSet(s)
    BY <1>1, <1>3 DEF ToSet
  <2> QED BY <2>1, <2>2, <1>4 DEF ToSet
<1> QED BY <1>1, <1>2, <1>5, <1>6

-----------------------------------------------------------------------------
(* The inductive invariant.                                                *)

\* Workers, context, channel and WaitGroup keep step with Start and Stop.
Lifecycle ==
    /\ wg = Cardinality(Live)
    /\ \A w \in Workers : wpc[w] = "produce" <=> hold[w] # NoItem
    /\ phase # "starting" => \A w \in Workers : wpc[w] # "unborn"
    /\ phase \in {"closing", "stopped"} => \A w \in Workers : wpc[w] = "exited"
    /\ closed <=> phase = "stopped"
    /\ cancelled <=> phase \in {"waiting", "closing", "stopped"}

\* The channel holds the youngest items, in the order of their dispatch.
ChannelOrder ==
    /\ \A i, j \in 1 .. Len(dataChan) : i < j => dataChan[i] < dataChan[j]
    /\ \A taken \in Held \cup Produced \cup failed :
           \A queued \in ToSet(dataChan) : taken < queued
    /\ \A item \in Accepted : item <= n

IInv == /\ TypeOK
        /\ Lifecycle
        /\ ChannelOrder
        /\ AtMostOnce
        /\ BoundedOvertaking

\* Nothing is accepted, and no worker exists, before Start.
LEMMA InitIInv == Init => IInv
<1> SUFFICES ASSUME Init PROVE IInv
  OBVIOUS
<1> USE DEF Init, NoItem
<1>1. ToSet(dataChan) = {} /\ Produced = {}
  BY DEF ToSet, Produced
<1>2. Held = {}
  BY DEF Held
<1>3. Live = {}
  BY DEF Live
<1>4. TypeOK
  <2>1. /\ dataChan \in Seq(Items)
        /\ Len(dataChan) = 0
        /\ published \in Seq(Items)
    BY EmptySeq
  <2>2. /\ wpc \in [Workers -> {"unborn", "select", "produce", "exited"}]
        /\ hold \in [Workers -> Items \cup {NoItem}]
    OBVIOUS
  <2>3. n \in 0 .. MaxItems /\ wg \in Nat /\ Len(dataChan) <= Capacity
    BY <2>1, CapacityAssumption, MaxItemsAssumption
  <2> QED BY <2>1, <2>2, <2>3 DEF TypeOK
<1>5. Lifecycle
  BY <1>3, FS_EmptySet DEF Lifecycle
<1>6. ChannelOrder
  BY <1>1, <1>2 DEF ChannelOrder, Accepted
<1>7. AtMostOnce
  BY <1>1, <1>2 DEF AtMostOnce, IsInjective
<1>8. BoundedOvertaking
  BY <1>1 DEF BoundedOvertaking
<1> QED BY <1>4, <1>5, <1>6, <1>7, <1>8 DEF IInv

-----------------------------------------------------------------------------
(* The owner's steps leave the data where it is.                           *)

\* What a step that leaves the data alone preserves.
LEMMA DataAtRest ==
    ASSUME IInv, UNCHANGED <<n, dataChan, hold, published, failed>>
    PROVE  ChannelOrder' /\ AtMostOnce' /\ BoundedOvertaking'
<1>1. /\ UNCHANGED <<n, dataChan, hold, published, failed>>
      /\ UNCHANGED <<Held, Produced, Accepted>>
  BY DEF Held, Produced, Accepted, ToSet
<1> QED BY <1>1 DEF IInv, ChannelOrder, AtMostOnce, BoundedOvertaking, ToSet, IsInjective

\* There are finitely many workers, so the WaitGroup can count them.
LEMMA LiveIsFinite == IsFiniteSet(Live) /\ Cardinality(Live) \in Nat
<1>1. Live \in SUBSET Workers
  BY DEF Live
<1>2. IsFiniteSet(Live)
  BY <1>1, WorkersAssumption, FS_Subset
<1> QED BY <1>2, FS_CardinalityType

\* Only the WaitGroup, the context and the phase change when main acts.
LEMMA OwnerKeepsIInv == IInv /\ Owner => IInv'
<1> SUFFICES ASSUME IInv, Owner PROVE IInv'
  OBVIOUS
<1>1. UNCHANGED <<n, dataChan, hold, published, failed>>
  BY DEF Owner, StartWorker, StartReturns, StopCancel, StopWait, StopClose
<1>2. ChannelOrder' /\ AtMostOnce' /\ BoundedOvertaking'
  BY <1>1, DataAtRest
<1>3. TypeOK /\ Lifecycle
  BY DEF IInv
<1>4. ASSUME NEW w \in Workers, StartWorker(w)
      PROVE  TypeOK' /\ Lifecycle'
  <2> USE <1>3, <1>4 DEF StartWorker
  <2>1. TypeOK'
    BY DEF TypeOK
  <2>2. w \notin Live /\ Live' = Live \cup {w}
    BY DEF Live, TypeOK
  <2>3. Cardinality(Live') = Cardinality(Live) + 1
    BY <2>2, LiveIsFinite, FS_AddElement
  <2> QED BY <2>1, <2>3 DEF Lifecycle, TypeOK, NoItem
<1>5. CASE StartReturns
  <2>1. Live' = Live
    BY <1>5 DEF StartReturns, Live
  <2>2. TypeOK'
    BY <1>3, <1>5 DEF StartReturns, TypeOK
  <2>3. Lifecycle'
    BY <1>3, <1>5, <2>1 DEF StartReturns, Lifecycle
  <2> QED BY <1>2, <2>2, <2>3 DEF IInv
<1>6. CASE StopCancel
  <2>1. Live' = Live
    BY <1>6 DEF StopCancel, Live
  <2>2. TypeOK'
    BY <1>3, <1>6 DEF StopCancel, TypeOK
  <2>3. Lifecycle'
    BY <1>3, <1>6, <2>1 DEF StopCancel, Lifecycle
  <2> QED BY <1>2, <2>2, <2>3 DEF IInv
<1>7. CASE StopWait
  <2> USE <1>3, <1>7 DEF StopWait
  <2>1. Live' = Live
    BY DEF Live
  <2>2. Live = {}
    BY LiveIsFinite, FS_EmptySet DEF Lifecycle
  <2>3. \A w \in Workers : wpc[w] = "exited"
    BY <2>2 DEF Live, Lifecycle, TypeOK
  <2>4. TypeOK'
    BY DEF TypeOK
  <2>5. Lifecycle'
    BY <2>1, <2>3 DEF Lifecycle
  <2> QED BY <1>2, <2>4, <2>5 DEF IInv
<1>8. CASE StopClose
  <2>1. Live' = Live
    BY <1>8 DEF StopClose, Live
  <2>2. TypeOK'
    BY <1>3, <1>8 DEF StopClose, TypeOK
  <2>3. Lifecycle'
    BY <1>3, <1>8, <2>1 DEF StopClose, Lifecycle
  <2> QED BY <1>2, <2>2, <2>3 DEF IInv
<1> QED BY <1>2, <1>4, <1>5, <1>6, <1>7, <1>8 DEF Owner, IInv

-----------------------------------------------------------------------------
\* Everything in the dispatcher came from a Dispatch call.
LEMMA AcceptedAreItems == TypeOK => Accepted \subseteq Items
<1> SUFFICES ASSUME TypeOK PROVE Accepted \subseteq Items
  OBVIOUS
<1>1. ToSet(dataChan) \subseteq Items /\ Produced \subseteq Items
  BY LenProperties, ElementOfSeq DEF TypeOK, ToSet, Produced
<1>2. Held \subseteq Items /\ failed \subseteq Items
  BY DEF TypeOK, Held
<1> QED BY <1>1, <1>2 DEF Accepted

\* A sent item is younger than everything the channel has taken so far.
LEMMA DispatchKeepsIInv == IInv /\ Dispatch => IInv'
<1> SUFFICES ASSUME IInv, Dispatch PROVE IInv'
  OBVIOUS
<1>1. TypeOK /\ Lifecycle /\ ChannelOrder /\ AtMostOnce /\ BoundedOvertaking
  BY DEF IInv
<1>2. n' = n + 1 /\ n' \in Items /\ n \in Nat
  BY <1>1, MaxItemsAssumption DEF Dispatch, TypeOK, Items
<1>3. UNCHANGED <<closed, cancelled, phase, wg, wpc, hold, published, failed>>
  BY DEF Dispatch
<1>4. UNCHANGED <<Held, Produced, Live>>
  BY <1>3 DEF Held, Produced, Live, ToSet
<1>5. Accepted \subseteq Items
  BY <1>1, AcceptedAreItems
<1>6. CASE CanSend
  <2>1. dataChan' = Append(dataChan, n')
    BY <1>6 DEF Dispatch
  <2>2. dataChan \in Seq(Items) /\ Len(dataChan) < Capacity
    BY <1>1, <1>6 DEF TypeOK, CanSend
  <2>3. /\ dataChan' \in Seq(Items)
        /\ Len(dataChan') = Len(dataChan) + 1
        /\ \A i \in 1 .. Len(dataChan) : dataChan'[i] = dataChan[i]
        /\ dataChan'[Len(dataChan) + 1] = n'
        /\ Len(dataChan) \in Nat
    BY <2>1, <2>2, <1>2, AppendProperties, LenProperties
  <2>4. ToSet(dataChan') = ToSet(dataChan) \cup {n'}
    BY <2>1, <2>2, <1>2, AppendToSet
  <2>5. TypeOK'
    BY <1>1, <1>2, <1>3, <2>2, <2>3, CapacityAssumption DEF TypeOK, Items
  <2>6. Lifecycle'
    BY <1>1, <1>3, <1>4 DEF Lifecycle
  <2>7. \A i \in 1 .. Len(dataChan) : dataChan[i] \in ToSet(dataChan)
    BY <2>2, LenProperties DEF ToSet
  <2>8. \A item \in Accepted : item < n'
    BY <1>1, <1>2, <1>5 DEF ChannelOrder, Items
  <2>9. ChannelOrder'
    <3>1. \A i, j \in 1 .. Len(dataChan') : i < j => dataChan'[i] < dataChan'[j]
      BY <1>1, <2>3, <2>7, <2>8 DEF ChannelOrder, Accepted
    <3>2. \A taken \in (Held \cup Produced \cup failed)' :
              \A queued \in ToSet(dataChan)' : taken < queued
      BY <1>1, <1>3, <1>4, <2>4, <2>8 DEF ChannelOrder, Accepted
    <3>3. \A item \in Accepted' : item <= n'
      <4>1. Accepted' = Accepted \cup {n'}
        BY <1>3, <1>4, <2>4 DEF Accepted
      <4> QED BY <4>1, <1>5, <2>8, <1>2 DEF Items
    <3> QED BY <3>1, <3>2, <3>3 DEF ChannelOrder
  <2>10. AtMostOnce'
    BY <1>1, <1>3, <1>4 DEF AtMostOnce, IsInjective
  <2>11. BoundedOvertaking'
    BY <1>1, <1>3, <1>4, <2>4, <2>8 DEF BoundedOvertaking, Accepted
  <2> QED BY <2>5, <2>6, <2>9, <2>10, <2>11 DEF IInv
<1>7. CASE ~CanSend
  <2>1. dataChan' = dataChan
    BY <1>7 DEF Dispatch
  <2>2. Accepted' = Accepted
    BY <1>3, <1>4, <2>1 DEF Accepted, ToSet
  <2>3. TypeOK' /\ Lifecycle'
    BY <1>1, <1>2, <1>3, <1>4, <2>1 DEF TypeOK, Lifecycle, Items
  <2>4. ChannelOrder'
    <3> QED BY <1>1, <1>2, <1>3, <1>4, <1>5, <2>1, <2>2 DEF ChannelOrder, ToSet, Items
  <2>5. AtMostOnce' /\ BoundedOvertaking'
    BY <1>1, <1>3, <1>4, <2>1 DEF AtMostOnce, BoundedOvertaking, IsInjective, ToSet
  <2> QED BY <2>3, <2>4, <2>5 DEF IInv
<1> QED BY <1>6, <1>7
-----------------------------------------------------------------------------
\* A worker that leaves is counted out by its deferred wg.Done.
LEMMA ExitKeepsIInv ==
    ASSUME IInv, NEW w \in Workers, Exit(w)
    PROVE  IInv'
<1>1. TypeOK /\ Lifecycle
  BY DEF IInv
<1>2. ChannelOrder' /\ AtMostOnce' /\ BoundedOvertaking'
  <2>1. UNCHANGED <<n, dataChan, hold, published, failed>>
    BY DEF Exit
  <2> QED BY <2>1, DataAtRest
<1>3. w \in Live /\ Live' = Live \ {w}
  BY <1>1 DEF Live, TypeOK, Exit
<1>4. wg' = Cardinality(Live') /\ wg' \in Nat
  <2>1. IsFiniteSet(Live') /\ Cardinality(Live') = Cardinality(Live) - 1
    BY <1>3, LiveIsFinite, FS_RemoveElement
  <2>2. Cardinality(Live') \in Nat
    BY <2>1, FS_CardinalityType
  <2> QED BY <1>1, <2>1, <2>2 DEF Exit, Lifecycle
<1>5. TypeOK'
  BY <1>1, <1>4 DEF TypeOK, Exit
<1>6. Lifecycle'
  BY <1>1, <1>4 DEF TypeOK, Lifecycle, Exit, NoItem
<1> QED BY <1>2, <1>5, <1>6 DEF IInv

\* The head of the channel is older than the rest of the channel and
\* younger than everything taken before it.
LEMMA ReceiveKeepsIInv ==
    ASSUME IInv, NEW w \in Workers, Receive(w)
    PROVE  IInv'
<1>1. TypeOK /\ Lifecycle /\ ChannelOrder /\ AtMostOnce /\ BoundedOvertaking
  BY DEF IInv
<1>2. dataChan # <<>> /\ dataChan \in Seq(Items)
  BY <1>1 DEF Receive, Lifecycle, TypeOK
<1> DEFINE item == Head(dataChan)
<1>3. /\ item \in Items
      /\ item = dataChan[1]
      /\ dataChan' = Tail(dataChan)
      /\ dataChan' \in Seq(Items)
      /\ Len(dataChan') = Len(dataChan) - 1
      /\ \A i \in 1 .. Len(dataChan') : dataChan'[i] = dataChan[i + 1]
      /\ ToSet(dataChan) = {item} \cup ToSet(dataChan')
  BY <1>2, HeadTailToSet DEF Receive
<1>4. hold[w] = NoItem /\ hold' = [hold EXCEPT ![w] = item]
  BY <1>1, <1>2 DEF Receive, Lifecycle
<1>5. UNCHANGED <<n, closed, cancelled, phase, wg, published, failed, Produced>>
  BY DEF Receive, Produced, ToSet
<1>6. item # NoItem
  BY <1>3 DEF Items, NoItem
<1>7. Held' = Held \cup {item}
  BY <1>1, <1>4, <1>6 DEF Held, TypeOK
<1>8. Len(dataChan) \in Nat /\ Len(dataChan) >= 1 /\ DOMAIN dataChan' = 1 .. Len(dataChan')
  BY <1>2, <1>3, LenProperties, EmptySeq
<1>9. Live' = Live
  BY <1>1 DEF Live, Receive, TypeOK
<1>10. TypeOK'
  <2>1. hold' \in [Workers -> Items \cup {NoItem}]
    BY <1>1, <1>3, <1>4 DEF TypeOK
  <2>2. wpc' \in [Workers -> {"unborn", "select", "produce", "exited"}]
    BY <1>1 DEF Receive, TypeOK
  <2>3. Len(dataChan') <= Capacity
    BY <1>1, <1>3, <1>8, CapacityAssumption DEF TypeOK
  <2> QED BY <1>1, <1>3, <1>5, <2>1, <2>2, <2>3 DEF TypeOK
<1>11. Lifecycle'
  BY <1>1, <1>4, <1>5, <1>6, <1>9 DEF Lifecycle, Receive, TypeOK
<1>12. \A other \in ToSet(dataChan') : item < other
  <2>1. \A i \in 1 .. Len(dataChan') : item < dataChan'[i]
    BY <1>1, <1>3, <1>8 DEF ChannelOrder
  <2> QED BY <2>1, <1>8 DEF ToSet
<1>13. \A taken \in Held \cup Produced \cup failed : taken < item
  BY <1>1, <1>3 DEF ChannelOrder
<1>14. ChannelOrder'
  <2>1. \A i, j \in 1 .. Len(dataChan') : i < j => dataChan'[i] < dataChan'[j]
    BY <1>1, <1>3, <1>8 DEF ChannelOrder
  <2>2. \A taken \in (Held \cup Produced \cup failed)' :
            \A queued \in ToSet(dataChan') : taken < queued
    BY <1>1, <1>3, <1>5, <1>7, <1>12 DEF ChannelOrder
  <2>3. Accepted' = Accepted
    BY <1>3, <1>5, <1>7 DEF Accepted
  <2> QED BY <1>1, <1>5, <2>1, <2>2, <2>3 DEF ChannelOrder, ToSet
<1>15. item \notin Held \cup Produced \cup failed
  BY <1>3, <1>13 DEF Items
<1>16. AtMostOnce'
  <2>1. \A u, v \in Workers : hold'[u] = hold'[v] /\ hold'[u] # NoItem => u = v
    BY <1>1, <1>4, <1>15 DEF AtMostOnce, Held, TypeOK
  <2> QED BY <1>1, <1>5, <1>7, <1>15, <2>1 DEF AtMostOnce
<1>17. BoundedOvertaking'
  <2> SUFFICES ASSUME NEW old \in Produced \cup failed
               PROVE  /\ \E v \in Workers : hold'[v] = NoItem \/ hold'[v] > old
                      /\ \A other \in ToSet(dataChan') : old < other
    BY <1>5 DEF BoundedOvertaking, ToSet
  <2>1. PICK v \in Workers : hold[v] = NoItem \/ hold[v] > old
    BY <1>1 DEF BoundedOvertaking
  <2>2. hold'[w] > old
    BY <1>1, <1>3, <1>4, <1>13, AcceptedAreItems DEF TypeOK, Items, Accepted
  <2>3. CASE v = w
    BY <2>2, <2>3, <1>1, <1>3 DEF BoundedOvertaking
  <2>4. CASE v # w
    BY <2>1, <2>4, <1>1, <1>3, <1>4 DEF BoundedOvertaking, TypeOK
  <2> QED BY <2>3, <2>4
<1> QED BY <1>10, <1>11, <1>14, <1>16, <1>17 DEF IInv
-----------------------------------------------------------------------------
\* What both outcomes of Produce have in common: the worker's hand is empty
\* again and its item has joined the items that are done with.
LEMMA ProduceKeepsData ==
    ASSUME IInv, NEW w \in Workers,
           wpc[w] = "produce",
           hold' = [hold EXCEPT ![w] = NoItem],
           wpc' = [wpc EXCEPT ![w] = "select"],
           UNCHANGED <<n, dataChan, closed, cancelled, phase, wg>>,
           (Produced \cup failed)' = (Produced \cup failed) \cup {hold[w]}
    PROVE  /\ hold[w] \in Items
           /\ hold[w] \notin Produced \cup failed
           /\ hold' \in [Workers -> Items \cup {NoItem}]
           /\ wpc' \in [Workers -> {"unborn", "select", "produce", "exited"}]
           /\ Lifecycle'
           /\ ChannelOrder'
           /\ \A u, v \in Workers : hold'[u] = hold'[v] /\ hold'[u] # NoItem => u = v
           /\ Held' \cap (Produced \cup failed)' = {}
           /\ BoundedOvertaking'
<1>1. TypeOK /\ Lifecycle /\ ChannelOrder /\ AtMostOnce /\ BoundedOvertaking
  BY DEF IInv
<1> DEFINE item == hold[w]
<1>2. item \in Items /\ item \in Held
  BY <1>1 DEF Lifecycle, TypeOK, Held
<1>3. item \notin Produced \cup failed
  BY <1>1, <1>2 DEF AtMostOnce
<1>4. /\ hold' \in [Workers -> Items \cup {NoItem}]
      /\ wpc' \in [Workers -> {"unborn", "select", "produce", "exited"}]
  BY <1>1 DEF TypeOK
<1>5. Held' = Held \ {item}
  BY <1>1, <1>2 DEF Held, AtMostOnce, TypeOK
<1>6. Live' = Live
  BY <1>1 DEF Live, TypeOK
<1>7. Lifecycle'
  BY <1>1, <1>6 DEF Lifecycle, TypeOK
<1>8. ChannelOrder'
  <2>1. /\ (Held \cup Produced \cup failed)' = Held \cup Produced \cup failed
        /\ ToSet(dataChan)' = ToSet(dataChan)
    BY <1>2, <1>5 DEF ToSet
  <2>2. Accepted' = Accepted
    BY <2>1 DEF Accepted
  <2> QED BY <1>1, <2>1, <2>2 DEF ChannelOrder
<1>9. \A u, v \in Workers : hold'[u] = hold'[v] /\ hold'[u] # NoItem => u = v
  BY <1>1 DEF AtMostOnce, TypeOK
<1>10. Held' \cap (Produced \cup failed)' = {}
  BY <1>1, <1>5 DEF AtMostOnce
<1>11. BoundedOvertaking'
  <2> SUFFICES ASSUME NEW old \in (Produced \cup failed) \cup {item}
               PROVE  /\ \E v \in Workers : hold'[v] = NoItem \/ hold'[v] > old
                      /\ \A other \in ToSet(dataChan) : old < other
    BY DEF BoundedOvertaking, ToSet
  <2>1. hold'[w] = NoItem
    BY <1>1 DEF TypeOK
  <2>2. \A other \in ToSet(dataChan) : old < other
    BY <1>1, <1>2 DEF BoundedOvertaking, ChannelOrder
  <2> QED BY <2>1, <2>2
<1> QED BY <1>2, <1>3, <1>4, <1>7, <1>8, <1>9, <1>10, <1>11

\* The item is published: appended, once, to what the message queue has.
LEMMA ProduceOkKeepsIInv ==
    ASSUME IInv, NEW w \in Workers, ProduceOk(w)
    PROVE  IInv'
<1>1. TypeOK /\ AtMostOnce
  BY DEF IInv
<1>2. hold[w] \in Items /\ published \in Seq(Items)
  BY DEF IInv, Lifecycle, TypeOK, ProduceOk
<1>3. Produced' = Produced \cup {hold[w]} /\ failed' = failed
  BY <1>2, AppendToSet DEF ProduceOk, Produced
<1>4. /\ hold[w] \notin Produced \cup failed
      /\ hold' \in [Workers -> Items \cup {NoItem}]
      /\ wpc' \in [Workers -> {"unborn", "select", "produce", "exited"}]
      /\ Lifecycle' /\ ChannelOrder' /\ BoundedOvertaking'
      /\ \A u, v \in Workers : hold'[u] = hold'[v] /\ hold'[u] # NoItem => u = v
      /\ Held' \cap (Produced \cup failed)' = {}
  <2>1. (Produced \cup failed)' = (Produced \cup failed) \cup {hold[w]}
    BY <1>3
  <2> QED BY <2>1, ProduceKeepsData DEF ProduceOk
<1>5. /\ published' \in Seq(Items)
      /\ Len(published') = Len(published) + 1
      /\ \A i \in 1 .. Len(published) : published'[i] = published[i]
      /\ published'[Len(published) + 1] = hold[w]
      /\ Len(published) \in Nat
      /\ DOMAIN published = 1 .. Len(published)
      /\ DOMAIN published' = 1 .. (Len(published) + 1)
  BY <1>2, AppendProperties, LenProperties DEF ProduceOk
<1>6. TypeOK'
  BY <1>1, <1>4, <1>5 DEF ProduceOk, TypeOK
<1>7. AtMostOnce'
  <2>1. \A i \in 1 .. Len(published) : published[i] # hold[w]
    BY <1>4, <1>5 DEF Produced, ToSet
  <2>2. IsInjective(published')
    <3> SUFFICES ASSUME NEW i \in DOMAIN published', NEW j \in DOMAIN published',
                        published'[i] = published'[j]
                 PROVE  i = j
      BY DEF IsInjective
    <3>1. \A a, b \in 1 .. Len(published) : published[a] = published[b] => a = b
      BY <1>1, <1>5 DEF AtMostOnce, IsInjective
    <3> QED BY <1>5, <2>1, <3>1
  <2>3. (Produced \cap failed)' = {}
    BY <1>1, <1>3, <1>4 DEF AtMostOnce
  <2> QED BY <1>4, <2>2, <2>3 DEF AtMostOnce
<1> QED BY <1>4, <1>6, <1>7 DEF IInv

\* The item is lost to an error, and was not published before.
LEMMA ProduceErrKeepsIInv ==
    ASSUME IInv, NEW w \in Workers, ProduceErr(w)
    PROVE  IInv'
<1>1. TypeOK /\ AtMostOnce
  BY DEF IInv
<1>2. hold[w] \in Items
  BY DEF IInv, Lifecycle, TypeOK, ProduceErr
<1>3. UNCHANGED <<published, Produced>> /\ failed' = failed \cup {hold[w]}
  BY DEF ProduceErr, Produced, ToSet
<1>4. /\ hold[w] \notin Produced \cup failed
      /\ hold' \in [Workers -> Items \cup {NoItem}]
      /\ wpc' \in [Workers -> {"unborn", "select", "produce", "exited"}]
      /\ Lifecycle' /\ ChannelOrder' /\ BoundedOvertaking'
      /\ \A u, v \in Workers : hold'[u] = hold'[v] /\ hold'[u] # NoItem => u = v
      /\ Held' \cap (Produced \cup failed)' = {}
  <2>1. (Produced \cup failed)' = (Produced \cup failed) \cup {hold[w]}
    BY <1>3
  <2> QED BY <2>1, ProduceKeepsData DEF ProduceErr
<1>5. TypeOK'
  BY <1>1, <1>2, <1>3, <1>4 DEF ProduceErr, TypeOK
<1>6. AtMostOnce'
  BY <1>1, <1>3, <1>4 DEF AtMostOnce, IsInjective
<1> QED BY <1>4, <1>5, <1>6 DEF IInv

-----------------------------------------------------------------------------
\* Every step keeps the invariant.
LEMMA NextKeepsIInv == IInv /\ [Next]_vars => IInv'
<1> SUFFICES ASSUME IInv, [Next]_vars PROVE IInv'
  OBVIOUS
<1>1. CASE Owner
  BY <1>1, OwnerKeepsIInv
<1>2. CASE Dispatch
  BY <1>2, DispatchKeepsIInv
<1>3. ASSUME NEW w \in Workers, Worker(w)
      PROVE  IInv'
  BY <1>3, ReceiveKeepsIInv, ExitKeepsIInv, ProduceOkKeepsIInv, ProduceErrKeepsIInv DEF Worker
<1>4. CASE UNCHANGED vars
  <2>1. UNCHANGED <<n, dataChan, closed, cancelled, phase, wg, wpc, hold, published, failed>>
    BY <1>4 DEF vars
  <2>2. ChannelOrder' /\ AtMostOnce' /\ BoundedOvertaking'
    BY <2>1, DataAtRest
  <2>3. TypeOK' /\ Lifecycle'
    BY <2>1 DEF IInv, TypeOK, Lifecycle, Live
  <2> QED BY <2>2, <2>3 DEF IInv
<1> QED BY <1>1, <1>2, <1>3, <1>4 DEF Next

(* The inductive invariant holds of every behaviour of the dispatcher.     *)
THEOREM InvariantHolds == Spec => []IInv
<1>1. Init => IInv
  BY InitIInv
<1>2. IInv /\ [Next]_vars => IInv'
  BY NextKeepsIInv
<1> QED BY <1>1, <1>2, PTL DEF Spec

\* Every variable stays in its range, the channel within its capacity, the
\* WaitGroup's counter above zero (sync.WaitGroup panics below it).
THEOREM TypeCorrect == Spec => []TypeOK
<1>1. IInv => TypeOK
  BY DEF IInv
<1> QED BY <1>1, InvariantHolds, PTL

\* No Produce is repeated for an item, whatever the interleaving of workers.
THEOREM PublishedAtMostOnce == Spec => []AtMostOnce
<1>1. IInv => AtMostOnce
  BY DEF IInv
<1> QED BY <1>1, InvariantHolds, PTL

\* Items overtake each other only within the pool of workers.
THEOREM OvertakingIsBounded == Spec => []BoundedOvertaking
<1>1. IInv => BoundedOvertaking
  BY DEF IInv
<1> QED BY <1>1, InvariantHolds, PTL

\* Once Stop's wg.Wait has returned, no worker is left that could publish or
\* read the closed channel.
THEOREM StopIsQuiescent == Spec => []StopQuiesces
<1>1. IInv => StopQuiesces
  BY DEF IInv, Lifecycle, StopQuiesces
<1> QED BY <1>1, InvariantHolds, PTL
-----------------------------------------------------------------------------
(* The dispatcher implements the relaxed relay.                            *)

Pending == ToSet(dataChan) \cup Held

\* The channel holds as many items as it is long: no item is queued twice.
LEMMA ChannelCardinality ==
    ASSUME IInv
    PROVE  /\ IsFiniteSet(ToSet(dataChan))
           /\ Cardinality(ToSet(dataChan)) = Len(dataChan)
           /\ Len(dataChan) \in Nat
<1>1. dataChan \in Seq(Items)
  BY DEF IInv, TypeOK
<1>2. Len(dataChan) \in Nat /\ DOMAIN dataChan = 1 .. Len(dataChan)
  BY <1>1, LenProperties
<1> DEFINE D == 1 .. Len(dataChan)
<1>3. \A i, j \in D : dataChan[i] = dataChan[j] => i = j
  <2> SUFFICES ASSUME NEW i \in D, NEW j \in D, i < j
               PROVE  dataChan[i] # dataChan[j]
    BY <1>2
  <2>1. dataChan[i] < dataChan[j]
    BY DEF IInv, ChannelOrder
  <2>2. dataChan[i] \in Items /\ dataChan[j] \in Items
    BY <1>1, <1>2, ElementOfSeq
  <2> QED BY <2>1, <2>2 DEF Items
<1>4. dataChan \in Bijection(D, ToSet(dataChan))
  <2>1. dataChan \in [D -> ToSet(dataChan)]
    BY <1>1, <1>2, SeqDef DEF ToSet
  <2>2. dataChan \in Injection(D, ToSet(dataChan))
    BY <1>2, <1>3, <2>1 DEF Injection, IsInjective
  <2>3. \A item \in ToSet(dataChan) : \E i \in D : dataChan[i] = item
    BY <1>2 DEF ToSet
  <2>4. dataChan \in Surjection(D, ToSet(dataChan))
    BY <2>1, <2>3 DEF Surjection
  <2> QED BY <2>2, <2>4 DEF Bijection
<1>5. IsFiniteSet(D) /\ Cardinality(D) = Len(dataChan)
  <2>1. /\ IsFiniteSet(D)
        /\ Cardinality(D) = IF 1 > Len(dataChan) THEN 0 ELSE Len(dataChan) - 1 + 1
    <3>1. 1 \in Int /\ Len(dataChan) \in Int
      BY <1>2
    <3> QED BY <3>1, FS_Interval, Zenon
  <2> QED BY <1>2, <2>1
<1>6. ExistsBijection(D, ToSet(dataChan))
  BY <1>4 DEF ExistsBijection
<1> QED BY <1>2, <1>5, <1>6, FS_Bijection

\* Items in the hands of a set of workers are at most as many as the workers.
LEMMA HandsCardinality ==
    ASSUME IInv, NEW V \in SUBSET Workers, NEW S,
           \A item \in S : \E v \in V : hold[v] = item
    PROVE  /\ IsFiniteSet(S)
           /\ Cardinality(S) <= Cardinality(V)
           /\ Cardinality(S) \in Nat /\ Cardinality(V) \in Nat
<1> DEFINE f == [item \in S |-> CHOOSE v \in V : hold[v] = item]
<1>1. \A item \in S : f[item] \in V /\ hold[f[item]] = item
  OBVIOUS
<1>2. f \in Injection(S, V)
  BY <1>1 DEF Injection, IsInjective
<1>3. IsFiniteSet(V)
  BY WorkersAssumption, FS_Subset
<1> HIDE DEF f
<1>4. IsFiniteSet(S) /\ Cardinality(S) <= Cardinality(V)
  BY <1>2, <1>3, FS_Injection
<1> QED BY <1>3, <1>4, FS_CardinalityType

\* Items inside the relay: at least the channel's, at most a pool more.
LEMMA PendingCardinality ==
    ASSUME IInv
    PROVE  /\ Cardinality(Pending) >= Len(dataChan)
           /\ Cardinality(Pending) <= Len(dataChan) + Cardinality(Workers)
           /\ Cardinality(Pending) \in Nat
           /\ Cardinality(Workers) \in Nat
<1>1. /\ IsFiniteSet(Held)
      /\ Cardinality(Held) <= Cardinality(Workers)
      /\ Cardinality(Held) \in Nat /\ Cardinality(Workers) \in Nat
  <2>1. \A item \in Held : \E v \in Workers : hold[v] = item
    BY DEF Held
  <2> QED BY <2>1, HandsCardinality
<1>2. /\ IsFiniteSet(ToSet(dataChan))
      /\ Cardinality(ToSet(dataChan)) = Len(dataChan)
      /\ Len(dataChan) \in Nat
  BY ChannelCardinality
<1>3. ToSet(dataChan) \cap Held = {}
  <2>1. \A item \in Held : item \in Items
    BY AcceptedAreItems DEF IInv, Accepted
  <2>2. \A item \in Held : \A queued \in ToSet(dataChan) : item < queued
    BY DEF IInv, ChannelOrder
  <2> QED BY <2>1, <2>2 DEF Items
<1>4. Cardinality(ToSet(dataChan) \cap Held) = 0
  BY <1>3, FS_EmptySet
<1>5. Cardinality(Pending) = Len(dataChan) + Cardinality(Held)
  <2>1. Cardinality(Pending) =
            Cardinality(ToSet(dataChan)) + Cardinality(Held)
            - Cardinality(ToSet(dataChan) \cap Held)
    BY <1>1, <1>2, FS_Union, Zenon DEF Pending
  <2> QED BY <1>1, <1>2, <1>4, <2>1
<1> QED BY <1>1, <1>2, <1>5

\* The relay counts as the dispatcher does.
LEMMA SameCardinality == \A S : Relay!Cardinality(S) = Cardinality(S)
  BY Zenon DEF Relay!Cardinality, Cardinality

\* Relay!Rank bounds how many older items are inside when one leaves.
LEMMA RankBelowPool ==
    ASSUME IInv, NEW w \in Workers, wpc[w] = "produce"
    PROVE  Relay!Rank(hold[w]) < Cardinality(Workers)
<1> DEFINE Older == {other \in Pending : other < hold[w]}
           Rest == Workers \ {w}
<1>1. TypeOK /\ Lifecycle /\ ChannelOrder
  BY DEF IInv
<1>2. hold[w] \in Held /\ hold[w] \in Items
  BY <1>1 DEF Lifecycle, TypeOK, Held
<1>3. ToSet(dataChan) \subseteq Items /\ Held \subseteq Items
  BY <1>1, AcceptedAreItems DEF Accepted
<1>4. \A other \in ToSet(dataChan) : ~(other < hold[w])
  <2> SUFFICES ASSUME NEW other \in ToSet(dataChan) PROVE ~(other < hold[w])
    OBVIOUS
  <2>1. hold[w] < other
    BY <1>1, <1>2 DEF ChannelOrder
  <2> QED BY <1>2, <1>3, <2>1 DEF Items
<1>5. \A other \in Older : other \in Held /\ other # hold[w]
  BY <1>2, <1>3, <1>4 DEF Pending, Items
<1>6. \A other \in Older : \E v \in Rest : hold[v] = other
  BY <1>5 DEF Held
<1>7. Cardinality(Older) <= Cardinality(Rest) /\ Cardinality(Older) \in Nat
  <2>1. Rest \in SUBSET Workers
    OBVIOUS
  <2> HIDE DEF Older, Rest
  <2> QED BY <1>6, <2>1, HandsCardinality
<1>8. Cardinality(Rest) = Cardinality(Workers) - 1 /\ Cardinality(Workers) \in Nat
  BY WorkersAssumption, FS_RemoveElement, FS_CardinalityType
<1>9. Relay!Rank(hold[w]) = Cardinality(Older)
  BY SameCardinality DEF Relay!Rank, Pending
<1> HIDE DEF Older, Rest
<1> QED BY <1>7, <1>8, <1>9

\* A Produce that returns is the relay letting the item out.
LEMMA ProduceIsLeave ==
    ASSUME IInv, NEW w \in Workers, ProduceOk(w) \/ ProduceErr(w)
    PROVE  \E item \in Pending : Relay!Leave(item)
<1>1. TypeOK /\ Lifecycle /\ ChannelOrder /\ AtMostOnce
  BY DEF IInv
<1>2. wpc[w] = "produce" /\ hold' = [hold EXCEPT ![w] = NoItem]
  BY DEF ProduceOk, ProduceErr
<1>3. hold[w] \in Held /\ hold[w] \in Items
  BY <1>1, <1>2 DEF Lifecycle, TypeOK, Held
<1>4. hold[w] \notin ToSet(dataChan)
  BY <1>1, <1>3 DEF ChannelOrder, Items
<1>5. Held' = Held \ {hold[w]}
  BY <1>1, <1>2, <1>3 DEF Held, AtMostOnce, TypeOK
<1>6. dataChan' = dataChan /\ n' = n /\ closed' = closed
  BY DEF ProduceOk, ProduceErr
<1>7. (ToSet(dataChan) \cup Held)' = (ToSet(dataChan) \cup Held) \ {hold[w]}
  BY <1>4, <1>5, <1>6
<1>8. ~closed
  BY <1>1, <1>2 DEF Lifecycle
<1>9. published' \in {published, Append(published, hold[w])}
  BY DEF ProduceOk, ProduceErr
<1>10. Relay!Leave(hold[w])
  BY <1>2, <1>6, <1>7, <1>8, <1>9, RankBelowPool DEF Relay!Leave
<1> QED BY <1>3, <1>10 DEF Pending

\* Dispatch accepts only below the relay's bound and refuses only above it.
LEMMA DispatchIsAcceptOrRefuse ==
    IInv /\ Dispatch => Relay!Accept \/ Relay!Refuse
<1> SUFFICES ASSUME IInv, Dispatch PROVE Relay!Accept \/ Relay!Refuse
  OBVIOUS
<1>1. dataChan \in Seq(Items) /\ Len(dataChan) <= Capacity /\ Len(dataChan) \in Nat
  BY LenProperties DEF IInv, TypeOK
<1>2. n' \in Items
  BY MaxItemsAssumption DEF Dispatch, IInv, TypeOK, Items
<1>3. Held' = Held /\ n' = n + 1 /\ published' = published /\ closed' = closed
  BY DEF Dispatch, Held
<1>4. CASE CanSend
  <2>1. ToSet(dataChan)' = ToSet(dataChan) \cup {n'}
    BY <1>1, <1>2, <1>4, AppendToSet DEF Dispatch
  <2>2. Cardinality(Pending) < Capacity + Cardinality(Workers)
    BY <1>1, <1>4, PendingCardinality, CapacityAssumption DEF CanSend
  <2>3. (ToSet(dataChan) \cup Held)' = (ToSet(dataChan) \cup Held) \cup {n'}
    BY <1>3, <2>1
  <2> QED BY <1>3, <1>4, <2>2, <2>3, SameCardinality DEF Relay!Accept, CanSend, Pending
<1>5. CASE ~CanSend
  <2>1. (ToSet(dataChan) \cup Held)' = ToSet(dataChan) \cup Held
    BY <1>3, <1>5 DEF Dispatch, ToSet
  <2>2. closed \/ Cardinality(Pending) >= Capacity
    BY <1>1, <1>5, PendingCardinality, CapacityAssumption DEF CanSend
  <2> QED BY <1>3, <2>1, <2>2, SameCardinality DEF Relay!Refuse, Pending
<1> QED BY <1>4, <1>5

\* The other steps are invisible from outside, except the close of the channel.
LEMMA StepRefines == IInv /\ [Next]_vars => [Relay!Next]_(Relay!vars)
<1> SUFFICES ASSUME IInv, [Next]_vars PROVE [Relay!Next]_(Relay!vars)
  OBVIOUS
<1>1. CASE Owner
  <2>1. /\ UNCHANGED <<n, published>>
        /\ (ToSet(dataChan) \cup Held)' = ToSet(dataChan) \cup Held
    BY <1>1 DEF Owner, StartWorker, StartReturns, StopCancel, StopWait, StopClose, Held, ToSet
  <2>2. CASE StopClose
    <3>1. ~closed /\ closed'
      BY <2>2 DEF StopClose, IInv, Lifecycle
    <3> QED BY <2>1, <3>1 DEF Relay!Next, Relay!Shut
  <2>3. CASE ~StopClose
    <3>1. closed' = closed
      BY <1>1, <2>3 DEF Owner, StartWorker, StartReturns, StopCancel, StopWait
    <3> QED BY <2>1, <3>1 DEF Relay!vars
  <2> QED BY <2>2, <2>3
<1>2. CASE Dispatch
  BY <1>2, DispatchIsAcceptOrRefuse DEF Relay!Next
<1>3. ASSUME NEW w \in Workers, Receive(w)
      PROVE  UNCHANGED Relay!vars
  <2>1. dataChan \in Seq(Items) /\ dataChan # <<>> /\ hold[w] = NoItem
    BY <1>3 DEF Receive, IInv, TypeOK, Lifecycle
  <2>2. /\ ToSet(dataChan) = {Head(dataChan)} \cup ToSet(dataChan')
        /\ Head(dataChan) \in Items
    BY <1>3, <2>1, HeadTailToSet DEF Receive
  <2>3. Head(dataChan) # NoItem
    BY <2>2 DEF Items, NoItem
  <2>4. Held' = Held \cup {Head(dataChan)}
    BY <1>3, <2>1, <2>3 DEF Receive, Held, IInv, TypeOK
  <2>5. (ToSet(dataChan) \cup Held)' = ToSet(dataChan) \cup Held
    BY <2>2, <2>4
  <2> QED BY <1>3, <2>5 DEF Receive, Relay!vars
<1>4. ASSUME NEW w \in Workers, Exit(w)
      PROVE  UNCHANGED Relay!vars
  BY <1>4 DEF Exit, Relay!vars, Held, ToSet
<1>5. ASSUME NEW w \in Workers, ProduceOk(w) \/ ProduceErr(w)
      PROVE  Relay!Next
  BY <1>5, ProduceIsLeave DEF Relay!Next, Pending
<1>6. CASE UNCHANGED vars
  BY <1>6 DEF vars, Relay!vars, Held, ToSet
<1> QED BY <1>1, <1>2, <1>3, <1>4, <1>5, <1>6 DEF Next, Worker

\* To its callers the dispatcher is a bounded relay, first-in first-out up to
\* the size of the pool, from which nothing escapes once Stop has closed it.
THEOREM DispatcherImplementsRelay == Spec => ImplementsRelay
<1>1. Init => Relay!Init
  <2> SUFFICES ASSUME Init PROVE Relay!Init
    OBVIOUS
  <2>1. ToSet(dataChan) = {} /\ Held = {}
    BY DEF Init, ToSet, Held
  <2> QED BY <2>1 DEF Init, Relay!Init
<1>2. IInv /\ [Next]_vars => [Relay!Next]_(Relay!vars)
  BY StepRefines
<1> QED BY <1>1, <1>2, InvariantHolds, PTL DEF Spec, ImplementsRelay, Relay!Spec

-----------------------------------------------------------------------------
(* The process drives the dispatcher as its specification says.            *)

\* A step of the process is one of the dispatcher, or none of its business.
LEMMA StepOfDispatcher == [GatewayNext]_gatewayVars => [Next]_vars
<1> SUFFICES ASSUME [GatewayNext]_gatewayVars PROVE [Next]_vars
  OBVIOUS
<1>1. CASE UNCHANGED gatewayVars
  BY <1>1 DEF gatewayVars
<1>2. CASE MainStep
  BY <1>2 DEF MainStep, StartDispatcher, Launch, Notify, StopFails, StopServer, ServerStopped,
              StopDispatcher, CloseProducer, MainReturns, Next, Owner
<1>3. CASE Killed \/ Signal \/ ServerFails \/ EngineStep
  BY <1>3 DEF Killed, Signal, ServerFails, EngineStep, Boot, Enter, EngineDown
<1>4. ASSUME NEW l \in Loops, LoopStep(l)
      PROVE  [Next]_vars
  BY <1>4 DEF LoopStep, OnTraffic, Report, OnTrafficReturns, LoopEnds, Next
<1>5. ASSUME NEW w \in Workers, Work(w)
      PROVE  [Next]_vars
  BY <1>5 DEF Work, Next
<1> QED BY <1>1, <1>2, <1>3, <1>4, <1>5 DEF GatewayNext

(* main, the server and the handler never use the dispatcher in a way its  *)
(* specification does not allow: no Dispatch before Start (main.go:87),    *)
(* one Start and one Stop.                                                 *)
THEOREM GatewayUsesDispatcher == GatewaySpec => Spec
<1>1. GatewayInit => Init
  BY DEF GatewayInit
<1> QED BY <1>1, StepOfDispatcher, PTL DEF GatewaySpec, Spec

-----------------------------------------------------------------------------
(* The inductive invariant: where main is tells how far dispatcher, engine *)
(* and producer have got.                                                  *)

ProcessTypeOK ==
    /\ main \in {"init", "launched", "serving", "stopServer", "stopDispatcher", "sync",
                "exited"}
    /\ engine \in {"none", "booting", "failed", "looping", "entered", "stopping", "down"}
    /\ loop \in [Loops -> {"none", "idle", "busy"}]
    /\ stopFailed \in BOOLEAN
    /\ producerClosed \in BOOLEAN

Shutdown ==
    /\ main = "init" => phase \in {"starting", "running"} /\ engine = "none"
    /\ main \in {"launched", "serving", "stopServer"} => phase = "running"
    /\ engine \in {"none", "booting", "failed", "down"} => \A l \in Loops : loop[l] = "none"
    /\ main = "stopDispatcher" /\ ~stopFailed => engine = "down"
    /\ cancelled /\ ~stopFailed => engine = "down"
    /\ producerClosed => phase = "stopped"

GInv == ProcessTypeOK /\ Shutdown

\* main has just begun.
LEMMA InitGInv == GatewayInit => GInv
  BY DEF GatewayInit, Init, GInv, ProcessTypeOK, Shutdown

\* main's own steps.
LEMMA MainKeepsGInv == IInv /\ GInv /\ (MainStep \/ Killed \/ Signal) => GInv'
<1> SUFFICES ASSUME IInv, GInv, MainStep \/ Killed \/ Signal PROVE GInv'
  OBVIOUS
<1> USE DEF GInv, ProcessTypeOK, Shutdown
<1>1. Lifecycle
  BY DEF IInv
<1>2. cancelled <=> phase \in {"waiting", "closing", "stopped"}
  BY <1>1 DEF Lifecycle
<1>3. CASE StartDispatcher
  <2>1. main = "init" /\ UNCHANGED processVars
    BY <1>3 DEF StartDispatcher
  <2>2. StartReturns \/ \E w \in Workers : StartWorker(w)
    BY <1>3 DEF StartDispatcher
  <2>3. phase = "starting" /\ phase' \in {"starting", "running"} /\ cancelled' = cancelled
    BY <2>2 DEF StartReturns, StartWorker
  <2> QED BY <1>2, <2>1, <2>3 DEF processVars
<1>4. CASE StopDispatcher
  <2>1. main = "stopDispatcher" /\ UNCHANGED processVars
    BY <1>4 DEF StopDispatcher
  <2>2. ~producerClosed \/ phase = "stopped"
    OBVIOUS
  <2>3. phase # "stopped"
    BY <1>4 DEF StopDispatcher, StopCancel, StopWait, StopClose
  <2> QED BY <2>1, <2>2, <2>3 DEF processVars
<1>5. CASE Launch
  <2>1. main = "init" /\ phase = "running" /\ engine = "none" /\ ~cancelled
    BY <1>2, <1>5 DEF Launch
  <2>2. /\ main' = "launched" /\ engine' = "booting"
        /\ UNCHANGED <<phase, cancelled, loop, stopFailed, producerClosed>>
    BY <1>5 DEF Launch, vars
  <2> QED BY <2>1, <2>2
<1>6. CASE StopFails \/ StopServer \/ ServerStopped
  <2>1. main = "stopServer" /\ phase = "running" /\ ~cancelled
    BY <1>2, <1>6 DEF StopFails, StopServer, ServerStopped
  <2>2. UNCHANGED <<phase, cancelled, loop, producerClosed>>
    BY <1>6 DEF StopFails, StopServer, ServerStopped, vars
  <2>3. CASE StopFails
    BY <2>1, <2>2, <2>3 DEF StopFails
  <2>4. CASE StopServer
    BY <2>1, <2>2, <2>4 DEF StopServer
  <2>5. CASE ServerStopped
    BY <2>1, <2>2, <2>5 DEF ServerStopped
  <2> QED BY <1>6, <2>3, <2>4, <2>5
<1>7. CASE CloseProducer \/ MainReturns
  <2>1. /\ main \in {"stopDispatcher", "sync"} /\ main' \in {"sync", "exited"}
        /\ UNCHANGED <<phase, cancelled, engine, loop, stopFailed>>
    BY <1>7 DEF CloseProducer, MainReturns, vars
  <2>2. CASE CloseProducer
    <3>1. phase = "stopped" /\ producerClosed' = TRUE
      BY <2>2 DEF CloseProducer
    <3> QED BY <2>1, <3>1
  <2>3. CASE MainReturns
    <3>1. producerClosed' = producerClosed
      BY <2>3 DEF MainReturns
    <3> QED BY <2>1, <3>1
  <2> QED BY <1>7, <2>2, <2>3
<1>8. CASE Notify \/ Killed \/ Signal
  BY <1>8 DEF Notify, Killed, Signal, vars
<1> QED BY <1>3, <1>4, <1>5, <1>6, <1>7, <1>8 DEF MainStep

\* The server's and the workers' steps.
LEMMA OthersKeepGInv ==
    ASSUME GInv, \/ ServerFails
                 \/ EngineStep
                 \/ \E l \in Loops : LoopStep(l)
                 \/ \E w \in Workers : Work(w)
    PROVE  GInv'
<1> USE DEF GInv, ProcessTypeOK, Shutdown
<1>1. CASE ServerFails
  BY <1>1 DEF ServerFails, vars
<1>2. CASE EngineStep
  BY <1>2 DEF EngineStep, Boot, Enter, EngineDown, vars
<1>3. ASSUME NEW l \in Loops, LoopStep(l)
      PROVE  GInv'
  <2>1. CASE Report(l)
    BY <2>1 DEF Report, Dispatch, processVars
  <2>2. CASE OnTraffic(l) \/ OnTrafficReturns(l) \/ LoopEnds(l)
    BY <2>2 DEF OnTraffic, OnTrafficReturns, LoopEnds, vars
  <2> QED BY <1>3, <2>1, <2>2 DEF LoopStep
<1>4. ASSUME NEW w \in Workers, Work(w)
      PROVE  GInv'
  BY <1>4 DEF Work, Worker, Receive, Exit, ProduceOk, ProduceErr, processVars
<1> QED BY <1>1, <1>2, <1>3, <1>4

\* Every step of the process.
LEMMA NextKeepsGInv == IInv /\ GInv /\ [GatewayNext]_gatewayVars => GInv'
<1> SUFFICES ASSUME IInv, GInv, [GatewayNext]_gatewayVars PROVE GInv'
  OBVIOUS
<1>1. CASE UNCHANGED gatewayVars
  BY <1>1 DEF gatewayVars, processVars, vars, GInv, ProcessTypeOK, Shutdown
<1> QED BY <1>1, MainKeepsGInv, OthersKeepGInv DEF GatewayNext

(* The inductive invariant holds of every behaviour of the process.        *)
THEOREM GatewayInvariantHolds == GatewaySpec => [](IInv /\ GInv)
<1>1. GatewaySpec => []IInv
  BY GatewayUsesDispatcher, InvariantHolds
<1> QED BY <1>1, InitGInv, NextKeepsGInv, PTL DEF GatewaySpec

-----------------------------------------------------------------------------
(* What a run of the gateway may rely on.                                  *)

(* The state of the process keeps its types.                               *)
THEOREM GatewayTypeCorrect == GatewaySpec => []GatewayTypeOK
<1>1. IInv /\ GInv => GatewayTypeOK
  BY DEF IInv, GInv, ProcessTypeOK, GatewayTypeOK
<1> QED BY <1>1, GatewayInvariantHolds, PTL

(* The dispatcher is told to stop when no event loop runs any more, unless *)
(* gnet knew no engine to stop (main.go:119).                              *)
THEOREM ServerIsStoppedFirst == GatewaySpec => []ServerStopsFirst
<1>1. IInv /\ GInv => ServerStopsFirst
  BY DEF GInv, Shutdown, ServerStopsFirst
<1> QED BY <1>1, GatewayInvariantHolds, PTL

(* The producer is closed when every worker has returned empty-handed and  *)
(* the channel is closed (main.go:83), however early the signal came.      *)
THEOREM ProducerIsClosedLast == GatewaySpec => []ProducerClosesLast
<1>1. IInv /\ GInv => ProducerClosesLast
  BY DEF IInv, Lifecycle, GInv, Shutdown, ProducerClosesLast
<1> QED BY <1>1, GatewayInvariantHolds, PTL

(* In the gateway the dispatcher still is the relay it promises to be,     *)
(* whatever the event loops, the engine and main do.                       *)
THEOREM GatewayImplementsRelay == GatewaySpec => ImplementsRelay
  BY GatewayUsesDispatcher, DispatcherImplementsRelay
=============================================================================
