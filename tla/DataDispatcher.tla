--------------------------- MODULE DataDispatcher ---------------------------
(***************************************************************************)
(* The worker pool between the network event loops and the message queue   *)
(* (internal/usecase/dispatcher.go), driven as main does: Start, then      *)
(* Dispatch from any event loop at any time, then Stop.                    *)
(*                                                                         *)
(* The data dispatched is numbered in the order in which the calls reach   *)
(* the channel, so an item is the number of its Dispatch call.             *)
(***************************************************************************)
EXTENDS Naturals, Sequences, FiniteSets, SequencesExt

CONSTANTS Workers,  \* the worker goroutines Start spawns (100 in main)
          Capacity, \* capacity of dataChan (10000)
          MaxItems  \* bound of the model: number of Dispatch calls explored

ASSUME WorkersAssumption == IsFiniteSet(Workers) /\ Workers # {}
ASSUME CapacityAssumption == Capacity \in Nat
ASSUME MaxItemsAssumption == MaxItems \in Nat

VARIABLES n,         \* Dispatch calls so far
          dataChan,  \* the buffered channel
          closed,    \* dataChan has been closed
          cancelled, \* ctx has been cancelled
          phase,     \* how far the owner has got: Start ... Stop
          wg,        \* the WaitGroup's counter
          wpc,       \* where each worker is
          hold,      \* the item each worker is processing
          published, \* items the producer took, in the order it took them
          failed     \* items whose Produce returned an error

vars == <<n, dataChan, closed, cancelled, phase, wg, wpc, hold, published, failed>>

NoItem == 0
Items == 1 .. MaxItems

Held == {hold[w] : w \in Workers} \ {NoItem}
Produced == ToSet(published)
Accepted == ToSet(dataChan) \cup Held \cup Produced \cup failed

Live == {w \in Workers : wpc[w] \in {"select", "produce"}}

-----------------------------------------------------------------------------
Init == /\ n = 0
        /\ dataChan = <<>>
        /\ closed = FALSE
        /\ cancelled = FALSE
        /\ phase = "starting"
        /\ wg = 0
        /\ wpc = [w \in Workers |-> "unborn"]
        /\ hold = [w \in Workers |-> NoItem]
        /\ published = <<>>
        /\ failed = {}

-----------------------------------------------------------------------------
(* The owner (main): Start, then Stop.                                     *)

\* One turn of the loop in Start: wg.Add(1), go worker(i).
StartWorker(w) == /\ phase = "starting"
                  /\ wpc[w] = "unborn"
                  /\ wg' = wg + 1
                  /\ wpc' = [wpc EXCEPT ![w] = "select"]
                  /\ UNCHANGED <<n, dataChan, closed, cancelled, phase, hold, published, failed>>

StartReturns == /\ phase = "starting"
                /\ \A w \in Workers : wpc[w] # "unborn"
                /\ phase' = "running"
                /\ UNCHANGED <<n, dataChan, closed, cancelled, wg, wpc, hold, published, failed>>

StopCancel == /\ phase = "running"
              /\ phase' = "waiting"
              /\ cancelled' = TRUE
              /\ UNCHANGED <<n, dataChan, closed, wg, wpc, hold, published, failed>>

\* Mutant of StopWait: Stop forgets to wait for the workers.
StopWaitAtOnce == /\ phase = "waiting"
                  /\ phase' = "closing"
                  /\ UNCHANGED <<n, dataChan, closed, cancelled, wg, wpc, hold, published, failed>>

\* wg.Wait() returns.
StopWait == /\ phase = "waiting"
            /\ wg = 0
            /\ phase' = "closing"
            /\ UNCHANGED <<n, dataChan, closed, cancelled, wg, wpc, hold, published, failed>>

StopClose == /\ phase = "closing"
             /\ phase' = "stopped"
             /\ closed' = TRUE
             /\ UNCHANGED <<n, dataChan, cancelled, wg, wpc, hold, published, failed>>

-----------------------------------------------------------------------------
(* Dispatch: a non-blocking send.  On a closed channel it panics, which    *)
(* the handler's recover turns into an error, so the item is lost; on a    *)
(* full one the default branch drops it.                                   *)

\* Mutant of CanSend: one slot too many.
CanSendOneMore == ~closed /\ Len(dataChan) <= Capacity

CanSend == ~closed /\ Len(dataChan) < Capacity

\* Mutant of Dispatch: a full channel drops its oldest item for the new one.
DispatchEvicting == /\ phase # "starting"
                    /\ n < MaxItems
                    /\ n' = n + 1
                    /\ dataChan' = IF CanSend THEN Append(dataChan, n')
                                   ELSE IF closed \/ dataChan = <<>> THEN dataChan
                                   ELSE Append(Tail(dataChan), n')
                    /\ UNCHANGED <<closed, cancelled, phase, wg, wpc, hold, published, failed>>

Dispatch == /\ phase # "starting"
            /\ n < MaxItems
            /\ n' = n + 1
            /\ dataChan' = IF CanSend THEN Append(dataChan, n') ELSE dataChan
            /\ UNCHANGED <<closed, cancelled, phase, wg, wpc, hold, published, failed>>

-----------------------------------------------------------------------------
(* A worker: select between ctx.Done and dataChan, then Produce.           *)

\* Mutants of Receive: the item stays in the channel; the newest goes first.
ReceiveKeepingHead(w) ==
    /\ wpc[w] = "select"
    /\ dataChan # <<>>
    /\ wpc' = [wpc EXCEPT ![w] = "produce"]
    /\ hold' = [hold EXCEPT ![w] = Head(dataChan)]
    /\ UNCHANGED <<n, dataChan, closed, cancelled, phase, wg, published, failed>>

ReceiveNewest(w) ==
    /\ wpc[w] = "select"
    /\ dataChan # <<>>
    /\ wpc' = [wpc EXCEPT ![w] = "produce"]
    /\ hold' = [hold EXCEPT ![w] = Last(dataChan)]
    /\ dataChan' = Front(dataChan)
    /\ UNCHANGED <<n, closed, cancelled, phase, wg, published, failed>>

\* case data := <-dataChan.  A closed and drained channel yields nil.
Receive(w) ==
    /\ wpc[w] = "select"
    /\ dataChan # <<>> \/ closed
    /\ wpc' = [wpc EXCEPT ![w] = "produce"]
    /\ hold' = [hold EXCEPT ![w] = IF dataChan = <<>> THEN NoItem ELSE Head(dataChan)]
    /\ dataChan' = IF dataChan = <<>> THEN dataChan ELSE Tail(dataChan)
    /\ UNCHANGED <<n, closed, cancelled, phase, wg, published, failed>>

\* Mutant of Exit: no deferred wg.Done().
ExitWithoutDone(w) == /\ wpc[w] = "select"
                      /\ cancelled
                      /\ wpc' = [wpc EXCEPT ![w] = "exited"]
                      /\ UNCHANGED <<n, dataChan, closed, cancelled, phase, wg, hold, published, failed>>

\* case <-ctx.Done(): return, and the deferred wg.Done().
Exit(w) == /\ wpc[w] = "select"
           /\ cancelled
           /\ wpc' = [wpc EXCEPT ![w] = "exited"]
           /\ wg' = wg - 1
           /\ UNCHANGED <<n, dataChan, closed, cancelled, phase, hold, published, failed>>

\* Produce returns nil: the message queue has the item.
ProduceOk(w) == /\ wpc[w] = "produce"
                /\ published' = Append(published, hold[w])
                /\ hold' = [hold EXCEPT ![w] = NoItem]
                /\ wpc' = [wpc EXCEPT ![w] = "select"]
                /\ UNCHANGED <<n, dataChan, closed, cancelled, phase, wg, failed>>

\* Mutant of ProduceErr: the worker returns after a failed Produce.
ProduceErrReturns(w) == /\ wpc[w] = "produce"
                        /\ failed' = failed \cup {hold[w]}
                        /\ hold' = [hold EXCEPT ![w] = NoItem]
                        /\ wpc' = [wpc EXCEPT ![w] = "exited"]
                        /\ wg' = wg - 1
                        /\ UNCHANGED <<n, dataChan, closed, cancelled, phase, published>>

\* Produce returns an error: it is logged and the item is gone.
ProduceErr(w) == /\ wpc[w] = "produce"
                 /\ failed' = failed \cup {hold[w]}
                 /\ hold' = [hold EXCEPT ![w] = NoItem]
                 /\ wpc' = [wpc EXCEPT ![w] = "select"]
                 /\ UNCHANGED <<n, dataChan, closed, cancelled, phase, wg, published>>

-----------------------------------------------------------------------------
Owner == \/ \E w \in Workers : StartWorker(w)
         \/ StartReturns
         \/ StopCancel
         \/ StopWait
         \/ StopClose

Worker(w) == \/ Receive(w)
             \/ Exit(w)
             \/ ProduceOk(w)
             \/ ProduceErr(w)

Next == \/ Owner
        \/ Dispatch
        \/ \E w \in Workers : Worker(w)

Spec == Init /\ [][Next]_vars

-----------------------------------------------------------------------------
(* Correctness.                                                            *)

TypeOK == /\ n \in 0 .. MaxItems
          /\ dataChan \in Seq(Items)
          /\ Len(dataChan) <= Capacity
          /\ closed \in BOOLEAN
          /\ cancelled \in BOOLEAN
          /\ phase \in {"starting", "running", "waiting", "closing", "stopped"}
          /\ wg \in Nat
          /\ wpc \in [Workers -> {"unborn", "select", "produce", "exited"}]
          /\ hold \in [Workers -> Items \cup {NoItem}]
          /\ published \in Seq(Items)
          /\ failed \subseteq Items

(* An item is in one place only: no two workers process the same item, and *)
(* none is published twice, published and failed, or processed again after *)
(* its Produce has returned (dispatcher.go has no retry).                  *)
AtMostOnce == /\ \A v, w \in Workers : hold[v] = hold[w] /\ hold[v] # NoItem => v = w
              /\ IsInjective(published)
              /\ Produced \cap failed = {}
              /\ Held \cap (Produced \cup failed) = {}

(* Parallel workers reorder, but by less than the size of the pool: when   *)
(* an item's Produce has returned, at least one worker holds no older      *)
(* item, so fewer than |Workers| older ones are still on their way, and    *)
(* none of them is left in the channel.                                    *)
BoundedOvertaking ==
    \A item \in Produced \cup failed :
        /\ \E w \in Workers : hold[w] = NoItem \/ hold[w] > item
        /\ \A other \in ToSet(dataChan) : item < other

(* Stop closes the channel only when every worker has returned and none    *)
(* has an item in hand: no worker receives from the closed channel, and no *)
(* Produce is under way when main goes on to close the producer.           *)
StopQuiesces ==
    phase \in {"closing", "stopped"} =>
        \A w \in Workers : wpc[w] = "exited" /\ hold[w] = NoItem

(* The dispatcher is a bounded relay, first-in first-out up to the number  *)
(* of its workers, that lets nothing out once Stop has closed it.          *)
Relay == INSTANCE RelaxedRelay
             WITH offered <- n,
                  pending <- ToSet(dataChan) \cup Held,
                  open <- ~closed,
                  Slack <- Cardinality(Workers)

ImplementsRelay == Relay!Spec
=============================================================================
