-------------------------- MODULE RabbitMQProducer --------------------------
(***************************************************************************)
(* The RabbitMQ producer (internal/infra/rabbitmq/producer.go): one        *)
(* connection, replaced by a reconnection loop that is woken through a     *)
(* one-slot channel by whoever notices a loss, all of it under one mutex.  *)
(*                                                                         *)
(* A step is what happens between two releases of the mutex; only connect  *)
(* keeps it over several steps, because it dials while holding it.  The    *)
(* broker and amqp091 are external: a connection is lost, or one of its    *)
(* channels is closed by a protocol exception, at any moment.  A dial      *)
(* whose channel or declarations fail closes its connection again, so it   *)
(* is a failed dial.                                                       *)
(***************************************************************************)
EXTENDS Naturals

CONSTANTS Producers, \* goroutines that call Produce
          MaxConns   \* bound of the model: connections ever established

ASSUME MaxConnsAssumption == MaxConns \in Nat

VARIABLES mu,         \* who holds p.mu across steps
          dialed,     \* connections established so far; they are numbered
          cur,        \* p.conn, or NoConn
          conn,       \* state of each connection
          ch,         \* state of p.ch
          isClosed,   \* p.isClosed
          reconnectC, \* the token is in p.reconnectC
          monitor,    \* goroutine that watches each connection
          initial,    \* goroutine that connects first
          loop,       \* handleReconnect
          prod,       \* where each Produce call is
          closeCalled \* Close has been called

vars == <<mu, dialed, cur, conn, ch, isClosed, reconnectC, monitor, initial, loop,
          prod, closeCalled>>

NoConn == 0
ConnIds == 1 .. MaxConns

Healthy == ch = "open" /\ conn[cur] = "open"

TypeOK == /\ mu \in {"free", "initial", "loop"}
          /\ dialed \in 0 .. MaxConns
          /\ cur \in 0 .. dialed
          /\ conn \in [ConnIds -> {"none", "open", "lost"}]
          /\ ch \in {"nil", "open", "closed"}
          /\ isClosed \in BOOLEAN
          /\ reconnectC \in BOOLEAN
          /\ monitor \in [ConnIds -> {"none", "waiting", "signal", "done"}]
          /\ initial \in {"start", "dialing", "signal", "done"}
          /\ loop \in {"waiting", "lock", "dialing", "sleep"}
          /\ prod \in [Producers -> {"idle", "lock", "signal", "publish"}]
          /\ closeCalled \in BOOLEAN

Init == /\ mu = "free"
        /\ dialed = 0
        /\ cur = NoConn
        /\ conn = [i \in ConnIds |-> "none"]
        /\ ch = "nil"
        /\ isClosed = FALSE
        /\ reconnectC = FALSE
        /\ monitor = [i \in ConnIds |-> "none"]
        /\ initial = "start"
        /\ loop = "waiting"
        /\ prod = [p \in Producers |-> "idle"]
        /\ closeCalled = FALSE

-----------------------------------------------------------------------------
(* connect, by the initial goroutine or the reconnection loop.             *)

Lock(who) == mu = "free" /\ mu' = who

\* Everything up to amqp.Dial's answer happens with the mutex held.  The
\* connection in place, if any, is replaced and not closed.
DialOk(who) == /\ mu = who
               /\ dialed < MaxConns
               /\ dialed' = dialed + 1
               /\ cur' = dialed'
               /\ conn' = [conn EXCEPT ![dialed'] = "open"]
               /\ ch' = "open"
               /\ monitor' = [monitor EXCEPT ![dialed'] = "waiting"]
               /\ isClosed' = FALSE
               /\ mu' = "free"
               /\ UNCHANGED <<reconnectC, prod, closeCalled>>

\* Mutants of DialFail: p.conn is assigned before the error is looked at;
\* the error path does not unlock.
DialFailAssigned(who) == /\ mu = who
                         /\ mu' = "free"
                         /\ cur' = dialed + 1
                         /\ UNCHANGED <<dialed, conn, ch, monitor, isClosed, reconnectC,
                                        prod, closeCalled>>

DialFailLocked(who) == /\ mu = who
                       /\ UNCHANGED <<mu, dialed, cur, conn, ch, monitor, isClosed,
                                      reconnectC, prod, closeCalled>>

DialFail(who) == /\ mu = who
                 /\ mu' = "free"
                 /\ UNCHANGED <<dialed, cur, conn, ch, monitor, isClosed, reconnectC,
                                prod, closeCalled>>

\* Mutant of SignalReconnect: isClosed is not looked at.
SignalAlways == /\ mu = "free"
                /\ reconnectC' = TRUE
                /\ UNCHANGED <<mu, dialed, cur, conn, ch, isClosed, closeCalled>>

\* signalReconnect: a full channel already carries the message.
SignalReconnect == /\ mu = "free"
                   /\ reconnectC' = (reconnectC \/ ~isClosed)
                   /\ UNCHANGED <<mu, dialed, cur, conn, ch, isClosed, closeCalled>>

-----------------------------------------------------------------------------
(* The goroutine NewRabbitMQProducer starts for the first connection.      *)

InitialLock == /\ initial = "start"
               /\ Lock("initial")
               /\ initial' = "dialing"
               /\ UNCHANGED <<dialed, cur, conn, ch, isClosed, reconnectC, monitor, loop,
                              prod, closeCalled>>

InitialOk == DialOk("initial") /\ initial' = "done" /\ UNCHANGED loop

InitialFail == DialFail("initial") /\ initial' = "signal" /\ UNCHANGED loop

InitialSignal == /\ initial = "signal"
                 /\ SignalReconnect
                 /\ initial' = "done"
                 /\ UNCHANGED <<monitor, loop, prod>>

-----------------------------------------------------------------------------
(* handleReconnect.                                                        *)

LoopReceive == /\ loop = "waiting"
               /\ reconnectC
               /\ reconnectC' = FALSE
               /\ loop' = "lock"
               /\ UNCHANGED <<mu, dialed, cur, conn, ch, isClosed, monitor, initial,
                              prod, closeCalled>>

LoopLock == /\ loop = "lock"
            /\ Lock("loop")
            /\ loop' = "dialing"
            /\ UNCHANGED <<dialed, cur, conn, ch, isClosed, reconnectC, monitor, initial,
                           prod, closeCalled>>

LoopOk == DialOk("loop") /\ loop' = "waiting" /\ UNCHANGED initial

\* Mutant of LoopFail: the loop waits for another token instead of retrying.
LoopGivesUp == DialFail("loop") /\ loop' = "waiting" /\ UNCHANGED initial

LoopFail == DialFail("loop") /\ loop' = "sleep" /\ UNCHANGED initial

LoopWake == /\ loop = "sleep"
            /\ loop' = "lock"
            /\ UNCHANGED <<mu, dialed, cur, conn, ch, isClosed, reconnectC, monitor, initial,
                           prod, closeCalled>>

-----------------------------------------------------------------------------
(* The goroutine connect leaves behind to watch its connection.            *)

\* Mutant of MonitorNotified: the monitor returns without asking.
MonitorReturns(i) == /\ monitor[i] = "waiting"
                     /\ conn[i] = "lost"
                     /\ monitor' = [monitor EXCEPT ![i] = "done"]
                     /\ UNCHANGED <<mu, dialed, cur, conn, ch, isClosed, reconnectC,
                                    initial, loop, prod, closeCalled>>

MonitorNotified(i) == /\ monitor[i] = "waiting"
                      /\ conn[i] = "lost"
                      /\ monitor' = [monitor EXCEPT ![i] = "signal"]
                      /\ UNCHANGED <<mu, dialed, cur, conn, ch, isClosed, reconnectC,
                                     initial, loop, prod, closeCalled>>

MonitorSignal(i) == /\ monitor[i] = "signal"
                    /\ SignalReconnect
                    /\ monitor' = [monitor EXCEPT ![i] = "done"]
                    /\ UNCHANGED <<initial, loop, prod>>

-----------------------------------------------------------------------------
(* Produce.                                                                *)

ProduceCall(p) == /\ prod[p] = "idle"
                  /\ prod' = [prod EXCEPT ![p] = "lock"]
                  /\ UNCHANGED <<mu, dialed, cur, conn, ch, isClosed, reconnectC, monitor,
                                 initial, loop, closeCalled>>

\* The check and the choice of the channel, under the mutex.
ProduceCheck(p) ==
    /\ prod[p] = "lock"
    /\ mu = "free"
    /\ \/ isClosed /\ prod' = [prod EXCEPT ![p] = "idle"]
       \/ /\ ~isClosed
          /\ ch # "open"
          /\ prod' = [prod EXCEPT ![p] = "signal"]
       \/ /\ ~isClosed
          /\ ch = "open"
          /\ prod' = [prod EXCEPT ![p] = "publish"]
    /\ UNCHANGED <<mu, dialed, cur, conn, ch, isClosed, reconnectC, monitor, initial, loop,
                   closeCalled>>

\* Mutant of ProduceSignal: Produce only returns its error.
ProduceOnlyFails(p) == /\ prod[p] = "signal"
                       /\ prod' = [prod EXCEPT ![p] = "idle"]
                       /\ UNCHANGED <<mu, dialed, cur, conn, ch, isClosed, reconnectC,
                                      monitor, initial, loop, closeCalled>>

\* The mutex has been released in between: the link may be back by now.
ProduceSignal(p) == /\ prod[p] = "signal"
                    /\ SignalReconnect
                    /\ prod' = [prod EXCEPT ![p] = "idle"]
                    /\ UNCHANGED <<monitor, initial, loop>>

\* PublishWithContext on the channel picked above returns, with an error if
\* that is closed by now; the outcome concerns the caller only.
ProducePublish(p) == /\ prod[p] = "publish"
                     /\ prod' = [prod EXCEPT ![p] = "idle"]
                     /\ UNCHANGED <<mu, dialed, cur, conn, ch, isClosed, reconnectC,
                                    monitor, initial, loop, closeCalled>>

-----------------------------------------------------------------------------
\* Close, called once.  Closing the connection wakes its monitor.
Close == /\ ~closeCalled
         /\ closeCalled' = TRUE
         /\ mu = "free"
         /\ isClosed' = TRUE
         /\ conn' = [i \in ConnIds |-> IF i = cur THEN "lost" ELSE conn[i]]
         /\ ch' = IF ch = "open" THEN "closed" ELSE ch
         /\ UNCHANGED <<mu, dialed, cur, reconnectC, monitor, initial, loop, prod>>

(* The broker and the network.                                             *)

ConnectionLost(i) == /\ conn[i] = "open"
                     /\ conn' = [conn EXCEPT ![i] = "lost"]
                     /\ ch' = IF i = cur THEN "closed" ELSE ch
                     /\ UNCHANGED <<mu, dialed, cur, isClosed, reconnectC, monitor, initial,
                                    loop, prod, closeCalled>>

ChannelException == /\ ch = "open"
                    /\ ch' = "closed"
                    /\ UNCHANGED <<mu, dialed, cur, conn, isClosed, reconnectC, monitor,
                                   initial, loop, prod, closeCalled>>

-----------------------------------------------------------------------------
Initial == InitialLock \/ InitialOk \/ InitialFail \/ InitialSignal
Loop == LoopReceive \/ LoopLock \/ LoopOk \/ LoopFail \/ LoopWake
Monitor(i) == MonitorNotified(i) \/ MonitorSignal(i)
ProduceStep(p) == ProduceCheck(p) \/ ProduceSignal(p) \/ ProducePublish(p)
Environment == ChannelException \/ \E i \in ConnIds : ConnectionLost(i)

Next == \/ Initial
        \/ Loop
        \/ \E i \in ConnIds : Monitor(i)
        \/ \E p \in Producers : ProduceCall(p) \/ ProduceStep(p)
        \/ Close
        \/ Environment

Spec == Init /\ [][Next]_vars

(* Goroutines run, and sync.Mutex hands itself to whoever has waited for   *)
(* more than a millisecond: strong fairness of a goroutine's next step     *)
(* when that locks it, no more than weak fairness of its other steps,      *)
(* which stay enabled (amqp091 bounds a dial by a timeout).  A broker that *)
(* is dialled again and again is reached some time.  Nobody has to call    *)
(* Produce or Close, and nothing has to go wrong.                          *)
Fairness == /\ SF_vars(Initial)
            /\ SF_vars(Loop)
            /\ SF_vars(LoopOk)
            /\ \A i \in ConnIds : SF_vars(Monitor(i))
            /\ \A p \in Producers : SF_vars(ProduceStep(p))

FairSpec == Spec /\ Fairness

-----------------------------------------------------------------------------
(* Correctness.                                                            *)

\* A goroutine will connect, or has been told to.
AttemptPending == \/ initial \in {"start", "dialing", "signal"}
                  \/ loop # "waiting"
                  \/ reconnectC

(* No loss goes unnoticed: while the producer is open and its connection   *)
(* is gone, an attempt to connect is pending or the connection's monitor   *)
(* has yet to ask for one, although tokens are dropped when the channel    *)
(* is full (producer.go:180-183) and every monitor signals only once.      *)
NoLostWakeup ==
    ~isClosed /\ (cur = NoConn \/ conn[cur] = "lost") =>
        \/ AttemptPending
        \/ cur # NoConn /\ monitor[cur] \in {"waiting", "signal"}

(* Once Close has run and no attempt to connect is under way, nothing      *)
(* opens the producer again: monitors and late Produce calls leave the     *)
(* token alone (producer.go:179).                                          *)
ClosedForGood ==
    [][isClosed /\ ~AttemptPending => isClosed' /\ ~AttemptPending']_vars

\* The model has no connection left to give.
Exhausted == dialed = MaxConns

(* The producer comes back by itself after a lost connection.              *)
LossIsRepaired ==
    cur # NoConn /\ conn[cur] = "lost" ~> Healthy \/ isClosed \/ Exhausted

(* "If it fails, Produce will try again" (comment at producer.go:39): a    *)
(* Produce that finds no usable channel brings the link back, also when    *)
(* only the channel is gone and no monitor notices.                        *)
ProduceRepairs ==
    \A p \in Producers : prod[p] = "signal" ~> Healthy \/ isClosed \/ Exhausted

(* A Produce call returns, however often the dial that holds the mutex is  *)
(* repeated.                                                               *)
ProduceReturns == \A p \in Producers : prod[p] # "idle" ~> prod[p] = "idle"

(* "Trigger reconnect if not already trying" (comment at producer.go:213): *)
(* a working connection is not replaced, and left open, by a reconnection. *)
NoNeedlessReconnect == [][LoopOk => ~Healthy]_vars
=============================================================================
