------------------------------ MODULE Gateway ------------------------------
(***************************************************************************)
(* The process: main's start and stop (cmd/server/main.go), the TCP        *)
(* server's event loops (internal/server/tcp_server.go) as the source of   *)
(* Dispatch calls, the dispatcher, and the producer that is closed last.   *)
(*                                                                         *)
(* main starts the dispatcher and, in a goroutine, the server; waits for a *)
(* signal; asks the server to stop, whose error it ignores; and on return  *)
(* runs its deferred calls, the last one first: dispatcher.Stop,           *)
(* producer.Close, logger.Sync.  The engine is gnet's: it starts its event *)
(* loops and only then enters itself in the table in which gnet.Stop looks *)
(* it up, and a stopped engine waits for the callbacks under way.          *)
(***************************************************************************)
EXTENDS DataDispatcher

CONSTANT Loops \* the engine's event loops (one per CPU)

VARIABLES main,          \* where main is
          engine,        \* what has become of the server's engine
          loop,          \* what each event loop does
          stopFailed,    \* srv.Stop found no engine to stop
          producerClosed \* producer.Close has been called

processVars == <<main, engine, loop, stopFailed, producerClosed>>
gatewayVars == <<vars, processVars>>

GatewayInit == /\ Init
               /\ main = "init"
               /\ engine = "none"
               /\ loop = [l \in Loops |-> "none"]
               /\ stopFailed = FALSE
               /\ producerClosed = FALSE

-----------------------------------------------------------------------------
(* main, up to the signal.                                                 *)

StartDispatcher == /\ main = "init"
                   /\ StartReturns \/ \E w \in Workers : StartWorker(w)
                   /\ UNCHANGED processVars

\* go srv.Start.
Launch == /\ main = "init"
          /\ phase = "running"
          /\ main' = "launched"
          /\ engine' = "booting"
          /\ UNCHANGED <<vars, loop, stopFailed, producerClosed>>

\* signal.Notify, beside the server that has begun to start.
Notify == /\ main = "launched"
          /\ main' = "serving"
          /\ UNCHANGED <<vars, engine, loop, stopFailed, producerClosed>>

\* A signal before signal.Notify has the default effect, whatever runs.
Killed == /\ main \in {"init", "launched"}
          /\ main' = "exited"
          /\ UNCHANGED <<vars, engine, loop, stopFailed, producerClosed>>

Signal == /\ main = "serving"
          /\ main' = "stopServer"
          /\ UNCHANGED <<vars, engine, loop, stopFailed, producerClosed>>

-----------------------------------------------------------------------------
(* The server.                                                             *)

\* gnet.Run returns an error, and logger.Fatal ends the process, whatever
\* main is doing.
ServerFails == /\ engine = "booting"
               /\ engine' = "failed"
               /\ main' = "exited"
               /\ UNCHANGED <<vars, loop, stopFailed, producerClosed>>

\* After OnBoot the loops run.
Boot == /\ engine = "booting"
        /\ engine' = "looping"
        /\ loop' = [l \in Loops |-> "idle"]
        /\ UNCHANGED <<vars, main, stopFailed, producerClosed>>

\* From now on gnet.Stop finds the engine.
Enter == /\ engine = "looping"
         /\ engine' = "entered"
         /\ UNCHANGED <<vars, main, loop, stopFailed, producerClosed>>

OnTraffic(l) == /\ loop[l] = "idle"
                /\ loop' = [loop EXCEPT ![l] = "busy"]
                /\ UNCHANGED <<vars, main, engine, stopFailed, producerClosed>>

\* One of the callback's packets is a report with something to dispatch.  If
\* that panics, HandleMessage recovers and OnTraffic takes the next packet.
Report(l) == /\ loop[l] = "busy"
             /\ Dispatch
             /\ UNCHANGED processVars

OnTrafficReturns(l) == /\ loop[l] = "busy"
                       /\ loop' = [loop EXCEPT ![l] = "idle"]
                       /\ UNCHANGED <<vars, main, engine, stopFailed, producerClosed>>

\* A loop takes its order to end between two callbacks.
LoopEnds(l) == /\ engine = "stopping"
               /\ loop[l] = "idle"
               /\ loop' = [loop EXCEPT ![l] = "none"]
               /\ UNCHANGED <<vars, main, engine, stopFailed, producerClosed>>

EngineDown == /\ engine = "stopping"
              /\ \A l \in Loops : loop[l] = "none"
              /\ engine' = "down"
              /\ UNCHANGED <<vars, main, loop, stopFailed, producerClosed>>

-----------------------------------------------------------------------------
(* main, from the signal on.                                               *)

\* gnet.Stop knows no such engine; main ignores the error.
StopFails == /\ main = "stopServer"
             /\ engine \in {"booting", "looping"}
             /\ stopFailed' = TRUE
             /\ main' = "stopDispatcher"
             /\ UNCHANGED <<vars, engine, loop, producerClosed>>

StopServer == /\ main = "stopServer"
              /\ engine = "entered"
              /\ engine' = "stopping"
              /\ UNCHANGED <<vars, main, loop, stopFailed, producerClosed>>

\* Mutant of ServerStopped: gnet.Stop does not wait for the loops.
ServerStoppedAtOnce == /\ main = "stopServer"
                       /\ engine = "stopping"
                       /\ main' = "stopDispatcher"
                       /\ UNCHANGED <<vars, engine, loop, stopFailed, producerClosed>>

ServerStopped == /\ main = "stopServer"
                 /\ engine = "down"
                 /\ main' = "stopDispatcher"
                 /\ UNCHANGED <<vars, engine, loop, stopFailed, producerClosed>>

StopDispatcher == /\ main = "stopDispatcher"
                  /\ StopCancel \/ StopWait \/ StopClose
                  /\ UNCHANGED processVars

\* Mutant of CloseProducer: the deferred calls in the other order.
CloseProducerFirst == /\ main = "stopDispatcher"
                      /\ ~producerClosed
                      /\ producerClosed' = TRUE
                      /\ main' = IF phase = "stopped" THEN "sync" ELSE main
                      /\ UNCHANGED <<vars, engine, loop, stopFailed>>

CloseProducer == /\ main = "stopDispatcher"
                 /\ phase = "stopped"
                 /\ producerClosed' = TRUE
                 /\ main' = "sync"
                 /\ UNCHANGED <<vars, engine, loop, stopFailed>>

\* logger.Sync, and main returns.
MainReturns == /\ main = "sync"
               /\ main' = "exited"
               /\ UNCHANGED <<vars, engine, loop, stopFailed, producerClosed>>

-----------------------------------------------------------------------------
\* A worker's step; the process and everything in it ends with main.
Work(w) == Worker(w) /\ UNCHANGED processVars
Quit(w) == Exit(w) /\ UNCHANGED processVars

MainStep == \/ StartDispatcher
            \/ Launch
            \/ Notify
            \/ StopFails
            \/ StopServer
            \/ ServerStopped
            \/ StopDispatcher
            \/ CloseProducer
            \/ MainReturns

EngineStep == Boot \/ Enter \/ EngineDown

LoopStep(l) == OnTraffic(l) \/ Report(l) \/ OnTrafficReturns(l) \/ LoopEnds(l)

GatewayNext == /\ main # "exited"
               /\ \/ MainStep
                  \/ Killed
                  \/ Signal
                  \/ ServerFails
                  \/ EngineStep
                  \/ \E l \in Loops : LoopStep(l)
                  \/ \E w \in Workers : Work(w)

GatewaySpec == GatewayInit /\ [][GatewayNext]_gatewayVars

(* main, the engine and the workers run when they can.  A callback         *)
(* returns: Dispatch does not wait, and gnet's writes do not either.  So   *)
(* does Produce: Kafka's writes are asynchronous; amqp091 bounds a dial by *)
(* a timeout and the life of a broken connection by its heartbeat.  A loop *)
(* that is to end finds the order when it polls, between two callbacks of  *)
(* however busy a connection, and a worker in select that finds both cases *)
(* ready takes one at random, so it cannot pass ctx.Done for ever: strong  *)
(* fairness of LoopEnds and of Quit.  No signal has to come and nobody has *)
(* to report.                                                              *)
GatewayFairness ==
    /\ WF_gatewayVars(main # "exited" /\ MainStep)
    /\ WF_gatewayVars(main # "exited" /\ EngineStep)
    /\ \A l \in Loops : /\ WF_gatewayVars(main # "exited" /\ OnTrafficReturns(l))
                        /\ SF_gatewayVars(main # "exited" /\ LoopEnds(l))
    /\ \A w \in Workers : /\ WF_gatewayVars(main # "exited" /\ Work(w))
                          /\ SF_gatewayVars(main # "exited" /\ Quit(w))

GatewayFairSpec == GatewaySpec /\ GatewayFairness

-----------------------------------------------------------------------------
(* Correctness.                                                            *)

GatewayTypeOK ==
    /\ TypeOK
    /\ main \in {"init", "launched", "serving", "stopServer", "stopDispatcher", "sync",
                "exited"}
    /\ engine \in {"none", "booting", "failed", "looping", "entered", "stopping", "down"}
    /\ loop \in [Loops -> {"none", "idle", "busy"}]
    /\ stopFailed \in BOOLEAN
    /\ producerClosed \in BOOLEAN

(* From the moment the dispatcher is told to stop no event loop runs that  *)
(* could report to it, let alone send on the channel it closes: unless a   *)
(* signal came before the engine could be stopped (main.go:119).           *)
ServerStopsFirst ==
    cancelled /\ ~stopFailed => engine = "down" /\ \A l \in Loops : loop[l] = "none"

(* The producer is closed when no worker can be inside it or come to it    *)
(* any more, and while main still lives (main.go:83 and :88), however      *)
(* early the signal came.                                                  *)
ProducerClosesLast ==
    producerClosed => closed /\ \A w \in Workers : wpc[w] = "exited" /\ hold[w] = NoItem

(* Only Stop and the end of the process strand data: an item the channel   *)
(* took is published or fails (dispatcher.go:75-77), unless the context is *)
(* cancelled or main exits first.                                          *)
AcceptedIsSettled ==
    \A item \in Items :
        item \in ToSet(dataChan)
            ~> item \in Produced \cup failed \/ cancelled \/ main = "exited"

(* A signal ends the process: the callbacks return, the loops end, the     *)
(* workers notice the cancelled context, and every wait of main is over.   *)
GatewayExits == main = "stopServer" ~> main = "exited"
=============================================================================
