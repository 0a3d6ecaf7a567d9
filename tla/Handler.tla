------------------------------ MODULE Handler ------------------------------
(***************************************************************************)
(* Connections and the protocol handler                                    *)
(* (internal/server/tcp_server.go, internal/usecase/gbt32960/handler.go):  *)
(* platform login, vehicle login, logout and real-time reports arriving on *)
(* several connections at once.                                            *)
(*                                                                         *)
(* The callbacks of a connection run one after another on its event loop,  *)
(* those of different connections in parallel, so a connection is a        *)
(* process and the caller of the session manager.  A handler is cut where  *)
(* it touches the session manager; decoding, and what it dispatches and    *)
(* replies, is abstracted to whether the request is well formed.  Time     *)
(* does not pass here: nothing the gateway runs reads LastActiveTime.      *)
(***************************************************************************)
EXTENDS SessionManager

CONSTANT MaxRequests \* bound of the model: requests received altogether

ASSUME CallersAssumption == Callers = Conns
ASSUME MaxRequestsAssumption == MaxRequests \in Nat /\ MaxRequests <= MaxSessions

VARIABLES link,     \* life of the TCP connection
          authed,   \* connContext.isPlatformAuthed
          pc,       \* where the connection's callback is
          subject,  \* the VIN of the packet it handles
          requests, \* requests received so far
          proven,   \* history: connections that have shown valid credentials
          welcomed  \* history: vehicle logins answered with success

hVars == <<link, authed, pc, subject, requests, proven, welcomed>>
vars == <<smVars, hVars>>

TypeOK == /\ SMTypeOK
          /\ link \in [Conns -> {"fresh", "open", "closed"}]
          /\ authed \in [Conns -> BOOLEAN]
          /\ pc \in [Conns -> {"idle", "add", "register", "touch", "finish"}]
          /\ subject \in [Conns -> Vins]
          /\ requests \in 0 .. MaxRequests
          /\ proven \subseteq Conns
          /\ welcomed \subseteq Conns \X Vins

Init == /\ SMInit
        /\ link = [c \in Conns |-> "fresh"]
        /\ authed = [c \in Conns |-> FALSE]
        /\ pc = [c \in Conns |-> "idle"]
        /\ subject \in {[c \in Conns |-> v] : v \in Vins}
        /\ requests = 0
        /\ proven = {}
        /\ welcomed = {}

-----------------------------------------------------------------------------
(* The life of a connection.  gnet runs its callbacks and the close it has *)
(* been asked for on the connection's own loop, so neither interrupts a    *)
(* handler.  OnClose only logs: the session table is left as it is.        *)

OnOpen(c) == /\ link[c] = "fresh"
             /\ link' = [link EXCEPT ![c] = "open"]
             /\ UNCHANGED <<smVars, authed, pc, subject, requests, proven, welcomed>>

Disconnect(c) == /\ link[c] = "open" /\ pc[c] = "idle"
                 /\ link' = [link EXCEPT ![c] = "closed"]
                 /\ UNCHANGED <<smVars, authed, pc, subject, requests, proven, welcomed>>

CloseRequested(c) == /\ c \in closeReq
                     /\ Disconnect(c)

-----------------------------------------------------------------------------
(* OnTraffic hands a decoded packet to HandleMessage.                      *)

\* Another packet, about vehicle v, has been cut from the stream.
Receive(c, v) == /\ link[c] = "open" /\ pc[c] = "idle"
                 /\ requests < MaxRequests
                 /\ requests' = requests + 1
                 /\ subject' = [subject EXCEPT ![c] = v]

\* 0x05, and the credentials are known.
PlatformLoginAccepted(c, v) ==
    /\ Receive(c, v)
    /\ authed' = [authed EXCEPT ![c] = TRUE]
    /\ proven' = proven \cup {c}
    /\ UNCHANGED <<smVars, link, pc, welcomed>>

\* 0x05 with bad credentials, 0x01 before a platform login, or a packet
\* whose body cannot be parsed (an error, or a panic that HandleMessage
\* recovers): at most a negative reply; the connection stays as it is.
Refused(c, v) ==
    /\ Receive(c, v)
    /\ UNCHANGED <<smVars, link, authed, pc, proven, welcomed>>

\* Mutants of VehicleLoginAnswered: the authentication check is dropped; the
\* handler returns after the reply.
VehicleLoginUnchecked(c, v) ==
    /\ Receive(c, v)
    /\ welcomed' = welcomed \cup {<<c, v>>}
    /\ pc' = [pc EXCEPT ![c] = "add"]
    /\ UNCHANGED <<smVars, link, authed, proven>>

VehicleLoginNotAdded(c, v) ==
    /\ Receive(c, v)
    /\ authed[c]
    /\ welcomed' = welcomed \cup {<<c, v>>}
    /\ UNCHANGED <<smVars, link, authed, pc, proven>>

\* 0x01 on an authenticated connection: the reply goes out first.
VehicleLoginAnswered(c, v) ==
    /\ Receive(c, v)
    /\ authed[c]
    /\ welcomed' = welcomed \cup {<<c, v>>}
    /\ pc' = [pc EXCEPT ![c] = "add"]
    /\ UNCHANGED <<smVars, link, authed, proven>>

VehicleLoginAdd(c) ==
    /\ pc[c] = "add"
    /\ Add(subject[c], c)
    /\ pc' = [pc EXCEPT ![c] = "idle"]
    /\ UNCHANGED <<link, authed, subject, requests, proven, welcomed>>

\* 0x03: Remove, and then the reply (in "finish").
Logout(c, v) ==
    /\ Receive(c, v)
    /\ LoadAndDelete(c, v)
    /\ pc' = [pc EXCEPT ![c] = "finish"]
    /\ UNCHANGED <<link, authed, proven, welcomed>>

\* Mutant of LogoutClose: it closes the connection the logout came from.
LogoutCloseOwn(c) == /\ doing[c] = "close"
                     /\ closeReq' = closeReq \cup {c}
                     /\ doing' = [doing EXCEPT ![c] = "none"]
                     /\ held' = [held EXCEPT ![c] = NoSession]
                     /\ UNCHANGED <<sessions, heap, removed, clock, hVars>>

LogoutClose(c) == CloseRemoved(c) /\ UNCHANGED hVars

\* 0x02: a vehicle without a session gets one, whoever it is.
RealTime(c, v) ==
    /\ Receive(c, v)
    /\ pc' = [pc EXCEPT ![c] = IF Registered(v) THEN "touch" ELSE "register"]
    /\ UNCHANGED <<smVars, link, authed, proven, welcomed>>

AutoRegister(c) ==
    /\ pc[c] = "register"
    /\ Add(subject[c], c)
    /\ pc' = [pc EXCEPT ![c] = "touch"]
    /\ UNCHANGED <<link, authed, subject, requests, proven, welcomed>>

Touch(c) ==
    /\ pc[c] = "touch"
    /\ TouchLoad(c, subject[c])
    /\ pc' = [pc EXCEPT ![c] = "finish"]
    /\ UNCHANGED <<link, authed, subject, requests, proven, welcomed>>

\* Any other command (the heartbeat 0x07 too) only refreshes the session.
OtherCommand(c, v) ==
    /\ Receive(c, v)
    /\ pc' = [pc EXCEPT ![c] = "touch"]
    /\ UNCHANGED <<smVars, link, authed, proven, welcomed>>

TouchWrite(c) == TouchStore(c) /\ UNCHANGED hVars

\* What is left of the handler: information units, dispatches, the reply.
Finish(c) ==
    /\ pc[c] = "finish" /\ doing[c] = "none"
    /\ pc' = [pc EXCEPT ![c] = "idle"]
    /\ UNCHANGED <<smVars, link, authed, subject, requests, proven, welcomed>>

-----------------------------------------------------------------------------
Request(c, v) == \/ PlatformLoginAccepted(c, v)
                 \/ Refused(c, v)
                 \/ VehicleLoginAnswered(c, v)
                 \/ Logout(c, v)
                 \/ RealTime(c, v)
                 \/ OtherCommand(c, v)

Continue(c) == \/ VehicleLoginAdd(c)
               \/ LogoutClose(c)
               \/ AutoRegister(c)
               \/ Touch(c)
               \/ TouchWrite(c)
               \/ Finish(c)

Next == \E c \in Conns :
            \/ OnOpen(c)
            \/ Disconnect(c)
            \/ CloseRequested(c)
            \/ \E v \in Vins : Request(c, v)
            \/ Continue(c)

Spec == Init /\ [][Next]_vars

(* An event loop runs a callback to its end.  Between two callbacks it     *)
(* takes the closes that were queued for it, so a connection that keeps    *)
(* sending cannot keep its close waiting for ever: strong fairness.        *)
(* Peers need neither connect, send nor hang up.                           *)
Fairness == \A c \in Conns : WF_vars(Continue(c)) /\ SF_vars(CloseRequested(c))

FairSpec == Spec /\ Fairness

-----------------------------------------------------------------------------
(* Correctness.                                                            *)

(* A vehicle that was told its login succeeded is registered: its session  *)
(* has been stored, or the same callback is about to (the reply at         *)
(* handler.go:179 goes out before the Add at :187).                        *)
WelcomedIsRegistered ==
    \A c \in Conns, v \in Vins :
        <<c, v>> \in welcomed =>
            \/ pc[c] = "add" /\ subject[c] = v
            \/ \E s \in Allocated : heap[s].vin = v /\ heap[s].conn = c

(* No vehicle login succeeds on a connection whose platform has never      *)
(* authenticated itself, and only the connection itself can have done so.  *)
WelcomedIsProven ==
    \A c \in Conns, v \in Vins : <<c, v>> \in welcomed => c \in proven

(* A removed session's connection is eventually closed, even if its peer   *)
(* keeps sending (session_manager.go:55).                                  *)
RemovedIsDisconnected ==
    \A c \in Conns :
        (\E s \in removed : heap[s].conn = c) /\ link[c] = "open" ~> link[c] = "closed"

(* "Auto-register session if missing" (comment at handler.go:226): the     *)
(* session a real-time report stores replaces none.                        *)
AutoRegisterOnlyMissing ==
    [][\A c \in Conns : AutoRegister(c) => ~Registered(subject[c])]_vars

(* "Maintains the mapping from VIN to connection and evicts connections    *)
(* that time out" (README.md:104): a dead connection's session goes.       *)
DeadSessionIsDropped ==
    \A c \in Conns, v \in Vins :
        LET stale == sessions[v] # NoSession /\ heap[sessions[v]].conn = c
        IN  link[c] = "closed" /\ stale ~> ~stale
=============================================================================
