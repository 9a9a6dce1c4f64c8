----------------------------- MODULE ProxyServer -----------------------------
(***************************************************************************)
(* The server as a whole: the acceptor and its AcceptEx contexts, the pool *)
(* of completion workers, the sessions it retains, the connection slots,   *)
(* and ProxyServer::Stop on the main thread.                               *)
(*                                                                         *)
(* A session is reduced to what the server sees of it: one client read, in *)
(* flight or being handled, possibly a UDP relay with one receive of its   *)
(* own, its completionMutex_, and Close.  Socks5Session has the rest.      *)
(* A completion occupies the worker that takes it until its handler is     *)
(* done, the time it waits for a mutex included.                           *)
(***************************************************************************)
EXTENDS Naturals, FiniteSets

CONSTANTS
  Clients,        \* the connections that may arrive
  Accepts,        \* the AcceptIo contexts (16 in the code)
  Workers,        \* the completion workers
  MaxConnections, \* NetworkConfiguration::MaxConnections, 0 is unlimited
  Udp,            \* whether clients use UDP ASSOCIATE
  Faults,         \* whether accepts and posts fail
  Throws          \* where an exception may be thrown in OnAccept: "retain"
                  \* (making and retaining the session), "start" (its Start)

None == "none"
Main == "main"

ASSUME ServerAssumption ==
  /\ IsFiniteSet(Clients) /\ IsFiniteSet(Accepts) /\ IsFiniteSet(Workers)
  /\ Clients \cap Accepts = {}
  /\ None \notin Clients \cup Workers /\ Main \notin Workers
  /\ MaxConnections \in Nat
  /\ Udp \in BOOLEAN /\ Faults \in BOOLEAN
  /\ Throws \subseteq {"retain", "start"}

VARIABLES
  stopping,    \* ProxyServer::stopping_
  stopper,     \* what the main thread is doing, in Start and in Stop
  snapshot,    \* the sessions Stop has to close and to wait for
  todo,        \* those it has yet to close
  accStopping, \* TcpAcceptor::stopping_
  accLock,     \* the worker in the acceptor's completionMutex_
  io,          \* where the operation of an AcceptIo is
  conn,        \* the client an AcceptIo has accepted
  slots,       \* connectionSlots_
  sessions,    \* sessions_
  state,       \* "none" before a client connects, "accepted", then, with a
               \* session, "open" or "closed" (closed_)
  lock,        \* the thread in the session's completionMutex_
  read,        \* where the client read of a session is
  relay,       \* "none", "running" or "stopped" (stop_) per session
  recvFrom,    \* where the receive of the relay is
  pc,          \* what a worker is doing
  obj          \* the AcceptIo or session it is doing it for

stopVars == <<stopping, stopper, snapshot, todo>>
accVars == <<accStopping, accLock, io, conn>>
sessVars == <<sessions, state, lock, read>>
relayVars == <<relay, recvFrom>>
workerVars == <<pc, obj>>
vars == <<stopping, stopper, snapshot, todo, accStopping, accLock, io, conn, slots,
          sessions, state, lock, read, relay, recvFrom, pc, obj>>

(* An operation is "idle", or else pending: posted, its completion in the  *)
(* port ("queued"), or with its handler ("taken").  An AcceptIo that was   *)
(* never posted is "fresh".                                                *)
-----------------------------------------------------------------------------
Init ==
  /\ stopping = FALSE /\ stopper = "starting" /\ snapshot = {} /\ todo = {}
  /\ accStopping = FALSE /\ accLock = None
  /\ io = [a \in Accepts |-> "fresh"] /\ conn = [a \in Accepts |-> None]
  /\ slots = MaxConnections
  /\ sessions = {} /\ state = [c \in Clients |-> "none"]
  /\ lock = [c \in Clients |-> None]
  /\ read = [c \in Clients |-> "idle"]
  /\ relay = [c \in Clients |-> "none"] /\ recvFrom = [c \in Clients |-> "idle"]
  /\ pc = [w \in Workers |-> "idle"] /\ obj = [w \in Workers |-> None]

(* TcpAcceptor::Start posts one accept after the other, while the first    *)
(* ones complete; if one fails Start throws, and the destructor stops the  *)
(* server.                                                                 *)
PostFirst(a) ==
  /\ stopper = "starting" /\ io[a] = "fresh"
  /\ \/ io' = [io EXCEPT ![a] = "posted"] /\ UNCHANGED stopper
     \/ Faults /\ stopper' = "failed" /\ UNCHANGED io
  /\ UNCHANGED <<stopping, snapshot, todo, accStopping, accLock, conn, slots,
                 sessVars, relayVars, workerVars>>

Started ==
  /\ stopper = "starting" /\ \A a \in Accepts : io[a] # "fresh"
  /\ stopper' = "serving"
  /\ UNCHANGED <<stopping, snapshot, todo, accVars, slots, sessVars, relayVars,
                 workerVars>>

-----------------------------------------------------------------------------
(* The world: a client connects (once, which bounds the model), or an      *)
(* accept fails; a client sends data or ends its connection; a datagram    *)
(* arrives.                                                                *)
Arrives(a, c) ==
  /\ io[a] = "posted" /\ state[c] = "none"
  /\ state' = [state EXCEPT ![c] = "accepted"]
  /\ io' = [io EXCEPT ![a] = "queued"] /\ conn' = [conn EXCEPT ![a] = c]
  /\ UNCHANGED <<stopVars, accStopping, accLock, slots, sessions, lock,
                 read, relayVars, workerVars>>

AcceptFails(a) ==
  /\ Faults /\ io[a] = "posted" /\ stopper \in {"starting", "serving"}
  /\ io' = [io EXCEPT ![a] = "queued"]
  /\ UNCHANGED <<stopVars, accStopping, accLock, conn, slots, sessVars,
                 relayVars, workerVars>>

ReadCompletes(c) ==
  /\ read[c] = "posted"
  /\ read' = [read EXCEPT ![c] = "queued"]
  /\ UNCHANGED <<stopVars, accVars, slots, sessions, state, lock,
                 relayVars, workerVars>>

DatagramArrives(c) ==
  /\ recvFrom[c] = "posted"
  /\ recvFrom' = [recvFrom EXCEPT ![c] = "queued"]
  /\ UNCHANGED <<stopVars, accVars, slots, sessVars, relay, workerVars>>

-----------------------------------------------------------------------------
(* A worker takes the completion of an accept.  HandleAccept runs in the   *)
(* acceptor's completionMutex_, OnAccept included.                         *)
TakeAccept(w, a) ==
  /\ pc[w] = "idle" /\ io[a] = "queued"
  /\ io' = [io EXCEPT ![a] = "taken"]
  /\ pc' = [pc EXCEPT ![w] = "accept"] /\ obj' = [obj EXCEPT ![w] = a]
  /\ UNCHANGED <<stopVars, accStopping, accLock, conn, slots, sessVars,
                 relayVars>>

HandleAccept(w) ==
  /\ pc[w] = "accept" /\ accLock = None
  /\ accLock' = w
  /\ LET a == obj[w]
         dropped == accStopping \/ conn[a] = None
     IN /\ pc' = [pc EXCEPT ![w] = IF dropped THEN "repost" ELSE "check"]
        /\ conn' = IF dropped THEN [conn EXCEPT ![a] = None] ELSE conn
  /\ UNCHANGED <<stopVars, accStopping, io, slots, sessVars, relayVars, obj>>

(* OnAccept: nothing is accepted any more once the server stops ... *)
OnAcceptCheck(w) ==
  /\ pc[w] = "check"
  /\ pc' = [pc EXCEPT ![w] = IF stopping THEN "repost" ELSE "slot"]
  /\ conn' = IF stopping THEN [conn EXCEPT ![obj[w]] = None] ELSE conn
  /\ UNCHANGED <<stopVars, accStopping, accLock, io, slots, sessVars,
                 relayVars, obj>>

(* ... nor without a slot; try_acquire does not wait. *)
CanAcquire == MaxConnections = 0 \/ slots > 0

OnAcceptSlotWaits(w) ==
  /\ pc[w] = "slot" /\ CanAcquire
  /\ slots' = IF MaxConnections = 0 THEN slots ELSE slots - 1
  /\ pc' = [pc EXCEPT ![w] = "retain"]
  /\ UNCHANGED <<stopVars, accVars, sessVars, relayVars, obj>>
OnAcceptSlot(w) ==
  /\ pc[w] = "slot"
  /\ IF CanAcquire
     THEN /\ slots' = IF MaxConnections = 0 THEN slots ELSE slots - 1
          /\ pc' = [pc EXCEPT ![w] = "retain"] /\ UNCHANGED conn
     ELSE /\ pc' = [pc EXCEPT ![w] = "repost"] /\ UNCHANGED slots
          /\ conn' = [conn EXCEPT ![obj[w]] = None]
  /\ UNCHANGED <<stopVars, accStopping, accLock, io, sessVars,
                 relayVars, obj>>

(* One slot goes back, if there is a limit at all. *)
ReleaseSlot(c) ==
  /\ slots' = IF MaxConnections = 0 THEN slots ELSE slots + 1

(* The session is made and retained; when that throws, the slot is given   *)
(* back and the socket closed.                                             *)
RetainSession(w) ==
  /\ pc[w] = "retain"
  /\ LET c == conn[obj[w]] IN
     \/ /\ sessions' = sessions \cup {c}
        /\ state' = [state EXCEPT ![c] = "open"]
        /\ pc' = [pc EXCEPT ![w] = "start"]
        /\ UNCHANGED <<slots, conn>>
     \/ /\ "retain" \in Throws /\ ReleaseSlot(c)
        /\ pc' = [pc EXCEPT ![w] = "repost"]
        /\ conn' = [conn EXCEPT ![obj[w]] = None]
        /\ UNCHANGED <<sessions, state>>
  /\ UNCHANGED <<stopVars, accStopping, accLock, io, lock, read, relayVars, obj>>

(* OnSessionClosed: the end of Close. *)
OnSessionClosedKeepsSlot(c) ==
  sessions' = sessions \ {c} /\ UNCHANGED slots
OnSessionClosed(c) ==
  sessions' = sessions \ {c} /\ ReleaseSlot(c)

(* Socks5Session::Start posts the first read; or fails and OnAccept closes *)
(* the session; or throws, and OnAccept gives the slot back although the   *)
(* session stays retained.                                                 *)
StartSession(w) ==
  /\ pc[w] = "start"
  /\ LET c == conn[obj[w]] IN
     \/ read' = [read EXCEPT ![c] = "posted"] /\ UNCHANGED <<sessions, state, slots>>
     \/ /\ Faults /\ lock[c] = None
        /\ state' = [state EXCEPT ![c] = "closed"] /\ OnSessionClosed(c)
        /\ UNCHANGED read
     \/ "start" \in Throws /\ ReleaseSlot(c) /\ UNCHANGED <<sessions, state, read>>
  /\ pc' = [pc EXCEPT ![w] = "repost"]
  /\ conn' = [conn EXCEPT ![obj[w]] = None]
  /\ UNCHANGED <<stopVars, accStopping, accLock, io, lock, relayVars, obj>>

(* The AcceptIo is posted again, unless the acceptor stops.  When that     *)
(* fails it is never posted again.                                         *)
Repost(w) ==
  /\ pc[w] = "repost"
  /\ LET a == obj[w] IN
     \/ ~accStopping /\ io' = [io EXCEPT ![a] = "posted"]
     \/ (accStopping \/ Faults) /\ io' = [io EXCEPT ![a] = "idle"]
  /\ accLock' = None
  /\ pc' = [pc EXCEPT ![w] = "idle"] /\ obj' = [obj EXCEPT ![w] = None]
  /\ UNCHANGED <<stopVars, accStopping, conn, slots, sessVars, relayVars>>

-----------------------------------------------------------------------------
(* A worker takes the completion of a session's read and then waits for    *)
(* the session's completionMutex_.                                         *)
TakeRead(w, c) ==
  /\ pc[w] = "idle" /\ read[c] = "queued"
  /\ read' = [read EXCEPT ![c] = "taken"]
  /\ pc' = [pc EXCEPT ![w] = "session"] /\ obj' = [obj EXCEPT ![w] = c]
  /\ UNCHANGED <<stopVars, accVars, slots, sessions, state, lock, relayVars>>

Done(w) == pc' = [pc EXCEPT ![w] = "idle"] /\ obj' = [obj EXCEPT ![w] = None]

(* The handler goes on reading, for the first time with a UDP relay        *)
(* perhaps; a closed session has nothing to do.                            *)
HandleRead(w) ==
  /\ pc[w] = "session"
  /\ LET c == obj[w] IN
     /\ lock[c] = None
     /\ \/ /\ state[c] = "closed"
           /\ read' = [read EXCEPT ![c] = "idle"] /\ UNCHANGED relayVars
        \/ /\ state[c] = "open"
           /\ read' = [read EXCEPT ![c] = "posted"]
           /\ \/ UNCHANGED relayVars
              \/ /\ Udp /\ relay[c] = "none"
                 /\ relay' = [relay EXCEPT ![c] = "running"]
                 /\ recvFrom' = [recvFrom EXCEPT ![c] = "posted"]
  /\ Done(w)
  /\ UNCHANGED <<stopVars, accVars, slots, sessions, state, lock>>

(* Close, on thread t: the relay is stopped, which aborts its receive, and *)
(* Close waits for the relay inside completionMutex_ ...                   *)
CloseBegins(c, t) ==
  /\ lock[c] = None /\ state[c] = "open"
  /\ state' = [state EXCEPT ![c] = "closed"]
  /\ lock' = [lock EXCEPT ![c] = t]
  /\ relay' = [relay EXCEPT ![c] = IF @ = "running" THEN "stopped" ELSE @]
  /\ recvFrom' = [recvFrom EXCEPT ![c] = IF @ = "posted" THEN "queued" ELSE @]

(* ... then the sockets are closed, which aborts the read. *)
CloseEnds(c) ==
  /\ recvFrom[c] = "idle"
  /\ lock' = [lock EXCEPT ![c] = None]
  /\ OnSessionClosed(c)

(* The handler closes the session: the client is gone, or is refused. *)
HandlerCloses(w) ==
  /\ pc[w] = "session" /\ CloseBegins(obj[w], w)
  /\ pc' = [pc EXCEPT ![w] = "closing"]
  /\ UNCHANGED <<stopVars, accVars, slots, sessions, read, obj>>

HandlerClosed(w) ==
  /\ pc[w] = "closing" /\ CloseEnds(obj[w])
  /\ pc' = [pc EXCEPT ![w] = "closed"]
  /\ UNCHANGED <<stopVars, accVars, state, read, relayVars, obj>>

(* Only after the handler has returned is its read no longer pending. *)
ReleasePending(w) ==
  /\ pc[w] = "closed"
  /\ read' = [read EXCEPT ![obj[w]] = "idle"]
  /\ Done(w)
  /\ UNCHANGED <<stopVars, accVars, slots, sessions, state, lock, relayVars>>

(* UdpRelay::OnIoCompleted, in the relay's own completionMutex_. *)
HandleDatagramReposts(w, c) ==
  /\ pc[w] = "idle" /\ recvFrom[c] = "queued"
  /\ recvFrom' = [recvFrom EXCEPT ![c] = "posted"]
  /\ UNCHANGED <<stopVars, accVars, slots, sessVars, relay, workerVars>>
HandleDatagram(w, c) ==
  /\ pc[w] = "idle" /\ recvFrom[c] = "queued"
  /\ recvFrom' = [recvFrom EXCEPT ![c] = IF relay[c] = "running" THEN "posted" ELSE "idle"]
  /\ UNCHANGED <<stopVars, accVars, slots, sessVars, relay, workerVars>>

Worker(w) ==
  \/ \E a \in Accepts : TakeAccept(w, a)
  \/ HandleAccept(w) \/ OnAcceptCheck(w) \/ OnAcceptSlot(w) \/ RetainSession(w)
  \/ StartSession(w) \/ Repost(w)
  \/ \E c \in Clients : TakeRead(w, c) \/ HandleDatagram(w, c)
  \/ HandleRead(w) \/ HandlerCloses(w) \/ HandlerClosed(w) \/ ReleasePending(w)

-----------------------------------------------------------------------------
(* ProxyServer::Stop. *)
StopBegins ==
  /\ stopper \in {"serving", "failed"}
  /\ stopping' = TRUE /\ stopper' = "acceptor"
  /\ UNCHANGED <<snapshot, todo, accVars, slots, sessVars, relayVars, workerVars>>

(* TcpAcceptor::Stop needs the acceptor's completionMutex_. *)
StopAcceptor ==
  /\ stopper = "acceptor" /\ accLock = None
  /\ accStopping' = TRUE /\ stopper' = "listen"
  /\ UNCHANGED <<stopping, snapshot, todo, accLock, io, conn, slots, sessVars,
                 relayVars, workerVars>>

(* The listening socket is closed, which aborts the posted accepts. *)
CloseListener ==
  /\ stopper = "listen"
  /\ io' = [a \in Accepts |-> IF io[a] = "posted" THEN "queued" ELSE io[a]]
  /\ stopper' = "accepts"
  /\ UNCHANGED <<stopping, snapshot, todo, accStopping, accLock, conn, slots,
                 sessVars, relayVars, workerVars>>

(* acceptor_->WaitPendingZero(-1), then the snapshot of the sessions. *)
AcceptorIdleUnchecked == TRUE
AcceptorIdle == \A a \in Accepts : io[a] \in {"idle", "fresh"}

Snapshot ==
  /\ stopper = "accepts" /\ AcceptorIdle
  /\ snapshot' = sessions /\ todo' = sessions /\ stopper' = "closing"
  /\ UNCHANGED <<stopping, accVars, slots, sessVars, relayVars, workerVars>>

(* Each session of it is closed; one that is closed already is passed over *)
(* once its completionMutex_ is free.                                      *)
StopCloses(c) ==
  /\ stopper = "closing" /\ c \in todo /\ \A d \in Clients : lock[d] # Main
  /\ CloseBegins(c, Main)
  /\ UNCHANGED <<stopVars, accVars, slots, sessions, read, workerVars>>

StopClosed(c) ==
  /\ stopper = "closing" /\ lock[c] = Main /\ CloseEnds(c)
  /\ todo' = todo \ {c}
  /\ read' = [read EXCEPT ![c] = IF @ = "posted" THEN "queued" ELSE @]
  /\ UNCHANGED <<stopping, stopper, snapshot, accVars, state, relayVars, workerVars>>

StopPasses(c) ==
  /\ stopper = "closing" /\ c \in todo /\ lock[c] = None /\ state[c] = "closed"
  /\ todo' = todo \ {c}
  /\ UNCHANGED <<stopping, stopper, snapshot, accVars, slots, sessVars, relayVars,
                 workerVars>>

(* ... and waited for, pending operation by pending operation. *)
SessionsIdle ==
  /\ stopper = "closing" /\ todo = {} /\ \A c \in snapshot : read[c] = "idle"
  /\ stopper' = "empty"
  /\ UNCHANGED <<stopping, snapshot, todo, accVars, slots, sessVars,
                 relayVars, workerVars>>

(* sessions_ is empty, at once or within ten seconds: NoSessionEscapes     *)
(* says that the branch for leftover sessions is never taken.              *)
StopDns ==
  /\ stopper = "empty" /\ sessions = {}
  /\ stopper' = "dns"
  /\ UNCHANGED <<stopping, snapshot, todo, accVars, slots, sessVars,
                 relayVars, workerVars>>

(* iocp_.Stop waits for what is outstanding and joins the workers          *)
(* (IocpService).                                                          *)
StopIocp ==
  /\ stopper = "dns"
  /\ \A w \in Workers : pc[w] = "idle"
  /\ \A c \in Clients : read[c] = "idle" /\ recvFrom[c] = "idle"
  /\ stopper' = "stopped"
  /\ UNCHANGED <<stopping, snapshot, todo, accVars, slots, sessVars,
                 relayVars, workerVars>>

Stop == \/ StopAcceptor \/ CloseListener \/ Snapshot \/ SessionsIdle
        \/ StopDns \/ StopIocp
        \/ \E c \in Clients : StopCloses(c) \/ StopClosed(c) \/ StopPasses(c)

Ended == stopper = "stopped" /\ UNCHANGED vars

Next ==
  \/ \E a \in Accepts : PostFirst(a) \/ AcceptFails(a)
  \/ Started \/ StopBegins \/ Stop \/ Ended
  \/ \E a \in Accepts, c \in Clients : Arrives(a, c)
  \/ \E c \in Clients : ReadCompletes(c) \/ DatagramArrives(c)
  \/ \E w \in Workers : Worker(w)

Spec == Init /\ [][Next]_vars

(* Threads that can run do, and one that waits for the acceptor's          *)
(* completionMutex_ gets it in the end; the port hands completions out in  *)
(* the order they came, so none is passed over for ever.  Clients owe      *)
(* nothing.                                                                *)
Fairness ==
  /\ \A w \in Workers : WF_vars(Worker(w))
  /\ \A a \in Accepts :
       SF_vars(\E w \in Workers : TakeAccept(w, a) \/ (obj[w] = a /\ HandleAccept(w)))
  /\ \A c \in Clients : /\ SF_vars(\E w \in Workers : TakeRead(w, c))
                         /\ SF_vars(\E w \in Workers : HandleDatagram(w, c))
  /\ WF_vars(Stop) /\ WF_vars(stopper = "failed" /\ StopBegins)

FairSpec == Spec /\ Fairness

-----------------------------------------------------------------------------
(* Every connection slot is free or held by exactly one retained session,  *)
(* or by the accept that is about to make it: MaxConnections bounds the    *)
(* sessions, and no slot is lost on any path to Close.                     *)
SlotsExact ==
  MaxConnections > 0 =>
    slots + Cardinality(sessions \cup {conn[obj[w]] : w \in {v \in Workers : pc[v] = "retain"}})
      = MaxConnections

(* No session escapes Stop: once the snapshot is taken no accept is being  *)
(* handled, every open session is one that Stop has yet to close, and none *)
(* is left when it goes on to stop the resolver and the port.              *)
NoSessionEscapes ==
  /\ stopper \in {"closing", "empty", "dns", "stopped"} =>
       /\ accLock = None
       /\ \A c \in Clients : state[c] = "open" => c \in todo
  /\ stopper \in {"empty", "dns", "stopped"} => sessions = {}

(* An accepted client is given a session or turned away; it is never left  *)
(* waiting for a slot, with the acceptor's mutex held.                     *)
Answered ==
  \A c \in Clients : (\E a \in Accepts : conn[a] = c) ~> (\A a \in Accepts : conn[a] # c)

(* Stop returns, whatever the clients do ("Clean shutdown on Ctrl+C"). *)
StopReturns == stopping ~> (stopper = "stopped")
=============================================================================
