------------------------- MODULE ProxyServerProofs -------------------------
(***************************************************************************)
(* Proofs about ProxyServer, for any number of clients, accept contexts,   *)
(* workers and connection slots.                                           *)
(***************************************************************************)
EXTENDS ProxyServer, FiniteSetTheorems, TLAPS

Stages == {"starting", "failed", "serving", "acceptor", "listen", "accepts", "closing",
           "empty", "dns", "stopped"}
(* From the snapshot of the sessions on. *)
Late == {"closing", "empty", "dns", "stopped"}
(* In the acceptor's completionMutex_, and in a completion of the acceptor *)
(* or of a session.                                                        *)
Inside == {"check", "slot", "retain", "start", "repost"}
OfAcceptor == Inside \cup {"accept"}
OfSession == {"session", "closing", "closed"}

TypeOK ==
  /\ stopping \in BOOLEAN /\ stopper \in Stages
  /\ snapshot \subseteq Clients /\ todo \subseteq Clients /\ sessions \subseteq Clients
  /\ accStopping \in BOOLEAN /\ accLock \in Workers \cup {None}
  /\ io \in [Accepts -> {"fresh", "posted", "queued", "taken", "idle"}]
  /\ conn \in [Accepts -> Clients \cup {None}]
  /\ slots \in Nat
  /\ state \in [Clients -> {"none", "accepted", "open", "closed"}]
  /\ lock \in [Clients -> Workers \cup {None, Main}]
  /\ read \in [Clients -> {"idle", "posted", "queued", "taken"}]
  /\ relay \in [Clients -> {"none", "running", "stopped"}]
  /\ recvFrom \in [Clients -> {"idle", "posted", "queued"}]
  /\ pc \in [Workers -> {"idle"} \cup OfAcceptor \cup OfSession]
  /\ obj \in [Workers -> Accepts \cup Clients \cup {None}]

(* Each completion has one worker, and the acceptor's mutex is held by the *)
(* one that is inside.                                                     *)
WorkerInv ==
  /\ \A w \in Workers :
       /\ pc[w] \in OfAcceptor => obj[w] \in Accepts /\ io[obj[w]] = "taken"
       /\ pc[w] \in OfSession => obj[w] \in Clients /\ read[obj[w]] = "taken"
       /\ pc[w] \in Inside <=> accLock = w
  /\ \A v, w \in Workers :
       pc[v] # "idle" /\ pc[w] # "idle" /\ obj[v] = obj[w] => v = w

(* A client that was accepted is in one AcceptIo, which is not posted, and *)
(* has no session before its worker has retained one.                      *)
AcceptInv ==
  /\ \A a \in Accepts : conn[a] # None =>
       /\ io[a] \in {"queued", "taken"}
       /\ read[conn[a]] = "idle"
       /\ \/ state[conn[a]] = "accepted"
          \/ state[conn[a]] = "open" /\ \E w \in Workers : pc[w] = "start" /\ obj[w] = a
  /\ \A a, b \in Accepts : conn[a] # None /\ conn[a] = conn[b] => a = b
  /\ \A w \in Workers :
       /\ pc[w] \in {"check", "slot", "retain", "start"} => conn[obj[w]] # None
       /\ pc[w] \in {"check", "slot", "retain"} => state[conn[obj[w]]] = "accepted"
       /\ pc[w] = "start" => state[conn[obj[w]]] = "open"
       /\ pc[w] = "repost" => conn[obj[w]] = None

(* A session is retained while it is open and until its Close ends.        *)
SessionInv ==
  \A c \in Clients :
    /\ state[c] \in {"none", "accepted"} => read[c] = "idle"
    /\ state[c] = "open" => c \in sessions /\ lock[c] = None
    /\ c \in sessions => state[c] = "open" \/ (state[c] = "closed" /\ lock[c] # None)
    /\ lock[c] # None => c \in sessions
    /\ \A w \in Workers : lock[c] = w <=> pc[w] = "closing" /\ obj[w] = c
    /\ lock[c] = Main => stopper = "closing" /\ c \in todo

(* What holds from the snapshot on. *)
StopInv ==
  stopper \in Late =>
    /\ AcceptorIdle
    /\ \A c \in Clients : state[c] = "open" => c \in todo
    /\ sessions \subseteq snapshot
    /\ stopper # "closing" => sessions = {}

IInv == TypeOK /\ WorkerInv /\ AcceptInv /\ SessionInv /\ StopInv

(* The clients that hold a slot.  SlotsExact counts them. *)
Holders == sessions \cup {conn[obj[w]] : w \in {v \in Workers : pc[v] = "retain"}}
HoldersExact == MaxConnections > 0 => slots + Cardinality(Holders) = MaxConnections
-----------------------------------------------------------------------------
(* Who holds a slot is a client. *)
LEMMA HoldersFinite ==
  ASSUME IInv
  PROVE  Holders \in SUBSET Clients /\ IsFiniteSet(Holders) /\ Cardinality(Holders) \in Nat
<1>1. \A w \in Workers : pc[w] = "retain" => conn[obj[w]] \in Clients
  BY DEF IInv, TypeOK, WorkerInv, AcceptInv, Inside, OfAcceptor
<1>2. Holders \in SUBSET Clients
  BY <1>1 DEF IInv, TypeOK, Holders
<1>. QED
  BY <1>2, ServerAssumption, FS_Subset, FS_CardinalityType

(* Who neither retains, releases nor is about to retain changes nothing.   *)
LEMMA HoldersKept ==
  ASSUME HoldersExact, UNCHANGED <<sessions, slots>>,
         \A v \in Workers : /\ pc'[v] = "retain" <=> pc[v] = "retain"
                            /\ pc[v] = "retain" => conn'[obj'[v]] = conn[obj[v]]
  PROVE  HoldersExact'
<1>1. Holders' = Holders
  BY DEF Holders
<1>. QED
  BY <1>1 DEF HoldersExact

(* A slot that goes back, with the client that held it.                    *)
LEMMA HolderGone ==
  ASSUME IInv, HoldersExact, NEW c \in Holders, Holders' = Holders \ {c}, ReleaseSlot(c)
  PROVE  HoldersExact'
<1>1. IsFiniteSet(Holders) /\ Cardinality(Holders) \in Nat
  BY HoldersFinite
<1>2. Cardinality(Holders') = Cardinality(Holders) - 1
  BY <1>1, FS_RemoveElement
<1>. QED
  BY <1>1, <1>2, ServerAssumption DEF HoldersExact, ReleaseSlot, IInv, TypeOK

(* Type correctness is inductive. *)
LEMMA TypeStep ==
  ASSUME IInv, [Next]_vars
  PROVE  TypeOK'
<1>. USE ServerAssumption DEF IInv
<1>1. ASSUME NEW a \in Accepts, PostFirst(a)
      PROVE  TypeOK'
  BY <1>1 DEF PostFirst, sessVars, relayVars, workerVars, TypeOK, Stages, Inside,
     OfAcceptor, OfSession
<1>2. CASE Started
  BY <1>2 DEF Started, accVars, sessVars, relayVars, workerVars, TypeOK, Stages,
     Inside, OfAcceptor, OfSession
<1>3. ASSUME NEW a \in Accepts, AcceptFails(a)
      PROVE  TypeOK'
  BY <1>3 DEF AcceptFails, stopVars, sessVars, relayVars, workerVars, TypeOK, Stages,
     Inside, OfAcceptor, OfSession
<1>4. ASSUME NEW a \in Accepts, NEW c \in Clients, Arrives(a, c)
      PROVE  TypeOK'
  BY <1>4 DEF Arrives, stopVars, relayVars, workerVars, TypeOK, Stages, Inside,
     OfAcceptor, OfSession
<1>5. ASSUME NEW c \in Clients, ReadCompletes(c)
      PROVE  TypeOK'
  BY <1>5 DEF ReadCompletes, stopVars, accVars, relayVars, workerVars, TypeOK, Stages,
     Inside, OfAcceptor, OfSession
<1>6. ASSUME NEW c \in Clients, DatagramArrives(c)
      PROVE  TypeOK'
  BY <1>6 DEF DatagramArrives, stopVars, accVars, sessVars, workerVars, TypeOK,
     Stages, Inside, OfAcceptor, OfSession
<1>7. ASSUME NEW w \in Workers, NEW a \in Accepts, TakeAccept(w, a)
      PROVE  TypeOK'
  BY <1>7 DEF TakeAccept, stopVars, sessVars, relayVars, TypeOK, Stages, Inside,
     OfAcceptor, OfSession
<1>8. ASSUME NEW w \in Workers, HandleAccept(w)
      PROVE  TypeOK'
  BY <1>8 DEF HandleAccept, stopVars, sessVars, relayVars, TypeOK, Stages, Inside,
     OfAcceptor, OfSession
<1>9. ASSUME NEW w \in Workers, OnAcceptCheck(w)
      PROVE  TypeOK'
  BY <1>9 DEF OnAcceptCheck, stopVars, sessVars, relayVars, TypeOK, Stages, Inside,
     OfAcceptor, OfSession
<1>10. ASSUME NEW w \in Workers, OnAcceptSlot(w)
       PROVE  TypeOK'
  BY <1>10 DEF OnAcceptSlot, CanAcquire, stopVars, sessVars, relayVars, TypeOK,
     Stages, Inside, OfAcceptor, OfSession
<1>11. ASSUME NEW w \in Workers, RetainSession(w)
       PROVE  TypeOK'
  <2>. DEFINE c == conn[obj[w]]
  <2>1. c \in Clients
    BY <1>11 DEF RetainSession, TypeOK, WorkerInv, AcceptInv, Inside, OfAcceptor
  <2>2. pc' \in [Workers -> {"idle"} \cup OfAcceptor \cup OfSession]
    BY <1>11 DEF RetainSession, TypeOK, Inside, OfAcceptor
  <2>3. conn' \in [Accepts -> Clients \cup {None}]
    BY <1>11 DEF RetainSession, TypeOK
  <2>4. slots' \in Nat
    BY <1>11 DEF RetainSession, ReleaseSlot, TypeOK
  <2>5. /\ sessions' \subseteq Clients
        /\ state' \in [Clients -> {"none", "accepted", "open", "closed"}]
    <3>1. CASE sessions' = sessions \cup {c} /\ state' = [state EXCEPT ![c] = "open"]
      BY <2>1, <3>1 DEF TypeOK
    <3>2. CASE UNCHANGED <<sessions, state>>
      BY <3>2 DEF TypeOK
    <3>. QED
      BY <1>11, <3>1, <3>2 DEF RetainSession
  <2>. QED
    BY <1>11, <2>2, <2>3, <2>4, <2>5 DEF RetainSession, stopVars, relayVars, TypeOK
<1>12. ASSUME NEW w \in Workers, StartSession(w)
       PROVE  TypeOK'
  <2>1. pc' \in [Workers -> {"idle"} \cup OfAcceptor \cup OfSession]
    BY <1>12 DEF StartSession, TypeOK, Inside, OfAcceptor
  <2>2. conn' \in [Accepts -> Clients \cup {None}]
    BY <1>12 DEF StartSession, TypeOK
  <2>3. slots' \in Nat /\ sessions' \subseteq Clients
    BY <1>12 DEF StartSession, OnSessionClosed, ReleaseSlot, TypeOK
  <2>4. /\ state' \in [Clients -> {"none", "accepted", "open", "closed"}]
        /\ read' \in [Clients -> {"idle", "posted", "queued", "taken"}]
    BY <1>12 DEF StartSession, TypeOK
  <2>. QED
    BY <1>12, <2>1, <2>2, <2>3, <2>4 DEF StartSession, stopVars, relayVars, TypeOK
<1>13. ASSUME NEW w \in Workers, Repost(w)
       PROVE  TypeOK'
  BY <1>13 DEF Repost, stopVars, sessVars, relayVars, TypeOK, Stages, Inside,
     OfAcceptor, OfSession
<1>14. ASSUME NEW w \in Workers, NEW c \in Clients, TakeRead(w, c)
       PROVE  TypeOK'
  BY <1>14 DEF TakeRead, stopVars, accVars, relayVars, TypeOK, Stages, Inside,
     OfAcceptor, OfSession
<1>15. ASSUME NEW w \in Workers, HandleRead(w)
       PROVE  TypeOK'
  BY <1>15 DEF HandleRead, Done, stopVars, accVars, relayVars, TypeOK, Stages, Inside,
     OfAcceptor, OfSession
<1>16. ASSUME NEW w \in Workers, HandlerCloses(w)
       PROVE  TypeOK'
  BY <1>16 DEF HandlerCloses, CloseBegins, stopVars, accVars, TypeOK, Stages, Inside,
     OfAcceptor, OfSession
<1>17. ASSUME NEW w \in Workers, HandlerClosed(w)
       PROVE  TypeOK'
  <2>1. pc' \in [Workers -> {"idle"} \cup OfAcceptor \cup OfSession]
    BY <1>17 DEF HandlerClosed, TypeOK, OfSession
  <2>2. slots' \in Nat /\ sessions' \subseteq Clients
    BY <1>17 DEF HandlerClosed, CloseEnds, OnSessionClosed, ReleaseSlot, TypeOK
  <2>3. lock' \in [Clients -> Workers \cup {None, Main}]
    BY <1>17 DEF HandlerClosed, CloseEnds, TypeOK
  <2>. QED
    BY <1>17, <2>1, <2>2, <2>3 DEF HandlerClosed, stopVars, accVars, relayVars, TypeOK
<1>18. ASSUME NEW w \in Workers, ReleasePending(w)
       PROVE  TypeOK'
  BY <1>18 DEF ReleasePending, Done, stopVars, accVars, relayVars, TypeOK, Stages,
     Inside, OfAcceptor, OfSession
<1>19. ASSUME NEW w \in Workers, NEW c \in Clients, HandleDatagram(w, c)
       PROVE  TypeOK'
  BY <1>19 DEF HandleDatagram, stopVars, accVars, sessVars, workerVars, TypeOK,
     Stages, Inside, OfAcceptor, OfSession
<1>20. CASE StopBegins
  BY <1>20 DEF StopBegins, accVars, sessVars, relayVars, workerVars, TypeOK, Stages,
     Inside, OfAcceptor, OfSession
<1>21. CASE StopAcceptor
  BY <1>21 DEF StopAcceptor, sessVars, relayVars, workerVars, TypeOK, Stages, Inside,
     OfAcceptor, OfSession
<1>22. CASE CloseListener
  BY <1>22 DEF CloseListener, sessVars, relayVars, workerVars, TypeOK, Stages, Inside,
     OfAcceptor, OfSession
<1>23. CASE Snapshot
  BY <1>23 DEF Snapshot, AcceptorIdle, accVars, sessVars, relayVars, workerVars,
     TypeOK, Stages, Inside, OfAcceptor, OfSession
<1>24. ASSUME NEW c \in Clients, StopCloses(c)
       PROVE  TypeOK'
  BY <1>24 DEF StopCloses, CloseBegins, stopVars, accVars, workerVars, TypeOK, Stages,
     Inside, OfAcceptor, OfSession
<1>25. ASSUME NEW c \in Clients, StopClosed(c)
       PROVE  TypeOK'
  BY <1>25 DEF StopClosed, CloseEnds, OnSessionClosed, ReleaseSlot, accVars,
     relayVars, workerVars, TypeOK, Stages, Inside, OfAcceptor, OfSession
<1>26. ASSUME NEW c \in Clients, StopPasses(c)
       PROVE  TypeOK'
  BY <1>26 DEF StopPasses, accVars, sessVars, relayVars, workerVars, TypeOK, Stages,
     Inside, OfAcceptor, OfSession
<1>27. CASE SessionsIdle
  BY <1>27 DEF SessionsIdle, accVars, sessVars, relayVars, workerVars, TypeOK, Stages,
     Inside, OfAcceptor, OfSession
<1>28. CASE StopDns
  BY <1>28 DEF StopDns, accVars, sessVars, relayVars, workerVars, TypeOK, Stages,
     Inside, OfAcceptor, OfSession
<1>29. CASE StopIocp
  BY <1>29 DEF StopIocp, accVars, sessVars, relayVars, workerVars, TypeOK, Stages,
     Inside, OfAcceptor, OfSession
<1>30. CASE UNCHANGED vars
  BY <1>30 DEF vars, TypeOK, Stages, Inside, OfAcceptor, OfSession
<1>. QED
  BY <1>1, <1>2, <1>3, <1>4, <1>5, <1>6, <1>7, <1>8, <1>9, <1>10, <1>11, <1>12, <1>13,
     <1>14, <1>15, <1>16, <1>17, <1>18, <1>19, <1>20, <1>21, <1>22, <1>23, <1>24, <1>25,
     <1>26, <1>27, <1>28, <1>29, <1>30 DEF Next, Stop, Worker, Ended

(* Completions and workers. *)
LEMMA WorkerStep ==
  ASSUME IInv, [Next]_vars
  PROVE  WorkerInv'
<1>. USE ServerAssumption DEF IInv
<1>1. ASSUME NEW a \in Accepts, PostFirst(a)
      PROVE  WorkerInv'
  BY <1>1 DEF PostFirst, sessVars, relayVars, workerVars, TypeOK, WorkerInv, Inside,
     OfAcceptor, OfSession
<1>2. CASE Started
  BY <1>2 DEF Started, accVars, sessVars, relayVars, workerVars, TypeOK, WorkerInv,
     Inside, OfAcceptor, OfSession
<1>3. ASSUME NEW a \in Accepts, AcceptFails(a)
      PROVE  WorkerInv'
  BY <1>3 DEF AcceptFails, stopVars, sessVars, relayVars, workerVars, TypeOK,
     WorkerInv, Inside, OfAcceptor, OfSession
<1>4. ASSUME NEW a \in Accepts, NEW c \in Clients, Arrives(a, c)
      PROVE  WorkerInv'
  BY <1>4 DEF Arrives, stopVars, relayVars, workerVars, TypeOK, WorkerInv, Inside,
     OfAcceptor, OfSession
<1>5. ASSUME NEW c \in Clients, ReadCompletes(c)
      PROVE  WorkerInv'
  BY <1>5 DEF ReadCompletes, stopVars, accVars, relayVars, workerVars, TypeOK,
     WorkerInv, Inside, OfAcceptor, OfSession
<1>6. ASSUME NEW c \in Clients, DatagramArrives(c)
      PROVE  WorkerInv'
  BY <1>6 DEF DatagramArrives, stopVars, accVars, sessVars, workerVars, TypeOK,
     WorkerInv, Inside, OfAcceptor, OfSession
<1>7. ASSUME NEW w \in Workers, NEW a \in Accepts, TakeAccept(w, a)
      PROVE  WorkerInv'
  BY <1>7 DEF TakeAccept, stopVars, sessVars, relayVars, TypeOK, WorkerInv, Inside,
     OfAcceptor, OfSession
<1>8. ASSUME NEW w \in Workers, HandleAccept(w)
      PROVE  WorkerInv'
  BY <1>8 DEF HandleAccept, stopVars, sessVars, relayVars, TypeOK, WorkerInv, Inside,
     OfAcceptor, OfSession
<1>9. ASSUME NEW w \in Workers, OnAcceptCheck(w)
      PROVE  WorkerInv'
  BY <1>9 DEF OnAcceptCheck, stopVars, sessVars, relayVars, TypeOK, WorkerInv, Inside,
     OfAcceptor, OfSession
<1>10. ASSUME NEW w \in Workers, OnAcceptSlot(w)
       PROVE  WorkerInv'
  BY <1>10 DEF OnAcceptSlot, CanAcquire, stopVars, sessVars, relayVars, TypeOK,
     WorkerInv, Inside, OfAcceptor, OfSession
<1>11. ASSUME NEW w \in Workers, RetainSession(w)
       PROVE  WorkerInv'
  BY <1>11 DEF RetainSession, ReleaseSlot, stopVars, relayVars, TypeOK, WorkerInv,
     Inside, OfAcceptor, OfSession
<1>12. ASSUME NEW w \in Workers, StartSession(w)
       PROVE  WorkerInv'
  BY <1>12 DEF StartSession, OnSessionClosed, ReleaseSlot, stopVars, relayVars, TypeOK,
     WorkerInv, Inside, OfAcceptor, OfSession, AcceptInv
<1>13. ASSUME NEW w \in Workers, Repost(w)
       PROVE  WorkerInv'
  BY <1>13 DEF Repost, stopVars, sessVars, relayVars, TypeOK, WorkerInv, Inside,
     OfAcceptor, OfSession
<1>14. ASSUME NEW w \in Workers, NEW c \in Clients, TakeRead(w, c)
       PROVE  WorkerInv'
  BY <1>14 DEF TakeRead, stopVars, accVars, relayVars, TypeOK, WorkerInv, Inside,
     OfAcceptor, OfSession
<1>15. ASSUME NEW w \in Workers, HandleRead(w)
       PROVE  WorkerInv'
  BY <1>15 DEF HandleRead, Done, stopVars, accVars, relayVars, TypeOK, WorkerInv,
     Inside, OfAcceptor, OfSession
<1>16. ASSUME NEW w \in Workers, HandlerCloses(w)
       PROVE  WorkerInv'
  BY <1>16 DEF HandlerCloses, CloseBegins, stopVars, accVars, TypeOK, WorkerInv,
     Inside, OfAcceptor, OfSession
<1>17. ASSUME NEW w \in Workers, HandlerClosed(w)
       PROVE  WorkerInv'
  BY <1>17 DEF HandlerClosed, CloseEnds, OnSessionClosed, ReleaseSlot, stopVars,
     accVars, relayVars, TypeOK, WorkerInv, Inside, OfAcceptor, OfSession
<1>18. ASSUME NEW w \in Workers, ReleasePending(w)
       PROVE  WorkerInv'
  BY <1>18 DEF ReleasePending, Done, stopVars, accVars, relayVars, TypeOK, WorkerInv,
     Inside, OfAcceptor, OfSession
<1>19. ASSUME NEW w \in Workers, NEW c \in Clients, HandleDatagram(w, c)
       PROVE  WorkerInv'
  BY <1>19 DEF HandleDatagram, stopVars, accVars, sessVars, workerVars, TypeOK,
     WorkerInv, Inside, OfAcceptor, OfSession
<1>20. CASE StopBegins
  BY <1>20 DEF StopBegins, accVars, sessVars, relayVars, workerVars, TypeOK,
     WorkerInv, Inside, OfAcceptor, OfSession
<1>21. CASE StopAcceptor
  BY <1>21 DEF StopAcceptor, sessVars, relayVars, workerVars, TypeOK, WorkerInv,
     Inside, OfAcceptor, OfSession
<1>22. CASE CloseListener
  BY <1>22 DEF CloseListener, sessVars, relayVars, workerVars, TypeOK, WorkerInv,
     Inside, OfAcceptor, OfSession
<1>23. CASE Snapshot
  BY <1>23 DEF Snapshot, AcceptorIdle, accVars, sessVars, relayVars, workerVars,
     TypeOK, WorkerInv, Inside, OfAcceptor, OfSession
<1>24. ASSUME NEW c \in Clients, StopCloses(c)
       PROVE  WorkerInv'
  BY <1>24 DEF StopCloses, CloseBegins, stopVars, accVars, workerVars, TypeOK,
     WorkerInv, Inside, OfAcceptor, OfSession
<1>25. ASSUME NEW c \in Clients, StopClosed(c)
       PROVE  WorkerInv'
  BY <1>25 DEF StopClosed, CloseEnds, OnSessionClosed, ReleaseSlot, accVars,
     relayVars, workerVars, TypeOK, WorkerInv, Inside, OfAcceptor, OfSession
<1>26. ASSUME NEW c \in Clients, StopPasses(c)
       PROVE  WorkerInv'
  BY <1>26 DEF StopPasses, accVars, sessVars, relayVars, workerVars, TypeOK,
     WorkerInv, Inside, OfAcceptor, OfSession
<1>27. CASE SessionsIdle
  BY <1>27 DEF SessionsIdle, accVars, sessVars, relayVars, workerVars, TypeOK,
     WorkerInv, Inside, OfAcceptor, OfSession
<1>28. CASE StopDns
  BY <1>28 DEF StopDns, accVars, sessVars, relayVars, workerVars, TypeOK, WorkerInv,
     Inside, OfAcceptor, OfSession
<1>29. CASE StopIocp
  BY <1>29 DEF StopIocp, accVars, sessVars, relayVars, workerVars, TypeOK, WorkerInv,
     Inside, OfAcceptor, OfSession
<1>30. CASE UNCHANGED vars
  BY <1>30 DEF vars, TypeOK, WorkerInv, Inside, OfAcceptor, OfSession
<1>. QED
  BY <1>1, <1>2, <1>3, <1>4, <1>5, <1>6, <1>7, <1>8, <1>9, <1>10, <1>11, <1>12, <1>13,
     <1>14, <1>15, <1>16, <1>17, <1>18, <1>19, <1>20, <1>21, <1>22, <1>23, <1>24, <1>25,
     <1>26, <1>27, <1>28, <1>29, <1>30 DEF Next, Stop, Worker, Ended

(* Accepted clients. *)
LEMMA AcceptStep ==
  ASSUME IInv, [Next]_vars
  PROVE  AcceptInv'
<1>. USE ServerAssumption DEF IInv
<1>1. ASSUME NEW a \in Accepts, PostFirst(a)
      PROVE  AcceptInv'
  BY <1>1 DEF PostFirst, sessVars, relayVars, workerVars, TypeOK, WorkerInv,
     AcceptInv, Inside, OfAcceptor, OfSession
<1>2. CASE Started
  BY <1>2 DEF Started, accVars, sessVars, relayVars, workerVars, TypeOK, WorkerInv,
     AcceptInv, Inside, OfAcceptor, OfSession
<1>3. ASSUME NEW a \in Accepts, AcceptFails(a)
      PROVE  AcceptInv'
  BY <1>3 DEF AcceptFails, stopVars, sessVars, relayVars, workerVars, TypeOK,
     WorkerInv, AcceptInv, Inside, OfAcceptor, OfSession
<1>4. ASSUME NEW a \in Accepts, NEW c \in Clients, Arrives(a, c)
      PROVE  AcceptInv'
  BY <1>4 DEF Arrives, stopVars, relayVars, workerVars, TypeOK, WorkerInv, AcceptInv,
     Inside, OfAcceptor, OfSession, SessionInv
<1>5. ASSUME NEW c \in Clients, ReadCompletes(c)
      PROVE  AcceptInv'
  BY <1>5 DEF ReadCompletes, stopVars, accVars, relayVars, workerVars, TypeOK,
     WorkerInv, AcceptInv, Inside, OfAcceptor, OfSession
<1>6. ASSUME NEW c \in Clients, DatagramArrives(c)
      PROVE  AcceptInv'
  BY <1>6 DEF DatagramArrives, stopVars, accVars, sessVars, workerVars, TypeOK,
     WorkerInv, AcceptInv, Inside, OfAcceptor, OfSession
<1>7. ASSUME NEW w \in Workers, NEW a \in Accepts, TakeAccept(w, a)
      PROVE  AcceptInv'
  BY <1>7 DEF TakeAccept, stopVars, sessVars, relayVars, TypeOK, WorkerInv, AcceptInv,
     Inside, OfAcceptor, OfSession
<1>8. ASSUME NEW w \in Workers, HandleAccept(w)
      PROVE  AcceptInv'
  BY <1>8 DEF HandleAccept, stopVars, sessVars, relayVars, TypeOK, WorkerInv,
     AcceptInv, Inside, OfAcceptor, OfSession
<1>9. ASSUME NEW w \in Workers, OnAcceptCheck(w)
      PROVE  AcceptInv'
  BY <1>9 DEF OnAcceptCheck, stopVars, sessVars, relayVars, TypeOK, WorkerInv,
     AcceptInv, Inside, OfAcceptor, OfSession
<1>10. ASSUME NEW w \in Workers, OnAcceptSlot(w)
       PROVE  AcceptInv'
  BY <1>10 DEF OnAcceptSlot, CanAcquire, stopVars, sessVars, relayVars, TypeOK,
     WorkerInv, AcceptInv, Inside, OfAcceptor, OfSession
<1>11. ASSUME NEW w \in Workers, RetainSession(w)
       PROVE  AcceptInv'
  BY <1>11 DEF RetainSession, ReleaseSlot, stopVars, relayVars, TypeOK, WorkerInv,
     AcceptInv, Inside, OfAcceptor, OfSession
<1>12. ASSUME NEW w \in Workers, StartSession(w)
       PROVE  AcceptInv'
  BY <1>12 DEF StartSession, OnSessionClosed, ReleaseSlot, stopVars, relayVars,
     TypeOK, WorkerInv, AcceptInv, Inside, OfAcceptor, OfSession
<1>13. ASSUME NEW w \in Workers, Repost(w)
       PROVE  AcceptInv'
  BY <1>13 DEF Repost, stopVars, sessVars, relayVars, TypeOK, WorkerInv, AcceptInv,
     Inside, OfAcceptor, OfSession
<1>14. ASSUME NEW w \in Workers, NEW c \in Clients, TakeRead(w, c)
       PROVE  AcceptInv'
  BY <1>14 DEF TakeRead, stopVars, accVars, relayVars, TypeOK, WorkerInv, AcceptInv,
     Inside, OfAcceptor, OfSession
<1>15. ASSUME NEW w \in Workers, HandleRead(w)
       PROVE  AcceptInv'
  BY <1>15 DEF HandleRead, Done, stopVars, accVars, relayVars, TypeOK, WorkerInv,
     AcceptInv, Inside, OfAcceptor, OfSession
<1>16. ASSUME NEW w \in Workers, HandlerCloses(w)
       PROVE  AcceptInv'
  BY <1>16 DEF HandlerCloses, CloseBegins, stopVars, accVars, TypeOK, WorkerInv,
     AcceptInv, Inside, OfAcceptor, OfSession
<1>17. ASSUME NEW w \in Workers, HandlerClosed(w)
       PROVE  AcceptInv'
  BY <1>17 DEF HandlerClosed, CloseEnds, OnSessionClosed, ReleaseSlot, stopVars,
     accVars, relayVars, TypeOK, WorkerInv, AcceptInv, Inside, OfAcceptor, OfSession
<1>18. ASSUME NEW w \in Workers, ReleasePending(w)
       PROVE  AcceptInv'
  BY <1>18 DEF ReleasePending, Done, stopVars, accVars, relayVars, TypeOK, WorkerInv,
     AcceptInv, Inside, OfAcceptor, OfSession
<1>19. ASSUME NEW w \in Workers, NEW c \in Clients, HandleDatagram(w, c)
       PROVE  AcceptInv'
  BY <1>19 DEF HandleDatagram, stopVars, accVars, sessVars, workerVars, TypeOK,
     WorkerInv, AcceptInv, Inside, OfAcceptor, OfSession
<1>20. CASE StopBegins
  BY <1>20 DEF StopBegins, accVars, sessVars, relayVars, workerVars, TypeOK,
     WorkerInv, AcceptInv, Inside, OfAcceptor, OfSession
<1>21. CASE StopAcceptor
  BY <1>21 DEF StopAcceptor, sessVars, relayVars, workerVars, TypeOK, WorkerInv,
     AcceptInv, Inside, OfAcceptor, OfSession
<1>22. CASE CloseListener
  BY <1>22 DEF CloseListener, sessVars, relayVars, workerVars, TypeOK, WorkerInv,
     AcceptInv, Inside, OfAcceptor, OfSession
<1>23. CASE Snapshot
  BY <1>23 DEF Snapshot, AcceptorIdle, accVars, sessVars, relayVars, workerVars,
     TypeOK, WorkerInv, AcceptInv, Inside, OfAcceptor, OfSession
<1>24. ASSUME NEW c \in Clients, StopCloses(c)
       PROVE  AcceptInv'
  <2>1. \A a \in Accepts : conn[a] = None /\ io[a] # "taken"
    BY <1>24 DEF StopCloses, StopInv, Late, AcceptorIdle, AcceptInv
  <2>2. \A w \in Workers : pc[w] \notin OfAcceptor
    BY <2>1 DEF WorkerInv
  <2>. QED
    BY <1>24, <2>1, <2>2 DEF StopCloses, accVars, workerVars, AcceptInv, Inside, OfAcceptor
<1>25. ASSUME NEW c \in Clients, StopClosed(c)
       PROVE  AcceptInv'
  BY <1>25 DEF StopClosed, CloseEnds, OnSessionClosed, ReleaseSlot, accVars,
     relayVars, workerVars, TypeOK, WorkerInv, AcceptInv, Inside, OfAcceptor, OfSession
<1>26. ASSUME NEW c \in Clients, StopPasses(c)
       PROVE  AcceptInv'
  BY <1>26 DEF StopPasses, accVars, sessVars, relayVars, workerVars, TypeOK,
     WorkerInv, AcceptInv, Inside, OfAcceptor, OfSession
<1>27. CASE SessionsIdle
  BY <1>27 DEF SessionsIdle, accVars, sessVars, relayVars, workerVars, TypeOK,
     WorkerInv, AcceptInv, Inside, OfAcceptor, OfSession
<1>28. CASE StopDns
  BY <1>28 DEF StopDns, accVars, sessVars, relayVars, workerVars, TypeOK, WorkerInv,
     AcceptInv, Inside, OfAcceptor, OfSession
<1>29. CASE StopIocp
  BY <1>29 DEF StopIocp, accVars, sessVars, relayVars, workerVars, TypeOK, WorkerInv,
     AcceptInv, Inside, OfAcceptor, OfSession
<1>30. CASE UNCHANGED vars
  BY <1>30 DEF vars, TypeOK, WorkerInv, AcceptInv, Inside, OfAcceptor, OfSession
<1>. QED
  BY <1>1, <1>2, <1>3, <1>4, <1>5, <1>6, <1>7, <1>8, <1>9, <1>10, <1>11, <1>12, <1>13,
     <1>14, <1>15, <1>16, <1>17, <1>18, <1>19, <1>20, <1>21, <1>22, <1>23, <1>24, <1>25,
     <1>26, <1>27, <1>28, <1>29, <1>30 DEF Next, Stop, Worker, Ended

(* Sessions. *)
LEMMA SessionStep ==
  ASSUME IInv, [Next]_vars
  PROVE  SessionInv'
<1>. USE ServerAssumption DEF IInv
<1>1. ASSUME NEW a \in Accepts, PostFirst(a)
      PROVE  SessionInv'
  BY <1>1 DEF PostFirst, sessVars, relayVars, workerVars, TypeOK, WorkerInv,
     AcceptInv, SessionInv, Inside, OfAcceptor, OfSession
<1>2. CASE Started
  BY <1>2 DEF Started, accVars, sessVars, relayVars, workerVars, TypeOK, WorkerInv,
     AcceptInv, SessionInv, Inside, OfAcceptor, OfSession
<1>3. ASSUME NEW a \in Accepts, AcceptFails(a)
      PROVE  SessionInv'
  BY <1>3 DEF AcceptFails, stopVars, sessVars, relayVars, workerVars, TypeOK,
     WorkerInv, AcceptInv, SessionInv, Inside, OfAcceptor, OfSession
<1>4. ASSUME NEW a \in Accepts, NEW c \in Clients, Arrives(a, c)
      PROVE  SessionInv'
  BY <1>4 DEF Arrives, stopVars, relayVars, workerVars, TypeOK, WorkerInv, AcceptInv,
     SessionInv, Inside, OfAcceptor, OfSession
<1>5. ASSUME NEW c \in Clients, ReadCompletes(c)
      PROVE  SessionInv'
  BY <1>5 DEF ReadCompletes, stopVars, accVars, relayVars, workerVars, TypeOK,
     WorkerInv, AcceptInv, SessionInv, Inside, OfAcceptor, OfSession
<1>6. ASSUME NEW c \in Clients, DatagramArrives(c)
      PROVE  SessionInv'
  BY <1>6 DEF DatagramArrives, stopVars, accVars, sessVars, workerVars, TypeOK,
     WorkerInv, AcceptInv, SessionInv, Inside, OfAcceptor, OfSession
<1>7. ASSUME NEW w \in Workers, NEW a \in Accepts, TakeAccept(w, a)
      PROVE  SessionInv'
  BY <1>7 DEF TakeAccept, stopVars, sessVars, relayVars, TypeOK, WorkerInv, AcceptInv,
     SessionInv, Inside, OfAcceptor, OfSession
<1>8. ASSUME NEW w \in Workers, HandleAccept(w)
      PROVE  SessionInv'
  BY <1>8 DEF HandleAccept, stopVars, sessVars, relayVars, TypeOK, WorkerInv,
     AcceptInv, SessionInv, Inside, OfAcceptor, OfSession
<1>9. ASSUME NEW w \in Workers, OnAcceptCheck(w)
      PROVE  SessionInv'
  BY <1>9 DEF OnAcceptCheck, stopVars, sessVars, relayVars, TypeOK, WorkerInv,
     AcceptInv, SessionInv, Inside, OfAcceptor, OfSession
<1>10. ASSUME NEW w \in Workers, OnAcceptSlot(w)
       PROVE  SessionInv'
  BY <1>10 DEF OnAcceptSlot, CanAcquire, stopVars, sessVars, relayVars, TypeOK,
     WorkerInv, AcceptInv, SessionInv, Inside, OfAcceptor, OfSession
<1>11. ASSUME NEW w \in Workers, RetainSession(w)
       PROVE  SessionInv'
  BY <1>11 DEF RetainSession, ReleaseSlot, stopVars, relayVars, TypeOK, WorkerInv,
     AcceptInv, SessionInv, Inside, OfAcceptor, OfSession
<1>12. ASSUME NEW w \in Workers, StartSession(w)
       PROVE  SessionInv'
  BY <1>12 DEF StartSession, OnSessionClosed, ReleaseSlot, stopVars, relayVars,
     TypeOK, WorkerInv, AcceptInv, SessionInv, Inside, OfAcceptor, OfSession
<1>13. ASSUME NEW w \in Workers, Repost(w)
       PROVE  SessionInv'
  BY <1>13 DEF Repost, stopVars, sessVars, relayVars, TypeOK, WorkerInv, AcceptInv,
     SessionInv, Inside, OfAcceptor, OfSession
<1>14. ASSUME NEW w \in Workers, NEW c \in Clients, TakeRead(w, c)
       PROVE  SessionInv'
  BY <1>14 DEF TakeRead, stopVars, accVars, relayVars, TypeOK, WorkerInv, AcceptInv,
     SessionInv, Inside, OfAcceptor, OfSession
<1>15. ASSUME NEW w \in Workers, HandleRead(w)
       PROVE  SessionInv'
  BY <1>15 DEF HandleRead, Done, stopVars, accVars, relayVars, TypeOK, WorkerInv,
     AcceptInv, SessionInv, Inside, OfAcceptor, OfSession
<1>16. ASSUME NEW w \in Workers, HandlerCloses(w)
       PROVE  SessionInv'
  BY <1>16 DEF HandlerCloses, CloseBegins, stopVars, accVars, TypeOK, WorkerInv,
     AcceptInv, SessionInv, Inside, OfAcceptor, OfSession
<1>17. ASSUME NEW w \in Workers, HandlerClosed(w)
       PROVE  SessionInv'
  <2>. DEFINE c == obj[w]
  <2>1. /\ pc[w] = "closing" /\ c \in Clients /\ lock[c] = w /\ c \in sessions
        /\ state[c] = "closed"
    BY <1>17 DEF HandlerClosed, WorkerInv, OfSession, SessionInv
  <2>2. /\ lock' = [lock EXCEPT ![c] = None] /\ sessions' = sessions \ {c}
        /\ UNCHANGED <<stopper, todo, state, read, obj>>
        /\ pc' = [pc EXCEPT ![w] = "closed"]
    BY <1>17 DEF HandlerClosed, CloseEnds, OnSessionClosed, stopVars
  <2>. HIDE DEF c
  <2>3. /\ lock'[c] = None /\ \A d \in Clients \ {c} : lock'[d] = lock[d]
        /\ pc'[w] = "closed" /\ \A v \in Workers \ {w} : pc'[v] = pc[v]
    BY <2>1, <2>2 DEF TypeOK
  <2>4. \A v \in Workers \ {w} : ~(pc[v] = "closing" /\ obj[v] = c)
    BY <2>1 DEF SessionInv
  <2>5. \A v \in Workers : lock'[c] = v <=> pc'[v] = "closing" /\ obj'[v] = c
    BY <2>2, <2>3, <2>4
  <2>6. \A d \in Clients \ {c} : \A v \in Workers :
          lock'[d] = v <=> pc'[v] = "closing" /\ obj'[v] = d
    BY <2>1, <2>2, <2>3 DEF SessionInv, c
  <2>7. lock'[c] # Main
    BY <2>3 DEF None, Main
  <2>. QED
    BY <2>1, <2>2, <2>3, <2>5, <2>6, <2>7 DEF SessionInv
<1>18. ASSUME NEW w \in Workers, ReleasePending(w)
       PROVE  SessionInv'
  BY <1>18 DEF ReleasePending, Done, stopVars, accVars, relayVars, TypeOK, WorkerInv,
     AcceptInv, SessionInv, Inside, OfAcceptor, OfSession
<1>19. ASSUME NEW w \in Workers, NEW c \in Clients, HandleDatagram(w, c)
       PROVE  SessionInv'
  BY <1>19 DEF HandleDatagram, stopVars, accVars, sessVars, workerVars, TypeOK,
     WorkerInv, AcceptInv, SessionInv, Inside, OfAcceptor, OfSession
<1>20. CASE StopBegins
  BY <1>20 DEF StopBegins, accVars, sessVars, relayVars, workerVars, TypeOK,
     WorkerInv, AcceptInv, SessionInv, Inside, OfAcceptor, OfSession
<1>21. CASE StopAcceptor
  BY <1>21 DEF StopAcceptor, sessVars, relayVars, workerVars, TypeOK, WorkerInv,
     AcceptInv, SessionInv, Inside, OfAcceptor, OfSession
<1>22. CASE CloseListener
  BY <1>22 DEF CloseListener, sessVars, relayVars, workerVars, TypeOK, WorkerInv,
     AcceptInv, SessionInv, Inside, OfAcceptor, OfSession
<1>23. CASE Snapshot
  BY <1>23 DEF Snapshot, AcceptorIdle, accVars, sessVars, relayVars, workerVars,
     TypeOK, WorkerInv, AcceptInv, SessionInv, Inside, OfAcceptor, OfSession
<1>24. ASSUME NEW c \in Clients, StopCloses(c)
       PROVE  SessionInv'
  BY <1>24 DEF StopCloses, CloseBegins, stopVars, accVars, workerVars, TypeOK,
     WorkerInv, AcceptInv, SessionInv, Inside, OfAcceptor, OfSession
<1>25. ASSUME NEW c \in Clients, StopClosed(c)
       PROVE  SessionInv'
  BY <1>25 DEF StopClosed, CloseEnds, OnSessionClosed, ReleaseSlot, accVars, relayVars,
     workerVars, TypeOK, WorkerInv, AcceptInv, SessionInv, Inside, OfAcceptor, OfSession,
     None, Main
<1>26. ASSUME NEW c \in Clients, StopPasses(c)
       PROVE  SessionInv'
  BY <1>26 DEF StopPasses, accVars, sessVars, relayVars, workerVars, TypeOK, WorkerInv,
     AcceptInv, SessionInv, Inside, OfAcceptor, OfSession, None, Main
<1>27. CASE SessionsIdle
  BY <1>27 DEF SessionsIdle, accVars, sessVars, relayVars, workerVars, TypeOK,
     WorkerInv, AcceptInv, SessionInv, Inside, OfAcceptor, OfSession
<1>28. CASE StopDns
  BY <1>28 DEF StopDns, accVars, sessVars, relayVars, workerVars, TypeOK, WorkerInv,
     AcceptInv, SessionInv, Inside, OfAcceptor, OfSession
<1>29. CASE StopIocp
  BY <1>29 DEF StopIocp, accVars, sessVars, relayVars, workerVars, TypeOK, WorkerInv,
     AcceptInv, SessionInv, Inside, OfAcceptor, OfSession
<1>30. CASE UNCHANGED vars
  BY <1>30 DEF vars, TypeOK, WorkerInv, AcceptInv, SessionInv, Inside, OfAcceptor,
     OfSession
<1>. QED
  BY <1>1, <1>2, <1>3, <1>4, <1>5, <1>6, <1>7, <1>8, <1>9, <1>10, <1>11, <1>12, <1>13,
     <1>14, <1>15, <1>16, <1>17, <1>18, <1>19, <1>20, <1>21, <1>22, <1>23, <1>24, <1>25,
     <1>26, <1>27, <1>28, <1>29, <1>30 DEF Next, Stop, Worker, Ended

(* What Stop relies on. *)
LEMMA StopStep ==
  ASSUME IInv, [Next]_vars
  PROVE  StopInv'
<1>. USE ServerAssumption DEF IInv
<1>1. ASSUME NEW a \in Accepts, PostFirst(a)
      PROVE  StopInv'
  BY <1>1 DEF PostFirst, sessVars, relayVars, workerVars, TypeOK, WorkerInv,
     SessionInv, StopInv, AcceptorIdle, Late, Inside, OfAcceptor, OfSession
<1>2. CASE Started
  BY <1>2 DEF Started, accVars, sessVars, relayVars, workerVars, TypeOK, WorkerInv,
     SessionInv, StopInv, AcceptorIdle, Late, Inside, OfAcceptor, OfSession
<1>3. ASSUME NEW a \in Accepts, AcceptFails(a)
      PROVE  StopInv'
  BY <1>3 DEF AcceptFails, stopVars, sessVars, relayVars, workerVars, TypeOK,
     WorkerInv, SessionInv, StopInv, AcceptorIdle, Late, Inside, OfAcceptor, OfSession
<1>4. ASSUME NEW a \in Accepts, NEW c \in Clients, Arrives(a, c)
      PROVE  StopInv'
  BY <1>4 DEF Arrives, stopVars, relayVars, workerVars, TypeOK, WorkerInv, SessionInv,
     StopInv, AcceptorIdle, Late, Inside, OfAcceptor, OfSession
<1>5. ASSUME NEW c \in Clients, ReadCompletes(c)
      PROVE  StopInv'
  BY <1>5 DEF ReadCompletes, stopVars, accVars, relayVars, workerVars, TypeOK,
     WorkerInv, SessionInv, StopInv, AcceptorIdle, Late, Inside, OfAcceptor, OfSession
<1>6. ASSUME NEW c \in Clients, DatagramArrives(c)
      PROVE  StopInv'
  BY <1>6 DEF DatagramArrives, stopVars, accVars, sessVars, workerVars, TypeOK,
     WorkerInv, SessionInv, StopInv, AcceptorIdle, Late, Inside, OfAcceptor, OfSession
<1>7. ASSUME NEW w \in Workers, NEW a \in Accepts, TakeAccept(w, a)
      PROVE  StopInv'
  BY <1>7 DEF TakeAccept, stopVars, sessVars, relayVars, TypeOK, WorkerInv,
     SessionInv, StopInv, AcceptorIdle, Late, Inside, OfAcceptor, OfSession
<1>8. ASSUME NEW w \in Workers, HandleAccept(w)
      PROVE  StopInv'
  BY <1>8 DEF HandleAccept, stopVars, sessVars, relayVars, TypeOK, WorkerInv,
     SessionInv, StopInv, AcceptorIdle, Late, Inside, OfAcceptor, OfSession
<1>9. ASSUME NEW w \in Workers, OnAcceptCheck(w)
      PROVE  StopInv'
  BY <1>9 DEF OnAcceptCheck, stopVars, sessVars, relayVars, TypeOK, WorkerInv,
     SessionInv, StopInv, AcceptorIdle, Late, Inside, OfAcceptor, OfSession
<1>10. ASSUME NEW w \in Workers, OnAcceptSlot(w)
       PROVE  StopInv'
  BY <1>10 DEF OnAcceptSlot, CanAcquire, stopVars, sessVars, relayVars, TypeOK,
     WorkerInv, SessionInv, StopInv, AcceptorIdle, Late, Inside, OfAcceptor, OfSession
<1>11. ASSUME NEW w \in Workers, RetainSession(w)
       PROVE  StopInv'
  BY <1>11 DEF RetainSession, ReleaseSlot, stopVars, relayVars, TypeOK, WorkerInv,
     SessionInv, StopInv, AcceptorIdle, Late, Inside, OfAcceptor, OfSession
<1>12. ASSUME NEW w \in Workers, StartSession(w)
       PROVE  StopInv'
  BY <1>12 DEF StartSession, OnSessionClosed, ReleaseSlot, stopVars, relayVars,
     TypeOK, WorkerInv, SessionInv, StopInv, AcceptorIdle, Late, Inside, OfAcceptor,
     OfSession
<1>13. ASSUME NEW w \in Workers, Repost(w)
       PROVE  StopInv'
  BY <1>13 DEF Repost, stopVars, sessVars, relayVars, TypeOK, WorkerInv, SessionInv,
     StopInv, AcceptorIdle, Late, Inside, OfAcceptor, OfSession
<1>14. ASSUME NEW w \in Workers, NEW c \in Clients, TakeRead(w, c)
       PROVE  StopInv'
  BY <1>14 DEF TakeRead, stopVars, accVars, relayVars, TypeOK, WorkerInv, SessionInv,
     StopInv, AcceptorIdle, Late, Inside, OfAcceptor, OfSession
<1>15. ASSUME NEW w \in Workers, HandleRead(w)
       PROVE  StopInv'
  BY <1>15 DEF HandleRead, Done, stopVars, accVars, relayVars, TypeOK, WorkerInv,
     SessionInv, StopInv, AcceptorIdle, Late, Inside, OfAcceptor, OfSession
<1>16. ASSUME NEW w \in Workers, HandlerCloses(w)
       PROVE  StopInv'
  BY <1>16 DEF HandlerCloses, CloseBegins, stopVars, accVars, TypeOK, WorkerInv,
     SessionInv, StopInv, AcceptorIdle, Late, Inside, OfAcceptor, OfSession
<1>17. ASSUME NEW w \in Workers, HandlerClosed(w)
       PROVE  StopInv'
  BY <1>17 DEF HandlerClosed, CloseEnds, OnSessionClosed, ReleaseSlot, stopVars,
     accVars, relayVars, TypeOK, WorkerInv, SessionInv, StopInv, AcceptorIdle, Late,
     Inside, OfAcceptor, OfSession
<1>18. ASSUME NEW w \in Workers, ReleasePending(w)
       PROVE  StopInv'
  BY <1>18 DEF ReleasePending, Done, stopVars, accVars, relayVars, TypeOK, WorkerInv,
     SessionInv, StopInv, AcceptorIdle, Late, Inside, OfAcceptor, OfSession
<1>19. ASSUME NEW w \in Workers, NEW c \in Clients, HandleDatagram(w, c)
       PROVE  StopInv'
  BY <1>19 DEF HandleDatagram, stopVars, accVars, sessVars, workerVars, TypeOK,
     WorkerInv, SessionInv, StopInv, AcceptorIdle, Late, Inside, OfAcceptor, OfSession
<1>20. CASE StopBegins
  BY <1>20 DEF StopBegins, accVars, sessVars, relayVars, workerVars, TypeOK,
     WorkerInv, SessionInv, StopInv, AcceptorIdle, Late, Inside, OfAcceptor, OfSession
<1>21. CASE StopAcceptor
  BY <1>21 DEF StopAcceptor, sessVars, relayVars, workerVars, TypeOK, WorkerInv,
     SessionInv, StopInv, AcceptorIdle, Late, Inside, OfAcceptor, OfSession
<1>22. CASE CloseListener
  BY <1>22 DEF CloseListener, sessVars, relayVars, workerVars, TypeOK, WorkerInv,
     SessionInv, StopInv, AcceptorIdle, Late, Inside, OfAcceptor, OfSession
<1>23. CASE Snapshot
  BY <1>23 DEF Snapshot, AcceptorIdle, accVars, sessVars, relayVars, workerVars,
     TypeOK, WorkerInv, SessionInv, StopInv, Late, Inside, OfAcceptor, OfSession
<1>24. ASSUME NEW c \in Clients, StopCloses(c)
       PROVE  StopInv'
  BY <1>24 DEF StopCloses, CloseBegins, stopVars, accVars, workerVars, TypeOK,
     WorkerInv, SessionInv, StopInv, AcceptorIdle, Late, Inside, OfAcceptor, OfSession
<1>25. ASSUME NEW c \in Clients, StopClosed(c)
       PROVE  StopInv'
  BY <1>25 DEF StopClosed, CloseEnds, OnSessionClosed, ReleaseSlot, accVars, relayVars,
     workerVars, TypeOK, WorkerInv, SessionInv, StopInv, AcceptorIdle, Late, Inside,
     OfAcceptor, OfSession, None, Main
<1>26. ASSUME NEW c \in Clients, StopPasses(c)
       PROVE  StopInv'
  BY <1>26 DEF StopPasses, accVars, sessVars, relayVars, workerVars, TypeOK,
     WorkerInv, SessionInv, StopInv, AcceptorIdle, Late, Inside, OfAcceptor, OfSession
<1>27. CASE SessionsIdle
  BY <1>27 DEF SessionsIdle, accVars, sessVars, relayVars, workerVars, TypeOK,
     WorkerInv, SessionInv, StopInv, AcceptorIdle, Late, Inside, OfAcceptor, OfSession
<1>28. CASE StopDns
  BY <1>28 DEF StopDns, accVars, sessVars, relayVars, workerVars, TypeOK, WorkerInv,
     SessionInv, StopInv, AcceptorIdle, Late, Inside, OfAcceptor, OfSession
<1>29. CASE StopIocp
  BY <1>29 DEF StopIocp, accVars, sessVars, relayVars, workerVars, TypeOK, WorkerInv,
     SessionInv, StopInv, AcceptorIdle, Late, Inside, OfAcceptor, OfSession
<1>30. CASE UNCHANGED vars
  BY <1>30 DEF vars, TypeOK, WorkerInv, SessionInv, StopInv, AcceptorIdle, Late,
     Inside, OfAcceptor, OfSession
<1>. QED
  BY <1>1, <1>2, <1>3, <1>4, <1>5, <1>6, <1>7, <1>8, <1>9, <1>10, <1>11, <1>12, <1>13,
     <1>14, <1>15, <1>16, <1>17, <1>18, <1>19, <1>20, <1>21, <1>22, <1>23, <1>24, <1>25,
     <1>26, <1>27, <1>28, <1>29, <1>30 DEF Next, Stop, Worker, Ended

(* A slot is taken and given back once. *)
LEMMA HoldersStep ==
  ASSUME IInv, HoldersExact, "start" \notin Throws, [Next]_vars
  PROVE  HoldersExact'
<1>. USE ServerAssumption DEF IInv
<1>1. ASSUME NEW a \in Accepts, PostFirst(a)
      PROVE  HoldersExact'
  <2>1. UNCHANGED <<sessions, slots>>
    BY <1>1 DEF PostFirst, sessVars, relayVars, workerVars
  <2>2. \A v \in Workers : /\ pc'[v] = "retain" <=> pc[v] = "retain"
                           /\ pc[v] = "retain" => conn'[obj'[v]] = conn[obj[v]]
    BY <1>1 DEF PostFirst, sessVars, relayVars, workerVars, TypeOK, WorkerInv,
       AcceptInv, Inside, OfAcceptor, OfSession
  <2>. QED
    BY <2>1, <2>2, HoldersKept
<1>2. CASE Started
  <2>1. UNCHANGED <<sessions, slots>>
    BY <1>2 DEF Started, accVars, sessVars, relayVars, workerVars
  <2>2. \A v \in Workers : /\ pc'[v] = "retain" <=> pc[v] = "retain"
                           /\ pc[v] = "retain" => conn'[obj'[v]] = conn[obj[v]]
    BY <1>2 DEF Started, accVars, sessVars, relayVars, workerVars, TypeOK, WorkerInv,
       AcceptInv, Inside, OfAcceptor, OfSession
  <2>. QED
    BY <2>1, <2>2, HoldersKept
<1>3. ASSUME NEW a \in Accepts, AcceptFails(a)
      PROVE  HoldersExact'
  <2>1. UNCHANGED <<sessions, slots>>
    BY <1>3 DEF AcceptFails, stopVars, sessVars, relayVars, workerVars
  <2>2. \A v \in Workers : /\ pc'[v] = "retain" <=> pc[v] = "retain"
                           /\ pc[v] = "retain" => conn'[obj'[v]] = conn[obj[v]]
    BY <1>3 DEF AcceptFails, stopVars, sessVars, relayVars, workerVars, TypeOK,
       WorkerInv, AcceptInv, Inside, OfAcceptor, OfSession
  <2>. QED
    BY <2>1, <2>2, HoldersKept
<1>4. ASSUME NEW a \in Accepts, NEW c \in Clients, Arrives(a, c)
      PROVE  HoldersExact'
  <2>1. UNCHANGED <<sessions, slots>>
    BY <1>4 DEF Arrives, stopVars, relayVars, workerVars
  <2>2. \A v \in Workers : /\ pc'[v] = "retain" <=> pc[v] = "retain"
                           /\ pc[v] = "retain" => conn'[obj'[v]] = conn[obj[v]]
    BY <1>4 DEF Arrives, stopVars, relayVars, workerVars, TypeOK, WorkerInv,
       AcceptInv, Inside, OfAcceptor, OfSession
  <2>. QED
    BY <2>1, <2>2, HoldersKept
<1>5. ASSUME NEW c \in Clients, ReadCompletes(c)
      PROVE  HoldersExact'
  <2>1. UNCHANGED <<sessions, slots>>
    BY <1>5 DEF ReadCompletes, stopVars, accVars, relayVars, workerVars
  <2>2. \A v \in Workers : /\ pc'[v] = "retain" <=> pc[v] = "retain"
                           /\ pc[v] = "retain" => conn'[obj'[v]] = conn[obj[v]]
    BY <1>5 DEF ReadCompletes, stopVars, accVars, relayVars, workerVars, TypeOK,
       WorkerInv, AcceptInv, Inside, OfAcceptor, OfSession
  <2>. QED
    BY <2>1, <2>2, HoldersKept
<1>6. ASSUME NEW c \in Clients, DatagramArrives(c)
      PROVE  HoldersExact'
  <2>1. UNCHANGED <<sessions, slots>>
    BY <1>6 DEF DatagramArrives, stopVars, accVars, sessVars, workerVars
  <2>2. \A v \in Workers : /\ pc'[v] = "retain" <=> pc[v] = "retain"
                           /\ pc[v] = "retain" => conn'[obj'[v]] = conn[obj[v]]
    BY <1>6 DEF DatagramArrives, stopVars, accVars, sessVars, workerVars, TypeOK,
       WorkerInv, AcceptInv, Inside, OfAcceptor, OfSession
  <2>. QED
    BY <2>1, <2>2, HoldersKept
<1>7. ASSUME NEW w \in Workers, NEW a \in Accepts, TakeAccept(w, a)
      PROVE  HoldersExact'
  <2>1. UNCHANGED <<sessions, slots>>
    BY <1>7 DEF TakeAccept, stopVars, sessVars, relayVars
  <2>2. \A v \in Workers : /\ pc'[v] = "retain" <=> pc[v] = "retain"
                           /\ pc[v] = "retain" => conn'[obj'[v]] = conn[obj[v]]
    BY <1>7 DEF TakeAccept, stopVars, sessVars, relayVars, TypeOK, WorkerInv,
       AcceptInv, Inside, OfAcceptor, OfSession
  <2>. QED
    BY <2>1, <2>2, HoldersKept
<1>8. ASSUME NEW w \in Workers, HandleAccept(w)
      PROVE  HoldersExact'
  <2>1. UNCHANGED <<sessions, slots>>
    BY <1>8 DEF HandleAccept, stopVars, sessVars, relayVars
  <2>2. \A v \in Workers : /\ pc'[v] = "retain" <=> pc[v] = "retain"
                           /\ pc[v] = "retain" => conn'[obj'[v]] = conn[obj[v]]
    BY <1>8 DEF HandleAccept, stopVars, sessVars, relayVars, TypeOK, WorkerInv,
       AcceptInv, Inside, OfAcceptor, OfSession
  <2>. QED
    BY <2>1, <2>2, HoldersKept
<1>9. ASSUME NEW w \in Workers, OnAcceptCheck(w)
      PROVE  HoldersExact'
  <2>1. UNCHANGED <<sessions, slots>>
    BY <1>9 DEF OnAcceptCheck, stopVars, sessVars, relayVars
  <2>2. \A v \in Workers : /\ pc'[v] = "retain" <=> pc[v] = "retain"
                           /\ pc[v] = "retain" => conn'[obj'[v]] = conn[obj[v]]
    BY <1>9 DEF OnAcceptCheck, stopVars, sessVars, relayVars, TypeOK, WorkerInv,
       AcceptInv, Inside, OfAcceptor, OfSession
  <2>. QED
    BY <2>1, <2>2, HoldersKept
<1>10. ASSUME NEW w \in Workers, OnAcceptSlot(w)
       PROVE  HoldersExact'
  <2>. DEFINE c == conn[obj[w]]
  <2>1. /\ pc[w] = "slot" /\ obj[w] \in Accepts /\ c \in Clients /\ state[c] = "accepted"
        /\ \A v \in Workers : pc[v] # "retain"
    BY <1>10 DEF OnAcceptSlot, TypeOK, WorkerInv, AcceptInv, Inside, OfAcceptor
  <2>2. CASE CanAcquire
    <3>1. /\ slots' = IF MaxConnections = 0 THEN slots ELSE slots - 1
          /\ pc' = [pc EXCEPT ![w] = "retain"]
          /\ UNCHANGED <<conn, obj, sessions>>
      BY <1>10, <2>2 DEF OnAcceptSlot, sessVars
    <3>2. c \notin Holders
      BY <2>1 DEF Holders, SessionInv
    <3>3. Holders' = Holders \cup {c}
      BY <2>1, <3>1 DEF Holders, TypeOK
    <3>4. IsFiniteSet(Holders) /\ Cardinality(Holders) \in Nat
      BY HoldersFinite
    <3>. HIDE DEF c
    <3>5. Cardinality(Holders') = Cardinality(Holders) + 1
      BY <3>2, <3>3, <3>4, FS_AddElement
    <3>. QED
      BY <3>1, <3>4, <3>5 DEF HoldersExact, TypeOK
  <2>3. CASE ~CanAcquire
    <3>1. UNCHANGED <<sessions, slots>> /\ \A v \in Workers : pc'[v] # "retain"
      BY <1>10, <2>1, <2>3 DEF OnAcceptSlot, sessVars, TypeOK
    <3>. QED
      BY <2>1, <3>1, HoldersKept
  <2>. QED
    BY <2>2, <2>3
<1>11. ASSUME NEW w \in Workers, RetainSession(w)
       PROVE  HoldersExact'
  <2>. DEFINE c == conn[obj[w]]
  <2>1. /\ pc[w] = "retain" /\ obj[w] \in Accepts /\ c \in Clients /\ state[c] = "accepted"
        /\ \A v \in Workers \ {w} : pc[v] # "retain"
    BY <1>11 DEF RetainSession, TypeOK, WorkerInv, AcceptInv, Inside, OfAcceptor
  <2>2. Holders = sessions \cup {c} /\ c \notin sessions
    BY <2>1 DEF Holders, SessionInv
  <2>3. \A v \in Workers : pc'[v] # "retain"
    BY <1>11, <2>1 DEF RetainSession, TypeOK
  <2>4. Holders' = sessions'
    BY <2>3 DEF Holders
  <2>5. CASE sessions' = sessions \cup {c} /\ UNCHANGED slots
    BY <2>2, <2>4, <2>5 DEF HoldersExact
  <2>6. CASE ReleaseSlot(c) /\ UNCHANGED sessions
    <3>1. Holders' = Holders \ {c} /\ c \in Holders
      BY <2>2, <2>4, <2>6
    <3>. HIDE DEF c
    <3>. QED
      BY <2>6, <3>1, HolderGone
  <2>. QED
    BY <1>11, <2>5, <2>6 DEF RetainSession
<1>12. ASSUME NEW w \in Workers, StartSession(w)
       PROVE  HoldersExact'
  <2>. DEFINE c == conn[obj[w]]
  <2>1. /\ pc[w] = "start" /\ obj[w] \in Accepts /\ c \in Clients /\ state[c] = "open"
        /\ \A v \in Workers : pc[v] # "retain"
    BY <1>12 DEF StartSession, TypeOK, WorkerInv, AcceptInv, Inside, OfAcceptor
  <2>2. \A v \in Workers : pc'[v] # "retain"
    BY <1>12, <2>1 DEF StartSession, TypeOK
  <2>3. Holders = sessions /\ Holders' = sessions'
    BY <2>1, <2>2 DEF Holders
  <2>4. CASE UNCHANGED <<sessions, slots>>
    BY <2>1, <2>2, <2>4, HoldersKept
  <2>5. CASE OnSessionClosed(c)
    <3>1. Holders' = Holders \ {c} /\ c \in Holders /\ ReleaseSlot(c)
      BY <2>1, <2>3, <2>5 DEF OnSessionClosed, SessionInv
    <3>. HIDE DEF c
    <3>. QED
      BY <3>1, HolderGone
  <2>. QED
    BY <1>12, <2>4, <2>5 DEF StartSession
<1>13. ASSUME NEW w \in Workers, Repost(w)
       PROVE  HoldersExact'
  <2>1. UNCHANGED <<sessions, slots>>
    BY <1>13 DEF Repost, stopVars, sessVars, relayVars
  <2>2. \A v \in Workers : /\ pc'[v] = "retain" <=> pc[v] = "retain"
                           /\ pc[v] = "retain" => conn'[obj'[v]] = conn[obj[v]]
    BY <1>13 DEF Repost, stopVars, sessVars, relayVars, TypeOK, WorkerInv, AcceptInv,
       Inside, OfAcceptor, OfSession
  <2>. QED
    BY <2>1, <2>2, HoldersKept
<1>14. ASSUME NEW w \in Workers, NEW c \in Clients, TakeRead(w, c)
       PROVE  HoldersExact'
  <2>1. UNCHANGED <<sessions, slots>>
    BY <1>14 DEF TakeRead, stopVars, accVars, relayVars
  <2>2. \A v \in Workers : /\ pc'[v] = "retain" <=> pc[v] = "retain"
                           /\ pc[v] = "retain" => conn'[obj'[v]] = conn[obj[v]]
    BY <1>14 DEF TakeRead, stopVars, accVars, relayVars, TypeOK, WorkerInv, AcceptInv,
       Inside, OfAcceptor, OfSession
  <2>. QED
    BY <2>1, <2>2, HoldersKept
<1>15. ASSUME NEW w \in Workers, HandleRead(w)
       PROVE  HoldersExact'
  <2>1. UNCHANGED <<sessions, slots>>
    BY <1>15 DEF HandleRead, Done, stopVars, accVars, relayVars
  <2>2. \A v \in Workers : /\ pc'[v] = "retain" <=> pc[v] = "retain"
                           /\ pc[v] = "retain" => conn'[obj'[v]] = conn[obj[v]]
    BY <1>15 DEF HandleRead, Done, stopVars, accVars, relayVars, TypeOK, WorkerInv,
       AcceptInv, Inside, OfAcceptor, OfSession
  <2>. QED
    BY <2>1, <2>2, HoldersKept
<1>16. ASSUME NEW w \in Workers, HandlerCloses(w)
       PROVE  HoldersExact'
  <2>1. UNCHANGED <<sessions, slots>>
    BY <1>16 DEF HandlerCloses, CloseBegins, stopVars, accVars
  <2>2. \A v \in Workers : /\ pc'[v] = "retain" <=> pc[v] = "retain"
                           /\ pc[v] = "retain" => conn'[obj'[v]] = conn[obj[v]]
    BY <1>16 DEF HandlerCloses, CloseBegins, stopVars, accVars, TypeOK, WorkerInv,
       AcceptInv, Inside, OfAcceptor, OfSession
  <2>. QED
    BY <2>1, <2>2, HoldersKept
<1>17. ASSUME NEW w \in Workers, HandlerClosed(w)
       PROVE  HoldersExact'
  <2>. DEFINE c == obj[w]
  <2>1. c \in sessions
    BY <1>17 DEF HandlerClosed, WorkerInv, OfSession, SessionInv
  <2>2. ReleaseSlot(c) /\ sessions' = sessions \ {c}
    BY <1>17 DEF HandlerClosed, CloseEnds, OnSessionClosed
  <2>3. /\ \A v \in Workers : /\ pc'[v] = "retain" <=> pc[v] = "retain"
                              /\ conn'[obj'[v]] = conn[obj[v]]
    BY <1>17 DEF HandlerClosed, accVars, TypeOK
  <2>4. \A v \in Workers : pc[v] = "retain" => conn[obj[v]] # c
    BY <2>1 DEF WorkerInv, AcceptInv, SessionInv, TypeOK, Inside, OfAcceptor
  <2>. HIDE DEF c
  <2>5. Holders' = Holders \ {c} /\ c \in Holders
    BY <2>1, <2>2, <2>3, <2>4 DEF Holders
  <2>. QED
    BY <2>2, <2>5, HolderGone
<1>18. ASSUME NEW w \in Workers, ReleasePending(w)
       PROVE  HoldersExact'
  <2>1. UNCHANGED <<sessions, slots>>
    BY <1>18 DEF ReleasePending, Done, stopVars, accVars, relayVars
  <2>2. \A v \in Workers : /\ pc'[v] = "retain" <=> pc[v] = "retain"
                           /\ pc[v] = "retain" => conn'[obj'[v]] = conn[obj[v]]
    BY <1>18 DEF ReleasePending, Done, stopVars, accVars, relayVars, TypeOK, WorkerInv,
       AcceptInv, Inside, OfAcceptor, OfSession
  <2>. QED
    BY <2>1, <2>2, HoldersKept
<1>19. ASSUME NEW w \in Workers, NEW c \in Clients, HandleDatagram(w, c)
       PROVE  HoldersExact'
  <2>1. UNCHANGED <<sessions, slots>>
    BY <1>19 DEF HandleDatagram, stopVars, accVars, sessVars, workerVars
  <2>2. \A v \in Workers : /\ pc'[v] = "retain" <=> pc[v] = "retain"
                           /\ pc[v] = "retain" => conn'[obj'[v]] = conn[obj[v]]
    BY <1>19 DEF HandleDatagram, stopVars, accVars, sessVars, workerVars, TypeOK,
       WorkerInv, AcceptInv, Inside, OfAcceptor, OfSession
  <2>. QED
    BY <2>1, <2>2, HoldersKept
<1>20. CASE StopBegins
  <2>1. UNCHANGED <<sessions, slots>>
    BY <1>20 DEF StopBegins, accVars, sessVars, relayVars, workerVars
  <2>2. \A v \in Workers : /\ pc'[v] = "retain" <=> pc[v] = "retain"
                           /\ pc[v] = "retain" => conn'[obj'[v]] = conn[obj[v]]
    BY <1>20 DEF StopBegins, accVars, sessVars, relayVars, workerVars, TypeOK,
       WorkerInv, AcceptInv, Inside, OfAcceptor, OfSession
  <2>. QED
    BY <2>1, <2>2, HoldersKept
<1>21. CASE StopAcceptor
  <2>1. UNCHANGED <<sessions, slots>>
    BY <1>21 DEF StopAcceptor, sessVars, relayVars, workerVars
  <2>2. \A v \in Workers : /\ pc'[v] = "retain" <=> pc[v] = "retain"
                           /\ pc[v] = "retain" => conn'[obj'[v]] = conn[obj[v]]
    BY <1>21 DEF StopAcceptor, sessVars, relayVars, workerVars, TypeOK, WorkerInv,
       AcceptInv, Inside, OfAcceptor, OfSession
  <2>. QED
    BY <2>1, <2>2, HoldersKept
<1>22. CASE CloseListener
  <2>1. UNCHANGED <<sessions, slots>>
    BY <1>22 DEF CloseListener, sessVars, relayVars, workerVars
  <2>2. \A v \in Workers : /\ pc'[v] = "retain" <=> pc[v] = "retain"
                           /\ pc[v] = "retain" => conn'[obj'[v]] = conn[obj[v]]
    BY <1>22 DEF CloseListener, sessVars, relayVars, workerVars, TypeOK, WorkerInv,
       AcceptInv, Inside, OfAcceptor, OfSession
  <2>. QED
    BY <2>1, <2>2, HoldersKept
<1>23. CASE Snapshot
  <2>1. UNCHANGED <<sessions, slots>>
    BY <1>23 DEF Snapshot, AcceptorIdle, accVars, sessVars, relayVars, workerVars
  <2>2. \A v \in Workers : /\ pc'[v] = "retain" <=> pc[v] = "retain"
                           /\ pc[v] = "retain" => conn'[obj'[v]] = conn[obj[v]]
    BY <1>23 DEF Snapshot, AcceptorIdle, accVars, sessVars, relayVars, workerVars,
       TypeOK, WorkerInv, AcceptInv, Inside, OfAcceptor, OfSession
  <2>. QED
    BY <2>1, <2>2, HoldersKept
<1>24. ASSUME NEW c \in Clients, StopCloses(c)
       PROVE  HoldersExact'
  <2>1. UNCHANGED <<sessions, slots>>
    BY <1>24 DEF StopCloses, CloseBegins, stopVars, accVars, workerVars
  <2>2. \A v \in Workers : /\ pc'[v] = "retain" <=> pc[v] = "retain"
                           /\ pc[v] = "retain" => conn'[obj'[v]] = conn[obj[v]]
    BY <1>24 DEF StopCloses, CloseBegins, stopVars, accVars, workerVars, TypeOK,
       WorkerInv, AcceptInv, Inside, OfAcceptor, OfSession
  <2>. QED
    BY <2>1, <2>2, HoldersKept
<1>25. ASSUME NEW c \in Clients, StopClosed(c)
       PROVE  HoldersExact'
  <2>1. c \in sessions
    BY <1>25 DEF StopClosed, SessionInv, None, Main
  <2>2. ReleaseSlot(c) /\ sessions' = sessions \ {c}
    BY <1>25 DEF StopClosed, CloseEnds, OnSessionClosed
  <2>3. UNCHANGED <<pc, obj, conn>>
    BY <1>25 DEF StopClosed, accVars, workerVars
  <2>4. \A v \in Workers : pc[v] = "retain" => conn[obj[v]] # c
    BY <2>1 DEF WorkerInv, AcceptInv, SessionInv, TypeOK, Inside, OfAcceptor
  <2>5. Holders' = Holders \ {c} /\ c \in Holders
    BY <2>1, <2>2, <2>3, <2>4 DEF Holders
  <2>. QED
    BY <2>2, <2>5, HolderGone
<1>26. ASSUME NEW c \in Clients, StopPasses(c)
       PROVE  HoldersExact'
  <2>1. UNCHANGED <<sessions, slots>>
    BY <1>26 DEF StopPasses, accVars, sessVars, relayVars, workerVars
  <2>2. \A v \in Workers : /\ pc'[v] = "retain" <=> pc[v] = "retain"
                           /\ pc[v] = "retain" => conn'[obj'[v]] = conn[obj[v]]
    BY <1>26 DEF StopPasses, accVars, sessVars, relayVars, workerVars, TypeOK,
       WorkerInv, AcceptInv, Inside, OfAcceptor, OfSession
  <2>. QED
    BY <2>1, <2>2, HoldersKept
<1>27. CASE SessionsIdle
  <2>1. UNCHANGED <<sessions, slots>>
    BY <1>27 DEF SessionsIdle, accVars, sessVars, relayVars, workerVars
  <2>2. \A v \in Workers : /\ pc'[v] = "retain" <=> pc[v] = "retain"
                           /\ pc[v] = "retain" => conn'[obj'[v]] = conn[obj[v]]
    BY <1>27 DEF SessionsIdle, accVars, sessVars, relayVars, workerVars, TypeOK,
       WorkerInv, AcceptInv, Inside, OfAcceptor, OfSession
  <2>. QED
    BY <2>1, <2>2, HoldersKept
<1>28. CASE StopDns
  <2>1. UNCHANGED <<sessions, slots>>
    BY <1>28 DEF StopDns, accVars, sessVars, relayVars, workerVars
  <2>2. \A v \in Workers : /\ pc'[v] = "retain" <=> pc[v] = "retain"
                           /\ pc[v] = "retain" => conn'[obj'[v]] = conn[obj[v]]
    BY <1>28 DEF StopDns, accVars, sessVars, relayVars, workerVars, TypeOK, WorkerInv,
       AcceptInv, Inside, OfAcceptor, OfSession
  <2>. QED
    BY <2>1, <2>2, HoldersKept
<1>29. CASE StopIocp
  <2>1. UNCHANGED <<sessions, slots>>
    BY <1>29 DEF StopIocp, accVars, sessVars, relayVars, workerVars
  <2>2. \A v \in Workers : /\ pc'[v] = "retain" <=> pc[v] = "retain"
                           /\ pc[v] = "retain" => conn'[obj'[v]] = conn[obj[v]]
    BY <1>29 DEF StopIocp, accVars, sessVars, relayVars, workerVars, TypeOK, WorkerInv,
       AcceptInv, Inside, OfAcceptor, OfSession
  <2>. QED
    BY <2>1, <2>2, HoldersKept
<1>30. CASE UNCHANGED vars
  BY <1>30 DEF vars, HoldersExact, Holders
<1>. QED
  BY <1>1, <1>2, <1>3, <1>4, <1>5, <1>6, <1>7, <1>8, <1>9, <1>10, <1>11, <1>12, <1>13,
     <1>14, <1>15, <1>16, <1>17, <1>18, <1>19, <1>20, <1>21, <1>22, <1>23, <1>24, <1>25,
     <1>26, <1>27, <1>28, <1>29, <1>30 DEF Next, Stop, Worker, Ended

(* The server starts without a session. *)
LEMMA InitInv == Init => IInv /\ HoldersExact
<1>. SUFFICES ASSUME Init PROVE IInv /\ HoldersExact
  OBVIOUS
<1>. USE ServerAssumption
<1>1. TypeOK
  <2>1. /\ io \in [Accepts -> {"fresh", "posted", "queued", "taken", "idle"}]
        /\ conn \in [Accepts -> Clients \cup {None}]
    BY DEF Init
  <2>2. /\ state \in [Clients -> {"none", "accepted", "open", "closed"}]
        /\ lock \in [Clients -> Workers \cup {None, Main}]
        /\ read \in [Clients -> {"idle", "posted", "queued", "taken"}]
        /\ relay \in [Clients -> {"none", "running", "stopped"}]
        /\ recvFrom \in [Clients -> {"idle", "posted", "queued"}]
    BY DEF Init
  <2>3. /\ pc \in [Workers -> {"idle"} \cup OfAcceptor \cup OfSession]
        /\ obj \in [Workers -> Accepts \cup Clients \cup {None}]
    BY DEF Init
  <2>4. /\ stopping \in BOOLEAN /\ stopper \in Stages /\ accStopping \in BOOLEAN
        /\ snapshot \subseteq Clients /\ todo \subseteq Clients /\ sessions \subseteq Clients
        /\ accLock \in Workers \cup {None}
    BY DEF Init, Stages
  <2>5. slots \in Nat
    BY DEF Init
  <2>. QED
    BY <2>1, <2>2, <2>3, <2>4, <2>5 DEF TypeOK
<1>2. WorkerInv /\ AcceptInv
  BY DEF Init, WorkerInv, AcceptInv, Inside, OfAcceptor, OfSession
<1>3. SessionInv /\ StopInv
  BY DEF Init, SessionInv, StopInv, Late, None, Main
<1>4. HoldersExact
  <2>1. Holders = {} /\ slots = MaxConnections
    BY DEF Init, Holders
  <2>. QED
    BY <2>1, FS_EmptySet DEF HoldersExact
<1>. QED
  BY <1>1, <1>2, <1>3, <1>4 DEF IInv

(* IInv holds in every reachable state of the server. *)
THEOREM Invariance == Spec => []IInv
<1>1. IInv /\ [Next]_vars => IInv'
  BY TypeStep, WorkerStep, AcceptStep, SessionStep, StopStep DEF IInv
<1>. QED
  BY <1>1, InitInv, PTL DEF Spec

(* Nothing accepted, half-made or being closed slips past Stop: see        *)
(* NoSessionEscapes.  Whatever throws in OnAccept.                         *)
THEOREM StopFindsEverySession == Spec => []NoSessionEscapes
<1>1. IInv => NoSessionEscapes
  <2>. SUFFICES ASSUME IInv PROVE NoSessionEscapes
    OBVIOUS
  <2>1. stopper \in Late => accLock = None
    BY DEF IInv, TypeOK, WorkerInv, StopInv, AcceptorIdle, Inside, OfAcceptor
  <2>. QED
    BY <2>1 DEF IInv, StopInv, NoSessionEscapes, Late
<1>. QED
  BY <1>1, Invariance, PTL

(* Provided Socks5Session::Start does not throw (OnAccept then gives the   *)
(* slot of a session back that stays retained), no order of accepts,       *)
(* closes and Stop loses or invents a connection slot.                     *)
THEOREM SlotsAreExact == "start" \notin Throws => (Spec => []SlotsExact)
<1>. SUFFICES ASSUME "start" \notin Throws PROVE Spec => []SlotsExact
  OBVIOUS
<1>1. IInv /\ HoldersExact /\ [Next]_vars => HoldersExact'
  BY HoldersStep
<1>2. HoldersExact => SlotsExact
  BY DEF HoldersExact, Holders, SlotsExact
<1>. QED
  BY <1>1, <1>2, InitInv, Invariance, PTL DEF Spec
=============================================================================
