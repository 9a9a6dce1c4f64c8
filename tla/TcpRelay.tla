------------------------------ MODULE TcpRelay ------------------------------
(***************************************************************************)
(* The data plane of a SOCKS5 CONNECT session: what Socks5Session does     *)
(* between StartRelay and the end of the session.  Bytes read from one     *)
(* stream are queued on the other one; each stream has at most one WSARecv *)
(* and one WSASend outstanding; reading a stream pauses while the queue of *)
(* the other one is kMaxRelayQueueDepth entries deep.                      *)
(*                                                                         *)
(* Every completion handler runs under the session's completionMutex_      *)
(* (Iocp.cpp, WorkerLoop), and so does Close; a handler is therefore one   *)
(* action, including the sends and receives it posts and the Close it may  *)
(* perform half-way.                                                       *)
(*                                                                         *)
(* Data is abstract: the entries queued on a stream are numbered 1, 2, ... *)
(* in the order they are queued and each is PieceLen bytes long, so a      *)
(* position in the byte stream is a pair <<entry, bytes of it sent>>.      *)
(***************************************************************************)
EXTENDS Naturals, Sequences

CONSTANTS
  Depth,        \* kMaxRelayQueueDepth
  PieceLen,     \* bytes of one queue entry
  MaxPieces,    \* bound: entries ever queued on one stream
  MaxInitial,   \* bound: entries already there when the relay starts
  Gss,          \* gssProtectActive_: a receive becomes several entries
  MaxBurst,     \* bound: entries one receive becomes under Gss
  PostOutcomes, \* {TRUE}, or {TRUE, FALSE} when posting an operation may fail
  Faults        \* whether outstanding operations fail and the server stops

ASSUME DepthAssumption == Depth \in Nat \ {0}
ASSUME PieceLenAssumption == PieceLen \in Nat \ {0}
ASSUME BoundsAssumption ==
  /\ MaxPieces \in Nat
  /\ MaxInitial \in Nat
  /\ MaxInitial <= MaxPieces
  /\ MaxBurst \in Nat \ {0}
ASSUME SwitchAssumption ==
  /\ Gss \in BOOLEAN
  /\ Faults \in BOOLEAN
  /\ PostOutcomes \subseteq BOOLEAN
  /\ TRUE \in PostOutcomes

VARIABLES
  state,       \* state_: "Connecting" until StartRelay, then "Relaying"
  closed,      \* closed_
  reading,     \* StreamIo::reading, a WSARecv is outstanding
  paused,      \* StreamIo::relayReadPaused
  peerClosed,  \* StreamIo::peerClosed
  shut,        \* shutdown(SD_SEND) was called on the stream's socket
  queue,       \* StreamIo::sendQueue
  offset,      \* StreamIo::sendFrontOffset
  sending,     \* StreamIo::sending, a WSASend is outstanding
  pin,         \* position of the bytes copied for the last WSASend (bufferPin)
  queued,      \* history: entries ever queued on the stream
  wire         \* history: position up to which the peer has been sent data

vars == <<state, closed, reading, paused, peerClosed, shut, queue, offset,
          sending, pin, queued, wire>>

Stream == {"client", "dest"}
Other(s) == IF s = "client" THEN "dest" ELSE "client"

(* Queue entries one receive from s becomes: the chunk itself in the clear;*)
(* under GSSAPI the complete frames unwrapped so far (perhaps none) from   *)
(* the client, and the 16 KB slices of the chunk from the destination.     *)
Burst(s) == IF ~Gss THEN {1}
            ELSE IF s = "client" THEN 0..MaxBurst ELSE 1..MaxBurst

(* The k entries that follow the ones queued on s so far. *)
Fresh(s, k) == [i \in 1..k |-> queued[s] + i]

-----------------------------------------------------------------------------
(* OnIoCompleted hands a completion to its handler only while the session  *)
(* is open.                                                                *)
HandlesStale == state = "Relaying"
Handles == state = "Relaying" /\ ~closed

(* PumpSend(s) once the queue of s is q, its front offset off, and busy    *)
(* says whether a send is in flight: the front is posted unless there is   *)
(* nothing to send.  A post after shutdown(SD_SEND) always fails.          *)
CanPost(s, q, busy, ok) == ~busy /\ q # <<>> /\ ok /\ ~shut[s]

PumpSendFirstOnly(s, q, off, busy, ok) ==
  /\ queue' = [queue EXCEPT ![s] = q]
  /\ offset' = [offset EXCEPT ![s] = off]
  /\ sending' = [sending EXCEPT ![s] =
                   busy \/ (CanPost(s, q, busy, ok) /\ Len(q) = 1)]
  /\ pin' = IF CanPost(s, q, busy, ok)
            THEN [pin EXCEPT ![s] = <<Head(q), off>>] ELSE pin
PumpSend(s, q, off, busy, ok) ==
  /\ queue' = [queue EXCEPT ![s] = q]
  /\ offset' = [offset EXCEPT ![s] = off]
  /\ sending' = [sending EXCEPT ![s] = busy \/ CanPost(s, q, busy, ok)]
  /\ pin' = IF CanPost(s, q, busy, ok)
            THEN [pin EXCEPT ![s] = <<Head(q), off>>] ELSE pin

(* ... and the case in which PumpSend closes the session. *)
PumpCloses(s, q, busy, ok) == ~busy /\ q # <<>> /\ ~CanPost(s, q, busy, ok)

(* What a send of n bytes leaves of the queue of s, and its front offset.  *)
FrontDone(s, n) == queue[s] # <<>> /\ offset[s] + n >= PieceLen

AfterSend(s, n) == IF FrontDone(s, n) THEN Tail(queue[s]) ELSE queue[s]

OffsetNotReset(s, n) == IF queue[s] = <<>> THEN offset[s] ELSE offset[s] + n
OffsetNotKept(s, n) == 0
OffsetAfterSend(s, n) ==
  IF queue[s] = <<>> THEN offset[s]
  ELSE IF FrontDone(s, n) THEN 0 ELSE offset[s] + n

(* TryPostRelayRead(s) when the opposite queue is q.  "alive" is whether   *)
(* the handler has not closed the session yet; "resting" whether the read  *)
(* of s is paused at this point.                                           *)
QueueFullLate(q) == Len(q) > Depth
QueueFull(q) == Len(q) >= Depth

TryPostForgetsPause(s, q, alive, busy, resting, ok) ==
  LET want == alive /\ ~busy /\ ~peerClosed[s] /\ ~resting /\ ~QueueFull(q)
  IN /\ paused' = [paused EXCEPT ![s] = resting]
     /\ reading' = [reading EXCEPT ![s] = busy \/ (want /\ ok)]
     /\ closed' = (~alive \/ (want /\ ~ok))
TryPostRelayRead(s, q, alive, busy, resting, ok) ==
  LET want == alive /\ ~busy /\ ~peerClosed[s] /\ ~resting
  IN /\ paused' = [paused EXCEPT ![s] = resting \/ (want /\ QueueFull(q))]
     /\ reading' = [reading EXCEPT ![s] = busy \/ (want /\ ~QueueFull(q) /\ ok)]
     /\ closed' = (~alive \/ (want /\ ~QueueFull(q) /\ ~ok))

(* MaybeResumeRelayRead(s) when the opposite queue is q. *)
MaybeResumeRelayRead(s, q, alive, ok) ==
  IF alive /\ paused[s] /\ ~QueueFull(q)
  THEN TryPostRelayRead(s, q, alive, reading[s], FALSE, ok)
  ELSE closed' = ~alive /\ UNCHANGED <<reading, paused>>

-----------------------------------------------------------------------------
(* OnDestConnect has just queued the success reply (and earlier replies    *)
(* may still be queued) and its send is in flight.                         *)
Init ==
  /\ state = "Connecting"
  /\ closed = FALSE
  /\ reading = [s \in Stream |-> FALSE]
  /\ paused = [s \in Stream |-> FALSE]
  /\ peerClosed = [s \in Stream |-> FALSE]
  /\ shut = [s \in Stream |-> FALSE]
  /\ \E n \in 1..MaxInitial :
       /\ queued = [s \in Stream |-> IF s = "client" THEN n ELSE 0]
       /\ queue = [s \in Stream |->
                     IF s = "client" THEN [i \in 1..n |-> i] ELSE <<>>]
  /\ offset = [s \in Stream |-> 0]
  /\ sending = [s \in Stream |-> s = "client"]
  /\ pin = [s \in Stream |-> <<1, 0>>]
  /\ wire = [s \in Stream |-> <<1, 0>>]

(* StartRelay: bytes the client pipelined behind its request are forwarded *)
(* first, then both streams are read, without a look at the queue depth.   *)
StartRelay ==
  /\ state = "Connecting" /\ ~closed
  /\ state' = "Relaying"
  /\ \E k \in 0..MaxInitial, bad \in BOOLEAN,
        okS \in PostOutcomes, okC \in PostOutcomes, okD \in PostOutcomes :
       LET q == queue["dest"] \o Fresh("dest", k)
           sendDead == PumpCloses("dest", q, sending["dest"], okS)
           clientDead == sendDead \/ bad \/ ~okC
       IN /\ ~Gss => k <= 1 /\ ~bad
          /\ queued' = [queued EXCEPT !["dest"] = @ + k]
          /\ PumpSend("dest", q, offset["dest"], sending["dest"], okS)
          /\ reading' = [s \in Stream |-> ~clientDead /\ (s = "dest" => okD)]
          /\ closed' = (clientDead \/ ~okD)
  /\ UNCHANGED <<paused, peerClosed, shut, wire>>

(* A receive on s completes with data: OnClientRecv / OnDestRecv, then     *)
(* OnRelayData.  Under GSSAPI an invalid frame (or a failing wrap) closes  *)
(* the session after the k entries before it were queued.                  *)
OnRelayData(s) ==
  /\ Handles /\ reading[s]
  /\ \E k \in Burst(s) \cup (IF Gss THEN {0} ELSE {}), bad \in BOOLEAN,
        okS \in PostOutcomes, okR \in PostOutcomes :
       LET o == Other(s)
           q == queue[o] \o Fresh(o, k)
           alive == ~bad /\ ~PumpCloses(o, q, sending[o], okS)
       IN /\ bad => Gss
          /\ k \in Burst(s) \/ bad
          /\ queued[o] + k <= MaxPieces
          /\ queued' = [queued EXCEPT ![o] = @ + k]
          /\ PumpSend(o, q, offset[o], sending[o], okS)
          /\ TryPostRelayRead(s, q, alive, FALSE, paused[s], okR)
  /\ UNCHANGED <<state, peerClosed, shut, wire>>

(* A receive on s completes with zero bytes or an error: the opposite      *)
(* socket is shut down for sending whatever its queue still holds, and the *)
(* session closes if the opposite peer had ended its stream before.        *)
OnRecvEnd(s) ==
  /\ Handles /\ reading[s]
  /\ reading' = [reading EXCEPT ![s] = FALSE]
  /\ peerClosed' = [peerClosed EXCEPT ![s] = TRUE]
  /\ shut' = [shut EXCEPT ![Other(s)] = TRUE]
  /\ closed' = peerClosed[Other(s)]
  /\ UNCHANGED <<state, paused, queue, offset, sending, pin, queued, wire>>

(* A send on s completes after n bytes: OnClientSend / OnDestSend.  The    *)
(* front is popped once it is all sent, the next bytes are posted, and the *)
(* opposite read resumes if it was paused and the queue has room again     *)
(* (MaybeResumeRelayRead).  closeAfterFlush_ is never set with a relay.    *)
OnSend(s) ==
  /\ Handles /\ sending[s]
  /\ \E n \in 1..(PieceLen - pin[s][2]),
        okS \in PostOutcomes, okR \in PostOutcomes :
       LET q == AfterSend(s, n)
           alive == ~PumpCloses(s, q, FALSE, okS)
       IN /\ PumpSend(s, q, OffsetAfterSend(s, n), FALSE, okS)
          /\ wire' = [wire EXCEPT ![s] =
                        IF pin[s][2] + n = PieceLen
                        THEN <<pin[s][1] + 1, 0>>
                        ELSE <<pin[s][1], pin[s][2] + n>>]
          /\ MaybeResumeRelayRead(Other(s), q, alive, okR)
  /\ UNCHANGED <<state, peerClosed, shut, queued>>

(* The tail of every path that ends the session. *)
Close ==
  /\ closed' = TRUE
  /\ UNCHANGED <<state, paused, peerClosed, shut, queue, offset, pin, queued, wire>>

(* A send on s completes with an error. *)
OnSendError(s) ==
  /\ Faults /\ Handles /\ sending[s]
  /\ sending' = [sending EXCEPT ![s] = FALSE]
  /\ Close /\ UNCHANGED reading

(* ProxyServer::Stop closes every session, at any moment. *)
ServerStop ==
  /\ Faults /\ Handles
  /\ Close /\ UNCHANGED <<reading, sending>>

(* The sockets are closed: what is still outstanding completes, and        *)
(* OnIoCompleted only clears the flag.                                     *)
DrainRecv(s) ==
  /\ closed /\ reading[s]
  /\ reading' = [reading EXCEPT ![s] = FALSE]
  /\ UNCHANGED <<state, closed, paused, peerClosed, shut, queue, offset,
                 sending, pin, queued, wire>>

DrainSend(s) ==
  /\ closed /\ sending[s]
  /\ sending' = [sending EXCEPT ![s] = FALSE]
  /\ UNCHANGED <<state, closed, reading, paused, peerClosed, shut, queue,
                 offset, pin, queued, wire>>

(* The end of a session: closed, and nothing outstanding pins it. *)
Ended ==
  /\ closed /\ \A s \in Stream : ~reading[s] /\ ~sending[s]
  /\ UNCHANGED vars

Next ==
  \/ StartRelay
  \/ \E s \in Stream :
       \/ OnRelayData(s) \/ OnRecvEnd(s) \/ OnSend(s)
       \/ OnSendError(s) \/ DrainRecv(s) \/ DrainSend(s)
  \/ ServerStop
  \/ Ended

Spec == Init /\ [][Next]_vars

(* StartRelay is the rest of a running handler; a posted send completes as *)
(* long as the peer keeps reading; a closed socket aborts what is posted.  *)
(* Nothing forces a peer to send or to close.                              *)
Fairness ==
  /\ WF_vars(StartRelay)
  /\ \A s \in Stream : /\ WF_vars(OnSend(s))
                       /\ WF_vars(DrainRecv(s)) /\ WF_vars(DrainSend(s))

FairSpec == Spec /\ Fairness

-----------------------------------------------------------------------------
(* Type invariant. *)
TypeOK ==
  /\ state \in {"Connecting", "Relaying"}
  /\ closed \in BOOLEAN
  /\ reading \in [Stream -> BOOLEAN]
  /\ paused \in [Stream -> BOOLEAN]
  /\ peerClosed \in [Stream -> BOOLEAN]
  /\ shut \in [Stream -> BOOLEAN]
  /\ queue \in [Stream -> Seq(Nat)]
  /\ offset \in [Stream -> 0..(PieceLen - 1)]
  /\ sending \in [Stream -> BOOLEAN]
  /\ pin \in [Stream -> Nat \X (0..(PieceLen - 1))]
  /\ queued \in [Stream -> Nat]
  /\ wire \in [Stream -> Nat \X (0..(PieceLen - 1))]

(* The byte stream is relayed without a gap, a repetition or a swap, under *)
(* any pattern of partial sends: what is in flight starts exactly where    *)
(* the peer's stream ends, and while the session is open the send queue    *)
(* is all that was queued and not yet sent, in order (sendQueue and        *)
(* sendFrontOffset in OnClientSend, OnDestSend and PumpSend).              *)
InFlightContinues == \A s \in Stream : sending[s] => pin[s] = wire[s]

QueueIsRest ==
  ~closed => \A s \in Stream :
    /\ wire[s] = <<queued[s] - Len(queue[s]) + 1, offset[s]>>
    /\ \A i \in 1..Len(queue[s]) : queue[s][i] = wire[s][1] + i - 1

StreamIntact == InFlightContinues /\ QueueIsRest

(* No entry is left behind: while the session is open a stream with a      *)
(* non-empty queue has a send in flight, so some completion will call      *)
(* PumpSend again (nothing else does).                                     *)
NoStall == ~closed => \A s \in Stream : queue[s] # <<>> => sending[s]

(* The backpressure never loses a wake-up: in an open relay each stream is *)
(* being read, or is paused with a send in flight whose completion will    *)
(* resume it, or has ended; never two of these at once (relayReadPaused,   *)
(* TryPostRelayRead, MaybeResumeRelayRead).                                *)
ReadNeverLost ==
  (state = "Relaying" /\ ~closed) => \A s \in Stream :
    /\ reading[s] \/ paused[s] \/ peerClosed[s]
    /\ ~(reading[s] /\ paused[s]) /\ ~(reading[s] /\ peerClosed[s])
    /\ ~(paused[s] /\ peerClosed[s])
    /\ paused[s] => sending[Other(s)]

(* The memory a slow peer can pin is bounded: a queue outgrows             *)
(* kMaxRelayQueueDepth by at most the entries of one receive, or of what   *)
(* was queued before the first receive, which StartRelay posts unchecked.  *)
QueueBound ==
  LET before == IF Depth - 1 > MaxInitial THEN Depth - 1 ELSE MaxInitial
      burst == IF Gss THEN MaxBurst ELSE 1
  IN ~closed => \A s \in Stream : Len(queue[s]) <= before + burst

(* After Close no completion starts an operation, moves a byte or reopens  *)
(* the session: the sockets are gone and the slot has been released.       *)
QuietAfterClose ==
  [][closed => /\ closed' /\ queued' = queued /\ wire' = wire
               /\ \A s \in Stream : (reading'[s] => reading[s]) /\ (sending'[s] => sending[s])]_vars

(* The relay is the pair of byte streams that Duplex describes: queue      *)
(* entries, pinned buffers, offsets, partial sends and backpressure do not *)
(* show; a half-closed session goes on with the other stream until that    *)
(* one ends too, or what was queued is cut off by shutdown(SD_SEND).       *)
Position(s) == (wire[s][1] - 1) * PieceLen + wire[s][2]

Pipes == INSTANCE Duplex WITH
  Streams <- Stream,
  given <- [s \in Stream |-> queued[s] * PieceLen],
  sent <- [s \in Stream |-> Position(s)],
  ended <- shut

IsDuplex == Pipes!Spec

(* Every entry queued on a stream reaches its peer, unless the session     *)
(* closes, provided peers keep reading.                                    *)
Delivered ==
  \A s \in Stream : \A p \in 1..MaxPieces :
    (queued[s] >= p) ~> (wire[s][1] > p \/ closed)
=============================================================================
