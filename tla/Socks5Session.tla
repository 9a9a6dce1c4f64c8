---------------------------- MODULE Socks5Session ----------------------------
(***************************************************************************)
(* The control plane of one client session: method negotiation,            *)
(* authentication, the SOCKS request, name resolution, the outgoing        *)
(* connection, the replies, the idle and connect timers, and Close.        *)
(*                                                                         *)
(* The session object is the record s, one field per member that the       *)
(* control flow depends on; the private methods are functions from such a  *)
(* record to the record they leave behind, so that a handler which closes  *)
(* the session half-way and carries on is written as the code is.          *)
(*                                                                         *)
(* Completion handlers and Close run under completionMutex_.  OnClientRecv *)
(* is a loop over the buffered messages: its iterations are separate steps *)
(* and "handler" is the lock, held until the loop ends.                    *)
(*                                                                         *)
(* ingest_ is the number of complete messages buffered: what the client    *)
(* wrote is arbitrary, so what a message turns out to be is chosen when it *)
(* is parsed.  Once the relay starts, TcpRelay takes over the I/O.         *)
(***************************************************************************)
EXTENDS Naturals, Sequences, FiniteSets

CONSTANTS
  HasCredentials, \* NetworkConfiguration::HasCredentials()
  EnableGssapi,   \* NetworkConfiguration::EnableGssapi
  IdleTimeout,    \* whether IdleTimeoutMs > 0
  ConnectTimeout, \* whether ConnectTimeoutMs > 0
  MaxBuffered,    \* kMaxProtocolBuffered, in messages
  MaxRecvs,       \* bound: receives with data, after which the client is silent
  PostOutcomes,   \* {TRUE}, or {TRUE, FALSE} when posting an operation may fail
  Faults          \* whether sends fail, clients hang up and the server stops

ASSUME ConfigAssumption ==
  /\ HasCredentials \in BOOLEAN /\ EnableGssapi \in BOOLEAN
  /\ IdleTimeout \in BOOLEAN /\ ConnectTimeout \in BOOLEAN
  /\ Faults \in BOOLEAN
  /\ TRUE \in PostOutcomes /\ PostOutcomes \subseteq BOOLEAN
ASSUME BoundsAssumption == MaxBuffered \in Nat \ {0} /\ MaxRecvs \in Nat

VARIABLES s, handler
vars == <<s, handler>>

(* The states in which client bytes are parsed as protocol messages. *)
Proto == {"Handshake", "Auth", "GssapiAuth", "GssapiProtect", "Request"}
States == Proto \cup {"Resolving", "Connecting", "Relaying", "UdpAssociate",
                      "Closing"}
Methods == {"NoAuth", "UserPass", "Gssapi"}

-----------------------------------------------------------------------------
(* Timers.  A timer that was scheduled is in s.timers until it is          *)
(* cancelled or its completion is handled; once IocpService has claimed    *)
(* it (posted), cancelling it has no effect.  An id is known by its        *)
(* generation, 0 is no timer.  "seen" is history: receives so far; so is   *)
(* "refused": whether the last ScheduleTimeout of the idle timer failed.   *)
CancelIdleTimer(r) ==
  [r EXCEPT !.idleGen = @ + 1, !.idleTimer = 0,
            !.timers = {t \in @ : t.kind # "idle" \/ t.gen # r.idleTimer \/ t.posted}]

CancelConnectTimer(r) ==
  [r EXCEPT !.connGen = @ + 1, !.connTimer = 0,
            !.timers = {t \in @ : t.kind # "connect" \/ t.gen # r.connTimer \/ t.posted}]

NewTimer(r, k, g) == [kind |-> k, gen |-> g, posted |-> FALSE, seen |-> r.recvs]

(* The states in which ArmIdleTimer only cancels. *)
UntimedRequest == {"Relaying", "UdpAssociate", "Resolving", "Connecting", "Request"}
Untimed == {"Relaying", "UdpAssociate", "Resolving", "Connecting"}

ArmIdleTimer(r, ok) ==
  LET c == CancelIdleTimer(r) IN
  IF ~IdleTimeout \/ r.state \in Untimed THEN c
  ELSE [c EXCEPT !.idleGen = @ + 1,
                 !.idleTimer = IF ok THEN c.idleGen + 1 ELSE 0,
                 !.refused = ~ok,
                 !.timers = @ \cup IF ok THEN {NewTimer(r, "idle", c.idleGen + 1)} ELSE {}]

(* Fails, for the caller to see, exactly when it leaves connTimer 0 with   *)
(* a timeout configured.                                                   *)
NeverArms(r, ok) == CancelConnectTimer(r)
ArmConnectTimer(r, ok) ==
  LET c == CancelConnectTimer(r) IN
  IF ~ConnectTimeout THEN c
  ELSE [c EXCEPT !.connGen = @ + 1,
                 !.connTimer = IF ok THEN c.connGen + 1 ELSE 0,
                 !.timers = @ \cup IF ok THEN {NewTimer(r, "connect", c.connGen + 1)} ELSE {}]

-----------------------------------------------------------------------------
(* Close: idempotent by closed_.exchange; the relay, both sockets and the  *)
(* connection slot go with it.                                             *)
Close(r) ==
  IF r.closed THEN r
  ELSE [CancelIdleTimer(CancelConnectTimer(r)) EXCEPT
          !.closed = TRUE, !.flushClose = FALSE, !.udp = "none", !.dest = FALSE]

(* PumpSend(Client): post the front of the queue if no send is in flight. *)
PumpSend(r, ok) ==
  IF r.closed \/ r.sending \/ r.unsent = 0 THEN r
  ELSE IF ok THEN [r EXCEPT !.sending = TRUE] ELSE Close(r)

QueueClientSendRaw(r, m, ok) ==
  PumpSend([r EXCEPT !.unsent = @ + 1, !.log = Append(@, m)], ok)

(* QueueClientSend: under GSSAPI protection a control message is wrapped   *)
(* first, and the session closes if that fails (wr is its outcome).        *)
QueueClientSend(r, m, ok, wr) ==
  IF r.gss /\ r.state \notin {"Relaying", "UdpAssociate"} /\ ~wr THEN Close(r)
  ELSE QueueClientSendRaw(r, m, ok)

SendSocksReply(r, m, ok, wr) == QueueClientSend(r, m, ok, wr)

Flushed(r) == r.unsent = 0 /\ ~r.sending

FlagOnly(r) == [r EXCEPT !.flushClose = TRUE]
RequestCloseAfterFlush(r) ==
  LET c == [r EXCEPT !.flushClose = TRUE] IN IF Flushed(c) THEN Close(c) ELSE c

FailLeavesTimers(r, ok, wr) ==
  IF r.closed \/ r.state = "Closing" THEN r
  ELSE RequestCloseAfterFlush(SendSocksReply(
         [r EXCEPT !.state = "Closing", !.dest = FALSE], "Failure", ok, wr))
FailAndClose(r, ok, wr) ==
  IF r.closed \/ r.state = "Closing" THEN r
  ELSE RequestCloseAfterFlush(SendSocksReply(
         [CancelIdleTimer(CancelConnectTimer(r)) EXCEPT
            !.state = "Closing", !.dest = FALSE], "Failure", ok, wr))

BeginClientRead(r, ok) ==
  IF r.closed \/ r.reading THEN r
  ELSE IF ok THEN [r EXCEPT !.reading = TRUE] ELSE Close(r)

-----------------------------------------------------------------------------
(* ConnectToHost.  "socket": no socket, no bind or no association;         *)
(* "post": ConnectEx could not be posted; "timer": it was posted but the   *)
(* timer could not be scheduled.  All but "ok" return false.               *)
ConnectOutcomes == {"ok", "socket"} \cup
                   (IF FALSE \in PostOutcomes THEN {"post", "timer"} ELSE {})

ConnectToHost(r, how, ok, wr) ==
  LET c == [CancelIdleTimer(r) EXCEPT !.state = "Connecting"]
      posted == ArmConnectTimer([c EXCEPT !.dest = TRUE, !.connecting = TRUE],
                                how # "timer")
  IN CASE how = "socket" -> FailAndClose(r, ok, wr)
       [] how = "post" -> FailAndClose(c, ok, wr)
       [] how = "timer" /\ ConnectTimeout -> FailAndClose(posted, ok, wr)
       [] OTHER -> posted

ConnectFails(how) == how \in {"socket", "post"} \/ (how = "timer" /\ ConnectTimeout)

(* StartRelay, up to the point where TcpRelay goes on: started is FALSE    *)
(* when one of its posts fails, or a GSSAPI frame is bad.                  *)
StartRelay(r, started) ==
  LET c == [CancelIdleTimer(r) EXCEPT !.state = "Relaying", !.ingest = 0]
  IN IF started /\ c.dest THEN [c EXCEPT !.reading = TRUE] ELSE Close(c)

-----------------------------------------------------------------------------
Init ==
  /\ s = [state |-> "Handshake", closed |-> FALSE, flushClose |-> FALSE,
          ingest |-> 0, reading |-> FALSE, unsent |-> 0, sending |-> FALSE,
          dest |-> FALSE, connecting |-> FALSE,
          dns |-> "none", udp |-> "none", udpStop |-> FALSE,
          gss |-> FALSE, timers |-> {}, idleGen |-> 0, idleTimer |-> 0,
          refused |-> FALSE, connGen |-> 0, connTimer |-> 0,
          recvs |-> 0, log |-> <<>>, authed |-> FALSE]
  /\ handler = "accept"

(* Start, on the acceptor's thread and without completionMutex_: the timer *)
(* is armed first, and may fire before the first read is posted.  If the   *)
(* socket cannot be associated, or the read fails, OnAccept calls Close.   *)
Start ==
  /\ handler = "accept"
  /\ \/ \E ok \in PostOutcomes : s' = ArmIdleTimer(s, ok) /\ handler' = "start"
     \/ FALSE \in PostOutcomes /\ s' = Close(s) /\ handler' = "none"

StartRead ==
  /\ handler = "start"
  /\ \E ok \in PostOutcomes : s' = BeginClientRead(s, ok)
  /\ handler' = "none"

(* Completions are handled when no other handler holds completionMutex_;   *)
(* Start does not hold it.                                                 *)
LockFree == handler \in {"none", "start"}

(* OnClientRecv with data that completes k messages; beyond the buffering  *)
(* limit the session closes.                                               *)
NoLimit(r, k) == FALSE
OverLimit(r, k) == r.ingest + k > MaxBuffered

OnClientRecv ==
  /\ handler = "none" /\ ~s.closed /\ s.reading /\ s.recvs < MaxRecvs
  /\ s.state # "Relaying"
  /\ \E k \in 0..(MaxBuffered + 1), ok \in PostOutcomes :
       LET got == [s EXCEPT !.reading = FALSE, !.recvs = @ + 1]
           r == IF s.state \in Proto THEN ArmIdleTimer(got, ok) ELSE got
       IN IF s.state = "UdpAssociate"
          THEN s' = BeginClientRead(got, ok) /\ UNCHANGED handler
          ELSE IF OverLimit(r, k)
          THEN s' = Close(r) /\ UNCHANGED handler
          ELSE s' = [r EXCEPT !.ingest = @ + k] /\ handler' = "loop"

(* OnClientRecv with zero bytes or an error. *)
OnClientRecvEnd ==
  /\ handler = "none" /\ ~s.closed /\ s.reading /\ s.state # "Relaying"
  /\ s' = Close([s EXCEPT !.reading = FALSE])
  /\ UNCHANGED handler

(* One iteration of the loop ends in one of two ways. *)
Continue(r) == s' = r /\ UNCHANGED handler
Reject(r) == s' = RequestCloseAfterFlush(r) /\ handler' = "none"

Parses(state) == handler = "loop" /\ ~s.closed /\ s.state = state /\ s.ingest > 0
Taken == [s EXCEPT !.ingest = @ - 1]

SelectedLax(offers) ==
  IF EnableGssapi /\ "Gssapi" \in offers THEN "Gssapi"
  ELSE IF HasCredentials /\ "UserPass" \in offers THEN "UserPass"
  ELSE IF "NoAuth" \in offers THEN "NoAuth" ELSE "none"
Selected(offers) ==
  IF EnableGssapi /\ "Gssapi" \in offers THEN "Gssapi"
  ELSE IF HasCredentials /\ "UserPass" \in offers THEN "UserPass"
  ELSE IF ~HasCredentials /\ "NoAuth" \in offers THEN "NoAuth" ELSE "none"

NextState(method) == CASE method = "Gssapi" -> "GssapiAuth"
                       [] method = "UserPass" -> "Auth"
                       [] method = "NoAuth" -> "Request"

ProcessHandshakeBuffer ==
  /\ Parses("Handshake")
  /\ \/ Reject(s)                       \* wrong version, or no method offered
     \/ \E offers \in SUBSET Methods \ {{}}, ok \in PostOutcomes, acquired \in BOOLEAN :
          LET m == Selected(offers)
              r == QueueClientSendRaw(Taken, "Method", ok)
          IN IF m = "none" THEN Reject(r)
             ELSE IF m = "Gssapi" /\ ~acquired
             THEN Reject(QueueClientSendRaw(r, "Abort", ok))
             ELSE Continue([r EXCEPT !.state = NextState(m)])

ProcessAuthBuffer ==
  /\ Parses("Auth")
  /\ \/ Reject(s)                       \* wrong sub-negotiation version
     \/ \E good \in BOOLEAN, ok \in PostOutcomes :
          LET r == QueueClientSendRaw(Taken, "Auth", ok)
          IN IF good THEN Continue([r EXCEPT !.state = "Request", !.authed = TRUE])
             ELSE Reject(r)

(* AcceptToken needs another token, completes, or fails. *)
ProcessGssapiAuthBuffer ==
  /\ Parses("GssapiAuth")
  /\ \E status \in {"Continue", "Complete", "Failed"}, ok \in PostOutcomes :
       LET r == QueueClientSendRaw(Taken, IF status = "Failed" THEN "Abort" ELSE "Token", ok)
       IN CASE status = "Failed" -> Reject(r)
            [] status = "Continue" -> Continue(r)
            [] status = "Complete" ->
                 Continue([r EXCEPT !.state = "GssapiProtect", !.authed = TRUE])

ProcessGssapiProtectBuffer ==
  /\ Parses("GssapiProtect")
  /\ \E agreed \in BOOLEAN, ok \in PostOutcomes :
       LET r == QueueClientSendRaw(Taken, IF agreed THEN "Token" ELSE "Abort", ok)
       IN IF agreed THEN Continue([r EXCEPT !.state = "Request", !.gss = TRUE])
          ELSE Reject(r)

(* UDP ASSOCIATE: the reply carries the endpoint of the relay, which       *)
(* therefore has to run before it is sent.  An exception before the reply  *)
(* counts as a relay that does not start.  One after it, which only        *)
(* memory running out in a log statement can raise, is left out; the       *)
(* catch clause would then send a second reply.                            *)
UdpReplyFirst(r, up, ok, wr) ==
  LET c == SendSocksReply(CancelIdleTimer([r EXCEPT !.udp = "running"]),
                          "Succeeded", ok, wr)
  IN IF ~up THEN FailAndClose(c, ok, wr)
     ELSE BeginClientRead([c EXCEPT !.state = "UdpAssociate"], ok)
UdpAssociate(r, up, ok, wr) ==
  LET c == [r EXCEPT !.udp = IF up THEN "running" ELSE "stopped"]
  IN IF ~up THEN FailAndClose(c, ok, wr)
     ELSE BeginClientRead(
            [SendSocksReply(CancelIdleTimer(c), "Succeeded", ok, wr)
               EXCEPT !.state = "UdpAssociate"], ok)

(* When that reply cannot be posted, Close has reset udpRelay_ and the     *)
(* next line dereferences it: the process is gone.                         *)
NullRelay(r) == r.closed

ProcessRequestBuffer ==
  /\ Parses("Request")
  /\ \E ok \in PostOutcomes, wr \in PostOutcomes :
       \/ s.gss /\ Reject(s)            \* the frame cannot be unwrapped
       \/ Continue(FailAndClose(s, ok, wr))   \* malformed or not supported
       \/ \E how \in ConnectOutcomes :  \* CONNECT to an address
            LET r == ConnectToHost(Taken, how, ok, wr)
            IN IF ConnectFails(how) THEN Reject(r) ELSE Continue(r)
       \/ Continue([CancelIdleTimer(Taken) EXCEPT   \* CONNECT to a name
                      !.state = "Resolving", !.dns = "asked"])
       \/ \E up \in BOOLEAN :
            LET r == UdpAssociate(Taken, up, ok, wr)
            IN IF up /\ NullRelay(SendSocksReply(CancelIdleTimer(Taken), "Succeeded", ok, wr))
               THEN UNCHANGED s /\ handler' = "crashed"
               ELSE Continue(r)

(* The loop ends when the session left the protocol states, or nothing     *)
(* more can be parsed: then, and only then, the next read is posted.       *)
ReadsAgain(r) == r.state \in Proto

LoopEnds ==
  /\ handler = "loop"
  /\ s.closed \/ s.state \notin Proto \/ s.ingest = 0
  /\ \E ok \in PostOutcomes :
       s' = IF ReadsAgain(s) THEN BeginClientRead(s, ok) ELSE s
  /\ handler' = "none"

Process == \/ ProcessHandshakeBuffer \/ ProcessAuthBuffer
           \/ ProcessGssapiAuthBuffer \/ ProcessGssapiProtectBuffer
           \/ ProcessRequestBuffer \/ LoopEnds

-----------------------------------------------------------------------------
(* OnClientSend: a reply went out; with closeAfterFlush_ the last one      *)
(* closes the session.                                                     *)
OnClientSend ==
  /\ LockFree /\ ~s.closed /\ s.sending
  /\ \E ok \in PostOutcomes :
       LET r == PumpSend([s EXCEPT !.sending = FALSE,
                                   !.unsent = IF @ > 0 THEN @ - 1 ELSE 0], ok)
       IN s' = IF r.flushClose /\ Flushed(r) THEN Close(r) ELSE r
  /\ UNCHANGED handler

OnClientSendError ==
  /\ Faults /\ LockFree /\ ~s.closed /\ s.sending
  /\ s' = Close([s EXCEPT !.sending = FALSE])
  /\ UNCHANGED handler

(* The resolver answers: the callback stores the result and posts dnsCtx_. *)
DnsCallback ==
  /\ LockFree /\ ~s.closed /\ s.dns = "asked"
  /\ \E ok \in PostOutcomes, found \in BOOLEAN :
       s' = IF ok THEN [s EXCEPT !.dns = IF found THEN "found" ELSE "failed"]
            ELSE Close([s EXCEPT !.dns = "none"])
  /\ UNCHANGED handler

(* OnDnsResolved; an answer of the wrong family counts as none. *)
OnDnsResolved ==
  /\ LockFree /\ ~s.closed /\ s.dns \in {"found", "failed"}
  /\ s.state = "Resolving"
  /\ \E ok \in PostOutcomes, wr \in PostOutcomes, how \in ConnectOutcomes :
       LET r == [s EXCEPT !.dns = "none"]
           c == ConnectToHost(r, how, ok, wr)
       IN s' = IF s.dns = "failed" THEN FailAndClose(r, ok, wr)
               ELSE IF ConnectFails(how) THEN RequestCloseAfterFlush(c) ELSE c
  /\ UNCHANGED handler

(* OnDestConnect: too late when the connect timer has given up. *)
ConnectAlwaysWanted(r) == TRUE
ConnectWanted(r) == r.state = "Connecting"

OnDestConnect ==
  /\ LockFree /\ ~s.closed /\ s.connecting
  /\ \E up \in BOOLEAN, started \in PostOutcomes, ok \in PostOutcomes, wr \in PostOutcomes :
       LET r == CancelConnectTimer([s EXCEPT !.connecting = FALSE])
       IN s' = IF ~ConnectWanted(r) THEN r
               ELSE IF ~up THEN FailAndClose([r EXCEPT !.dest = FALSE], ok, wr)
               ELSE StartRelay(SendSocksReply(r, "Succeeded", ok, wr), started)
  /\ UNCHANGED handler

(* AdvanceTimers: a due timer is claimed and its completion posted. *)
TimerDue(t) ==
  /\ ~t.posted /\ handler # "crashed"
  /\ s' = [s EXCEPT !.timers = (@ \ {t}) \cup {[t EXCEPT !.posted = TRUE]}]
  /\ UNCHANGED handler

(* OnTimer: a completion of an older generation is ignored. *)
AnyGeneration(r, t) == TRUE
CurrentGeneration(r, t) == t.gen = IF t.kind = "idle" THEN r.idleGen ELSE r.connGen

OnTimer(t) ==
  /\ LockFree /\ t.posted
  /\ \E ok \in PostOutcomes, wr \in PostOutcomes :
       LET r == [s EXCEPT !.timers = @ \ {t}]
           c == IF t.kind = "idle" THEN [r EXCEPT !.idleTimer = 0]
                ELSE [r EXCEPT !.connTimer = 0]
       IN s' = IF s.closed \/ ~CurrentGeneration(s, t) THEN r
               ELSE IF t.kind = "connect" /\ s.state = "Connecting"
               THEN FailAndClose([c EXCEPT !.dest = FALSE], ok, wr)
               ELSE IF t.kind = "idle" /\ s.state \in Proto
               THEN Close(c) ELSE c
  /\ UNCHANGED handler

(* The UDP relay stops by itself and posts udpStopCtx_, which              *)
(* OnUdpRelayStopped handles.                                              *)
UdpRelayStops ==
  /\ LockFree /\ ~s.closed /\ s.udp = "running" /\ s.state = "UdpAssociate"
  /\ \E ok \in PostOutcomes : s' = [s EXCEPT !.udp = "stopped", !.udpStop = ok]
  /\ UNCHANGED handler

OnUdpRelayStopped ==
  /\ LockFree /\ ~s.closed /\ s.udpStop
  /\ s' = Close([s EXCEPT !.udpStop = FALSE])
  /\ UNCHANGED handler

(* The relay of TcpRelay ends, in whichever way. *)
RelayEnds ==
  /\ LockFree /\ ~s.closed /\ s.state = "Relaying"
  /\ s' = Close(s)
  /\ UNCHANGED handler

(* ProxyServer::Stop; it has waited for the acceptor's handler before. *)
ServerStop ==
  /\ Faults /\ handler = "none" /\ ~s.closed
  /\ s' = Close(s)
  /\ UNCHANGED handler

(* After Close what is outstanding completes and is only accounted for. *)
Drain ==
  /\ LockFree /\ s.closed
  /\ \/ s.reading /\ s' = [s EXCEPT !.reading = FALSE]
     \/ s.sending /\ s' = [s EXCEPT !.sending = FALSE]
     \/ s.connecting /\ s' = [s EXCEPT !.connecting = FALSE]
     \/ s.dns # "none" /\ s' = [s EXCEPT !.dns = "none"]
     \/ s.udpStop /\ s' = [s EXCEPT !.udpStop = FALSE]
  /\ UNCHANGED handler

Ended ==
  /\ \/ handler = "crashed"
     \/ /\ handler = "none" /\ s.closed /\ s.timers = {}
        /\ ~s.reading /\ ~s.sending /\ ~s.connecting /\ ~s.udpStop /\ s.dns = "none"
  /\ UNCHANGED vars

Next ==
  \/ Start \/ StartRead
  \/ OnClientRecv \/ OnClientRecvEnd \/ Process
  \/ OnClientSend \/ OnClientSendError
  \/ DnsCallback \/ OnDnsResolved \/ OnDestConnect
  \/ \E t \in s.timers : TimerDue(t) \/ OnTimer(t)
  \/ UdpRelayStops \/ OnUdpRelayStopped \/ RelayEnds \/ ServerStop
  \/ Drain \/ Ended

Spec == Init /\ [][Next]_vars

(* A running handler goes on; due timers are claimed and posted            *)
(* completions are handled (the workers); the kernel buffers the short     *)
(* replies, so their sends complete; the resolver answers every query.     *)
(* The client and the destination owe nothing.                             *)
Fairness ==
  /\ WF_vars(Start) /\ WF_vars(StartRead) /\ WF_vars(Process)
  /\ WF_vars(OnClientSend) /\ WF_vars(DnsCallback) /\ WF_vars(OnDnsResolved)
  /\ WF_vars(\E t \in s.timers : TimerDue(t))
  /\ WF_vars(\E t \in s.timers : OnTimer(t))
  /\ WF_vars(Drain)

FairSpec == Spec /\ Fairness

-----------------------------------------------------------------------------
Timer == [kind : {"idle", "connect"}, gen : Nat, posted : BOOLEAN, seen : Nat]
Message == {"Method", "Auth", "Token", "Abort", "Succeeded", "Failure"}

(* Type invariant; in it, the bound on buffered protocol input.  ingest_   *)
(* never outgrows kMaxProtocolBuffered.                                    *)
TypeOK ==
  /\ s \in [state : States, closed : BOOLEAN, flushClose : BOOLEAN,
            ingest : 0..MaxBuffered, reading : BOOLEAN, unsent : Nat,
            sending : BOOLEAN, dest : BOOLEAN, connecting : BOOLEAN,
            dns : {"none", "asked", "found", "failed"},
            udp : {"none", "running", "stopped"}, udpStop : BOOLEAN,
            gss : BOOLEAN, timers : SUBSET Timer, idleGen : Nat,
            idleTimer : Nat, refused : BOOLEAN, connGen : Nat, connTimer : Nat,
            recvs : Nat, log : Seq(Message), authed : BOOLEAN]
  /\ handler \in {"accept", "start", "loop", "none", "crashed"}

(* A request gets at most one SOCKS reply, whatever the order in which the *)
(* connection, the connect timer, the resolver and the failures of posts   *)
(* come in (FailAndClose, OnDestConnect, OnTimer).                         *)
OneReply ==
  Cardinality({i \in DOMAIN s.log : s.log[i] \in {"Succeeded", "Failure"}}) <= 1

(* The success reply is true: while the session is open it is relaying     *)
(* over a connected socket or has a UDP relay; and no session is served    *)
(* that was not told so.                                                   *)
SuccessMeansService ==
  ~s.closed =>
    ((\E i \in DOMAIN s.log : s.log[i] = "Succeeded") <=>
       \/ s.state = "Relaying" /\ s.dest
       \/ s.state = "UdpAssociate" /\ s.udp # "none")

(* With credentials configured no request is served before the client has  *)
(* authenticated, whatever methods it offers and however it pipelines.     *)
Authenticated ==
  (HasCredentials /\ s.state \in {"Request", "Resolving", "Connecting",
                                  "Relaying", "UdpAssociate"}) => s.authed

(* No zombie: an open session that no handler is working on always has an  *)
(* operation outstanding whose completion moves it on: nothing polls       *)
(* sessions, so one without would hold its slot for ever.                  *)
NoZombie ==
  (~s.closed /\ handler = "none") =>
    IF s.flushClose THEN s.sending
    ELSE CASE s.state = "Resolving" -> s.dns # "none"
           [] s.state = "Connecting" -> s.connecting
           [] OTHER -> s.reading

(* A timer that can still fire is the one whose id the session holds, in a *)
(* state the timer is for: none outlives its purpose or the session, so    *)
(* none keeps a closed session pinned until it is due.                     *)
NoLeakedTimer ==
  \A t \in s.timers : ~t.posted =>
    /\ ~s.closed
    /\ IF t.kind = "idle" THEN t.gen = s.idleTimer /\ s.state \in Proto
       ELSE t.gen = s.connTimer /\ s.state = "Connecting"

(* The idle timeout closes only a session that received nothing since the  *)
(* timer was armed: a completion claimed before the client spoke again is  *)
(* recognised by its generation.                                           *)
IdleMeansIdle ==
  [][\A t \in s.timers :
       (t.kind = "idle" /\ t.posted /\ t \notin s'.timers /\ ~s.closed /\ s'.closed)
         => t.seen = s.recvs]_vars

(* A connection attempt ends although the destination never answers. *)
ConnectEnds == (s.state = "Connecting") ~> (s.state # "Connecting" \/ s.closed)

(* A client that falls silent leaves the protocol states: whatever was     *)
(* parsed, answered and cancelled, the idle timer runs while the session   *)
(* is in one.  The only excuses are that ScheduleTimeout refused the last  *)
(* timer, which ArmIdleTimer ignores, and the end of the process           *)
(* (NullRelay).                                                            *)
HandshakeEnds ==
  (s.state \in Proto) ~> \/ s.state \notin Proto \/ s.closed
                         \/ s.refused \/ handler = "crashed"
=============================================================================
