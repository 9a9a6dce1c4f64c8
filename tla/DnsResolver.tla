----------------------------- MODULE DnsResolver -----------------------------
(***************************************************************************)
(* The asynchronous resolver: requests for the same name share one query,  *)
(* which is asked over UDP with retries, then over TCP, first for an A     *)
(* and perhaps for an AAAA record, under one timer at a time.              *)
(*                                                                         *)
(* Completion handlers, results that come from a TcpDnsQuery, and the      *)
(* first part of Stop exclude each other (completionMutex_); ResolveAsync  *)
(* takes mutex_ only, and so runs between the two mutex_ sections of a     *)
(* handler: "handler" is what remains to be done in the second one.        *)
(*                                                                         *)
(* A name has at most one query at a time, so byDomain_ and the pending    *)
(* query are one function of the name; timers and TCP attempts know only   *)
(* a transaction id, which may have been given to another query meanwhile. *)
(***************************************************************************)
EXTENDS Naturals, Sequences, FiniteSets, FiniteSetsExt

CONSTANTS
  Names,          \* the names asked for
  Requests,       \* the calls of ResolveAsync
  Txids,          \* transaction ids
  Tcps,           \* bound: TcpDnsQuery objects alive at once
  MaxUdpAttempts, \* kMaxUdpAttempts
  MaxCallbacks,   \* kMaxCallbacksPerQuery
  MaxQueries,     \* kMaxPendingQueries
  MaxSends,       \* kMaxPendingSends
  MaxInFlight,    \* kMaxDnsSendsInFlight
  MaxPosted,      \* bound: timeouts in the port for one transaction id
  TryAAAA,        \* NetworkConfiguration::OutputIPv6Available
  Faults          \* whether posting and scheduling fail

None == "none"

ASSUME ResolverAssumption ==
  /\ IsFiniteSet(Names) /\ IsFiniteSet(Requests) /\ IsFiniteSet(Txids)
  /\ IsFiniteSet(Tcps)
  /\ MaxUdpAttempts \in Nat \ {0} /\ MaxCallbacks \in Nat \ {0}
  /\ MaxQueries \in Nat /\ MaxSends \in Nat /\ MaxInFlight \in Nat
  /\ MaxPosted \in Nat \ {0}
  /\ Cardinality(Txids) > MaxQueries
  /\ TryAAAA \in BOOLEAN /\ Faults \in BOOLEAN
  /\ None \notin Names \cup Txids \cup Tcps

VARIABLES
  life,      \* "running", the steps of Stop, "stopped", then "destroyed"
  query,     \* byDomain_: the pending query of a name
  byId,      \* byId_: the name whose query has a transaction id
  armed,     \* the transaction id in the timer of a query that is not due
  posted,    \* timeouts in the port, by transaction id
  tcp,       \* the TcpDnsQuery objects
  pins,      \* tcpPins in Stop
  handler,   \* the second half of the handler in completionMutex_
  recv,      \* the receive: "posted", "aborted" or "off"
  sock,      \* udpSocket_ is open
  sends,     \* the number of pendingSends_
  inFlight,  \* sendsInFlight_
  want,      \* the name a request has asked for
  calls      \* how often the callback of a request was called

mapVars == <<query, byId>>
timerVars == <<armed, posted>>
tcpVars == <<tcp, pins>>
udpVars == <<recv, sock, sends, inFlight>>
userVars == <<want, calls>>
vars == <<life, query, byId, armed, posted, tcp, pins, handler, recv, sock,
          sends, inFlight, want, calls>>

(* What a response says: an address (truncated or not), no record of the   *)
(* type, or nothing before it was truncated.  "invalid" is a failure that  *)
(* is not a response.                                                      *)
Answers == {"address", "empty", "truncated"}

NoQuery == [on |-> FALSE, txid |-> None, aaaa |-> FALSE, viaTcp |-> FALSE,
            attempts |-> 0, callbacks |-> {}, tcp |-> None]
Free == [phase |-> "free", txid |-> None, done |-> FALSE, res |-> "invalid"]
Idle == [what |-> "idle", name |-> None, recv |-> FALSE, todo |-> {}]

Pending == {n \in Names : query[n].on}
Unused(ids) == {t \in Txids : ids[t] = None}   \* AllocTxidLocked

-----------------------------------------------------------------------------
Init ==
  /\ life = "running" /\ sock = TRUE /\ recv = "posted"
  /\ query = [n \in Names |-> NoQuery] /\ byId = [t \in Txids |-> None]
  /\ armed = [n \in Names |-> None] /\ posted = [t \in Txids |-> 0]
  /\ tcp = [k \in Tcps |-> Free] /\ pins = {}
  /\ handler = Idle
  /\ sends = 0 /\ inFlight = 0
  /\ want = [r \in Requests |-> None] /\ calls = [r \in Requests |-> 0]

Called(rs) == calls' = [r \in Requests |-> IF r \in rs THEN calls[r] + 1 ELSE calls[r]]

(* PumpSendLocked with q sends queued and f in flight: as many as the      *)
(* limit allows are posted, or fewer when posting fails.                   *)
PumpSendLocked(q, f) ==
  LET room == IF ~sock THEN 0 ELSE Min({q, MaxInFlight - f})
  IN \E k \in 0..room :
       /\ k = room \/ Faults
       /\ sends' = q - k /\ inFlight' = f + k

EnqueueUdpSendLocked ==
  IF ~sock \/ sends >= MaxSends THEN UNCHANGED <<sends, inFlight>>
  ELSE PumpSendLocked(sends + 1, inFlight)

(* BeginUdpQueryLocked for the query p of n, with byId_ given by ids: the  *)
(* timer is armed and the question queued; or, when the name cannot be     *)
(* encoded or the timer not be scheduled, every callback is called.        *)
AttemptNotCounted(p) == p.attempts
Counted(p) == p.attempts + 1

BeginUdpQueryLocked(n, p, ids, ok) ==
  IF ok
  THEN /\ query' = [query EXCEPT ![n] = [p EXCEPT !.attempts = Counted(p), !.viaTcp = FALSE]]
       /\ byId' = [ids EXCEPT ![p.txid] = n]
       /\ armed' = [armed EXCEPT ![n] = p.txid]
       /\ EnqueueUdpSendLocked
       /\ UNCHANGED calls
  ELSE /\ query' = [query EXCEPT ![n] = NoQuery]
       /\ byId' = ids
       /\ armed' = [armed EXCEPT ![n] = None]
       /\ Called(p.callbacks)
       /\ UNCHANGED <<sends, inFlight>>

-----------------------------------------------------------------------------
(* ResolveAsync: answered at once by the cache (whose contents are not     *)
(* kept here: a call may find an entry or not), when the resolver stops,   *)
(* or when a limit is reached; otherwise the request joins the query for   *)
(* its name or begins one.                                                 *)
Refused(n) ==
  \/ life # "running"
  \/ query[n].on /\ Cardinality(query[n].callbacks) >= MaxCallbacks
  \/ ~query[n].on /\ Cardinality(Pending) >= MaxQueries

AnswerNow(r) ==
  Called({r}) /\ UNCHANGED <<mapVars, armed, sends, inFlight>>

JoinReplaces(r, n) ==
  /\ ~Refused(n) /\ query[n].on
  /\ query' = [query EXCEPT ![n].callbacks = {r}]
  /\ UNCHANGED <<byId, armed, sends, inFlight, calls>>

Join(r, n) ==
  /\ ~Refused(n) /\ query[n].on
  /\ query' = [query EXCEPT ![n].callbacks = @ \cup {r}]
  /\ UNCHANGED <<byId, armed, sends, inFlight, calls>>

Ask(r, n) ==
  /\ ~Refused(n) /\ ~query[n].on
  /\ \E t \in Unused(byId), ok \in BOOLEAN :
       BeginUdpQueryLocked(n, [NoQuery EXCEPT !.on = TRUE, !.txid = t,
                                              !.callbacks = {r}], byId, ok)

ResolveAsync(r, n) ==
  /\ want[r] = None /\ life # "destroyed" /\ handler.what # "crashed"
  /\ want' = [want EXCEPT ![r] = n]
  /\ AnswerNow(r) \/ Join(r, n) \/ Ask(r, n)
  /\ UNCHANGED <<life, posted, tcpVars, handler, recv, sock>>

-----------------------------------------------------------------------------
(* OnQueryResult, up to the end of its first mutex_ section.  It cancels   *)
(* the timer and leaves in handler what is to be done next, if anything.   *)
Late(n, fromTcp, timeout) == ~fromTcp /\ ~timeout /\ query[n].viaTcp

MayRetry(p) == p.attempts < MaxUdpAttempts

Verdict(p, res, fromTcp, timeout) ==
  IF timeout /\ ~p.viaTcp THEN IF MayRetry(p) THEN "retry" ELSE "tcp"
  ELSE IF ~fromTcp /\ res = "truncated" THEN "tcp"
  ELSE IF res = "empty" /\ TryAAAA /\ ~p.aaaa THEN "aaaa"
  ELSE "finish"

OnQueryResult(t, res, fromTcp, timeout, received) ==
  LET n == byId[t] IN
  IF n = None \/ Late(n, fromTcp, timeout)
  THEN /\ handler' = IF received THEN [Idle EXCEPT !.what = "repost"] ELSE Idle
       /\ UNCHANGED armed
  ELSE /\ armed' = [armed EXCEPT ![n] = None]
       /\ handler' = [Idle EXCEPT !.what = Verdict(query[n], res, fromTcp, timeout),
                                  !.name = n, !.recv = received]

(* The second half ends, with the receive to be posted again if that is    *)
(* where the result came from.                                             *)
HandlerEnds ==
  handler' = IF handler.recv THEN [Idle EXCEPT !.what = "repost"] ELSE Idle

(* RetryUdpQueryLocked, and the same for the AAAA question. *)
OldIdKept(p) == byId
WithoutOldId(p) == [byId EXCEPT ![p.txid] = None]

AskAgain ==
  /\ handler.what \in {"retry", "aaaa"}
  /\ LET n == handler.name
         p == query[n]
     IN \E t \in Unused(WithoutOldId(p)), ok \in BOOLEAN :
          /\ ok \/ Faults
          /\ BeginUdpQueryLocked(n,
               IF handler.what = "retry" THEN [p EXCEPT !.txid = t, !.tcp = None]
               ELSE [p EXCEPT !.txid = t, !.tcp = None, !.aaaa = TRUE, !.attempts = 0],
               WithoutOldId(p), ok)
  /\ HandlerEnds
  /\ UNCHANGED <<life, posted, tcpVars, recv, sock, want>>

(* FinishQuery: the query leaves both maps and its callbacks are called.   *)
(* Its TcpDnsQuery, if there is one, is let go of and not cancelled.       *)
FinishQuery(n) ==
  /\ query' = [query EXCEPT ![n] = NoQuery]
  /\ byId' = WithoutOldId(query[n])
  /\ armed' = [armed EXCEPT ![n] = None]
  /\ Called(query[n].callbacks)

Finish ==
  /\ handler.what = "finish"
  /\ FinishQuery(handler.name)
  /\ HandlerEnds
  /\ UNCHANGED <<life, posted, tcpVars, udpVars, want>>

(* StartTcpFallback, with a new timer for the same transaction id.         *)
NoTimerForTcp(n) == armed[n]
ArmedForTcp(n) == query[n].txid

FreeTcp == LET free == {j \in Tcps : tcp[j].phase = "free"}
           IN IF free = {} THEN {} ELSE {CHOOSE j \in free : TRUE}

StartTcpFallback(n) ==
  \/ \E k \in FreeTcp :
       /\ tcp' = [tcp EXCEPT ![k] = [Free EXCEPT !.phase = "posted", !.txid = query[n].txid]]
       /\ query' = [query EXCEPT ![n].viaTcp = TRUE, ![n].tcp = k]
       /\ armed' = [armed EXCEPT ![n] = ArmedForTcp(n)]
       /\ UNCHANGED <<byId, calls>>
  \/ FinishQuery(n) /\ UNCHANGED tcp     \* no timer, or no socket

Fallback ==
  /\ handler.what = "tcp"
  /\ StartTcpFallback(handler.name)
  /\ HandlerEnds
  /\ UNCHANGED <<life, posted, pins, udpVars, want>>

(* The end of a receive: it is posted again; or the socket is given up and *)
(* all queries that wait for UDP go over to TCP, one after the other.      *)
Repost ==
  /\ handler.what = "repost"
  /\ \/ /\ recv' = "posted" /\ handler' = Idle
        /\ UNCHANGED <<sock, sends>>
     \/ /\ Faults
        /\ recv' = "off" /\ sock' = FALSE /\ sends' = 0
        /\ handler' = [Idle EXCEPT !.what = "fallback",
                                   !.todo = {n \in Pending : ~query[n].viaTcp}]
  /\ UNCHANGED <<life, mapVars, timerVars, tcpVars, inFlight, userVars>>

FallbackAll ==
  /\ handler.what = "fallback"
  /\ IF handler.todo = {}
     THEN handler' = Idle /\ UNCHANGED <<mapVars, armed, tcp, calls>>
     ELSE \E n \in handler.todo :
            /\ StartTcpFallback(n)
            /\ handler' = [handler EXCEPT !.todo = @ \ {n}]
  /\ UNCHANGED <<life, posted, pins, udpVars, want>>

Handler == AskAgain \/ Finish \/ Fallback \/ Repost \/ FallbackAll

-----------------------------------------------------------------------------
(* OnIoCompleted: a datagram arrives, which answers a question with some   *)
(* transaction id, of now or of long ago; or is not a response.            *)
OnRecvFrom ==
  /\ handler = Idle /\ recv = "posted"
  /\ recv' = "off"
  /\ \/ \E t \in Txids, res \in Answers : OnQueryResult(t, res, FALSE, FALSE, TRUE)
     \/ handler' = [Idle EXCEPT !.what = "repost"] /\ UNCHANGED armed
  /\ UNCHANGED <<life, mapVars, posted, tcpVars, sock, sends, inFlight,
                 userVars>>

(* ... the aborted receive, after Stop ... *)
OnRecvAborted ==
  /\ handler = Idle /\ recv = "aborted"
  /\ recv' = "off"
  /\ UNCHANGED <<life, mapVars, timerVars, tcpVars, handler, sock, sends,
                 inFlight, userVars>>

(* ... a send completes ... *)
OnUdpSendCompleted ==
  /\ handler = Idle /\ inFlight > 0
  /\ IF life = "running" THEN PumpSendLocked(sends, inFlight - 1)
     ELSE inFlight' = inFlight - 1 /\ UNCHANGED <<sends>>
  /\ UNCHANGED <<life, mapVars, timerVars, tcpVars, handler, recv, sock, userVars>>

(* ... or a timeout, known by its transaction id only. *)
TimerDue(n) ==
  /\ armed[n] # None /\ posted[armed[n]] < MaxPosted
  /\ armed' = [armed EXCEPT ![n] = None]
  /\ posted' = [posted EXCEPT ![armed[n]] = @ + 1]
  /\ UNCHANGED <<life, mapVars, tcpVars, handler, udpVars, userVars>>

OnTimeout(t) ==
  /\ handler = Idle /\ posted[t] > 0
  /\ posted' = [posted EXCEPT ![t] = @ - 1]
  /\ OnQueryResult(t, "invalid", FALSE, TRUE, FALSE)
  /\ UNCHANGED <<life, mapVars, tcpVars, udpVars, userVars>>

-----------------------------------------------------------------------------
(* TcpDnsQuery::OnIoCompleted, in its own locks.  One operation of an      *)
(* attempt is in the port at a time; as long as connecting, sending and    *)
(* receiving go well the next one is posted, which changes nothing here.   *)
(* CompleteBody and Fail end the attempt, with a response or without, and  *)
(* take the result to the resolver; after Cancel nothing is done.          *)
OnTcpCompleted(k) ==
  /\ tcp[k].phase = "posted"
  /\ \/ tcp[k].done /\ tcp' = [tcp EXCEPT ![k] = Free]
     \/ ~tcp[k].done /\ \E res \in Answers \cup {"invalid"} :
          tcp' = [tcp EXCEPT ![k].phase = "deliver", ![k].done = TRUE, ![k].res = res]
  /\ UNCHANGED <<life, mapVars, timerVars, pins, handler, udpVars, userVars>>

(* parent_.OnQueryResult: it needs the resolver's completionMutex_, and    *)
(* the resolver.                                                           *)
DeliverTcp(k) ==
  /\ handler = Idle /\ tcp[k].phase = "deliver"
  /\ IF life = "destroyed"
     THEN handler' = [Idle EXCEPT !.what = "crashed"] /\ UNCHANGED <<armed, tcp>>
     ELSE /\ OnQueryResult(tcp[k].txid, tcp[k].res, TRUE, FALSE, FALSE)
          /\ tcp' = [tcp EXCEPT ![k] = Free]
  /\ UNCHANGED <<life, mapVars, posted, pins, udpVars, userVars>>

-----------------------------------------------------------------------------
(* Stop: every callback is called, the socket closed; then the TCP         *)
(* attempts of the pending queries are cancelled, and what is still in the *)
(* port is waited for.                                                     *)
StopBegins ==
  /\ life = "running" /\ handler = Idle
  /\ life' = "stopping"
  /\ armed' = [n \in Names |-> None]
  /\ Called(UNION {query[n].callbacks : n \in Pending})
  /\ pins' = {query[n].tcp : n \in Pending} \ {None}
  /\ query' = [n \in Names |-> NoQuery] /\ byId' = [t \in Txids |-> None]
  /\ sends' = 0 /\ sock' = FALSE
  /\ recv' = IF recv = "posted" THEN "aborted" ELSE recv
  /\ UNCHANGED <<posted, tcp, handler, inFlight, want>>

CancelKeepsSocket(k) ==
  /\ life = "stopping" /\ k \in pins
  /\ UNCHANGED vars

StopCancels(k) ==
  /\ life = "stopping" /\ k \in pins
  /\ tcp[k].phase = "posted" /\ ~tcp[k].done
  /\ tcp' = [tcp EXCEPT ![k].done = TRUE]
  /\ UNCHANGED <<life, mapVars, timerVars, pins, handler, udpVars, userVars>>

PendingZero ==
  /\ recv = "off" /\ inFlight = 0
  /\ \A t \in Txids : posted[t] = 0

StopWaits ==
  /\ life = "stopping" /\ handler = Idle /\ PendingZero
  /\ \A k \in pins : tcp[k].phase = "free"
  /\ life' = "stopped"
  /\ UNCHANGED <<mapVars, timerVars, tcpVars, handler, udpVars, userVars>>

(* ProxyServer::Stop lets go of the resolver. *)
Destroy ==
  /\ life = "stopped"
  /\ life' = "destroyed"
  /\ UNCHANGED <<mapVars, timerVars, tcpVars, handler, udpVars, userVars>>

Stop == StopWaits \/ Destroy \/ \E k \in Tcps : StopCancels(k)

Ended ==
  /\ handler.what = "crashed" \/ (life = "destroyed" /\ tcp = [k \in Tcps |-> Free])
  /\ UNCHANGED vars

Next ==
  \/ \E r \in Requests, n \in Names : ResolveAsync(r, n)
  \/ Handler \/ OnRecvFrom \/ OnRecvAborted \/ OnUdpSendCompleted
  \/ \E n \in Names : TimerDue(n)
  \/ \E t \in Txids : OnTimeout(t)
  \/ \E k \in Tcps : OnTcpCompleted(k) \/ DeliverTcp(k)
  \/ StopBegins \/ Stop \/ Ended

Spec == Init /\ [][Next]_vars

(* Threads that hold a lock let go of it and one that waits for it gets it *)
(* in the end; an expired timer is posted; what is in the port is taken    *)
(* out; the operation of a socket that was closed completes.  Nothing is   *)
(* assumed of the DNS server, of the network or of the callers.            *)
ClosedTcpCompletes(k) == tcp[k].done /\ OnTcpCompleted(k)

Fairness ==
  /\ WF_vars(Handler) /\ WF_vars(StopWaits)
  /\ SF_vars(OnRecvAborted) /\ SF_vars(OnUdpSendCompleted)
  /\ \A n \in Names : WF_vars(TimerDue(n))
  /\ \A t \in Txids : SF_vars(OnTimeout(t))
  /\ \A k \in Tcps : /\ SF_vars(DeliverTcp(k)) /\ WF_vars(StopCancels(k))
                      /\ WF_vars(ClosedTcpCompletes(k))

FairSpec == Spec /\ Fairness

-----------------------------------------------------------------------------
(* The callback of a request is never called twice, and as long as it was  *)
(* not called it is kept by the pending query for its name: none is lost   *)
(* when queries are joined, retried, handed to TCP, finished or stopped.   *)
CalledOnce ==
  \A r \in Requests :
    /\ calls[r] <= 1
    /\ want[r] # None =>
         (calls[r] = 0 <=> \E n \in Pending : n = want[r] /\ r \in query[n].callbacks)

(* byId_ and byDomain_ hold the same queries: an id leads to the query     *)
(* that carries it, and every pending query is found by its current id.    *)
IndexesAgree ==
  \A n \in Names, t \in Txids : byId[t] = n <=> query[n].on /\ query[n].txid = t

(* Every pending query that no handler has in hand will be woken: its      *)
(* timer runs, or a timeout with its id is in the port.  So a dropped or   *)
(* unposted question, a closed UDP socket or a silent server delay it and  *)
(* no more; and that happens kMaxUdpAttempts times for a record type.      *)
QueryTimed ==
  \A n \in Pending :
    /\ \/ handler.name = n
       \/ armed[n] = query[n].txid
       \/ posted[query[n].txid] > 0
    /\ query[n].attempts <= MaxUdpAttempts

(* The resolver keeps the promise of ResolveOnce, liveness included,       *)
(* whatever the server, the network and the shutdown do: shared queries,   *)
(* retries, fallbacks and timers do not show.                              *)
Phase(r) ==
  CASE want[r] = None -> "idle"
    [] want[r] # None /\ calls[r] = 0 -> "asked"
    [] want[r] # None /\ calls[r] = 1 -> "answered"
    [] want[r] # None /\ calls[r] > 1 -> "called again"

Promise == INSTANCE ResolveOnce WITH phase <- [r \in Requests |-> Phase(r)]

ResolvesOnce == Promise!Spec

(* Stop, which waits without a limit for its own operations and those of   *)
(* the TCP attempts it cancelled, returns.                                 *)
StopEnds == life = "stopping" ~> life = "stopped"

(* The resolver outlives the TCP attempts that will report to it:          *)
(* "orderly teardown of active work on shutdown" (README.md).              *)
ParentOutlives ==
  life = "destroyed" => \A k \in Tcps : tcp[k].phase # "deliver"
=============================================================================
