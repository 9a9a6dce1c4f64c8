# A TLA+ verification of Socks5Proxy

Socks5Proxy is a SOCKS5 server for Windows. It is written around one I/O
completion port: a pool of worker threads takes completions out of the port and
calls the object each belongs to; everything else in the program is state that
these callbacks change. Tests exercise single callbacks. What they hardly reach is
the order in which completions of several objects, timers, cancellations and the
shutdown meet, and that is what this project is about.

Contents: [inventory](#inventory), [plan](#plan), [modules](#modules-and-the-code),
[runs](#runs), [fairness](#fairness), [findings](#findings), [proofs](#proofs),
[what is only model-checked, and what is not modelled](#limits).

## Inventory

| Component (source) | State | Operations | Interacts with |
|---|---|---|---|
| Completion port service (`network/Iocp.cpp`) | `running_`, `stopping_`, the port, `outstandingIo_`, `iocpUsers_`, `timers_`, `pendingSockets_`, per handle `pending_` and `completionMutex_` | `Start`, `Stop`, `Post*`, `PostUser`, `ScheduleTimeout`, `CancelTimeout`, `WorkerLoop`, `AdvanceTimers` | calls `OnIoCompleted` of every other object, inside that object's `completionMutex_` |
| Acceptor (`network/TcpAcceptor.cpp`) | listening socket, 16 `AcceptIo` contexts, `stopping_` | `Start`, `Stop`, `PostAccept`, `HandleAccept` | hands sockets to `ProxyServer::OnAccept` |
| Server (`server/ProxyServer.cpp`) | `connectionSlots_`, `sessions_`, `stopping_` | `Start`, `OnAccept`, `RetainSession`, `OnSessionClosed`, `Stop` | owns sessions, resolver, acceptor, port |
| Session control (`server/protocol/Socks5Session.cpp`) | `state_`, `closed_`, `closeAfterFlush_`, `ingest_`, reads and sends outstanding, generations and ids of two timers | protocol parsing, authentication, `ConnectToHost`, `OnDnsResolved`, `OnDestConnect`, `OnTimer`, `FailAndClose`, `RequestCloseAfterFlush`, `Close` | port, resolver, relays, server |
| TCP relay (same file) | per stream: `reading`, `relayReadPaused`, `peerClosed`, `sendQueue`, `sendFrontOffset`, `sending` | `StartRelay`, `OnRelayData`, send completions, `PumpSend`, `TryPostRelayRead`, `MaybeResumeRelayRead` | port, GSSAPI context |
| UDP relay (`server/protocol/UdpRelay.cpp`) | a socket, client endpoint, `activeDestinations_`, `fragAssemblies_`, `pendingByDomain_`, `dnsInFlight_`, send queue, `lastActivity_` | `Start`, `Stop`, datagrams in both directions, `ProcessFragment`, `OnDnsNotify`, `CleanupState` | session, resolver, port |
| DNS resolver (`dns/DnsResolver.cpp`) | `byId_`, `byDomain_`, a timer per query, send queue, `TcpDnsQuery` objects | `Start`, `Stop`, `ResolveAsync`, `OnQueryResult`, retries, TCP fallback | port; callbacks of sessions and UDP relays |
| DNS messages, cache (`dns/DnsClient.cpp`) | the cache | build, parse, `Cache`, `TryGetCached` | resolver |
| GSSAPI context (`server/protocol/GssapiContext.cpp`) | SSPI handles | accept a token, wrap, unwrap | session |
| Network monitoring, main loop (`helper/NetworkMonitoring.cpp`, `Socks5Proxy.cpp`) | a thread, `g_stop`, `restartRequested_`, `currentNetworkCheck_` | check the interfaces, count down, restart, shut down | server, other processes |
| Single instance, relaunch (`utils/Application.cpp`) | a named mutex of the system | acquire, release, launch a process | main, other processes |
| Configuration, logging, friendly names, firewall, network helpers | none the protocol depends on | read a file, print, call the platform | all |

What is hard in this code:

- *Completions after the fact.* An object is closed while its operations are still
  in the port; each late completion finds a closed session, a stopped acceptor, a
  timer that was re-armed, a transaction id given to another query.
- *Handlers that close half-way.* Posting fails inside `PumpSend`, which closes the
  session under the handler that called it, which carries on.
- *Lost wake-ups.* Nothing polls. A paused read, a queue without a send in flight,
  a query without a timer, a worker that goes to sleep too late: each is for ever.
- *Accounting.* `Stop` waits, without a limit, for counters to reach zero, on
  threads that the counted operations may themselves need.
- *Limits.* Slots, queue depths, buffered input, attempts, pending queries and names.
- *Processes.* The program restarts itself, while a guard refuses second copies and the
  user may stop or kill any of them.

What makes each component correct: the relay keeps both byte streams intact, never
stalls and stays bounded; a session answers once, truthfully, only to authenticated
clients, and always ends; the port fires timers once, counts exactly and stops; the
server loses no slot, forgets no session and answers whom it accepted; the resolver
calls every callback once, and in the end; the UDP relay keeps order and limits, mixes no
datagrams and waits for no lookup that nobody makes; the program runs once, and a
shutdown is final. `PROJECT.json` lists the hazards one by one,
with their lines and the properties that would catch them going wrong.

## Plan

In order of importance; all are done.

1. `TcpRelay` with its proofs: the data plane.
2. `Socks5Session`: the control plane of one session.
3. `IocpService`: the machine under all the others.
4. `ProxyServer`: acceptor, slots, sessions, one relay receive, worker pool and Stop
   composed, because their deadlocks are between them.
5. `DnsResolver`: shared queries, retries, TCP fallback, Stop.
6. `UdpRelay`: source filter, fragments, send queue, names being resolved, idle timeout.
7. Abstract specifications with refinement mappings: `Duplex` for the TCP relay,
   `ResolveOnce` for the resolver.
8. `Application`: main, monitoring thread, guard and restart.
9. Proofs, a module of them for every component: each invariant the runs check, the
   action properties, and both refinements as far as they are safety.

## Modules and the code

A completion handler runs inside the `completionMutex_` of its object (`WorkerLoop`),
and so does `Close`. Therefore a handler is one action wherever all the state it
touches is protected by that mutex; where other threads can get in between, the
handler is split at exactly those points. `PROJECT.json` maps every definition to its
lines. Definitions that come right before the one they resemble, such as
`QueueFullLate` before `QueueFull`, are plausible faults of that code; no
specification uses them, they are there to test the properties.

**TcpRelay** is a session between `StartRelay` and its end. Two streams, `client` and
`dest`, each with the fields of `StreamIo`. Entries of a queue are numbered; each is
`PieceLen` bytes long, so that a position in the byte stream is `<<entry, bytes of
it>>`: `wire` is where the peer's stream ends, `pin` where the bytes handed to the
last `WSASend` begin. Actions: `StartRelay` (with the input pipelined behind the
request), `OnRelayData` for a receive, which under GSSAPI becomes no, one or several
entries, `OnRecvEnd` (half-close), `OnSend` with any partial count, errors, `Stop`,
and the draining of operations after `Close`. The receive buffer, encryption itself
and socket options are left out.

**Duplex** is what a session's client may expect of the relay: two streams of bytes,
transmitted in order, each byte once, that end together; and the one liberty the code
takes, a session that closes because a half-close cut off what was still queued. The
refinement mapping counts bytes (`Position` of a queue entry and an offset). `Duplex`
forbids what the separate invariants do not speak of, such as taking data from a peer
that has ended, or staying open with both ended.

**Socks5Session** keeps the session in one record `s`; the private methods are
functions from record to record, so that a handler which continues after a `Close`
inside it is written as in the code. The parse loop of `OnClientRecv` takes one step
per message with the mutex held (`handler`). Input is a number of buffered messages,
and what a message says is chosen when it is parsed: the client may send anything.
Timers carry their generation, and whether their completion is already in the port.
`crashed` is the one path on which the code dereferences a null relay (see Findings).
The history field `refused` remembers that the port refused the last idle timer; no
method reads it.
`RelayEnds` stands for everything `TcpRelay` does, `UdpRelayStops` for what `UdpRelay`
does, `DnsCallback` for the promise of `ResolveOnce`.

**IocpService** has the worker loop step by step (claiming due timers, posting them,
computing the wait, leasing the handle, waiting, dispatching), `PostSocketOp` and
`PostUser`, timers through `publishing`, `pending`, `claimed`, `queued` to their
callback, cancellation with its later wake-up, and `Stop` through its phases. With
`Faults`, every post may fail, wake-ups included: `WakeWorkers` and `CancelTimeout` ignore
the result of `PostQueuedCompletionStatus`, so `Stop` may post fewer wake-ups than there
are workers. The history variable `missed` counts those that the last round lost, and
`JoinHangs` is the stuttering step of a `Stop` that waits at the join for a worker which
nothing wakes. Merged:
erasing a cancelled timer and releasing its unit in `CancelTimeout`; the lease and the
posting in `PostClaimed`.

**ProxyServer** composes the acceptor, the pool of workers, sessions, slots and
`ProxyServer::Stop` on the main thread. A completion occupies a worker until its
handler is done, including the time the handler waits for a mutex or for the UDP relay
in `Close`: that is what makes pool exhaustion visible. `Throws` says where an exception
may leave `OnAccept`'s body.

**DnsResolver** has, per name, the pending query, and per transaction id the name
(`byDomain_`, `byId_`), the timer of each query, timeouts already in the port, TCP
attempts, the send queue, and Stop up to the destruction of the object. Handlers
have two critical sections in `mutex_`, and `ResolveAsync` takes only `mutex_`, so a
handler is two steps: the first finds the query and decides (`OnQueryResult`), the
second retries, asks for AAAA, falls back to TCP, or finishes. The sections of
`StartTcpFallback` are merged, since a request that joins in between changes only the
list of callbacks. The operations inside a TCP attempt are one state, because only its
end matters; the cache may hit or miss at any call; a datagram may carry any id,
which includes late answers to questions of another query.

**ResolveOnce** is the contract of `ResolveAsync`: a callback is called once, perhaps
before the call returns, and in the end. Requests are `idle`, `asked` or `answered`; the
mapping reads that off the number of calls. Its liveness is stated as a leads-to, not as
fairness of `Answer`, because TLC cannot evaluate `ENABLED` under the mapping.
`Socks5Session` and `UdpRelay` assume of the resolver what `ResolveOnce` says, no more.

**UdpRelay** is one UDP ASSOCIATE relay. Datagrams are numbered as they arrive, so that
order and mixing can be told; a destination is a server or a name (a name is always used
with one port). Handlers exclude each other (`completionMutex_`), the resolver's callback
does not: it is two actions (`DnsAnswered` up to `PostUser`, `DnsPosts` from there), which
may come between the two halves of a receive (`OnDatagram`, `AfterReceive`) or after Stop.
The private methods that touch the send queue are functions of its state, with any number
of posts that succeed; the history variable `failed` says that the latest completion or
accepted datagram tried the front of the queue in vain. `OnDnsNotify` takes what waited for a name into `batch`, and its loop
sends one datagram per step (`ForwardNext`, then `BatchEnds`), as it takes `stateMutex_` for
each. Of a payload only whether it is empty is kept once it is to be sent; of a fragment its
size, and `AddUp` says that the sizes add up to an assembly's `total` by running sums. The clock is the answers to its comparisons: `idle`, `due`, `oldDest`, `oldAsm`.
`Activate` forgets any destination when there are too many: the code takes the first of an
unordered map.

**Application** has several processes, each with main, the monitoring thread and the
console handler, and the named mutex as the set of processes with a handle to it.
`server.Start` is two states, `starting` and `serving`; how the server stops is
`ProxyServer`. A countdown is its looks at `g_stop`. A process that an exception or a bad
configuration ends (`thrown`, `failed`) may first pause on its console until the user
presses Enter (`PauseOnError`, `EnterPressed`). A process may be killed anywhere.
The history variables `final` and `bad` remember whether Ctrl+C came before anything asked
for a restart, and how many rounds in a row failed.

The `MC` modules add symmetry sets for runs that check invariants only.

## Runs

| Run | Shows |
|---|---|
| `relay` | With GSSAPI bursts, partial sends, failing posts and operations, half-closes and Stop: `StreamIntact`, `NoStall`, `ReadNeverLost`, `QueueBound`, `QuietAfterClose`; the relay implements `Duplex` (`IsDuplex`); what is queued is `Delivered` unless the session closes |
| `session` | `OneReply`, `SuccessMeansService`, `Authenticated`, `NoZombie`, `NoLeakedTimer`, `IdleMeansIdle`, `ConnectEnds`, `HandshakeEnds` against arbitrary input, timers, resolver, connection, failures and Stop |
| `iocp` | `Accounting`, `StopIsComplete`, `TimerFiresOnce`, `NoTimerSleptThrough`; and `StopReturns` across a restart: `Stop` returns, or waits for no more workers than its last round lost wake-ups |
| `server` | `SlotsExact`, `NoSessionEscapes`, `Answered`, and `StopReturns` with fewer sessions than workers |
| `dns_safety` | `CalledOnce`, `IndexesAgree`, `QueryTimed` |
| `dns_promise` | The resolver implements `ResolveOnce` (`ResolvesOnce`); `StopEnds` |
| `udp_safety` | Limits (`TypeOK`), `SendQueueSound`, `LookupUnderWay`, `AssemblySound` |
| `application` | `OneCopy`, `ThreadJoined`, `GlitchTolerated`, `ShutdownFinal`; and `ShutdownEnds`: a process told to stop is gone in the end, or paused after an error without the mutex |
| `server_pool` | Refutes `StopReturns` with as many UDP sessions as workers |
| `dns_orphan` | Refutes `ParentOutlives` |
| `udp_idle` | Refutes `IdleEnds` |
| `udp_names` | Refutes `LimitMeansPending` |

Bounds, and why they are enough to be interesting:

- Relay: depth 3, entries of 3 bytes (so that a send can be partial twice), 5 entries per
  stream, up to 2 queued at the start, bursts of 2. A queue fills, overshoots its
  depth, pauses the opposite read, drains and resumes within these; the proofs
  remove the bounds.
- Session: 4 receives and 2 buffered messages. The longest dialogue (methods,
  GSSAPI token, protection, request) takes 4, and overlong input fits in.
- Port: two workers, since claims, cancellations and sleeps of two workers are where the
  races are; a timer, one socket and one user operation, each posted once, with failures,
  and a second `Start`.
- Server: two clients for one slot and two accept contexts, two workers. In `server_pool`
  two sessions exhaust the two workers.
- Resolver: two requests, two names, three ids that are reused, two attempts, three TCP
  attempts, a send queue of one with one send in flight, one timeout in the port per
  id. Queries join, run side by side, and meet late results under reused ids.
  `dns_promise` has one name, two requests that may share a query, and one TCP attempt.
  `MaxPosted` and `Tcps` are bounds of the model: a timer waits while its id is in the
  port, and a fallback without a free slot fails, as it does in the code without a socket.
- UDP relay: four datagrams, two names with a limit of one, one destination and one
  client, up to two per name, two in the send queue with one in flight, two fragments of
  0 or 2 bytes and a limit of 3: every table reaches its limit, a fragment is replaced, a
  datagram is empty, an assembly becomes too large. With one server the limit on
  destinations cannot be exceeded in the run; `LimitsHold` proves it for any number.
- Application: two processes, so that one can restart the other or refuse it; three
  failures to a restart, as in the code; a countdown of two.

Deadlock is checked in all runs but `server_pool`, which is about one; `Ended` is the
only step of a finished system, and `JoinHangs` that of a `Stop` whose last wake-up was
lost, which is a deadlock of the code and told under Findings.

## Fairness

- A thread that can go on does (`WF` on workers, handlers, the steps of Stop, main and the
  monitoring thread).
- A completion in the port, and a thread waiting for a mutex, is served in the end:
  `SF` in `ProxyServer`, `DnsResolver` and `UdpRelay`, where other completions can take the
  worker or the mutex first. The port is first-in first-out, and mutexes are assumed not
  to starve a waiter for ever.
- A timer that is due fires (the workers wake for it; `NoTimerSleptThrough`).
- The kernel completes what `CancelIoEx` or `closesocket` aborted.
- In `relay` sends complete: that is, peers keep reading. In `session` the short replies
  fit the kernel's buffer, and the resolver answers, as `ResolvesOnce` shows.
- Nothing is assumed of clients, destinations, the DNS server, the moment of Stop, the
  user (who may never press Enter), or callers of the port. `udp_idle` in particular does not assume that datagrams
  arrive; everything the relay itself has to do is fair there.

## Findings

1. `server_pool`. `Socks5Session::Close` waits for its UDP relay's completions
   (`Socks5Session.cpp:168`) on a worker of the pool that has to deliver them. If all
   workers close UDP sessions at the same time, none is left: they wait for ever, and
   so does `ProxyServer::Stop`.
2. `dns_orphan`. When a TCP attempt times out, `FinishQuery` drops it without `Cancel`
   (`DnsResolver.cpp:717`). Its operation stays in the port; `DnsResolver::Stop` neither
   cancels nor awaits it, `ProxyServer::Stop` destroys the resolver, and the operation,
   aborted by `iocp_.Stop()`, then calls `parent_.OnQueryResult` on it.

3. `udp_idle`. `UdpIdleTimeout` is compared only when a receive completes
   (`UdpRelay.cpp:209`), and a datagram has renewed `lastActivity_` just before. No timer
   is armed, so a relay nobody writes to is not ended, and holds its socket and its
   session's slot until the TCP connection ends. The comparison can only succeed after a
   receive that failed or was empty.
4. `udp_names`. `OnDnsNotify` empties the queue of a resolved name and leaves its entry in
   `pendingByDomain_` (`UdpRelay.cpp:580`). The entries count towards `kMaxPendingDomains`:
   after that many names a relay drops datagrams to every other name, although nothing is
   pending.

Met on the way, without a run of their own:

- An exception out of `Socks5Session::Start` makes `OnAccept` release a slot that the
  retained session releases again (`ProxyServer.cpp:120`; `SlotsExact` fails with `"start"`
  in `Throws`, so the run has only `"retain"` there).
- A UDP reply that cannot be posted leaves a null `udpRelay_` to the next statement
  (`Socks5Session.cpp:1000`, the state `crashed`).
- `WakeWorkers` ignores a post that fails (`Iocp.cpp:418`). Losing wake-ups of the first
  round is harmless, as the workers are woken again; a wake-up lost in the second leaves a
  worker in an infinite wait and `Stop` at its join. `StopReturns` says that this is the only
  way for it to hang: it fails if the excuse is taken out. `Start` cleans up a failure with
  the same call (`Iocp.cpp:188`).
- `ArmIdleTimer` ignores a timer that was refused: such a session has no time limit.
  `HandshakeEnds` excuses it by the history `refused`, and no other session without a timer.
- The comment at `Socks5Session.cpp:408` describes a `StartRelay` that clears `ingest_`,
  whereas it forwards it.
- `PostSendTo` refuses an empty datagram (`Iocp.cpp:568`), and `PumpSendLocked` puts it
  back to the front of the queue (`UdpRelay.cpp:295`): nothing behind it is sent any more.
  The model has empty datagrams; `SendQueueSound` counts them as a front that fails.
- A datagram whose post fails is "waiting for retry" (`UdpRelay.cpp:296`), but only a
  completion or the next accepted datagram retries. With nothing in flight and the queue
  full, `EnqueueSendLocked` returns before it pumps (`UdpRelay.cpp:275`), and nothing is sent
  any more. `SendQueueSound` asks for the retry where the code makes it: a queue that waits
  with room in flight was tried in vain by the latest of those events.
- A server that fails to start sets `g_stop` before `PrepareRestartAfterDelay`
  (`Socks5Proxy.cpp:167`), which therefore returns at once: the program ends and is not
  restarted, unlike after an invalid configuration.
- After a fatal error a program with its own console waits for Enter
  (`Socks5Proxy.cpp:208`), also when it was told to stop; the mutex is released by then.
- A copy that is being refused holds a handle to the mutex for an instant, in which a
  restarted process is refused too (`Application.cpp:53`).

## Proofs

Every invariant and every action property that a passing run checks is also a theorem, for
all values of the constants: any number of workers, clients, names, datagrams, processes,
any limit, any size of entries. Each component has one module, and each module one
inductive invariant `IInv`, of named parts, that was model-checked before it was proved. A
lemma per action (or per part and action) shows that it is kept, `NextInv` puts them
together, and the theorems follow from `Invariance`.

| Module | Theorems (property) |
|---|---|
| `TcpRelayProofs` | `TypeCorrect` (`TypeOK`), `StreamIsIntact` (`StreamIntact`), `SendsNeverStall` (`NoStall`), `ReadsAreNeverLost` (`ReadNeverLost`), `QueuesAreBounded` (`QueueBound`), `ClosedIsQuiet` (`QuietAfterClose`) |
| `DuplexProofs` | `RelayIsDuplex` (`IsDuplex`) |
| `Socks5SessionProofs` | `TypeCorrect` (`TypeOK`), `RepliesOnce` (`OneReply`), `SuccessIsTrue` (`SuccessMeansService`), `NoneServedUnknown` (`Authenticated`), `SessionsMoveOn` (`NoZombie`), `NoTimerLeaks` (`NoLeakedTimer`), `IdleClosesIdle` (`IdleMeansIdle`) |
| `IocpServiceProofs` | `OperationsAreCounted` (`Accounting`), `StopLeavesNothing` (`StopIsComplete`), `TimersFireOnce` (`TimerFiresOnce`), `TimersAreWatched` (`NoTimerSleptThrough`) |
| `ProxyServerProofs` | `StopFindsEverySession` (`NoSessionEscapes`), `SlotsAreExact` (`SlotsExact`) |
| `DnsResolverProofs` | `CallbacksAreExact` (`CalledOnce`), `MapsAgree` (`IndexesAgree`), `NoQueryIsForgotten` (`QueryTimed`), `ResolverKeepsPromise` (the safety half of `ResolvesOnce`) |
| `UdpRelayProofs` | `LimitsHold` (`TypeOK`), `SendsInOrder` (`SendQueueSound`), `OneLookup` (`LookupUnderWay`), `FragmentsAddUp` (`AssemblySound`) |
| `ApplicationProofs` | `OneCopyRuns` (`OneCopy`), `ThreadIsJoined` (`ThreadJoined`), `GlitchIsTolerated` (`GlitchTolerated`), `ShutdownIsFinal` (`ShutdownFinal`) |

The assumptions are the `ASSUME`s of the component's module: sets are finite and disjoint
where they are different things in the code, limits are natural numbers, positive where the
code's constant has to be, switches are Booleans, and the value that stands for "none" is
none of the things it stands in for. Two theorems have a hypothesis of their own, and both
are about the code: `SlotsAreExact` needs that `Socks5Session::Start` does not throw (see
Findings), `GlitchIsTolerated` that a restart takes more than two failures (the code has
three). The bounds on histories (`MaxPieces`, `MaxRecvs`, `MaxPackets`, `MaxPosts`) are
arbitrary natural numbers, so nothing in the proofs limits the length of a behaviour.

**TCP relay.** `IInv` is the conjunction of the properties with three facts they do not
contain:

- `FrontInFlight`: a send in flight belongs to the front of a non-empty queue. Without
  it a completion might pop from an empty queue, and `QueueIsRest` would not carry over.
- `QuietBeforeStart`: nothing is read, paused or ended before `StartRelay`, which posts
  both reads unconditionally.
- `Room`: a read is outstanding only if the opposite queue was short enough when it was
  posted; `QueueBound` alone does not say where the next receive may go.

`QueueIsRest` (what is queued is exactly what was queued and not sent, in order) and
`InFlightContinues` (a send starts where the wire ends) support each other: the first
gives the position of the next send, the second that a completion advances the wire by
what was copied. `NoStall` is needed for `ReadNeverLost`: a read is paused because the
opposite queue is full, hence not empty, hence has a send in flight, whose completion
resumes the read.

*Refinement to `Duplex`.* With `EndsAgree` (a socket is shut down for sending exactly when
the opposite peer has ended) each action maps to one step of `Duplex` or to a stutter. The
work is in counting bytes: positions are products, and a completion advances them by what
`InFlightContinues` says.

**Session.** The session is a record and its methods are functions on such records, so
`IInv` is a predicate `RInv` on records, and every method has a lemma on what it does to any
record. Handlers go on after a `Close` inside them, which is where the work is: the lemmas
say what holds of a closed record too (`Follows`). The parts are: timers have distinct
generations and one that can still be cancelled is the one whose id is held (`Sane`); the
idle timer of the current generation is younger than the last receive (`Seen`), which is
`IdleMeansIdle` before the timer fires; timers run in the states they are for
(`TimersInState`); `Replies`, `AuthInv`, and `Lively`, which says for each state what is
outstanding. `HandlerInv` adds that the read is posted again whenever the lock is given up.

**Completion port.** `Accounting` counts three sets; the proof is about which step moves a
thing from one to another. It needs `WorkInv`: a timer is claimed by one worker at a time
and runs in one, otherwise a unit would be released twice. `Drained` (nothing is left once
`Stop` has seen the counter at zero) is inductive only together with `LifeInv`: whoever
posts needs a port that is open and running. `WakeInv` extends `NoTimerSleptThrough` to
timers that are being published: the wake-up is posted before the timer can be claimed.
None of these rests on the wake-ups of `Stop`: all they need is that no more are
posted than there are workers (`WakeUpsCounted`).

**Server.** `WorkerInv`: a completion has one worker, and the acceptor's mutex is held by the
one inside. `AcceptInv`: an accepted client is in one `AcceptIo` and has no session before
its worker retains one. `SessionInv`: a session is retained from then until its `Close` ends.
With these the set of slot holders (`Holders`) changes by one element at a time and
`HoldersExact` is kept. `StopInv` says that after the snapshot the acceptor is idle, which
is why nothing can be added behind it.

**Resolver.** The heart is `HandlerInv`: the query that the first half of a handler found is
still there in its second half, because requests in between can join or begin queries but
not remove any, and nobody else removes. `CallInv`: a request that was not called waits in
the query of its name and nowhere else. Most actions remove a query or ask it again under an
id, so there is one lemma for each (`Removed`, `Asked`). `AttemptInv` is added for
the TCP attempts. `ResolverKeepsPromise` maps a request to `idle`, `asked` or `answered`.

**UDP relay.** One part per table. `NameInv` says where the one lookup of a name is (with the
resolver, in its callback, in the port, being handled), which is the count of
`LookupUnderWay` spelled out, and that nothing is pending for a name whose batch is being
sent, which the count does not say and the end of the batch needs. Order across tables is the hard part: `Waits` says that what is held for a
name, or is left of the batch being sent, is younger than all that was sent or posted of that
name, and `SendInv` that all of it is older than the next arrival. Nothing can be added for a
name while its batch is sent, so both are kept datagram by datagram. For assemblies,
`AddUpReplace` shows that taking off the size of a fragment that is replaced keeps the running
sums natural and adding up.

**Application.** `GuardInv`: whoever is past the guard has a handle, alone, and whoever has
launched a process is about to end. `CheckInv` bounds the counter by the rounds that failed,
half a round included. `FinalInv`: a final shutdown finds no request for a restart under way
and no countdown that has taken its last look.

## Limits

Only model-checked:

- Liveness, since TLAPS 1.4.5 does not reason about fairness and `ENABLED`: `Delivered`,
  `ConnectEnds`, `HandshakeEnds`, `StopReturns` of the port and of the server, `Answered`,
  `StopEnds`, `ShutdownEnds`, and the leads-to in `ResolvesOnce`.
- The refutations: they are counterexamples of particular instances.

That a datagram held for a name is sent or dropped in the end is not a property of its
own: it waits for exactly one lookup (`LookupUnderWay`), which ends (`ResolveOnce`).

Not modelled:

- In the port, thread creation failing in `Start`, `GetQueuedCompletionStatus` failing
  without a completion, and exceptions that leave a handler; in the server, binding and
  choice of interface; in the resolver, the ways `Start` fails, the operations inside a TCP
  attempt, and the expiry of the cache.
- Byte formats (SOCKS messages, UDP headers, DNS messages, SSPI tokens) appear as what they
  say; GSSAPI as the outcomes of its calls.
- In the session, an exception (out of memory, while logging) after the reply to UDP
  ASSOCIATE was posted: the handler's `catch` (`Socks5Session.cpp:1005`) would post a second
  reply. `OneReply` does not speak of that path.
- In `UdpRelay`, ports, and exceptions (out of memory) in `HandlePacket`; in
  `Application`, the fixed delay `RunDelayS` before the start, firewall rules, and how a
  command line is put together.
- Configuration, logging, friendly names and address helpers read a file, print, or call
  the platform; they have no protocol state, and their values are the constants of the
  modules.
