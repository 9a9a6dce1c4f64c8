------------------------------ MODULE UdpRelay ------------------------------
(***************************************************************************)
(* The relay of a UDP ASSOCIATE session: one socket on which the client's  *)
(* datagrams arrive, to be unpacked, reassembled, perhaps held back until  *)
(* a name is resolved, and sent on; and on which the answers arrive, to be *)
(* wrapped and sent to the client.                                         *)
(*                                                                         *)
(* Completions and Stop exclude each other (completionMutex_).  The        *)
(* resolver calls back on a thread of its own, which takes stateMutex_     *)
(* only: it is two actions, before and after PostUser, and may come        *)
(* between two stateMutex_ sections of a handler: "handler" is what        *)
(* remains to be done after the first one, and no other handler, nor Stop, *)
(* runs before.                                                            *)
(* What UdpRelay relies on of the resolver is ResolveOnce, which           *)
(* DnsResolver is shown to implement.                                      *)
(*                                                                         *)
(* The datagrams that arrive are numbered.  Ports are left out: a name is  *)
(* always used with the same one, so a destination is a server or a name.  *)
(* The clock is kept only as the answers to its comparisons.               *)
(***************************************************************************)
EXTENDS Naturals, Sequences, FiniteSets, FiniteSetsExt

CONSTANTS
  Locals,        \* endpoints with the address of the client's TCP connection
  Servers,       \* other endpoints
  Names,         \* names the client sends to
  MaxInFlight,   \* kMaxUdpSendsInFlight
  MaxSends,      \* kMaxPendingUdpSends
  MaxDomains,    \* kMaxPendingDomains
  MaxPerDomain,  \* kMaxPacketsPerDomain
  MaxAssemblies, \* kMaxFragmentAssemblies
  MaxActive,     \* kMaxActiveDestinations
  MaxAssembled,  \* kMaxAssembledUdpPayload
  MaxFrag,       \* bound: the highest fragment number
  Sizes,         \* bound: the sizes of a payload or fragment
  MaxPackets,    \* bound: datagrams that arrive
  Results,       \* what the resolver may answer: servers, "failed", "invalid"
  Faults         \* whether binding and posting fail

ASSUME UdpAssumption ==
  /\ IsFiniteSet(Locals) /\ IsFiniteSet(Servers) /\ IsFiniteSet(Names)
  /\ Locals \cap Servers = {} /\ Names \cap (Servers \cup Locals) = {}
  /\ MaxInFlight \in Nat \ {0} /\ MaxSends \in Nat \ {0}
  /\ MaxDomains \in Nat /\ MaxPerDomain \in Nat
  /\ MaxAssemblies \in Nat /\ MaxActive \in Nat \ {0}
  /\ MaxAssembled \in Nat /\ MaxFrag \in Nat \ {0}
  /\ Sizes \subseteq Nat /\ MaxPackets \in Nat
  /\ Results \subseteq Servers \cup {"failed", "invalid"}
  /\ Faults \in BOOLEAN

None == "none"

VARIABLES
  phase,      \* "new", then Start has returned: "running" or "failed"
  stop,       \* stop_
  told,       \* how often onStopped_ was called
  sock,       \* udpSocket_ is open
  recv,       \* a WSARecvFrom is outstanding
  handler,    \* the rest of the handler of a receive or of an answer
  batch,      \* in OnDnsNotify: what waited for the name, still to be sent
  client,     \* actualClientUdpEndPoint_
  active,     \* activeDestinations_
  asm,        \* fragAssemblies_
  known,      \* the keys of pendingByDomain_ ...
  pending,    \* ... and its queues
  resolving,  \* dnsInFlight_
  asked,      \* lookups the resolver has not answered
  calling,    \* callbacks of the resolver that have yet to post
  port,       \* dnsNotifies_ whose completion is in the port
  sends,      \* pendingSends_
  inFlight,   \* sendsInFlight_
  failed,     \* history: the last completion or datagram queued tried to
              \* post the front of pendingSends_, in vain
  posted,     \* history: the last datagram posted, by where it is from
  arrived,    \* the number of datagrams that have arrived
  idle,       \* more than UdpIdleTimeout since lastActivity_
  due,        \* more than kCleanupInterval since lastCleanup_
  oldDest,    \* destinations last used more than UdpIdleTimeout ago
  oldAsm      \* assemblies last updated more than kFragReassemblyTimeout ago

lifeVars == <<phase, stop, told, sock>>
nameVars == <<known, pending, resolving>>
dnsVars == <<asked, calling, port>>
sendVars == <<sends, inFlight, failed, posted>>
timeVars == <<idle, due, oldDest, oldAsm>>
vars == <<phase, stop, told, sock, recv, handler, batch, client, active, asm, known, pending,
          resolving, asked, calling, port, sends, inFlight, failed, posted,
          arrived, idle, due, oldDest, oldAsm>>

Keys == Servers \cup Names
Sources == Locals \cup Servers \cup Names   \* where a datagram to send is from

(* A fragment that is missing, and an assembly that does not exist. *)
NoPart == [n |-> 0, size |-> 0]
NoAssembly == [on |-> FALSE, parts |-> [i \in 1..MaxFrag |-> NoPart],
               last |-> 0, total |-> 0]
NoBatch == [name |-> None, to |-> None, queue |-> <<>>]

Init ==
  /\ phase = "new" /\ stop = FALSE /\ told = 0 /\ sock = FALSE
  /\ recv = FALSE /\ handler = "none" /\ batch = NoBatch
  /\ client = None /\ active = {}
  /\ asm = [k \in Keys |-> NoAssembly]
  /\ known = {} /\ pending = [d \in Names |-> <<>>] /\ resolving = {}
  /\ asked = [d \in Names |-> 0]
  /\ calling = [d \in Names |-> {}] /\ port = [d \in Names |-> {}]
  /\ sends = <<>> /\ inFlight = 0 /\ failed = FALSE
  /\ posted = [s \in Sources |-> 0]
  /\ arrived = 0 /\ idle = FALSE /\ due = FALSE
  /\ oldDest = {} /\ oldAsm = {}

-----------------------------------------------------------------------------
(* Start binds to the address the client connected to, else to the output  *)
(* address, else to any; a socket that cannot be associated is closed, one *)
(* whose first receive cannot be posted is left to Stop.                   *)
Start ==
  /\ phase = "new" /\ ~stop
  /\ \E bound \in {TRUE, ~Faults}, posts \in {TRUE, ~Faults} :
       /\ sock' = bound /\ recv' = (bound /\ posts)
       /\ phase' = IF bound /\ posts THEN "running" ELSE "failed"
  /\ UNCHANGED <<stop, told, handler, batch, client, active, asm, nameVars, dnsVars, sendVars,
                 arrived, timeVars>>

(* Stop, the first time: the receive and the sends in flight are aborted   *)
(* with the socket and complete later.                                     *)
StopNow(notify) ==
  /\ stop' = TRUE /\ sock' = FALSE
  /\ sends' = <<>> /\ asm' = [k \in Keys |-> NoAssembly]
  /\ known' = {} /\ pending' = [d \in Names |-> <<>>] /\ resolving' = {}
  /\ told' = told + (IF notify THEN 1 ELSE 0)

(* The session closes: Stop(false). *)
StopBySession ==
  /\ phase # "new" /\ ~stop /\ handler = "none"
  /\ StopNow(FALSE)
  /\ UNCHANGED <<phase, recv, handler, batch, client, active, dnsVars, inFlight, failed,
                 posted, arrived, timeVars>>

-----------------------------------------------------------------------------
(* The send queue.  A handler starts from its state with a number of posts *)
(* that succeed in it, and passes the state through EnqueueSendLocked.     *)
SendState(n) ==
  [queue |-> sends, flying |-> inFlight, ok |-> n, failed |-> failed, posted |-> posted]

(* PostSendTo refuses an empty datagram. *)
Refused(e) == e.empty

Sendable(q) ==
  LET bad == {i \in DOMAIN q : Refused(q[i])}
  IN IF bad = {} THEN Len(q) ELSE Min(bad) - 1

(* PumpSendLocked posts from the front; what cannot be posted goes back to *)
(* the front.                                                              *)
PumpSendLocked(st) ==
  LET want == Min({Len(st.queue), MaxInFlight - st.flying})
      m == Min({want, st.ok, Sendable(st.queue)})
      from(s) == {i \in 1..m : st.queue[i].from = s}
  IN [queue |-> SubSeq(st.queue, m + 1, Len(st.queue)),
      flying |-> st.flying + m, ok |-> st.ok - m, failed |-> m < want,
      posted |-> [s \in Sources |-> IF from(s) = {} THEN st.posted[s]
                                    ELSE st.queue[Max(from(s))].n]]

EnqueueSendLocked(st, e) ==
  IF Len(st.queue) >= MaxSends THEN st
  ELSE PumpSendLocked([st EXCEPT !.queue = Append(@, e), !.failed = FALSE])

Sent(st) ==
  /\ sends' = st.queue /\ inFlight' = st.flying
  /\ failed' = st.failed /\ posted' = st.posted

(* How many posts of a handler may succeed. *)
Posts == IF Faults THEN 0..MaxInFlight ELSE {MaxInFlight}

(* OnSendCompleted, with an error or without. *)
SendCompletedNoPump ==
  /\ inFlight > 0 /\ handler = "none"
  /\ inFlight' = inFlight - 1 /\ failed' = FALSE /\ UNCHANGED <<sends, posted>>
  /\ UNCHANGED <<lifeVars, recv, handler, batch, client, active, asm, nameVars, dnsVars, arrived,
                 timeVars>>
OnSendCompleted ==
  /\ inFlight > 0 /\ handler = "none"
  /\ \E n \in Posts :
       LET st == [SendState(n) EXCEPT !.flying = @ - 1, !.failed = FALSE]
       IN Sent(IF stop THEN st ELSE PumpSendLocked(st))
  /\ UNCHANGED <<lifeVars, recv, handler, batch, client, active, asm, nameVars, dnsVars, arrived,
                 timeVars>>

-----------------------------------------------------------------------------
(* ForwardPayload: the destination may answer from now on.  When there are *)
(* too many, any one is forgotten.                                         *)
Activate(to) ==
  \/ /\ to \in active \/ Cardinality(active) < MaxActive
     /\ active' = active \cup {to} /\ oldDest' = oldDest \ {to}
  \/ /\ to \notin active /\ Cardinality(active) >= MaxActive
     /\ \E old \in active :
          active' = (active \ {old}) \cup {to} /\ oldDest' = oldDest \ {old, to}

(* What is sent for the source s, for the datagram that arrived as n; of   *)
(* its payload only whether it is empty.                                   *)
Outbound(s, n, to, parts) ==
  [from |-> s, n |-> n, to |-> to, empty |-> \A i \in DOMAIN parts : parts[i].size = 0]

ForwardPayload(to, e) ==
  /\ Activate(to)
  /\ \E n \in Posts : Sent(EnqueueSendLocked(SendState(n), e))

(* DispatchClientPayload to a name: the datagram waits, and the name is    *)
(* looked up unless it is being looked up already.  Looking for the queue  *)
(* has made one, which is removed when the datagram is dropped.            *)
OverfullLate(d) ==
  \/ pending[d] = <<>> /\ Cardinality(known \cup {d}) > MaxDomains + 1
  \/ Len(pending[d]) >= MaxPerDomain
Overfull(d) ==
  \/ pending[d] = <<>> /\ Cardinality(known \cup {d}) > MaxDomains
  \/ Len(pending[d]) >= MaxPerDomain

HoldForName(d, parts) ==
  /\ IF Overfull(d)
     THEN /\ known' = IF pending[d] = <<>> THEN known \ {d} ELSE known
          /\ UNCHANGED <<pending, resolving, asked>>
     ELSE /\ known' = known \cup {d}
          /\ pending' = [pending EXCEPT ![d] = Append(@, Outbound(d, arrived', None, parts))]
          /\ resolving' = resolving \cup {d}
          /\ asked' = IF d \in resolving THEN asked ELSE [asked EXCEPT ![d] = @ + 1]
  /\ UNCHANGED <<active, oldDest, sendVars>>

DispatchClientPayload(k, parts) ==
  IF k \in Servers
  THEN ForwardPayload(k, Outbound(k, arrived', k, parts)) /\ UNCHANGED <<nameVars, asked>>
  ELSE HoldForName(k, parts)

Nothing == UNCHANGED <<active, oldDest, nameVars, asked, sendVars>>

-----------------------------------------------------------------------------
(* ProcessFragment.  Fragment 1 begins an assembly anew; any other one     *)
(* needs an assembly; one that would make it too large ends it.            *)
Unbegun(k, num) == IF num = 1 THEN [NoAssembly EXCEPT !.on = TRUE, !.parts = asm[k].parts]
                   ELSE asm[k]
Begun(k, num) == IF num = 1 THEN [NoAssembly EXCEPT !.on = TRUE] ELSE asm[k]

Assembling == {k \in Keys : asm[k].on}

Dropped(k, num) ==
  /\ ~asm[k].on
  /\ num = 1 => Cardinality(Assembling) >= MaxAssemblies

(* The size of an assembly with a fragment added, or replaced. *)
Total(a, num, size) == a.total - a.parts[num].size + size
Fits(a, num, size) == Total(a, num, size) <= MaxAssembled

WithPart(a, num, last, size) ==
  [a EXCEPT !.parts[num] = [n |-> arrived', size |-> size],
            !.total = Total(a, num, size),
            !.last = IF last THEN num ELSE @]

Complete(a) == a.last > 0 /\ \A i \in 1..a.last : a.parts[i].n # 0
Payload(a) == [i \in 1..a.last |-> a.parts[i]]

ProcessFragment(k, num, last, size) ==
  LET a == Begun(k, num)
      b == WithPart(a, num, last, size)
  IN \/ Dropped(k, num) /\ UNCHANGED <<asm, oldAsm>> /\ Nothing
     \/ /\ ~Dropped(k, num) /\ ~Fits(a, num, size)
        /\ asm' = [asm EXCEPT ![k] = NoAssembly] /\ oldAsm' = oldAsm \ {k} /\ Nothing
     \/ /\ ~Dropped(k, num) /\ Fits(a, num, size) /\ ~Complete(b)
        /\ asm' = [asm EXCEPT ![k] = b] /\ oldAsm' = oldAsm \ {k} /\ Nothing
     \/ /\ ~Dropped(k, num) /\ Fits(a, num, size) /\ Complete(b)
        /\ asm' = [asm EXCEPT ![k] = NoAssembly] /\ oldAsm' = oldAsm \ {k}
        /\ DispatchClientPayload(k, Payload(b))

(* HandleClientPacket: a datagram of its own, a fragment, or one that is   *)
(* malformed (its header, or a fragment numbered zero).                    *)
HandleClientPacket ==
  \/ \E k \in Keys, size \in Sizes :
       DispatchClientPayload(k, <<[n |-> arrived', size |-> size]>>) /\ UNCHANGED <<asm, oldAsm>>
  \/ \E k \in Keys, num \in 1..MaxFrag, last \in BOOLEAN, size \in Sizes :
       ProcessFragment(k, num, last, size)
  \/ Nothing /\ UNCHANGED <<asm, oldAsm>>

(* HandleServerResponse: what a destination answers is wrapped, which      *)
(* makes it longer than nothing, and sent to the client.                   *)
Heard(src) == src \in active

HandleServerResponse(src) ==
  /\ \/ ~Heard(src) /\ UNCHANGED sendVars
     \/ /\ Heard(src)
        /\ \E n \in Posts :
             Sent(EnqueueSendLocked(SendState(n),
               [from |-> src, n |-> arrived', to |-> client, empty |-> FALSE]))
  /\ UNCHANGED <<active, oldDest, asm, oldAsm, nameVars, asked>>

(* HandlePacket: the first datagram from the client's address pins the     *)
(* client's endpoint; until then nothing else is looked at.                *)
HandlePacket(src) ==
  /\ client' = IF client = None /\ src \in Locals THEN src ELSE client
  /\ \/ src = client' /\ HandleClientPacket
     \/ src # client' /\ client # None /\ HandleServerResponse(src)
     \/ src # client' /\ client = None /\ Nothing /\ UNCHANGED <<asm, oldAsm>>

(* A receive completes with a datagram, or with an error or nothing in it. *)
OnDatagram(src) ==
  /\ recv /\ ~stop /\ handler = "none" /\ arrived < MaxPackets
  /\ arrived' = arrived + 1
  /\ idle' = FALSE
  /\ HandlePacket(src)
  /\ recv' = FALSE /\ handler' = "handled"
  /\ UNCHANGED <<lifeVars, batch, calling, port, due>>

OnRecvFails ==
  /\ recv /\ ~stop /\ handler = "none"
  /\ recv' = FALSE /\ handler' = "failed"
  /\ UNCHANGED <<lifeVars, batch, client, active, asm, nameVars, dnsVars, sendVars,
                 arrived, timeVars>>

(* After a datagram CleanupState, if it is due. *)
CleanupState ==
  IF handler = "handled" /\ due
  THEN /\ active' = active \ oldDest /\ oldDest' = {}
       /\ due' = FALSE
  ELSE UNCHANGED <<active, oldDest, due>>

Kept == [k \in Keys |-> IF handler = "handled" /\ due /\ k \in oldAsm
                        THEN NoAssembly ELSE asm[k]]

(* The rest of the handler: the relay stops when it has been idle, which   *)
(* is looked at here only, or when it cannot receive again.                *)
AfterReceive ==
  /\ handler \in {"handled", "failed"}
  /\ handler' = "none"
  /\ CleanupState
  /\ oldAsm' = {k \in oldAsm : Kept[k].on}
  /\ \/ /\ ~idle /\ recv' = TRUE
        /\ asm' = Kept /\ UNCHANGED <<stop, told, sock, sends, nameVars>>
     \/ /\ idle \/ Faults
        /\ StopNow(TRUE) /\ UNCHANGED recv
  /\ UNCHANGED <<phase, batch, client, dnsVars, inFlight, failed, posted, arrived, idle>>

(* The aborted receive, after Stop. *)
DrainRecv ==
  /\ stop /\ recv
  /\ recv' = FALSE
  /\ UNCHANGED <<lifeVars, handler, batch, client, active, asm, nameVars, dnsVars,
                 sendVars, arrived, timeVars>>

-----------------------------------------------------------------------------
(* The callback of the resolver, on a thread of its own: up to PostUser ... *)
DnsAnswered(d) ==
  /\ asked[d] > 0
  /\ asked' = [asked EXCEPT ![d] = @ - 1]
  /\ \E ip \in Results :
       calling' = IF stop THEN calling ELSE [calling EXCEPT ![d] = @ \cup {ip}]
  /\ UNCHANGED <<lifeVars, recv, handler, batch, client, active, asm, nameVars, port,
                 sendVars, arrived, timeVars>>

(* ... and from there on.  When it fails the name is given up. *)
DnsPosts(d) ==
  /\ \E ip \in calling[d] :
       /\ calling' = [calling EXCEPT ![d] = @ \ {ip}]
       /\ \/ port' = [port EXCEPT ![d] = @ \cup {ip}] /\ UNCHANGED nameVars
          \/ /\ Faults /\ UNCHANGED port
             /\ known' = known \ {d} /\ pending' = [pending EXCEPT ![d] = <<>>]
             /\ resolving' = resolving \ {d}
  /\ UNCHANGED <<lifeVars, recv, handler, batch, client, active, asm, asked, sendVars,
                 arrived, timeVars>>

(* OnDnsNotify: what waits for the name is taken to be sent on, or dropped *)
(* when there is no address.  The queue is emptied, and removed only when  *)
(* the lookup failed.                                                      *)
NamesKept(d) == UNCHANGED resolving
NamesDone(d) == resolving' = resolving \ {d}

OnDnsNotify(d) ==
  /\ handler = "none"
  /\ \E ip \in port[d] :
       /\ port' = [port EXCEPT ![d] = @ \ {ip}]
       /\ \/ stop /\ UNCHANGED <<nameVars, handler, batch>>
          \/ /\ ~stop /\ (pending[d] = <<>> \/ ip \notin Servers)
             /\ NamesDone(d) /\ pending' = [pending EXCEPT ![d] = <<>>]
             /\ known' = IF ip = "failed" /\ pending[d] # <<>> THEN known \ {d} ELSE known
             /\ UNCHANGED <<handler, batch>>
          \/ /\ ~stop /\ pending[d] # <<>> /\ ip \in Servers
             /\ pending' = [pending EXCEPT ![d] = <<>>]
             /\ batch' = [name |-> d, to |-> ip, queue |-> pending[d]]
             /\ handler' = "batch"
             /\ UNCHANGED <<known, resolving>>
  /\ UNCHANGED <<lifeVars, recv, client, active, asm, asked, calling, sendVars,
                 arrived, timeVars>>

(* Its loop over the datagrams, which takes the lock for each.  While it   *)
(* runs none can be added: the name is done when it ends.                  *)
ForwardNext ==
  /\ handler = "batch" /\ batch.queue # <<>>
  /\ ForwardPayload(batch.to, [Head(batch.queue) EXCEPT !.to = batch.to])
  /\ batch' = [batch EXCEPT !.queue = Tail(@)]
  /\ UNCHANGED <<lifeVars, recv, handler, client, asm, nameVars, dnsVars, arrived,
                 idle, due, oldAsm>>

BatchEnds ==
  /\ handler = "batch" /\ batch.queue = <<>>
  /\ NamesDone(batch.name)
  /\ batch' = NoBatch /\ handler' = "none"
  /\ UNCHANGED <<lifeVars, recv, client, active, asm, known, pending, dnsVars, sendVars,
                 arrived, timeVars>>

-----------------------------------------------------------------------------
(* Time passes: kFragReassemblyTimeout, perhaps kCleanupInterval; or       *)
(* UdpIdleTimeout.                                                         *)
FragTimePasses ==
  /\ handler = "none" /\ phase = "running" /\ ~stop
  /\ oldAsm' = Assembling /\ due' \in {due, TRUE}
  /\ UNCHANGED <<lifeVars, recv, handler, batch, client, active, asm, nameVars, dnsVars,
                 sendVars, arrived, idle, oldDest>>

IdleTimePasses ==
  /\ handler = "none" /\ phase = "running" /\ ~stop
  /\ idle' = TRUE /\ due' = TRUE /\ oldAsm' = Assembling /\ oldDest' = active
  /\ UNCHANGED <<lifeVars, recv, handler, batch, client, active, asm, nameVars, dnsVars,
                 sendVars, arrived>>

(* Nothing keeps the relay alive any more. *)
Ended ==
  /\ stop /\ ~recv /\ inFlight = 0
  /\ \A d \in Names : asked[d] = 0 /\ calling[d] = {} /\ port[d] = {}
  /\ UNCHANGED vars

Next ==
  \/ Start \/ StopBySession
  \/ \E src \in Locals \cup Servers : OnDatagram(src)
  \/ OnRecvFails \/ AfterReceive \/ DrainRecv \/ OnSendCompleted
  \/ \E d \in Names : DnsAnswered(d) \/ DnsPosts(d) \/ OnDnsNotify(d)
  \/ ForwardNext \/ BatchEnds
  \/ FragTimePasses \/ IdleTimePasses
  \/ Ended

Spec == Init /\ [][Next]_vars

(* Running handlers go on, a thread that waits for completionMutex_ gets   *)
(* it in the end, operations on a closed socket and sends complete, and    *)
(* the resolver answers (ResolveOnce).  Nobody has to send a datagram.     *)
Fairness ==
  /\ WF_vars(Start) /\ WF_vars(AfterReceive) /\ WF_vars(DrainRecv)
  /\ WF_vars(ForwardNext) /\ WF_vars(BatchEnds)
  /\ SF_vars(OnSendCompleted)
  /\ \A d \in Names : /\ WF_vars(DnsAnswered(d)) /\ WF_vars(DnsPosts(d))
                      /\ SF_vars(OnDnsNotify(d))

FairSpec == Spec /\ Fairness

-----------------------------------------------------------------------------
(* The variables have their types and every table its limit, which is      *)
(* checked in another place than where the table grows: kMaxPendingDomains *)
(* after the entry was made, kMaxPendingUdpSends once per datagram of a    *)
(* batch, the others before.                                               *)
Part == [n : 0..MaxPackets, size : Sizes \cup {0}]
Datagram == [from : Sources, n : 1..MaxPackets, to : Locals \cup Servers \cup {None},
             empty : BOOLEAN]

TypeOK ==
  /\ phase \in {"new", "running", "failed"} /\ stop \in BOOLEAN /\ told \in 0..1
  /\ sock \in BOOLEAN /\ recv \in BOOLEAN
  /\ handler \in {"none", "handled", "failed", "batch"}
  /\ batch \in [name : Names \cup {None}, to : Servers \cup {None}, queue : Seq(Datagram)]
  /\ client \in Locals \cup {None}
  /\ active \subseteq Servers /\ Cardinality(active) <= MaxActive
  /\ asm \in [Keys -> [on : BOOLEAN, parts : [1..MaxFrag -> Part],
                       last : 0..MaxFrag, total : 0..MaxAssembled]]
  /\ Cardinality(Assembling) <= MaxAssemblies
  /\ known \subseteq Names /\ Cardinality(known) <= MaxDomains
  /\ pending \in [Names -> Seq(Datagram)]
  /\ \A d \in Names : Len(pending[d]) <= MaxPerDomain
  /\ resolving \subseteq Names /\ asked \in [Names -> Nat]
  /\ calling \in [Names -> SUBSET Results] /\ port \in [Names -> SUBSET Results]
  /\ sends \in Seq(Datagram) /\ Len(sends) <= MaxSends /\ inFlight \in 0..MaxInFlight
  /\ failed \in BOOLEAN /\ posted \in [Sources -> 0..MaxPackets]
  /\ arrived \in 0..MaxPackets /\ idle \in BOOLEAN /\ due \in BOOLEAN
  /\ oldDest \subseteq active /\ oldAsm \subseteq Keys

(* The front of the send queue is tried again by every completion of a     *)
(* send and every datagram that is queued: datagrams wait behind a full    *)
(* window, or because the last of those events tried the front in vain;    *)
(* and those of one source are posted in the order in which they came,     *)
(* whatever fails in between (PumpSendLocked, OnSendCompleted).  That such *)
(* an event is still to come is not implied, and is not so: with nothing   *)
(* in flight, and the queue full or the front empty, nothing is sent any   *)
(* more.                                                                   *)
SendQueueSound ==
  /\ sends # <<>> => failed \/ inFlight = MaxInFlight
  /\ \A i, j \in DOMAIN sends :
       i < j /\ sends[i].from = sends[j].from => sends[i].n < sends[j].n
  /\ \A i \in DOMAIN sends : posted[sends[i].from] < sends[i].n

(* A datagram that waits for a name waits for exactly one lookup of it,    *)
(* and a name counts as being looked up only while it is: otherwise later  *)
(* datagrams for it would be held for ever (dnsInFlight_).                 *)
Lookups(d) == asked[d] + Cardinality(calling[d]) + Cardinality(port[d])
              + (IF handler = "batch" /\ batch.name = d THEN 1 ELSE 0)

LookupUnderWay ==
  ~stop => \A d \in Names :
    /\ pending[d] # <<>> => d \in known /\ d \in resolving
    /\ Lookups(d) = IF d \in resolving THEN 1 ELSE 0

(* The sizes of the fragments add up to total. *)
AddUp(parts, total) ==
  \E sum \in [0..MaxFrag -> 0..total] :
    /\ sum[0] = 0 /\ sum[MaxFrag] = total
    /\ \A i \in 1..MaxFrag : sum[i] = sum[i - 1] + parts[i].size

(* An assembly never mixes in a fragment older than its first one, is      *)
(* accounted for to the byte and within kMaxAssembledUdpPayload, and is    *)
(* not complete: a complete one has been sent on (ProcessFragment).        *)
AssemblySound ==
  \A k \in Assembling :
    LET a == asm[k]
        present == {i \in 1..MaxFrag : a.parts[i].n # 0}
    IN /\ a.parts[1].n # 0
       /\ \A i \in present : a.parts[i].n >= a.parts[1].n
       /\ AddUp(a.parts, a.total) /\ a.total <= MaxAssembled
       /\ a.last > 0 => \E i \in 1..a.last : i \notin present

(* "UDP DNS pending queue limit reached; dropping datagram." (the warning  *)
(* in DispatchClientPayload): when the limit on names is reached, that     *)
(* many names have datagrams pending.                                      *)
LimitMeansPending ==
  handler = "none" /\ Cardinality(known) >= MaxDomains => \A d \in known : pending[d] # <<>>

(* "UDP relay with client validation, source filtering, and idle timeout"  *)
(* (README.md): a relay that has been idle is ended.                       *)
IdleEnds == idle ~> (stop \/ ~idle)
=============================================================================
