------------------------- MODULE DnsResolverProofs -------------------------
(***************************************************************************)
(* Proofs about DnsResolver, for any number of names, requests,            *)
(* transaction ids, TCP attempts and retries.                              *)
(***************************************************************************)
EXTENDS DnsResolver, TLAPS

QueryType ==
  [on : BOOLEAN, txid : Txids \cup {None}, aaaa : BOOLEAN, viaTcp : BOOLEAN,
   attempts : Nat, callbacks : SUBSET Requests, tcp : Tcps \cup {None}]

(* A handler that has the query of a name in hand. *)
InHand == {"retry", "tcp", "aaaa", "finish"}

HandlerType ==
  [what : InHand \cup {"idle", "repost", "fallback", "crashed"},
   name : Names \cup {None}, recv : BOOLEAN, todo : SUBSET Names]

TypeOK ==
  /\ life \in {"running", "stopping", "stopped", "destroyed"}
  /\ query \in [Names -> QueryType]
  /\ byId \in [Txids -> Names \cup {None}]
  /\ armed \in [Names -> Txids \cup {None}] /\ posted \in [Txids -> Nat]
  /\ handler \in HandlerType
  /\ want \in [Requests -> Names \cup {None}] /\ calls \in [Requests -> Nat]

(* A name without a query has an empty one. *)
QueryInv ==
  \A n \in Names : /\ ~query[n].on => query[n] = NoQuery
                   /\ query[n].on => query[n].txid \in Txids

(* A request waits in the query of the name it asked for, and nowhere      *)
(* else, until its callback is called.                                     *)
CallInv ==
  /\ \A r \in Requests :
       /\ calls[r] <= 1
       /\ want[r] = None => calls[r] = 0
       /\ want[r] # None /\ calls[r] = 0 => r \in query[want[r]].callbacks
  /\ \A n \in Names : \A r \in query[n].callbacks : want[r] = n /\ calls[r] = 0

(* The query a handler has found in its first half is there in its second. *)
HandlerInv ==
  /\ handler.what \in InHand => handler.name \in Names /\ query[handler.name].on
  /\ handler.what \notin InHand => handler.name = None
  /\ handler.what = "retry" => query[handler.name].attempts < MaxUdpAttempts
  /\ \A n \in handler.todo : query[n].on

IInv ==
  /\ TypeOK /\ QueryInv /\ IndexesAgree /\ CallInv /\ HandlerInv /\ QueryTimed
-----------------------------------------------------------------------------
(* The query of n leaves both maps. *)
Removed(n) ==
  /\ query' \in [Names -> QueryType] /\ query'[n] = NoQuery
  /\ armed' \in [Names -> Txids \cup {None}]
  /\ \A m \in Names \ {n} : query'[m] = query[m] /\ armed'[m] = armed[m]
  /\ byId' \in [Txids -> Names \cup {None}]
  /\ \A t \in Txids : byId'[t] = IF byId[t] = n THEN None ELSE byId[t]

(* The query of n is asked (again) as t. *)
Asked(n, t) ==
  /\ query' \in [Names -> QueryType] /\ query'[n].on /\ query'[n].txid = t
  /\ armed' \in [Names -> Txids \cup {None}] /\ armed'[n] = t
  /\ \A m \in Names \ {n} : query'[m] = query[m] /\ armed'[m] = armed[m]
  /\ byId' \in [Txids -> Names \cup {None}]
  /\ byId'[t] = n /\ byId[t] \in {None, n}
  /\ \A u \in Txids \ {t} : byId'[u] = IF byId[u] = n THEN None ELSE byId[u]

(* A handler that lets go of n, if it had it in hand. *)
LetsGo(n) ==
  /\ handler' \in HandlerType /\ handler'.what \notin InHand /\ handler'.name = None
  /\ handler.name \in {n, None}
  /\ handler'.todo \subseteq handler.todo \ {n}

-----------------------------------------------------------------------------
LEMMA NoQueryType == NoQuery \in QueryType /\ ~NoQuery.on /\ NoQuery.callbacks = {}
BY DEF NoQuery, QueryType

LEMMA IdleType ==
  /\ Idle \in HandlerType /\ Idle.what = "idle" /\ Idle.name = None /\ Idle.todo = {}
BY DEF Idle, HandlerType, InHand

(* What the fields of a query are. *)
LEMMA Fields ==
  ASSUME TypeOK, NEW n \in Names
  PROVE  /\ query[n] \in QueryType
         /\ query[n].on \in BOOLEAN /\ query[n].txid \in Txids \cup {None}
         /\ query[n].attempts \in Nat /\ query[n].callbacks \in SUBSET Requests
BY DEF TypeOK, QueryType

(* Calling the callbacks of rs. *)
LEMMA CalledEffect ==
  ASSUME TypeOK, NEW rs \in SUBSET Requests, Called(rs)
  PROVE  /\ calls' \in [Requests -> Nat]
         /\ \A r \in rs : calls'[r] = calls[r] + 1
         /\ \A r \in Requests \ rs : calls'[r] = calls[r]
BY DEF TypeOK, Called

(* Requests stay where they are. *)
LEMMA CallsKept ==
  ASSUME TypeOK, CallInv, UNCHANGED <<want, calls>>,
         \A m \in Names : query'[m].callbacks = query[m].callbacks
  PROVE  CallInv'
BY DEF TypeOK, CallInv

(* All requests of one query are answered. *)
LEMMA CallsFinished ==
  ASSUME TypeOK, CallInv, NEW n \in Names, UNCHANGED want,
         Called(query[n].callbacks), query'[n].callbacks = {},
         \A m \in Names \ {n} : query'[m].callbacks = query[m].callbacks
  PROVE  CallInv'
<1>. DEFINE rs == query[n].callbacks
<1>1. rs \in SUBSET Requests
  BY Fields
<1>2. /\ \A r \in rs : calls'[r] = calls[r] + 1 /\ want[r] = n /\ calls[r] = 0
      /\ \A r \in Requests \ rs : calls'[r] = calls[r]
  BY <1>1, CalledEffect DEF CallInv
<1>3. \A r \in Requests : calls[r] \in Nat /\ want[r] \in Names \cup {None}
  BY DEF TypeOK
<1>4. \A r \in Requests : calls'[r] <= 1 /\ (want[r] = None => calls'[r] = 0)
  BY <1>2, <1>3, ResolverAssumption DEF CallInv
<1>5. ASSUME NEW r \in Requests, want[r] # None, calls'[r] = 0
      PROVE  r \in query'[want[r]].callbacks
  <2>1. r \notin rs /\ calls[r] = 0
    BY <1>2, <1>3, <1>5
  <2>2. r \in query[want[r]].callbacks /\ want[r] \in Names /\ want[r] # n
    BY <1>3, <1>5, <2>1 DEF CallInv
  <2>. QED
    BY <2>2
<1>6. ASSUME NEW m \in Names, NEW r \in query'[m].callbacks
      PROVE  want[r] = m /\ calls'[r] = 0
  <2>1. m # n /\ r \in query[m].callbacks
    BY <1>6
  <2>2. want[r] = m /\ calls[r] = 0 /\ r \in Requests
    BY <2>1, Fields DEF CallInv
  <2>. QED
    BY <1>2, <2>1, <2>2
<1>. QED
  BY <1>4, <1>5, <1>6 DEF CallInv

(* A request is answered at once. *)
LEMMA CallsNow ==
  ASSUME TypeOK, CallInv, NEW n \in Names, NEW r \in Requests, want[r] = None,
         want' = [want EXCEPT ![r] = n], Called({r}),
         \A m \in Names : query'[m].callbacks = query[m].callbacks
  PROVE  CallInv'
<1>1. /\ calls'[r] = calls[r] + 1 /\ calls[r] = 0
      /\ \A x \in Requests \ {r} : calls'[x] = calls[x]
  BY CalledEffect DEF CallInv
<1>2. want'[r] = n /\ \A x \in Requests \ {r} : want'[x] = want[x]
  BY DEF TypeOK
<1>3. n # None
  BY ResolverAssumption
<1>4. \A m \in Names : \A x \in query[m].callbacks : x \in Requests \ {r}
  BY Fields, ResolverAssumption DEF CallInv
<1>. QED
  BY <1>1, <1>2, <1>3, <1>4 DEF TypeOK, CallInv

(* A request joins a query, or begins one. *)
LEMMA CallsJoined ==
  ASSUME TypeOK, CallInv, NEW n \in Names, NEW r \in Requests, want[r] = None,
         want' = [want EXCEPT ![r] = n], UNCHANGED calls,
         query'[n].callbacks = query[n].callbacks \cup {r},
         \A m \in Names \ {n} : query'[m].callbacks = query[m].callbacks
  PROVE  CallInv'
<1>1. want'[r] = n /\ \A x \in Requests \ {r} : want'[x] = want[x]
  BY DEF TypeOK
<1>2. n # None /\ calls[r] = 0
  BY ResolverAssumption DEF CallInv
<1>3. \A m \in Names : \A x \in query[m].callbacks : x \in Requests \ {r}
  BY Fields, ResolverAssumption DEF CallInv
<1>4. ASSUME NEW x \in Requests
      PROVE  /\ calls'[x] <= 1
             /\ want'[x] = None => calls'[x] = 0
             /\ want'[x] # None /\ calls'[x] = 0 => x \in query'[want'[x]].callbacks
  <2>1. CASE x = r
    BY <1>1, <1>2, <2>1
  <2>2. CASE x # r
    <3>1. want'[x] = want[x] /\ calls'[x] = calls[x] /\ want[x] \in Names \cup {None}
      BY <1>1, <2>2 DEF TypeOK
    <3>. QED
      BY <3>1 DEF CallInv
  <2>. QED
    BY <2>1, <2>2
<1>5. ASSUME NEW m \in Names, NEW x \in query'[m].callbacks
      PROVE  want'[x] = m /\ calls'[x] = 0
  <2>1. CASE x = r
    <3>1. m = n
      BY <1>3, <2>1
    <3>. QED
      BY <1>1, <1>2, <2>1, <3>1
  <2>2. CASE x # r
    <3>1. x \in query[m].callbacks
      BY <2>2
    <3>. QED
      BY <1>1, <1>3, <3>1 DEF CallInv
  <2>. QED
    BY <2>1, <2>2
<1>. QED
  BY <1>4, <1>5 DEF CallInv

-----------------------------------------------------------------------------
(* The maps after a query has left them, and after one was asked. *)
LEMMA RemovedMaps ==
  ASSUME TypeOK, QueryInv, IndexesAgree, NEW n \in Names, Removed(n)
  PROVE  QueryInv' /\ IndexesAgree'
<1>1. \A m \in Names : m # None
  BY ResolverAssumption
<1>2. QueryInv'
  BY NoQueryType DEF Removed, QueryInv
<1>3. ASSUME NEW m \in Names, NEW t \in Txids
      PROVE  byId'[t] = m <=> query'[m].on /\ query'[m].txid = t
  <2>1. CASE m = n
    BY <1>1, <2>1, NoQueryType DEF Removed
  <2>2. CASE m # n
    <3>1. query'[m] = query[m] /\ (byId'[t] = m <=> byId[t] = m)
      BY <1>1, <2>2 DEF Removed
    <3>. QED
      BY <3>1 DEF IndexesAgree
  <2>. QED
    BY <2>1, <2>2
<1>. QED
  BY <1>2, <1>3 DEF IndexesAgree

LEMMA AskedMaps ==
  ASSUME TypeOK, QueryInv, IndexesAgree, NEW n \in Names, NEW t \in Txids, Asked(n, t)
  PROVE  QueryInv' /\ IndexesAgree'
<1>1. \A m \in Names : m # None
  BY ResolverAssumption
<1>2. QueryInv'
  BY DEF Asked, QueryInv
<1>3. ASSUME NEW m \in Names, NEW u \in Txids
      PROVE  byId'[u] = m <=> query'[m].on /\ query'[m].txid = u
  <2>1. CASE m = n
    <3>1. byId'[u] = n <=> u = t
      BY <1>1 DEF Asked
    <3>. QED
      BY <2>1, <3>1 DEF Asked
  <2>2. CASE m # n
    <3>1. query'[m] = query[m] /\ (byId'[u] = m <=> byId[u] = m)
      BY <1>1, <2>2 DEF Asked
    <3>. QED
      BY <3>1 DEF IndexesAgree
  <2>. QED
    BY <2>1, <2>2
<1>. QED
  BY <1>2, <1>3 DEF IndexesAgree

(* A step that ends the query of n. *)
LEMMA RemovedInv ==
  ASSUME IInv, NEW n \in Names, Removed(n), LetsGo(n), Called(query[n].callbacks),
         UNCHANGED <<life, want, posted>>
  PROVE  IInv'
<1>1. TypeOK /\ QueryInv /\ IndexesAgree /\ CallInv /\ HandlerInv /\ QueryTimed
  BY DEF IInv
<1>2. TypeOK'
  BY <1>1, Fields, CalledEffect DEF TypeOK, Removed, LetsGo
<1>3. QueryInv' /\ IndexesAgree'
  BY <1>1, RemovedMaps
<1>4. CallInv'
  <2>1. query'[n].callbacks = {}
    BY NoQueryType DEF Removed
  <2>2. \A m \in Names \ {n} : query'[m].callbacks = query[m].callbacks
    BY DEF Removed
  <2>. QED
    BY <1>1, <2>1, <2>2, CallsFinished
<1>5. HandlerInv'
  BY <1>1 DEF HandlerInv, LetsGo, Removed, InHand, TypeOK, HandlerType
<1>6. QueryTimed'
  <2>1. SUFFICES ASSUME NEW m \in Names, query'[m].on
                 PROVE  /\ handler'.name = m \/ armed'[m] = query'[m].txid
                           \/ posted'[query'[m].txid] > 0
                        /\ query'[m].attempts <= MaxUdpAttempts
    BY DEF QueryTimed, Pending
  <2>2. m # n /\ query'[m] = query[m] /\ armed'[m] = armed[m]
    BY <2>1, NoQueryType DEF Removed
  <2>3. handler.name # m
    BY <2>2, ResolverAssumption DEF LetsGo
  <2>. QED
    BY <1>1, <2>1, <2>2, <2>3 DEF QueryTimed, Pending
<1>. QED
  BY <1>2, <1>3, <1>4, <1>5, <1>6 DEF IInv

(* A step that asks the question of n again. *)
LEMMA AskedInv ==
  ASSUME IInv, NEW n \in Names, NEW t \in Txids, Asked(n, t), LetsGo(n),
         query'[n].callbacks = query[n].callbacks,
         query'[n].attempts <= MaxUdpAttempts,
         UNCHANGED <<life, want, posted, calls>>
  PROVE  IInv'
<1>1. TypeOK /\ QueryInv /\ IndexesAgree /\ CallInv /\ HandlerInv /\ QueryTimed
  BY DEF IInv
<1>2. TypeOK'
  BY <1>1 DEF TypeOK, Asked, LetsGo
<1>3. QueryInv' /\ IndexesAgree'
  BY <1>1, AskedMaps
<1>4. CallInv'
  <2>1. \A m \in Names : query'[m].callbacks = query[m].callbacks
    BY DEF Asked
  <2>. QED
    BY <1>1, <2>1, CallsKept
<1>5. HandlerInv'
  BY <1>1 DEF HandlerInv, LetsGo, Asked, InHand, TypeOK, HandlerType
<1>6. QueryTimed'
  <2>1. SUFFICES ASSUME NEW m \in Names, query'[m].on
                 PROVE  /\ handler'.name = m \/ armed'[m] = query'[m].txid
                           \/ posted'[query'[m].txid] > 0
                        /\ query'[m].attempts <= MaxUdpAttempts
    BY DEF QueryTimed, Pending
  <2>2. CASE m = n
    BY <2>2 DEF Asked
  <2>3. CASE m # n
    <3>1. query'[m] = query[m] /\ armed'[m] = armed[m]
      BY <2>3 DEF Asked
    <3>2. handler.name # m
      BY <2>3, ResolverAssumption DEF LetsGo
    <3>. QED
      BY <1>1, <2>1, <3>1, <3>2 DEF QueryTimed, Pending
  <2>. QED
    BY <2>2, <2>3
<1>. QED
  BY <1>2, <1>3, <1>4, <1>5, <1>6 DEF IInv

-----------------------------------------------------------------------------
(* The second half of a handler, when it ends, lets go of its query.       *)
LEMMA HandlerEndsEffect ==
  ASSUME IInv, HandlerEnds, NEW n \in Names, handler.name \in {n, None}
  PROVE  LetsGo(n)
<1>1. handler' \in HandlerType /\ handler'.what \in {"idle", "repost"}
      /\ handler'.name = None /\ handler'.todo = {}
  BY DEF HandlerEnds, Idle, HandlerType, InHand
<1>. QED
  BY <1>1 DEF LetsGo, InHand

(* FinishQuery takes the query of n out of both maps. *)
LEMMA FinishEffect ==
  ASSUME TypeOK, QueryInv, IndexesAgree, NEW n \in Names, query[n].on, FinishQuery(n)
  PROVE  Removed(n) /\ Called(query[n].callbacks)
<1>1. query[n].txid \in Txids
  BY DEF QueryInv
<1>2. \A t \in Txids : byId[t] = n <=> t = query[n].txid
  BY DEF IndexesAgree
<1>3. /\ query' \in [Names -> QueryType] /\ query'[n] = NoQuery
      /\ \A m \in Names \ {n} : query'[m] = query[m]
  BY NoQueryType DEF FinishQuery, TypeOK
<1>4. /\ armed' \in [Names -> Txids \cup {None}]
      /\ \A m \in Names \ {n} : armed'[m] = armed[m]
  BY DEF FinishQuery, TypeOK
<1>5. /\ byId' \in [Txids -> Names \cup {None}]
      /\ \A t \in Txids : byId'[t] = IF byId[t] = n THEN None ELSE byId[t]
  BY <1>1, <1>2 DEF FinishQuery, WithoutOldId, TypeOK
<1>. QED
  BY <1>3, <1>4, <1>5 DEF Removed, FinishQuery

(* BeginUdpQueryLocked, with a map of ids from which n has been taken.     *)
LEMMA BeginEffect ==
  ASSUME TypeOK, NEW n \in Names, NEW p \in QueryType, p.on, p.txid \in Txids,
         NEW ids \in [Txids -> Names \cup {None}], ids[p.txid] = None,
         \A u \in Txids : ids[u] = IF byId[u] = n THEN None ELSE byId[u],
         NEW ok \in BOOLEAN, BeginUdpQueryLocked(n, p, ids, ok)
  PROVE  \/ /\ Asked(n, p.txid) /\ UNCHANGED calls
            /\ query'[n].callbacks = p.callbacks /\ query'[n].attempts = p.attempts + 1
         \/ Removed(n) /\ Called(p.callbacks)
<1>1. CASE ok
  <2>. DEFINE q == [p EXCEPT !.attempts = Counted(p), !.viaTcp = FALSE]
  <2>1. /\ q \in QueryType /\ q.on /\ q.txid = p.txid
        /\ q.callbacks = p.callbacks /\ q.attempts = p.attempts + 1
    <3>1. Counted(p) = p.attempts + 1 /\ Counted(p) \in Nat
      BY DEF QueryType, Counted
    <3>2. q \in QueryType
      BY <3>1 DEF QueryType
    <3>3. q.on = p.on /\ q.txid = p.txid /\ q.callbacks = p.callbacks
      BY DEF QueryType
    <3>4. q.attempts = Counted(p)
      BY DEF QueryType
    <3>. QED
      BY <3>1, <3>2, <3>3, <3>4
  <2>2. /\ query' = [query EXCEPT ![n] = q]
        /\ byId' = [ids EXCEPT ![p.txid] = n]
        /\ armed' = [armed EXCEPT ![n] = p.txid]
        /\ UNCHANGED calls
    BY <1>1 DEF BeginUdpQueryLocked
  <2>. HIDE DEF q
  <2>3. /\ query' \in [Names -> QueryType] /\ query'[n] = q
        /\ \A m \in Names \ {n} : query'[m] = query[m]
    BY <2>1, <2>2 DEF TypeOK
  <2>4. /\ armed' \in [Names -> Txids \cup {None}] /\ armed'[n] = p.txid
        /\ \A m \in Names \ {n} : armed'[m] = armed[m]
    BY <2>2 DEF TypeOK
  <2>5. /\ byId' \in [Txids -> Names \cup {None}] /\ byId'[p.txid] = n
        /\ byId[p.txid] \in {None, n}
        /\ \A u \in Txids \ {p.txid} : byId'[u] = IF byId[u] = n THEN None ELSE byId[u]
    BY <2>2
  <2>. QED
    BY <2>1, <2>2, <2>3, <2>4, <2>5 DEF Asked
<1>2. CASE ~ok
  <2>1. /\ query' = [query EXCEPT ![n] = NoQuery] /\ byId' = ids
        /\ armed' = [armed EXCEPT ![n] = None] /\ Called(p.callbacks)
    BY <1>2 DEF BeginUdpQueryLocked
  <2>2. /\ query' \in [Names -> QueryType] /\ query'[n] = NoQuery
        /\ \A m \in Names \ {n} : query'[m] = query[m]
    BY <2>1, NoQueryType DEF TypeOK
  <2>3. /\ armed' \in [Names -> Txids \cup {None}]
        /\ \A m \in Names \ {n} : armed'[m] = armed[m]
    BY <2>1 DEF TypeOK
  <2>. QED
    BY <2>1, <2>2, <2>3 DEF Removed
<1>. QED
  BY <1>1, <1>2

(* StartTcpFallback for a query: it is still asked as before, or ends.     *)
LEMMA FallbackEffect ==
  ASSUME TypeOK, QueryInv, IndexesAgree, NEW n \in Names, query[n].on, StartTcpFallback(n)
  PROVE  \/ /\ Asked(n, query[n].txid) /\ UNCHANGED calls
            /\ query'[n].callbacks = query[n].callbacks
            /\ query'[n].attempts = query[n].attempts
         \/ Removed(n) /\ Called(query[n].callbacks)
<1>1. CASE FinishQuery(n)
  BY <1>1, FinishEffect
<1>2. ASSUME NEW k \in FreeTcp,
             query' = [query EXCEPT ![n].viaTcp = TRUE, ![n].tcp = k],
             armed' = [armed EXCEPT ![n] = ArmedForTcp(n)],
             UNCHANGED <<byId, calls>>
      PROVE  /\ Asked(n, query[n].txid) /\ UNCHANGED calls
             /\ query'[n].callbacks = query[n].callbacks
             /\ query'[n].attempts = query[n].attempts
  <2>. DEFINE t == query[n].txid
  <2>1. k \in Tcps
    BY DEF FreeTcp
  <2>2. t \in Txids /\ byId[t] = n /\ \A u \in Txids \ {t} : byId[u] # n
    BY DEF QueryInv, IndexesAgree
  <2>3. /\ query' \in [Names -> QueryType] /\ query'[n].on /\ query'[n].txid = t
        /\ \A m \in Names \ {n} : query'[m] = query[m]
        /\ query'[n].callbacks = query[n].callbacks
        /\ query'[n].attempts = query[n].attempts
    BY <1>2, <2>1, ZenonT(60) DEF TypeOK, QueryType
  <2>4. /\ armed' \in [Names -> Txids \cup {None}] /\ armed'[n] = t
        /\ \A m \in Names \ {n} : armed'[m] = armed[m]
    BY <1>2, <2>2 DEF ArmedForTcp, TypeOK
  <2>. QED
    BY <1>2, <2>2, <2>3, <2>4 DEF Asked, TypeOK
<1>. QED
  BY <1>1, <1>2 DEF StartTcpFallback

-----------------------------------------------------------------------------
LEMMA AskAgainInv ==
  ASSUME IInv, AskAgain
  PROVE  IInv'
<1>. DEFINE n == handler.name
            p == query[n]
<1>1. TypeOK /\ QueryInv /\ IndexesAgree /\ CallInv /\ HandlerInv /\ QueryTimed
  BY DEF IInv
<1>2. /\ handler.what \in {"retry", "aaaa"} /\ HandlerEnds
      /\ UNCHANGED <<life, posted, want>>
  BY DEF AskAgain
<1>3. n \in Names /\ p.on
  BY <1>1, <1>2 DEF HandlerInv, InHand
<1>4. p \in QueryType /\ p.attempts \in Nat /\ p.txid \in Txids
  BY <1>1, <1>3, Fields DEF QueryInv
<1>5. PICK t \in Unused(WithoutOldId(p)), ok \in BOOLEAN :
        BeginUdpQueryLocked(n,
          IF handler.what = "retry" THEN [p EXCEPT !.txid = t, !.tcp = None]
          ELSE [p EXCEPT !.txid = t, !.tcp = None, !.aaaa = TRUE, !.attempts = 0],
          WithoutOldId(p), ok)
  BY DEF AskAgain
<1>. DEFINE q == IF handler.what = "retry" THEN [p EXCEPT !.txid = t, !.tcp = None]
                 ELSE [p EXCEPT !.txid = t, !.tcp = None, !.aaaa = TRUE, !.attempts = 0]
            ids == WithoutOldId(p)
<1>6. BeginUdpQueryLocked(n, q, ids, ok)
  BY <1>5
<1>7. LetsGo(n)
  BY <1>2, <1>3, HandlerEndsEffect
<1>8. t \in Txids /\ ids[t] = None
  BY <1>5 DEF Unused
<1>9. /\ ids \in [Txids -> Names \cup {None}]
      /\ \A u \in Txids : ids[u] = IF byId[u] = n THEN None ELSE byId[u]
  BY <1>1, <1>3, <1>4 DEF WithoutOldId, TypeOK, IndexesAgree
<1>10. /\ q \in QueryType /\ q.on /\ q.txid = t /\ q.callbacks = p.callbacks
       /\ q.attempts = IF handler.what = "retry" THEN p.attempts ELSE 0
  BY <1>3, <1>4, <1>8 DEF QueryType
<1>11. q.attempts + 1 <= MaxUdpAttempts
  BY <1>1, <1>2, <1>4, <1>10, ResolverAssumption DEF HandlerInv
<1>. HIDE DEF n, p, q, ids
<1>12. \/ /\ Asked(n, q.txid) /\ UNCHANGED calls
          /\ query'[n].callbacks = q.callbacks /\ query'[n].attempts = q.attempts + 1
       \/ Removed(n) /\ Called(q.callbacks)
  BY <1>1, <1>3, <1>6, <1>8, <1>9, <1>10, BeginEffect
<1>13. CASE Removed(n) /\ Called(q.callbacks)
  BY <1>2, <1>3, <1>7, <1>10, <1>13, RemovedInv DEF p
<1>14. CASE /\ Asked(n, q.txid) /\ UNCHANGED calls
            /\ query'[n].callbacks = q.callbacks /\ query'[n].attempts = q.attempts + 1
  <2>1. query'[n].callbacks = query[n].callbacks /\ query'[n].attempts <= MaxUdpAttempts
    BY <1>10, <1>11, <1>14 DEF p
  <2>. QED
    BY <1>2, <1>3, <1>7, <1>8, <1>10, <1>14, <2>1, AskedInv
<1>. QED
  BY <1>12, <1>13, <1>14

LEMMA FinishInv ==
  ASSUME IInv, Finish
  PROVE  IInv'
<1>1. handler.name \in Names /\ query[handler.name].on
  BY DEF IInv, HandlerInv, Finish, InHand
<1>2. /\ FinishQuery(handler.name) /\ HandlerEnds /\ UNCHANGED <<life, posted, want>>
  BY DEF Finish
<1>3. Removed(handler.name) /\ Called(query[handler.name].callbacks)
  BY <1>1, <1>2, FinishEffect DEF IInv
<1>4. LetsGo(handler.name)
  BY <1>1, <1>2, HandlerEndsEffect
<1>. QED
  BY <1>1, <1>2, <1>3, <1>4, RemovedInv

(* A fallback to TCP, by a handler that lets go of the query. *)
LEMMA TcpInv ==
  ASSUME IInv, NEW n \in Names, query[n].on, StartTcpFallback(n), LetsGo(n),
         UNCHANGED <<life, posted, want>>
  PROVE  IInv'
<1>1. TypeOK /\ QueryInv /\ IndexesAgree /\ QueryTimed
  BY DEF IInv
<1>2. query[n].txid \in Txids /\ query[n].attempts <= MaxUdpAttempts
  BY <1>1 DEF QueryInv, QueryTimed, Pending
<1>3. CASE Removed(n) /\ Called(query[n].callbacks)
  BY <1>3, RemovedInv
<1>4. CASE /\ Asked(n, query[n].txid) /\ UNCHANGED calls
           /\ query'[n].callbacks = query[n].callbacks
           /\ query'[n].attempts = query[n].attempts
  <2>1. query'[n].attempts <= MaxUdpAttempts
    BY <1>2, <1>4
  <2>. QED
    BY <1>2, <1>4, <2>1, AskedInv
<1>. QED
  BY <1>1, <1>3, <1>4, FallbackEffect

LEMMA FallbackInv ==
  ASSUME IInv, Fallback
  PROVE  IInv'
<1>1. handler.name \in Names /\ query[handler.name].on
  BY DEF IInv, HandlerInv, Fallback, InHand
<1>2. /\ StartTcpFallback(handler.name) /\ HandlerEnds /\ UNCHANGED <<life, posted, want>>
  BY DEF Fallback
<1>3. LetsGo(handler.name)
  BY <1>1, <1>2, HandlerEndsEffect
<1>. QED
  BY <1>1, <1>2, <1>3, TcpInv

(* Steps that touch no query, timer, request or handler. *)
LEMMA StillInv ==
  ASSUME IInv, life' \in {"running", "stopping", "stopped", "destroyed"},
         UNCHANGED <<query, byId, armed, posted, want, calls, handler>>
  PROVE  IInv'
BY DEF IInv, TypeOK, QueryInv, IndexesAgree, CallInv, HandlerInv, QueryTimed, Pending

(* A handler that takes nothing in hand, with no query in hand before.     *)
LEMMA HandlerOnly ==
  ASSUME IInv, handler.what \notin InHand, handler' \in HandlerType,
         handler'.what \notin InHand, handler'.name = None,
         \A n \in handler'.todo : n \in Names /\ query[n].on,
         UNCHANGED <<life, query, byId, armed, posted, want, calls>>
  PROVE  IInv'
<1>1. TypeOK /\ QueryInv /\ IndexesAgree /\ CallInv /\ HandlerInv /\ QueryTimed
  BY DEF IInv
<1>2. TypeOK' /\ QueryInv' /\ IndexesAgree' /\ CallInv'
  BY <1>1 DEF TypeOK, QueryInv, IndexesAgree, CallInv
<1>3. HandlerInv'
  BY DEF HandlerInv, InHand
<1>4. QueryTimed'
  BY <1>1, ResolverAssumption DEF QueryTimed, Pending, HandlerInv
<1>. QED
  BY <1>2, <1>3, <1>4 DEF IInv

LEMMA FallbackAllInv ==
  ASSUME IInv, FallbackAll
  PROVE  IInv'
<1>1. /\ handler \in HandlerType /\ handler.what = "fallback" /\ handler.name = None
      /\ handler.todo \in SUBSET Names /\ \A n \in handler.todo : query[n].on
      /\ UNCHANGED <<life, posted, want>>
  BY DEF IInv, TypeOK, HandlerType, HandlerInv, FallbackAll, InHand
<1>2. CASE handler.todo = {}
  <2>1. handler' = Idle /\ UNCHANGED <<query, byId, armed, calls>>
    BY <1>2 DEF FallbackAll, mapVars
  <2>. QED
    BY <1>1, <2>1, IdleType, HandlerOnly DEF InHand
<1>3. ASSUME NEW n \in handler.todo, StartTcpFallback(n),
             handler' = [handler EXCEPT !.todo = @ \ {n}]
      PROVE  IInv'
  <2>1. LetsGo(n)
    BY <1>1, <1>3 DEF LetsGo, HandlerType, InHand
  <2>. QED
    BY <1>1, <1>3, <2>1, TcpInv
<1>. QED
  BY <1>2, <1>3 DEF FallbackAll

LEMMA RepostInv ==
  ASSUME IInv, Repost
  PROVE  IInv'
<1>1. /\ handler.what = "repost"
      /\ UNCHANGED <<life, query, byId, armed, posted, want, calls>>
  BY DEF Repost, mapVars, timerVars, userVars
<1>2. CASE handler' = Idle
  BY <1>1, <1>2, IdleType, HandlerOnly DEF InHand
<1>3. CASE handler' = [Idle EXCEPT !.what = "fallback",
                                   !.todo = {n \in Pending : ~query[n].viaTcp}]
  <2>1. /\ handler' \in HandlerType /\ handler'.what = "fallback" /\ handler'.name = None
        /\ \A n \in handler'.todo : n \in Names /\ query[n].on
    BY <1>3 DEF Idle, HandlerType, Pending
  <2>. QED
    BY <1>1, <2>1, HandlerOnly DEF InHand
<1>. QED
  BY <1>2, <1>3 DEF Repost

-----------------------------------------------------------------------------
(* A TCP attempt that is under way has a transaction id. *)
AttemptType ==
  [phase : {"free", "posted", "deliver"}, txid : Txids \cup {None},
   done : BOOLEAN, res : Answers \cup {"invalid"}]

AttemptInv ==
  /\ tcp \in [Tcps -> AttemptType]
  /\ \A k \in Tcps : tcp[k].phase # "free" => tcp[k].txid \in Txids

(* The first half of a handler: the query that is found is taken in hand,  *)
(* and a timeout that is taken out of the port was not needed any more.    *)
LEMMA ResultInv ==
  ASSUME IInv, handler = Idle, NEW t \in Txids, NEW res, NEW fromTcp \in BOOLEAN,
         NEW timeout \in BOOLEAN, NEW received \in BOOLEAN,
         OnQueryResult(t, res, fromTcp, timeout, received),
         UNCHANGED <<life, query, byId, want, calls>>, posted' \in [Txids -> Nat],
         \A u \in Txids : posted'[u] = posted[u] \/ (u = t /\ timeout)
  PROVE  IInv'
<1>. DEFINE n == byId[t]
            repost == IF received THEN [Idle EXCEPT !.what = "repost"] ELSE Idle
<1>1. TypeOK /\ QueryInv /\ IndexesAgree /\ CallInv /\ HandlerInv /\ QueryTimed
  BY DEF IInv
<1>2. QueryInv' /\ IndexesAgree' /\ CallInv'
  BY <1>1 DEF QueryInv, IndexesAgree, CallInv
<1>3. n \in Names \cup {None} /\ handler.name = None /\ handler.todo = {}
  BY <1>1, IdleType DEF TypeOK
<1>4. \A m \in Names : query[m].on /\ query[m].txid = t => m = n
  BY <1>1 DEF IndexesAgree
<1>5. CASE n = None \/ Late(n, fromTcp, timeout)
  <2>1. handler' = repost /\ UNCHANGED armed
    BY <1>5 DEF OnQueryResult
  <2>2. /\ handler' \in HandlerType /\ handler'.what \notin InHand
        /\ handler'.name = None /\ handler'.todo = {}
    BY <2>1 DEF Idle, HandlerType, InHand
  <2>3. TypeOK'
    BY <1>1, <2>1, <2>2 DEF TypeOK
  <2>4. HandlerInv'
    BY <2>2 DEF HandlerInv, InHand
  <2>5. QueryTimed'
    <3>1. SUFFICES ASSUME NEW m \in Names, query[m].on
                   PROVE  /\ armed[m] = query[m].txid \/ posted'[query[m].txid] > 0
                          /\ query[m].attempts <= MaxUdpAttempts
      BY <2>1 DEF QueryTimed, Pending
    <3>2. /\ armed[m] = query[m].txid \/ posted[query[m].txid] > 0
          /\ query[m].attempts <= MaxUdpAttempts
      BY <1>1, <1>3, <3>1, ResolverAssumption DEF QueryTimed, Pending
    <3>3. query[m].txid \in Txids
      BY <1>1, <3>1 DEF QueryInv
    <3>4. timeout => query[m].txid # t
      BY <1>4, <1>5, <3>1, ResolverAssumption DEF Late
    <3>. QED
      BY <3>2, <3>3, <3>4
  <2>. QED
    BY <1>2, <2>3, <2>4, <2>5 DEF IInv
<1>6. CASE ~(n = None \/ Late(n, fromTcp, timeout))
  <2>. DEFINE v == Verdict(query[n], res, fromTcp, timeout)
  <2>1. /\ armed' = [armed EXCEPT ![n] = None]
        /\ handler' = [Idle EXCEPT !.what = v, !.name = n, !.recv = received]
    BY <1>6 DEF OnQueryResult
  <2>2. n \in Names /\ query[n].on /\ query[n].txid = t
    BY <1>1, <1>3, <1>6 DEF IndexesAgree
  <2>3. v \in InHand /\ (v = "retry" => query[n].attempts < MaxUdpAttempts)
    BY DEF Verdict, InHand, MayRetry
  <2>. HIDE DEF v
  <2>4. /\ handler' \in HandlerType /\ handler'.what = v
        /\ handler'.name = n /\ handler'.todo = {}
    BY <2>1, <2>2, <2>3 DEF Idle, HandlerType
  <2>5. TypeOK'
    BY <1>1, <2>1, <2>4 DEF TypeOK
  <2>6. HandlerInv'
    BY <2>2, <2>3, <2>4 DEF HandlerInv
  <2>7. QueryTimed'
    <3>1. SUFFICES ASSUME NEW m \in Names, query[m].on
                   PROVE  /\ \/ m = n \/ armed'[m] = query[m].txid
                             \/ posted'[query[m].txid] > 0
                          /\ query[m].attempts <= MaxUdpAttempts
      BY <2>4 DEF QueryTimed, Pending
    <3>2. /\ armed[m] = query[m].txid \/ posted[query[m].txid] > 0
          /\ query[m].attempts <= MaxUdpAttempts
      BY <1>1, <1>3, <3>1, ResolverAssumption DEF QueryTimed, Pending
    <3>3. query[m].txid \in Txids
      BY <1>1, <3>1 DEF QueryInv
    <3>4. m # n => query[m].txid # t /\ armed'[m] = armed[m]
      BY <1>1, <1>4, <2>1, <3>1 DEF TypeOK
    <3>. QED
      BY <3>2, <3>3, <3>4
  <2>. QED
    BY <1>2, <2>5, <2>6, <2>7 DEF IInv
<1>. QED
  BY <1>5, <1>6

LEMMA OnRecvFromInv ==
  ASSUME IInv, OnRecvFrom
  PROVE  IInv'
<1>1. /\ handler = Idle /\ UNCHANGED <<life, query, byId, posted, want, calls>>
      /\ posted \in [Txids -> Nat]
  BY DEF OnRecvFrom, mapVars, userVars, IInv, TypeOK
<1>2. CASE handler' = [Idle EXCEPT !.what = "repost"] /\ UNCHANGED armed
  <2>1. /\ handler' \in HandlerType /\ handler'.what = "repost"
        /\ handler'.name = None /\ handler'.todo = {}
    BY <1>2 DEF Idle, HandlerType
  <2>. QED
    BY <1>1, <1>2, <2>1, IdleType, HandlerOnly DEF InHand
<1>3. ASSUME NEW t \in Txids, NEW res \in Answers,
             OnQueryResult(t, res, FALSE, FALSE, TRUE)
      PROVE  IInv'
  BY <1>1, <1>3, ResultInv
<1>. QED
  BY <1>2, <1>3 DEF OnRecvFrom

LEMMA OnTimeoutInv ==
  ASSUME IInv, NEW t \in Txids, OnTimeout(t)
  PROVE  IInv'
<1>1. /\ handler = Idle /\ UNCHANGED <<life, query, byId, want, calls>>
      /\ posted' = [posted EXCEPT ![t] = @ - 1] /\ posted[t] > 0
      /\ OnQueryResult(t, "invalid", FALSE, TRUE, FALSE)
  BY DEF OnTimeout, mapVars, userVars
<1>2. posted' \in [Txids -> Nat] /\ \A u \in Txids : posted'[u] = posted[u] \/ u = t
  BY <1>1 DEF IInv, TypeOK
<1>. QED
  BY <1>1, <1>2, ResultInv

LEMMA DeliverTcpInv ==
  ASSUME IInv, AttemptInv, NEW k \in Tcps, DeliverTcp(k)
  PROVE  IInv'
<1>1. /\ handler = Idle /\ UNCHANGED <<life, query, byId, posted, want, calls>>
      /\ posted \in [Txids -> Nat] /\ tcp[k].txid \in Txids
  BY DEF DeliverTcp, mapVars, userVars, IInv, TypeOK, AttemptInv
<1>2. CASE life = "destroyed"
  <2>1. handler' = [Idle EXCEPT !.what = "crashed"] /\ UNCHANGED armed
    BY <1>2 DEF DeliverTcp
  <2>2. /\ handler' \in HandlerType /\ handler'.what = "crashed"
        /\ handler'.name = None /\ handler'.todo = {}
    BY <2>1 DEF Idle, HandlerType
  <2>. QED
    BY <1>1, <2>1, <2>2, IdleType, HandlerOnly DEF InHand
<1>3. CASE life # "destroyed"
  <2>1. OnQueryResult(tcp[k].txid, tcp[k].res, TRUE, FALSE, FALSE)
    BY <1>3 DEF DeliverTcp
  <2>. QED
    BY <1>1, <2>1, ResultInv
<1>. QED
  BY <1>2, <1>3

LEMMA TimerDueInv ==
  ASSUME IInv, NEW n \in Names, TimerDue(n)
  PROVE  IInv'
<1>1. TypeOK /\ QueryInv /\ IndexesAgree /\ CallInv /\ HandlerInv /\ QueryTimed
  BY DEF IInv
<1>2. /\ armed[n] # None /\ armed' = [armed EXCEPT ![n] = None]
      /\ posted' = [posted EXCEPT ![armed[n]] = @ + 1]
      /\ UNCHANGED <<life, query, byId, handler, want, calls>>
  BY DEF TimerDue, mapVars, userVars
<1>3. armed[n] \in Txids
  BY <1>1, <1>2 DEF TypeOK
<1>4. /\ posted' \in [Txids -> Nat] /\ posted'[armed[n]] > 0
      /\ \A u \in Txids : posted[u] > 0 => posted'[u] > 0
  BY <1>1, <1>2, <1>3 DEF TypeOK
<1>5. TypeOK'
  BY <1>1, <1>2, <1>4 DEF TypeOK
<1>6. QueryInv' /\ IndexesAgree' /\ CallInv' /\ HandlerInv'
  BY <1>1, <1>2 DEF QueryInv, IndexesAgree, CallInv, HandlerInv
<1>7. QueryTimed'
  <2>1. SUFFICES ASSUME NEW m \in Names, query[m].on
                 PROVE  /\ \/ handler.name = m \/ armed'[m] = query[m].txid
                           \/ posted'[query[m].txid] > 0
                        /\ query[m].attempts <= MaxUdpAttempts
    BY <1>2 DEF QueryTimed, Pending
  <2>2. /\ \/ handler.name = m \/ armed[m] = query[m].txid
           \/ posted[query[m].txid] > 0
        /\ query[m].attempts <= MaxUdpAttempts
    BY <1>1, <2>1 DEF QueryTimed, Pending
  <2>3. query[m].txid \in Txids
    BY <1>1, <2>1 DEF QueryInv
  <2>4. m # n => armed'[m] = armed[m]
    BY <1>1, <1>2 DEF TypeOK
  <2>. QED
    BY <1>4, <2>2, <2>3, <2>4
<1>. QED
  BY <1>5, <1>6, <1>7 DEF IInv

-----------------------------------------------------------------------------
(* What a request may do to the queries: it takes none away, and one that  *)
(* it begins is timed and counted.                                         *)
LEMMA RequestInv ==
  ASSUME IInv, UNCHANGED <<life, posted, handler>>,
         query' \in [Names -> QueryType], byId' \in [Txids -> Names \cup {None}],
         armed' \in [Names -> Txids \cup {None}],
         want' \in [Requests -> Names \cup {None}], calls' \in [Requests -> Nat],
         QueryInv', IndexesAgree', CallInv',
         \A m \in Names : query[m].on =>
           /\ query'[m].on /\ query'[m].txid = query[m].txid
           /\ query'[m].attempts = query[m].attempts /\ armed'[m] = armed[m],
         \A m \in Names : query'[m].on /\ ~query[m].on =>
           armed'[m] = query'[m].txid /\ query'[m].attempts <= MaxUdpAttempts
  PROVE  IInv'
<1>1. TypeOK /\ HandlerInv /\ QueryTimed
  BY DEF IInv
<1>2. TypeOK'
  BY <1>1 DEF TypeOK
<1>3. HandlerInv'
  <2>1. handler.todo \in SUBSET Names
    BY <1>1 DEF TypeOK, HandlerType
  <2>. QED
    BY <1>1, <2>1 DEF HandlerInv, InHand
<1>4. QueryTimed'
  <2>1. SUFFICES ASSUME NEW m \in Names, query'[m].on
                 PROVE  /\ \/ handler.name = m \/ armed'[m] = query'[m].txid
                           \/ posted[query'[m].txid] > 0
                        /\ query'[m].attempts <= MaxUdpAttempts
    BY DEF QueryTimed, Pending
  <2>. QED
    BY <1>1, <2>1 DEF QueryTimed, Pending
<1>. QED
  BY <1>2, <1>3, <1>4 DEF IInv

LEMMA JoinInv ==
  ASSUME IInv, NEW r \in Requests, NEW n \in Names, want[r] = None, Join(r, n),
         want' = [want EXCEPT ![r] = n], UNCHANGED <<life, posted, handler>>
  PROVE  IInv'
<1>1. TypeOK /\ QueryInv /\ IndexesAgree /\ CallInv
  BY DEF IInv
<1>2. /\ query' = [query EXCEPT ![n].callbacks = @ \cup {r}] /\ query[n].on
      /\ UNCHANGED <<byId, armed, calls>>
  BY DEF Join
<1>3. /\ query' \in [Names -> QueryType]
      /\ query'[n].callbacks = query[n].callbacks \cup {r}
      /\ query'[n].on = query[n].on /\ query'[n].txid = query[n].txid
      /\ query'[n].attempts = query[n].attempts
      /\ \A m \in Names \ {n} : query'[m] = query[m]
  <2>. DEFINE q == [query[n] EXCEPT !.callbacks = @ \cup {r}]
  <2>1. query[n] \in QueryType
    BY <1>1 DEF TypeOK
  <2>2. /\ q \in QueryType /\ q.callbacks = query[n].callbacks \cup {r}
        /\ q.on = query[n].on /\ q.txid = query[n].txid
        /\ q.attempts = query[n].attempts
    BY <2>1 DEF QueryType
  <2>3. query' = [query EXCEPT ![n] = q]
    BY <1>2
  <2>. HIDE DEF q
  <2>4. /\ query' \in [Names -> QueryType] /\ query'[n] = q
        /\ \A m \in Names \ {n} : query'[m] = query[m]
    BY <1>1, <2>2, <2>3 DEF TypeOK
  <2>. QED
    BY <2>2, <2>4
<1>4. QueryInv' /\ IndexesAgree'
  BY <1>1, <1>2, <1>3 DEF QueryInv, IndexesAgree
<1>5. CallInv'
  BY <1>1, <1>2, <1>3, CallsJoined
<1>6. /\ want' \in [Requests -> Names \cup {None}] /\ calls' \in [Requests -> Nat]
      /\ byId' \in [Txids -> Names \cup {None}]
      /\ armed' \in [Names -> Txids \cup {None}]
  BY <1>1, <1>2 DEF TypeOK
<1>. QED
  BY <1>2, <1>3, <1>4, <1>5, <1>6, RequestInv

LEMMA AskInv ==
  ASSUME IInv, NEW r \in Requests, NEW n \in Names, want[r] = None, Ask(r, n),
         want' = [want EXCEPT ![r] = n], UNCHANGED <<life, posted, handler>>
  PROVE  IInv'
<1>1. TypeOK /\ QueryInv /\ IndexesAgree /\ CallInv
  BY DEF IInv
<1>2. query[n] = NoQuery /\ ~query[n].on
  BY <1>1 DEF Ask, QueryInv
<1>3. PICK t \in Unused(byId), ok \in BOOLEAN :
        BeginUdpQueryLocked(n, [NoQuery EXCEPT !.on = TRUE, !.txid = t,
                                               !.callbacks = {r}], byId, ok)
  BY DEF Ask
<1>. DEFINE q == [NoQuery EXCEPT !.on = TRUE, !.txid = t, !.callbacks = {r}]
<1>4. t \in Txids /\ byId[t] = None
  BY <1>3 DEF Unused
<1>5. /\ q \in QueryType /\ q.on /\ q.txid = t /\ q.callbacks = {r} /\ q.attempts = 0
  BY <1>4 DEF QueryType, NoQuery
<1>6. BeginUdpQueryLocked(n, q, byId, ok)
  BY <1>3
<1>. HIDE DEF q
<1>7. /\ byId \in [Txids -> Names \cup {None}]
      /\ \A u \in Txids : byId[u] = IF byId[u] = n THEN None ELSE byId[u]
  BY <1>1, <1>2 DEF TypeOK, IndexesAgree
<1>8. \/ /\ Asked(n, t) /\ UNCHANGED calls
         /\ query'[n].callbacks = {r} /\ query'[n].attempts = 1
      \/ Removed(n) /\ Called({r})
  <2>1. q.txid \in Txids /\ byId[q.txid] = None
    BY <1>4, <1>5
  <2>2. \/ /\ Asked(n, q.txid) /\ UNCHANGED calls
           /\ query'[n].callbacks = q.callbacks /\ query'[n].attempts = q.attempts + 1
        \/ Removed(n) /\ Called(q.callbacks)
    BY <1>1, <1>5, <1>6, <1>7, <2>1, BeginEffect
  <2>. QED
    BY <1>5, <2>2
<1>9. want' \in [Requests -> Names \cup {None}]
  BY <1>1 DEF TypeOK
<1>10. CASE /\ Asked(n, t) /\ UNCHANGED calls
            /\ query'[n].callbacks = {r} /\ query'[n].attempts = 1
  <2>1. QueryInv' /\ IndexesAgree'
    BY <1>1, <1>4, <1>10, AskedMaps
  <2>2. CallInv'
    <3>1. query'[n].callbacks = query[n].callbacks \cup {r}
      BY <1>2, <1>10, NoQueryType
    <3>2. \A m \in Names \ {n} : query'[m].callbacks = query[m].callbacks
      BY <1>10 DEF Asked
    <3>. QED
      BY <1>1, <1>10, <3>1, <3>2, CallsJoined
  <2>3. 1 <= MaxUdpAttempts
    BY ResolverAssumption
  <2>4. /\ query' \in [Names -> QueryType] /\ byId' \in [Txids -> Names \cup {None}]
        /\ armed' \in [Names -> Txids \cup {None}] /\ calls' \in [Requests -> Nat]
        /\ armed'[n] = t /\ query'[n].txid = t
        /\ \A m \in Names \ {n} : query'[m] = query[m] /\ armed'[m] = armed[m]
    BY <1>1, <1>10 DEF Asked, TypeOK
  <2>5. /\ \A m \in Names : query[m].on =>
             /\ query'[m].on /\ query'[m].txid = query[m].txid
             /\ query'[m].attempts = query[m].attempts /\ armed'[m] = armed[m]
        /\ \A m \in Names : query'[m].on /\ ~query[m].on =>
             armed'[m] = query'[m].txid /\ query'[m].attempts <= MaxUdpAttempts
    BY <1>2, <1>10, <2>3, <2>4
  <2>. QED
    BY <1>9, <2>1, <2>2, <2>4, <2>5, RequestInv
<1>11. CASE Removed(n) /\ Called({r})
  <2>1. QueryInv' /\ IndexesAgree'
    BY <1>1, <1>11, RemovedMaps
  <2>2. \A m \in Names : query'[m] = query[m]
    BY <1>2, <1>11 DEF Removed
  <2>3. CallInv'
    BY <1>1, <1>11, <2>2, CallsNow
  <2>4. /\ query' \in [Names -> QueryType] /\ byId' \in [Txids -> Names \cup {None}]
        /\ armed' \in [Names -> Txids \cup {None}]
        /\ \A m \in Names \ {n} : armed'[m] = armed[m]
    BY <1>11 DEF Removed
  <2>5. calls' \in [Requests -> Nat]
    BY <1>1, <1>11, CalledEffect
  <2>6. \A m \in Names : query[m].on => armed'[m] = armed[m]
    BY <1>2, <2>4
  <2>. QED
    BY <1>9, <2>1, <2>2, <2>3, <2>4, <2>5, <2>6, RequestInv
<1>. QED
  BY <1>8, <1>10, <1>11

LEMMA ResolveAsyncInv ==
  ASSUME IInv, NEW r \in Requests, NEW n \in Names, ResolveAsync(r, n)
  PROVE  IInv'
<1>1. /\ want[r] = None /\ want' = [want EXCEPT ![r] = n]
      /\ UNCHANGED <<life, posted, handler>>
  BY DEF ResolveAsync
<1>2. CASE AnswerNow(r)
  <2>1. TypeOK /\ QueryInv /\ IndexesAgree /\ CallInv
    BY DEF IInv
  <2>2. Called({r}) /\ UNCHANGED <<query, byId, armed>>
    BY <1>2 DEF AnswerNow, mapVars
  <2>3. CallInv'
    BY <1>1, <2>1, <2>2, CallsNow
  <2>4. QueryInv' /\ IndexesAgree'
    BY <2>1, <2>2 DEF QueryInv, IndexesAgree
  <2>5. calls' \in [Requests -> Nat]
    BY <2>1, <2>2, CalledEffect
  <2>6. /\ want' \in [Requests -> Names \cup {None}] /\ query' \in [Names -> QueryType]
        /\ byId' \in [Txids -> Names \cup {None}]
        /\ armed' \in [Names -> Txids \cup {None}]
    BY <1>1, <2>1, <2>2 DEF TypeOK
  <2>. QED
    BY <1>1, <2>2, <2>3, <2>4, <2>5, <2>6, RequestInv
<1>3. CASE Join(r, n)
  BY <1>1, <1>3, JoinInv
<1>4. CASE Ask(r, n)
  BY <1>1, <1>4, AskInv
<1>. QED
  BY <1>2, <1>3, <1>4 DEF ResolveAsync

-----------------------------------------------------------------------------
(* Stop calls what every query still keeps. *)
LEMMA StopBeginsInv ==
  ASSUME IInv, StopBegins
  PROVE  IInv'
<1>. DEFINE rs == UNION {query[n].callbacks : n \in Pending}
<1>1. TypeOK /\ QueryInv /\ IndexesAgree /\ CallInv
  BY DEF IInv
<1>2. /\ handler = Idle /\ life' = "stopping"
      /\ armed' = [n \in Names |-> None] /\ Called(rs)
      /\ query' = [n \in Names |-> NoQuery] /\ byId' = [t \in Txids |-> None]
      /\ UNCHANGED <<posted, handler, want>>
  BY DEF StopBegins
<1>3. \A n \in Names : query[n].callbacks \in SUBSET Requests
  BY <1>1, Fields
<1>4. rs \in SUBSET Requests
  BY <1>3 DEF Pending
<1>5. \A n \in Names : query[n].callbacks \subseteq rs
  BY <1>1, NoQueryType DEF QueryInv, Pending
<1>6. \A r \in rs : want[r] \in Names /\ calls[r] = 0
  BY <1>1 DEF CallInv, Pending
<1>. HIDE DEF rs
<1>7. /\ calls' \in [Requests -> Nat]
      /\ \A r \in rs : calls'[r] = calls[r] + 1
      /\ \A r \in Requests \ rs : calls'[r] = calls[r]
  BY <1>1, <1>2, <1>4, CalledEffect
<1>8. TypeOK'
  BY <1>1, <1>2, <1>7, NoQueryType DEF TypeOK
<1>9. QueryInv' /\ IndexesAgree'
  BY <1>2, NoQueryType, ResolverAssumption DEF QueryInv, IndexesAgree
<1>10. ASSUME NEW r \in Requests
       PROVE  /\ calls'[r] <= 1 /\ (want[r] = None => calls'[r] = 0)
              /\ want[r] = None \/ calls'[r] # 0
  <2>1. want[r] \in Names \cup {None} /\ calls[r] \in Nat
    BY <1>1 DEF TypeOK
  <2>2. CASE r \in rs
    BY <1>6, <1>7, <2>2, ResolverAssumption
  <2>3. CASE r \notin rs
    <3>1. calls'[r] = calls[r]
      BY <1>7, <2>3
    <3>2. want[r] # None => calls[r] # 0
      BY <1>1, <1>5, <2>1, <2>3 DEF CallInv
    <3>. QED
      BY <1>1, <3>1, <3>2 DEF CallInv
  <2>. QED
    BY <2>2, <2>3
<1>11. \A n \in Names : query'[n].callbacks = {} /\ ~query'[n].on
  BY <1>2, NoQueryType
<1>12. CallInv'
  BY <1>2, <1>10, <1>11 DEF CallInv
<1>13. HandlerInv'
  BY <1>2, IdleType DEF HandlerInv, InHand
<1>14. QueryTimed'
  BY <1>11 DEF QueryTimed, Pending
<1>. QED
  BY <1>8, <1>9, <1>12, <1>13, <1>14 DEF IInv

-----------------------------------------------------------------------------
LEMMA FreeType ==
  Free \in AttemptType /\ Free.phase = "free"
BY DEF Free, AttemptType

(* StartTcpFallback gives an attempt the id of a pending query.            *)
LEMMA FallbackAttempts ==
  ASSUME AttemptInv, NEW n \in Names, query[n].txid \in Txids, StartTcpFallback(n)
  PROVE  AttemptInv'
<1>1. CASE UNCHANGED tcp
  BY <1>1 DEF AttemptInv
<1>2. ASSUME NEW k \in FreeTcp,
             tcp' = [tcp EXCEPT ![k] = [Free EXCEPT !.phase = "posted", !.txid = query[n].txid]]
      PROVE  AttemptInv'
  <2>1. k \in Tcps
    BY DEF FreeTcp
  <2>. DEFINE a == [Free EXCEPT !.phase = "posted", !.txid = query[n].txid]
  <2>2. a \in AttemptType /\ a.txid \in Txids
    BY DEF Free, AttemptType
  <2>. QED
    BY <1>2, <2>1, <2>2 DEF AttemptInv
<1>. QED
  BY <1>1, <1>2 DEF StartTcpFallback

LEMMA AttemptStep ==
  ASSUME IInv, AttemptInv, [Next]_vars
  PROVE  AttemptInv'
<1>. USE DEF tcpVars
<1>1. ASSUME NEW n \in Names, query[n].on PROVE query[n].txid \in Txids
  BY <1>1 DEF IInv, QueryInv
<1>2. ASSUME NEW r \in Requests, NEW n \in Names, ResolveAsync(r, n) PROVE AttemptInv'
  BY <1>2 DEF ResolveAsync, AttemptInv
<1>3. CASE AskAgain
  BY <1>3 DEF AskAgain, AttemptInv
<1>4. CASE Finish
  BY <1>4 DEF Finish, AttemptInv
<1>5. CASE Fallback
  <2>1. handler.name \in Names /\ query[handler.name].on
    BY <1>5 DEF IInv, HandlerInv, Fallback, InHand
  <2>. QED
    BY <1>1, <1>5, <2>1, FallbackAttempts DEF Fallback
<1>6. CASE Repost
  BY <1>6 DEF Repost, AttemptInv
<1>7. CASE FallbackAll
  <2>1. ASSUME NEW n \in handler.todo, StartTcpFallback(n) PROVE AttemptInv'
    <3>1. n \in Names /\ query[n].on
      BY DEF IInv, TypeOK, HandlerType, HandlerInv
    <3>. QED
      BY <1>1, <2>1, <3>1, FallbackAttempts
  <2>2. CASE UNCHANGED tcp
    BY <2>2 DEF AttemptInv
  <2>. QED
    BY <1>7, <2>1, <2>2 DEF FallbackAll
<1>8. CASE OnRecvFrom
  BY <1>8 DEF OnRecvFrom, AttemptInv
<1>9. CASE OnRecvAborted
  BY <1>9 DEF OnRecvAborted, AttemptInv
<1>10. CASE OnUdpSendCompleted
  BY <1>10 DEF OnUdpSendCompleted, AttemptInv
<1>11. ASSUME NEW n \in Names, TimerDue(n) PROVE AttemptInv'
  BY <1>11 DEF TimerDue, AttemptInv
<1>12. ASSUME NEW t \in Txids, OnTimeout(t) PROVE AttemptInv'
  BY <1>12 DEF OnTimeout, AttemptInv
<1>13. ASSUME NEW k \in Tcps, OnTcpCompleted(k) PROVE AttemptInv'
  <2>1. CASE tcp' = [tcp EXCEPT ![k] = Free]
    BY <2>1, FreeType DEF AttemptInv
  <2>2. ASSUME NEW res \in Answers \cup {"invalid"},
               tcp' = [tcp EXCEPT ![k].phase = "deliver", ![k].done = TRUE, ![k].res = res]
        PROVE  AttemptInv'
    <3>1. tcp[k].txid \in Txids
      BY <1>13 DEF OnTcpCompleted, AttemptInv
    <3>. DEFINE a == [tcp[k] EXCEPT !.phase = "deliver", !.done = TRUE, !.res = res]
    <3>2. a \in AttemptType /\ a.txid \in Txids
      BY <3>1 DEF AttemptInv, AttemptType
    <3>3. tcp' = [tcp EXCEPT ![k] = a]
      BY <2>2
    <3>. HIDE DEF a
    <3>. QED
      BY <3>2, <3>3 DEF AttemptInv
  <2>. QED
    BY <1>13, <2>1, <2>2 DEF OnTcpCompleted
<1>14. ASSUME NEW k \in Tcps, DeliverTcp(k) PROVE AttemptInv'
  <2>1. tcp' = [tcp EXCEPT ![k] = Free] \/ UNCHANGED tcp
    BY <1>14 DEF DeliverTcp
  <2>. QED
    BY <2>1, FreeType DEF AttemptInv
<1>15. CASE StopBegins
  BY <1>15 DEF StopBegins, AttemptInv
<1>16. ASSUME NEW k \in Tcps, StopCancels(k) PROVE AttemptInv'
  BY <1>16 DEF StopCancels, AttemptInv, AttemptType
<1>17. CASE StopWaits \/ Destroy
  BY <1>17 DEF StopWaits, Destroy, AttemptInv
<1>18. CASE Ended \/ UNCHANGED vars
  BY <1>18 DEF Ended, vars, AttemptInv
<1>. QED
  BY <1>2, <1>3, <1>4, <1>5, <1>6, <1>7, <1>8, <1>9, <1>10, <1>11, <1>12, <1>13,
     <1>14, <1>15, <1>16, <1>17, <1>18 DEF Next, Handler, Stop

-----------------------------------------------------------------------------
LEMMA InitInv ==
  Init => IInv /\ AttemptInv
<1>. SUFFICES ASSUME Init PROVE IInv /\ AttemptInv
  OBVIOUS
<1>1. /\ life = "running" /\ handler = Idle
      /\ query = [n \in Names |-> NoQuery] /\ byId = [t \in Txids |-> None]
      /\ armed = [n \in Names |-> None] /\ posted = [t \in Txids |-> 0]
      /\ tcp = [k \in Tcps |-> Free]
      /\ want = [r \in Requests |-> None] /\ calls = [r \in Requests |-> 0]
  BY DEF Init
<1>2. TypeOK
  BY <1>1, NoQueryType, IdleType DEF TypeOK
<1>3. QueryInv /\ QueryTimed /\ IndexesAgree
  BY <1>1, NoQueryType, ResolverAssumption DEF QueryInv, QueryTimed, Pending, IndexesAgree
<1>4. CallInv
  BY <1>1, NoQueryType DEF CallInv
<1>5. HandlerInv
  BY <1>1, IdleType DEF HandlerInv, InHand
<1>6. AttemptInv
  BY <1>1, FreeType DEF AttemptInv
<1>. QED
  BY <1>2, <1>3, <1>4, <1>5, <1>6 DEF IInv

LEMMA NextInv ==
  ASSUME IInv, AttemptInv, [Next]_vars
  PROVE  IInv'
<1>. USE DEF mapVars, timerVars, userVars
<1>1. ASSUME NEW r \in Requests, NEW n \in Names, ResolveAsync(r, n) PROVE IInv'
  BY <1>1, ResolveAsyncInv
<1>2. CASE Handler
  BY <1>2, AskAgainInv, FinishInv, FallbackInv, RepostInv, FallbackAllInv DEF Handler
<1>3. CASE OnRecvFrom
  BY <1>3, OnRecvFromInv
<1>4. CASE OnRecvAborted
  <2>1. UNCHANGED <<life, query, byId, armed, posted, want, calls, handler>>
    BY <1>4 DEF OnRecvAborted
  <2>. QED
    BY <2>1, StillInv DEF IInv, TypeOK
<1>5. CASE OnUdpSendCompleted
  <2>1. UNCHANGED <<life, query, byId, armed, posted, want, calls, handler>>
    BY <1>5 DEF OnUdpSendCompleted
  <2>. QED
    BY <2>1, StillInv DEF IInv, TypeOK
<1>6. ASSUME NEW n \in Names, TimerDue(n) PROVE IInv'
  BY <1>6, TimerDueInv
<1>7. ASSUME NEW t \in Txids, OnTimeout(t) PROVE IInv'
  BY <1>7, OnTimeoutInv
<1>8. ASSUME NEW k \in Tcps, OnTcpCompleted(k) PROVE IInv'
  <2>1. UNCHANGED <<life, query, byId, armed, posted, want, calls, handler>>
    BY <1>8 DEF OnTcpCompleted
  <2>. QED
    BY <2>1, StillInv DEF IInv, TypeOK
<1>9. ASSUME NEW k \in Tcps, DeliverTcp(k) PROVE IInv'
  BY <1>9, DeliverTcpInv
<1>10. CASE StopBegins
  BY <1>10, StopBeginsInv
<1>11. ASSUME NEW k \in Tcps, StopCancels(k) PROVE IInv'
  <2>1. UNCHANGED <<life, query, byId, armed, posted, want, calls, handler>>
    BY <1>11 DEF StopCancels
  <2>. QED
    BY <2>1, StillInv DEF IInv, TypeOK
<1>12. CASE StopWaits \/ Destroy
  <2>1. /\ life' \in {"stopped", "destroyed"}
        /\ UNCHANGED <<query, byId, armed, posted, want, calls, handler>>
    BY <1>12 DEF StopWaits, Destroy
  <2>. QED
    BY <2>1, StillInv
<1>13. CASE Ended \/ UNCHANGED vars
  <2>1. UNCHANGED <<life, query, byId, armed, posted, want, calls, handler>>
    BY <1>13 DEF Ended, vars
  <2>. QED
    BY <2>1, StillInv DEF IInv, TypeOK
<1>. QED
  BY <1>1, <1>2, <1>3, <1>4, <1>5, <1>6, <1>7, <1>8, <1>9, <1>10, <1>11, <1>12,
     <1>13 DEF Next, Stop

(* The inductive invariant of the resolver: the maps agree, every request  *)
(* that was not answered waits in the query of its name, every query is in *)
(* hand or timed, and every TCP attempt has an id to report to.            *)
THEOREM Invariance == Spec => [](IInv /\ AttemptInv)
<1>1. Init => IInv /\ AttemptInv
  BY InitInv
<1>2. IInv /\ AttemptInv /\ [Next]_vars => (IInv /\ AttemptInv)'
  BY NextInv, AttemptStep
<1>. QED
  BY <1>1, <1>2, PTL DEF Spec

(* ResolveAsync, whose requests share queries that are retried, handed to  *)
(* TCP, finished or stopped, calls no callback twice and loses none: as    *)
(* long as it was not called, the query of its name keeps it.              *)
THEOREM CallbacksAreExact == Spec => []CalledOnce
<1>1. IInv => CalledOnce
  <2>. SUFFICES ASSUME IInv, NEW r \in Requests
                PROVE  /\ calls[r] <= 1
                       /\ want[r] # None =>
                            (calls[r] = 0 <=>
                             \E n \in Pending : n = want[r] /\ r \in query[n].callbacks)
    BY DEF CalledOnce
  <2>1. calls[r] <= 1
    BY DEF IInv, CallInv
  <2>2. ASSUME want[r] # None, calls[r] = 0
        PROVE  \E n \in Pending : n = want[r] /\ r \in query[n].callbacks
    <3>1. want[r] \in Names /\ r \in query[want[r]].callbacks
      BY <2>2 DEF IInv, TypeOK, CallInv
    <3>2. query[want[r]].on
      BY <3>1, NoQueryType DEF IInv, QueryInv
    <3>. QED
      BY <3>1, <3>2 DEF Pending
  <2>3. ASSUME NEW n \in Pending, n = want[r], r \in query[n].callbacks
        PROVE  calls[r] = 0
    BY <2>3 DEF IInv, CallInv, Pending
  <2>. QED
    BY <2>1, <2>2, <2>3
<1>. QED
  BY <1>1, Invariance, PTL

(* byId_ and byDomain_ never disagree, whatever is retried under a new id, *)
(* finished, or begun by a request between the two halves of a handler.    *)
THEOREM MapsAgree == Spec => []IndexesAgree
<1>1. IInv => IndexesAgree
  BY DEF IInv
<1>. QED
  BY <1>1, Invariance, PTL

(* No query is forgotten: one that no handler has in hand has its timer    *)
(* running or its timeout in the port, and the attempts are bounded, also  *)
(* when transaction ids are given to other queries.                        *)
THEOREM NoQueryIsForgotten == Spec => []QueryTimed
<1>1. IInv => QueryTimed
  BY DEF IInv
<1>. QED
  BY <1>1, Invariance, PTL

-----------------------------------------------------------------------------
(* What a step does for the callers: nothing; or it takes a request, and   *)
(* perhaps answers it; or it answers some that were waiting.               *)
Takes(r) ==
  /\ want[r] = None /\ \E n \in Names : want' = [want EXCEPT ![r] = n]
  /\ UNCHANGED calls \/ Called({r})

AnswersAll(rs) ==
  /\ UNCHANGED want /\ Called(rs)
  /\ \A r \in rs : want[r] # None /\ calls[r] = 0

UserStep ==
  \/ UNCHANGED <<want, calls>>
  \/ \E r \in Requests : Takes(r)
  \/ \E rs \in SUBSET Requests : AnswersAll(rs)

(* The requests of a query are waiting. *)
LEMMA QueryAnswered ==
  ASSUME IInv, NEW n \in Names, Called(query[n].callbacks), UNCHANGED want
  PROVE  UserStep
<1>1. query[n].callbacks \in SUBSET Requests
  BY Fields DEF IInv
<1>2. \A r \in query[n].callbacks : want[r] # None /\ calls[r] = 0
  BY ResolverAssumption DEF IInv, CallInv
<1>. QED
  BY <1>1, <1>2 DEF UserStep, AnswersAll

LEMMA UserSteps ==
  ASSUME IInv, [Next]_vars
  PROVE  UserStep
<1>. USE DEF userVars
<1>1. ASSUME NEW r \in Requests, NEW n \in Names, ResolveAsync(r, n) PROVE UserStep
  <2>1. want[r] = None /\ want' = [want EXCEPT ![r] = n]
    BY <1>1 DEF ResolveAsync
  <2>2. ASSUME NEW t, NEW ok,
               BeginUdpQueryLocked(n, [NoQuery EXCEPT !.on = TRUE, !.txid = t,
                                                      !.callbacks = {r}], byId, ok)
        PROVE  UNCHANGED calls \/ Called({r})
    <3>1. [NoQuery EXCEPT !.on = TRUE, !.txid = t, !.callbacks = {r}].callbacks = {r}
      BY DEF NoQuery
    <3>. QED
      BY <2>2, <3>1 DEF BeginUdpQueryLocked
  <2>3. UNCHANGED calls \/ Called({r})
    BY <1>1, <2>2 DEF ResolveAsync, AnswerNow, Join, Ask
  <2>. QED
    BY <2>1, <2>3 DEF UserStep, Takes
<1>2. ASSUME handler.what \in InHand
      PROVE  handler.name \in Names /\ query[handler.name] \in QueryType
  BY <1>2 DEF IInv, HandlerInv, TypeOK
<1>3. CASE AskAgain
  <2>. DEFINE n == handler.name
              p == query[n]
  <2>1. n \in Names /\ p \in QueryType /\ UNCHANGED want
    BY <1>2, <1>3, SMTT(30) DEF AskAgain, InHand
  <2>2. PICK t, ok :
          BeginUdpQueryLocked(n,
            IF handler.what = "retry" THEN [p EXCEPT !.txid = t, !.tcp = None]
            ELSE [p EXCEPT !.txid = t, !.tcp = None, !.aaaa = TRUE, !.attempts = 0],
            WithoutOldId(p), ok)
    BY <1>3 DEF AskAgain
  <2>. DEFINE q == IF handler.what = "retry" THEN [p EXCEPT !.txid = t, !.tcp = None]
                   ELSE [p EXCEPT !.txid = t, !.tcp = None, !.aaaa = TRUE, !.attempts = 0]
  <2>3. q.callbacks = p.callbacks
    BY <2>1 DEF QueryType
  <2>4. UNCHANGED calls \/ Called(q.callbacks)
    BY <2>2 DEF BeginUdpQueryLocked
  <2>. QED
    BY <2>1, <2>3, <2>4, QueryAnswered DEF UserStep
<1>4. CASE Finish
  BY <1>2, <1>4, QueryAnswered DEF Finish, FinishQuery, InHand
<1>5. ASSUME NEW n \in Names, StartTcpFallback(n), UNCHANGED want PROVE UserStep
  BY <1>5, QueryAnswered DEF StartTcpFallback, FinishQuery, UserStep
<1>6. CASE Fallback
  BY <1>2, <1>5, <1>6 DEF Fallback, InHand
<1>7. CASE FallbackAll
  <2>1. handler.todo \in SUBSET Names
    BY DEF IInv, TypeOK, HandlerType
  <2>. QED
    BY <1>5, <1>7, <2>1 DEF FallbackAll, UserStep
<1>8. CASE Repost
  BY <1>8 DEF Repost, UserStep
<1>9. CASE StopBegins
  <2>. DEFINE rs == UNION {query[n].callbacks : n \in Pending}
  <2>1. rs \in SUBSET Requests
    BY Fields DEF IInv, Pending
  <2>2. \A r \in rs : want[r] # None /\ calls[r] = 0
    BY ResolverAssumption DEF IInv, CallInv, Pending
  <2>3. Called(rs) /\ UNCHANGED want
    BY <1>9, SMTT(30) DEF StopBegins
  <2>. QED
    BY <2>1, <2>2, <2>3 DEF UserStep, AnswersAll
<1>10. CASE \/ OnRecvFrom \/ OnRecvAborted \/ OnUdpSendCompleted
            \/ (\E n \in Names : TimerDue(n)) \/ (\E t \in Txids : OnTimeout(t))
            \/ (\E k \in Tcps : OnTcpCompleted(k) \/ DeliverTcp(k) \/ StopCancels(k))
            \/ StopWaits \/ Destroy
  BY <1>10 DEF OnRecvFrom, OnRecvAborted, OnUdpSendCompleted, TimerDue, OnTimeout,
       OnTcpCompleted, DeliverTcp, StopCancels, StopWaits, Destroy, UserStep
<1>11. CASE Ended \/ UNCHANGED vars
  BY <1>11 DEF Ended, vars, UserStep
<1>. QED
  BY <1>1, <1>3, <1>4, <1>6, <1>7, <1>8, <1>9, <1>10, <1>11 DEF Next, Handler, Stop

(* ... and that is what ResolveOnce allows. *)
LEMMA PromiseStep ==
  ASSUME IInv, UserStep
  PROVE  [Promise!Next]_[r \in Requests |-> Phase(r)]
<1>. DEFINE ph == [r \in Requests |-> Phase(r)]
<1>1. /\ want \in [Requests -> Names \cup {None}] /\ calls \in [Requests -> Nat]
      /\ \A r \in Requests : calls[r] <= 1
  BY DEF IInv, TypeOK, CallInv
<1>2. CASE UNCHANGED <<want, calls>>
  BY <1>2 DEF Phase
<1>3. ASSUME NEW r \in Requests, Takes(r) PROVE Promise!Ask(r)
  <2>1. PICK n \in Names : want' = [want EXCEPT ![r] = n]
    BY <1>3 DEF Takes
  <2>2. want[r] = None /\ n # None /\ calls[r] = 0
    BY <1>3, ResolverAssumption DEF Takes, IInv, CallInv
  <2>3. Phase(r) = "idle"
    BY <2>2 DEF Phase
  <2>4. ASSUME NEW x \in Requests, x # r PROVE want'[x] = want[x] /\ calls'[x] = calls[x]
    BY <1>1, <1>3, <2>1, <2>4 DEF Takes, Called
  <2>5. \A x \in Requests \ {r} : Phase(x)' = Phase(x)
    BY <2>4 DEF Phase
  <2>6. want'[r] = n /\ calls'[r] \in {0, 1}
    BY <1>1, <1>3, <2>1, <2>2 DEF Takes, Called
  <2>7. Phase(r)' \in {"asked", "answered"}
    BY <2>2, <2>6 DEF Phase
  <2>8. ph' = [ph EXCEPT ![r] = Phase(r)']
    BY <2>5
  <2>. QED
    BY <2>3, <2>7, <2>8 DEF Promise!Ask
<1>4. ASSUME NEW rs \in SUBSET Requests, AnswersAll(rs), rs # {}
      PROVE  Promise!Answer(rs)
  <2>1. \A r \in rs : Phase(r) = "asked"
    BY <1>4 DEF AnswersAll, Phase
  <2>2. \A r \in Requests : calls'[r] = IF r \in rs THEN calls[r] + 1 ELSE calls[r]
    BY <1>4 DEF AnswersAll, Called
  <2>3. \A r \in rs : want'[r] # None /\ calls'[r] = 1
    BY <1>4, <2>2 DEF AnswersAll
  <2>4. \A r \in rs : Phase(r)' = "answered"
    BY <2>3 DEF Phase
  <2>5. \A r \in Requests \ rs : Phase(r)' = Phase(r)
    BY <1>4, <2>2 DEF Phase, AnswersAll
  <2>. QED
    BY <1>4, <2>1, <2>4, <2>5 DEF Promise!Answer
<1>5. ASSUME AnswersAll({}) PROVE UNCHANGED ph
  BY <1>1, <1>5 DEF AnswersAll, Called, Phase
<1>. QED
  BY <1>2, <1>3, <1>4, <1>5 DEF UserStep, Promise!Next

(* The resolver keeps the safety part of the promise of ResolveOnce: seen  *)
(* by its callers, every step takes one request, answers some that were    *)
(* waiting and not answered, or does not show.                             *)
THEOREM ResolverKeepsPromise == Spec => Promise!Safety
<1>1. Init => Promise!Init
  BY DEF Init, Promise!Init, Phase
<1>2. IInv /\ [Next]_vars => [Promise!Next]_[r \in Requests |-> Phase(r)]
  BY UserSteps, PromiseStep
<1>. QED
  BY <1>1, <1>2, Invariance, PTL DEF Spec, Promise!Safety
=============================================================================
