--------------------------- MODULE UdpRelayProofs ---------------------------
(***************************************************************************)
(* Proofs about UdpRelay, for any number of endpoints, names, datagrams    *)
(* and fragments, whatever the limits, and whether posts fail or not.      *)
(*                                                                         *)
(* The inductive invariant has a part for each table of the relay:         *)
(* destinations, assemblies, names being looked up and the send queue; the *)
(* last relates the queue to what waits elsewhere to be put in it.         *)
(***************************************************************************)
EXTENDS UdpRelay, FiniteSetTheorems, WellFoundedInduction, SequenceTheorems, TLAPS

Limit == 0..MaxPackets

LifeInv ==
  /\ phase \in {"new", "running", "failed"} /\ stop \in BOOLEAN /\ told \in 0..1
  /\ sock \in BOOLEAN /\ recv \in BOOLEAN
  /\ handler \in {"none", "handled", "failed", "batch"}
  /\ client \in Locals \cup {None}
  /\ arrived \in Limit /\ idle \in BOOLEAN /\ due \in BOOLEAN
  /\ ~stop => told = 0
  /\ handler # "none" => ~stop

ActiveInv ==
  active \subseteq Servers /\ Cardinality(active) <= MaxActive /\ oldDest \subseteq active

(* An assembly that exists. *)
Parts == [1..MaxFrag -> Part]
Assembly == [on : BOOLEAN, parts : Parts, last : 0..MaxFrag, total : 0..MaxAssembled]

Sound(a) ==
  /\ a.parts[1].n # 0
  /\ \A i \in 1..MaxFrag : a.parts[i].n # 0 => a.parts[i].n >= a.parts[1].n
  /\ AddUp(a.parts, a.total)
  /\ ~Complete(a)

AsmInv ==
  /\ asm \in [Keys -> Assembly] /\ oldAsm \subseteq Keys
  /\ Cardinality(Assembling) <= MaxAssemblies
  /\ \A k \in Keys : /\ asm[k].on => Sound(asm[k])
                     /\ ~asm[k].on => asm[k] = NoAssembly
                     /\ \A i \in 1..MaxFrag : asm[k].parts[i].n <= arrived

(* Where the one lookup of a name is: with the resolver, in its callback,  *)
(* in the port, or its answer is being handled.                            *)
Serving(d) == handler = "batch" /\ batch.name = d

Whereabouts(d) ==
  \/ asked[d] = 1 /\ calling[d] = {} /\ port[d] = {} /\ ~Serving(d)
  \/ asked[d] = 0 /\ (\E ip \in Results : calling[d] = {ip}) /\ port[d] = {} /\ ~Serving(d)
  \/ asked[d] = 0 /\ calling[d] = {} /\ (\E ip \in Results : port[d] = {ip}) /\ ~Serving(d)
  \/ asked[d] = 0 /\ calling[d] = {} /\ port[d] = {} /\ Serving(d) /\ pending[d] = <<>>

Nowhere(d) ==
  asked[d] = 0 /\ calling[d] = {} /\ port[d] = {} /\ ~Serving(d) /\ pending[d] = <<>>

NameInv ==
  /\ known \subseteq Names /\ Cardinality(known) <= MaxDomains
  /\ resolving \subseteq Names
  /\ asked \in [Names -> Nat]
  /\ calling \in [Names -> SUBSET Results] /\ port \in [Names -> SUBSET Results]
  /\ ~stop => \A d \in Names : /\ pending[d] # <<>> => d \in known
                               /\ d \in resolving => Whereabouts(d)
                               /\ d \notin resolving => Nowhere(d)

(* The datagrams of a queue that have the same source are in order.        *)
Ordered(q) ==
  \A i, j \in DOMAIN q : i < j /\ q[i].from = q[j].from => q[i].n < q[j].n

(* Everything of the source s that is in q, or was posted, is older than b. *)
Older(q, p, s, b) == p[s] < b /\ \A i \in DOMAIN q : q[i].from = s => q[i].n < b

(* w waits for the name d: all of it is from there, younger than what is   *)
(* in q or was posted for it, and not younger than a.                      *)
Waits(w, d, q, p, a) ==
  /\ w \in Seq(Datagram) /\ Ordered(w)
  /\ \A i \in DOMAIN w : w[i].from = d /\ w[i].n <= a /\ Older(q, p, d, w[i].n)

(* The send queue and what was posted, in order. *)
QueueSound(q, p) ==
  /\ q \in Seq(Datagram) /\ p \in [Sources -> Limit] /\ Ordered(q)
  /\ \A i \in DOMAIN q : p[q[i].from] < q[i].n
  /\ Len(q) <= MaxSends

SendInv ==
  /\ QueueSound(sends, posted) /\ inFlight \in 0..MaxInFlight /\ failed \in BOOLEAN
  /\ sends # <<>> => failed \/ inFlight = MaxInFlight
  /\ \A s \in Sources : Older(sends, posted, s, arrived + 1)
  /\ stop => sends = <<>>

BatchInv ==
  /\ batch \in [name : Names \cup {None}, to : Servers \cup {None}, queue : Seq(Datagram)]
  /\ handler = "batch" => batch.name \in Names /\ batch.to \in Servers
  /\ handler # "batch" => batch = NoBatch
  /\ Waits(batch.queue, batch.name, sends, posted, arrived)

PendingInv ==
  /\ pending \in [Names -> Seq(Datagram)]
  /\ \A d \in Names : Waits(pending[d], d, sends, posted, arrived) /\ Len(pending[d]) <= MaxPerDomain

Rest == ActiveInv /\ NameInv /\ SendInv /\ BatchInv /\ PendingInv
IInv == LifeInv /\ AsmInv /\ Rest

-----------------------------------------------------------------------------
(* The least and the greatest number of a set. *)
LEMMA MinNat ==
  ASSUME NEW S \in SUBSET Nat, S # {}
  PROVE  Min(S) \in S /\ \A y \in S : Min(S) <= y
<1>1. PICK x \in S : \A y \in S : ~ (<<y, x>> \in OpToRel(<, Nat))
  BY NatLessThanWellFounded, WFMin
<1>2. ASSUME NEW y \in S PROVE x <= y
  <2>1. ~(y < x)
    <3>1. <<y, x>> \in Nat \X Nat /\ <<y, x>>[1] = y /\ <<y, x>>[2] = x
      OBVIOUS
    <3>. QED
      BY <1>1, <3>1 DEF OpToRel
  <2>. QED
    BY <2>1
<1>. QED
  BY <1>2 DEF Min

LEMMA MaxNat ==
  ASSUME NEW m \in Nat, NEW S \in SUBSET (0..m), S # {}
  PROVE  Max(S) \in S /\ \A y \in S : Max(S) >= y
<1>. DEFINE T == {m - i : i \in S}
<1>0. \A i \in S : i \in Nat /\ i <= m
  OBVIOUS
<1>1. T \in SUBSET Nat /\ T # {}
  <2>1. \A i \in S : m - i \in Nat
    BY <1>0
  <2>. QED
    BY <2>1
<1>2. Min(T) \in T /\ \A y \in T : Min(T) <= y
  BY <1>1, MinNat
<1>3. PICK x \in S : Min(T) = m - x
  BY <1>2
<1>4. \A y \in S : x >= y
  <2>1. ASSUME NEW y \in S PROVE x >= y
    <3>1. m - x <= m - y
      BY <1>2, <1>3
    <3>. QED
      BY <1>0, <3>1
  <2>. QED
    BY <2>1
<1>. QED
  BY <1>4 DEF Max

(* What PumpSendLocked leaves: a rest of the queue, in order, that waits   *)
(* for a reason; and nothing gets younger by it.                           *)
LEMMA PumpEffect ==
  ASSUME NEW st, QueueSound(st.queue, st.posted), st.flying \in 0..MaxInFlight,
         st.ok \in Nat
  PROVE  LET r == PumpSendLocked(st) IN
         /\ QueueSound(r.queue, r.posted) /\ r.flying \in 0..MaxInFlight
         /\ r.failed \in BOOLEAN
         /\ r.queue # <<>> => r.failed \/ r.flying = MaxInFlight
         /\ \A s \in Sources, b \in Nat :
              Older(st.queue, st.posted, s, b) => Older(r.queue, r.posted, s, b)
<1>. DEFINE q == st.queue
            p == st.posted
            want == Min({Len(q), MaxInFlight - st.flying})
            m == Min({want, st.ok, Sendable(q)})
            from(s) == {i \in 1..m : q[i].from = s}
            r == PumpSendLocked(st)
<1>1. /\ q \in Seq(Datagram) /\ p \in [Sources -> Limit] /\ Ordered(q)
      /\ \A i \in DOMAIN q : p[q[i].from] < q[i].n
      /\ Len(q) \in Nat /\ DOMAIN q = 1..Len(q) /\ Len(q) <= MaxSends
  BY DEF QueueSound
<1>2. \A i \in 1..Len(q) : q[i].from \in Sources /\ q[i].n \in Limit
  <2>1. \A i \in 1..Len(q) : q[i] \in Datagram
    BY <1>1
  <2>2. \A e \in Datagram : e.from \in Sources /\ e.n \in Limit
    BY UdpAssumption DEF Datagram, Limit
  <2>. QED
    BY <2>1, <2>2
<1>3. /\ want \in Nat /\ want <= Len(q) /\ want <= MaxInFlight - st.flying
      /\ want \in {Len(q), MaxInFlight - st.flying}
  <2>1. {Len(q), MaxInFlight - st.flying} \in SUBSET Nat
    BY <1>1, UdpAssumption
  <2>. QED
    BY <1>1, <2>1, MinNat
<1>4. Sendable(q) \in Nat
  <2>. DEFINE bad == {i \in DOMAIN q : Refused(q[i])}
  <2>1. ASSUME bad # {} PROVE Min(bad) - 1 \in Nat
    <3>1. bad \in SUBSET Nat
      BY <1>1
    <3>2. Min(bad) \in bad
      BY <2>1, <3>1, MinNat
    <3>. QED
      BY <1>1, <3>2
  <2>. QED
    BY <1>1, <2>1 DEF Sendable
<1>5. m \in Nat /\ m <= want
  <2>1. {want, st.ok, Sendable(q)} \in SUBSET Nat
    BY <1>3, <1>4
  <2>. HIDE DEF want
  <2>. QED
    BY <2>1, MinNat
<1>6. /\ r.queue = SubSeq(q, m + 1, Len(q)) /\ r.flying = st.flying + m
      /\ r.failed = (m < want)
      /\ r.posted = [s \in Sources |-> IF from(s) = {} THEN p[s] ELSE q[Max(from(s))].n]
  BY DEF PumpSendLocked
<1>. HIDE DEF want, m, r
<1>7. m \in 0..Len(q)
  BY <1>1, <1>3, <1>5
<1>8. /\ r.queue \in Seq(Datagram) /\ Len(r.queue) = Len(q) - m
      /\ \A i \in 1..Len(r.queue) : r.queue[i] = q[m + i]
      /\ DOMAIN r.queue = 1..Len(r.queue)
  <2>1. m + 1 \in 1..(Len(q) + 1) /\ Len(q) \in (m + 1) - 1..Len(q)
    BY <1>1, <1>7
  <2>2. /\ r.queue \in Seq(Datagram) /\ Len(r.queue) = Len(q) - (m + 1) + 1
        /\ \A i \in 1..(Len(q) - (m + 1) + 1) : r.queue[i] = q[(m + 1) + i - 1]
    BY <1>1, <1>6, <2>1, SubSeqProperties, SMTT(30)
  <2>3. DOMAIN r.queue = 1..Len(r.queue)
    BY <2>2
  <2>. QED
    BY <1>1, <1>7, <2>2, <2>3
<1>9. \A s \in Sources : from(s) # {} => /\ Max(from(s)) \in from(s)
                                         /\ \A y \in from(s) : Max(from(s)) >= y
  <2>1. ASSUME NEW s \in Sources, from(s) # {}
        PROVE  Max(from(s)) \in from(s) /\ \A y \in from(s) : Max(from(s)) >= y
    <3>1. from(s) \in SUBSET (0..m)
      BY <1>5
    <3>. QED
      BY <1>5, <2>1, <3>1, MaxNat
  <2>. QED
    BY <2>1
<1>10. \A s \in Sources : \/ r.posted[s] = p[s]
                          \/ \E i \in 1..m : /\ q[i].from = s /\ r.posted[s] = q[i].n
  BY <1>6, <1>9
<1>. HIDE DEF from
<1>11. r.posted \in [Sources -> Limit]
  <2>1. \A s \in Sources : r.posted[s] \in Limit
    BY <1>1, <1>2, <1>7, <1>10
  <2>. QED
    BY <1>6, <2>1
<1>12. Ordered(r.queue)
  <2>1. ASSUME NEW i \in DOMAIN r.queue, NEW j \in DOMAIN r.queue, i < j,
               r.queue[i].from = r.queue[j].from
        PROVE  r.queue[i].n < r.queue[j].n
    <3>0. i \in 1..(Len(q) - m) /\ j \in 1..(Len(q) - m)
      BY <1>8
    <3>1. /\ m + i \in DOMAIN q /\ m + j \in DOMAIN q /\ m + i < m + j
      BY <1>1, <1>7, <2>1, <3>0
    <3>2. r.queue[i] = q[m + i] /\ r.queue[j] = q[m + j]
      BY <1>8
    <3>. QED
      BY <1>1, <2>1, <3>1, <3>2 DEF Ordered
  <2>. QED
    BY <2>1 DEF Ordered
<1>13. ASSUME NEW i \in DOMAIN r.queue
       PROVE  r.posted[r.queue[i].from] < r.queue[i].n
  <2>1. m + i \in DOMAIN q /\ r.queue[i] = q[m + i] /\ i > 0
    BY <1>1, <1>7, <1>8
  <2>2. q[m + i].from \in Sources
    BY <1>1, <1>2, <2>1
  <2>3. ASSUME NEW j \in 1..m, q[j].from = q[m + i].from
        PROVE  q[j].n < q[m + i].n
    <3>1. j \in DOMAIN q /\ j < m + i
      BY <1>1, <1>7, <1>8, <2>1
    <3>. QED
      BY <1>1, <2>1, <2>3, <3>1 DEF Ordered
  <2>. QED
    BY <1>1, <1>10, <2>1, <2>2, <2>3
<1>14. QueueSound(r.queue, r.posted)
  BY <1>1, <1>7, <1>8, <1>11, <1>12, <1>13, UdpAssumption DEF QueueSound
<1>15. r.queue # <<>> => r.failed \/ r.flying = MaxInFlight
  <2>1. ASSUME ~r.failed, r.flying # MaxInFlight PROVE Len(r.queue) = 0
    <3>0. ~(m < want)
      BY <1>6, <2>1, Zenon
    <3>1. m = want
      BY <1>3, <1>5, <3>0
    <3>2. want # MaxInFlight - st.flying
      BY <1>6, <2>1, <3>1, UdpAssumption
    <3>. QED
      BY <1>1, <1>3, <1>8, <3>1, <3>2
  <2>. QED
    BY <1>8, <2>1
<1>16. r.flying \in 0..MaxInFlight /\ r.failed \in BOOLEAN
  BY <1>3, <1>5, <1>6, UdpAssumption
<1>17. ASSUME NEW s \in Sources, NEW b \in Nat, Older(q, p, s, b)
       PROVE  Older(r.queue, r.posted, s, b)
  <2>1. \A i \in 1..Len(q) : q[i].from = s => q[i].n < b
    BY <1>1, <1>17 DEF Older
  <2>2. r.posted[s] < b
    BY <1>7, <1>10, <1>17, <2>1 DEF Older
  <2>3. ASSUME NEW i \in DOMAIN r.queue, r.queue[i].from = s
        PROVE  r.queue[i].n < b
    <3>1. m + i \in 1..Len(q)
      BY <1>1, <1>7, <1>8
    <3>2. r.queue[i] = q[m + i]
      BY <1>8
    <3>. QED
      BY <2>1, <2>3, <3>1, <3>2
  <2>. QED
    BY <2>2, <2>3 DEF Older
<1>. QED
  BY <1>14, <1>15, <1>16, <1>17 DEF r

(* A datagram younger than all that is there for its source joins. *)
LEMMA EnqueueEffect ==
  ASSUME NEW st, QueueSound(st.queue, st.posted), st.flying \in 0..MaxInFlight,
         st.ok \in Nat, st.failed \in BOOLEAN,
         st.queue # <<>> => st.failed \/ st.flying = MaxInFlight,
         st = [queue |-> st.queue, flying |-> st.flying, ok |-> st.ok,
               failed |-> st.failed, posted |-> st.posted],
         NEW e \in Datagram, Older(st.queue, st.posted, e.from, e.n)
  PROVE  LET r == EnqueueSendLocked(st, e) IN
         /\ QueueSound(r.queue, r.posted) /\ r.flying \in 0..MaxInFlight
         /\ r.failed \in BOOLEAN
         /\ r.queue # <<>> => r.failed \/ r.flying = MaxInFlight
         /\ \A s \in Sources, b \in Nat :
              /\ Older(st.queue, st.posted, s, b)
              /\ s = e.from => e.n < b
              => Older(r.queue, r.posted, s, b)
<1>. DEFINE q == st.queue
            p == st.posted
            a == Append(q, e)
            d == [st EXCEPT !.queue = a, !.failed = FALSE]
            r == EnqueueSendLocked(st, e)
<1>1. /\ q \in Seq(Datagram) /\ p \in [Sources -> Limit] /\ Ordered(q)
      /\ \A i \in DOMAIN q : p[q[i].from] < q[i].n
      /\ Len(q) \in Nat /\ DOMAIN q = 1..Len(q) /\ Len(q) <= MaxSends
  BY DEF QueueSound
<1>2. CASE Len(q) >= MaxSends
  BY <1>2 DEF EnqueueSendLocked
<1>3. CASE Len(q) < MaxSends
  <2>1. r = PumpSendLocked(d)
    <3>1. ~(Len(q) >= MaxSends)
      BY <1>1, <1>3, UdpAssumption
    <3>. QED
      BY <3>1 DEF EnqueueSendLocked
  <2>2. d.queue = a /\ d.posted = p /\ d.flying = st.flying /\ d.ok = st.ok
    OBVIOUS
  <2>3. /\ a \in Seq(Datagram) /\ Len(a) = Len(q) + 1 /\ a[Len(q) + 1] = e
        /\ \A i \in 1..Len(q) : a[i] = q[i]
        /\ DOMAIN a = 1..(Len(q) + 1)
    BY <1>1
  <2>. HIDE DEF a, d
  <2>4. e.n \in Nat /\ e.from \in Sources
    BY UdpAssumption DEF Datagram
  <2>5. Ordered(a)
    <3>1. ASSUME NEW i \in DOMAIN a, NEW j \in DOMAIN a, i < j, a[i].from = a[j].from
          PROVE  a[i].n < a[j].n
      <4>1. i \in 1..Len(q) /\ a[i] = q[i]
        BY <1>1, <2>3, <3>1
      <4>2. CASE j = Len(q) + 1
        BY <1>1, <2>3, <3>1, <4>1, <4>2 DEF Older
      <4>3. CASE j \in 1..Len(q)
        BY <1>1, <2>3, <3>1, <4>1, <4>3 DEF Ordered
      <4>. QED
        BY <1>1, <2>3, <4>2, <4>3
    <3>. QED
      BY <3>1 DEF Ordered
  <2>6. \A i \in DOMAIN a : p[a[i].from] < a[i].n
    BY <1>1, <2>3 DEF Older
  <2>7. QueueSound(a, p)
    BY <1>1, <1>3, <2>3, <2>5, <2>6, UdpAssumption, SMTT(30) DEF QueueSound
  <2>8. /\ QueueSound(r.queue, r.posted) /\ r.flying \in 0..MaxInFlight
        /\ r.failed \in BOOLEAN
        /\ r.queue # <<>> => r.failed \/ r.flying = MaxInFlight
        /\ \A s \in Sources, b \in Nat :
             Older(d.queue, d.posted, s, b) => Older(r.queue, r.posted, s, b)
    BY <2>1, <2>2, <2>7, PumpEffect
  <2>9. ASSUME NEW s \in Sources, NEW b \in Nat, Older(q, p, s, b), s = e.from => e.n < b
        PROVE  Older(a, p, s, b)
    BY <1>1, <2>3, <2>9 DEF Older
  <2>. HIDE DEF r
  <2>. QED
    BY <2>2, <2>8, <2>9 DEF r
<1>. QED
  BY <1>1, <1>2, <1>3, UdpAssumption

-----------------------------------------------------------------------------
(* What no step touches stays right. *)
LEMMA ActiveFrame ==
  ASSUME ActiveInv, UNCHANGED <<active, oldDest>>
  PROVE  ActiveInv'
BY DEF ActiveInv

LEMMA NameFrame ==
  ASSUME NameInv, UNCHANGED <<nameVars, dnsVars, batch>>, stop => stop',
         handler = "batch" <=> handler' = "batch"
  PROVE  NameInv'
BY DEF NameInv, nameVars, dnsVars, Whereabouts, Nowhere, Serving

LEMMA SendFrame ==
  ASSUME LifeInv, SendInv, UNCHANGED <<sendVars, stop>>, arrived' \in Limit,
         arrived <= arrived'
  PROVE  SendInv'
<1>1. arrived \in Nat /\ arrived' \in Nat
  BY UdpAssumption DEF LifeInv, Limit
<1>2. \A s \in Sources : Older(sends', posted', s, arrived' + 1)
  <2>1. ASSUME NEW s \in Sources PROVE Older(sends, posted, s, arrived' + 1)
    <3>1. posted[s] \in Nat /\ \A i \in DOMAIN sends : sends[i].n \in Nat
      <4>1. sends \in Seq(Datagram) /\ posted \in [Sources -> Limit]
        BY DEF SendInv, QueueSound
      <4>2. \A i \in DOMAIN sends : sends[i] \in Datagram
        BY <4>1
      <4>. QED
        BY <4>1, <4>2, UdpAssumption DEF Limit, Datagram
    <3>. QED
      BY <1>1, <3>1 DEF SendInv, Older
  <2>. QED
    BY <2>1 DEF sendVars
<1>. QED
  BY <1>2 DEF SendInv, sendVars

(* What waits goes on waiting, if what is sent does not overtake it. *)
LEMMA WaitsFrame ==
  ASSUME NEW w, NEW d, NEW q, NEW p, NEW q2, NEW p2, NEW a \in Nat, NEW b \in Nat,
         Waits(w, d, q, p, a), a <= b,
         \A i \in DOMAIN w : Older(q, p, d, w[i].n) => Older(q2, p2, d, w[i].n)
  PROVE  Waits(w, d, q2, p2, b)
<1>1. \A i \in DOMAIN w : w[i].n \in Nat
  <2>1. \A i \in DOMAIN w : w[i] \in Datagram
    BY DEF Waits
  <2>. QED
    BY <2>1, UdpAssumption DEF Datagram
<1>. QED
  BY <1>1 DEF Waits

LEMMA BatchFrame ==
  ASSUME LifeInv, BatchInv, UNCHANGED <<batch, sends, posted>>, arrived' \in Limit,
         arrived <= arrived', handler = "batch" <=> handler' = "batch"
  PROVE  BatchInv'
<1>1. arrived \in Nat /\ arrived' \in Nat
  BY UdpAssumption DEF LifeInv, Limit
<1>2. Waits(batch.queue, batch.name, sends, posted, arrived')
  BY <1>1, WaitsFrame DEF BatchInv
<1>. QED
  BY <1>2 DEF BatchInv

LEMMA PendingFrame ==
  ASSUME LifeInv, PendingInv, UNCHANGED <<pending, sends, posted>>, arrived' \in Limit,
         arrived <= arrived'
  PROVE  PendingInv'
<1>1. arrived \in Nat /\ arrived' \in Nat
  BY UdpAssumption DEF LifeInv, Limit
<1>2. ASSUME NEW d \in Names PROVE Waits(pending[d], d, sends, posted, arrived')
  BY <1>1, WaitsFrame DEF PendingInv
<1>. QED
  BY <1>2 DEF PendingInv

LEMMA AsmFrame ==
  ASSUME LifeInv, AsmInv, UNCHANGED asm, oldAsm' \subseteq Keys, arrived' \in Limit,
         arrived <= arrived'
  PROVE  AsmInv'
<1>1. arrived \in Nat /\ arrived' \in Nat
  BY UdpAssumption DEF LifeInv, Limit
<1>2. ASSUME NEW k \in Keys, NEW i \in 1..MaxFrag PROVE asm[k].parts[i].n \in Nat
  <2>1. asm[k].parts[i] \in Part
    BY DEF AsmInv, Assembly, Parts
  <2>. QED
    BY <2>1, UdpAssumption DEF Part
<1>. QED
  BY <1>1, <1>2 DEF AsmInv, Assembling

-----------------------------------------------------------------------------
(* ForwardPayload keeps the table of destinations within its limit. *)
LEMMA ActivateEffect ==
  ASSUME ActiveInv, NEW to \in Servers, Activate(to)
  PROVE  ActiveInv'
<1>1. IsFiniteSet(active) /\ Cardinality(active) \in Nat
  BY UdpAssumption, FS_Subset, FS_CardinalityType DEF ActiveInv
<1>2. CASE /\ to \in active \/ Cardinality(active) < MaxActive
           /\ active' = active \cup {to} /\ oldDest' = oldDest \ {to}
  <2>1. Cardinality(active \cup {to})
          = IF to \in active THEN Cardinality(active) ELSE Cardinality(active) + 1
    BY <1>1, FS_AddElement
  <2>2. Cardinality(active') <= MaxActive
    BY <1>1, <1>2, <2>1, UdpAssumption DEF ActiveInv
  <2>. QED
    BY <1>2, <2>2 DEF ActiveInv
<1>3. ASSUME NEW old \in active, to \notin active,
             active' = (active \ {old}) \cup {to}, oldDest' = oldDest \ {old, to}
      PROVE  ActiveInv'
  <2>. DEFINE A == active \ {old}
  <2>1. IsFiniteSet(A) /\ Cardinality(A) = Cardinality(active) - 1
    BY <1>1, FS_RemoveElement
  <2>2. Cardinality(A \cup {to}) = Cardinality(A) + 1
    BY <1>3, <2>1, FS_AddElement
  <2>3. Cardinality(active') <= MaxActive
    BY <1>1, <1>3, <2>1, <2>2, UdpAssumption DEF ActiveInv
  <2>. QED
    BY <1>3, <2>3 DEF ActiveInv
<1>. QED
  BY <1>2, <1>3 DEF Activate

LEMMA PostsNat == Posts \subseteq Nat
BY UdpAssumption DEF Posts

(* A datagram is put in the send queue.  *)
LEMMA SendEffect ==
  ASSUME LifeInv, SendInv, ~stop, ~stop', NEW e \in Datagram,
         Older(sends, posted, e.from, e.n), arrived' \in Limit, arrived <= arrived',
         e.n <= arrived', NEW n \in Posts, Sent(EnqueueSendLocked(SendState(n), e))
  PROVE  /\ SendInv'
         /\ \A s \in Sources, b \in Nat :
              /\ Older(sends, posted, s, b)
              /\ s = e.from => e.n < b
              => Older(sends', posted', s, b)
<1>. DEFINE st == SendState(n)
            r == EnqueueSendLocked(st, e)
<1>1. /\ st.queue = sends /\ st.flying = inFlight /\ st.ok = n /\ st.failed = failed
      /\ st.posted = posted
      /\ st = [queue |-> st.queue, flying |-> st.flying, ok |-> st.ok,
               failed |-> st.failed, posted |-> st.posted]
  BY DEF SendState
<1>2. n \in Nat
  BY PostsNat
<1>3. /\ sends' = r.queue /\ inFlight' = r.flying /\ failed' = r.failed
      /\ posted' = r.posted
  BY DEF Sent
<1>. HIDE DEF st
<1>4. /\ QueueSound(r.queue, r.posted) /\ r.flying \in 0..MaxInFlight
      /\ r.failed \in BOOLEAN
      /\ r.queue # <<>> => r.failed \/ r.flying = MaxInFlight
      /\ \A s \in Sources, b \in Nat :
           /\ Older(st.queue, st.posted, s, b)
           /\ s = e.from => e.n < b
           => Older(r.queue, r.posted, s, b)
  BY <1>1, <1>2, EnqueueEffect DEF SendInv
<1>. HIDE DEF r
<1>5. arrived \in Nat /\ arrived' \in Nat /\ e.n \in Nat
  BY UdpAssumption DEF LifeInv, Limit, Datagram
<1>6. ASSUME NEW s \in Sources PROVE Older(sends', posted', s, arrived' + 1)
  <2>1. posted[s] \in Nat /\ \A i \in DOMAIN sends : sends[i].n \in Nat
    <3>1. sends \in Seq(Datagram) /\ posted \in [Sources -> Limit]
      BY DEF SendInv, QueueSound
    <3>2. \A i \in DOMAIN sends : sends[i] \in Datagram
      BY <3>1
    <3>. QED
      BY <3>1, <3>2, UdpAssumption DEF Limit, Datagram
  <2>2. Older(sends, posted, s, arrived' + 1)
    BY <1>5, <2>1 DEF SendInv, Older
  <2>3. arrived' + 1 \in Nat /\ e.n < arrived' + 1
    <3>1. \A x, y \in Nat : x <= y => y + 1 \in Nat /\ x < y + 1
      OBVIOUS
    <3>. QED
      BY <1>5, <3>1, Zenon
  <2>. QED
    BY <1>1, <1>3, <1>4, <2>2, <2>3
<1>. QED
  BY <1>1, <1>3, <1>4, <1>6 DEF SendInv

(* A send completes, and others are posted. *)
LEMMA PumpKeeps ==
  ASSUME LifeInv, SendInv, BatchInv, PendingInv, OnSendCompleted
  PROVE  SendInv' /\ BatchInv' /\ PendingInv'
<1>1. /\ inFlight > 0 /\ handler' = handler /\ arrived' = arrived /\ stop' = stop
      /\ pending' = pending /\ batch' = batch /\ arrived \in Nat
  BY UdpAssumption DEF OnSendCompleted, lifeVars, nameVars, LifeInv, Limit
<1>2. PICK n \in Posts :
        LET st == [SendState(n) EXCEPT !.flying = @ - 1, !.failed = FALSE]
        IN Sent(IF stop THEN st ELSE PumpSendLocked(st))
  BY DEF OnSendCompleted
<1>. DEFINE st == [SendState(n) EXCEPT !.flying = @ - 1, !.failed = FALSE]
            r == IF stop THEN st ELSE PumpSendLocked(st)
<1>3. /\ st.queue = sends /\ st.flying = inFlight - 1 /\ st.ok = n /\ st.failed = FALSE
      /\ st.posted = posted
  BY DEF SendState
<1>4. /\ sends' = r.queue /\ inFlight' = r.flying /\ failed' = r.failed
      /\ posted' = r.posted
  BY <1>2 DEF Sent
<1>. HIDE DEF st
<1>5. n \in Nat /\ st.flying \in 0..MaxInFlight /\ QueueSound(st.queue, st.posted)
  BY <1>1, <1>3, PostsNat, UdpAssumption DEF SendInv
<1>6. /\ QueueSound(r.queue, r.posted) /\ r.flying \in 0..MaxInFlight
      /\ r.failed \in BOOLEAN
      /\ r.queue # <<>> => r.failed \/ r.flying = MaxInFlight
      /\ \A s \in Sources, b \in Nat :
           Older(st.queue, st.posted, s, b) => Older(r.queue, r.posted, s, b)
      /\ stop => r.queue = <<>>
  <2>1. CASE stop
    BY <1>3, <1>5, <2>1 DEF SendInv
  <2>2. CASE ~stop
    BY <1>3, <1>5, <2>2, PumpEffect
  <2>. QED
    BY <2>1, <2>2
<1>. HIDE DEF r
<1>7. \A s \in Sources, b \in Nat : Older(sends, posted, s, b) => Older(sends', posted', s, b)
  BY <1>3, <1>4, <1>6
<1>8. SendInv'
  <2>1. arrived + 1 \in Nat
    BY <1>1
  <2>. QED
    BY <1>1, <1>4, <1>6, <1>7, <2>1 DEF SendInv
<1>9. ASSUME NEW w, NEW d \in Names, Waits(w, d, sends, posted, arrived)
      PROVE  Waits(w, d, sends', posted', arrived)
  <2>1. \A i \in DOMAIN w : w[i].n \in Nat
    <3>1. \A i \in DOMAIN w : w[i] \in Datagram
      BY <1>9 DEF Waits
    <3>. QED
      BY <3>1, UdpAssumption DEF Datagram
  <2>2. d \in Sources
    BY DEF Sources
  <2>. QED
    BY <1>1, <1>7, <1>9, <2>1, <2>2, WaitsFrame
<1>10. PendingInv'
  BY <1>1, <1>9 DEF PendingInv
<1>11. BatchInv'
  <2>1. CASE handler = "batch"
    BY <1>1, <1>9, <2>1 DEF BatchInv
  <2>2. CASE handler # "batch"
    <3>1. batch.queue = <<>>
      BY <2>2 DEF BatchInv, NoBatch
    <3>2. Waits(batch.queue, batch.name, sends', posted', arrived)
      BY <3>1 DEF Waits, Ordered
    <3>. QED
      BY <1>1, <2>2, <3>2 DEF BatchInv
  <2>. QED
    BY <2>1, <2>2
<1>. QED
  BY <1>8, <1>10, <1>11

-----------------------------------------------------------------------------
(* A datagram is being handled. *)
Receives ==
  /\ arrived < MaxPackets /\ arrived' = arrived + 1
  /\ handler = "none" /\ handler' = "handled" /\ ~stop
  /\ UNCHANGED <<lifeVars, batch, calling, port>>

LEMMA ReceiveFacts ==
  ASSUME LifeInv, Receives
  PROVE  /\ arrived \in Nat /\ arrived' \in 1..MaxPackets /\ arrived' \in Limit
         /\ arrived <= arrived' /\ arrived' = arrived + 1 /\ ~stop /\ ~stop'
         /\ handler # "batch" /\ handler' # "batch"
         /\ stop' = stop /\ batch' = batch /\ calling' = calling /\ port' = port
BY UdpAssumption DEF LifeInv, Receives, Limit, lifeVars

LEMMA NothingRest ==
  ASSUME IInv, Receives, Nothing
  PROVE  Rest'
<1>1. LifeInv /\ Rest
  BY DEF IInv
<1>2. /\ arrived' \in Limit /\ arrived <= arrived' /\ ~stop /\ stop' = stop
      /\ handler # "batch" /\ handler' # "batch" /\ batch' = batch
      /\ calling' = calling /\ port' = port
  BY <1>1, ReceiveFacts
<1>3. /\ UNCHANGED <<active, oldDest>> /\ UNCHANGED <<nameVars, dnsVars, batch>>
      /\ UNCHANGED <<sendVars, stop>>
      /\ UNCHANGED <<pending, sends, posted>>
  BY <1>2 DEF Nothing, nameVars, dnsVars, sendVars
<1>. QED
  BY <1>1, <1>2, <1>3, ActiveFrame, NameFrame, SendFrame, BatchFrame, PendingFrame DEF Rest

(* Something of the source x is sent, for which nothing waits. *)
LEMMA PendingAfterSend ==
  ASSUME LifeInv, PendingInv, arrived' \in Limit, arrived <= arrived',
         UNCHANGED pending, NEW x,
         \A s \in Sources, b \in Nat :
           Older(sends, posted, s, b) /\ s # x => Older(sends', posted', s, b),
         \A d \in Names : d = x => pending[d] = <<>>
  PROVE  PendingInv'
<1>1. arrived \in Nat /\ arrived' \in Nat
  BY UdpAssumption DEF LifeInv, Limit
<1>2. ASSUME NEW d \in Names PROVE Waits(pending[d], d, sends', posted', arrived')
  <2>. DEFINE w == pending[d]
  <2>1. Waits(w, d, sends, posted, arrived) /\ d \in Sources
    BY DEF PendingInv, Sources
  <2>2. CASE d = x
    <3>1. w = <<>>
      BY <2>2
    <3>. QED
      BY <3>1 DEF Waits, Ordered
  <2>3. CASE d # x
    <3>. HIDE DEF w
    <3>1. \A i \in DOMAIN w : w[i].n \in Nat
      <4>1. \A i \in DOMAIN w : w[i] \in Datagram
        BY <2>1 DEF Waits
      <4>. QED
        BY <4>1, UdpAssumption DEF Datagram
    <3>2. Waits(w, d, sends', posted', arrived')
      BY <1>1, <2>1, <2>3, <3>1, WaitsFrame
    <3>. QED
      BY <3>2 DEF w
  <2>. QED
    BY <2>2, <2>3
<1>. QED
  BY <1>2 DEF PendingInv

(* With no answer being handled there is no batch. *)
LEMMA NoBatchInv ==
  ASSUME BatchInv, handler # "batch", handler' # "batch", UNCHANGED batch
  PROVE  BatchInv'
<1>1. batch = NoBatch /\ batch.queue = <<>>
  BY DEF BatchInv, NoBatch
<1>2. Waits(batch.queue, batch.name, sends', posted', arrived')
  BY <1>1 DEF Waits, Ordered
<1>. QED
  BY <1>2 DEF BatchInv

(* A datagram that arrived is put in the send queue. *)
LEMMA ArrivalSent ==
  ASSUME IInv, Receives, UNCHANGED <<nameVars, asked>>, NEW e \in Datagram,
         e.from \in Servers, e.n = arrived', NEW n \in Posts,
         Sent(EnqueueSendLocked(SendState(n), e))
  PROVE  NameInv' /\ SendInv' /\ BatchInv' /\ PendingInv'
<1>1. LifeInv /\ NameInv /\ SendInv /\ BatchInv /\ PendingInv
  BY DEF IInv, Rest
<1>2. /\ arrived \in Nat /\ arrived' \in Limit /\ arrived <= arrived' /\ arrived' = arrived + 1
      /\ ~stop /\ ~stop' /\ stop' = stop /\ batch' = batch /\ calling' = calling
      /\ port' = port /\ handler # "batch" /\ handler' # "batch"
  BY <1>1, ReceiveFacts
<1>3. Older(sends, posted, e.from, e.n)
  BY <1>1, <1>2 DEF SendInv, Sources
<1>4. /\ SendInv'
      /\ \A s \in Sources, b \in Nat :
           /\ Older(sends, posted, s, b)
           /\ s = e.from => e.n < b
           => Older(sends', posted', s, b)
  <2>1. e.n <= arrived'
    BY <1>2
  <2>. QED
    BY <1>1, <1>2, <1>3, <2>1, SendEffect
<1>5. PendingInv'
  <2>1. \A d \in Names : d # e.from
    BY UdpAssumption
  <2>2. pending' = pending
    BY DEF nameVars
  <2>3. \A s \in Sources, b \in Nat :
          Older(sends, posted, s, b) /\ s # e.from => Older(sends', posted', s, b)
    BY <1>4
  <2>. QED
    BY <1>1, <1>2, <2>1, <2>2, <2>3, PendingAfterSend
<1>6. NameInv'
  <2>1. UNCHANGED <<nameVars, dnsVars, batch>>
    BY <1>2 DEF dnsVars
  <2>. QED
    BY <1>1, <1>2, <2>1, NameFrame
<1>7. BatchInv'
  BY <1>1, <1>2, NoBatchInv
<1>. QED
  BY <1>4, <1>5, <1>6, <1>7

LEMMA OutboundType ==
  ASSUME NEW s \in Sources, NEW n \in 1..MaxPackets,
         NEW to \in Locals \cup Servers \cup {None}, NEW parts
  PROVE  LET e == Outbound(s, n, to, parts) IN
         e \in Datagram /\ e.from = s /\ e.n = n /\ e.to = to
<1>. DEFINE b == \A i \in DOMAIN parts : parts[i].size = 0
<1>1. b \in BOOLEAN
  OBVIOUS
<1>. HIDE DEF b
<1>2. [from |-> s, n |-> n, to |-> to, empty |-> b] \in Datagram
  BY <1>1 DEF Datagram
<1>. QED
  BY <1>2 DEF Outbound, b

LEMMA ForwardRest ==
  ASSUME IInv, Receives, NEW k \in Servers, NEW parts,
         ForwardPayload(k, Outbound(k, arrived', k, parts)), UNCHANGED <<nameVars, asked>>
  PROVE  Rest'
<1>1. LifeInv /\ ActiveInv
  BY DEF IInv, Rest
<1>. DEFINE e == Outbound(k, arrived', k, parts)
<1>2. e \in Datagram /\ e.from = k /\ e.n = arrived'
  <2>1. k \in Sources /\ arrived' \in 1..MaxPackets
    BY <1>1, ReceiveFacts DEF Sources
  <2>. QED
    BY <2>1, OutboundType
<1>. HIDE DEF e
<1>3. PICK n \in Posts : Sent(EnqueueSendLocked(SendState(n), e))
  BY DEF ForwardPayload, e
<1>4. NameInv' /\ SendInv' /\ BatchInv' /\ PendingInv'
  BY <1>2, <1>3, ArrivalSent
<1>5. ActiveInv'
  BY <1>1, ActivateEffect DEF ForwardPayload
<1>. QED
  BY <1>4, <1>5 DEF Rest

LEMMA ServerRest ==
  ASSUME IInv, Receives, NEW src \in Locals \cup Servers, HandleServerResponse(src)
  PROVE  Rest' /\ UNCHANGED <<asm, oldAsm>>
<1>1. LifeInv /\ ActiveInv
  BY DEF IInv, Rest
<1>2. UNCHANGED <<active, oldDest, asm, oldAsm, nameVars, asked>>
  BY DEF HandleServerResponse
<1>3. ActiveInv'
  BY <1>1, <1>2, ActiveFrame
<1>4. CASE UNCHANGED sendVars
  BY <1>2, <1>4, NothingRest DEF Nothing
<1>5. CASE Heard(src) /\ ~UNCHANGED sendVars
  <2>. DEFINE e == [from |-> src, n |-> arrived', to |-> client, empty |-> FALSE]
  <2>1. src \in Servers /\ src \in Sources /\ arrived' \in 1..MaxPackets
        /\ client \in Locals \cup Servers \cup {None}
    BY <1>1, <1>5, ReceiveFacts DEF Heard, ActiveInv, Sources, LifeInv
  <2>2. e \in Datagram /\ e.from = src /\ e.n = arrived'
    BY <2>1 DEF Datagram
  <2>3. PICK n \in Posts : Sent(EnqueueSendLocked(SendState(n), e))
    BY <1>5 DEF HandleServerResponse
  <2>. HIDE DEF e
  <2>4. NameInv' /\ SendInv' /\ BatchInv' /\ PendingInv'
    BY <1>2, <2>1, <2>2, <2>3, ArrivalSent
  <2>. QED
    BY <1>2, <1>3, <2>4 DEF Rest
<1>. QED
  BY <1>2, <1>4, <1>5 DEF HandleServerResponse

(* A datagram to a name waits for its lookup, or is dropped. *)
LEMMA HoldRest ==
  ASSUME IInv, Receives, NEW d \in Names, NEW parts, HoldForName(d, parts)
  PROVE  Rest'
<1>1. LifeInv /\ ActiveInv /\ NameInv /\ SendInv /\ BatchInv /\ PendingInv
  BY DEF IInv, Rest
<1>2. /\ arrived \in Nat /\ arrived' \in Limit /\ arrived <= arrived' /\ arrived' = arrived + 1
      /\ ~stop /\ ~stop' /\ stop' = stop /\ batch' = batch /\ calling' = calling
      /\ port' = port /\ handler # "batch" /\ handler' # "batch" /\ arrived' \in 1..MaxPackets
  BY <1>1, ReceiveFacts
<1>3. UNCHANGED <<active, oldDest>> /\ UNCHANGED sendVars /\ UNCHANGED <<sends, posted>>
  BY DEF HoldForName, sendVars
<1>4. ActiveInv' /\ SendInv' /\ BatchInv'
  <2>1. UNCHANGED <<sendVars, stop>> /\ UNCHANGED <<batch, sends, posted>>
    BY <1>2, <1>3
  <2>. QED
    BY <1>1, <1>2, <1>3, <2>1, ActiveFrame, SendFrame, BatchFrame
<1>5. /\ IsFiniteSet(known) /\ known \subseteq Names /\ Cardinality(known) \in Nat
      /\ Cardinality(known) <= MaxDomains /\ resolving \subseteq Names
      /\ asked \in [Names -> Nat] /\ pending \in [Names -> Seq(Datagram)]
      /\ IsFiniteSet(known \cup {d}) /\ Cardinality(known \cup {d}) \in Nat
  BY <1>1, UdpAssumption, FS_Subset, FS_CardinalityType, FS_AddElement
     DEF NameInv, PendingInv
<1>6. \A c \in Names : ~Serving(c) /\ ~Serving(c)'
  BY <1>2 DEF Serving
<1>7. CASE Overfull(d)
  <2>1. /\ known' = IF pending[d] = <<>> THEN known \ {d} ELSE known
        /\ UNCHANGED <<pending, resolving, asked>>
    BY <1>7 DEF HoldForName
  <2>2. Cardinality(known') <= MaxDomains /\ known' \subseteq Names
    <3>1. Cardinality(known \ {d}) <= Cardinality(known) /\ Cardinality(known \ {d}) \in Nat
      BY <1>5, FS_Subset, FS_CardinalityType
    <3>. QED
      BY <1>5, <2>1, <3>1, UdpAssumption
  <2>3. NameInv'
    BY <1>1, <1>2, <1>6, <2>1, <2>2 DEF NameInv, Whereabouts, Nowhere
  <2>4. PendingInv'
    BY <1>1, <1>2, <1>3, <2>1, PendingFrame
  <2>. QED
    BY <1>4, <2>3, <2>4 DEF Rest
<1>8. CASE ~Overfull(d)
  <2>. DEFINE e == Outbound(d, arrived', None, parts)
              w == pending[d]
  <2>1. /\ known' = known \cup {d}
        /\ pending' = [pending EXCEPT ![d] = Append(w, e)]
        /\ resolving' = resolving \cup {d}
        /\ asked' = IF d \in resolving THEN asked ELSE [asked EXCEPT ![d] = asked[d] + 1]
    BY <1>5, <1>8 DEF HoldForName
  <2>2. e \in Datagram /\ e.from = d /\ e.n = arrived'
    <3>1. d \in Sources /\ None \in Locals \cup Servers \cup {None}
      BY DEF Sources
    <3>. QED
      BY <1>2, <3>1, OutboundType
  <2>3. Waits(w, d, sends, posted, arrived) /\ w \in Seq(Datagram) /\ Len(w) < MaxPerDomain
    BY <1>1, <1>5, <1>8, UdpAssumption DEF PendingInv, Overfull
  <2>. HIDE DEF e, w
  <2>. DEFINE v == Append(w, e)
  <2>4. /\ v \in Seq(Datagram) /\ Len(v) = Len(w) + 1 /\ v[Len(w) + 1] = e /\ v # <<>>
        /\ \A i \in 1..Len(w) : v[i] = w[i]
        /\ DOMAIN v = 1..(Len(w) + 1) /\ DOMAIN w = 1..Len(w) /\ Len(w) \in Nat
    BY <2>2, <2>3
  <2>. HIDE DEF v
  <2>5. \A i \in DOMAIN w : w[i].n \in Nat /\ w[i].from = d /\ w[i].n <= arrived
                            /\ Older(sends, posted, d, w[i].n)
    <3>1. \A i \in DOMAIN w : w[i] \in Datagram
      BY <2>3, <2>4
    <3>. QED
      BY <2>3, <3>1, UdpAssumption DEF Datagram, Waits
  <2>6. Ordered(v)
    <3>1. ASSUME NEW i \in DOMAIN v, NEW j \in DOMAIN v, i < j, v[i].from = v[j].from
          PROVE  v[i].n < v[j].n
      <4>1. i \in DOMAIN w /\ v[i] = w[i]
        BY <2>4, <3>1
      <4>2. CASE j \in DOMAIN w
        BY <2>3, <2>4, <3>1, <4>1, <4>2 DEF Waits, Ordered
      <4>3. CASE j = Len(w) + 1
        BY <1>2, <2>2, <2>4, <2>5, <4>1, <4>3
      <4>. QED
        BY <2>4, <4>2, <4>3
    <3>. QED
      BY <3>1 DEF Ordered
  <2>7. Older(sends, posted, d, arrived')
    BY <1>1, <1>2 DEF SendInv, Sources
  <2>8. Waits(v, d, sends, posted, arrived')
    <3>1. ASSUME NEW i \in DOMAIN v
          PROVE  v[i].from = d /\ v[i].n <= arrived' /\ Older(sends, posted, d, v[i].n)
      <4>1. CASE i \in DOMAIN w
        BY <1>2, <2>4, <2>5, <4>1
      <4>2. CASE i = Len(w) + 1
        BY <1>2, <2>2, <2>4, <2>7, <4>2
      <4>. QED
        BY <2>4, <4>1, <4>2
    <3>. QED
      BY <2>4, <2>6, <3>1 DEF Waits
  <2>9. pending' \in [Names -> Seq(Datagram)] /\ pending'[d] = v
        /\ \A c \in Names : c # d => pending'[c] = pending[c]
    BY <1>5, <2>1, <2>4 DEF v
  <2>10. PendingInv'
    <3>1. ASSUME NEW c \in Names
          PROVE  Waits(pending'[c], c, sends', posted', arrived') /\ Len(pending'[c]) <= MaxPerDomain
      <4>1. CASE c = d
        <5>1. Len(v) <= MaxPerDomain
          BY <2>3, <2>4, UdpAssumption
        <5>. QED
          BY <1>3, <2>8, <2>9, <4>1, <5>1
      <4>2. CASE c # d
        <5>1. Waits(pending[c], c, sends, posted, arrived) /\ Len(pending[c]) <= MaxPerDomain
          BY <1>1 DEF PendingInv
        <5>2. Waits(pending[c], c, sends, posted, arrived')
          BY <1>2, <5>1, WaitsFrame DEF Limit
        <5>. QED
          BY <1>3, <2>9, <4>2, <5>1, <5>2
      <4>. QED
        BY <4>1, <4>2
    <3>. QED
      BY <2>9, <3>1 DEF PendingInv
  <2>11. Cardinality(known') <= MaxDomains /\ known' \subseteq Names
    <3>1. CASE w = <<>>
      BY <1>5, <1>8, <2>1, <3>1, UdpAssumption DEF Overfull, w
    <3>2. CASE w # <<>>
      <4>1. d \in known
        BY <1>1, <1>2, <3>2 DEF NameInv, w
      <4>2. known \cup {d} = known
        BY <4>1
      <4>. QED
        BY <1>5, <2>1, <4>2
    <3>. QED
      BY <3>1, <3>2
  <2>12. ASSUME NEW c \in Names
         PROVE  /\ pending'[c] # <<>> => c \in known'
                /\ c \in resolving' => Whereabouts(c)'
                /\ c \notin resolving' => Nowhere(c)'
    <3>1. /\ pending[c] # <<>> => c \in known
          /\ c \in resolving => Whereabouts(c)
          /\ c \notin resolving => Nowhere(c)
      BY <1>1, <1>2 DEF NameInv
    <3>2. CASE c # d
      <4>1. /\ pending'[c] = pending[c] /\ asked'[c] = asked[c] /\ (c \in resolving' <=> c \in resolving)
            /\ (c \in known => c \in known')
        BY <1>5, <2>1, <2>9, <3>2
      <4>. QED
        BY <1>2, <1>6, <3>1, <4>1 DEF Whereabouts, Nowhere
    <3>3. CASE c = d /\ d \in resolving
      BY <1>2, <1>6, <2>1, <3>1, <3>3 DEF Whereabouts
    <3>4. CASE c = d /\ d \notin resolving
      <4>1. asked'[d] = 1 /\ calling[d] = {} /\ port[d] = {}
        BY <1>5, <2>1, <3>1, <3>4 DEF Nowhere
      <4>. QED
        BY <1>2, <1>6, <2>1, <3>4, <4>1 DEF Whereabouts
    <3>. QED
      BY <3>2, <3>3, <3>4
  <2>13. asked' \in [Names -> Nat] /\ resolving' \subseteq Names
    BY <1>5, <2>1
  <2>14. NameInv'
    BY <1>1, <1>2, <2>11, <2>12, <2>13 DEF NameInv
  <2>. QED
    BY <1>4, <2>10, <2>14 DEF Rest
<1>. QED
  BY <1>7, <1>8

LEMMA DispatchRest ==
  ASSUME IInv, Receives, NEW k \in Keys, NEW parts, DispatchClientPayload(k, parts)
  PROVE  Rest'
<1>1. CASE k \in Servers
  BY <1>1, ForwardRest DEF DispatchClientPayload
<1>2. CASE k \notin Servers
  BY <1>2, HoldRest DEF DispatchClientPayload, Keys
<1>. QED
  BY <1>1, <1>2

-----------------------------------------------------------------------------
(* The sizes of the fragments, added up one by one, only grow. *)
LEMMA SumGrows ==
  ASSUME NEW size, \A i \in 1..MaxFrag : size[i] \in Nat,
         NEW sum, \A i \in 0..MaxFrag : sum[i] \in Nat,
         \A i \in 1..MaxFrag : sum[i] = sum[i - 1] + size[i]
  PROVE  \A j \in 0..MaxFrag : \A i \in 0..j : sum[i] <= sum[j]
<1>. DEFINE Bad == {j \in 0..MaxFrag : \E i \in 0..j : ~(sum[i] <= sum[j])}
<1>1. SUFFICES ASSUME Bad # {} PROVE FALSE
  OBVIOUS
<1>2. Bad \in SUBSET Nat
  BY UdpAssumption
<1>3. PICK j \in Bad : \A y \in Bad : j <= y
  BY <1>1, <1>2, MinNat
<1>4. PICK i \in 0..j : ~(sum[i] <= sum[j])
  OBVIOUS
<1>5. j \in 0..MaxFrag /\ i # j /\ i \in 0..MaxFrag
  BY <1>4, UdpAssumption
<1>6. j - 1 \in 0..MaxFrag /\ i \in 0..(j - 1) /\ j \in 1..MaxFrag
  BY <1>5, UdpAssumption
<1>7. j - 1 \notin Bad
  <2>1. ~(j <= j - 1)
    BY <1>5
  <2>. QED
    BY <1>3, <2>1
<1>8. sum[i] <= sum[j - 1]
  BY <1>6, <1>7
<1>9. sum[j] = sum[j - 1] + size[j] /\ size[j] \in Nat /\ sum[j - 1] \in Nat /\ sum[i] \in Nat
  BY <1>5, <1>6
<1>. QED
  BY <1>4, <1>8, <1>9

(* Replacing a fragment: ProcessFragment takes off its size and adds that  *)
(* of the new one.                                                         *)
LEMMA AddUpReplace ==
  ASSUME NEW parts \in Parts, NEW total \in Nat, AddUp(parts, total),
         NEW num \in 1..MaxFrag, NEW new \in Part
  PROVE  /\ total - parts[num].size + new.size \in Nat
         /\ AddUp([parts EXCEPT ![num] = new], total - parts[num].size + new.size)
<1>. DEFINE old == parts[num].size
            size == [i \in 1..MaxFrag |-> parts[i].size]
            t == total - old + new.size
<1>1. \A e \in Part : e.size \in Nat
  <2>1. \A x \in Sizes \cup {0} : x \in Nat
    BY UdpAssumption
  <2>. QED
    BY <2>1 DEF Part
<1>2. /\ \A i \in 1..MaxFrag : parts[i].size \in Nat
      /\ new.size \in Nat /\ old \in Nat
  BY <1>1 DEF Parts
<1>3. PICK sum \in [0..MaxFrag -> 0..total] :
        /\ sum[0] = 0 /\ sum[MaxFrag] = total
        /\ \A i \in 1..MaxFrag : sum[i] = sum[i - 1] + parts[i].size
  BY DEF AddUp
<1>4. \A i \in 0..MaxFrag : sum[i] \in Nat /\ sum[i] <= total
  BY <1>3
<1>5. \A j \in 0..MaxFrag : \A i \in 0..j : sum[i] <= sum[j]
  <2>1. \A i \in 1..MaxFrag : size[i] \in Nat /\ sum[i] = sum[i - 1] + size[i]
    BY <1>2, <1>3
  <2>. HIDE DEF size
  <2>. QED
    BY <1>4, <2>1, SumGrows
<1>6. num \in 0..MaxFrag /\ num - 1 \in 0..MaxFrag /\ MaxFrag \in Nat
  BY UdpAssumption
<1>7. sum[num] = sum[num - 1] + old
  BY <1>3
<1>. HIDE DEF old
<1>8. t \in Nat
  BY <1>2, <1>4, <1>6, <1>7, SMTT(30)
<1>9. ASSUME NEW i \in 0..MaxFrag
      PROVE  /\ i < num => sum[i] \in 0..t
             /\ i >= num => sum[i] - old + new.size \in 0..t
  <2>1. i < num => sum[i] <= sum[num - 1]
    BY <1>5, <1>6
  <2>2. i >= num => sum[num] <= sum[i]
    BY <1>5, <1>6
  <2>3. sum[i] \in Nat /\ sum[i] <= total /\ sum[num] \in Nat /\ sum[num - 1] \in Nat
        /\ sum[num] <= total
    BY <1>4, <1>6
  <2>4. ASSUME i < num PROVE sum[i] \in 0..t
    <3>1. sum[i] <= total - old
      BY <1>2, <1>7, <2>1, <2>3, <2>4
    <3>. QED
      BY <1>2, <1>8, <2>3, <3>1
  <2>5. ASSUME i >= num PROVE sum[i] - old + new.size \in 0..t
    <3>1. sum[i] - old \in Nat /\ sum[i] - old <= total - old
      BY <1>2, <1>7, <2>2, <2>3, <2>5
    <3>. QED
      BY <1>2, <1>8, <2>3, <3>1, SMTT(30)
  <2>. QED
    BY <2>4, <2>5
<1>. DEFINE sum2 == [i \in 0..MaxFrag |-> IF i < num THEN sum[i] ELSE sum[i] - old + new.size]
            parts2 == [parts EXCEPT ![num] = new]
<1>. HIDE DEF t
<1>10. sum2 \in [0..MaxFrag -> 0..t]
  <2>1. \A i \in 0..MaxFrag : ~(i < num) => i >= num
    BY <1>6
  <2>. QED
    BY <1>9, <2>1
<1>11. sum2[0] = 0 /\ sum2[MaxFrag] = t
  <2>1. 0 \in 0..MaxFrag /\ MaxFrag \in 0..MaxFrag /\ 0 < num /\ ~(MaxFrag < num)
    BY <1>6
  <2>. QED
    BY <1>3, <2>1 DEF t
<1>12. ASSUME NEW i \in 1..MaxFrag
       PROVE  sum2[i] = sum2[i - 1] + parts2[i].size
  <2>1. /\ i \in 0..MaxFrag /\ i - 1 \in 0..MaxFrag /\ sum[i] \in Nat /\ sum[i - 1] \in Nat
        /\ sum[i] = sum[i - 1] + parts[i].size /\ parts[i].size \in Nat
    BY <1>2, <1>3, <1>4, <1>6
  <2>2. CASE i < num
    <3>1. i - 1 < num /\ parts2[i] = parts[i]
      BY <1>6, <2>1, <2>2 DEF Parts
    <3>. QED
      BY <2>1, <2>2, <3>1
  <2>3. CASE i = num
    <3>1. i - 1 < num /\ ~(i < num) /\ parts2[i] = new
      BY <1>6, <2>3 DEF Parts
    <3>2. sum2[i] = sum[i] - old + new.size /\ sum2[i - 1] = sum[i - 1]
      BY <2>1, <3>1
    <3>3. sum[i] = sum[i - 1] + old /\ parts2[i].size = new.size
      BY <1>7, <2>3, <3>1
    <3>. HIDE DEF sum2, parts2
    <3>. QED
      BY <1>2, <2>1, <3>2, <3>3
  <2>4. CASE i > num
    <3>1. ~(i - 1 < num) /\ ~(i < num) /\ parts2[i] = parts[i]
      BY <1>6, <2>1, <2>4 DEF Parts
    <3>2. sum2[i] = sum[i] - old + new.size /\ sum2[i - 1] = sum[i - 1] - old + new.size
      BY <2>1, <3>1
    <3>3. parts2[i].size = parts[i].size
      BY <3>1
    <3>. HIDE DEF sum2, parts2
    <3>. QED
      BY <1>2, <2>1, <3>2, <3>3
  <2>. QED
    BY <1>6, <2>2, <2>3, <2>4
<1>. HIDE DEF sum2, parts2
<1>13. AddUp(parts2, t)
  BY <1>10, <1>11, <1>12 DEF AddUp
<1>. QED
  BY <1>8, <1>13 DEF parts2, t, old

LEMMA NoAssemblyType ==
  /\ NoAssembly \in Assembly /\ ~NoAssembly.on /\ NoAssembly.total = 0 /\ NoAssembly.last = 0
  /\ \A i \in 1..MaxFrag : NoAssembly.parts[i].n = 0
  /\ AddUp(NoAssembly.parts, 0)
<1>1. NoPart \in Part /\ NoPart.n = 0 /\ NoPart.size = 0
  BY UdpAssumption DEF NoPart, Part
<1>2. 0 \in 0..MaxFrag /\ 0 \in 0..MaxAssembled
  BY UdpAssumption
<1>3. NoAssembly \in Assembly
  BY <1>1, <1>2 DEF NoAssembly, Assembly, Parts
<1>4. /\ ~NoAssembly.on /\ NoAssembly.total = 0 /\ NoAssembly.last = 0
      /\ NoAssembly.parts = [i \in 1..MaxFrag |-> NoPart]
  BY DEF NoAssembly
<1>5. AddUp(NoAssembly.parts, 0)
  <2>. DEFINE sum == [i \in 0..MaxFrag |-> 0]
  <2>1. sum \in [0..MaxFrag -> 0..0] /\ sum[0] = 0 /\ sum[MaxFrag] = 0
    BY UdpAssumption
  <2>2. ASSUME NEW i \in 1..MaxFrag
        PROVE  sum[i] = sum[i - 1] + NoAssembly.parts[i].size
    <3>1. i \in 0..MaxFrag /\ i - 1 \in 0..MaxFrag
      BY UdpAssumption
    <3>. QED
      BY <1>1, <1>4, <3>1
  <2>. HIDE DEF sum
  <2>. QED
    BY <2>1, <2>2 DEF AddUp
<1>. QED
  BY <1>1, <1>3, <1>4, <1>5

LEMMA AssemblingFinite ==
  IsFiniteSet(Keys) /\ \A T \in SUBSET Keys : IsFiniteSet(T) /\ Cardinality(T) \in Nat
<1>1. IsFiniteSet(Keys)
  BY UdpAssumption, FS_Union DEF Keys
<1>. QED
  BY <1>1, FS_Subset, FS_CardinalityType

(* An assembly is dropped, or changed, or begun where there is room. *)
LEMMA AsmSet ==
  ASSUME LifeInv, AsmInv, arrived' \in Limit, arrived <= arrived', NEW k \in Keys,
         NEW b \in Assembly,
         \/ b = NoAssembly
         \/ b.on /\ Sound(b) /\ (asm[k].on \/ Cardinality(Assembling) < MaxAssemblies),
         \A i \in 1..MaxFrag : b.parts[i].n <= arrived',
         asm' = [asm EXCEPT ![k] = b], oldAsm' \subseteq Keys
  PROVE  AsmInv'
<1>1. arrived \in Nat /\ arrived' \in Nat
  BY UdpAssumption DEF LifeInv, Limit
<1>2. asm \in [Keys -> Assembly] /\ asm' \in [Keys -> Assembly] /\ asm'[k] = b
      /\ \A c \in Keys : c # k => asm'[c] = asm[c]
  BY DEF AsmInv
<1>3. ASSUME NEW c \in Keys
      PROVE  /\ asm'[c].on => Sound(asm'[c])
             /\ ~asm'[c].on => asm'[c] = NoAssembly
             /\ \A i \in 1..MaxFrag : asm'[c].parts[i].n <= arrived'
  <2>1. CASE c = k
    BY <1>2, <2>1, NoAssemblyType
  <2>2. CASE c # k
    <3>1. \A i \in 1..MaxFrag : asm[c].parts[i].n \in Nat
      <4>0. asm[c] \in Assembly
        BY <1>2
      <4>1. \A i \in 1..MaxFrag : asm[c].parts[i] \in Part
        BY <4>0 DEF Assembly, Parts
      <4>. QED
        BY <4>1, UdpAssumption DEF Part
    <3>2. \A i \in 1..MaxFrag : asm[c].parts[i].n <= arrived
      BY DEF AsmInv
    <3>3. \A i \in 1..MaxFrag : asm[c].parts[i].n <= arrived'
      BY <1>1, <3>1, <3>2
    <3>. QED
      BY <1>2, <2>2, <3>3 DEF AsmInv
  <2>. QED
    BY <2>1, <2>2
<1>4. Cardinality(Assembling') <= MaxAssemblies
  <2>0. /\ Assembling \in SUBSET Keys /\ IsFiniteSet(Assembling)
        /\ Cardinality(Assembling) \in Nat /\ Cardinality(Assembling) <= MaxAssemblies
        /\ Assembling' \in SUBSET Keys /\ Cardinality(Assembling') \in Nat
    BY AssemblingFinite DEF Assembling, AsmInv
  <2>1. CASE asm[k].on \/ ~b.on
    <3>1. Assembling' \subseteq Assembling
      BY <1>2, <2>1 DEF Assembling
    <3>2. Cardinality(Assembling') <= Cardinality(Assembling)
      BY <2>0, <3>1, FS_Subset
    <3>. QED
      BY <2>0, <3>2, UdpAssumption
  <2>2. CASE ~asm[k].on /\ b.on
    <3>1. Assembling' = Assembling \cup {k} /\ k \notin Assembling
      BY <1>2, <2>2 DEF Assembling
    <3>2. Cardinality(Assembling') = Cardinality(Assembling) + 1
      BY <2>0, <3>1, FS_AddElement
    <3>3. Cardinality(Assembling) < MaxAssemblies
      BY <2>2, NoAssemblyType
    <3>. QED
      BY <2>0, <3>2, <3>3, UdpAssumption
  <2>. QED
    BY <2>1, <2>2
<1>. QED
  BY <1>2, <1>3, <1>4 DEF AsmInv

LEMMA FragmentAsm ==
  ASSUME IInv, Receives, NEW k \in Keys, NEW num \in 1..MaxFrag, NEW last \in BOOLEAN,
         NEW size \in Sizes, ProcessFragment(k, num, last, size)
  PROVE  AsmInv'
<1>1. LifeInv /\ AsmInv /\ oldAsm \subseteq Keys
  BY DEF IInv, AsmInv
<1>2. /\ arrived \in Nat /\ arrived' \in 1..MaxPackets /\ arrived' \in Limit
      /\ arrived <= arrived' /\ arrived' = arrived + 1
  BY <1>1, ReceiveFacts
<1>. DEFINE a == Begun(k, num)
            b == WithPart(a, num, last, size)
<1>3. CASE UNCHANGED <<asm, oldAsm>>
  BY <1>1, <1>2, <1>3, AsmFrame
<1>4. CASE asm' = [asm EXCEPT ![k] = NoAssembly] /\ oldAsm' = oldAsm \ {k}
  <2>1. \A i \in 1..MaxFrag : NoAssembly.parts[i].n <= arrived'
    BY <1>2, NoAssemblyType
  <2>. QED
    BY <1>1, <1>2, <1>4, <2>1, NoAssemblyType, AsmSet
<1>5. CASE /\ ~Dropped(k, num) /\ Fits(a, num, size) /\ ~Complete(b)
           /\ asm' = [asm EXCEPT ![k] = b] /\ oldAsm' = oldAsm \ {k}
  <2>1. asm[k].on \/ (num = 1 /\ Cardinality(Assembling) < MaxAssemblies)
    <3>1. Cardinality(Assembling) \in Nat
      BY AssemblingFinite DEF Assembling
    <3>. QED
      BY <1>5, <3>1, UdpAssumption DEF Dropped
  <2>2. /\ asm[k] \in Assembly /\ (asm[k].on => Sound(asm[k]))
        /\ \A i \in 1..MaxFrag : asm[k].parts[i].n <= arrived
    BY <1>1 DEF AsmInv
  <2>3. /\ a \in Assembly /\ a.on /\ AddUp(a.parts, a.total)
        /\ \A i \in 1..MaxFrag : a.parts[i].n <= arrived
        /\ num = 1 => \A i \in 1..MaxFrag : a.parts[i].n = 0
        /\ num # 1 => Sound(a)
    <3>1. CASE num = 1
      <4>. DEFINE f == [NoAssembly EXCEPT !.on = TRUE]
      <4>1. f \in Assembly /\ f.on /\ f.parts = NoAssembly.parts /\ f.total = NoAssembly.total
        BY NoAssemblyType DEF Assembly
      <4>2. a = f
        BY <3>1 DEF Begun
      <4>. HIDE DEF a, f
      <4>. QED
        BY <1>2, <3>1, <4>1, <4>2, NoAssemblyType
    <3>2. CASE num # 1
      BY <2>1, <2>2, <3>2 DEF Begun, Sound
    <3>. QED
      BY <3>1, <3>2
  <2>. HIDE DEF a
  <2>. DEFINE new == [n |-> arrived', size |-> size]
              parts2 == [a.parts EXCEPT ![num] = new]
              t == a.total - a.parts[num].size + size
              l == IF last THEN num ELSE a.last
              c == [a EXCEPT !.parts = parts2, !.total = t, !.last = l]
  <2>4. b = c
    BY <2>3 DEF WithPart, Total, Assembly
  <2>5. /\ a.parts \in Parts /\ a.total \in 0..MaxAssembled /\ a.last \in 0..MaxFrag
        /\ \A i \in 1..MaxFrag : a.parts[i] \in Part
    BY <2>3 DEF Assembly, Parts
  <2>6. new \in Part /\ new.n = arrived' /\ new.size = size
    BY <1>2 DEF Part
  <2>7. t \in Nat /\ AddUp(parts2, t)
    <3>1. a.total \in Nat
      BY <2>5, UdpAssumption
    <3>2. /\ a.total - a.parts[num].size + new.size \in Nat
          /\ AddUp([a.parts EXCEPT ![num] = new], a.total - a.parts[num].size + new.size)
      BY <2>3, <2>5, <2>6, <3>1, AddUpReplace
    <3>. QED
      BY <2>6, <3>2
  <2>8. /\ parts2 \in Parts /\ parts2[num] = new
        /\ \A i \in 1..MaxFrag : i # num => parts2[i] = a.parts[i]
    BY <2>5, <2>6 DEF Parts
  <2>9. t \in 0..MaxAssembled /\ l \in 0..MaxFrag
    BY <1>5, <2>5, <2>7, UdpAssumption DEF Fits, Total
  <2>. HIDE DEF new, parts2, t, l
  <2>10. /\ c \in Assembly /\ c.on /\ c.parts = parts2 /\ c.total = t
    BY <2>3, <2>8, <2>9 DEF Assembly
  <2>. HIDE DEF b, c
  <2>11. \A i \in 1..MaxFrag : a.parts[i].n \in Nat /\ a.parts[i].n <= arrived
    <3>1. \A e \in Part : e.n \in Nat
      BY UdpAssumption DEF Part
    <3>. QED
      BY <2>3, <2>5, <3>1
  <2>12. 1 \in 1..MaxFrag
    BY UdpAssumption
  <2>13. c.parts[1].n # 0
    <3>1. CASE num = 1
      BY <1>2, <2>6, <2>8, <2>10, <3>1
    <3>2. CASE num # 1
      BY <2>3, <2>8, <2>10, <2>12, <3>2 DEF Sound
    <3>. QED
      BY <3>1, <3>2
  <2>14. ASSUME NEW i \in 1..MaxFrag, c.parts[i].n # 0
         PROVE  c.parts[i].n >= c.parts[1].n
    <3>1. CASE num = 1
      <4>1. i = 1
        BY <2>3, <2>8, <2>10, <2>14, <3>1
      <4>. QED
        BY <1>2, <2>6, <2>8, <2>10, <3>1, <4>1
    <3>2. CASE num # 1
      <4>1. c.parts[1] = a.parts[1]
        BY <2>8, <2>10, <2>12, <3>2
      <4>2. CASE i = num
        BY <1>2, <2>6, <2>8, <2>10, <2>11, <2>12, <4>1, <4>2
      <4>3. CASE i # num
        BY <2>3, <2>8, <2>10, <2>14, <3>2, <4>1, <4>3 DEF Sound
      <4>. QED
        BY <4>2, <4>3
    <3>. QED
      BY <3>1, <3>2
  <2>15. Sound(c)
    BY <1>5, <2>4, <2>7, <2>10, <2>13, <2>14 DEF Sound
  <2>16. \A i \in 1..MaxFrag : c.parts[i].n <= arrived'
    BY <1>2, <2>6, <2>8, <2>10, <2>11
  <2>17. asm' = [asm EXCEPT ![k] = c] /\ oldAsm' \subseteq Keys
    BY <1>1, <1>5, <2>4
  <2>. QED
    BY <1>1, <1>2, <2>1, <2>10, <2>15, <2>16, <2>17, AsmSet
<1>. QED
  BY <1>3, <1>4, <1>5 DEF ProcessFragment

-----------------------------------------------------------------------------
(* A datagram arrives. *)
LEMMA ClientPacketInv ==
  ASSUME IInv, Receives, HandleClientPacket
  PROVE  AsmInv' /\ Rest'
<1>1. LifeInv /\ AsmInv
  BY DEF IInv
<1>2. ASSUME UNCHANGED <<asm, oldAsm>> PROVE AsmInv'
  <2>1. arrived' \in Limit /\ arrived <= arrived' /\ oldAsm' \subseteq Keys
    BY <1>1, <1>2, ReceiveFacts DEF AsmInv
  <2>. QED
    BY <1>1, <1>2, <2>1, AsmFrame
<1>3. ASSUME NEW k \in Keys, NEW size \in Sizes,
             DispatchClientPayload(k, <<[n |-> arrived', size |-> size]>>),
             UNCHANGED <<asm, oldAsm>>
      PROVE  AsmInv' /\ Rest'
  BY <1>2, <1>3, DispatchRest
<1>4. ASSUME NEW k \in Keys, NEW num \in 1..MaxFrag, NEW last \in BOOLEAN,
             NEW size \in Sizes, ProcessFragment(k, num, last, size)
      PROVE  AsmInv' /\ Rest'
  <2>1. AsmInv'
    BY <1>4, FragmentAsm
  <2>. DEFINE b == WithPart(Begun(k, num), num, last, size)
  <2>2. Nothing \/ DispatchClientPayload(k, Payload(b))
    BY <1>4 DEF ProcessFragment
  <2>3. Rest'
    BY <2>2, NothingRest, DispatchRest
  <2>. QED
    BY <2>1, <2>3
<1>5. ASSUME Nothing, UNCHANGED <<asm, oldAsm>> PROVE AsmInv' /\ Rest'
  BY <1>2, <1>5, NothingRest
<1>. QED
  BY <1>3, <1>4, <1>5 DEF HandleClientPacket

LEMMA DatagramInv ==
  ASSUME IInv, NEW src \in Locals \cup Servers, OnDatagram(src)
  PROVE  IInv'
<1>1. LifeInv /\ AsmInv /\ Receives /\ recv' = FALSE /\ idle' = FALSE /\ due' = due
  BY DEF OnDatagram, Receives, IInv
<1>2. arrived' \in Limit /\ arrived <= arrived'
  BY <1>1, ReceiveFacts
<1>3. client' \in Locals \cup {None}
  BY <1>1 DEF LifeInv, OnDatagram, HandlePacket
<1>4. LifeInv'
  BY <1>1, <1>2, <1>3 DEF LifeInv, Receives, lifeVars
<1>5. ASSUME UNCHANGED <<asm, oldAsm>> PROVE AsmInv'
  <2>1. oldAsm' \subseteq Keys
    BY <1>1, <1>5 DEF AsmInv
  <2>. QED
    BY <1>1, <1>2, <1>5, <2>1, AsmFrame
<1>6. CASE HandleClientPacket
  BY <1>1, <1>4, <1>6, ClientPacketInv DEF IInv
<1>7. CASE HandleServerResponse(src)
  <2>1. Rest' /\ UNCHANGED <<asm, oldAsm>>
    BY <1>1, <1>7, ServerRest
  <2>. QED
    BY <1>4, <1>5, <2>1 DEF IInv
<1>8. CASE Nothing /\ UNCHANGED <<asm, oldAsm>>
  BY <1>1, <1>4, <1>5, <1>8, NothingRest DEF IInv
<1>. QED
  BY <1>6, <1>7, <1>8 DEF OnDatagram, HandlePacket

-----------------------------------------------------------------------------
(* A step that leaves the tables alone. *)
LEMMA TablesFrame ==
  ASSUME IInv, UNCHANGED <<active, oldDest, asm, oldAsm, sendVars, stop, arrived>>
  PROVE  ActiveInv' /\ AsmInv' /\ SendInv'
<1>1. LifeInv /\ AsmInv /\ ActiveInv /\ SendInv
  BY DEF IInv, Rest
<1>2. arrived' \in Limit /\ arrived <= arrived' /\ oldAsm' \subseteq Keys
  BY <1>1, UdpAssumption DEF LifeInv, Limit, AsmInv
<1>. QED
  BY <1>1, <1>2, ActiveFrame, AsmFrame, SendFrame

LEMMA WaitingFrame ==
  ASSUME IInv, UNCHANGED <<batch, sendVars, arrived>>,
         handler = "batch" <=> handler' = "batch"
  PROVE  BatchInv' /\ (pending' = pending => PendingInv')
<1>1. LifeInv /\ BatchInv /\ PendingInv /\ UNCHANGED <<sends, posted>>
  BY DEF IInv, Rest, sendVars
<1>2. arrived' \in Limit /\ arrived <= arrived'
  BY <1>1, UdpAssumption DEF LifeInv, Limit
<1>3. BatchInv'
  BY <1>1, <1>2, BatchFrame
<1>4. ASSUME pending' = pending PROVE PendingInv'
  BY <1>1, <1>2, <1>4, PendingFrame
<1>. QED
  BY <1>3, <1>4

(* What waits for a name is given up, or taken away. *)
LEMMA PendingEmptied ==
  ASSUME LifeInv, PendingInv, NEW d \in Names, pending' = [pending EXCEPT ![d] = <<>>],
         UNCHANGED <<sends, posted, arrived>>
  PROVE  PendingInv'
<1>1. /\ pending' \in [Names -> Seq(Datagram)] /\ pending'[d] = <<>>
      /\ \A c \in Names : c # d => pending'[c] = pending[c]
  BY DEF PendingInv
<1>2. Waits(<<>>, d, sends, posted, arrived) /\ Len(<<>>) <= MaxPerDomain
  BY UdpAssumption DEF Waits, Ordered
<1>3. ASSUME NEW c \in Names
      PROVE  Waits(pending'[c], c, sends, posted, arrived) /\ Len(pending'[c]) <= MaxPerDomain
  BY <1>1, <1>2 DEF PendingInv
<1>. QED
  BY <1>1, <1>3 DEF PendingInv

(* Stop empties the tables; the operations under way go on. *)
LEMMA StopEffect ==
  ASSUME IInv, ~stop, handler # "batch", handler' # "batch", NEW notify \in BOOLEAN,
         StopNow(notify), UNCHANGED <<batch, dnsVars, inFlight, failed, posted, arrived>>,
         oldAsm' \subseteq Keys
  PROVE  /\ told' \in 0..1 /\ stop' = TRUE /\ sock' = FALSE
         /\ AsmInv' /\ NameInv' /\ SendInv' /\ BatchInv' /\ PendingInv'
<1>1. LifeInv /\ AsmInv /\ NameInv /\ SendInv /\ BatchInv /\ PendingInv
  BY DEF IInv, Rest
<1>2. /\ told' \in 0..1 /\ stop' = TRUE /\ sock' = FALSE
      /\ sends' = <<>> /\ asm' = [k \in Keys |-> NoAssembly]
      /\ known' = {} /\ pending' = [d \in Names |-> <<>>] /\ resolving' = {}
  <2>1. told = 0
    BY <1>1 DEF LifeInv
  <2>2. told' = 0 + (IF notify THEN 1 ELSE 0)
    BY <2>1 DEF StopNow
  <2>. QED
    BY <2>2 DEF StopNow
<1>3. AsmInv'
  <2>1. asm' \in [Keys -> Assembly] /\ \A k \in Keys : asm'[k] = NoAssembly
    BY <1>2, NoAssemblyType
  <2>2. Assembling' = {}
    BY <2>1, NoAssemblyType DEF Assembling
  <2>3. Cardinality(Assembling') <= MaxAssemblies
    BY <2>2, FS_EmptySet, UdpAssumption
  <2>4. 0 <= arrived'
    BY <1>1, UdpAssumption DEF LifeInv, Limit
  <2>. QED
    BY <2>1, <2>3, <2>4, NoAssemblyType DEF AsmInv
<1>4. NameInv'
  <2>1. Cardinality(known') <= MaxDomains
    BY <1>2, FS_EmptySet, UdpAssumption
  <2>. QED
    BY <1>1, <1>2, <2>1 DEF NameInv, dnsVars
<1>5. SendInv'
  <2>1. posted' \in [Sources -> Limit] /\ \A s \in Sources : posted[s] < arrived + 1
    BY <1>1 DEF SendInv, QueueSound, Older
  <2>2. <<>> \in Seq(Datagram) /\ DOMAIN <<>> = {} /\ Len(<<>>) <= MaxSends
    BY UdpAssumption
  <2>3. QueueSound(sends', posted')
    BY <1>2, <2>1, <2>2 DEF QueueSound, Ordered
  <2>4. \A s \in Sources : Older(sends', posted', s, arrived' + 1)
    BY <1>2, <2>1, <2>2 DEF Older
  <2>. QED
    BY <1>1, <1>2, <2>3, <2>4 DEF SendInv
<1>6. BatchInv'
  BY <1>1, NoBatchInv
<1>7. PendingInv'
  <2>1. pending' \in [Names -> Seq(Datagram)] /\ \A d \in Names : pending'[d] = <<>>
    BY <1>2
  <2>2. \A d \in Names : /\ Waits(<<>>, d, sends', posted', arrived')
                         /\ Len(<<>>) <= MaxPerDomain
    BY UdpAssumption DEF Waits, Ordered
  <2>. QED
    BY <2>1, <2>2 DEF PendingInv
<1>. QED
  BY <1>2, <1>3, <1>4, <1>5, <1>6, <1>7

LEMMA StartInv ==
  ASSUME IInv, Start
  PROVE  IInv'
<1>1. LifeInv /\ NameInv
  BY DEF IInv, Rest
<1>2. /\ UNCHANGED <<active, oldDest, asm, oldAsm, sendVars, stop, arrived>>
      /\ UNCHANGED <<batch, sendVars, arrived>> /\ handler' = handler
      /\ UNCHANGED <<nameVars, dnsVars, batch>> /\ pending' = pending /\ stop' = stop
  BY DEF Start, timeVars, nameVars
<1>3. AsmInv' /\ ActiveInv' /\ SendInv' /\ BatchInv' /\ PendingInv'
  BY <1>2, TablesFrame, WaitingFrame
<1>4. NameInv'
  BY <1>1, <1>2, NameFrame
<1>5. LifeInv'
  <2>1. PICK bound \in {TRUE, ~Faults}, posts \in {TRUE, ~Faults} :
          /\ sock' = bound /\ recv' = (bound /\ posts)
          /\ phase' = IF bound /\ posts THEN "running" ELSE "failed"
    BY DEF Start
  <2>2. sock' \in BOOLEAN /\ recv' \in BOOLEAN /\ phase' \in {"new", "running", "failed"}
    BY <2>1, UdpAssumption, Zenon
  <2>. QED
    BY <1>1, <2>2 DEF LifeInv, Start, timeVars
<1>. QED
  BY <1>3, <1>4, <1>5 DEF IInv, Rest

LEMMA StopInv ==
  ASSUME IInv, StopBySession
  PROVE  IInv'
<1>1. LifeInv /\ AsmInv /\ ActiveInv
  BY DEF IInv, Rest
<1>2. /\ ~stop /\ handler # "batch" /\ handler' # "batch" /\ StopNow(FALSE) /\ handler = "none"
      /\ UNCHANGED <<batch, dnsVars, inFlight, failed, posted, arrived>>
      /\ oldAsm' = oldAsm /\ UNCHANGED <<active, oldDest>> /\ handler' = handler
      /\ UNCHANGED <<phase, recv, client, idle, due>>
  BY DEF StopBySession, timeVars
<1>3. oldAsm' \subseteq Keys
  BY <1>1, <1>2 DEF AsmInv
<1>4. /\ told' \in 0..1 /\ stop' = TRUE /\ sock' = FALSE
      /\ AsmInv' /\ NameInv' /\ SendInv' /\ BatchInv' /\ PendingInv'
  BY <1>2, <1>3, StopEffect
<1>5. ActiveInv'
  BY <1>1, <1>2, ActiveFrame
<1>6. LifeInv'
  BY <1>1, <1>2, <1>4 DEF LifeInv
<1>. QED
  BY <1>4, <1>5, <1>6 DEF IInv, Rest

LEMMA RecvFailsInv ==
  ASSUME IInv, OnRecvFails \/ DrainRecv
  PROVE  IInv'
<1>1. LifeInv /\ NameInv
  BY DEF IInv, Rest
<1>2. /\ UNCHANGED <<active, oldDest, asm, oldAsm, sendVars, stop, arrived>>
      /\ UNCHANGED <<batch, sendVars, arrived>> /\ (handler = "batch" <=> handler' = "batch")
      /\ UNCHANGED <<nameVars, dnsVars, batch>> /\ pending' = pending /\ stop' = stop
  BY DEF OnRecvFails, DrainRecv, timeVars, nameVars, lifeVars
<1>3. AsmInv' /\ ActiveInv' /\ SendInv' /\ BatchInv' /\ PendingInv'
  BY <1>2, TablesFrame, WaitingFrame
<1>4. NameInv'
  BY <1>1, <1>2, NameFrame
<1>5. LifeInv'
  <2>1. CASE OnRecvFails
    BY <1>1, <2>1 DEF LifeInv, OnRecvFails, lifeVars, timeVars
  <2>2. CASE DrainRecv
    BY <1>1, <2>2 DEF LifeInv, DrainRecv, lifeVars, timeVars
  <2>. QED
    BY <2>1, <2>2
<1>. QED
  BY <1>3, <1>4, <1>5 DEF IInv, Rest

LEMMA AfterReceiveInv ==
  ASSUME IInv, AfterReceive
  PROVE  IInv'
<1>1. LifeInv /\ AsmInv /\ ActiveInv /\ NameInv /\ SendInv /\ BatchInv /\ PendingInv
  BY DEF IInv, Rest
<1>2. /\ handler # "batch" /\ handler' = "none" /\ ~stop /\ oldAsm' \subseteq Keys
      /\ UNCHANGED <<batch, dnsVars, inFlight, failed, posted, arrived>>
      /\ UNCHANGED <<phase, client, idle>>
  BY <1>1 DEF AfterReceive, LifeInv, AsmInv
<1>3. ActiveInv' /\ due' \in BOOLEAN
  <2>1. IsFiniteSet(active) /\ Cardinality(active) \in Nat
    BY <1>1, UdpAssumption, FS_Subset, FS_CardinalityType DEF ActiveInv
  <2>2. Cardinality(active \ oldDest) <= Cardinality(active)
        /\ Cardinality(active \ oldDest) \in Nat
    BY <2>1, FS_Subset, FS_CardinalityType
  <2>3. Cardinality(active') <= MaxActive
    BY <1>1, <2>1, <2>2, UdpAssumption DEF ActiveInv, AfterReceive, CleanupState
  <2>. QED
    BY <1>1, <2>3 DEF ActiveInv, AfterReceive, CleanupState, LifeInv
<1>4. CASE recv' = TRUE /\ asm' = Kept /\ UNCHANGED <<stop, told, sock, sends, nameVars>>
  <2>1. AsmInv'
    <3>1. \A k \in Keys : Kept[k] = asm[k] \/ Kept[k] = NoAssembly
      BY DEF Kept
    <3>2. asm \in [Keys -> Assembly] /\ Kept \in [Keys -> Assembly]
      BY <1>1, <3>1, NoAssemblyType DEF AsmInv, Kept
    <3>3. Assembling' \subseteq Assembling
      BY <1>4, <3>1, NoAssemblyType DEF Assembling
    <3>4. /\ Assembling \in SUBSET Keys /\ Assembling' \in SUBSET Keys
          /\ Cardinality(Assembling) <= MaxAssemblies
      BY <1>1 DEF Assembling, AsmInv
    <3>5. Cardinality(Assembling') <= Cardinality(Assembling)
          /\ Cardinality(Assembling) \in Nat /\ Cardinality(Assembling') \in Nat
      BY <3>3, <3>4, AssemblingFinite, FS_Subset
    <3>6. Cardinality(Assembling') <= MaxAssemblies
      BY <3>4, <3>5, UdpAssumption
    <3>7. 0 <= arrived
      BY <1>1, UdpAssumption DEF LifeInv, Limit
    <3>8. ASSUME NEW k \in Keys
          PROVE  /\ asm'[k].on => Sound(asm'[k])
                 /\ ~asm'[k].on => asm'[k] = NoAssembly
                 /\ \A i \in 1..MaxFrag : asm'[k].parts[i].n <= arrived'
      BY <1>1, <1>2, <1>4, <3>1, <3>7, NoAssemblyType DEF AsmInv
    <3>. QED
      BY <1>2, <1>4, <3>2, <3>6, <3>8 DEF AsmInv
  <2>2. /\ UNCHANGED <<sendVars, stop>> /\ UNCHANGED <<batch, sendVars, arrived>>
        /\ UNCHANGED <<nameVars, dnsVars, batch>> /\ pending' = pending
        /\ arrived' \in Limit /\ arrived <= arrived'
    BY <1>1, <1>2, <1>4, UdpAssumption DEF sendVars, nameVars, LifeInv, Limit
  <2>3. SendInv' /\ BatchInv' /\ PendingInv' /\ NameInv'
    BY <1>1, <1>2, <2>2, SendFrame, WaitingFrame, NameFrame
  <2>4. LifeInv'
    BY <1>1, <1>2, <1>3, <1>4 DEF LifeInv
  <2>. QED
    BY <1>3, <2>1, <2>3, <2>4 DEF IInv, Rest
<1>5. CASE StopNow(TRUE) /\ UNCHANGED recv
  <2>1. /\ told' \in 0..1 /\ stop' = TRUE /\ sock' = FALSE
        /\ AsmInv' /\ NameInv' /\ SendInv' /\ BatchInv' /\ PendingInv'
    BY <1>2, <1>5, StopEffect
  <2>2. LifeInv'
    BY <1>1, <1>2, <1>3, <1>5, <2>1 DEF LifeInv
  <2>. QED
    BY <1>3, <2>1, <2>2 DEF IInv, Rest
<1>. QED
  BY <1>4, <1>5 DEF AfterReceive

LEMMA SendCompletedInv ==
  ASSUME IInv, OnSendCompleted
  PROVE  IInv'
<1>1. LifeInv /\ AsmInv /\ ActiveInv /\ NameInv /\ SendInv /\ BatchInv /\ PendingInv
  BY DEF IInv, Rest
<1>2. /\ UNCHANGED <<active, oldDest>> /\ UNCHANGED asm /\ oldAsm' \subseteq Keys
      /\ UNCHANGED <<nameVars, dnsVars, batch>> /\ handler' = handler /\ stop' = stop
      /\ arrived' \in Limit /\ arrived <= arrived'
  BY <1>1, UdpAssumption DEF OnSendCompleted, timeVars, lifeVars, LifeInv, AsmInv, Limit
<1>3. ActiveInv' /\ AsmInv' /\ NameInv'
  BY <1>1, <1>2, ActiveFrame, AsmFrame, NameFrame
<1>4. SendInv' /\ BatchInv' /\ PendingInv'
  BY <1>1, PumpKeeps
<1>5. LifeInv'
  BY <1>1 DEF LifeInv, OnSendCompleted, lifeVars, timeVars
<1>. QED
  BY <1>3, <1>4, <1>5 DEF IInv, Rest

LEMMA TimeInv ==
  ASSUME IInv, FragTimePasses \/ IdleTimePasses
  PROVE  IInv'
<1>1. LifeInv /\ AsmInv /\ ActiveInv /\ NameInv /\ SendInv
  BY DEF IInv, Rest
<1>2. /\ UNCHANGED <<active, asm, sendVars, stop, arrived>> /\ UNCHANGED <<sendVars, stop>>
      /\ UNCHANGED <<batch, sendVars, arrived>> /\ handler' = handler
      /\ UNCHANGED <<nameVars, dnsVars, batch>> /\ pending' = pending
      /\ oldAsm' \subseteq Keys /\ oldDest' \subseteq active
      /\ arrived' \in Limit /\ arrived <= arrived'
  <2>1. CASE FragTimePasses
    BY <1>1, <2>1, UdpAssumption DEF FragTimePasses, lifeVars, nameVars, Assembling,
       LifeInv, Limit, ActiveInv
  <2>2. CASE IdleTimePasses
    BY <1>1, <2>2, UdpAssumption DEF IdleTimePasses, lifeVars, nameVars, Assembling,
       LifeInv, Limit, ActiveInv
  <2>. QED
    BY <2>1, <2>2
<1>3. ActiveInv' /\ AsmInv' /\ SendInv' /\ BatchInv' /\ PendingInv' /\ NameInv'
  <2>1. ActiveInv'
    BY <1>1, <1>2 DEF ActiveInv
  <2>. QED
    BY <1>1, <1>2, <2>1, AsmFrame, SendFrame, WaitingFrame, NameFrame
<1>4. LifeInv'
  BY <1>1 DEF LifeInv, FragTimePasses, IdleTimePasses, lifeVars
<1>. QED
  BY <1>3, <1>4 DEF IInv, Rest

-----------------------------------------------------------------------------
(* Where a name is while the relay runs. *)
At(c) ==
  /\ pending[c] # <<>> => c \in known
  /\ c \in resolving => Whereabouts(c)
  /\ c \notin resolving => Nowhere(c)

(* A step about one name leaves the others where they are. *)
LEMMA OtherName ==
  ASSUME NEW c, At(c), pending'[c] = pending[c], c \in known => c \in known',
         c \in resolving' <=> c \in resolving, asked'[c] = asked[c],
         calling'[c] = calling[c], port'[c] = port[c], Serving(c)' <=> Serving(c)
  PROVE  At(c)'
BY DEF At, Whereabouts, Nowhere

LEMMA NameTables ==
  ASSUME IInv
  PROVE  /\ known \subseteq Names /\ IsFiniteSet(known) /\ Cardinality(known) \in Nat
         /\ Cardinality(known) <= MaxDomains /\ resolving \subseteq Names
         /\ asked \in [Names -> Nat] /\ calling \in [Names -> SUBSET Results]
         /\ port \in [Names -> SUBSET Results] /\ pending \in [Names -> Seq(Datagram)]
         /\ ~stop => \A c \in Names : At(c)
         /\ \A d \in Names : Cardinality(known \ {d}) <= MaxDomains
<1>1. NameInv /\ PendingInv
  BY DEF IInv, Rest
<1>2. IsFiniteSet(known) /\ Cardinality(known) \in Nat /\ Cardinality(known) <= MaxDomains
  BY <1>1, UdpAssumption, FS_Subset, FS_CardinalityType DEF NameInv
<1>3. ASSUME NEW d \in Names PROVE Cardinality(known \ {d}) <= MaxDomains
  <2>1. Cardinality(known \ {d}) <= Cardinality(known) /\ Cardinality(known \ {d}) \in Nat
    BY <1>2, FS_Subset, FS_CardinalityType
  <2>. QED
    BY <1>2, <2>1, UdpAssumption
<1>. QED
  BY <1>1, <1>2, <1>3 DEF NameInv, PendingInv, At

(* The resolver answers. *)
LEMMA AnsweredInv ==
  ASSUME IInv, NEW d \in Names, DnsAnswered(d)
  PROVE  IInv'
<1>1. LifeInv
  BY DEF IInv
<1>2. /\ UNCHANGED <<active, oldDest, asm, oldAsm, sendVars, stop, arrived>>
      /\ UNCHANGED <<batch, sendVars, arrived>> /\ handler' = handler
      /\ known' = known /\ pending' = pending /\ resolving' = resolving /\ port' = port
      /\ stop' = stop /\ batch' = batch
  BY DEF DnsAnswered, timeVars, lifeVars, nameVars
<1>3. ActiveInv' /\ AsmInv' /\ SendInv' /\ BatchInv' /\ PendingInv'
  BY <1>2, TablesFrame, WaitingFrame
<1>4. LifeInv'
  BY <1>1 DEF LifeInv, DnsAnswered, lifeVars, timeVars
<1>5. PICK ip \in Results :
        calling' = IF stop THEN calling ELSE [calling EXCEPT ![d] = calling[d] \cup {ip}]
  BY NameTables DEF DnsAnswered
<1>6. asked[d] > 0 /\ asked' = [asked EXCEPT ![d] = asked[d] - 1]
  BY NameTables DEF DnsAnswered
<1>7. /\ calling' \in [Names -> SUBSET Results] /\ asked' \in [Names -> Nat]
      /\ asked'[d] = asked[d] - 1
      /\ \A c \in Names : c # d => asked'[c] = asked[c] /\ calling'[c] = calling[c]
      /\ ~stop => calling'[d] = calling[d] \cup {ip}
  BY <1>5, <1>6, NameTables
<1>8. \A c \in Names : Serving(c)' <=> Serving(c)
  BY <1>2 DEF Serving
<1>9. ASSUME ~stop, NEW c \in Names PROVE At(c)'
  <2>1. At(c) /\ At(d)
    BY <1>9, NameTables
  <2>2. CASE c # d
    BY <1>2, <1>7, <1>8, <2>1, <2>2, OtherName
  <2>3. CASE c = d
    <3>1. d \in resolving /\ asked[d] = 1 /\ calling[d] = {} /\ port[d] = {} /\ ~Serving(d)
      BY <1>6, <2>1 DEF At, Whereabouts, Nowhere
    <3>2. asked'[d] = 0 /\ calling'[d] = {ip} /\ port'[d] = {} /\ ~Serving(d)'
      BY <1>2, <1>7, <1>8, <1>9, <3>1
    <3>. QED
      BY <1>2, <2>1, <2>3, <3>1, <3>2 DEF At, Whereabouts
  <2>. QED
    BY <2>2, <2>3
<1>10. NameInv'
  BY <1>2, <1>7, <1>9, NameTables DEF NameInv, At
<1>. QED
  BY <1>3, <1>4, <1>10 DEF IInv, Rest

(* Its callback posts the answer, or gives up the name. *)
LEMMA PostsInv ==
  ASSUME IInv, NEW d \in Names, DnsPosts(d)
  PROVE  IInv'
<1>1. LifeInv /\ PendingInv
  BY DEF IInv, Rest
<1>2. /\ UNCHANGED <<active, oldDest, asm, oldAsm, sendVars, stop, arrived>>
      /\ UNCHANGED <<batch, sendVars, arrived>> /\ handler' = handler
      /\ asked' = asked /\ stop' = stop /\ batch' = batch
      /\ UNCHANGED <<sends, posted, arrived>>
  BY DEF DnsPosts, timeVars, lifeVars, sendVars
<1>3. ActiveInv' /\ AsmInv' /\ SendInv' /\ BatchInv' /\ (pending' = pending => PendingInv')
  BY <1>2, TablesFrame, WaitingFrame
<1>4. LifeInv'
  BY <1>1 DEF LifeInv, DnsPosts, lifeVars, timeVars
<1>5. PICK ip \in calling[d] :
        /\ calling' = [calling EXCEPT ![d] = calling[d] \ {ip}]
        /\ \/ port' = [port EXCEPT ![d] = port[d] \cup {ip}] /\ UNCHANGED nameVars
           \/ /\ UNCHANGED port
              /\ known' = known \ {d} /\ pending' = [pending EXCEPT ![d] = <<>>]
              /\ resolving' = resolving \ {d}
  BY NameTables DEF DnsPosts
<1>6. /\ calling' \in [Names -> SUBSET Results] /\ calling'[d] = calling[d] \ {ip}
      /\ \A c \in Names : c # d => calling'[c] = calling[c]
      /\ ip \in Results
  BY <1>5, NameTables
<1>7. \A c \in Names : Serving(c)' <=> Serving(c)
  BY <1>2 DEF Serving
<1>8. ASSUME ~stop
      PROVE  /\ d \in resolving /\ asked[d] = 0 /\ calling[d] = {ip} /\ port[d] = {}
             /\ ~Serving(d) /\ calling'[d] = {}
  <2>1. At(d)
    BY <1>8, NameTables
  <2>2. d \in resolving /\ asked[d] = 0 /\ calling[d] = {ip} /\ port[d] = {} /\ ~Serving(d)
    BY <1>5, <2>1 DEF At, Whereabouts, Nowhere
  <2>. QED
    BY <1>6, <2>2
<1>9. CASE port' = [port EXCEPT ![d] = port[d] \cup {ip}] /\ UNCHANGED nameVars
  <2>1. /\ port' \in [Names -> SUBSET Results] /\ port'[d] = port[d] \cup {ip}
        /\ \A c \in Names : c # d => port'[c] = port[c]
        /\ known' = known /\ pending' = pending /\ resolving' = resolving
    BY <1>6, <1>9, NameTables DEF nameVars
  <2>2. ASSUME ~stop, NEW c \in Names PROVE At(c)'
    <3>1. At(c)
      BY <2>2, NameTables
    <3>2. CASE c # d
      BY <1>2, <1>6, <1>7, <2>1, <3>1, <3>2, OtherName
    <3>3. CASE c = d
      <4>1. asked'[d] = 0 /\ calling'[d] = {} /\ port'[d] = {ip} /\ ~Serving(d)'
        BY <1>2, <1>7, <1>8, <2>1, <2>2
      <4>. QED
        BY <1>6, <1>8, <2>1, <2>2, <3>1, <3>3, <4>1 DEF At, Whereabouts
    <3>. QED
      BY <3>2, <3>3
  <2>3. NameInv'
    BY <1>2, <1>6, <2>1, <2>2, NameTables DEF NameInv, At
  <2>. QED
    BY <1>3, <1>4, <2>1, <2>3 DEF IInv, Rest
<1>10. CASE /\ UNCHANGED port
            /\ known' = known \ {d} /\ pending' = [pending EXCEPT ![d] = <<>>]
            /\ resolving' = resolving \ {d}
  <2>1. /\ pending'[d] = <<>> /\ \A c \in Names : c # d => pending'[c] = pending[c]
        /\ known' \subseteq Names /\ resolving' \subseteq Names
    BY <1>10, NameTables
  <2>2. ASSUME ~stop, NEW c \in Names PROVE At(c)'
    <3>1. At(c)
      BY <2>2, NameTables
    <3>2. CASE c # d
      <4>1. (c \in known => c \in known') /\ (c \in resolving' <=> c \in resolving)
        BY <1>10, <3>2
      <4>. QED
        BY <1>2, <1>6, <1>7, <1>10, <2>1, <3>1, <3>2, <4>1, OtherName
    <3>3. CASE c = d
      BY <1>2, <1>7, <1>8, <1>10, <2>1, <2>2, <3>3 DEF At, Nowhere
    <3>. QED
      BY <3>2, <3>3
  <2>3. NameInv'
    BY <1>2, <1>6, <1>10, <2>1, <2>2, NameTables DEF NameInv, At
  <2>4. PendingInv'
    BY <1>1, <1>2, <1>10, PendingEmptied
  <2>. QED
    BY <1>3, <1>4, <2>3, <2>4 DEF IInv, Rest
<1>. QED
  BY <1>5, <1>9, <1>10

(* The answer is handled: what waits is dropped, or is to be sent. *)
LEMMA NotifyInv ==
  ASSUME IInv, NEW d \in Names, OnDnsNotify(d)
  PROVE  IInv'
<1>1. LifeInv /\ PendingInv /\ BatchInv /\ handler = "none"
  BY DEF IInv, Rest, OnDnsNotify
<1>2. /\ UNCHANGED <<active, oldDest, asm, oldAsm, sendVars, stop, arrived>>
      /\ UNCHANGED <<sendVars, arrived>> /\ UNCHANGED <<sends, posted, arrived>>
      /\ asked' = asked /\ calling' = calling /\ stop' = stop
  BY DEF OnDnsNotify, timeVars, lifeVars, sendVars
<1>3. ActiveInv' /\ AsmInv' /\ SendInv'
  BY <1>2, TablesFrame
<1>4. PICK ip \in port[d] :
       /\ port' = [port EXCEPT ![d] = port[d] \ {ip}]
       /\ \/ stop /\ UNCHANGED <<nameVars, handler, batch>>
          \/ /\ ~stop /\ (pending[d] = <<>> \/ ip \notin Servers)
             /\ NamesDone(d) /\ pending' = [pending EXCEPT ![d] = <<>>]
             /\ known' = IF ip = "failed" /\ pending[d] # <<>> THEN known \ {d} ELSE known
             /\ UNCHANGED <<handler, batch>>
          \/ /\ ~stop /\ pending[d] # <<>> /\ ip \in Servers
             /\ pending' = [pending EXCEPT ![d] = <<>>]
             /\ batch' = [name |-> d, to |-> ip, queue |-> pending[d]]
             /\ handler' = "batch"
             /\ UNCHANGED <<known, resolving>>
  BY NameTables DEF OnDnsNotify
<1>5. /\ port' \in [Names -> SUBSET Results] /\ port'[d] = port[d] \ {ip}
      /\ \A c \in Names : c # d => port'[c] = port[c]
  BY <1>4, NameTables
<1>6. \A c \in Names : ~Serving(c)
  BY <1>1 DEF Serving
<1>7. ASSUME ~stop
      PROVE  /\ d \in resolving /\ asked[d] = 0 /\ calling[d] = {} /\ port[d] = {ip}
             /\ port'[d] = {}
  <2>1. At(d)
    BY <1>7, NameTables
  <2>2. d \in resolving /\ asked[d] = 0 /\ calling[d] = {} /\ port[d] = {ip}
    BY <1>4, <1>6, <2>1 DEF At, Whereabouts, Nowhere
  <2>. QED
    BY <1>5, <2>2
<1>8. LifeInv'
  <2>1. handler' = "none" \/ (handler' = "batch" /\ ~stop)
    BY <1>1, <1>4
  <2>. QED
    BY <1>1, <2>1 DEF LifeInv, OnDnsNotify, lifeVars, timeVars
<1>9. ASSUME pending' = [pending EXCEPT ![d] = <<>>]
      PROVE  /\ PendingInv' /\ pending'[d] = <<>>
             /\ \A c \in Names : c # d => pending'[c] = pending[c]
  BY <1>1, <1>2, <1>9, PendingEmptied, NameTables
<1>10. CASE stop /\ UNCHANGED <<nameVars, handler, batch>>
  <2>1. NameInv'
    BY <1>2, <1>5, <1>10, NameTables DEF NameInv, nameVars
  <2>2. BatchInv' /\ PendingInv'
    BY <1>2, <1>10, WaitingFrame DEF nameVars
  <2>. QED
    BY <1>3, <1>8, <2>1, <2>2 DEF IInv, Rest
<1>11. CASE /\ ~stop /\ NamesDone(d) /\ pending' = [pending EXCEPT ![d] = <<>>]
            /\ known' = IF ip = "failed" /\ pending[d] # <<>> THEN known \ {d} ELSE known
            /\ UNCHANGED <<handler, batch>>
  <2>1. \A c \in Names : ~Serving(c)'
    BY <1>6, <1>11 DEF Serving
  <2>2. resolving' = resolving \ {d} /\ known' \in {known, known \ {d}}
    BY <1>11 DEF NamesDone
  <2>3. ASSUME NEW c \in Names PROVE At(c)'
    <3>1. At(c)
      BY <1>11, NameTables
    <3>2. CASE c # d
      <4>1. (c \in known => c \in known') /\ (c \in resolving' <=> c \in resolving)
        BY <2>2, <3>2
      <4>. QED
        BY <1>2, <1>5, <1>6, <1>9, <1>11, <2>1, <3>1, <3>2, <4>1, OtherName
    <3>3. CASE c = d
      BY <1>2, <1>7, <1>9, <1>11, <2>1, <2>2, <3>3 DEF At, Nowhere
    <3>. QED
      BY <3>2, <3>3
  <2>4. NameInv'
    <3>1. known' \subseteq Names /\ Cardinality(known') <= MaxDomains /\ resolving' \subseteq Names
      BY <2>2, NameTables
    <3>. QED
      BY <1>2, <1>5, <2>3, <3>1, NameTables DEF NameInv, At
  <2>5. BatchInv'
    BY <1>2, <1>11, WaitingFrame
  <2>. QED
    BY <1>3, <1>8, <1>9, <1>11, <2>4, <2>5 DEF IInv, Rest
<1>12. CASE /\ ~stop /\ ip \in Servers /\ pending' = [pending EXCEPT ![d] = <<>>]
            /\ batch' = [name |-> d, to |-> ip, queue |-> pending[d]]
            /\ handler' = "batch" /\ UNCHANGED <<known, resolving>>
  <2>1. Serving(d)' /\ \A c \in Names : c # d => ~Serving(c)'
    BY <1>12 DEF Serving
  <2>2. ASSUME NEW c \in Names PROVE At(c)'
    <3>1. At(c)
      BY <1>12, NameTables
    <3>2. CASE c # d
      <4>1. (c \in known => c \in known') /\ (c \in resolving' <=> c \in resolving)
        BY <1>12
      <4>. QED
        BY <1>2, <1>5, <1>6, <1>9, <1>12, <2>1, <3>1, <3>2, <4>1, OtherName
    <3>3. CASE c = d
      BY <1>2, <1>7, <1>9, <1>12, <2>1, <3>3 DEF At, Whereabouts
    <3>. QED
      BY <3>2, <3>3
  <2>3. NameInv'
    BY <1>2, <1>5, <1>12, <2>2, NameTables DEF NameInv, At
  <2>4. Waits(pending[d], d, sends, posted, arrived)
    BY <1>1 DEF PendingInv
  <2>5. BatchInv'
    <3>1. batch'.name = d /\ batch'.to = ip /\ batch'.queue = pending[d]
      BY <1>12
    <3>2. batch' \in [name : Names \cup {None}, to : Servers \cup {None}, queue : Seq(Datagram)]
      BY <1>12, NameTables
    <3>. QED
      BY <1>2, <1>12, <2>4, <3>1, <3>2 DEF BatchInv
  <2>. QED
    BY <1>3, <1>8, <1>9, <1>12, <2>3, <2>5 DEF IInv, Rest
<1>. QED
  BY <1>4, <1>10, <1>11, <1>12

(* One datagram of the batch is sent: it is older than the rest of the     *)
(* batch, and nothing else waits for the name.                             *)
LEMMA ForwardNextInv ==
  ASSUME IInv, ForwardNext
  PROVE  IInv'
<1>1. LifeInv /\ AsmInv /\ ActiveInv /\ NameInv /\ SendInv /\ BatchInv /\ PendingInv
  BY DEF IInv, Rest
<1>. DEFINE q == batch.queue
            d == batch.name
            to == batch.to
            e == [Head(q) EXCEPT !.to = to]
<1>2. /\ handler = "batch" /\ handler' = handler /\ q # <<>> /\ stop' = stop /\ ~stop
      /\ arrived' = arrived /\ UNCHANGED asm /\ oldAsm' = oldAsm /\ UNCHANGED <<nameVars, dnsVars>>
      /\ pending' = pending /\ batch' = [batch EXCEPT !.queue = Tail(q)]
      /\ ForwardPayload(to, e)
  BY <1>1 DEF ForwardNext, lifeVars, nameVars, LifeInv, BatchInv
<1>3. /\ d \in Names /\ to \in Servers /\ d \in Sources /\ arrived \in Nat /\ arrived' \in Limit
      /\ arrived <= arrived'
  BY <1>1, <1>2, UdpAssumption DEF BatchInv, LifeInv, Limit, Sources
<1>4. /\ q \in Seq(Datagram) /\ Ordered(q)
      /\ \A i \in DOMAIN q : /\ q[i].from = d /\ q[i].n <= arrived
                             /\ Older(sends, posted, d, q[i].n)
  BY <1>1 DEF BatchInv, Waits
<1>5. batch' = [name |-> d, to |-> to, queue |-> Tail(q)]
  BY <1>1, <1>2 DEF BatchInv
<1>. HIDE DEF q
<1>6. /\ Len(q) \in Nat /\ Len(q) > 0 /\ DOMAIN q = 1..Len(q) /\ Head(q) = q[1]
      /\ 1 \in DOMAIN q /\ Head(q) \in Datagram
  BY <1>2, <1>4
<1>7. /\ Tail(q) \in Seq(Datagram) /\ DOMAIN Tail(q) = 1..(Len(q) - 1)
      /\ \A i \in 1..(Len(q) - 1) : Tail(q)[i] = q[i + 1]
  BY <1>2, <1>4, <1>6
<1>8. e \in Datagram /\ e.from = d /\ e.n = q[1].n /\ e.n \in Nat
  <2>1. e \in Datagram /\ e.from = Head(q).from /\ e.n = Head(q).n
    BY <1>3, <1>6 DEF Datagram
  <2>2. e.n \in Nat
    BY <2>1, UdpAssumption DEF Datagram
  <2>. QED
    BY <1>4, <1>6, <2>1, <2>2
<1>9. PICK n \in Posts : Sent(EnqueueSendLocked(SendState(n), e))
  BY <1>2 DEF ForwardPayload
<1>10. ActiveInv'
  BY <1>1, <1>2, <1>3, ActivateEffect DEF ForwardPayload
<1>. HIDE DEF e, d, to
<1>11. /\ SendInv'
       /\ \A s \in Sources, b \in Nat :
            /\ Older(sends, posted, s, b)
            /\ s = e.from => e.n < b
            => Older(sends', posted', s, b)
  <2>1. Older(sends, posted, e.from, e.n) /\ e.n <= arrived' /\ ~stop'
    BY <1>2, <1>4, <1>6, <1>8
  <2>. QED
    BY <1>1, <1>2, <1>3, <1>8, <1>9, <2>1, SendEffect
<1>12. PendingInv'
  <2>1. pending[d] = <<>>
    <3>1. Serving(d)
      BY <1>2 DEF Serving, d
    <3>. QED
      BY <1>2, <1>3, <3>1, NameTables DEF At, Whereabouts, Nowhere
  <2>2. \A s \in Sources, b \in Nat :
          Older(sends, posted, s, b) /\ s # d => Older(sends', posted', s, b)
    BY <1>8, <1>11
  <2>3. \A c \in Names : c = d => pending[c] = <<>>
    BY <2>1
  <2>. QED
    BY <1>1, <1>2, <1>3, <2>2, <2>3, PendingAfterSend
<1>13. Waits(Tail(q), d, sends', posted', arrived')
  <2>1. ASSUME NEW i \in DOMAIN Tail(q)
        PROVE  /\ Tail(q)[i].from = d /\ Tail(q)[i].n <= arrived'
               /\ Older(sends', posted', d, Tail(q)[i].n)
    <3>1. i \in 1..(Len(q) - 1) /\ i + 1 \in DOMAIN q /\ 1 < i + 1 /\ Tail(q)[i] = q[i + 1]
      BY <1>6, <1>7
    <3>2. q[i + 1].from = d /\ q[i + 1].n <= arrived /\ Older(sends, posted, d, q[i + 1].n)
          /\ q[i + 1].from = q[1].from
      BY <1>4, <1>6, <3>1
    <3>3. q[1].n < q[i + 1].n
      BY <1>4, <1>6, <3>1, <3>2 DEF Ordered
    <3>4. q[i + 1].n \in Nat
      <4>1. q[i + 1] \in Datagram
        BY <1>4, <1>6, <3>1
      <4>. QED
        BY <4>1, UdpAssumption DEF Datagram
    <3>. QED
      BY <1>2, <1>3, <1>8, <1>11, <3>1, <3>2, <3>3, <3>4
  <2>2. Ordered(Tail(q))
    <3>1. ASSUME NEW i \in DOMAIN Tail(q), NEW j \in DOMAIN Tail(q), i < j,
                 Tail(q)[i].from = Tail(q)[j].from
          PROVE  Tail(q)[i].n < Tail(q)[j].n
      <4>1. /\ i + 1 \in DOMAIN q /\ j + 1 \in DOMAIN q /\ i + 1 < j + 1
            /\ Tail(q)[i] = q[i + 1] /\ Tail(q)[j] = q[j + 1]
        BY <1>6, <1>7, <3>1
      <4>. QED
        BY <1>4, <3>1, <4>1 DEF Ordered
    <3>. QED
      BY <3>1 DEF Ordered
  <2>. QED
    BY <1>7, <2>1, <2>2 DEF Waits
<1>14. BatchInv'
  <2>1. /\ batch' \in [name : Names \cup {None}, to : Servers \cup {None}, queue : Seq(Datagram)]
        /\ batch'.name = d /\ batch'.to = to /\ batch'.queue = Tail(q)
    BY <1>3, <1>5, <1>7
  <2>. QED
    BY <1>2, <1>3, <1>13, <2>1 DEF BatchInv
<1>15. NameInv'
  <2>1. batch'.name = batch.name
    BY <1>5 DEF d
  <2>2. \A c \in Names : Serving(c)' <=> Serving(c)
    BY <1>2, <2>1 DEF Serving
  <2>. QED
    BY <1>1, <1>2, <2>2 DEF NameInv, nameVars, dnsVars, Whereabouts, Nowhere
<1>16. AsmInv'
  <2>1. oldAsm' \subseteq Keys
    BY <1>1, <1>2 DEF AsmInv
  <2>. QED
    BY <1>1, <1>2, <1>3, <2>1, AsmFrame
<1>17. LifeInv'
  BY <1>1 DEF LifeInv, ForwardNext, lifeVars
<1>. QED
  BY <1>10, <1>11, <1>12, <1>14, <1>15, <1>16, <1>17 DEF IInv, Rest

(* The batch is empty: the name is done. *)
LEMMA BatchEndsInv ==
  ASSUME IInv, BatchEnds
  PROVE  IInv'
<1>1. LifeInv /\ BatchInv /\ PendingInv
  BY DEF IInv, Rest
<1>. DEFINE d == batch.name
<1>2. /\ UNCHANGED <<active, oldDest, asm, oldAsm, sendVars, stop, arrived>>
      /\ UNCHANGED <<pending, sends, posted>> /\ handler = "batch" /\ handler' = "none"
      /\ asked' = asked /\ calling' = calling /\ port' = port /\ stop' = stop /\ ~stop
      /\ known' = known /\ pending' = pending /\ batch' = NoBatch /\ resolving' = resolving \ {d}
      /\ arrived' \in Limit /\ arrived <= arrived' /\ d \in Names
  BY <1>1, UdpAssumption DEF BatchEnds, timeVars, lifeVars, dnsVars, NamesDone, LifeInv, Limit,
     BatchInv, sendVars
<1>3. ActiveInv' /\ AsmInv' /\ SendInv'
  BY <1>2, TablesFrame
<1>4. PendingInv'
  BY <1>1, <1>2, PendingFrame
<1>5. BatchInv'
  <2>1. NoBatch \in [name : Names \cup {None}, to : Servers \cup {None}, queue : Seq(Datagram)]
        /\ NoBatch.queue = <<>>
    BY DEF NoBatch
  <2>2. Waits(<<>>, NoBatch.name, sends', posted', arrived')
    BY DEF Waits, Ordered
  <2>. QED
    BY <1>2, <2>1, <2>2 DEF BatchInv
<1>6. Serving(d) /\ \A c \in Names : (c # d => ~Serving(c)) /\ ~Serving(c)'
  BY <1>2 DEF Serving
<1>. HIDE DEF d
<1>7. ASSUME NEW c \in Names PROVE At(c)'
  <2>1. At(c)
    BY <1>2, NameTables
  <2>2. CASE c # d
    <3>1. c \in resolving' <=> c \in resolving
      BY <1>2, <2>2
    <3>. QED
      BY <1>2, <1>6, <2>1, <2>2, <3>1, OtherName
  <2>3. CASE c = d
    BY <1>2, <1>6, <2>1, <2>3 DEF At, Whereabouts, Nowhere
  <2>. QED
    BY <2>2, <2>3
<1>8. NameInv'
  BY <1>2, <1>7, NameTables DEF NameInv, At
<1>9. LifeInv'
  BY <1>1, <1>2 DEF LifeInv, BatchEnds, lifeVars, timeVars
<1>. QED
  BY <1>3, <1>4, <1>5, <1>8, <1>9 DEF IInv, Rest

-----------------------------------------------------------------------------
LEMMA InitInv == Init => IInv
<1>. SUFFICES ASSUME Init PROVE IInv
  OBVIOUS
<1>1. LifeInv
  <2>1. arrived \in Limit /\ told \in 0..1 /\ told = 0
    BY UdpAssumption DEF Init, Limit
  <2>2. /\ phase \in {"new", "running", "failed"} /\ stop = FALSE /\ handler = "none"
        /\ sock = FALSE /\ recv = FALSE /\ client = None /\ idle = FALSE /\ due = FALSE
    BY DEF Init
  <2>. QED
    BY <2>1, <2>2, Zenon DEF LifeInv
<1>2. ActiveInv /\ Cardinality(known) <= MaxDomains
  BY FS_EmptySet, UdpAssumption DEF Init, ActiveInv
<1>3. AsmInv
  <2>1. asm \in [Keys -> Assembly] /\ \A k \in Keys : asm[k] = NoAssembly
    BY NoAssemblyType DEF Init
  <2>2. Assembling = {}
    BY <2>1, NoAssemblyType DEF Assembling
  <2>3. Cardinality(Assembling) <= MaxAssemblies
    BY <2>2, FS_EmptySet, UdpAssumption
  <2>4. arrived = 0 /\ oldAsm \subseteq Keys
    BY DEF Init
  <2>. QED
    BY <2>1, <2>3, <2>4, NoAssemblyType DEF AsmInv
<1>4. NameInv
  <2>1. /\ known \subseteq Names /\ resolving = {} /\ asked \in [Names -> Nat]
        /\ calling \in [Names -> SUBSET Results] /\ port \in [Names -> SUBSET Results]
        /\ \A d \in Names : Nowhere(d) /\ pending[d] = <<>>
    BY DEF Init, Nowhere, Serving
  <2>. QED
    BY <1>2, <2>1 DEF NameInv
<1>5. SendInv
  <2>1. /\ sends = <<>> /\ <<>> \in Seq(Datagram) /\ DOMAIN <<>> = {} /\ Len(<<>>) <= MaxSends
        /\ arrived = 0 /\ \A s \in Sources : posted[s] = 0
    BY UdpAssumption DEF Init
  <2>2. posted \in [Sources -> Limit] /\ 0 < arrived + 1
    BY UdpAssumption DEF Init, Limit
  <2>3. QueueSound(sends, posted)
    BY <2>1, <2>2 DEF QueueSound, Ordered
  <2>4. \A s \in Sources : Older(sends, posted, s, arrived + 1)
    BY <2>1, <2>2 DEF Older
  <2>. QED
    <3>1. inFlight \in 0..MaxInFlight
      BY UdpAssumption DEF Init
    <3>2. failed = FALSE /\ stop = FALSE
      BY DEF Init
    <3>. QED
      BY <2>1, <2>3, <2>4, <3>1, <3>2, Zenon DEF SendInv
<1>6. BatchInv
  <2>1. /\ NoBatch \in [name : Names \cup {None}, to : Servers \cup {None}, queue : Seq(Datagram)]
        /\ NoBatch.queue = <<>>
    BY DEF NoBatch
  <2>2. Waits(<<>>, NoBatch.name, sends, posted, arrived)
    BY DEF Waits, Ordered
  <2>. QED
    BY <2>1, <2>2 DEF BatchInv, Init
<1>7. PendingInv
  <2>1. pending \in [Names -> Seq(Datagram)] /\ \A d \in Names : pending[d] = <<>>
    BY DEF Init
  <2>2. \A d \in Names : /\ Waits(<<>>, d, sends, posted, arrived)
                         /\ Len(<<>>) <= MaxPerDomain
    BY UdpAssumption DEF Waits, Ordered
  <2>. QED
    BY <2>1, <2>2 DEF PendingInv
<1>. QED
  BY <1>1, <1>2, <1>3, <1>4, <1>5, <1>6, <1>7 DEF IInv, Rest

LEMMA StutterInv ==
  ASSUME IInv, UNCHANGED vars
  PROVE  IInv'
<1>1. LifeInv /\ NameInv
  BY DEF IInv, Rest
<1>2. /\ UNCHANGED <<active, oldDest, asm, oldAsm, sendVars, stop, arrived>>
      /\ UNCHANGED <<batch, sendVars, arrived>> /\ handler' = handler
      /\ UNCHANGED <<nameVars, dnsVars, batch>> /\ pending' = pending /\ stop' = stop
  BY DEF vars, nameVars, dnsVars, sendVars
<1>3. AsmInv' /\ ActiveInv' /\ SendInv' /\ BatchInv' /\ PendingInv'
  BY <1>2, TablesFrame, WaitingFrame
<1>4. NameInv'
  BY <1>1, <1>2, NameFrame
<1>5. LifeInv'
  BY <1>1 DEF LifeInv, vars
<1>. QED
  BY <1>3, <1>4, <1>5 DEF IInv, Rest

LEMMA NextInv == IInv /\ [Next]_vars => IInv'
<1>. SUFFICES ASSUME IInv, [Next]_vars PROVE IInv'
  OBVIOUS
<1>1. CASE Start
  BY <1>1, StartInv
<1>2. CASE StopBySession
  BY <1>2, StopInv
<1>3. ASSUME NEW src \in Locals \cup Servers, OnDatagram(src) PROVE IInv'
  BY <1>3, DatagramInv
<1>4. CASE OnRecvFails \/ DrainRecv
  BY <1>4, RecvFailsInv
<1>5. CASE AfterReceive
  BY <1>5, AfterReceiveInv
<1>6. CASE OnSendCompleted
  BY <1>6, SendCompletedInv
<1>7. ASSUME NEW d \in Names, DnsAnswered(d) \/ DnsPosts(d) \/ OnDnsNotify(d) PROVE IInv'
  BY <1>7, AnsweredInv, PostsInv, NotifyInv
<1>8. CASE ForwardNext
  BY <1>8, ForwardNextInv
<1>9. CASE BatchEnds
  BY <1>9, BatchEndsInv
<1>10. CASE FragTimePasses \/ IdleTimePasses
  BY <1>10, TimeInv
<1>11. CASE Ended \/ UNCHANGED vars
  BY <1>11, StutterInv DEF Ended
<1>. QED
  BY <1>1, <1>2, <1>3, <1>4, <1>5, <1>6, <1>7, <1>8, <1>9, <1>10, <1>11 DEF Next

(* The relay keeps its inductive invariant, through every interleaving of  *)
(* completions, the resolver's thread and Stop (UdpRelay).                 *)
THEOREM Invariance == Spec => []IInv
BY InitInv, NextInv, PTL DEF Spec

(* No table of the relay outgrows its limit, though kMaxPendingDomains is  *)
(* looked at after the entry was made (DispatchClientPayload), and Stop    *)
(* tells the session at most once.                                         *)
THEOREM LimitsHold == Spec => []TypeOK
<1>1. IInv => TypeOK
  BY DEF IInv, Rest, LifeInv, ActiveInv, AsmInv, NameInv, SendInv, QueueSound, BatchInv,
     PendingInv, TypeOK, Limit, Assembly, Parts
<1>. QED
  BY <1>1, Invariance, PTL

(* However posts fail, what waits to be sent has a completion to come or a *)
(* failed post to blame, and the datagrams of a source are posted in the   *)
(* order in which they arrived, those that waited for a name included      *)
(* (PumpSendLocked, OnSendCompleted, OnDnsNotify).                         *)
THEOREM SendsInOrder == Spec => []SendQueueSound
<1>1. IInv => SendQueueSound
  BY DEF IInv, Rest, SendInv, QueueSound, Ordered, SendQueueSound
<1>. QED
  BY <1>1, Invariance, PTL

(* While the relay runs a name is in dnsInFlight_ exactly while one lookup *)
(* of it is somewhere between the resolver and OnDnsNotify's end, and what *)
(* waits for a name has such a lookup (DispatchClientPayload, OnDnsNotify).*)
THEOREM OneLookup == Spec => []LookupUnderWay
<1>1. IInv => LookupUnderWay
  <2>. SUFFICES ASSUME IInv, ~stop, NEW d \in Names
                PROVE  /\ pending[d] # <<>> => d \in known /\ d \in resolving
                       /\ Lookups(d) = IF d \in resolving THEN 1 ELSE 0
    BY DEF LookupUnderWay
  <2>1. At(d)
    BY NameTables
  <2>2. Cardinality({}) = 0 /\ \A ip \in Results : Cardinality({ip}) = 1
    BY FS_EmptySet, FS_Singleton
  <2>3. CASE d \in resolving
    <3>1. Whereabouts(d)
      BY <2>1, <2>3 DEF At
    <3>2. Lookups(d) = asked[d] + Cardinality(calling[d]) + Cardinality(port[d])
                       + (IF Serving(d) THEN 1 ELSE 0)
      BY DEF Lookups, Serving
    <3>3. ASSUME asked[d] = 1, calling[d] = {}, port[d] = {}, ~Serving(d)
          PROVE  Lookups(d) = 1
      BY <2>2, <3>2, <3>3
    <3>4. ASSUME NEW ip \in Results, asked[d] = 0, calling[d] = {ip}, port[d] = {}, ~Serving(d)
          PROVE  Lookups(d) = 1
      BY <2>2, <3>2, <3>4
    <3>5. ASSUME NEW ip \in Results, asked[d] = 0, calling[d] = {}, port[d] = {ip}, ~Serving(d)
          PROVE  Lookups(d) = 1
      BY <2>2, <3>2, <3>5
    <3>6. ASSUME asked[d] = 0, calling[d] = {}, port[d] = {}, Serving(d)
          PROVE  Lookups(d) = 1
      BY <2>2, <3>2, <3>6
    <3>7. Lookups(d) = 1
      BY <3>1, <3>3, <3>4, <3>5, <3>6 DEF Whereabouts
    <3>. QED
      BY <2>1, <2>3, <3>7 DEF At
  <2>4. CASE d \notin resolving
    <3>1. Nowhere(d)
      BY <2>1, <2>4 DEF At
    <3>2. Lookups(d) = 0
      BY <2>2, <3>1 DEF Nowhere, Lookups, Serving
    <3>. QED
      BY <2>4, <3>1, <3>2 DEF Nowhere
  <2>. QED
    BY <2>3, <2>4
<1>. QED
  BY <1>1, Invariance, PTL

(* Whatever fragments arrive, in any order and repeated, an assembly holds *)
(* none that is older than its first, its size is the sum of theirs and    *)
(* within the limit, and a complete one is gone (ProcessFragment).         *)
THEOREM FragmentsAddUp == Spec => []AssemblySound
<1>1. IInv => AssemblySound
  <2>. SUFFICES ASSUME IInv, NEW k \in Assembling
                PROVE  LET a == asm[k]
                           present == {i \in 1..MaxFrag : a.parts[i].n # 0}
                       IN /\ a.parts[1].n # 0
                          /\ \A i \in present : a.parts[i].n >= a.parts[1].n
                          /\ AddUp(a.parts, a.total) /\ a.total <= MaxAssembled
                          /\ a.last > 0 => \E i \in 1..a.last : i \notin present
    BY DEF AssemblySound
  <2>. DEFINE a == asm[k]
  <2>1. Sound(a) /\ a \in Assembly
    BY DEF IInv, AsmInv, Assembling
  <2>. HIDE DEF a
  <2>2. a.total <= MaxAssembled
    BY <2>1, UdpAssumption DEF Assembly
  <2>3. a.last > 0 => \E i \in 1..a.last : a.parts[i].n = 0
    BY <2>1 DEF Sound, Complete
  <2>4. \A i \in 1..MaxFrag : a.parts[i].n # 0 => a.parts[i].n >= a.parts[1].n
    BY <2>1 DEF Sound
  <2>. QED
    BY <2>1, <2>2, <2>3, <2>4 DEF a, Sound
<1>. QED
  BY <1>1, Invariance, PTL
=============================================================================
