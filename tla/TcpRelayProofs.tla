--------------------------- MODULE TcpRelayProofs ---------------------------
(***************************************************************************)
(* Proofs about TcpRelay, for every queue depth, entry length, burst size  *)
(* and bound.  IInv is the inductive invariant: the properties themselves  *)
(* and what they need of each other.                                       *)
(***************************************************************************)
EXTENDS TcpRelay, SequenceTheorems, TLAPS

(* A send in flight is the front of a queue that is not popped before it   *)
(* completes.                                                              *)
FrontInFlight == ~closed => \A s \in Stream : sending[s] => queue[s] # <<>>

(* Nothing is read, paused or ended before StartRelay. *)
QuietBeforeStart ==
  state = "Connecting" =>
    \A s \in Stream : ~reading[s] /\ ~paused[s] /\ ~peerClosed[s]

(* A read is outstanding only while the opposite queue is at most as long  *)
(* as it may be when a read is posted.                                     *)
Before == IF Depth - 1 > MaxInitial THEN Depth - 1 ELSE MaxInitial
MaxStep == IF Gss THEN MaxBurst ELSE 1

Room ==
  ~closed => \A s \in Stream :
    /\ reading[s] => Len(queue[Other(s)]) <= Before
    /\ state = "Connecting" => Len(queue[s]) <= MaxInitial
    /\ state = "Connecting" /\ s = "dest" => queue[s] = <<>>

IInv ==
  /\ TypeOK
  /\ InFlightContinues
  /\ QueueIsRest
  /\ NoStall
  /\ FrontInFlight
  /\ QuietBeforeStart
  /\ ReadNeverLost
  /\ Room
  /\ QueueBound

-----------------------------------------------------------------------------
(* The two streams are each other's other. *)
LEMMA OtherStream ==
  ASSUME NEW s \in Stream
  PROVE  /\ Other(s) \in Stream
         /\ Other(s) # s
         /\ Other(Other(s)) = s
         /\ \A x \in Stream : x = s \/ x = Other(s)
BY DEF Stream, Other

(* Queueing k entries behind a queue that is the unsent rest leaves one    *)
(* that is.                                                                *)
LEMMA QueueGrows ==
  ASSUME TypeOK, NEW o \in Stream, NEW k \in Nat
  PROVE  LET q == queue[o] \o Fresh(o, k)
         IN /\ q \in Seq(Nat)
            /\ Len(q) = Len(queue[o]) + k
            /\ \A i \in 1..Len(queue[o]) : q[i] = queue[o][i]
            /\ \A i \in (Len(queue[o]) + 1)..Len(q) :
                 q[i] = queued[o] + (i - Len(queue[o]))
<1> DEFINE f == Fresh(o, k)
<1>1. queue[o] \in Seq(Nat) /\ queued[o] \in Nat
  BY DEF TypeOK
<1>2. f \in Seq(Nat) /\ Len(f) = k /\ \A i \in 1..k : f[i] = queued[o] + i
  BY <1>1 DEF Fresh
<1>. HIDE DEF f
<1>3. /\ queue[o] \o f \in Seq(Nat)
      /\ Len(queue[o] \o f) = Len(queue[o]) + Len(f)
      /\ \A i \in 1..(Len(queue[o]) + Len(f)) :
           (queue[o] \o f)[i] = IF i <= Len(queue[o]) THEN queue[o][i]
                                ELSE f[i - Len(queue[o])]
  BY <1>1, <1>2, ConcatProperties, Zenon
<1>4. Len(queue[o]) \in Nat
  BY <1>1
<1>5. QED
  BY <1>2, <1>3, <1>4 DEF f

(* A burst is a number of entries, at most MaxStep of them. *)
LEMMA BurstSize ==
  ASSUME NEW s \in Stream, NEW k \in Burst(s) \cup (IF Gss THEN {0} ELSE {})
  PROVE  k \in Nat /\ k <= MaxStep
BY BoundsAssumption, SwitchAssumption DEF Burst, MaxStep

-----------------------------------------------------------------------------
(* The strengthened invariant holds when the success reply is in flight. *)
LEMMA InitInv == Init => IInv
<1>. SUFFICES ASSUME Init PROVE IInv
  OBVIOUS
<1>. USE DepthAssumption, PieceLenAssumption, BoundsAssumption, SwitchAssumption
<1>1. PICK n \in 1..MaxInitial :
        /\ queued = [s \in Stream |-> IF s = "client" THEN n ELSE 0]
        /\ queue = [s \in Stream |->
                      IF s = "client" THEN [i \in 1..n |-> i] ELSE <<>>]
  BY DEF Init
<1>. DEFINE first == [i \in 1..n |-> i]
<1>2. first \in Seq(Nat) /\ Len(first) = n /\ \A i \in 1..n : first[i] = i
  OBVIOUS
<1>3. queue["client"] = first /\ queue["dest"] = <<>>
  BY <1>1 DEF Stream
<1>4. queued["client"] = n /\ queued["dest"] = 0
  BY <1>1 DEF Stream
<1>. HIDE DEF first
<1>5. TypeOK
  <2>1. queue \in [Stream -> Seq(Nat)]
    BY <1>1, <1>2, <1>3 DEF Stream
  <2>2. queued \in [Stream -> Nat]
    BY <1>1, <1>4 DEF Stream
  <2>3. <<1, 0>> \in Nat \X (0..(PieceLen - 1)) /\ 0 \in 0..(PieceLen - 1)
    OBVIOUS
  <2>4. pin \in [Stream -> Nat \X (0..(PieceLen - 1))]
    BY <2>3 DEF Init
  <2>5. wire \in [Stream -> Nat \X (0..(PieceLen - 1))]
    BY <2>3 DEF Init
  <2>6. sending \in [Stream -> BOOLEAN]
    BY Zenon DEF Init
  <2>7. QED
    BY <2>1, <2>2, <2>3, <2>4, <2>5, <2>6 DEF Init, TypeOK
<1>6. QueueIsRest
  <2>1. wire["client"] = <<1, 0>> /\ wire["dest"] = <<1, 0>>
    BY DEF Init, Stream
  <2>2. offset["client"] = 0 /\ offset["dest"] = 0
    BY DEF Init, Stream
  <2>3. QED
    BY <1>2, <1>3, <1>4, <2>1, <2>2 DEF QueueIsRest, Stream
<1>7. InFlightContinues
  BY DEF Init, InFlightContinues, Stream
<1>8. NoStall /\ FrontInFlight
  <2>1. first # <<>>
    BY <1>2
  <2>2. sending["client"] = TRUE /\ sending["dest"] = FALSE
    BY DEF Init, Stream
  <2>3. QED
    BY <1>3, <2>1, <2>2 DEF NoStall, FrontInFlight, Stream
<1>9. QuietBeforeStart /\ ReadNeverLost
  BY DEF Init, QuietBeforeStart, ReadNeverLost, Stream
<1>10. Room /\ QueueBound
  BY <1>2, <1>3 DEF Init, Room, QueueBound, Before, Stream, Other
<1>11. QED
  BY <1>5, <1>6, <1>7, <1>8, <1>9, <1>10 DEF IInv

(* Once the session is closed only the type, the send in flight and the    *)
(* state before StartRelay matter.                                         *)
LEMMA ClosedInv ==
  ASSUME TypeOK', InFlightContinues', QuietBeforeStart', closed' = TRUE
  PROVE  IInv'
BY DEF IInv, QueueIsRest, NoStall, FrontInFlight, ReadNeverLost, Room, QueueBound

(* While the session is open, what is in flight on s is the front of its   *)
(* queue from the front offset on.                                         *)
LEMMA FrontOfQueue ==
  ASSUME IInv, ~closed, NEW s \in Stream, sending[s]
  PROVE  /\ queue[s] \in Seq(Nat) /\ queue[s] # <<>>
         /\ Len(queue[s]) \in Nat \ {0}
         /\ queued[s] \in Nat
         /\ offset[s] \in 0..(PieceLen - 1)
         /\ pin[s] = <<queued[s] - Len(queue[s]) + 1, offset[s]>>
         /\ pin[s][1] = queued[s] - Len(queue[s]) + 1 /\ pin[s][1] \in Nat
         /\ pin[s][2] = offset[s]
         /\ \A i \in 1..Len(queue[s]) : queue[s][i] = pin[s][1] + i - 1
<1>1. queue[s] \in Seq(Nat) /\ queued[s] \in Nat /\ offset[s] \in 0..(PieceLen - 1)
  BY DEF IInv, TypeOK
<1>2. queue[s] # <<>>
  BY DEF IInv, FrontInFlight
<1>3. Len(queue[s]) \in Nat \ {0}
  BY <1>1, <1>2
<1>4. pin[s] = wire[s] /\ wire[s] \in Nat \X (0..(PieceLen - 1))
  BY DEF IInv, InFlightContinues, TypeOK
<1>5. /\ wire[s] = <<queued[s] - Len(queue[s]) + 1, offset[s]>>
      /\ \A i \in 1..Len(queue[s]) : queue[s][i] = wire[s][1] + i - 1
  BY DEF IInv, QueueIsRest
<1>6. QED
  BY <1>1, <1>2, <1>3, <1>4, <1>5

(* The tail of a queue of consecutive entries that ends with entry m. *)
LEMMA TailOfRest ==
  ASSUME NEW Q \in Seq(Nat), Q # <<>>, NEW m \in Nat,
         \A i \in 1..Len(Q) : Q[i] = (m - Len(Q) + 1) + i - 1
  PROVE  /\ Tail(Q) \in Seq(Nat)
         /\ Len(Tail(Q)) \in Nat
         /\ Len(Tail(Q)) = Len(Q) - 1
         /\ \A i \in 1..Len(Tail(Q)) : Tail(Q)[i] = (m - Len(Tail(Q)) + 1) + i - 1
<1>1. /\ Tail(Q) \in Seq(Nat)
      /\ Len(Tail(Q)) = Len(Q) - 1
      /\ \A i \in 1..Len(Tail(Q)) : Tail(Q)[i] = Q[i + 1]
  BY HeadTailProperties
<1>2. Len(Q) \in Nat \ {0} /\ Len(Tail(Q)) \in Nat
  BY <1>1
<1>3. ASSUME NEW i \in 1..Len(Tail(Q))
      PROVE  Tail(Q)[i] = (m - Len(Tail(Q)) + 1) + i - 1
  <2>1. i + 1 \in 1..Len(Q)
    BY <1>1, <1>2
  <2>2. Q[i + 1] = (m - Len(Q) + 1) + (i + 1) - 1
    BY <2>1
  <2>3. QED
    BY <1>1, <1>2, <2>2
<1>4. QED
  BY <1>1, <1>2, <1>3

(* What AfterSend and OffsetAfterSend leave is the rest of the stream      *)
(* after the n bytes that went out.                                        *)
LEMMA SentPrefix ==
  ASSUME IInv, ~closed, NEW s \in Stream, sending[s],
         NEW n \in 1..(PieceLen - pin[s][2])
  PROVE  /\ AfterSend(s, n) \in Seq(Nat)
         /\ Len(AfterSend(s, n)) \in Nat
         /\ Len(AfterSend(s, n)) <= Len(queue[s])
         /\ OffsetAfterSend(s, n) \in 0..(PieceLen - 1)
         /\ queued[s] - Len(AfterSend(s, n)) + 1 \in Nat
         /\ (IF pin[s][2] + n = PieceLen THEN <<pin[s][1] + 1, 0>>
              ELSE <<pin[s][1], pin[s][2] + n>>)
            = <<queued[s] - Len(AfterSend(s, n)) + 1, OffsetAfterSend(s, n)>>
         /\ \A i \in 1..Len(AfterSend(s, n)) :
              AfterSend(s, n)[i] = (queued[s] - Len(AfterSend(s, n)) + 1) + i - 1
<1>. DEFINE Q == queue[s]
            m == queued[s]
            p == pin[s][1]
            f == pin[s][2]
<1>1. /\ Q \in Seq(Nat) /\ Q # <<>> /\ Len(Q) \in Nat \ {0} /\ m \in Nat
      /\ f = offset[s] /\ f \in 0..(PieceLen - 1)
      /\ p = m - Len(Q) + 1 /\ p \in Nat
      /\ \A i \in 1..Len(Q) : Q[i] = (m - Len(Q) + 1) + i - 1
  BY FrontOfQueue
<1>2. n \in 1..(PieceLen - f) /\ PieceLen \in Nat
  BY PieceLenAssumption
<1>3. CASE f + n = PieceLen
  <2>1. AfterSend(s, n) = Tail(Q) /\ OffsetAfterSend(s, n) = 0
    BY <1>1, <1>2, <1>3 DEF AfterSend, OffsetAfterSend, FrontDone
  <2>. HIDE DEF Q, m, p, f
  <2>2. /\ Tail(Q) \in Seq(Nat)
        /\ Len(Tail(Q)) \in Nat
        /\ Len(Tail(Q)) = Len(Q) - 1
        /\ \A i \in 1..Len(Tail(Q)) : Tail(Q)[i] = (m - Len(Tail(Q)) + 1) + i - 1
    BY <1>1, TailOfRest
  <2>3. p + 1 = m - Len(Tail(Q)) + 1 /\ p + 1 \in Nat
    BY <1>1, <2>2
  <2>4. 0 \in 0..(PieceLen - 1) /\ Len(Tail(Q)) <= Len(Q)
    BY <1>1, <1>2, <2>2
  <2>5. QED
    BY <1>3, <2>1, <2>2, <2>3, <2>4 DEF Q, m, p, f
<1>4. CASE f + n # PieceLen
  <2>1. f + n < PieceLen /\ f + n \in 0..(PieceLen - 1)
    <3>. HIDE DEF Q, m, p, f
    <3>. QED  BY <1>1, <1>2, <1>4, SMTT(30)
  <2>2. AfterSend(s, n) = Q /\ OffsetAfterSend(s, n) = f + n
    BY <1>1, <1>2, <2>1, SMTT(30) DEF AfterSend, OffsetAfterSend, FrontDone
  <2>. HIDE DEF Q, m, p, f
  <2>3. QED
    BY <1>1, <1>4, <2>1, <2>2 DEF Q, m, p, f
<1>5. QED
  BY <1>3, <1>4

-----------------------------------------------------------------------------
(* What PumpSend(s, ...) assigns, stream by stream. *)
LEMMA PumpSendEffect ==
  ASSUME TypeOK, NEW s \in Stream, NEW q \in Seq(Nat),
         NEW off \in 0..(PieceLen - 1), NEW busy \in BOOLEAN, NEW ok \in BOOLEAN,
         PumpSend(s, q, off, busy, ok)
  PROVE  /\ queue' \in [Stream -> Seq(Nat)]
         /\ queue'[s] = q /\ queue'[Other(s)] = queue[Other(s)]
         /\ offset' \in [Stream -> 0..(PieceLen - 1)]
         /\ offset'[s] = off /\ offset'[Other(s)] = offset[Other(s)]
         /\ sending' \in [Stream -> BOOLEAN]
         /\ sending'[s] <=> busy \/ CanPost(s, q, busy, ok)
         /\ sending'[Other(s)] <=> sending[Other(s)]
         /\ pin' \in [Stream -> Nat \X (0..(PieceLen - 1))]
         /\ pin'[Other(s)] = pin[Other(s)]
         /\ CanPost(s, q, busy, ok) => pin'[s] = <<Head(q), off>>
         /\ ~CanPost(s, q, busy, ok) => pin'[s] = pin[s]
<1>. DEFINE can == CanPost(s, q, busy, ok)
<1>1. can \in BOOLEAN /\ (can => q # <<>>)
  BY DEF CanPost
<1>2. /\ queue' = [queue EXCEPT ![s] = q]
      /\ offset' = [offset EXCEPT ![s] = off]
      /\ sending' = [sending EXCEPT ![s] = busy \/ can]
      /\ pin' = IF can THEN [pin EXCEPT ![s] = <<Head(q), off>>] ELSE pin
  BY DEF PumpSend
<1>. HIDE DEF can
<1>3. Other(s) \in Stream /\ Other(s) # s
  BY OtherStream
<1>4. /\ queue' \in [Stream -> Seq(Nat)]
      /\ queue'[s] = q /\ queue'[Other(s)] = queue[Other(s)]
  BY <1>2, <1>3 DEF TypeOK
<1>5. /\ offset' \in [Stream -> 0..(PieceLen - 1)]
      /\ offset'[s] = off /\ offset'[Other(s)] = offset[Other(s)]
  BY <1>2, <1>3 DEF TypeOK
<1>6. sending \in [Stream -> BOOLEAN]
  BY DEF TypeOK
<1>7. (busy \/ can) \in BOOLEAN
  OBVIOUS
<1>8. /\ sending' \in [Stream -> BOOLEAN]
      /\ sending'[s] = (busy \/ can)
      /\ sending'[Other(s)] = sending[Other(s)]
  BY <1>2, <1>3, <1>6, <1>7, Zenon
<1>9. pin \in [Stream -> Nat \X (0..(PieceLen - 1))]
  BY DEF TypeOK
<1>10. CASE can
  <2>1. Head(q) \in Nat
    BY <1>1, <1>10
  <2>2. <<Head(q), off>> \in Nat \X (0..(PieceLen - 1))
    BY <2>1
  <2>3. pin' = [pin EXCEPT ![s] = <<Head(q), off>>]
    BY <1>2, <1>10
  <2>4. /\ pin' \in [Stream -> Nat \X (0..(PieceLen - 1))]
        /\ pin'[s] = <<Head(q), off>> /\ pin'[Other(s)] = pin[Other(s)]
    BY <1>3, <1>9, <2>2, <2>3, Zenon
  <2>5. QED
    BY <1>4, <1>5, <1>8, <1>10, <2>4 DEF can
<1>11. CASE ~can
  BY <1>2, <1>4, <1>5, <1>8, <1>9, <1>11 DEF can
<1>12. QED
  BY <1>10, <1>11

(* A handler that leaves the rest of the stream of s in q and then calls   *)
(* PumpSend preserves the stream; and unless PumpSend closes the session,  *)
(* s has a send in flight exactly if q is not empty.                       *)
LEMMA PumpSendInv ==
  ASSUME IInv, ~closed, NEW s \in Stream, NEW q \in Seq(Nat),
         NEW off \in 0..(PieceLen - 1), NEW busy \in BOOLEAN, NEW ok \in BOOLEAN,
         PumpSend(s, q, off, busy, ok),
         queued'[s] - Len(q) + 1 \in Nat,
         wire'[s] = <<queued'[s] - Len(q) + 1, off>>,
         \A i \in 1..Len(q) : q[i] = (queued'[s] - Len(q) + 1) + i - 1,
         wire'[Other(s)] = wire[Other(s)], queued'[Other(s)] = queued[Other(s)],
         busy => sending[s] /\ wire'[s] = wire[s] /\ q # <<>>
  PROVE  /\ InFlightContinues' /\ QueueIsRest'
         /\ sending'[s] => q # <<>>
         /\ ~PumpCloses(s, q, busy, ok) => (q # <<>> => sending'[s])
<1>. DEFINE o == Other(s)
            p == queued'[s] - Len(q) + 1
            can == CanPost(s, q, busy, ok)
<1>1. TypeOK /\ InFlightContinues /\ QueueIsRest
  BY DEF IInv
<1>2. /\ queue'[s] = q /\ queue'[o] = queue[o]
      /\ offset'[s] = off /\ offset'[o] = offset[o]
      /\ sending'[s] <=> busy \/ can
      /\ sending'[o] <=> sending[o]
      /\ pin'[o] = pin[o]
      /\ can => pin'[s] = <<Head(q), off>>
      /\ ~can => pin'[s] = pin[s]
  BY <1>1, PumpSendEffect
<1>3. o \in Stream /\ \A x \in Stream : x = s \/ x = o
  BY OtherStream
<1>4. can => Head(q) = p
  <2>1. SUFFICES ASSUME can PROVE Head(q) = p
    OBVIOUS
  <2>2. q # <<>>
    BY <2>1 DEF CanPost
  <2>. HIDE DEF can
  <2>3. Head(q) = q[1] /\ 1 \in 1..Len(q)
    BY <2>2
  <2>4. q[1] = p + 1 - 1
    BY <2>3
  <2>. HIDE DEF p
  <2>5. QED
    BY <2>3, <2>4 DEF p
<1>5. busy => ~can
  BY DEF CanPost
<1>6. (can => q # <<>>) /\ (~PumpCloses(s, q, busy, ok) => busy \/ q = <<>> \/ can)
  BY DEF CanPost, PumpCloses
<1>. HIDE DEF can
<1>7. sending'[s] => pin'[s] = wire'[s]
  <2>1. CASE can
    BY <1>2, <1>4, <2>1
  <2>2. CASE busy
    BY <1>1, <1>2, <1>5, <2>2 DEF InFlightContinues
  <2>3. QED
    BY <1>2, <2>1, <2>2
<1>8. sending'[o] => pin'[o] = wire'[o]
  BY <1>1, <1>2, <1>3 DEF InFlightContinues
<1>9. InFlightContinues'
  BY <1>3, <1>7, <1>8 DEF InFlightContinues
<1>10. /\ wire'[s] = <<queued'[s] - Len(queue'[s]) + 1, offset'[s]>>
       /\ \A i \in 1..Len(queue'[s]) : queue'[s][i] = wire'[s][1] + i - 1
  BY <1>2
<1>11. /\ wire'[o] = <<queued'[o] - Len(queue'[o]) + 1, offset'[o]>>
       /\ \A i \in 1..Len(queue'[o]) : queue'[o][i] = wire'[o][1] + i - 1
  BY <1>1, <1>2, <1>3 DEF QueueIsRest
<1>12. QueueIsRest'
  <2>. HIDE DEF o
  <2>. QED BY <1>3, <1>10, <1>11, Zenon DEF QueueIsRest
<1>13. QED
  BY <1>2, <1>6, <1>9, <1>12

(* A read is posted or paused by what the opposite queue holds. *)
LEMMA FullOrRoom ==
  ASSUME NEW q \in Seq(Nat)
  PROVE  /\ QueueFull(q) => q # <<>>
         /\ ~QueueFull(q) => Len(q) <= Before
BY DepthAssumption, BoundsAssumption DEF QueueFull, Before

(* A receive with data: the opposite queue grows by the burst, and the     *)
(* read is posted again, paused, or gone with the session.                 *)
LEMMA OnRelayDataInv ==
  ASSUME IInv, NEW s \in Stream, OnRelayData(s)
  PROVE  IInv'
<1>. DEFINE o == Other(s)
<1>1. PICK k \in Burst(s) \cup (IF Gss THEN {0} ELSE {}), bad \in BOOLEAN,
           okS \in PostOutcomes, okR \in PostOutcomes :
        /\ queued' = [queued EXCEPT ![o] = @ + k]
        /\ PumpSend(o, queue[o] \o Fresh(o, k), offset[o], sending[o], okS)
        /\ TryPostRelayRead(s, queue[o] \o Fresh(o, k),
             ~bad /\ ~PumpCloses(o, queue[o] \o Fresh(o, k), sending[o], okS),
             FALSE, paused[s], okR)
  BY DEF OnRelayData
<1>. DEFINE q == queue[o] \o Fresh(o, k)
            alive == ~bad /\ ~PumpCloses(o, q, sending[o], okS)
<1>2. /\ state = "Relaying" /\ ~closed /\ reading[s]
      /\ UNCHANGED <<state, peerClosed, shut, wire>>
  BY DEF OnRelayData, Handles
<1>3. /\ o \in Stream /\ o # s /\ Other(o) = s
      /\ \A x \in Stream : x = s \/ x = o
  BY OtherStream
<1>4. /\ TypeOK /\ InFlightContinues /\ QueueIsRest /\ NoStall /\ FrontInFlight
      /\ QuietBeforeStart /\ ReadNeverLost /\ Room /\ QueueBound
  BY DEF IInv
<1>5. k \in Nat /\ k <= MaxStep
  BY BurstSize
<1>6. okS \in BOOLEAN /\ okR \in BOOLEAN
  BY SwitchAssumption
<1>7. /\ q \in Seq(Nat)
      /\ Len(q) = Len(queue[o]) + k
      /\ \A i \in 1..Len(queue[o]) : q[i] = queue[o][i]
      /\ \A i \in (Len(queue[o]) + 1)..Len(q) : q[i] = queued[o] + (i - Len(queue[o]))
  BY <1>3, <1>4, <1>5, QueueGrows
<1>8. PumpSend(o, q, offset[o], sending[o], okS)
  BY <1>1
<1>9. TryPostRelayRead(s, q, alive, FALSE, paused[s], okR)
  BY <1>1
<1>10. alive \in BOOLEAN
  OBVIOUS
<1>11. alive <=> ~bad /\ ~PumpCloses(o, q, sending[o], okS)
  OBVIOUS
<1>. HIDE DEF q, alive, o
<1>12. queue[o] \in Seq(Nat) /\ Len(queue[o]) \in Nat /\ queued[o] \in Nat
  BY <1>3, <1>4 DEF TypeOK
<1>13. /\ queued' \in [Stream -> Nat]
       /\ queued'[o] = queued[o] + k /\ queued'[s] = queued[s]
  BY <1>1, <1>3, <1>4, <1>5, <1>12, SMTT(30) DEF TypeOK
<1>14. offset[o] \in 0..(PieceLen - 1) /\ sending[o] \in BOOLEAN /\ paused[s] \in BOOLEAN
  BY <1>3, <1>4 DEF TypeOK
<1>15. /\ wire[o] = <<queued[o] - Len(queue[o]) + 1, offset[o]>>
       /\ wire[o] \in Nat \X (0..(PieceLen - 1))
       /\ \A i \in 1..Len(queue[o]) : queue[o][i] = wire[o][1] + i - 1
  BY <1>2, <1>3, <1>4 DEF QueueIsRest, TypeOK
<1>16. queued'[o] - Len(q) + 1 = queued[o] - Len(queue[o]) + 1
  BY <1>5, <1>7, <1>12, <1>13
<1>17. queued[o] - Len(queue[o]) + 1 \in Nat /\ wire[o][1] = queued[o] - Len(queue[o]) + 1
  BY <1>15
<1>18. \A i \in 1..Len(q) : q[i] = (queued'[o] - Len(q) + 1) + i - 1
  <2>1. SUFFICES ASSUME NEW i \in 1..Len(q)
                 PROVE  q[i] = (queued[o] - Len(queue[o]) + 1) + i - 1
    BY <1>16
  <2>2. CASE i <= Len(queue[o])
    BY <1>7, <1>12, <1>15, <1>17, <2>2
  <2>3. CASE i > Len(queue[o])
    <3>1. i \in Int /\ Len(q) \in Nat
      BY <1>5, <1>7, <1>12
    <3>2. i \in (Len(queue[o]) + 1)..Len(q)
      BY <1>12, <2>3, <3>1
    <3>3. q[i] = queued[o] + (i - Len(queue[o]))
      BY <1>7, <3>2
    <3>4. QED
      BY <1>12, <3>1, <3>3
  <2>4. QED
    BY <1>7, <1>12, <2>2, <2>3
<1>19. sending[o] => q # <<>>
  <2>1. sending[o] => queue[o] # <<>>
    BY <1>2, <1>3, <1>4 DEF FrontInFlight
  <2>2. QED
    BY <1>5, <1>7, <1>12, <2>1
<1>20. wire'[o] = wire[o] /\ wire'[s] = wire[s]
  BY <1>2
<1>21. wire'[o] = <<queued'[o] - Len(q) + 1, offset[o]>>
  BY <1>15, <1>16, <1>20
<1>22. queued'[o] - Len(q) + 1 \in Nat
  BY <1>16, <1>17
<1>23. /\ InFlightContinues' /\ QueueIsRest'
       /\ sending'[o] => q # <<>>
       /\ ~PumpCloses(o, q, sending[o], okS) => (q # <<>> => sending'[o])
  BY <1>2, <1>3, <1>6, <1>7, <1>8, <1>13, <1>14, <1>18, <1>19, <1>20, <1>21,
     <1>22, PumpSendInv, ZenonT(60)
<1>24. /\ queue' \in [Stream -> Seq(Nat)]
       /\ queue'[o] = q /\ queue'[s] = queue[s]
       /\ offset' \in [Stream -> 0..(PieceLen - 1)]
       /\ sending' \in [Stream -> BOOLEAN]
       /\ sending'[s] <=> sending[s]
       /\ sending'[o] <=> sending[o] \/ CanPost(o, q, sending[o], okS)
       /\ pin' \in [Stream -> Nat \X (0..(PieceLen - 1))]
  BY <1>3, <1>4, <1>6, <1>7, <1>8, <1>14, PumpSendEffect
<1>25. ~paused[s] /\ ~peerClosed[s]
  BY <1>2, <1>4 DEF ReadNeverLost
<1>26. /\ paused' \in [Stream -> BOOLEAN]
       /\ paused'[s] <=> alive /\ QueueFull(q)
       /\ paused'[o] <=> paused[o]
       /\ reading' \in [Stream -> BOOLEAN]
       /\ reading'[s] <=> alive /\ ~QueueFull(q) /\ okR
       /\ reading'[o] <=> reading[o]
       /\ closed' \in BOOLEAN
       /\ closed' <=> ~alive \/ (alive /\ ~QueueFull(q) /\ ~okR)
  <2>. DEFINE full == QueueFull(q)
              free == alive /\ ~FALSE /\ ~peerClosed[s] /\ ~paused[s]
  <2>1. /\ paused' = [paused EXCEPT ![s] = paused[s] \/ (free /\ full)]
        /\ reading' = [reading EXCEPT ![s] = FALSE \/ (free /\ ~full /\ okR)]
        /\ closed' = (~alive \/ (free /\ ~full /\ ~okR))
    BY <1>9 DEF TryPostRelayRead
  <2>2. free <=> alive
    BY <1>25
  <2>. HIDE DEF full, free
  <2>3. /\ paused' \in [Stream -> BOOLEAN]
        /\ paused'[s] <=> paused[s] \/ (free /\ full)
        /\ paused'[o] <=> paused[o]
    BY <1>3, <1>4, <2>1 DEF TypeOK
  <2>4. /\ reading' \in [Stream -> BOOLEAN]
        /\ reading'[s] <=> FALSE \/ (free /\ ~full /\ okR)
        /\ reading'[o] <=> reading[o]
    BY <1>3, <1>4, <2>1 DEF TypeOK
  <2>5. QED
    BY <1>25, <2>1, <2>2, <2>3, <2>4 DEF full
<1>27. TypeOK'
  BY <1>2, <1>4, <1>13, <1>24, <1>26 DEF TypeOK
<1>28. QuietBeforeStart'
  BY <1>2 DEF QuietBeforeStart
<1>29. CASE closed'
  BY <1>23, <1>26, <1>27, <1>28, <1>29, ClosedInv
<1>30. CASE ~closed'
  <2>1. alive /\ (QueueFull(q) \/ okR)
    BY <1>26, <1>30
  <2>2. ~PumpCloses(o, q, sending[o], okS)
    BY <1>11, <2>1
  <2>3. (q # <<>> => sending'[o]) /\ (sending'[o] => q # <<>>)
    BY <1>23, <2>2
  <2>4. NoStall' /\ FrontInFlight'
    BY <1>2, <1>3, <1>4, <1>24, <2>3 DEF NoStall, FrontInFlight
  <2>5. (QueueFull(q) => q # <<>>) /\ (~QueueFull(q) => Len(q) <= Before)
    BY <1>7, FullOrRoom
  <2>6. ReadNeverLost'
    <3>1. /\ reading'[s] \/ paused'[s] \/ peerClosed'[s]
          /\ ~(reading'[s] /\ paused'[s]) /\ ~(reading'[s] /\ peerClosed'[s])
          /\ ~(paused'[s] /\ peerClosed'[s])
          /\ paused'[s] => sending'[o]
      BY <1>2, <1>25, <1>26, <2>1, <2>3, <2>5
    <3>2. /\ reading[o] \/ paused[o] \/ peerClosed[o]
          /\ ~(reading[o] /\ paused[o]) /\ ~(reading[o] /\ peerClosed[o])
          /\ ~(paused[o] /\ peerClosed[o])
          /\ paused[o] => sending[Other(o)]
      BY <1>2, <1>3, <1>4 DEF ReadNeverLost
    <3>3. /\ reading'[o] \/ paused'[o] \/ peerClosed'[o]
          /\ ~(reading'[o] /\ paused'[o]) /\ ~(reading'[o] /\ peerClosed'[o])
          /\ ~(paused'[o] /\ peerClosed'[o])
          /\ paused'[o] => sending'[Other(o)]
      BY <1>2, <1>3, <1>24, <1>26, <3>2
    <3>4. o = Other(s)
      BY DEF o
    <3>5. QED
      BY <1>3, <3>1, <3>3, <3>4 DEF ReadNeverLost
  <2>7. Room'
    <3>1. reading'[s] => Len(queue'[o]) <= Before
      BY <1>24, <1>26, <2>5
    <3>2. reading'[o] => Len(queue'[s]) <= Before
      BY <1>2, <1>3, <1>4, <1>24, <1>26 DEF Room
    <3>3. o = Other(s) /\ state' = "Relaying"
      BY <1>2 DEF o
    <3>4. QED
      BY <1>3, <3>1, <3>2, <3>3 DEF Room
  <2>8. QueueBound'
    <3>1. Len(queue[o]) <= Before
      BY <1>2, <1>4 DEF Room, o
    <3>2. Before \in Nat /\ MaxStep \in Nat
      BY DepthAssumption, BoundsAssumption DEF Before, MaxStep
    <3>3. Len(queue'[o]) <= Before + MaxStep
      BY <1>5, <1>7, <1>12, <1>24, <3>1, <3>2
    <3>4. Len(queue'[s]) <= Before + MaxStep
      BY <1>2, <1>4, <1>24 DEF QueueBound, Before, MaxStep
    <3>5. QED
      BY <1>3, <3>3, <3>4 DEF QueueBound, Before, MaxStep
  <2>9. QED
    BY <1>23, <1>27, <1>28, <2>4, <2>6, <2>7, <2>8 DEF IInv
<1>31. QED
  BY <1>26, <1>29, <1>30

(* A completed send: the queue shrinks or its front offset moves, the next *)
(* bytes go out, and the opposite read may resume.                         *)
LEMMA OnSendInv ==
  ASSUME IInv, NEW s \in Stream, OnSend(s)
  PROVE  IInv'
<1>. DEFINE o == Other(s)
<1>1. /\ state = "Relaying" /\ ~closed /\ sending[s]
      /\ UNCHANGED <<state, peerClosed, shut, queued>>
  BY DEF OnSend, Handles
<1>2. PICK n \in 1..(PieceLen - pin[s][2]), okS \in PostOutcomes, okR \in PostOutcomes :
        /\ PumpSend(s, AfterSend(s, n), OffsetAfterSend(s, n), FALSE, okS)
        /\ wire' = [wire EXCEPT ![s] =
                      IF pin[s][2] + n = PieceLen THEN <<pin[s][1] + 1, 0>>
                      ELSE <<pin[s][1], pin[s][2] + n>>]
        /\ MaybeResumeRelayRead(o, AfterSend(s, n),
             ~PumpCloses(s, AfterSend(s, n), FALSE, okS), okR)
  BY DEF OnSend
<1>. DEFINE q == AfterSend(s, n)
            off == OffsetAfterSend(s, n)
            alive == ~PumpCloses(s, q, FALSE, okS)
<1>3. /\ o \in Stream /\ o # s /\ Other(o) = s
      /\ \A x \in Stream : x = s \/ x = o
  BY OtherStream
<1>4. /\ TypeOK /\ InFlightContinues /\ QueueIsRest /\ NoStall /\ FrontInFlight
      /\ QuietBeforeStart /\ ReadNeverLost /\ Room /\ QueueBound
  BY DEF IInv
<1>5. okS \in BOOLEAN /\ okR \in BOOLEAN
  BY SwitchAssumption
<1>6. /\ q \in Seq(Nat) /\ Len(q) \in Nat /\ Len(q) <= Len(queue[s])
      /\ off \in 0..(PieceLen - 1)
      /\ queued[s] - Len(q) + 1 \in Nat
      /\ (IF pin[s][2] + n = PieceLen THEN <<pin[s][1] + 1, 0>>
           ELSE <<pin[s][1], pin[s][2] + n>>) = <<queued[s] - Len(q) + 1, off>>
      /\ \A i \in 1..Len(q) : q[i] = (queued[s] - Len(q) + 1) + i - 1
  BY <1>1, SentPrefix
<1>. PICK idle \in BOOLEAN : idle = FALSE
  OBVIOUS
<1>7. PumpSend(s, q, off, idle, okS)
  BY <1>2
<1>8. wire' = [wire EXCEPT ![s] = <<queued[s] - Len(q) + 1, off>>]
  BY <1>2, <1>6
<1>9. MaybeResumeRelayRead(o, q, alive, okR)
  BY <1>2
<1>10. alive \in BOOLEAN /\ (alive <=> ~PumpCloses(s, q, idle, okS))
  OBVIOUS
<1>. HIDE DEF q, off, alive, o
<1>11. <<queued[s] - Len(q) + 1, off>> \in Nat \X (0..(PieceLen - 1))
  BY <1>6
<1>12. /\ wire' \in [Stream -> Nat \X (0..(PieceLen - 1))]
       /\ wire'[s] = <<queued[s] - Len(q) + 1, off>> /\ wire'[o] = wire[o]
  <2>1. wire \in [Stream -> Nat \X (0..(PieceLen - 1))]
    BY <1>4 DEF TypeOK
  <2>. QED
    BY <1>3, <1>8, <1>11, <2>1, Zenon
<1>13. queued'[s] = queued[s] /\ queued'[o] = queued[o]
  BY <1>1
<1>14. /\ InFlightContinues' /\ QueueIsRest'
       /\ sending'[s] => q # <<>>
       /\ ~PumpCloses(s, q, idle, okS) => (q # <<>> => sending'[s])
  <2>1. /\ queued'[s] - Len(q) + 1 \in Nat
        /\ wire'[s] = <<queued'[s] - Len(q) + 1, off>>
        /\ \A i \in 1..Len(q) : q[i] = (queued'[s] - Len(q) + 1) + i - 1
    BY <1>6, <1>12, <1>13
  <2>2. wire'[Other(s)] = wire[Other(s)] /\ queued'[Other(s)] = queued[Other(s)]
    BY <1>12, <1>13 DEF o
  <2>3. q \in Seq(Nat) /\ off \in 0..(PieceLen - 1)
    BY <1>6
  <2>4. idle => sending[s] /\ wire'[s] = wire[s] /\ q # <<>>
    OBVIOUS
  <2>5. QED
    BY <1>1, <1>5, <1>7, <2>1, <2>2, <2>3, <2>4, PumpSendInv
<1>15. /\ queue' \in [Stream -> Seq(Nat)]
       /\ queue'[s] = q /\ queue'[o] = queue[o]
       /\ offset' \in [Stream -> 0..(PieceLen - 1)]
       /\ sending' \in [Stream -> BOOLEAN]
       /\ sending'[o] <=> sending[o]
       /\ pin' \in [Stream -> Nat \X (0..(PieceLen - 1))]
  BY <1>4, <1>5, <1>6, <1>7, PumpSendEffect DEF o
<1>16. /\ (QueueFull(q) => q # <<>>) /\ (~QueueFull(q) => Len(q) <= Before)
  BY <1>6, FullOrRoom
<1>17. /\ reading[o] \/ paused[o] \/ peerClosed[o]
       /\ ~(reading[o] /\ paused[o]) /\ ~(reading[o] /\ peerClosed[o])
       /\ ~(paused[o] /\ peerClosed[o])
  BY <1>1, <1>3, <1>4 DEF ReadNeverLost
<1>18. /\ paused' \in [Stream -> BOOLEAN] /\ reading' \in [Stream -> BOOLEAN]
       /\ closed' \in BOOLEAN
       /\ (paused'[s] <=> paused[s]) /\ (reading'[s] <=> reading[s])
       /\ ~closed' => alive
       /\ IF alive /\ paused[o] /\ ~QueueFull(q)
          THEN /\ ~paused'[o] /\ (~closed' => reading'[o])
          ELSE /\ (paused'[o] <=> paused[o]) /\ (reading'[o] <=> reading[o])
  <2>1. CASE alive /\ paused[o] /\ ~QueueFull(q)
    <3>. DEFINE full == QueueFull(q)
                free == alive /\ ~reading[o] /\ ~peerClosed[o] /\ ~FALSE
    <3>1. TryPostRelayRead(o, q, alive, reading[o], FALSE, okR)
      BY <1>9, <2>1 DEF MaybeResumeRelayRead
    <3>2. /\ paused' = [paused EXCEPT ![o] = FALSE \/ (free /\ full)]
          /\ reading' = [reading EXCEPT ![o] = reading[o] \/ (free /\ ~full /\ okR)]
          /\ closed' = (~alive \/ (free /\ ~full /\ ~okR))
      BY <3>1 DEF TryPostRelayRead
    <3>3. free /\ ~full
      BY <1>17, <2>1
    <3>. HIDE DEF full, free
    <3>4. /\ paused' \in [Stream -> BOOLEAN]
          /\ paused'[o] <=> FALSE \/ (free /\ full)
          /\ paused'[s] <=> paused[s]
      BY <1>3, <1>4, <3>2 DEF TypeOK
    <3>5. /\ reading' \in [Stream -> BOOLEAN]
          /\ reading'[o] <=> reading[o] \/ (free /\ ~full /\ okR)
          /\ reading'[s] <=> reading[s]
      BY <1>3, <1>4, <3>2 DEF TypeOK
    <3>6. closed' \in BOOLEAN /\ (closed' <=> ~alive \/ (free /\ ~full /\ ~okR))
      BY <3>2
    <3>7. QED
      BY <2>1, <3>3, <3>4, <3>5, <3>6
  <2>2. CASE ~(alive /\ paused[o] /\ ~QueueFull(q))
    <3>1. closed' = ~alive /\ UNCHANGED <<reading, paused>>
      BY <1>9, <2>2 DEF MaybeResumeRelayRead
    <3>2. QED
      BY <1>4, <1>10, <2>2, <3>1 DEF TypeOK
  <2>3. QED
    BY <2>1, <2>2
<1>19. TypeOK'
  BY <1>1, <1>4, <1>12, <1>15, <1>18 DEF TypeOK
<1>20. QuietBeforeStart'
  BY <1>1 DEF QuietBeforeStart
<1>21. CASE closed'
  BY <1>14, <1>18, <1>19, <1>20, <1>21, ClosedInv
<1>22. CASE ~closed'
  <2>1. alive /\ ~PumpCloses(s, q, idle, okS)
    BY <1>10, <1>18, <1>22
  <2>2. (q # <<>> => sending'[s]) /\ (sending'[s] => q # <<>>)
    BY <1>14, <2>1
  <2>3. NoStall' /\ FrontInFlight'
    BY <1>1, <1>3, <1>4, <1>15, <2>2 DEF NoStall, FrontInFlight
  <2>4. ReadNeverLost'
    <3>1. /\ reading'[o] \/ paused'[o] \/ peerClosed'[o]
          /\ ~(reading'[o] /\ paused'[o]) /\ ~(reading'[o] /\ peerClosed'[o])
          /\ ~(paused'[o] /\ peerClosed'[o])
          /\ paused'[o] => sending'[s]
      BY <1>1, <1>16, <1>17, <1>18, <1>22, <2>1, <2>2
    <3>2. /\ reading[s] \/ paused[s] \/ peerClosed[s]
          /\ ~(reading[s] /\ paused[s]) /\ ~(reading[s] /\ peerClosed[s])
          /\ ~(paused[s] /\ peerClosed[s])
          /\ paused[s] => sending[o]
      BY <1>1, <1>4 DEF ReadNeverLost, o
    <3>3. /\ reading'[s] \/ paused'[s] \/ peerClosed'[s]
          /\ ~(reading'[s] /\ paused'[s]) /\ ~(reading'[s] /\ peerClosed'[s])
          /\ ~(paused'[s] /\ peerClosed'[s])
          /\ paused'[s] => sending'[o]
      BY <1>1, <1>15, <1>18, <3>2
    <3>4. o = Other(s)
      BY DEF o
    <3>5. QED
      BY <1>3, <3>1, <3>3, <3>4 DEF ReadNeverLost
  <2>5. Room'
    <3>1. Before \in Nat /\ queue[s] \in Seq(Nat) /\ Len(queue[s]) \in Nat
      BY <1>4, DepthAssumption, BoundsAssumption DEF Before, TypeOK
    <3>2. reading[o] => Len(q) <= Before
      <4>1. reading[o] => Len(queue[s]) <= Before
        BY <1>1, <1>3, <1>4 DEF Room
      <4>2. QED
        BY <1>6, <3>1, <4>1
    <3>3. reading'[o] => Len(queue'[s]) <= Before
      BY <1>15, <1>16, <1>18, <3>2
    <3>4. reading'[s] => Len(queue'[o]) <= Before
      BY <1>1, <1>4, <1>15, <1>18 DEF Room, o
    <3>5. o = Other(s) /\ state' = "Relaying"
      BY <1>1 DEF o
    <3>6. QED
      BY <1>3, <3>3, <3>4, <3>5 DEF Room
  <2>6. QueueBound'
    <3>1. Before + MaxStep \in Nat
      BY DepthAssumption, BoundsAssumption DEF Before, MaxStep
    <3>2. Len(queue[s]) \in Nat
      BY <1>4 DEF TypeOK
    <3>3. Len(queue[s]) <= Before + MaxStep /\ Len(queue[o]) <= Before + MaxStep
      BY <1>1, <1>3, <1>4 DEF QueueBound, Before, MaxStep
    <3>4. Len(queue'[s]) <= Before + MaxStep /\ Len(queue'[o]) <= Before + MaxStep
      BY <1>6, <1>15, <3>1, <3>2, <3>3
    <3>5. QED
      BY <1>3, <3>4 DEF QueueBound, Before, MaxStep
  <2>7. QED
    BY <1>14, <1>19, <1>20, <2>3, <2>4, <2>5, <2>6 DEF IInv
<1>23. QED
  BY <1>18, <1>21, <1>22

(* The pipelined bytes are queued first, then both reads are posted. *)
LEMMA StartRelayInv ==
  ASSUME IInv, StartRelay
  PROVE  IInv'
<1>. DEFINE s == "dest"
            c == "client"
<1>1. /\ state = "Connecting" /\ ~closed /\ state' = "Relaying"
      /\ UNCHANGED <<paused, peerClosed, shut, wire>>
  BY DEF StartRelay
<1>2. PICK k \in 0..MaxInitial, bad \in BOOLEAN,
           okS \in PostOutcomes, okC \in PostOutcomes, okD \in PostOutcomes :
        LET q == queue["dest"] \o Fresh("dest", k)
            sendDead == PumpCloses("dest", q, sending["dest"], okS)
            clientDead == sendDead \/ bad \/ ~okC
        IN /\ ~Gss => k <= 1 /\ ~bad
           /\ queued' = [queued EXCEPT !["dest"] = @ + k]
           /\ PumpSend("dest", q, offset["dest"], sending["dest"], okS)
           /\ reading' = [x \in Stream |-> ~clientDead /\ (x = "dest" => okD)]
           /\ closed' = (clientDead \/ ~okD)
  BY Zenon DEF StartRelay
<1>. DEFINE q == queue[s] \o Fresh(s, k)
            sendDead == PumpCloses(s, q, sending[s], okS)
            clientDead == sendDead \/ bad \/ ~okC
<1>3. /\ queued' = [queued EXCEPT ![s] = @ + k]
      /\ PumpSend(s, q, offset[s], sending[s], okS)
  BY <1>2
<1>pump. PumpSend(s, q, offset[s], sending[s], okS)
  BY <1>2
<1>flags. /\ reading' = [x \in Stream |-> ~clientDead /\ (x = "dest" => okD)]
       /\ closed' = (clientDead \/ ~okD)
  BY <1>2
<1>4. /\ s \in Stream /\ c \in Stream /\ c # s /\ Other(s) = c /\ Other(c) = s
      /\ \A x \in Stream : x = s \/ x = c
  BY DEF Stream, Other
<1>5. /\ TypeOK /\ InFlightContinues /\ QueueIsRest /\ NoStall /\ FrontInFlight
      /\ QuietBeforeStart /\ ReadNeverLost /\ Room /\ QueueBound
  BY DEF IInv
<1>6. k \in Nat /\ k <= MaxInitial /\ okS \in BOOLEAN /\ okC \in BOOLEAN /\ okD \in BOOLEAN
  BY BoundsAssumption, SwitchAssumption
<1>7. queue[s] = <<>> /\ Len(queue[c]) <= MaxInitial
  BY <1>1, <1>4, <1>5 DEF Room
<1>8. ~sending[s]
  BY <1>1, <1>4, <1>5, <1>7 DEF FrontInFlight
<1>9. /\ q \in Seq(Nat)
      /\ Len(q) = Len(queue[s]) + k
      /\ \A i \in (Len(queue[s]) + 1)..Len(q) : q[i] = queued[s] + (i - Len(queue[s]))
  BY <1>4, <1>5, <1>6, QueueGrows
<1>10. Len(queue[s]) = 0
  BY <1>7
<1>11. sendDead \in BOOLEAN /\ (sendDead <=> PumpCloses(s, q, sending[s], okS))
  BY DEF PumpCloses
<1>12. clientDead \in BOOLEAN /\ (clientDead <=> sendDead \/ bad \/ ~okC)
  OBVIOUS
<1>13. /\ reading' \in [Stream -> BOOLEAN]
       /\ (reading'[c] <=> ~clientDead) /\ (reading'[s] <=> ~clientDead /\ okD)
  <2>. HIDE DEF sendDead, clientDead, q
  <2>1. QED
    BY <1>flags, <1>4, Zenon
<1>14. closed' \in BOOLEAN /\ (closed' <=> clientDead \/ ~okD)
  BY <1>flags
<1>15. queued[s] \in Nat /\ offset[s] \in 0..(PieceLen - 1) /\ sending[s] \in BOOLEAN
  BY <1>4, <1>5 DEF TypeOK
<1>. HIDE DEF q, s, c, sendDead, clientDead
<1>16. /\ queued' \in [Stream -> Nat]
       /\ queued'[s] = queued[s] + k /\ queued'[c] = queued[c]
  BY <1>3, <1>4, <1>5, <1>6, <1>15, SMTT(30) DEF TypeOK
<1>17. Len(q) = k
  BY <1>6, <1>9, <1>10
<1>18. wire[s] = <<queued[s] + 1, offset[s]>>
  <2>1. wire[s] = <<queued[s] - Len(queue[s]) + 1, offset[s]>>
    BY <1>1, <1>4, <1>5 DEF QueueIsRest
  <2>2. queued[s] - Len(queue[s]) + 1 = queued[s] + 1
    BY <1>10, <1>15
  <2>3. QED
    BY <2>1, <2>2
<1>19. queued'[s] - Len(q) + 1 = queued[s] + 1
  BY <1>6, <1>15, <1>16, <1>17
<1>20. \A i \in 1..Len(q) : q[i] = (queued'[s] - Len(q) + 1) + i - 1
  <2>1. SUFFICES ASSUME NEW i \in 1..Len(q) PROVE q[i] = (queued[s] + 1) + i - 1
    BY <1>19
  <2>2. i \in (Len(queue[s]) + 1)..Len(q) /\ i \in Int
    BY <1>6, <1>10, <1>17
  <2>3. q[i] = queued[s] + (i - Len(queue[s]))
    BY <1>9, <2>2
  <2>4. QED
    BY <1>10, <1>15, <2>2, <2>3
<1>21. /\ InFlightContinues' /\ QueueIsRest'
       /\ sending'[s] => q # <<>>
       /\ ~PumpCloses(s, q, sending[s], okS) => (q # <<>> => sending'[s])
  <2>1. queued'[s] - Len(q) + 1 \in Nat /\ wire'[s] = <<queued'[s] - Len(q) + 1, offset[s]>>
    BY <1>1, <1>15, <1>18, <1>19
  <2>2. wire'[Other(s)] = wire[Other(s)] /\ queued'[Other(s)] = queued[Other(s)]
    BY <1>1, <1>4, <1>16
  <2>3. sending[s] => sending[s] /\ wire'[s] = wire[s] /\ q # <<>>
    BY <1>8
  <2>4. QED
    BY <1>1, <1>pump, <1>4, <1>6, <1>9, <1>15, <1>20, <2>1, <2>2, <2>3, PumpSendInv, ZenonT(60)
<1>22. /\ queue' \in [Stream -> Seq(Nat)]
       /\ queue'[s] = q /\ queue'[c] = queue[c]
       /\ offset' \in [Stream -> 0..(PieceLen - 1)]
       /\ sending' \in [Stream -> BOOLEAN]
       /\ sending'[c] <=> sending[c]
       /\ pin' \in [Stream -> Nat \X (0..(PieceLen - 1))]
  <2>1. queue' \in [Stream -> Seq(Nat)] /\ queue'[s] = q /\ queue'[Other(s)] = queue[Other(s)]
    BY <1>pump, <1>4, <1>5, <1>6, <1>9, <1>15, PumpSendEffect
  <2>2. /\ offset' \in [Stream -> 0..(PieceLen - 1)]
        /\ sending' \in [Stream -> BOOLEAN]
        /\ sending'[Other(s)] <=> sending[Other(s)]
        /\ pin' \in [Stream -> Nat \X (0..(PieceLen - 1))]
    BY <1>pump, <1>4, <1>5, <1>6, <1>9, <1>15, PumpSendEffect
  <2>3. QED
    BY <1>4, <2>1, <2>2
<1>23. TypeOK'
  BY <1>1, <1>5, <1>13, <1>14, <1>16, <1>22 DEF TypeOK
<1>24. QuietBeforeStart'
  BY <1>1 DEF QuietBeforeStart
<1>25. CASE closed'
  BY <1>14, <1>21, <1>23, <1>24, <1>25, ClosedInv
<1>26. CASE ~closed'
  <2>1. ~clientDead /\ okD /\ ~sendDead /\ ~bad /\ okC
    BY <1>12, <1>14, <1>26
  <2>2. (q # <<>> => sending'[s]) /\ (sending'[s] => q # <<>>)
    BY <1>11, <1>21, <2>1
  <2>3. NoStall' /\ FrontInFlight'
    BY <1>1, <1>4, <1>5, <1>22, <2>2 DEF NoStall, FrontInFlight
  <2>4. \A x \in Stream : reading'[x] /\ ~paused'[x] /\ ~peerClosed'[x]
    BY <1>1, <1>4, <1>5, <1>13, <2>1 DEF QuietBeforeStart
  <2>5. ReadNeverLost'
    BY <2>4 DEF ReadNeverLost
  <2>6. /\ MaxInitial <= Before /\ Before \in Nat /\ MaxStep \in Nat
        /\ Len(queue[c]) \in Nat /\ MaxInitial \in Nat
    BY <1>4, <1>5, DepthAssumption, BoundsAssumption, SMTT(30) DEF Before, MaxStep, TypeOK
  <2>7. Len(queue'[s]) <= Before /\ Len(queue'[c]) <= Before
    BY <1>6, <1>7, <1>17, <1>22, <2>6
  <2>8. Room'
    BY <1>1, <1>4, <2>7 DEF Room
  <2>9. \A x \in Stream : Len(queue'[x]) <= Before + MaxStep
    <3>1. Len(queue'[s]) \in Nat /\ Len(queue'[c]) \in Nat
      BY <1>6, <1>17, <1>22, <2>6
    <3>2. QED
      BY <1>4, <2>6, <2>7, <3>1
  <2>10. QueueBound'
    BY <2>9 DEF QueueBound, Before, MaxStep
  <2>11. QED
    BY <1>21, <1>23, <1>24, <2>3, <2>5, <2>8, <2>10 DEF IInv
<1>27. QED
  BY <1>14, <1>25, <1>26

(* The end of one stream leaves the queues and the sends as they are. *)
LEMMA OnRecvEndInv ==
  ASSUME IInv, NEW s \in Stream, OnRecvEnd(s)
  PROVE  IInv'
<1>. DEFINE o == Other(s)
<1>1. /\ TypeOK /\ InFlightContinues /\ QueueIsRest /\ NoStall /\ FrontInFlight
      /\ QuietBeforeStart /\ ReadNeverLost /\ Room /\ QueueBound
  BY DEF IInv
<1>2. /\ state = "Relaying" /\ ~closed /\ reading[s]
      /\ reading' = [reading EXCEPT ![s] = FALSE]
      /\ peerClosed' = [peerClosed EXCEPT ![s] = TRUE]
      /\ shut' = [shut EXCEPT ![o] = TRUE]
      /\ closed' = peerClosed[o]
      /\ UNCHANGED <<state, paused, queue, offset, sending, pin, queued, wire>>
  BY DEF OnRecvEnd, Handles
<1>3. o \in Stream /\ o # s /\ Other(o) = s /\ \A x \in Stream : x = s \/ x = o
  BY OtherStream
<1>. HIDE DEF o
<1>4. /\ reading' \in [Stream -> BOOLEAN] /\ ~reading'[s] /\ (reading'[o] <=> reading[o])
  BY <1>1, <1>2, <1>3 DEF TypeOK
<1>5. /\ peerClosed' \in [Stream -> BOOLEAN] /\ peerClosed'[s]
      /\ (peerClosed'[o] <=> peerClosed[o])
  BY <1>1, <1>2, <1>3 DEF TypeOK
<1>6. shut' \in [Stream -> BOOLEAN] /\ closed' \in BOOLEAN
  BY <1>1, <1>2, <1>3 DEF TypeOK
<1>7. TypeOK'
  BY <1>1, <1>2, <1>4, <1>5, <1>6 DEF TypeOK
<1>8. InFlightContinues' /\ QuietBeforeStart'
  BY <1>1, <1>2 DEF InFlightContinues, QuietBeforeStart
<1>9. CASE closed'
  BY <1>6, <1>7, <1>8, <1>9, ClosedInv
<1>10. CASE ~closed'
  <2>1. QueueIsRest' /\ NoStall' /\ FrontInFlight' /\ QueueBound'
    BY <1>1, <1>2 DEF QueueIsRest, NoStall, FrontInFlight, QueueBound
  <2>2. Room'
    BY <1>1, <1>2, <1>3, <1>4 DEF Room
  <2>3. ~paused[s]
    BY <1>1, <1>2 DEF ReadNeverLost
  <2>4. ReadNeverLost'
    BY <1>1, <1>2, <1>3, <1>4, <1>5, <2>3 DEF ReadNeverLost
  <2>5. QED
    BY <1>7, <1>8, <2>1, <2>2, <2>4 DEF IInv
<1>11. QED
  BY <1>6, <1>9, <1>10

(* The steps that only close the session, or drain a closed one. *)
LEMMA ClosingInv ==
  ASSUME IInv, ServerStop \/ \E s \in Stream : OnSendError(s) \/ DrainRecv(s) \/ DrainSend(s)
  PROVE  IInv'
<1>1. TypeOK /\ InFlightContinues /\ QuietBeforeStart
  BY DEF IInv
<1>2. ASSUME NEW s \in Stream, NEW f \in [Stream -> BOOLEAN]
      PROVE  /\ [f EXCEPT ![s] = FALSE] \in [Stream -> BOOLEAN]
             /\ \A x \in Stream : [f EXCEPT ![s] = FALSE][x] => f[x]
  OBVIOUS
<1>3. CASE ServerStop
  <2>1. closed' = TRUE /\ UNCHANGED <<state, reading, paused, peerClosed, shut, queue,
                                       offset, sending, pin, queued, wire>>
    BY <1>3 DEF ServerStop, Close
  <2>2. TypeOK' /\ InFlightContinues' /\ QuietBeforeStart'
    BY <1>1, <2>1 DEF TypeOK, InFlightContinues, QuietBeforeStart
  <2>3. QED
    BY <2>1, <2>2, ClosedInv
<1>4. ASSUME NEW s \in Stream, OnSendError(s) \/ DrainSend(s)
      PROVE  IInv'
  <2>1. /\ sending' = [sending EXCEPT ![s] = FALSE] /\ closed' = TRUE
        /\ UNCHANGED <<state, reading, paused, peerClosed, shut, queue, offset,
                       pin, queued, wire>>
    BY <1>1, <1>4 DEF OnSendError, DrainSend, Close, TypeOK
  <2>2. sending' \in [Stream -> BOOLEAN] /\ \A x \in Stream : sending'[x] => sending[x]
    BY <1>1, <1>2, <2>1 DEF TypeOK
  <2>3. TypeOK' /\ InFlightContinues' /\ QuietBeforeStart'
    BY <1>1, <2>1, <2>2 DEF TypeOK, InFlightContinues, QuietBeforeStart
  <2>4. QED
    BY <2>1, <2>3, ClosedInv
<1>5. ASSUME NEW s \in Stream, DrainRecv(s)
      PROVE  IInv'
  <2>1. /\ reading' = [reading EXCEPT ![s] = FALSE] /\ closed' = TRUE
        /\ UNCHANGED <<state, paused, peerClosed, shut, queue, offset, sending,
                       pin, queued, wire>>
    BY <1>1, <1>5 DEF DrainRecv, TypeOK
  <2>2. reading' \in [Stream -> BOOLEAN] /\ \A x \in Stream : reading'[x] => reading[x]
    BY <1>1, <1>2, <2>1 DEF TypeOK
  <2>3. TypeOK' /\ InFlightContinues' /\ QuietBeforeStart'
    BY <1>1, <2>1, <2>2 DEF TypeOK, InFlightContinues, QuietBeforeStart
  <2>4. QED
    BY <2>1, <2>3, ClosedInv
<1>6. QED
  BY <1>3, <1>4, <1>5

-----------------------------------------------------------------------------
(* Every step preserves IInv. *)
LEMMA NextInv == IInv /\ [Next]_vars => IInv'
<1>. SUFFICES ASSUME IInv, [Next]_vars PROVE IInv'
  OBVIOUS
<1>1. CASE StartRelay
  BY <1>1, StartRelayInv
<1>2. CASE \E s \in Stream : OnRelayData(s)
  BY <1>2, OnRelayDataInv
<1>3. CASE \E s \in Stream : OnRecvEnd(s)
  BY <1>3, OnRecvEndInv
<1>4. CASE \E s \in Stream : OnSend(s)
  BY <1>4, OnSendInv
<1>5. CASE ServerStop \/ \E s \in Stream : OnSendError(s) \/ DrainRecv(s) \/ DrainSend(s)
  BY <1>5, ClosingInv
<1>6. CASE UNCHANGED vars
  BY <1>6 DEF vars, IInv, TypeOK, InFlightContinues, QueueIsRest, NoStall,
     FrontInFlight, QuietBeforeStart, ReadNeverLost, Room, QueueBound
<1>7. QED
  BY <1>1, <1>2, <1>3, <1>4, <1>5, <1>6 DEF Next, Ended

(* IInv holds in every reachable state of a relay, whatever the queue      *)
(* depth, the length of an entry, the burst of a receive and the bounds.   *)
THEOREM InvariantHolds == Spec => []IInv
BY InitInv, NextInv, PTL DEF Spec

(* Type correctness; in particular sendFrontOffset always lies inside the  *)
(* front entry, so PumpSend never posts past the end of a buffer.          *)
THEOREM TypeCorrect == Spec => []TypeOK
<1>1. IInv => TypeOK
  BY DEF IInv
<1>2. QED
  BY <1>1, InvariantHolds, PTL

(* No pattern of partial sends, bursts, pauses and failures opens a gap,   *)
(* repeats or reorders bytes of a relayed stream (OnClientSend,            *)
(* OnDestSend, PumpSend).                                                  *)
THEOREM StreamIsIntact == Spec => []StreamIntact
<1>1. IInv => StreamIntact
  BY DEF IInv, StreamIntact
<1>2. QED
  BY <1>1, InvariantHolds, PTL

(* In an open session queued data always has a send in flight: there is no *)
(* state from which only an unrelated event would pump it.                 *)
THEOREM SendsNeverStall == Spec => []NoStall
<1>1. IInv => NoStall
  BY DEF IInv
<1>2. QED
  BY <1>1, InvariantHolds, PTL

(* Backpressure never loses a wake-up, at any kMaxRelayQueueDepth of one   *)
(* or more (TryPostRelayRead, MaybeResumeRelayRead).                       *)
THEOREM ReadsAreNeverLost == Spec => []ReadNeverLost
<1>1. IInv => ReadNeverLost
  BY DEF IInv
<1>2. QED
  BY <1>1, InvariantHolds, PTL

(* The send queues are bounded by kMaxRelayQueueDepth and one burst. *)
THEOREM QueuesAreBounded == Spec => []QueueBound
<1>1. IInv => QueueBound
  BY DEF IInv
<1>2. QED
  BY <1>1, InvariantHolds, PTL

(* A closed session starts nothing and moves nothing: completions that     *)
(* arrive after Close only clear their flag (OnIoCompleted).               *)
THEOREM ClosedIsQuiet == Spec => QuietAfterClose
<1>. DEFINE Quiet == closed => /\ closed' /\ queued' = queued /\ wire' = wire
                               /\ \A s \in Stream : (reading'[s] => reading[s]) /\ (sending'[s] => sending[s])
<1>1. TypeOK /\ [Next]_vars => [Quiet]_vars
  <2>. SUFFICES ASSUME TypeOK, Next, closed PROVE Quiet
    BY DEF vars
  <2>1. /\ reading \in [Stream -> BOOLEAN] /\ sending \in [Stream -> BOOLEAN]
        /\ ~StartRelay /\ ~ServerStop
        /\ \A s \in Stream : ~OnRelayData(s) /\ ~OnRecvEnd(s) /\ ~OnSend(s) /\ ~OnSendError(s)
    BY DEF TypeOK, Handles, StartRelay, ServerStop, OnRelayData, OnRecvEnd,
       OnSend, OnSendError
  <2>2. CASE Ended
    BY <2>2 DEF Ended, vars
  <2>3. ASSUME NEW s \in Stream, DrainRecv(s)
        PROVE  Quiet
    BY <2>1, <2>3 DEF DrainRecv
  <2>4. ASSUME NEW s \in Stream, DrainSend(s)
        PROVE  Quiet
    BY <2>1, <2>4 DEF DrainSend
  <2>5. QED
    BY <2>1, <2>2, <2>3, <2>4 DEF Next
<1>2. QED
  BY <1>1, TypeCorrect, PTL DEF Spec, QuietAfterClose
=============================================================================
