---------------------------- MODULE DuplexProofs ----------------------------
(***************************************************************************)
(* TcpRelay implements Duplex, for every queue depth, entry length, burst  *)
(* size and bound: IsDuplex as a theorem.  IInv of TcpRelayProofs says     *)
(* where the bytes are; what is added here is which stream has ended.      *)
(***************************************************************************)
EXTENDS TcpRelayProofs

(* A socket is shut down for sending exactly if the opposite peer has      *)
(* ended its stream, and positions count entries from 1.                   *)
EndsAgree ==
  \A s \in Stream : /\ shut[Other(s)] <=> peerClosed[s]
                    /\ wire[s][1] \in Nat \ {0}

given == [s \in Stream |-> queued[s] * PieceLen]
sent == [s \in Stream |-> Position(s)]

-----------------------------------------------------------------------------
(* A product grows by one factor at a time. *)
LEMMA NextMultiple ==
  ASSUME NEW a \in Int, NEW L \in Int
  PROVE  (a + 1) * L = a * L + L /\ a * L \in Int
OBVIOUS

(* Products of naturals are naturals. *)
LEMMA ProductNat ==
  ASSUME NEW a \in Nat, NEW L \in Nat
  PROVE  a * L \in Nat
OBVIOUS

(* A smaller number of entries is a smaller number of bytes. *)
LEMMA MoreEntries ==
  ASSUME NEW a \in Nat, NEW k \in Nat, NEW L \in Nat \ {0}
  PROVE  /\ (a + k) * L = a * L + k * L
         /\ k * L \in Nat
         /\ k # 0 => k * L > 0
<1>1. (a + k) * L = a * L + k * L
  OBVIOUS
<1>2. k * L \in Nat
  OBVIOUS
<1>3. k # 0 => k * L > 0
  OBVIOUS
<1>4. QED
  BY <1>1, <1>2, <1>3

-----------------------------------------------------------------------------
LEMMA EndsAgreeInit == Init => EndsAgree
BY DEF Init, EndsAgree, Stream, Other

(* A send moves the position of its stream by the bytes that went out.     *)
LEMMA SendEffect ==
  ASSUME IInv, EndsAgree, NEW s \in Stream, OnSend(s)
  PROVE  /\ ~closed /\ sending[s] /\ closed' \in BOOLEAN
         /\ UNCHANGED <<state, peerClosed, shut, queued>>
         /\ \A x \in Stream \ {s} : wire'[x] = wire[x]
         /\ wire'[s][1] \in Nat \ {0} /\ wire'[s][2] \in Nat
         /\ Position(s) \in Nat /\ Position(s)' \in Nat
         /\ Position(s)' > Position(s)
         /\ Position(s)' <= queued[s] * PieceLen
         /\ shut[s] /\ Position(s)' < queued[s] * PieceLen => closed'
<1>. USE PieceLenAssumption
<1>1. /\ ~closed /\ sending[s] /\ UNCHANGED <<state, peerClosed, shut, queued>>
  BY DEF OnSend, Handles
<1>2. PICK n \in 1..(PieceLen - pin[s][2]),
           okS \in PostOutcomes, okR \in PostOutcomes :
        LET q == AfterSend(s, n)
            alive == ~PumpCloses(s, q, FALSE, okS)
        IN /\ PumpSend(s, q, OffsetAfterSend(s, n), FALSE, okS)
           /\ wire' = [wire EXCEPT ![s] =
                         IF pin[s][2] + n = PieceLen
                         THEN <<pin[s][1] + 1, 0>>
                         ELSE <<pin[s][1], pin[s][2] + n>>]
           /\ MaybeResumeRelayRead(Other(s), q, alive, okR)
  BY Zenon DEF OnSend
<1>. DEFINE q == AfterSend(s, n)
            alive == ~PumpCloses(s, q, FALSE, okS)
            p == pin[s][1]
            f == pin[s][2]
            m == queued[s]
            len == Len(queue[s])
<1>3. /\ wire' = [wire EXCEPT ![s] = IF f + n = PieceLen THEN <<p + 1, 0>>
                                     ELSE <<p, f + n>>]
      /\ MaybeResumeRelayRead(Other(s), q, alive, okR)
  BY <1>2
<1>4. /\ queue[s] \in Seq(Nat) /\ queue[s] # <<>>
      /\ Len(queue[s]) \in Nat \ {0} /\ queued[s] \in Nat
      /\ f = offset[s] /\ f \in 0..(PieceLen - 1)
      /\ p = queued[s] - Len(queue[s]) + 1 /\ p \in Nat
      /\ pin[s] = <<queued[s] - Len(queue[s]) + 1, offset[s]>>
  BY <1>1, FrontOfQueue
<1>5. wire \in [Stream -> Nat \X (0..(PieceLen - 1))] /\ pin[s] = wire[s]
  BY <1>1 DEF IInv, TypeOK, InFlightContinues
<1>6. p \in Nat \ {0} /\ wire[s][1] = p /\ wire[s][2] = f
  BY <1>5 DEF EndsAgree
<1>7. n \in 1..(PieceLen - f) /\ PieceLen \in Nat \ {0}
  BY <1>2
<1>8. closed' \in BOOLEAN /\ (~alive => closed')
  BY <1>3 DEF MaybeResumeRelayRead, TryPostRelayRead
<1>9. shut[s] /\ q # <<>> => ~alive
  BY DEF PumpCloses, CanPost
<1>sizes. /\ p \in Nat \ {0} /\ len \in Nat \ {0} /\ m \in Nat
          /\ p = m - len + 1 /\ f \in 0..(PieceLen - 1)
          /\ n \in 1..(PieceLen - f) /\ PieceLen \in Nat \ {0}
  BY <1>4, <1>6, <1>7
<1>10. q = <<>> => f + n = PieceLen /\ m = p
  <2>1. SUFFICES ASSUME q = <<>> PROVE f + n = PieceLen /\ m = p
    OBVIOUS
  <2>2. FrontDone(s, n) /\ Tail(queue[s]) = <<>>
    BY <1>4, <2>1 DEF AfterSend
  <2>3. f + n >= PieceLen
    BY <1>4, <2>2 DEF FrontDone
  <2>4. len = 1
    <3>1. Len(Tail(queue[s])) = Len(queue[s]) - 1
      BY <1>4, HeadTailProperties
    <3>2. Len(Tail(queue[s])) = 0
      <4>1. Len(<<>>) = 0
        OBVIOUS
      <4>2. QED
        BY <2>2, <4>1, Zenon
    <3>3. QED
      BY <1>4, <3>1, <3>2
  <2>. HIDE DEF p, f, q, m, len
  <2>5. QED
    BY <1>sizes, <2>3, <2>4
<1>queued. m = queued[s]
  OBVIOUS
<1>. HIDE DEF q, alive, p, f, m, len
<1>11. /\ wire'[s] = IF f + n = PieceLen THEN <<p + 1, 0>> ELSE <<p, f + n>>
       /\ \A x \in Stream \ {s} : wire'[x] = wire[x]
  BY <1>3, <1>5
<1>12. wire'[s][1] \in Nat \ {0} /\ wire'[s][2] \in Nat
  BY <1>sizes, <1>11
<1>. DEFINE b == (p - 1) * PieceLen
<1>13. b \in Nat /\ p * PieceLen = b + PieceLen
  <2>1. p - 1 \in Nat /\ p = (p - 1) + 1
    BY <1>sizes
  <2>2. QED
    BY <1>sizes, <2>1, NextMultiple, ProductNat
<1>14. Position(s) = b + f
  BY <1>6 DEF Position
<1>15. Position(s)' = b + f + n
  <2>1. CASE f + n = PieceLen
    <3>0. wire'[s][1] = p + 1 /\ wire'[s][2] = 0
      BY <1>11, <2>1
    <3>1. wire'[s][1] - 1 = p
      BY <1>sizes, <3>0
    <3>2. Position(s)' = (wire'[s][1] - 1) * PieceLen + wire'[s][2]
      BY DEF Position
    <3>3. Position(s)' = p * PieceLen + 0
      BY <3>0, <3>1, <3>2
    <3>. HIDE DEF b
    <3>4. QED
      BY <1>sizes, <1>13, <2>1, <3>3
  <2>2. CASE f + n # PieceLen
    <3>0. wire'[s][1] = p /\ wire'[s][2] = f + n
      BY <1>11, <2>2
    <3>1. Position(s)' = b + (f + n)
      BY <3>0 DEF Position
    <3>. HIDE DEF b
    <3>2. QED
      BY <1>sizes, <1>13, <3>1
  <2>3. QED
    BY <2>1, <2>2
<1>16. p * PieceLen <= m * PieceLen
  <2>1. m - p \in Nat /\ m = p + (m - p)
    BY <1>sizes
  <2>2. m * PieceLen = p * PieceLen + (m - p) * PieceLen /\ (m - p) * PieceLen \in Nat
    BY <1>sizes, <2>1, MoreEntries
  <2>3. p * PieceLen \in Nat
    BY <1>sizes, ProductNat
  <2>4. QED
    BY <2>2, <2>3
<1>17. Position(s) \in Nat /\ Position(s)' \in Nat /\ Position(s)' > Position(s)
  <2>. HIDE DEF b
  <2>1. QED
    BY <1>sizes, <1>13, <1>14, <1>15
<1>18. m * PieceLen \in Nat /\ p * PieceLen \in Nat
  BY <1>sizes, ProductNat
<1>19. Position(s)' <= m * PieceLen
  <2>. DEFINE P == p * PieceLen
              Q == m * PieceLen
  <2>1. P = b + PieceLen /\ P <= Q /\ Q \in Nat /\ P \in Nat /\ b \in Nat
    BY <1>13, <1>16, <1>18
  <2>. HIDE DEF P, Q, b
  <2>2. b + f + n <= Q
    BY <1>sizes, <2>1
  <2>3. QED
    BY <1>15, <2>2 DEF Q
<1>20. shut[s] /\ Position(s)' < m * PieceLen => closed'
  <2>1. SUFFICES ASSUME shut[s], Position(s)' < m * PieceLen PROVE q # <<>>
    BY <1>8, <1>9
  <2>2. SUFFICES ASSUME q = <<>> PROVE FALSE
    OBVIOUS
  <2>3. Position(s)' = m * PieceLen
    <3>1. f + n = PieceLen /\ m = p
      BY <1>10, <2>2
    <3>2. Position(s)' = p * PieceLen
      <4>. DEFINE P == p * PieceLen
      <4>1. P = b + PieceLen /\ Position(s)' = b + f + n /\ b \in Nat
        BY <1>13, <1>15
      <4>. HIDE DEF P, b
      <4>2. Position(s)' = P
        BY <1>sizes, <3>1, <4>1
      <4>3. QED
        BY <4>2 DEF P
    <3>3. QED
      BY <3>1, <3>2
  <2>4. QED
    BY <1>18, <2>1, <2>3
<1>21. QED
  BY <1>1, <1>queued, <1>8, <1>11, <1>12, <1>17, <1>19, <1>20

(* No step separates the end of a stream from the shutdown of the other. *)
LEMMA EndsAgreeNext == IInv /\ EndsAgree /\ [Next]_vars => EndsAgree'
<1>. SUFFICES ASSUME IInv, EndsAgree, [Next]_vars PROVE EndsAgree'
  OBVIOUS
<1>1. ASSUME NEW s \in Stream, OnSend(s)
      PROVE  EndsAgree'
  <2>1. UNCHANGED <<peerClosed, shut>>
    BY <1>1, SendEffect
  <2>2. \A x \in Stream : wire'[x][1] \in Nat \ {0}
    BY <1>1, SendEffect DEF EndsAgree
  <2>3. QED
    BY <2>1, <2>2 DEF EndsAgree
<1>2. ASSUME NEW s \in Stream, OnRecvEnd(s)
      PROVE  EndsAgree'
  <2>1. /\ peerClosed \in [Stream -> BOOLEAN] /\ shut \in [Stream -> BOOLEAN]
        /\ peerClosed' = [peerClosed EXCEPT ![s] = TRUE]
        /\ shut' = [shut EXCEPT ![Other(s)] = TRUE]
        /\ wire' = wire
    BY <1>2 DEF OnRecvEnd, IInv, TypeOK
  <2>2. QED
    BY <2>1 DEF EndsAgree, Stream, Other
<1>3. CASE StartRelay
  BY <1>3 DEF StartRelay, EndsAgree
<1>4. ASSUME NEW s \in Stream, OnRelayData(s)
      PROVE  EndsAgree'
  BY <1>4 DEF OnRelayData, EndsAgree
<1>5. ASSUME NEW s \in Stream, OnSendError(s) \/ DrainRecv(s) \/ DrainSend(s)
      PROVE  EndsAgree'
  BY <1>5 DEF OnSendError, Close, DrainRecv, DrainSend, EndsAgree
<1>6. CASE ServerStop
  BY <1>6 DEF ServerStop, Close, EndsAgree
<1>7. CASE UNCHANGED vars
  BY <1>7 DEF vars, EndsAgree
<1>8. QED
  BY <1>1, <1>2, <1>3, <1>4, <1>5, <1>6, <1>7 DEF Next, Ended

-----------------------------------------------------------------------------
(* Queueing k entries on o is giving it bytes, or nothing. *)
LEMMA EntriesAreBytes ==
  ASSUME IInv, NEW o \in Stream, NEW k \in Nat,
         ~closed, closed' \in BOOLEAN, ~shut[o],
         queued' = [queued EXCEPT ![o] = @ + k], UNCHANGED <<shut, wire>>
  PROVE  [Pipes!Next]_(Pipes!vars)
<1>. USE PieceLenAssumption
<1>1. queued \in [Stream -> Nat] /\ closed \in BOOLEAN
  BY DEF IInv, TypeOK
<1>2. sent' = sent
  BY DEF sent, Position
<1>3. CASE k = 0
  <2>1. queued' = queued
    BY <1>1, <1>3
  <2>2. given' = given
    BY <2>1 DEF given
  <2>3. CASE closed'
    <3>1. Pipes!Close
      BY <1>2, <2>2, <2>3 DEF Pipes!Close, given, sent
    <3>2. QED
      BY <3>1 DEF Pipes!Next
  <2>4. CASE ~closed'
    <3>1. closed' = closed
      BY <1>1, <2>4
    <3>2. QED
      BY <1>2, <2>2, <3>1 DEF Pipes!vars, given, sent
  <2>5. QED
    BY <2>3, <2>4
<1>4. CASE k # 0
  <2>1. queued' \in [Stream -> Nat] /\ queued'[o] = queued[o] + k
        /\ \A x \in Stream \ {o} : queued'[x] = queued[x]
    BY <1>1
  <2>2. given' = [s \in Stream |-> queued'[s] * PieceLen]
    BY DEF given
  <2>3. \A s \in Stream : given'[s] = queued'[s] * PieceLen /\ given[s] = queued[s] * PieceLen
    BY <2>2 DEF given
  <2>4. \A s \in Stream : queued'[s] * PieceLen \in Nat /\ queued[s] * PieceLen \in Nat
    BY <1>1, <2>1, ProductNat
  <2>5. given' \in [Stream -> Nat]
    BY <2>2, <2>4
  <2>6. given'[o] > given[o]
    <3>1. queued'[o] * PieceLen = queued[o] * PieceLen + k * PieceLen
          /\ k * PieceLen \in Nat /\ k * PieceLen > 0
      BY <1>1, <1>4, <2>1, MoreEntries
    <3>2. QED
      BY <2>3, <2>4, <3>1
  <2>7. \A x \in Stream \ {o} : given'[x] = given[x]
    BY <2>1, <2>3
  <2>8. Pipes!Grows(o, given, given')
    BY <2>5, <2>6, <2>7 DEF Pipes!Grows
  <2>9. Pipes!Give(o)
    BY <1>2, <2>8 DEF Pipes!Give, given, sent
  <2>10. QED
    BY <2>9 DEF Pipes!Next
<1>5. QED
  BY <1>3, <1>4

(* A relay starts with nothing transmitted. *)
LEMMA DuplexInit == Init => Pipes!Init
<1>. SUFFICES ASSUME Init PROVE Pipes!Init
  OBVIOUS
<1>1. IInv
  BY InitInv
<1>2. queued \in [Stream -> Nat] /\ PieceLen \in Nat
  BY <1>1, PieceLenAssumption DEF IInv, TypeOK
<1>3. given \in [Stream -> Nat]
  BY <1>2, ProductNat DEF given
<1>4. \A s \in Stream : Position(s) = 0
  <2>1. SUFFICES ASSUME NEW s \in Stream PROVE Position(s) = 0
    OBVIOUS
  <2>2. wire[s][1] - 1 = 0 /\ wire[s][2] = 0
    BY DEF Init
  <2>3. 0 * PieceLen = 0
    BY <1>2
  <2>4. QED
    BY <2>2, <2>3 DEF Position
<1>5. sent = [s \in Stream |-> 0]
  BY <1>4 DEF sent
<1>6. QED
  BY <1>3, <1>5 DEF Pipes!Init, Init, given, sent

(* Every step of a relay is a step of a duplex pair of streams, or does    *)
(* not show there.                                                         *)
LEMMA DuplexStep == IInv /\ EndsAgree /\ [Next]_vars => [Pipes!Next]_(Pipes!vars)
<1>. SUFFICES ASSUME IInv, EndsAgree, [Next]_vars PROVE [Pipes!Next]_(Pipes!vars)
  OBVIOUS
<1>. USE PieceLenAssumption
<1>0. TypeOK /\ QuietBeforeStart /\ ReadNeverLost
  BY DEF IInv
<1>1. CASE StartRelay
  <2>1. PICK k \in 0..MaxInitial : queued' = [queued EXCEPT !["dest"] = @ + k]
    BY <1>1 DEF StartRelay
  <2>2. k \in Nat /\ closed' \in BOOLEAN /\ ~closed /\ UNCHANGED <<shut, wire>>
    BY <1>1, BoundsAssumption DEF StartRelay
  <2>3. ~shut["dest"]
    BY <1>0, <1>1 DEF StartRelay, QuietBeforeStart, EndsAgree, Stream, Other
  <2>4. QED
    BY <2>1, <2>2, <2>3, EntriesAreBytes DEF Stream
<1>2. ASSUME NEW s \in Stream, OnRelayData(s)
      PROVE  [Pipes!Next]_(Pipes!vars)
  <2>1. PICK k \in Burst(s) \cup (IF Gss THEN {0} ELSE {}) :
          queued' = [queued EXCEPT ![Other(s)] = @ + k]
    BY <1>2 DEF OnRelayData
  <2>2. k \in Nat
    BY BurstSize
  <2>3. closed' \in BOOLEAN /\ ~closed /\ UNCHANGED <<shut, wire>> /\ reading[s] /\ state = "Relaying"
    BY <1>2 DEF OnRelayData, Handles, TryPostRelayRead
  <2>4. ~shut[Other(s)]
    BY <1>0, <2>3 DEF ReadNeverLost, EndsAgree
  <2>5. QED
    BY <2>1, <2>2, <2>3, <2>4, OtherStream, EntriesAreBytes
<1>3. ASSUME NEW s \in Stream, OnRecvEnd(s)
      PROVE  [Pipes!Next]_(Pipes!vars)
  <2>. DEFINE o == Other(s)
  <2>1. /\ ~closed /\ reading[s] /\ state = "Relaying"
        /\ shut' = [shut EXCEPT ![o] = TRUE]
        /\ closed' = peerClosed[o]
        /\ UNCHANGED <<queued, wire>>
    BY <1>3 DEF OnRecvEnd, Handles
  <2>2. o \in Stream /\ o # s /\ Other(o) = s /\ \A x \in Stream : x = s \/ x = o
    BY OtherStream
  <2>3. ~shut[o] /\ (shut[s] <=> peerClosed[o])
    BY <1>0, <2>1, <2>2 DEF ReadNeverLost, EndsAgree
  <2>4. shut \in [Stream -> BOOLEAN] /\ peerClosed \in [Stream -> BOOLEAN]
    BY <1>0 DEF TypeOK
  <2>. HIDE DEF o
  <2>5. closed' = \A t \in Stream : shut'[t]
    <3>1. shut'[o] = TRUE /\ shut'[s] = shut[s]
      BY <2>1, <2>2, <2>4
    <3>2. (\A t \in Stream : shut'[t]) <=> peerClosed[o]
      BY <2>2, <2>3, <3>1
    <3>3. peerClosed[o] \in BOOLEAN
      BY <2>2, <2>4
    <3>4. QED
      BY <2>1, <3>2, <3>3
  <2>6. given' = given /\ sent' = sent
    BY <2>1 DEF given, sent, Position
  <2>7. Pipes!End(o)
    BY <2>1, <2>3, <2>5, <2>6 DEF Pipes!End, given, sent
  <2>8. QED
    BY <2>2, <2>7 DEF Pipes!Next
<1>4. ASSUME NEW s \in Stream, OnSend(s)
      PROVE  [Pipes!Next]_(Pipes!vars)
  <2>1. /\ ~closed /\ closed' \in BOOLEAN /\ UNCHANGED <<shut, queued>>
        /\ \A x \in Stream \ {s} : wire'[x] = wire[x]
        /\ Position(s)' \in Nat /\ Position(s)' > Position(s)
        /\ Position(s)' <= queued[s] * PieceLen
        /\ shut[s] /\ Position(s)' < queued[s] * PieceLen => closed'
    BY <1>4, SendEffect
  <2>2. given' = given /\ given[s] = queued[s] * PieceLen
    BY <2>1 DEF given
  <2>3. sent' = [x \in Stream |-> Position(x)']
    BY DEF sent
  <2>4. \A x \in Stream : sent'[x] = Position(x)' /\ sent[x] = Position(x)
    BY <2>3 DEF sent
  <2>5. \A x \in Stream \ {s} : sent'[x] = sent[x]
    BY <2>1, <2>4 DEF Position
  <2>6. \A x \in Stream : sent'[x] \in Nat
    <3>1. SUFFICES ASSUME NEW x \in Stream \ {s} PROVE Position(x) \in Nat
      BY <2>1, <2>4, <2>5
    <3>2. wire[x][1] - 1 \in Nat /\ wire[x][2] \in Nat
      BY <1>0, SMTT(30) DEF TypeOK, EndsAgree
    <3>3. (wire[x][1] - 1) * PieceLen \in Nat
      BY <3>2, ProductNat
    <3>4. QED
      BY <3>2, <3>3 DEF Position
  <2>7. sent' \in [Stream -> Nat]
    BY <2>3, <2>4, <2>6
  <2>8. Pipes!Grows(s, sent, sent')
    BY <2>1, <2>4, <2>5, <2>7 DEF Pipes!Grows
  <2>9. Pipes!Transmit(s)
    BY <2>1, <2>2, <2>4, <2>8 DEF Pipes!Transmit, given, sent
  <2>10. QED
    BY <2>9 DEF Pipes!Next
<1>5. CASE ServerStop \/ \E s \in Stream : OnSendError(s)
  <2>1. closed' = TRUE /\ UNCHANGED <<queued, wire, shut>>
    BY <1>5 DEF ServerStop, OnSendError, Close
  <2>2. given' = given /\ sent' = sent
    BY <2>1 DEF given, sent, Position
  <2>3. Pipes!Close
    BY <2>1, <2>2 DEF Pipes!Close, given, sent
  <2>4. QED
    BY <2>3 DEF Pipes!Next
<1>6. CASE UNCHANGED vars \/ \E s \in Stream : DrainRecv(s) \/ DrainSend(s)
  <2>1. UNCHANGED <<queued, wire, shut, closed>>
    BY <1>6 DEF DrainRecv, DrainSend, vars
  <2>2. given' = given /\ sent' = sent
    BY <2>1 DEF given, sent, Position
  <2>3. QED
    BY <2>1, <2>2 DEF Pipes!vars, given, sent
<1>7. QED
  BY <1>1, <1>2, <1>3, <1>4, <1>5, <1>6 DEF Next, Ended

(* The relay implements a duplex pair of byte streams: whatever completes  *)
(* in whatever order, partially or with an error, each stream transmits    *)
(* what it was given, in order and once; a stream that ends leaves the     *)
(* other one going; and what shutdown(SD_SEND) cuts off closes the session *)
(* (OnClientSend, OnDestSend, OnRelayData, Close).                         *)
THEOREM RelayIsDuplex == Spec => IsDuplex
<1>1. Spec => [](IInv /\ EndsAgree)
  <2>1. Init => IInv /\ EndsAgree
    BY InitInv, EndsAgreeInit
  <2>2. (IInv /\ EndsAgree) /\ [Next]_vars => (IInv /\ EndsAgree)'
    BY NextInv, EndsAgreeNext
  <2>3. QED
    BY <2>1, <2>2, PTL DEF Spec
<1>2. QED
  BY <1>1, DuplexInit, DuplexStep, PTL DEF Spec, IsDuplex, Pipes!Spec
=============================================================================
