------------------------- MODULE Socks5SessionProofs -------------------------
(***************************************************************************)
(* Proofs about Socks5Session, for every configuration, any size of the    *)
(* protocol buffer and any number of receives, and whether posting an      *)
(* operation fails or not.                                                 *)
(*                                                                         *)
(* The session is a record and its methods are functions of such records,  *)
(* so the inductive invariant is one of records too, and there is a lemma  *)
(* for every method on what it does to a record.                           *)
(***************************************************************************)
EXTENDS Socks5Session, FiniteSetTheorems, TLAPS

Session ==
  [state : States, closed : BOOLEAN, flushClose : BOOLEAN,
   ingest : 0..MaxBuffered, reading : BOOLEAN, unsent : Nat,
   sending : BOOLEAN, dest : BOOLEAN, connecting : BOOLEAN,
   dns : {"none", "asked", "found", "failed"},
   udp : {"none", "running", "stopped"}, udpStop : BOOLEAN,
   gss : BOOLEAN, timers : SUBSET Timer, idleGen : Nat,
   idleTimer : Nat, refused : BOOLEAN, connGen : Nat, connTimer : Nat,
   recvs : Nat, log : Seq(Message), authed : BOOLEAN]

(* No timer of a kind will fire any more, or what fires is out of date.    *)
IdleQuiet(r) == \A t \in r.timers : t.kind = "idle" => t.posted /\ t.gen < r.idleGen
ConnQuiet(r) == \A t \in r.timers : t.kind = "connect" => t.posted

GenOf(r, t) == IF t.kind = "idle" THEN r.idleGen ELSE r.connGen
IdOf(r, t) == IF t.kind = "idle" THEN r.idleTimer ELSE r.connTimer

(* Timers have generations of their own, up to the current one; one that   *)
(* can still be cancelled is the one whose id is held.                     *)
TimersSane(r) ==
  /\ r.idleTimer \in {0, r.idleGen} /\ r.connTimer \in {0, r.connGen}
  /\ \A t \in r.timers : /\ t.gen > 0 /\ t.gen <= GenOf(r, t)
                         /\ ~t.posted => t.gen = IdOf(r, t)
  /\ \A t, u \in r.timers : t.kind = u.kind /\ t.gen = u.gen => t = u
  /\ r.closed => IdleQuiet(r) /\ ConnQuiet(r)

Sane(r) == r \in Session /\ TimersSane(r)

(* The idle timer of the current generation is younger than the last       *)
(* receive.                                                                *)
Seen(r) == \A t \in r.timers : t.kind = "idle" /\ t.gen = r.idleGen => t.seen = r.recvs

(* A timer runs only in the states that it is for. *)
TimersInState(r) ==
  /\ r.state \notin Proto => IdleQuiet(r)
  /\ r.state # "Connecting" => ConnQuiet(r)

(* The log holds at most one reply, and none before the session has left   *)
(* the states in which it can reply; success was told to whom is served.   *)
Says(l, m) == \E i \in DOMAIN l : l[i] = m
Replied(l) == Says(l, "Succeeded") \/ Says(l, "Failure")
OnceReplied(l) ==
  \A i, j \in DOMAIN l :
    l[i] \in {"Succeeded", "Failure"} /\ l[j] \in {"Succeeded", "Failure"} => i = j

Replies(r) ==
  /\ OnceReplied(r.log)
  /\ Replied(r.log) => r.closed \/ r.state \in {"Relaying", "UdpAssociate", "Closing"}
  /\ ~r.closed => (Says(r.log, "Succeeded") <=> r.state \in {"Relaying", "UdpAssociate"})

AuthInv(r) ==
  HasCredentials /\ r.state \in {"GssapiProtect", "Request", "Resolving", "Connecting",
                                 "Relaying", "UdpAssociate"} => r.authed

(* What keeps an open session going, by its state. *)
Lively(r) ==
  ~r.closed =>
    /\ r.sending <=> r.unsent > 0
    /\ r.flushClose => r.sending
    /\ r.state = "Closing" => r.flushClose
    /\ r.state = "Resolving" => r.dns # "none"
    /\ r.state = "Connecting" => r.connecting
    /\ r.state = "Relaying" => r.reading /\ r.dest
    /\ r.state = "UdpAssociate" => r.reading /\ r.udp # "none"

RInv(r) ==
  /\ Sane(r) /\ Seen(r) /\ TimersInState(r)
  /\ Replies(r) /\ AuthInv(r) /\ Lively(r)

(* The acceptor starts an open session; the read is posted again whenever  *)
(* the lock is given up in a protocol state.                               *)
HandlerInv(r, h) ==
  /\ h \in {"accept", "start", "loop", "none", "crashed"}
  /\ h = "accept" => ~r.closed /\ r.state = "Handshake"
  /\ h = "none" /\ ~r.closed /\ ~r.flushClose /\ r.state \in Proto => r.reading

IInv == RInv(s) /\ HandlerInv(s, handler)

-----------------------------------------------------------------------------
(* What the methods leave alone. *)
SameTimers(r, c) ==
  /\ c.timers = r.timers /\ c.idleGen = r.idleGen /\ c.idleTimer = r.idleTimer
  /\ c.connGen = r.connGen /\ c.connTimer = r.connTimer

Still(r, c) ==
  /\ c.closed = r.closed /\ c.flushClose = r.flushClose /\ c.ingest = r.ingest
  /\ c.reading = r.reading /\ c.dest = r.dest /\ c.connecting = r.connecting
  /\ c.dns = r.dns /\ c.udp = r.udp /\ c.udpStop = r.udpStop /\ c.gss = r.gss

SameQueue(r, c) == c.unsent = r.unsent /\ c.sending = r.sending

SameFlow(r, c) ==
  /\ Still(r, c) /\ SameQueue(r, c) /\ c.state = r.state /\ c.log = r.log
  /\ c.recvs = r.recvs /\ c.authed = r.authed

(* c is a session that can come of r without a receive or a timer being    *)
(* handled: no completion of a timer is lost, and none comes up.           *)
Follows(r, c) ==
  /\ Sane(c) /\ c.recvs = r.recvs /\ c.authed = r.authed
  /\ \A t \in r.timers : t.posted => t \in c.timers
  /\ IdleQuiet(r) => IdleQuiet(c)
  /\ ConnQuiet(r) => ConnQuiet(c)
  /\ Seen(r) => Seen(c)
  /\ r.closed => c.closed

LEMMA FollowsTransitive ==
  ASSUME NEW r, NEW c, NEW d, Follows(r, c), Follows(c, d)
  PROVE  Follows(r, d)
BY DEF Follows

(* The types of the fields. *)
LEMMA SessionFields ==
  ASSUME NEW r \in Session
  PROVE  /\ r.state \in States /\ r.closed \in BOOLEAN /\ r.flushClose \in BOOLEAN
         /\ r.ingest \in 0..MaxBuffered /\ r.reading \in BOOLEAN /\ r.unsent \in Nat
         /\ r.sending \in BOOLEAN /\ r.dest \in BOOLEAN /\ r.connecting \in BOOLEAN
         /\ r.dns \in {"none", "asked", "found", "failed"}
         /\ r.udp \in {"none", "running", "stopped"} /\ r.udpStop \in BOOLEAN
         /\ r.gss \in BOOLEAN /\ r.timers \in SUBSET Timer /\ r.idleGen \in Nat
         /\ r.idleTimer \in Nat /\ r.connGen \in Nat /\ r.connTimer \in Nat
         /\ r.recvs \in Nat /\ r.log \in Seq(Message) /\ r.authed \in BOOLEAN
BY DEF Session

LEMMA TimerFields ==
  ASSUME NEW t \in Timer
  PROVE  /\ t.kind \in {"idle", "connect"} /\ t.gen \in Nat /\ t.posted \in BOOLEAN
         /\ t.seen \in Nat
BY DEF Timer

(* A change that leaves the timers alone, and may close only when no timer *)
(* is left to fire.                                                        *)
LEMMA FlowFollows ==
  ASSUME NEW r, NEW c \in Session, Sane(r), SameTimers(r, c),
         c.recvs = r.recvs, c.authed = r.authed, r.closed => c.closed,
         c.closed => r.closed \/ (IdleQuiet(r) /\ ConnQuiet(r))
  PROVE  Follows(r, c)
<1>1. /\ IdleQuiet(c) <=> IdleQuiet(r)
      /\ ConnQuiet(c) <=> ConnQuiet(r)
      /\ Seen(c) <=> Seen(r)
  BY DEF SameTimers, IdleQuiet, ConnQuiet, Seen
<1>2. TimersSane(c)
  BY <1>1 DEF Sane, TimersSane, SameTimers, GenOf, IdOf
<1>. QED
  BY <1>1, <1>2 DEF Follows, Sane, SameTimers

-----------------------------------------------------------------------------
LEMMA CancelIdleFields ==
  ASSUME NEW r \in Session
  PROVE  LET c == CancelIdleTimer(r) IN
         /\ c \in Session /\ SameFlow(r, c)
         /\ c.idleGen = r.idleGen + 1 /\ c.idleTimer = 0
         /\ c.connGen = r.connGen /\ c.connTimer = r.connTimer
         /\ c.timers = {t \in r.timers : t.kind # "idle" \/ t.gen # r.idleTimer \/ t.posted}
<1>. DEFINE ts == {t \in r.timers : t.kind # "idle" \/ t.gen # r.idleTimer \/ t.posted}
            c == [r EXCEPT !.idleGen = r.idleGen + 1, !.idleTimer = 0, !.timers = ts]
<1>1. CancelIdleTimer(r) = c
  BY DEF CancelIdleTimer, Session
<1>2. ts \in SUBSET Timer /\ r.idleGen + 1 \in Nat
  BY SessionFields
<1>. HIDE DEF ts
<1>3. c \in Session
  BY <1>2 DEF Session
<1>4. /\ c.idleGen = r.idleGen + 1 /\ c.idleTimer = 0 /\ c.timers = ts
      /\ c.connGen = r.connGen /\ c.connTimer = r.connTimer
  BY DEF Session
<1>5. SameFlow(r, c)
  BY DEF Session, SameFlow, Still, SameQueue
<1>. QED
  BY <1>1, <1>3, <1>4, <1>5 DEF ts

LEMMA CancelConnectFields ==
  ASSUME NEW r \in Session
  PROVE  LET c == CancelConnectTimer(r) IN
         /\ c \in Session /\ SameFlow(r, c)
         /\ c.connGen = r.connGen + 1 /\ c.connTimer = 0
         /\ c.idleGen = r.idleGen /\ c.idleTimer = r.idleTimer
         /\ c.timers = {t \in r.timers : t.kind # "connect" \/ t.gen # r.connTimer \/ t.posted}
<1>. DEFINE ts == {t \in r.timers : t.kind # "connect" \/ t.gen # r.connTimer \/ t.posted}
            c == [r EXCEPT !.connGen = r.connGen + 1, !.connTimer = 0, !.timers = ts]
<1>1. CancelConnectTimer(r) = c
  BY DEF CancelConnectTimer, Session
<1>2. ts \in SUBSET Timer /\ r.connGen + 1 \in Nat
  BY SessionFields
<1>. HIDE DEF ts
<1>3. c \in Session
  BY <1>2 DEF Session
<1>4. /\ c.connGen = r.connGen + 1 /\ c.connTimer = 0 /\ c.timers = ts
      /\ c.idleGen = r.idleGen /\ c.idleTimer = r.idleTimer
  BY DEF Session
<1>5. SameFlow(r, c)
  BY DEF Session, SameFlow, Still, SameQueue
<1>. QED
  BY <1>1, <1>3, <1>4, <1>5 DEF ts

(* CancelIdleTimer leaves no idle timer that could fire, whatever was in   *)
(* the port already.                                                       *)
LEMMA CancelIdleEffect ==
  ASSUME NEW r, Sane(r)
  PROVE  LET c == CancelIdleTimer(r) IN
         Follows(r, c) /\ SameFlow(r, c) /\ IdleQuiet(c)
<1>. DEFINE c == CancelIdleTimer(r)
<1>0. r \in Session /\ TimersSane(r)
  BY DEF Sane
<1>1. /\ c \in Session /\ SameFlow(r, c)
      /\ c.idleGen = r.idleGen + 1 /\ c.idleTimer = 0
      /\ c.connGen = r.connGen /\ c.connTimer = r.connTimer
      /\ c.timers = {t \in r.timers : t.kind # "idle" \/ t.gen # r.idleTimer \/ t.posted}
  BY <1>0, CancelIdleFields
<1>. HIDE DEF c
<1>2. /\ r.idleGen \in Nat /\ r.connGen \in Nat
      /\ \A t \in r.timers : t.gen \in Nat /\ t.kind \in {"idle", "connect"}
  BY <1>0, SessionFields, TimerFields
<1>3. \A t \in c.timers : t \in r.timers /\ (t.kind = "idle" => t.posted)
  BY <1>0, <1>1 DEF TimersSane, IdOf
<1>4. IdleQuiet(c)
  BY <1>0, <1>1, <1>2, <1>3 DEF IdleQuiet, TimersSane, GenOf
<1>5. ConnQuiet(r) => ConnQuiet(c)
  BY <1>3 DEF ConnQuiet
<1>6. TimersSane(c)
  <2>1. c.idleTimer \in {0, c.idleGen} /\ c.connTimer \in {0, c.connGen}
    BY <1>0, <1>1 DEF TimersSane
  <2>2. ASSUME NEW t \in c.timers
        PROVE  t.gen > 0 /\ t.gen <= GenOf(c, t) /\ (~t.posted => t.gen = IdOf(c, t))
    BY <1>0, <1>1, <1>2, <1>3 DEF TimersSane, GenOf, IdOf
  <2>3. \A t, u \in c.timers : t.kind = u.kind /\ t.gen = u.gen => t = u
    BY <1>0, <1>3 DEF TimersSane
  <2>4. c.closed => IdleQuiet(c) /\ ConnQuiet(c)
    BY <1>0, <1>1, <1>4, <1>5 DEF TimersSane, SameFlow, Still
  <2>. QED
    BY <2>1, <2>2, <2>3, <2>4 DEF TimersSane
<1>7. Seen(c)
  BY <1>2, <1>3, <1>4 DEF Seen, IdleQuiet
<1>8. \A t \in r.timers : t.posted => t \in c.timers
  BY <1>1
<1>. QED
  BY <1>1, <1>4, <1>5, <1>6, <1>7, <1>8 DEF c, Follows, Sane, SameFlow, Still

LEMMA CancelConnectEffect ==
  ASSUME NEW r, Sane(r)
  PROVE  LET c == CancelConnectTimer(r) IN
         Follows(r, c) /\ SameFlow(r, c) /\ ConnQuiet(c)
<1>. DEFINE c == CancelConnectTimer(r)
<1>0. r \in Session /\ TimersSane(r)
  BY DEF Sane
<1>1. /\ c \in Session /\ SameFlow(r, c)
      /\ c.connGen = r.connGen + 1 /\ c.connTimer = 0
      /\ c.idleGen = r.idleGen /\ c.idleTimer = r.idleTimer
      /\ c.timers = {t \in r.timers : t.kind # "connect" \/ t.gen # r.connTimer \/ t.posted}
  BY <1>0, CancelConnectFields
<1>. HIDE DEF c
<1>2. /\ r.idleGen \in Nat /\ r.connGen \in Nat
      /\ \A t \in r.timers : t.gen \in Nat /\ t.kind \in {"idle", "connect"}
  BY <1>0, SessionFields, TimerFields
<1>3. \A t \in c.timers : t \in r.timers /\ (t.kind = "connect" => t.posted)
  BY <1>0, <1>1 DEF TimersSane, IdOf
<1>4. ConnQuiet(c)
  BY <1>3 DEF ConnQuiet
<1>5. IdleQuiet(r) => IdleQuiet(c)
  BY <1>1, <1>3 DEF IdleQuiet
<1>6. TimersSane(c)
  <2>1. c.idleTimer \in {0, c.idleGen} /\ c.connTimer \in {0, c.connGen}
    BY <1>0, <1>1 DEF TimersSane
  <2>2. ASSUME NEW t \in c.timers
        PROVE  t.gen > 0 /\ t.gen <= GenOf(c, t) /\ (~t.posted => t.gen = IdOf(c, t))
    BY <1>0, <1>1, <1>2, <1>3 DEF TimersSane, GenOf, IdOf
  <2>3. \A t, u \in c.timers : t.kind = u.kind /\ t.gen = u.gen => t = u
    BY <1>0, <1>3 DEF TimersSane
  <2>4. c.closed => IdleQuiet(c) /\ ConnQuiet(c)
    BY <1>0, <1>1, <1>4, <1>5 DEF TimersSane, SameFlow, Still
  <2>. QED
    BY <2>1, <2>2, <2>3, <2>4 DEF TimersSane
<1>7. Seen(r) => Seen(c)
  BY <1>1, <1>3 DEF Seen, SameFlow
<1>8. \A t \in r.timers : t.posted => t \in c.timers
  BY <1>1
<1>. QED
  BY <1>1, <1>4, <1>5, <1>6, <1>7, <1>8 DEF c, Follows, Sane, SameFlow, Still

(* ArmIdleTimer in a protocol state: what was in the port is out of date.  *)
LEMMA ArmIdleEffect ==
  ASSUME NEW r, Sane(r), ~r.closed, NEW ok \in BOOLEAN
  PROVE  LET c == ArmIdleTimer(r, ok) IN
         /\ Sane(c) /\ SameFlow(r, c) /\ Seen(c) /\ (ConnQuiet(r) => ConnQuiet(c))
         /\ \A t \in r.timers : t.posted => t \in c.timers
<1>. DEFINE a == CancelIdleTimer(r)
            c == ArmIdleTimer(r, ok)
            g == a.idleGen + 1
            new == IF ok THEN {NewTimer(r, "idle", g)} ELSE {}
<1>1. Follows(r, a) /\ SameFlow(r, a) /\ IdleQuiet(a)
  BY CancelIdleEffect
<1>2. a \in Session /\ TimersSane(a)
  BY <1>1 DEF Follows, Sane
<1>3. CASE c = a
  <2>1. Seen(a)
    BY <1>1, <1>2, SessionFields, TimerFields DEF Seen, IdleQuiet
  <2>. QED
    BY <1>1, <1>3, <2>1 DEF Follows
<1>4. CASE c = [a EXCEPT !.idleGen = g, !.idleTimer = IF ok THEN g ELSE 0,
                         !.refused = ~ok, !.timers = a.timers \cup new]
  <2>1. a.idleGen \in Nat /\ a.connGen \in Nat /\ g \in Nat /\ a.timers \in SUBSET Timer
        /\ r.recvs \in Nat
    BY <1>2, SessionFields DEF Sane
  <2>2. new \in SUBSET Timer
    BY <2>1 DEF NewTimer, Timer
  <2>3. \A t \in new : t.kind = "idle" /\ t.gen = g /\ t.seen = r.recvs /\ ok
    BY DEF NewTimer
  <2>4. new = {} \/ \E t : new = {t}
    OBVIOUS
  <2>. HIDE DEF new, a, g
  <2>5. a.timers \cup new \in SUBSET Timer /\ (IF ok THEN g ELSE 0) \in Nat
        /\ (~ok) \in BOOLEAN
    BY <2>1, <2>2
  <2>6. c \in Session
    BY <1>2, <1>4, <2>1, <2>5, ZenonT(60) DEF Session
  <2>7. /\ c.idleGen = g /\ c.idleTimer = (IF ok THEN g ELSE 0)
        /\ c.timers = a.timers \cup new
        /\ c.connGen = a.connGen /\ c.connTimer = a.connTimer
    BY <1>2, <1>4 DEF Session
  <2>8. SameFlow(a, c)
    BY <1>2, <1>4 DEF Session, SameFlow, Still, SameQueue
  <2>9. SameFlow(r, c)
    BY <1>1, <2>8 DEF SameFlow, Still, SameQueue
  <2>. HIDE DEF c
  <2>10. \A t \in a.timers : /\ t.gen \in Nat /\ t.gen > 0 /\ t.kind \in {"idle", "connect"}
                             /\ t.kind = "idle" => t.posted /\ t.gen < a.idleGen
                             /\ t.kind = "connect" => t.gen <= a.connGen /\
                                                      (~t.posted => t.gen = a.connTimer)
    BY <1>1, <1>2, <2>1, TimerFields DEF TimersSane, IdleQuiet, GenOf, IdOf
  <2>11. g > a.idleGen /\ g > 0
    BY <2>1 DEF g
  <2>12. c.idleTimer \in {0, c.idleGen} /\ c.connTimer \in {0, c.connGen}
    BY <1>2, <2>7 DEF TimersSane
  <2>13. ASSUME NEW t \in c.timers
         PROVE  t.gen > 0 /\ t.gen <= GenOf(c, t) /\ (~t.posted => t.gen = IdOf(c, t))
    <3>1. CASE t \in a.timers
      BY <2>1, <2>7, <2>10, <2>11, <3>1 DEF GenOf, IdOf
    <3>2. CASE t \in new
      BY <2>1, <2>3, <2>7, <2>11, <3>2 DEF GenOf, IdOf
    <3>. QED
      BY <2>7, <3>1, <3>2
  <2>14. ASSUME NEW t \in c.timers, NEW u \in c.timers, t.kind = u.kind, t.gen = u.gen
         PROVE  t = u
    <3>1. CASE t \in a.timers /\ u \in a.timers
      BY <1>2, <2>14, <3>1 DEF TimersSane
    <3>2. CASE t \in new /\ u \in new
      BY <2>4, <3>2
    <3>3. CASE (t \in a.timers /\ u \in new) \/ (t \in new /\ u \in a.timers)
      BY <2>1, <2>3, <2>10, <2>11, <2>14, <3>3
    <3>. QED
      BY <2>7, <3>1, <3>2, <3>3
  <2>15. ~c.closed
    BY <2>9 DEF SameFlow, Still
  <2>16. TimersSane(c)
    BY <2>12, <2>13, <2>14, <2>15 DEF TimersSane
  <2>17. Seen(c)
    BY <2>1, <2>3, <2>7, <2>9, <2>10, <2>11 DEF Seen, SameFlow
  <2>18. ConnQuiet(r) => ConnQuiet(c)
    BY <1>1, <2>3, <2>7 DEF ConnQuiet, Follows
  <2>19. \A t \in r.timers : t.posted => t \in c.timers
    BY <1>1, <2>7 DEF Follows
  <2>. QED
    BY <2>6, <2>9, <2>16, <2>17, <2>18, <2>19 DEF Sane, c
<1>. QED
  BY <1>3, <1>4 DEF ArmIdleTimer

(* ArmConnectTimer. *)
LEMMA ArmConnectEffect ==
  ASSUME NEW r, Sane(r), ~r.closed, NEW ok \in BOOLEAN
  PROVE  LET c == ArmConnectTimer(r, ok) IN
         /\ Sane(c) /\ SameFlow(r, c) /\ (Seen(r) => Seen(c))
         /\ IdleQuiet(r) => IdleQuiet(c)
         /\ \A t \in r.timers : t.posted => t \in c.timers
<1>. DEFINE a == CancelConnectTimer(r)
            c == ArmConnectTimer(r, ok)
            g == a.connGen + 1
            new == IF ok THEN {NewTimer(r, "connect", g)} ELSE {}
<1>1. Follows(r, a) /\ SameFlow(r, a) /\ ConnQuiet(a)
  BY CancelConnectEffect
<1>2. a \in Session /\ TimersSane(a)
  BY <1>1 DEF Follows, Sane
<1>3. CASE c = a
  BY <1>1, <1>3 DEF Follows
<1>4. CASE c = [a EXCEPT !.connGen = g, !.connTimer = IF ok THEN g ELSE 0,
                         !.timers = a.timers \cup new]
  <2>1. a.idleGen \in Nat /\ a.connGen \in Nat /\ g \in Nat /\ a.timers \in SUBSET Timer
        /\ r.recvs \in Nat
    BY <1>2, SessionFields DEF Sane
  <2>2. new \in SUBSET Timer
    BY <2>1 DEF NewTimer, Timer
  <2>3. \A t \in new : t.kind = "connect" /\ t.gen = g /\ ok
    BY DEF NewTimer
  <2>4. new = {} \/ \E t : new = {t}
    OBVIOUS
  <2>. HIDE DEF new, a, g
  <2>5. a.timers \cup new \in SUBSET Timer /\ (IF ok THEN g ELSE 0) \in Nat
    BY <2>1, <2>2
  <2>6. c \in Session
    BY <1>2, <1>4, <2>1, <2>5, ZenonT(60) DEF Session
  <2>7. /\ c.connGen = g /\ c.connTimer = (IF ok THEN g ELSE 0)
        /\ c.timers = a.timers \cup new
        /\ c.idleGen = a.idleGen /\ c.idleTimer = a.idleTimer
    BY <1>2, <1>4 DEF Session
  <2>8. SameFlow(a, c)
    BY <1>2, <1>4 DEF Session, SameFlow, Still, SameQueue
  <2>9. SameFlow(r, c)
    BY <1>1, <2>8 DEF SameFlow, Still, SameQueue
  <2>. HIDE DEF c
  <2>10. \A t \in a.timers : /\ t.gen \in Nat /\ t.gen > 0 /\ t.kind \in {"idle", "connect"}
                             /\ t.kind = "connect" => t.posted /\ t.gen <= a.connGen
                             /\ t.kind = "idle" => t.gen <= a.idleGen /\
                                                   (~t.posted => t.gen = a.idleTimer)
    BY <1>1, <1>2, <2>1, TimerFields DEF TimersSane, ConnQuiet, GenOf, IdOf
  <2>11. g > a.connGen /\ g > 0
    BY <2>1 DEF g
  <2>12. c.idleTimer \in {0, c.idleGen} /\ c.connTimer \in {0, c.connGen}
    BY <1>2, <2>7 DEF TimersSane
  <2>13. ASSUME NEW t \in c.timers
         PROVE  t.gen > 0 /\ t.gen <= GenOf(c, t) /\ (~t.posted => t.gen = IdOf(c, t))
    <3>1. CASE t \in a.timers
      BY <2>1, <2>7, <2>10, <2>11, <3>1 DEF GenOf, IdOf
    <3>2. CASE t \in new
      BY <2>1, <2>3, <2>7, <2>11, <3>2 DEF GenOf, IdOf
    <3>. QED
      BY <2>7, <3>1, <3>2
  <2>14. ASSUME NEW t \in c.timers, NEW u \in c.timers, t.kind = u.kind, t.gen = u.gen
         PROVE  t = u
    <3>1. CASE t \in a.timers /\ u \in a.timers
      BY <1>2, <2>14, <3>1 DEF TimersSane
    <3>2. CASE t \in new /\ u \in new
      BY <2>4, <3>2
    <3>3. CASE (t \in a.timers /\ u \in new) \/ (t \in new /\ u \in a.timers)
      BY <2>1, <2>3, <2>10, <2>11, <2>14, <3>3
    <3>. QED
      BY <2>7, <3>1, <3>2, <3>3
  <2>15. ~c.closed
    BY <2>9 DEF SameFlow, Still
  <2>16. TimersSane(c)
    BY <2>12, <2>13, <2>14, <2>15 DEF TimersSane
  <2>17. Seen(r) => Seen(c)
    BY <1>1, <2>3, <2>7, <2>8 DEF Seen, SameFlow, Follows
  <2>18. IdleQuiet(r) => IdleQuiet(c)
    BY <1>1, <2>3, <2>7 DEF IdleQuiet, Follows
  <2>19. \A t \in r.timers : t.posted => t \in c.timers
    BY <1>1, <2>7 DEF Follows
  <2>. QED
    BY <2>6, <2>9, <2>16, <2>17, <2>18, <2>19 DEF Sane, c
<1>. QED
  BY <1>3, <1>4 DEF ArmConnectTimer

-----------------------------------------------------------------------------
(* Close leaves nothing that could fire. *)
LEMMA CloseEffect ==
  ASSUME NEW r, Sane(r)
  PROVE  LET c == Close(r) IN
         Follows(r, c) /\ c.closed /\ c.state = r.state /\ c.log = r.log
<1>. DEFINE a == CancelConnectTimer(r)
            b == CancelIdleTimer(a)
            c == [b EXCEPT !.closed = TRUE, !.flushClose = FALSE, !.udp = "none",
                           !.dest = FALSE]
<1>1. CASE r.closed
  <2>1. Close(r) = r
    BY <1>1 DEF Close
  <2>2. Follows(r, r)
    BY DEF Follows
  <2>. QED
    BY <1>1, <2>1, <2>2
<1>2. CASE ~r.closed
  <2>1. Follows(r, a) /\ SameFlow(r, a) /\ ConnQuiet(a)
    BY CancelConnectEffect
  <2>2. Follows(a, b) /\ SameFlow(a, b) /\ IdleQuiet(b)
    BY <2>1, CancelIdleEffect DEF Follows
  <2>3. Close(r) = c
    BY <1>2 DEF Close
  <2>4. Follows(r, b) /\ SameFlow(r, b) /\ IdleQuiet(b) /\ ConnQuiet(b)
    BY <2>1, <2>2, FollowsTransitive DEF Follows, SameFlow, Still, SameQueue
  <2>. HIDE DEF b
  <2>5. b \in Session /\ Sane(b)
    BY <2>4 DEF Follows, Sane
  <2>6. c \in Session /\ SameTimers(b, c)
    BY <2>5 DEF Session, SameTimers
  <2>7. /\ c.closed /\ c.state = b.state /\ c.log = b.log
        /\ c.recvs = b.recvs /\ c.authed = b.authed
    BY <2>5 DEF Session
  <2>. HIDE DEF c
  <2>8. Follows(b, c)
    BY <2>4, <2>5, <2>6, <2>7, FlowFollows
  <2>9. Follows(r, c)
    BY <2>4, <2>8, FollowsTransitive
  <2>. QED
    BY <2>3, <2>4, <2>7, <2>9 DEF SameFlow
<1>. QED
  BY <1>1, <1>2

LEMMA PumpEffect ==
  ASSUME NEW r, Sane(r), NEW ok \in BOOLEAN
  PROVE  LET c == PumpSend(r, ok) IN
         /\ Follows(r, c) /\ c.state = r.state /\ c.log = r.log
         /\ c.closed \/ (/\ Still(r, c) /\ c.unsent = r.unsent
                         /\ c.sending <=> r.sending \/ r.unsent > 0)
<1>. DEFINE c == PumpSend(r, ok)
            d == [r EXCEPT !.sending = TRUE]
<1>1. r \in Session /\ r.unsent \in Nat /\ r.sending \in BOOLEAN
  BY SessionFields DEF Sane
<1>2. CASE c = r /\ (r.closed \/ r.sending \/ r.unsent = 0)
  <2>1. Follows(r, r)
    BY DEF Follows
  <2>. QED
    BY <1>1, <1>2, <2>1 DEF Still
<1>3. CASE c = Close(r)
  BY <1>3, CloseEffect
<1>4. CASE c = d /\ ~r.closed /\ r.unsent # 0
  <2>1. d \in Session
    BY <1>1 DEF Session
  <2>2. /\ SameTimers(r, d) /\ Still(r, d) /\ d.unsent = r.unsent /\ d.sending
        /\ d.state = r.state /\ d.log = r.log /\ d.recvs = r.recvs /\ d.authed = r.authed
    BY <1>1 DEF Session, SameTimers, Still
  <2>. HIDE DEF d
  <2>3. d.closed = r.closed
    BY <2>2 DEF Still
  <2>4. Follows(r, d)
    BY <1>4, <2>1, <2>2, <2>3, FlowFollows
  <2>. QED
    BY <1>1, <1>4, <2>2, <2>4
<1>. QED
  BY <1>2, <1>3, <1>4 DEF PumpSend

LEMMA QueueRawEffect ==
  ASSUME NEW r, Sane(r), NEW m \in Message, NEW ok \in BOOLEAN
  PROVE  LET c == QueueClientSendRaw(r, m, ok) IN
         /\ Follows(r, c) /\ c.state = r.state /\ c.log = Append(r.log, m)
         /\ c.closed \/ (Still(r, c) /\ c.sending /\ c.unsent = r.unsent + 1)
<1>. DEFINE d == [r EXCEPT !.unsent = r.unsent + 1, !.log = Append(r.log, m)]
            c == PumpSend(d, ok)
<1>1. r \in Session /\ r.unsent \in Nat /\ r.log \in Seq(Message)
  BY SessionFields DEF Sane
<1>2. r.unsent + 1 \in Nat /\ Append(r.log, m) \in Seq(Message)
  BY <1>1
<1>3. QueueClientSendRaw(r, m, ok) = c
  BY <1>1 DEF QueueClientSendRaw, Session
<1>4. d \in Session
  BY <1>1, <1>2 DEF Session
<1>5. /\ SameTimers(r, d) /\ Still(r, d) /\ d.unsent = r.unsent + 1
      /\ d.state = r.state /\ d.log = Append(r.log, m)
      /\ d.recvs = r.recvs /\ d.authed = r.authed
  BY <1>1 DEF Session, SameTimers, Still
<1>. HIDE DEF d
<1>6. d.closed = r.closed
  BY <1>5 DEF Still
<1>7. Follows(r, d)
  BY <1>4, <1>5, <1>6, FlowFollows
<1>8. /\ Follows(d, c) /\ c.state = d.state /\ c.log = d.log
      /\ c.closed \/ (/\ Still(d, c) /\ c.unsent = d.unsent
                      /\ c.sending <=> d.sending \/ d.unsent > 0)
  BY <1>7, PumpEffect DEF Follows
<1>. HIDE DEF c
<1>9. Follows(r, c)
  BY <1>7, <1>8, FollowsTransitive
<1>10. c.closed \/ (Still(r, c) /\ c.sending /\ c.unsent = r.unsent + 1)
  <2>1. d.unsent > 0
    BY <1>1, <1>5
  <2>. QED
    BY <1>5, <1>8, <2>1 DEF Still
<1>. QED
  BY <1>3, <1>5, <1>8, <1>9, <1>10

LEMMA ReplyEffect ==
  ASSUME NEW r, Sane(r), NEW m \in Message, NEW ok \in BOOLEAN, NEW wr \in BOOLEAN
  PROVE  LET c == SendSocksReply(r, m, ok, wr) IN
         /\ Follows(r, c) /\ c.state = r.state /\ c.log \in {r.log, Append(r.log, m)}
         /\ c.closed \/ (/\ Still(r, c) /\ c.sending /\ c.unsent = r.unsent + 1
                         /\ c.log = Append(r.log, m))
<1>. DEFINE c == SendSocksReply(r, m, ok, wr)
<1>1. CASE c = Close(r)
  BY <1>1, CloseEffect
<1>2. CASE c = QueueClientSendRaw(r, m, ok)
  BY <1>2, QueueRawEffect
<1>. QED
  BY <1>1, <1>2 DEF SendSocksReply, QueueClientSend

LEMMA FlushEffect ==
  ASSUME NEW r, Sane(r)
  PROVE  LET c == RequestCloseAfterFlush(r) IN
         /\ Follows(r, c) /\ c.state = r.state /\ c.log = r.log
         /\ \/ c.closed
            \/ /\ c.flushClose /\ SameQueue(r, c) /\ ~Flushed(r)
               /\ c.reading = r.reading /\ c.dest = r.dest
               /\ c.connecting = r.connecting /\ c.dns = r.dns /\ c.udp = r.udp
<1>. DEFINE d == [r EXCEPT !.flushClose = TRUE]
            c == RequestCloseAfterFlush(r)
<1>1. r \in Session
  BY DEF Sane
<1>2. d \in Session
  BY <1>1 DEF Session
<1>3. /\ SameTimers(r, d) /\ SameQueue(r, d) /\ d.flushClose
      /\ d.state = r.state /\ d.log = r.log /\ d.closed = r.closed
      /\ d.recvs = r.recvs /\ d.authed = r.authed
      /\ d.reading = r.reading /\ d.dest = r.dest
      /\ d.connecting = r.connecting /\ d.dns = r.dns /\ d.udp = r.udp
  BY <1>1 DEF Session, SameTimers, SameQueue
<1>4. c = IF Flushed(d) THEN Close(d) ELSE d
  BY DEF RequestCloseAfterFlush
<1>. HIDE DEF d
<1>5. Follows(r, d)
  BY <1>2, <1>3, FlowFollows
<1>6. Follows(d, Close(d)) /\ Close(d).closed /\ Close(d).state = d.state
      /\ Close(d).log = d.log
  BY <1>5, CloseEffect DEF Follows
<1>7. CASE Flushed(d)
  BY <1>3, <1>4, <1>5, <1>6, <1>7, FollowsTransitive
<1>8. CASE ~Flushed(d)
  <2>1. ~Flushed(r)
    BY <1>3, <1>8 DEF Flushed, SameQueue
  <2>. QED
    BY <1>3, <1>4, <1>5, <1>8, <2>1
<1>. QED
  BY <1>7, <1>8

LEMMA BeginReadEffect ==
  ASSUME NEW r, Sane(r), NEW ok \in BOOLEAN
  PROVE  LET c == BeginClientRead(r, ok) IN
         /\ Follows(r, c) /\ c.state = r.state /\ c.log = r.log
         /\ \/ c.closed
            \/ /\ c.reading /\ SameQueue(r, c) /\ ~r.closed /\ c.flushClose = r.flushClose
               /\ c.dest = r.dest /\ c.connecting = r.connecting /\ c.dns = r.dns
               /\ c.udp = r.udp
<1>. DEFINE d == [r EXCEPT !.reading = TRUE]
            c == BeginClientRead(r, ok)
<1>1. r \in Session /\ r.closed \in BOOLEAN /\ r.reading \in BOOLEAN
  BY SessionFields DEF Sane
<1>2. CASE c = r /\ (r.closed \/ r.reading)
  <2>1. Follows(r, r)
    BY DEF Follows
  <2>. QED
    BY <1>1, <1>2, <2>1 DEF SameQueue
<1>3. CASE c = Close(r)
  BY <1>3, CloseEffect
<1>4. CASE c = d /\ ~r.closed
  <2>1. d \in Session
    BY <1>1 DEF Session
  <2>2. /\ SameTimers(r, d) /\ SameQueue(r, d) /\ d.reading
        /\ d.state = r.state /\ d.log = r.log /\ d.closed = r.closed
        /\ d.recvs = r.recvs /\ d.authed = r.authed /\ d.flushClose = r.flushClose
        /\ d.dest = r.dest /\ d.connecting = r.connecting /\ d.dns = r.dns
        /\ d.udp = r.udp
    BY <1>1 DEF Session, SameTimers, SameQueue
  <2>. HIDE DEF d
  <2>3. Follows(r, d)
    BY <1>4, <2>1, <2>2, FlowFollows
  <2>. QED
    BY <1>4, <2>2, <2>3
<1>. QED
  BY <1>2, <1>3, <1>4 DEF BeginClientRead

(* FailAndClose of an open session: both timers are cancelled, and the     *)
(* session is closed or will be when the reply has been sent.              *)
LEMMA FailEffect ==
  ASSUME NEW r, Sane(r), ~r.closed, r.state # "Closing",
         NEW ok \in BOOLEAN, NEW wr \in BOOLEAN
  PROVE  LET c == FailAndClose(r, ok, wr) IN
         /\ Follows(r, c) /\ IdleQuiet(c) /\ ConnQuiet(c) /\ c.state = "Closing"
         /\ c.log \in {r.log, Append(r.log, "Failure")}
         /\ c.closed \/ (c.flushClose /\ c.sending /\ c.unsent > 0)
<1>. DEFINE a == CancelConnectTimer(r)
            b == CancelIdleTimer(a)
            d == [b EXCEPT !.state = "Closing", !.dest = FALSE]
            e == SendSocksReply(d, "Failure", ok, wr)
            c == RequestCloseAfterFlush(e)
<1>1. FailAndClose(r, ok, wr) = c
  BY DEF FailAndClose
<1>2. Follows(r, a) /\ SameFlow(r, a) /\ ConnQuiet(a)
  BY CancelConnectEffect
<1>3. Follows(a, b) /\ SameFlow(a, b) /\ IdleQuiet(b)
  BY <1>2, CancelIdleEffect DEF Follows
<1>4. Follows(r, b) /\ SameFlow(r, b) /\ IdleQuiet(b) /\ ConnQuiet(b)
  BY <1>2, <1>3, FollowsTransitive DEF Follows, SameFlow, Still, SameQueue
<1>. HIDE DEF b
<1>5. b \in Session /\ Sane(b)
  BY <1>4 DEF Follows, Sane
<1>6. d \in Session
  BY <1>5 DEF Session, States, Proto
<1>7. /\ SameTimers(b, d) /\ SameQueue(b, d) /\ d.state = "Closing"
      /\ d.log = b.log /\ d.closed = b.closed
      /\ d.recvs = b.recvs /\ d.authed = b.authed
  BY <1>5 DEF Session, SameTimers, SameQueue
<1>. HIDE DEF d
<1>8. Follows(b, d)
  BY <1>5, <1>6, <1>7, FlowFollows
<1>9. Follows(r, d) /\ IdleQuiet(d) /\ ConnQuiet(d) /\ d.log = r.log /\ d.unsent \in Nat
  BY <1>4, <1>6, <1>7, <1>8, FollowsTransitive, SessionFields DEF Follows, SameFlow
<1>10. /\ Follows(d, e) /\ e.state = d.state /\ e.log \in {d.log, Append(d.log, "Failure")}
       /\ e.closed \/ (e.sending /\ e.unsent = d.unsent + 1)
  <2>1. Sane(d) /\ "Failure" \in Message
    BY <1>9 DEF Follows, Message
  <2>. QED
    BY <2>1, ReplyEffect
<1>. HIDE DEF e
<1>11. /\ Follows(e, c) /\ c.state = e.state /\ c.log = e.log
       /\ c.closed \/ (c.flushClose /\ SameQueue(e, c))
  BY <1>10, FlushEffect DEF Follows
<1>. HIDE DEF c
<1>12. Follows(r, c) /\ IdleQuiet(c) /\ ConnQuiet(c)
  BY <1>9, <1>10, <1>11, FollowsTransitive DEF Follows
<1>13. c.closed \/ (c.flushClose /\ c.sending /\ c.unsent > 0)
  BY <1>9, <1>10, <1>11 DEF SameQueue, Follows
<1>. QED
  BY <1>1, <1>7, <1>9, <1>10, <1>11, <1>12, <1>13

(* StartRelay takes the session over, or closes it. *)
LEMMA RelayEffect ==
  ASSUME NEW r, Sane(r), NEW started \in BOOLEAN
  PROVE  LET c == StartRelay(r, started) IN
         /\ Follows(r, c) /\ IdleQuiet(c) /\ c.state = "Relaying" /\ c.log = r.log
         /\ \/ c.closed
            \/ /\ c.reading /\ c.dest /\ SameQueue(r, c) /\ ~r.closed
               /\ c.flushClose = r.flushClose
<1>. DEFINE a == CancelIdleTimer(r)
            b == [a EXCEPT !.state = "Relaying", !.ingest = 0]
            d == [b EXCEPT !.reading = TRUE]
            c == StartRelay(r, started)
<1>1. Follows(r, a) /\ SameFlow(r, a) /\ IdleQuiet(a)
  BY CancelIdleEffect
<1>2. a \in Session /\ Sane(a)
  BY <1>1 DEF Follows, Sane
<1>3. c = IF started /\ b.dest THEN d ELSE Close(b)
  BY DEF StartRelay
<1>. HIDE DEF a
<1>4. b \in Session
  <2>1. "Relaying" \in States /\ 0 \in 0..MaxBuffered
    BY BoundsAssumption DEF States
  <2>. QED
    BY <1>2, <2>1 DEF Session
<1>5. /\ SameTimers(a, b) /\ SameQueue(a, b) /\ b.state = "Relaying" /\ b.log = a.log
      /\ b.closed = a.closed /\ b.recvs = a.recvs /\ b.authed = a.authed
      /\ b.flushClose = a.flushClose
  BY <1>2 DEF Session, SameTimers, SameQueue
<1>. HIDE DEF b
<1>6. Follows(a, b)
  BY <1>2, <1>4, <1>5, FlowFollows
<1>7. Follows(r, b) /\ IdleQuiet(b) /\ b.log = r.log /\ SameQueue(r, b)
      /\ b.closed = r.closed /\ b.flushClose = r.flushClose
  BY <1>1, <1>5, <1>6, FollowsTransitive DEF Follows, SameFlow, SameQueue, Still
<1>8. CASE c = Close(b)
  <2>1. Follows(b, c) /\ c.closed /\ c.state = b.state /\ c.log = b.log
    BY <1>7, <1>8, CloseEffect DEF Follows
  <2>. QED
    BY <1>5, <1>7, <2>1, FollowsTransitive DEF Follows
<1>9. CASE c = d /\ b.dest
  <2>1. d \in Session
    BY <1>4 DEF Session
  <2>2. /\ SameTimers(b, d) /\ SameQueue(b, d) /\ d.reading
        /\ d.state = b.state /\ d.log = b.log /\ d.closed = b.closed
        /\ d.recvs = b.recvs /\ d.authed = b.authed /\ d.flushClose = b.flushClose
        /\ d.dest = b.dest
    BY <1>4 DEF Session, SameTimers, SameQueue
  <2>. HIDE DEF d
  <2>3. Follows(b, d)
    BY <1>7, <2>1, <2>2, FlowFollows DEF Follows
  <2>4. Follows(r, d) /\ IdleQuiet(d)
    BY <1>7, <2>3, FollowsTransitive DEF Follows
  <2>5. d.closed \in BOOLEAN
    BY <2>1, SessionFields
  <2>. QED
    BY <1>5, <1>7, <1>9, <2>2, <2>4, <2>5 DEF SameQueue
<1>. QED
  BY <1>3, <1>8, <1>9

-----------------------------------------------------------------------------
(* What the log says after one more message. *)
LEMMA LogAppend ==
  ASSUME NEW l \in Seq(Message), NEW m \in Message
  PROVE  /\ \A x : Says(Append(l, m), x) <=> Says(l, x) \/ x = m
         /\ OnceReplied(l) /\ m \notin {"Succeeded", "Failure"} => OnceReplied(Append(l, m))
         /\ ~Replied(l) => OnceReplied(l) /\ OnceReplied(Append(l, m))
<1>. DEFINE a == Append(l, m)
<1>1. /\ DOMAIN a = 1..(Len(l) + 1) /\ a[Len(l) + 1] = m
      /\ \A i \in 1..Len(l) : a[i] = l[i]
      /\ DOMAIN l = 1..Len(l) /\ Len(l) \in Nat
  OBVIOUS
<1>. HIDE DEF a
<1>2. \A i \in DOMAIN a : i = Len(l) + 1 \/ i \in DOMAIN l
  BY <1>1
<1>3. \A x : Says(a, x) <=> Says(l, x) \/ x = m
  BY <1>1, <1>2 DEF Says
<1>4. ASSUME OnceReplied(l), m \notin {"Succeeded", "Failure"} PROVE OnceReplied(a)
  BY <1>1, <1>2, <1>4 DEF OnceReplied
<1>5. ASSUME ~Replied(l) PROVE OnceReplied(l) /\ OnceReplied(a)
  BY <1>1, <1>2, <1>5 DEF OnceReplied, Replied, Says
<1>. QED
  BY <1>3, <1>4, <1>5 DEF a

(* The invariant of a closed session. *)
LEMMA ClosedInv ==
  ASSUME NEW c, Sane(c), Seen(c), c.closed, OnceReplied(c.log), AuthInv(c)
  PROVE  RInv(c)
BY DEF RInv, Sane, TimersSane, TimersInState, Replies, Lively

LEMMA CloseInv ==
  ASSUME NEW r, Sane(r), Seen(r), OnceReplied(r.log), AuthInv(r)
  PROVE  RInv(Close(r)) /\ Follows(r, Close(r))
<1>1. Follows(r, Close(r)) /\ Close(r).closed /\ Close(r).state = r.state
      /\ Close(r).log = r.log
  BY CloseEffect
<1>. QED
  BY <1>1, ClosedInv DEF Follows, AuthInv

(* A reply of failure, from any state in which none was sent. *)
LEMMA FailInv ==
  ASSUME NEW r, Sane(r), Seen(r), ~r.closed, ~Replied(r.log), r.state # "Closing",
         NEW ok \in BOOLEAN, NEW wr \in BOOLEAN
  PROVE  RInv(FailAndClose(r, ok, wr)) /\ Follows(r, FailAndClose(r, ok, wr))
<1>. DEFINE c == FailAndClose(r, ok, wr)
<1>1. /\ Follows(r, c) /\ IdleQuiet(c) /\ ConnQuiet(c) /\ c.state = "Closing"
      /\ c.log \in {r.log, Append(r.log, "Failure")}
      /\ c.closed \/ (c.flushClose /\ c.sending /\ c.unsent > 0)
  BY FailEffect
<1>. HIDE DEF c
<1>2. r.log \in Seq(Message) /\ "Failure" \in Message
  BY SessionFields DEF Sane, Message
<1>3. OnceReplied(c.log) /\ ~Says(c.log, "Succeeded")
  <2>1. OnceReplied(r.log) /\ OnceReplied(Append(r.log, "Failure"))
    BY <1>2, LogAppend
  <2>2. ~Says(r.log, "Succeeded") /\ ~Says(Append(r.log, "Failure"), "Succeeded")
    BY <1>2, LogAppend DEF Replied
  <2>. QED
    BY <1>1, <2>1, <2>2
<1>4. Replies(c)
  BY <1>1, <1>3 DEF Replies
<1>5. AuthInv(c) /\ Lively(c) /\ TimersInState(c)
  BY <1>1 DEF AuthInv, Lively, TimersInState
<1>. QED
  BY <1>1, <1>4, <1>5 DEF RInv, Follows, c

LEMMA FlushInv ==
  ASSUME NEW r, RInv(r)
  PROVE  LET c == RequestCloseAfterFlush(r) IN
         RInv(c) /\ Follows(r, c) /\ (c.closed \/ c.flushClose)
<1>. DEFINE c == RequestCloseAfterFlush(r)
<1>1. /\ Sane(r) /\ Seen(r) /\ TimersInState(r) /\ Replies(r) /\ AuthInv(r) /\ Lively(r)
      /\ r.unsent \in Nat
  BY SessionFields DEF RInv, Sane
<1>2. /\ Follows(r, c) /\ c.state = r.state /\ c.log = r.log
      /\ \/ c.closed
         \/ /\ c.flushClose /\ SameQueue(r, c) /\ ~Flushed(r)
            /\ c.reading = r.reading /\ c.dest = r.dest
            /\ c.connecting = r.connecting /\ c.dns = r.dns /\ c.udp = r.udp
  BY <1>1, FlushEffect
<1>. HIDE DEF c
<1>3. AuthInv(c) /\ TimersInState(c)
  BY <1>1, <1>2 DEF AuthInv, TimersInState, Follows
<1>4. Replies(c) /\ OnceReplied(c.log)
  BY <1>1, <1>2 DEF Replies, Follows
<1>5. Lively(c)
  BY <1>1, <1>2 DEF Lively, Flushed, SameQueue, Follows
<1>. QED
  BY <1>1, <1>2, <1>3, <1>4, <1>5 DEF RInv, Follows, c

(* A change to an open or closed session that leaves its timers, its log   *)
(* and its state alone, or goes from one protocol state to another.        *)
LEMMA ChangeInv ==
  ASSUME NEW r, RInv(r), NEW c \in Session, SameTimers(r, c), c.recvs = r.recvs,
         c.log = r.log, c.closed = r.closed,
         c.state = r.state \/ (c.state \in Proto /\ r.state \in Proto),
         AuthInv(c), Lively(c)
  PROVE  RInv(c) /\ \A t \in r.timers : t \in c.timers
<1>1. Sane(r) /\ Seen(r) /\ TimersInState(r) /\ Replies(r)
  BY DEF RInv
<1>2. /\ IdleQuiet(c) <=> IdleQuiet(r)
      /\ ConnQuiet(c) <=> ConnQuiet(r)
      /\ Seen(c) <=> Seen(r)
  BY DEF SameTimers, IdleQuiet, ConnQuiet, Seen
<1>3. TimersSane(c)
  BY <1>1, <1>2 DEF Sane, TimersSane, SameTimers, GenOf, IdOf
<1>4. TimersInState(c)
  BY <1>1, <1>2 DEF TimersInState, Proto
<1>5. Replies(c)
  BY <1>1 DEF Replies, Proto
<1>. QED
  BY <1>1, <1>2, <1>3, <1>4, <1>5 DEF RInv, Sane, SameTimers

(* A control message that is not a reply. *)
LEMMA QueueInv ==
  ASSUME NEW r, RInv(r), NEW m \in Message, m \notin {"Succeeded", "Failure"},
         NEW ok \in BOOLEAN
  PROVE  LET c == QueueClientSendRaw(r, m, ok) IN
         /\ RInv(c) /\ Follows(r, c) /\ c.state = r.state
<1>. DEFINE c == QueueClientSendRaw(r, m, ok)
<1>1. /\ Sane(r) /\ Seen(r) /\ TimersInState(r) /\ Replies(r) /\ AuthInv(r) /\ Lively(r)
      /\ r.unsent \in Nat /\ r.log \in Seq(Message)
  BY SessionFields DEF RInv, Sane
<1>2. /\ Follows(r, c) /\ c.state = r.state /\ c.log = Append(r.log, m)
      /\ c.closed \/ (Still(r, c) /\ c.sending /\ c.unsent = r.unsent + 1)
  BY <1>1, QueueRawEffect
<1>. HIDE DEF c
<1>3. AuthInv(c) /\ TimersInState(c)
  BY <1>1, <1>2 DEF AuthInv, TimersInState, Follows
<1>4. /\ OnceReplied(c.log) /\ (Replied(c.log) <=> Replied(r.log))
      /\ Says(c.log, "Succeeded") <=> Says(r.log, "Succeeded")
  BY <1>1, <1>2, LogAppend DEF Replies, Replied
<1>5. Replies(c)
  BY <1>1, <1>2, <1>4 DEF Replies, Follows
<1>6. Lively(c)
  BY <1>1, <1>2 DEF Lively, Still
<1>. QED
  BY <1>1, <1>2, <1>3, <1>5, <1>6 DEF RInv, Follows, c

LEMMA BeginReadInv ==
  ASSUME NEW r, RInv(r), NEW ok \in BOOLEAN
  PROVE  LET c == BeginClientRead(r, ok) IN
         RInv(c) /\ Follows(r, c) /\ (c.closed \/ c.reading)
<1>. DEFINE c == BeginClientRead(r, ok)
<1>1. Sane(r) /\ Seen(r) /\ TimersInState(r) /\ Replies(r) /\ AuthInv(r) /\ Lively(r)
  BY DEF RInv
<1>2. /\ Follows(r, c) /\ c.state = r.state /\ c.log = r.log
      /\ \/ c.closed
         \/ /\ c.reading /\ SameQueue(r, c) /\ ~r.closed /\ c.flushClose = r.flushClose
            /\ c.dest = r.dest /\ c.connecting = r.connecting /\ c.dns = r.dns
            /\ c.udp = r.udp
  BY <1>1, BeginReadEffect
<1>. HIDE DEF c
<1>3. AuthInv(c) /\ TimersInState(c) /\ Replies(c)
  BY <1>1, <1>2 DEF AuthInv, TimersInState, Replies, Follows
<1>4. Lively(c)
  BY <1>1, <1>2 DEF Lively, SameQueue
<1>. QED
  BY <1>1, <1>2, <1>3, <1>4 DEF RInv, Follows, c

-----------------------------------------------------------------------------
(* No completion of a timer is lost. *)
Keeps(r, c) == \A t \in r.timers : t.posted => t \in c.timers

(* ConnectToHost, from the request or after the name was resolved. *)
LEMMA ConnectInv ==
  ASSUME NEW r, Sane(r), Seen(r), ~r.closed, ~Replied(r.log), ConnQuiet(r),
         r.state \in {"Request", "Resolving"}, HasCredentials => r.authed,
         r.sending <=> r.unsent > 0, r.flushClose => r.sending,
         NEW how \in ConnectOutcomes, NEW ok \in BOOLEAN, NEW wr \in BOOLEAN
  PROVE  RInv(ConnectToHost(r, how, ok, wr)) /\ Keeps(r, ConnectToHost(r, how, ok, wr))
<1>. DEFINE a == CancelIdleTimer(r)
            c == [a EXCEPT !.state = "Connecting"]
            d == [c EXCEPT !.dest = TRUE, !.connecting = TRUE]
            p == ArmConnectTimer(d, how # "timer")
            x == ConnectToHost(r, how, ok, wr)
<1>1. Follows(r, a) /\ SameFlow(r, a) /\ IdleQuiet(a)
  BY CancelIdleEffect
<1>2. a \in Session /\ Sane(a)
  BY <1>1 DEF Follows, Sane
<1>3. \/ x = FailAndClose(r, ok, wr) \/ x = FailAndClose(c, ok, wr)
      \/ x = FailAndClose(p, ok, wr) \/ x = p
  BY DEF ConnectToHost
<1>. HIDE DEF a
<1>4. "Connecting" \in States
  BY DEF States
<1>5. c \in Session
  BY <1>2, <1>4 DEF Session
<1>6. /\ SameTimers(a, c) /\ SameQueue(a, c) /\ c.state = "Connecting" /\ c.log = a.log
      /\ c.closed = a.closed /\ c.recvs = a.recvs /\ c.authed = a.authed
      /\ c.flushClose = a.flushClose
  BY <1>2 DEF Session, SameTimers, SameQueue
<1>. HIDE DEF c
<1>7. d \in Session
  BY <1>5 DEF Session
<1>8. /\ SameTimers(c, d) /\ SameQueue(c, d) /\ d.state = c.state /\ d.log = c.log
      /\ d.closed = c.closed /\ d.recvs = c.recvs /\ d.authed = c.authed
      /\ d.flushClose = c.flushClose /\ d.connecting
  BY <1>5 DEF Session, SameTimers, SameQueue
<1>. HIDE DEF d
<1>9. Follows(a, c)
  BY <1>2, <1>5, <1>6, FlowFollows
<1>10. Follows(r, c) /\ IdleQuiet(c) /\ Sane(c) /\ ~c.closed /\ c.log = r.log /\ Seen(c)
  BY <1>1, <1>6, <1>9, FollowsTransitive DEF Follows, SameFlow, Still
<1>11. Follows(c, d)
  BY <1>7, <1>8, <1>10, FlowFollows
<1>12. Follows(r, d) /\ IdleQuiet(d) /\ Sane(d) /\ ~d.closed /\ d.log = r.log /\ Seen(d)
       /\ d.state = "Connecting" /\ d.authed = r.authed /\ SameQueue(r, d)
       /\ d.flushClose = r.flushClose
  BY <1>1, <1>6, <1>8, <1>10, <1>11, FollowsTransitive
     DEF Follows, SameFlow, Still, SameQueue
<1>13. /\ Sane(p) /\ SameFlow(d, p) /\ Seen(p) /\ IdleQuiet(p)
       /\ \A t \in d.timers : t.posted => t \in p.timers
  BY <1>12, ArmConnectEffect
<1>. HIDE DEF p
<1>14. /\ ~p.closed /\ p.log = r.log /\ p.state = "Connecting" /\ p.authed = r.authed
       /\ SameQueue(r, p) /\ p.flushClose = r.flushClose /\ p.connecting
  BY <1>8, <1>12, <1>13 DEF SameFlow, Still, SameQueue
<1>15. Keeps(r, p)
  BY <1>12, <1>13 DEF Follows, Keeps
<1>16. RInv(p)
  <2>1. r.log \in Seq(Message)
    BY SessionFields DEF Sane
  <2>2. OnceReplied(p.log) /\ ~Replied(p.log) /\ ~Says(p.log, "Succeeded")
    BY <1>14, <2>1 DEF Replied, OnceReplied, Says
  <2>3. Replies(p)
    BY <1>14, <2>2 DEF Replies
  <2>4. AuthInv(p) /\ Lively(p) /\ TimersInState(p)
    BY <1>13, <1>14 DEF AuthInv, Lively, TimersInState, SameQueue
  <2>. QED
    BY <1>13, <2>3, <2>4 DEF RInv
<1>17. CASE x = FailAndClose(r, ok, wr)
  <2>1. RInv(FailAndClose(r, ok, wr)) /\ Follows(r, FailAndClose(r, ok, wr))
    BY FailInv
  <2>. QED
    BY <1>17, <2>1 DEF Follows, Keeps
<1>18. CASE x = FailAndClose(c, ok, wr)
  <2>1. RInv(FailAndClose(c, ok, wr)) /\ Follows(c, FailAndClose(c, ok, wr))
    BY <1>6, <1>10, FailInv
  <2>. QED
    BY <1>10, <1>18, <2>1 DEF Follows, Keeps
<1>19. CASE x = FailAndClose(p, ok, wr)
  <2>1. RInv(FailAndClose(p, ok, wr)) /\ Follows(p, FailAndClose(p, ok, wr))
    BY <1>13, <1>14, FailInv
  <2>. QED
    BY <1>15, <1>19, <2>1 DEF Follows, Keeps
<1>. QED
  BY <1>3, <1>15, <1>16, <1>17, <1>18, <1>19

(* UDP ASSOCIATE. *)
LEMMA UdpInv ==
  ASSUME NEW r, RInv(r), ~r.closed, r.state = "Request",
         NEW up \in BOOLEAN, NEW ok \in BOOLEAN, NEW wr \in BOOLEAN
  PROVE  RInv(UdpAssociate(r, up, ok, wr)) /\ Keeps(r, UdpAssociate(r, up, ok, wr))
<1>. DEFINE a == [r EXCEPT !.udp = IF up THEN "running" ELSE "stopped"]
            b == CancelIdleTimer(a)
            c == SendSocksReply(b, "Succeeded", ok, wr)
            d == [c EXCEPT !.state = "UdpAssociate"]
            e == BeginClientRead(d, ok)
            x == UdpAssociate(r, up, ok, wr)
<1>1. /\ Sane(r) /\ Seen(r) /\ TimersInState(r) /\ Replies(r) /\ AuthInv(r) /\ Lively(r)
      /\ r \in Session /\ r.log \in Seq(Message) /\ r.unsent \in Nat
      /\ ConnQuiet(r) /\ ~Replied(r.log)
  BY SessionFields DEF RInv, Sane, TimersInState, Replies
<1>2. x = IF ~up THEN FailAndClose(a, ok, wr) ELSE e
  BY DEF UdpAssociate
<1>3. a \in Session
  BY <1>1 DEF Session
<1>4. /\ SameTimers(r, a) /\ SameQueue(r, a) /\ a.state = r.state /\ a.log = r.log
      /\ a.closed = r.closed /\ a.recvs = r.recvs /\ a.authed = r.authed
      /\ a.flushClose = r.flushClose /\ a.udp # "none"
  BY <1>1 DEF Session, SameTimers, SameQueue
<1>. HIDE DEF a
<1>5. Follows(r, a) /\ Sane(a) /\ Seen(a) /\ ConnQuiet(a)
  BY <1>1, <1>3, <1>4, FlowFollows DEF Follows
<1>6. CASE ~up
  <2>1. RInv(FailAndClose(a, ok, wr)) /\ Follows(a, FailAndClose(a, ok, wr))
    BY <1>1, <1>4, <1>5, FailInv
  <2>. QED
    BY <1>2, <1>5, <1>6, <2>1 DEF Follows, Keeps
<1>7. CASE up
  <2>1. Follows(a, b) /\ SameFlow(a, b) /\ IdleQuiet(b) /\ Sane(b)
    BY <1>5, CancelIdleEffect DEF Follows
  <2>. HIDE DEF b
  <2>2. Follows(r, b) /\ ConnQuiet(b) /\ Seen(b)
    BY <1>1, <1>5, <2>1, FollowsTransitive DEF Follows
  <2>3. /\ b.log = r.log /\ SameQueue(r, b) /\ b.flushClose = r.flushClose
        /\ b.udp # "none"
    BY <1>4, <2>1 DEF SameFlow, Still, SameQueue
  <2>4. "Succeeded" \in Message
    BY DEF Message
  <2>5. /\ Follows(b, c) /\ c.state = b.state /\ c.log \in {b.log, Append(b.log, "Succeeded")}
        /\ c.closed \/ (/\ Still(b, c) /\ c.sending /\ c.unsent = b.unsent + 1
                        /\ c.log = Append(b.log, "Succeeded"))
    BY <2>1, <2>4, ReplyEffect
  <2>. HIDE DEF c
  <2>6. Follows(r, c) /\ IdleQuiet(c) /\ ConnQuiet(c) /\ Seen(c) /\ c \in Session
    BY <2>1, <2>2, <2>5, FollowsTransitive DEF Follows, Sane
  <2>7. d \in Session
    <3>1. "UdpAssociate" \in States
      BY DEF States
    <3>. QED
      BY <2>6, <3>1 DEF Session
  <2>8. /\ SameTimers(c, d) /\ SameQueue(c, d) /\ d.state = "UdpAssociate" /\ d.log = c.log
        /\ d.closed = c.closed /\ d.recvs = c.recvs /\ d.authed = c.authed
        /\ d.flushClose = c.flushClose /\ d.udp = c.udp
    BY <2>6 DEF Session, SameTimers, SameQueue
  <2>. HIDE DEF d
  <2>9. Follows(c, d)
    BY <2>6, <2>7, <2>8, FlowFollows DEF Follows
  <2>10. Sane(d)
    BY <2>9 DEF Follows
  <2>11. /\ Follows(d, e) /\ e.state = d.state /\ e.log = d.log
         /\ \/ e.closed
            \/ /\ e.reading /\ SameQueue(d, e) /\ ~d.closed /\ e.flushClose = d.flushClose
               /\ e.udp = d.udp
    BY <2>10, BeginReadEffect
  <2>. HIDE DEF e
  <2>12. Follows(r, e) /\ IdleQuiet(e) /\ ConnQuiet(e) /\ Seen(e)
    BY <2>6, <2>9, <2>11, FollowsTransitive DEF Follows
  <2>13. OnceReplied(e.log)
    <3>1. OnceReplied(r.log) /\ OnceReplied(Append(r.log, "Succeeded"))
      BY <1>1, <2>4, LogAppend
    <3>. QED
      BY <2>3, <2>5, <2>8, <2>11, <3>1
  <2>14. ~e.closed => e.log = Append(r.log, "Succeeded")
    BY <2>3, <2>5, <2>8, <2>11
  <2>15. ~e.closed => Says(e.log, "Succeeded")
    <3>1. Says(Append(r.log, "Succeeded"), "Succeeded")
      BY <1>1, <2>4, LogAppend
    <3>. QED
      BY <2>14, <3>1
  <2>16. Replies(e)
    BY <2>8, <2>11, <2>13, <2>15 DEF Replies
  <2>17. AuthInv(e)
    BY <1>1, <2>12 DEF AuthInv, Follows
  <2>18. ~e.closed => e.sending /\ e.unsent > 0 /\ e.reading /\ e.udp # "none"
    BY <1>1, <2>3, <2>5, <2>8, <2>11 DEF SameQueue, Still
  <2>19. Lively(e) /\ TimersInState(e)
    BY <2>8, <2>11, <2>12, <2>18 DEF Lively, TimersInState
  <2>20. RInv(e) /\ Keeps(r, e)
    BY <2>12, <2>16, <2>17, <2>19 DEF RInv, Follows, Keeps
  <2>. QED
    BY <1>2, <1>7, <2>20
<1>. QED
  BY <1>6, <1>7

-----------------------------------------------------------------------------
(* A good step. *)
Good == RInv(s') /\ HandlerInv(s', handler') /\ Keeps(s, s')

LEMMA PostsAreBoolean == \A ok \in PostOutcomes : ok \in BOOLEAN
BY ConfigAssumption

(* A step that closes the session. *)
LEMMA CloseGood ==
  ASSUME NEW r, Sane(r), Seen(r), OnceReplied(r.log), AuthInv(r), Keeps(s, r),
         s' = Close(r), handler' \in {"start", "loop", "none", "crashed"}
  PROVE  Good
<1>1. RInv(s') /\ Follows(r, s') /\ s'.closed
  BY CloseInv, CloseEffect
<1>. QED
  BY <1>1 DEF Good, HandlerInv, Follows, Keeps

LEMMA RejectGood ==
  ASSUME NEW r, RInv(r), Keeps(s, r), Reject(r)
  PROVE  Good
<1>1. s' = RequestCloseAfterFlush(r) /\ handler' = "none"
  BY DEF Reject
<1>2. RInv(s') /\ Follows(r, s') /\ (s'.closed \/ s'.flushClose)
  BY <1>1, FlushInv
<1>. QED
  BY <1>1, <1>2 DEF Good, HandlerInv, Follows, Keeps

LEMMA ContinueGood ==
  ASSUME NEW r, RInv(r), Keeps(s, r), Continue(r), handler = "loop"
  PROVE  Good
BY DEF Good, HandlerInv, Continue

(* Going from one protocol state to another. *)
LEMMA ProtoInv ==
  ASSUME NEW r, RInv(r), r.state \in Proto, NEW c \in Session, c.state \in Proto,
         AuthInv(c), SameTimers(r, c), SameQueue(r, c), c.log = r.log,
         c.recvs = r.recvs, c.closed = r.closed, c.flushClose = r.flushClose
  PROVE  RInv(c) /\ Keeps(r, c)
<1>1. Lively(c)
  BY DEF RInv, Lively, SameQueue, Proto
<1>. QED
  BY <1>1, ChangeInv DEF Keeps

(* A message is taken from the buffer. *)
LEMMA TakenInv ==
  ASSUME IInv, s.ingest > 0, s.state \in Proto
  PROVE  /\ RInv(Taken) /\ Keeps(s, Taken)
         /\ Taken.state = s.state /\ Taken.closed = s.closed
<1>1. s \in Session /\ s.ingest \in 0..MaxBuffered /\ AuthInv(s) /\ RInv(s)
  BY SessionFields DEF IInv, RInv, Sane
<1>2. s.ingest - 1 \in 0..MaxBuffered
  BY <1>1, BoundsAssumption
<1>. DEFINE c == [s EXCEPT !.ingest = s.ingest - 1]
<1>3. Taken = c
  BY <1>1 DEF Taken, Session
<1>4. c \in Session
  BY <1>1, <1>2 DEF Session
<1>5. /\ SameTimers(s, c) /\ SameQueue(s, c) /\ c.state = s.state /\ c.log = s.log
      /\ c.closed = s.closed /\ c.recvs = s.recvs /\ c.authed = s.authed
      /\ c.flushClose = s.flushClose
  BY <1>1 DEF Session, SameTimers, SameQueue
<1>. HIDE DEF c
<1>6. AuthInv(c)
  BY <1>1, <1>5 DEF AuthInv
<1>. QED
  BY <1>1, <1>3, <1>4, <1>5, <1>6, ProtoInv

(* After ConnectToHost the session connects, or is on its way out. *)
LEMMA ConnectState ==
  ASSUME NEW r, Sane(r), ~r.closed, r.state # "Closing",
         NEW how, NEW ok \in BOOLEAN, NEW wr \in BOOLEAN
  PROVE  ConnectToHost(r, how, ok, wr).state \in {"Connecting", "Closing"}
<1>. DEFINE a == CancelIdleTimer(r)
            c == [a EXCEPT !.state = "Connecting"]
            d == [c EXCEPT !.dest = TRUE, !.connecting = TRUE]
            p == ArmConnectTimer(d, how # "timer")
            x == ConnectToHost(r, how, ok, wr)
<1>1. Follows(r, a) /\ SameFlow(r, a)
  BY CancelIdleEffect
<1>2. a \in Session /\ Sane(a) /\ ~a.closed
  BY <1>1 DEF Follows, Sane, SameFlow, Still
<1>3. \/ x = FailAndClose(r, ok, wr) \/ x = FailAndClose(c, ok, wr)
      \/ x = FailAndClose(p, ok, wr) \/ x = p
  BY DEF ConnectToHost
<1>. HIDE DEF a
<1>4. c \in Session /\ d \in Session
  <2>1. "Connecting" \in States
    BY DEF States
  <2>2. c \in Session
    BY <1>2, <2>1 DEF Session
  <2>. HIDE DEF c
  <2>. QED
    BY <2>2 DEF Session
<1>5. /\ SameTimers(a, c) /\ c.state = "Connecting" /\ ~c.closed /\ c.recvs = a.recvs
      /\ c.authed = a.authed
  BY <1>2 DEF Session, SameTimers
<1>. HIDE DEF c
<1>6. /\ SameTimers(c, d) /\ d.state = "Connecting" /\ ~d.closed /\ d.recvs = c.recvs
      /\ d.authed = c.authed
  BY <1>4, <1>5 DEF Session, SameTimers
<1>. HIDE DEF d
<1>7. Sane(c)
  BY <1>2, <1>4, <1>5, FlowFollows DEF Follows
<1>8. Sane(d)
  BY <1>4, <1>5, <1>6, <1>7, FlowFollows DEF Follows
<1>9. Sane(p) /\ p.state = "Connecting" /\ ~p.closed
  BY <1>6, <1>8, ArmConnectEffect, ZenonT(60) DEF SameFlow, Still
<1>. HIDE DEF p
<1>10. /\ FailAndClose(r, ok, wr).state = "Closing"
       /\ FailAndClose(c, ok, wr).state = "Closing"
       /\ FailAndClose(p, ok, wr).state = "Closing"
  BY <1>5, <1>7, <1>9, FailEffect
<1>. QED
  BY <1>3, <1>9, <1>10

-----------------------------------------------------------------------------
LEMMA HandshakeGood ==
  ASSUME IInv, ProcessHandshakeBuffer
  PROVE  Good
<1>1. handler = "loop" /\ ~s.closed /\ s.state = "Handshake" /\ s.ingest > 0
  BY DEF ProcessHandshakeBuffer, Parses
<1>2. RInv(s) /\ Keeps(s, s)
  BY DEF IInv, Keeps
<1>3. RInv(Taken) /\ Keeps(s, Taken) /\ Taken.state = "Handshake"
  BY <1>1, TakenInv DEF Proto
<1>4. CASE Reject(s)
  BY <1>2, <1>4, RejectGood
<1>5. ASSUME NEW offers \in SUBSET Methods \ {{}}, NEW ok \in PostOutcomes,
             NEW acquired \in BOOLEAN,
             LET m == Selected(offers)
                 r == QueueClientSendRaw(Taken, "Method", ok)
             IN IF m = "none" THEN Reject(r)
                ELSE IF m = "Gssapi" /\ ~acquired
                THEN Reject(QueueClientSendRaw(r, "Abort", ok))
                ELSE Continue([r EXCEPT !.state = NextState(m)])
      PROVE  Good
  <2>. DEFINE m == Selected(offers)
              r == QueueClientSendRaw(Taken, "Method", ok)
              a == QueueClientSendRaw(r, "Abort", ok)
              c == [r EXCEPT !.state = NextState(m)]
  <2>1. ok \in BOOLEAN /\ "Method" \in Message /\ "Abort" \in Message
    BY PostsAreBoolean DEF Message
  <2>2. RInv(r) /\ Follows(Taken, r) /\ r.state = "Handshake"
    BY <1>3, <2>1, QueueInv
  <2>3. Keeps(s, r)
    BY <1>3, <2>2 DEF Keeps, Follows
  <2>. HIDE DEF r
  <2>4. CASE Reject(r)
    BY <2>2, <2>3, <2>4, RejectGood
  <2>5. CASE Reject(a)
    <3>1. RInv(a) /\ Follows(r, a)
      BY <2>1, <2>2, QueueInv
    <3>2. Keeps(s, a)
      BY <2>3, <3>1 DEF Keeps, Follows
    <3>. QED
      BY <2>5, <3>1, <3>2, RejectGood
  <2>6. CASE Continue(c) /\ m # "none"
    <3>1. /\ m \in {"Gssapi", "UserPass", "NoAuth"}
          /\ m = "NoAuth" => ~HasCredentials
      BY <2>6 DEF Selected
    <3>2. /\ NextState(m) \in {"GssapiAuth", "Auth", "Request"}
          /\ NextState(m) = "Request" => ~HasCredentials
      BY <3>1 DEF NextState
    <3>. HIDE DEF m
    <3>3. NextState(m) \in Proto /\ NextState(m) \in States /\ r.state \in Proto
      BY <2>2, <3>2 DEF Proto, States
    <3>4. r \in Session
      BY <2>2 DEF RInv, Sane
    <3>5. c \in Session
      BY <3>3, <3>4 DEF Session
    <3>6. /\ SameTimers(r, c) /\ SameQueue(r, c) /\ c.state = NextState(m)
          /\ c.log = r.log /\ c.recvs = r.recvs /\ c.closed = r.closed
          /\ c.flushClose = r.flushClose
      BY <3>4 DEF Session, SameTimers, SameQueue
    <3>. HIDE DEF c
    <3>7. AuthInv(c)
      BY <3>2, <3>6 DEF AuthInv
    <3>8. RInv(c) /\ Keeps(r, c)
      BY <2>2, <3>3, <3>5, <3>6, <3>7, ProtoInv
    <3>9. Keeps(s, c)
      BY <2>3, <3>8 DEF Keeps
    <3>. QED
      BY <1>1, <2>6, <3>8, <3>9, ContinueGood
  <2>. QED
    BY <1>5, <2>4, <2>5, <2>6 DEF r
<1>. QED
  BY <1>4, <1>5 DEF ProcessHandshakeBuffer

(* The client is authenticated: the next protocol state. *)
LEMMA AuthedInv ==
  ASSUME NEW r, RInv(r), r.state \in Proto, NEW c \in Session, c.authed,
         c.state \in Proto, SameTimers(r, c), SameQueue(r, c), c.log = r.log,
         c.recvs = r.recvs, c.closed = r.closed, c.flushClose = r.flushClose,
         Keeps(s, r)
  PROVE  RInv(c) /\ Keeps(s, c)
<1>1. AuthInv(c)
  BY DEF AuthInv
<1>2. RInv(c) /\ Keeps(r, c)
  BY <1>1, ProtoInv
<1>. QED
  BY <1>2 DEF Keeps

LEMMA AuthGood ==
  ASSUME IInv, ProcessAuthBuffer
  PROVE  Good
<1>1. handler = "loop" /\ ~s.closed /\ s.state = "Auth" /\ s.ingest > 0
  BY DEF ProcessAuthBuffer, Parses
<1>2. RInv(s) /\ Keeps(s, s)
  BY DEF IInv, Keeps
<1>3. RInv(Taken) /\ Keeps(s, Taken) /\ Taken.state = "Auth"
  BY <1>1, TakenInv DEF Proto
<1>4. CASE Reject(s)
  BY <1>2, <1>4, RejectGood
<1>5. ASSUME NEW good \in BOOLEAN, NEW ok \in PostOutcomes,
             LET r == QueueClientSendRaw(Taken, "Auth", ok)
             IN IF good THEN Continue([r EXCEPT !.state = "Request", !.authed = TRUE])
                ELSE Reject(r)
      PROVE  Good
  <2>. DEFINE r == QueueClientSendRaw(Taken, "Auth", ok)
              c == [r EXCEPT !.state = "Request", !.authed = TRUE]
  <2>1. ok \in BOOLEAN /\ "Auth" \in Message
    BY PostsAreBoolean DEF Message
  <2>2. RInv(r) /\ Follows(Taken, r) /\ r.state = "Auth"
    BY <1>3, <2>1, QueueInv
  <2>3. Keeps(s, r) /\ r \in Session
    BY <1>3, <2>2 DEF Keeps, Follows, Sane
  <2>. HIDE DEF r
  <2>4. CASE Reject(r)
    BY <2>2, <2>3, <2>4, RejectGood
  <2>5. CASE Continue(c)
    <3>1. "Request" \in Proto /\ "Request" \in States /\ r.state \in Proto
      BY <2>2 DEF Proto, States
    <3>2. c \in Session
      BY <2>3, <3>1 DEF Session
    <3>3. /\ SameTimers(r, c) /\ SameQueue(r, c) /\ c.state = "Request" /\ c.authed
          /\ c.log = r.log /\ c.recvs = r.recvs /\ c.closed = r.closed
          /\ c.flushClose = r.flushClose
      BY <2>3 DEF Session, SameTimers, SameQueue
    <3>. HIDE DEF c
    <3>4. RInv(c) /\ Keeps(s, c)
      BY <2>2, <2>3, <3>1, <3>2, <3>3, AuthedInv
    <3>. QED
      BY <1>1, <2>5, <3>4, ContinueGood
  <2>. QED
    BY <1>5, <2>4, <2>5 DEF r
<1>. QED
  BY <1>4, <1>5 DEF ProcessAuthBuffer

LEMMA GssapiAuthGood ==
  ASSUME IInv, ProcessGssapiAuthBuffer
  PROVE  Good
<1>1. handler = "loop" /\ ~s.closed /\ s.state = "GssapiAuth" /\ s.ingest > 0
  BY DEF ProcessGssapiAuthBuffer, Parses
<1>2. RInv(Taken) /\ Keeps(s, Taken) /\ Taken.state = "GssapiAuth"
  BY <1>1, TakenInv DEF Proto
<1>3. PICK status \in {"Continue", "Complete", "Failed"}, ok \in PostOutcomes :
        LET r == QueueClientSendRaw(Taken, IF status = "Failed" THEN "Abort" ELSE "Token", ok)
        IN CASE status = "Failed" -> Reject(r)
             [] status = "Continue" -> Continue(r)
             [] status = "Complete" ->
                  Continue([r EXCEPT !.state = "GssapiProtect", !.authed = TRUE])
  BY DEF ProcessGssapiAuthBuffer
<1>. DEFINE m == IF status = "Failed" THEN "Abort" ELSE "Token"
            r == QueueClientSendRaw(Taken, m, ok)
            c == [r EXCEPT !.state = "GssapiProtect", !.authed = TRUE]
<1>4. Reject(r) \/ Continue(r) \/ Continue(c)
  BY <1>3
<1>5. ok \in BOOLEAN /\ m \in Message /\ m \notin {"Succeeded", "Failure"}
  BY PostsAreBoolean DEF Message
<1>. HIDE DEF m
<1>6. RInv(r) /\ Follows(Taken, r) /\ r.state = "GssapiAuth"
  BY <1>2, <1>5, QueueInv
<1>7. Keeps(s, r) /\ r \in Session
  BY <1>2, <1>6 DEF Keeps, Follows, Sane
<1>. HIDE DEF r
<1>8. CASE Reject(r)
  BY <1>6, <1>7, <1>8, RejectGood
<1>9. CASE Continue(r)
  BY <1>1, <1>6, <1>7, <1>9, ContinueGood
<1>10. CASE Continue(c)
  <2>1. "GssapiProtect" \in Proto /\ "GssapiProtect" \in States /\ r.state \in Proto
    BY <1>6 DEF Proto, States
  <2>2. c \in Session
    BY <1>7, <2>1 DEF Session
  <2>3. /\ SameTimers(r, c) /\ SameQueue(r, c) /\ c.state = "GssapiProtect" /\ c.authed
        /\ c.log = r.log /\ c.recvs = r.recvs /\ c.closed = r.closed
        /\ c.flushClose = r.flushClose
    BY <1>7 DEF Session, SameTimers, SameQueue
  <2>. HIDE DEF c
  <2>4. RInv(c) /\ Keeps(s, c)
    BY <1>6, <1>7, <2>1, <2>2, <2>3, AuthedInv
  <2>. QED
    BY <1>1, <1>10, <2>4, ContinueGood
<1>. QED
  BY <1>4, <1>8, <1>9, <1>10

LEMMA GssapiProtectGood ==
  ASSUME IInv, ProcessGssapiProtectBuffer
  PROVE  Good
<1>1. handler = "loop" /\ ~s.closed /\ s.state = "GssapiProtect" /\ s.ingest > 0
  BY DEF ProcessGssapiProtectBuffer, Parses
<1>2. RInv(Taken) /\ Keeps(s, Taken) /\ Taken.state = "GssapiProtect"
  BY <1>1, TakenInv DEF Proto
<1>3. PICK agreed \in BOOLEAN, ok \in PostOutcomes :
        LET r == QueueClientSendRaw(Taken, IF agreed THEN "Token" ELSE "Abort", ok)
        IN IF agreed THEN Continue([r EXCEPT !.state = "Request", !.gss = TRUE])
           ELSE Reject(r)
  BY DEF ProcessGssapiProtectBuffer
<1>. DEFINE m == IF agreed THEN "Token" ELSE "Abort"
            r == QueueClientSendRaw(Taken, m, ok)
            c == [r EXCEPT !.state = "Request", !.gss = TRUE]
<1>4. Reject(r) \/ Continue(c)
  BY <1>3
<1>5. ok \in BOOLEAN /\ m \in Message /\ m \notin {"Succeeded", "Failure"}
  BY PostsAreBoolean DEF Message
<1>. HIDE DEF m
<1>6. RInv(r) /\ Follows(Taken, r) /\ r.state = "GssapiProtect"
  BY <1>2, <1>5, QueueInv
<1>7. Keeps(s, r) /\ r \in Session /\ (HasCredentials => r.authed)
  BY <1>2, <1>6 DEF Keeps, Follows, Sane, RInv, AuthInv
<1>. HIDE DEF r
<1>8. CASE Reject(r)
  BY <1>6, <1>7, <1>8, RejectGood
<1>9. CASE Continue(c)
  <2>1. "Request" \in Proto /\ "Request" \in States /\ r.state \in Proto
    BY <1>6 DEF Proto, States
  <2>2. c \in Session
    BY <1>7, <2>1 DEF Session
  <2>3. /\ SameTimers(r, c) /\ SameQueue(r, c) /\ c.state = "Request"
        /\ c.authed = r.authed
        /\ c.log = r.log /\ c.recvs = r.recvs /\ c.closed = r.closed
        /\ c.flushClose = r.flushClose
    BY <1>7 DEF Session, SameTimers, SameQueue
  <2>. HIDE DEF c
  <2>4. AuthInv(c)
    BY <1>7, <2>3 DEF AuthInv
  <2>5. RInv(c) /\ Keeps(r, c)
    BY <1>6, <2>1, <2>2, <2>3, <2>4, ProtoInv
  <2>6. Keeps(s, c)
    BY <1>7, <2>5 DEF Keeps
  <2>. QED
    BY <1>1, <1>9, <2>5, <2>6, ContinueGood
<1>. QED
  BY <1>4, <1>8, <1>9

(* A name is looked up. *)
LEMMA ResolvingInv ==
  ASSUME NEW r, RInv(r), ~r.closed, r.state = "Request"
  PROVE  LET c == [CancelIdleTimer(r) EXCEPT !.state = "Resolving", !.dns = "asked"]
         IN RInv(c) /\ Keeps(r, c)
<1>. DEFINE a == CancelIdleTimer(r)
            c == [a EXCEPT !.state = "Resolving", !.dns = "asked"]
<1>1. /\ Sane(r) /\ Seen(r) /\ TimersInState(r) /\ Replies(r) /\ AuthInv(r) /\ Lively(r)
  BY DEF RInv
<1>2. Follows(r, a) /\ SameFlow(r, a) /\ IdleQuiet(a)
  BY <1>1, CancelIdleEffect
<1>3. a \in Session /\ Sane(a)
  BY <1>2 DEF Follows, Sane
<1>. HIDE DEF a
<1>4. c \in Session
  <2>1. "Resolving" \in States
    BY DEF States
  <2>. QED
    BY <1>3, <2>1 DEF Session
<1>5. /\ SameTimers(a, c) /\ SameQueue(a, c) /\ c.state = "Resolving" /\ c.log = a.log
      /\ c.closed = a.closed /\ c.recvs = a.recvs /\ c.authed = a.authed
      /\ c.flushClose = a.flushClose /\ c.dns = "asked"
  BY <1>3 DEF Session, SameTimers, SameQueue
<1>. HIDE DEF c
<1>6. Follows(a, c)
  BY <1>3, <1>4, <1>5, FlowFollows
<1>7. Follows(r, c) /\ IdleQuiet(c) /\ ConnQuiet(c) /\ Seen(c)
  BY <1>1, <1>2, <1>6, FollowsTransitive DEF Follows, TimersInState
<1>8. /\ c.log = r.log /\ c.closed = r.closed /\ SameQueue(r, c) /\ c.authed = r.authed
      /\ c.flushClose = r.flushClose
  BY <1>2, <1>5 DEF SameFlow, Still, SameQueue
<1>9. Replies(c)
  BY <1>1, <1>5, <1>8 DEF Replies
<1>10. AuthInv(c) /\ Lively(c) /\ TimersInState(c)
  BY <1>1, <1>5, <1>7, <1>8 DEF AuthInv, Lively, TimersInState, SameQueue
<1>11. RInv(c) /\ Keeps(r, c)
  BY <1>7, <1>9, <1>10 DEF RInv, Follows, Keeps
<1>. QED
  BY <1>11 DEF a, c

LEMMA RequestGood ==
  ASSUME IInv, ProcessRequestBuffer
  PROVE  Good
<1>1. handler = "loop" /\ ~s.closed /\ s.state = "Request" /\ s.ingest > 0
  BY DEF ProcessRequestBuffer, Parses
<1>2. RInv(s) /\ Keeps(s, s) /\ "Request" \in Proto
  BY DEF IInv, Keeps, Proto
<1>3. RInv(Taken) /\ Keeps(s, Taken) /\ Taken.state = "Request" /\ ~Taken.closed
  BY <1>1, <1>2, TakenInv
<1>4. ASSUME NEW r, RInv(r), r.state = "Request", ~r.closed
      PROVE  /\ Sane(r) /\ Seen(r) /\ ~Replied(r.log) /\ r.state # "Closing"
             /\ ConnQuiet(r) /\ (HasCredentials => r.authed)
             /\ r.sending <=> r.unsent > 0
             /\ r.flushClose => r.sending
  BY <1>4 DEF RInv, Replies, TimersInState, AuthInv, Lively
<1>5. PICK ok \in PostOutcomes, wr \in PostOutcomes :
       \/ s.gss /\ Reject(s)
       \/ Continue(FailAndClose(s, ok, wr))
       \/ \E how \in ConnectOutcomes :
            LET r == ConnectToHost(Taken, how, ok, wr)
            IN IF ConnectFails(how) THEN Reject(r) ELSE Continue(r)
       \/ Continue([CancelIdleTimer(Taken) EXCEPT
                      !.state = "Resolving", !.dns = "asked"])
       \/ \E up \in BOOLEAN :
            LET r == UdpAssociate(Taken, up, ok, wr)
            IN IF up /\ NullRelay(SendSocksReply(CancelIdleTimer(Taken), "Succeeded", ok, wr))
               THEN UNCHANGED s /\ handler' = "crashed"
               ELSE Continue(r)
  BY DEF ProcessRequestBuffer
<1>6. ok \in BOOLEAN /\ wr \in BOOLEAN
  BY PostsAreBoolean
<1>7. CASE Reject(s)
  BY <1>2, <1>7, RejectGood
<1>8. CASE Continue(FailAndClose(s, ok, wr))
  <2>1. RInv(FailAndClose(s, ok, wr)) /\ Follows(s, FailAndClose(s, ok, wr))
    BY <1>1, <1>2, <1>4, <1>6, FailInv
  <2>2. Keeps(s, FailAndClose(s, ok, wr))
    BY <2>1 DEF Follows, Keeps
  <2>. QED
    BY <1>1, <1>8, <2>1, <2>2, ContinueGood
<1>9. ASSUME NEW how \in ConnectOutcomes,
             \/ Reject(ConnectToHost(Taken, how, ok, wr))
             \/ Continue(ConnectToHost(Taken, how, ok, wr))
      PROVE  Good
  <2>. DEFINE r == ConnectToHost(Taken, how, ok, wr)
  <2>1. RInv(r) /\ Keeps(Taken, r)
    BY <1>3, <1>4, <1>6, ConnectInv
  <2>. HIDE DEF r
  <2>2. Keeps(s, r)
    BY <1>3, <2>1 DEF Keeps
  <2>3. Reject(r) \/ Continue(r)
    BY <1>9 DEF r
  <2>. QED
    BY <1>1, <2>1, <2>2, <2>3, RejectGood, ContinueGood
<1>10. CASE Continue([CancelIdleTimer(Taken) EXCEPT !.state = "Resolving", !.dns = "asked"])
  <2>. DEFINE r == [CancelIdleTimer(Taken) EXCEPT !.state = "Resolving", !.dns = "asked"]
  <2>1. RInv(r) /\ Keeps(Taken, r)
    BY <1>3, ResolvingInv
  <2>. HIDE DEF r
  <2>2. Keeps(s, r)
    BY <1>3, <2>1 DEF Keeps
  <2>3. Continue(r)
    BY <1>10 DEF r
  <2>. QED
    BY <1>1, <2>1, <2>2, <2>3, ContinueGood
<1>11. ASSUME NEW up \in BOOLEAN, Continue(UdpAssociate(Taken, up, ok, wr))
       PROVE  Good
  <2>. DEFINE r == UdpAssociate(Taken, up, ok, wr)
  <2>1. RInv(r) /\ Keeps(Taken, r)
    BY <1>3, <1>6, UdpInv
  <2>. HIDE DEF r
  <2>2. Keeps(s, r)
    BY <1>3, <2>1 DEF Keeps
  <2>3. Continue(r)
    BY <1>11 DEF r
  <2>. QED
    BY <1>1, <2>1, <2>2, <2>3, ContinueGood
<1>12. CASE s' = s /\ handler' = "crashed"
  BY <1>2, <1>12 DEF Good, HandlerInv
<1>. QED
  BY <1>5, <1>7, <1>8, <1>9, <1>10, <1>11, <1>12

LEMMA LoopEndsGood ==
  ASSUME IInv, LoopEnds
  PROVE  Good
<1>1. PICK ok \in PostOutcomes :
        s' = IF ReadsAgain(s) THEN BeginClientRead(s, ok) ELSE s
  BY DEF LoopEnds
<1>2. RInv(s) /\ handler' = "none" /\ ok \in BOOLEAN
  BY PostsAreBoolean DEF IInv, LoopEnds
<1>3. CASE s.state \in Proto
  <2>1. s' = BeginClientRead(s, ok)
    BY <1>1, <1>3 DEF ReadsAgain
  <2>2. RInv(s') /\ Follows(s, s') /\ (s'.closed \/ s'.reading)
    BY <1>2, <2>1, BeginReadInv
  <2>. QED
    BY <1>2, <2>2 DEF Good, HandlerInv, Follows, Keeps
<1>4. CASE s.state \notin Proto
  BY <1>1, <1>2, <1>4 DEF ReadsAgain, Good, HandlerInv, Keeps
<1>. QED
  BY <1>3, <1>4

-----------------------------------------------------------------------------
(* What the parts of the invariant give for the session. *)
LEMMA SessionInv ==
  ASSUME IInv
  PROVE  /\ s \in Session /\ Sane(s) /\ Seen(s) /\ TimersInState(s) /\ Replies(s)
         /\ AuthInv(s) /\ Lively(s) /\ OnceReplied(s.log) /\ TimersSane(s)
         /\ RInv(s) /\ HandlerInv(s, handler)
BY DEF IInv, RInv, Sane, Replies

LEMMA StartGood ==
  ASSUME IInv, Start
  PROVE  Good
<1>. USE SessionInv
<1>1. handler = "accept" /\ ~s.closed /\ s.state = "Handshake"
  BY DEF Start, HandlerInv
<1>2. CASE s' = Close(s) /\ handler' = "none"
  BY <1>2, CloseGood DEF Keeps
<1>3. ASSUME NEW ok \in PostOutcomes, s' = ArmIdleTimer(s, ok), handler' = "start"
      PROVE  Good
  <2>1. /\ Sane(s') /\ SameFlow(s, s') /\ Seen(s') /\ (ConnQuiet(s) => ConnQuiet(s'))
        /\ \A t \in s.timers : t.posted => t \in s'.timers
    BY <1>1, <1>3, PostsAreBoolean, ArmIdleEffect
  <2>2. Replies(s') /\ AuthInv(s') /\ Lively(s')
    BY <2>1 DEF Replies, AuthInv, Lively, SameFlow, Still, SameQueue
  <2>3. TimersInState(s')
    BY <1>1, <2>1 DEF TimersInState, SameFlow, Proto
  <2>. QED
    BY <1>3, <2>1, <2>2, <2>3 DEF Good, RInv, HandlerInv, Keeps
<1>. QED
  BY <1>2, <1>3 DEF Start

LEMMA StartReadGood ==
  ASSUME IInv, StartRead
  PROVE  Good
<1>. USE SessionInv
<1>1. PICK ok \in PostOutcomes : s' = BeginClientRead(s, ok)
  BY DEF StartRead
<1>2. RInv(s') /\ Follows(s, s') /\ (s'.closed \/ s'.reading)
  BY <1>1, PostsAreBoolean, BeginReadInv
<1>. QED
  BY <1>2 DEF StartRead, Good, HandlerInv, Follows, Keeps

(* A receive has been counted, and the read is not posted again yet.       *)
LEMMA GotEffect ==
  ASSUME IInv
  PROVE  LET got == [s EXCEPT !.reading = FALSE, !.recvs = @ + 1] IN
         /\ got \in Session /\ SameTimers(s, got) /\ SameQueue(s, got) /\ Sane(got)
         /\ got.state = s.state /\ got.log = s.log /\ got.closed = s.closed
         /\ got.authed = s.authed /\ got.flushClose = s.flushClose
         /\ got.connecting = s.connecting /\ got.dns = s.dns /\ got.udp = s.udp
         /\ got.ingest = s.ingest /\ (s.state \notin Proto => Seen(got))
         /\ (IdleQuiet(s) => IdleQuiet(got)) /\ (ConnQuiet(s) => ConnQuiet(got))
<1>. USE SessionInv
<1>. DEFINE got == [s EXCEPT !.reading = FALSE, !.recvs = s.recvs + 1]
<1>0. [s EXCEPT !.reading = FALSE, !.recvs = @ + 1] = got
  BY DEF Session
<1>1. got \in Session
  <2>1. s.recvs + 1 \in Nat
    BY SessionFields
  <2>. QED
    BY <2>1 DEF Session
<1>2. /\ SameTimers(s, got) /\ SameQueue(s, got)
      /\ got.state = s.state /\ got.log = s.log /\ got.closed = s.closed
      /\ got.authed = s.authed /\ got.flushClose = s.flushClose
      /\ got.connecting = s.connecting /\ got.dns = s.dns /\ got.udp = s.udp
      /\ got.ingest = s.ingest
  BY DEF Session, SameTimers, SameQueue
<1>. HIDE DEF got
<1>3. (IdleQuiet(s) <=> IdleQuiet(got)) /\ (ConnQuiet(s) <=> ConnQuiet(got))
  BY <1>2 DEF IdleQuiet, ConnQuiet, SameTimers
<1>4. TimersSane(got)
  BY <1>2, <1>3 DEF TimersSane, SameTimers, GenOf, IdOf
<1>5. ASSUME s.state \notin Proto PROVE Seen(got)
  <2>1. IdleQuiet(got)
    BY <1>3, <1>5 DEF TimersInState
  <2>. QED
    BY <1>1, <2>1, SessionFields, TimerFields DEF Seen, IdleQuiet
<1>6. Sane(got)
  BY <1>1, <1>4 DEF Sane
<1>. QED
  BY <1>0, <1>1, <1>2, <1>3, <1>5, <1>6

LEMMA OnClientRecvGood ==
  ASSUME IInv, OnClientRecv
  PROVE  Good
<1>. USE SessionInv
<1>1. handler = "none" /\ ~s.closed /\ s.state # "Relaying"
  BY DEF OnClientRecv
<1>. DEFINE got == [s EXCEPT !.reading = FALSE, !.recvs = @ + 1]
            arm(ok) == IF s.state \in Proto THEN ArmIdleTimer(got, ok) ELSE got
<1>2. PICK k \in 0..(MaxBuffered + 1), ok \in PostOutcomes :
        IF s.state = "UdpAssociate"
        THEN s' = BeginClientRead(got, ok) /\ UNCHANGED handler
        ELSE IF OverLimit(arm(ok), k)
        THEN s' = Close(arm(ok)) /\ UNCHANGED handler
        ELSE s' = [arm(ok) EXCEPT !.ingest = @ + k] /\ handler' = "loop"
  BY DEF OnClientRecv
<1>3. ok \in BOOLEAN
  BY PostsAreBoolean
<1>4. /\ got \in Session /\ SameTimers(s, got) /\ SameQueue(s, got) /\ Sane(got)
      /\ got.state = s.state /\ got.log = s.log /\ got.closed = s.closed
      /\ got.authed = s.authed /\ got.flushClose = s.flushClose
      /\ got.connecting = s.connecting /\ got.dns = s.dns /\ got.udp = s.udp
      /\ got.ingest = s.ingest /\ (s.state \notin Proto => Seen(got))
      /\ (IdleQuiet(s) => IdleQuiet(got)) /\ (ConnQuiet(s) => ConnQuiet(got))
  BY GotEffect
<1>. HIDE DEF got
<1>5. CASE s.state = "UdpAssociate"
  <2>1. s' = BeginClientRead(got, ok) /\ UNCHANGED handler
    BY <1>2, <1>5
  <2>2. /\ Follows(got, s') /\ s'.state = got.state /\ s'.log = got.log
        /\ \/ s'.closed
           \/ /\ s'.reading /\ SameQueue(got, s') /\ s'.flushClose = got.flushClose
              /\ s'.udp = got.udp
    BY <1>3, <1>4, <2>1, BeginReadEffect
  <2>3. Seen(got) /\ IdleQuiet(got) /\ ConnQuiet(got)
    BY <1>4, <1>5 DEF TimersInState, Proto
  <2>4. Replies(s')
    BY <1>1, <1>4, <1>5, <2>2 DEF Replies
  <2>5. AuthInv(s') /\ Lively(s') /\ TimersInState(s')
    BY <1>1, <1>4, <1>5, <2>2, <2>3
       DEF AuthInv, Lively, TimersInState, Follows, SameQueue
  <2>6. Keeps(s, s')
    BY <1>4, <2>2 DEF Follows, Keeps, SameTimers
  <2>7. HandlerInv(s', handler')
    BY <1>1, <1>4, <1>5, <2>1, <2>2 DEF HandlerInv, Proto
  <2>. QED
    BY <2>2, <2>3, <2>4, <2>5, <2>6, <2>7 DEF Good, RInv, Follows
<1>6. CASE s.state # "UdpAssociate"
  <2>. DEFINE r == arm(ok)
  <2>1. /\ Sane(r) /\ Seen(r) /\ SameFlow(got, r) /\ Keeps(got, r)
        /\ ConnQuiet(got) => ConnQuiet(r)
        /\ s.state \notin Proto => IdleQuiet(r)
    <3>1. CASE s.state \in Proto
      BY <1>1, <1>3, <1>4, <3>1, ArmIdleEffect DEF Keeps
    <3>2. CASE s.state \notin Proto
      BY <1>4, <3>2 DEF SameFlow, Still, SameQueue, Keeps, TimersInState
    <3>. QED
      BY <3>1, <3>2
  <2>. HIDE DEF r
  <2>2. /\ r.state = s.state /\ r.log = s.log /\ r.closed = s.closed
        /\ r.authed = s.authed /\ r.flushClose = s.flushClose /\ SameQueue(s, r)
        /\ r.connecting = s.connecting /\ r.dns = s.dns /\ Keeps(s, r)
    BY <1>4, <2>1 DEF SameFlow, Still, SameQueue, Keeps, SameTimers
  <2>3. AuthInv(r) /\ OnceReplied(r.log) /\ Lively(r) /\ Replies(r) /\ TimersInState(r)
    BY <1>1, <1>4, <1>6, <2>1, <2>2
       DEF AuthInv, Lively, Replies, TimersInState, SameQueue
  <2>4. RInv(r)
    BY <2>1, <2>3 DEF RInv
  <2>5. CASE OverLimit(r, k)
    <3>1. s' = Close(r) /\ handler' = "none"
      BY <1>1, <1>2, <1>6, <2>5 DEF r
    <3>. QED
      BY <2>1, <2>2, <2>3, <3>1, CloseGood
  <2>6. CASE ~OverLimit(r, k)
    <3>1. s' = [r EXCEPT !.ingest = @ + k] /\ handler' = "loop"
      BY <1>2, <1>6, <2>6 DEF r
    <3>2. r \in Session /\ r.ingest + k \in 0..MaxBuffered
      BY <2>1, <2>6, SessionFields, BoundsAssumption DEF Sane, OverLimit
    <3>. DEFINE c == [r EXCEPT !.ingest = r.ingest + k]
    <3>3. s' = c
      BY <3>1, <3>2 DEF Session
    <3>4. c \in Session
      BY <3>2 DEF Session
    <3>5. /\ SameTimers(r, c) /\ SameQueue(r, c) /\ c.state = r.state /\ c.log = r.log
          /\ c.closed = r.closed /\ c.recvs = r.recvs /\ c.authed = r.authed
          /\ c.flushClose = r.flushClose /\ c.connecting = r.connecting
          /\ c.dns = r.dns /\ c.reading = r.reading /\ c.dest = r.dest /\ c.udp = r.udp
      BY <3>2 DEF Session, SameTimers, SameQueue
    <3>. HIDE DEF c
    <3>6. AuthInv(c) /\ Lively(c)
      BY <2>3, <3>5 DEF AuthInv, Lively, SameQueue
    <3>7. RInv(c) /\ \A t \in r.timers : t \in c.timers
      BY <2>4, <3>4, <3>5, <3>6, ChangeInv
    <3>. QED
      BY <2>2, <3>1, <3>3, <3>7 DEF Good, HandlerInv, Keeps
  <2>. QED
    BY <2>5, <2>6
<1>. QED
  BY <1>5, <1>6

(* A step that changes only fields which matter to an open session's       *)
(* liveliness.                                                             *)
LEMMA ChangeGood ==
  ASSUME IInv, s' \in Session, SameTimers(s, s'), s'.recvs = s.recvs, s'.log = s.log,
         s'.closed = s.closed, s'.state = s.state, s'.authed = s.authed,
         s'.flushClose = s.flushClose, s'.closed \/ s'.reading = s.reading,
         Lively(s'), UNCHANGED handler
  PROVE  Good
<1>. USE SessionInv
<1>1. AuthInv(s')
  BY DEF AuthInv
<1>2. RInv(s') /\ \A t \in s.timers : t \in s'.timers
  BY <1>1, ChangeInv
<1>. QED
  BY <1>2 DEF Good, HandlerInv, Keeps

(* ... and one that closes the session after such a change. *)
LEMMA ChangeCloseGood ==
  ASSUME IInv, NEW r \in Session, SameTimers(s, r), r.recvs = s.recvs,
         r.log = s.log, r.closed = s.closed, r.state = s.state, r.authed = s.authed,
         s' = Close(r), UNCHANGED handler, handler \in {"none", "start"}
  PROVE  Good
<1>. USE SessionInv
<1>1. Follows(s, r)
  BY FlowFollows
<1>2. Sane(r) /\ Seen(r) /\ AuthInv(r) /\ OnceReplied(r.log) /\ Keeps(s, r)
  BY <1>1 DEF Follows, AuthInv, Keeps
<1>. QED
  BY <1>2, CloseGood

-----------------------------------------------------------------------------
LEMMA OnClientSendGood ==
  ASSUME IInv, OnClientSend
  PROVE  Good
<1>. USE SessionInv
<1>1. ~s.closed /\ s.sending /\ handler' = handler /\ handler \in {"none", "start"}
  BY DEF OnClientSend, LockFree
<1>. DEFINE n == IF s.unsent > 0 THEN s.unsent - 1 ELSE 0
            d == [s EXCEPT !.sending = FALSE, !.unsent = n]
<1>2. PICK ok \in PostOutcomes :
        LET r == PumpSend([s EXCEPT !.sending = FALSE,
                                    !.unsent = IF @ > 0 THEN @ - 1 ELSE 0], ok)
        IN s' = IF r.flushClose /\ Flushed(r) THEN Close(r) ELSE r
  BY DEF OnClientSend
<1>. DEFINE r == PumpSend(d, ok)
<1>3. s' = IF r.flushClose /\ Flushed(r) THEN Close(r) ELSE r
  BY <1>2 DEF Session
<1>4. n \in Nat /\ ok \in BOOLEAN
  BY SessionFields, PostsAreBoolean
<1>. HIDE DEF n
<1>5. d \in Session
  BY <1>4 DEF Session
<1>6. /\ SameTimers(s, d) /\ Still(s, d) /\ d.state = s.state /\ d.log = s.log
      /\ d.recvs = s.recvs /\ d.authed = s.authed /\ d.unsent = n /\ ~d.sending
  BY DEF Session, SameTimers, Still
<1>. HIDE DEF d
<1>7. d.closed = s.closed /\ d.flushClose = s.flushClose
  BY <1>6 DEF Still
<1>8. Follows(s, d)
  BY <1>1, <1>5, <1>6, <1>7, FlowFollows
<1>9. /\ Follows(d, r) /\ r.state = d.state /\ r.log = d.log
      /\ r.closed \/ (/\ Still(d, r) /\ r.unsent = d.unsent
                      /\ r.sending <=> d.sending \/ d.unsent > 0)
  BY <1>4, <1>8, PumpEffect DEF Follows
<1>. HIDE DEF r
<1>10. Follows(s, r)
  BY <1>8, <1>9, FollowsTransitive
<1>11. r.state = s.state /\ r.log = s.log /\ AuthInv(r) /\ OnceReplied(r.log) /\ Keeps(s, r)
       /\ Sane(r) /\ Seen(r)
  BY <1>6, <1>9, <1>10 DEF AuthInv, Follows, Keeps
<1>12. CASE s' = Close(r)
  BY <1>1, <1>11, <1>12, CloseGood
<1>13. CASE s' = r /\ ~(r.flushClose /\ Flushed(r))
  <2>1. ~r.closed => Still(s, r) /\ (r.sending <=> r.unsent > 0) /\ r.unsent \in Nat
    BY <1>4, <1>6, <1>9 DEF Still
  <2>2. Lively(r)
    BY <1>1, <1>11, <1>13, <2>1 DEF Lively, Still, Flushed
  <2>3. TimersInState(r) /\ Replies(r)
    BY <1>1, <1>10, <1>11 DEF TimersInState, Replies, Follows
  <2>4. HandlerInv(r, handler')
    BY <1>1, <1>11, <2>1 DEF HandlerInv, Still
  <2>. QED
    BY <1>11, <1>13, <2>2, <2>3, <2>4 DEF Good, RInv
<1>. QED
  BY <1>3, <1>12, <1>13

LEMMA ClosingStepsGood ==
  ASSUME IInv,
         OnClientRecvEnd \/ OnClientSendError \/ OnUdpRelayStopped \/ RelayEnds \/ ServerStop
  PROVE  Good
<1>. USE SessionInv
<1>1. handler' = handler /\ handler \in {"none", "start"}
  BY DEF OnClientRecvEnd, OnClientSendError, OnUdpRelayStopped, RelayEnds, ServerStop,
         LockFree
<1>2. PICK r \in {[s EXCEPT !.reading = FALSE], [s EXCEPT !.sending = FALSE],
                  [s EXCEPT !.udpStop = FALSE], s} : s' = Close(r)
  BY DEF OnClientRecvEnd, OnClientSendError, OnUdpRelayStopped, RelayEnds, ServerStop
<1>3. r \in Session
  <2>1. [s EXCEPT !.reading = FALSE] \in Session
    BY DEF Session
  <2>2. [s EXCEPT !.sending = FALSE] \in Session
    BY DEF Session
  <2>3. [s EXCEPT !.udpStop = FALSE] \in Session
    BY DEF Session
  <2>. QED
    BY <1>2, <2>1, <2>2, <2>3
<1>4. /\ SameTimers(s, r) /\ r.recvs = s.recvs /\ r.log = s.log
      /\ r.closed = s.closed /\ r.state = s.state /\ r.authed = s.authed
  BY <1>2 DEF Session, SameTimers
<1>. QED
  BY <1>1, <1>2, <1>3, <1>4, ChangeCloseGood

LEMMA DnsCallbackGood ==
  ASSUME IInv, DnsCallback
  PROVE  Good
<1>. USE SessionInv
<1>1. handler' = handler /\ handler \in {"none", "start"} /\ ~s.closed
  BY DEF DnsCallback, LockFree
<1>2. ASSUME s' = Close([s EXCEPT !.dns = "none"])
      PROVE  Good
  <2>. DEFINE r == [s EXCEPT !.dns = "none"]
  <2>1. r \in Session
    BY DEF Session
  <2>2. /\ SameTimers(s, r) /\ r.recvs = s.recvs /\ r.log = s.log
        /\ r.closed = s.closed /\ r.state = s.state /\ r.authed = s.authed
    BY DEF Session, SameTimers
  <2>. QED
    BY <1>1, <1>2, <2>1, <2>2, ChangeCloseGood
<1>3. ASSUME NEW v \in {"found", "failed"}, s' = [s EXCEPT !.dns = v]
      PROVE  Good
  <2>1. s' \in Session
    BY <1>3 DEF Session
  <2>2. /\ SameTimers(s, s') /\ s'.recvs = s.recvs /\ s'.log = s.log
        /\ s'.closed = s.closed /\ s'.state = s.state /\ s'.authed = s.authed
        /\ s'.flushClose = s.flushClose /\ s'.reading = s.reading
        /\ s'.unsent = s.unsent /\ s'.sending = s.sending /\ s'.dns = v
        /\ s'.connecting = s.connecting /\ s'.dest = s.dest /\ s'.udp = s.udp
    BY <1>3 DEF Session, SameTimers
  <2>3. Lively(s')
    BY <2>2 DEF Lively
  <2>. QED
    BY <1>1, <2>1, <2>2, <2>3, ChangeGood
<1>. QED
  BY <1>2, <1>3 DEF DnsCallback

(* An answer for a session that resolves: it connects, or replies that it  *)
(* cannot.                                                                 *)
LEMMA OnDnsResolvedGood ==
  ASSUME IInv, OnDnsResolved
  PROVE  Good
<1>. USE SessionInv
<1>1. /\ handler' = handler /\ handler \in {"none", "start"} /\ ~s.closed
      /\ s.state = "Resolving"
  BY DEF OnDnsResolved, LockFree
<1>. DEFINE r == [s EXCEPT !.dns = "none"]
<1>2. PICK ok \in PostOutcomes, wr \in PostOutcomes, how \in ConnectOutcomes :
        \/ s' = FailAndClose(r, ok, wr)
        \/ s' = RequestCloseAfterFlush(ConnectToHost(r, how, ok, wr))
        \/ s' = ConnectToHost(r, how, ok, wr) /\ ~ConnectFails(how)
  BY DEF OnDnsResolved
<1>3. ok \in BOOLEAN /\ wr \in BOOLEAN
  BY PostsAreBoolean
<1>4. r \in Session
  BY DEF Session
<1>5. /\ SameTimers(s, r) /\ SameQueue(s, r) /\ r.recvs = s.recvs /\ r.log = s.log
      /\ r.closed = s.closed /\ r.state = s.state /\ r.authed = s.authed
      /\ r.flushClose = s.flushClose
  BY DEF Session, SameTimers, SameQueue
<1>. HIDE DEF r
<1>6. Follows(s, r)
  BY <1>1, <1>4, <1>5, FlowFollows
<1>7. /\ Sane(r) /\ Seen(r) /\ ~r.closed /\ ~Replied(r.log) /\ ConnQuiet(r)
      /\ r.state = "Resolving" /\ (HasCredentials => r.authed)
      /\ r.sending <=> r.unsent > 0
      /\ r.flushClose => r.sending
  BY <1>1, <1>5, <1>6
     DEF Follows, Replies, TimersInState, AuthInv, Lively, SameQueue
<1>8. RInv(FailAndClose(r, ok, wr)) /\ Follows(r, FailAndClose(r, ok, wr))
  BY <1>3, <1>7, FailInv
<1>9. RInv(ConnectToHost(r, how, ok, wr)) /\ Keeps(r, ConnectToHost(r, how, ok, wr))
  BY <1>3, <1>7, ConnectInv
<1>10. RInv(s') /\ Keeps(s, s') /\ s'.state \notin Proto
  <2>1. CASE s' = FailAndClose(r, ok, wr)
    <3>1. s'.state = "Closing"
      BY <1>3, <1>7, <2>1, FailEffect
    <3>. QED
      BY <1>6, <1>8, <2>1, <3>1 DEF Follows, Keeps, Proto
  <2>2. ConnectToHost(r, how, ok, wr).state \in {"Connecting", "Closing"}
    BY <1>3, <1>7, ConnectState
  <2>3. CASE s' = ConnectToHost(r, how, ok, wr)
    BY <1>6, <1>9, <2>2, <2>3 DEF Follows, Keeps, Proto
  <2>4. CASE s' = RequestCloseAfterFlush(ConnectToHost(r, how, ok, wr))
    <3>. DEFINE c == ConnectToHost(r, how, ok, wr)
    <3>1. RInv(s') /\ Follows(c, s')
      BY <1>9, <2>4, FlushInv
    <3>2. s'.state = c.state
      BY <1>9, <2>4, FlushEffect DEF RInv
    <3>. QED
      BY <1>6, <1>9, <2>2, <3>1, <3>2 DEF Follows, Keeps, Proto
  <2>. QED
    BY <1>2, <2>1, <2>3, <2>4
<1>. QED
  BY <1>1, <1>10 DEF Good, HandlerInv

LEMMA OnDestConnectGood ==
  ASSUME IInv, OnDestConnect
  PROVE  Good
<1>. USE SessionInv
<1>1. handler' = handler /\ handler \in {"none", "start"} /\ ~s.closed
  BY DEF OnDestConnect, LockFree
<1>. DEFINE a == [s EXCEPT !.connecting = FALSE]
            r == CancelConnectTimer(a)
            d == [r EXCEPT !.dest = FALSE]
<1>2. PICK up \in BOOLEAN, started \in PostOutcomes, ok \in PostOutcomes, wr \in PostOutcomes :
        s' = IF ~ConnectWanted(r) THEN r
             ELSE IF ~up THEN FailAndClose(d, ok, wr)
             ELSE StartRelay(SendSocksReply(r, "Succeeded", ok, wr), started)
  BY DEF OnDestConnect
<1>3. ok \in BOOLEAN /\ wr \in BOOLEAN /\ started \in BOOLEAN
  BY PostsAreBoolean
<1>4. a \in Session
  BY DEF Session
<1>5. /\ SameTimers(s, a) /\ SameQueue(s, a) /\ a.recvs = s.recvs /\ a.log = s.log
      /\ a.closed = s.closed /\ a.state = s.state /\ a.authed = s.authed
      /\ a.flushClose = s.flushClose /\ a.dns = s.dns /\ a.reading = s.reading
      /\ a.dest = s.dest /\ a.udp = s.udp
  BY DEF Session, SameTimers, SameQueue
<1>. HIDE DEF a
<1>6. Follows(s, a)
  BY <1>1, <1>4, <1>5, FlowFollows
<1>7. Follows(a, r) /\ SameFlow(a, r) /\ ConnQuiet(r)
  BY <1>6, CancelConnectEffect DEF Follows
<1>. HIDE DEF r
<1>8. Follows(s, r) /\ Sane(r) /\ Seen(r) /\ Keeps(s, r) /\ r \in Session
  BY <1>6, <1>7, FollowsTransitive DEF Follows, Keeps, Sane
<1>9. /\ SameQueue(s, r) /\ r.log = s.log /\ r.closed = s.closed /\ r.state = s.state
      /\ r.authed = s.authed /\ r.flushClose = s.flushClose /\ r.dns = s.dns
      /\ r.reading = s.reading /\ r.dest = s.dest /\ r.udp = s.udp
  BY <1>5, <1>7 DEF SameFlow, Still, SameQueue
<1>10. CASE s.state # "Connecting"
  <2>1. s' = r
    BY <1>2, <1>9, <1>10 DEF ConnectWanted
  <2>2. AuthInv(r) /\ Replies(r) /\ Lively(r) /\ TimersInState(r)
    BY <1>7, <1>8, <1>9, <1>10
       DEF AuthInv, Replies, Lively, TimersInState, Follows, SameQueue
  <2>3. HandlerInv(r, handler')
    BY <1>1, <1>9 DEF HandlerInv
  <2>. QED
    BY <1>8, <2>1, <2>2, <2>3 DEF Good, RInv
<1>11. CASE s.state = "Connecting"
  <2>1. /\ ~r.closed /\ ~Replied(r.log) /\ r.state = "Connecting" /\ IdleQuiet(r)
        /\ (HasCredentials => r.authed) /\ (r.flushClose => r.sending)
        /\ r.log \in Seq(Message) /\ r.unsent \in Nat
    BY <1>1, <1>8, <1>9, <1>11, SessionFields
       DEF Replies, AuthInv, Lively, SameQueue, TimersInState, Follows, Proto
  <2>2. CASE s' = FailAndClose(d, ok, wr)
    <3>1. d \in Session
      BY <1>8 DEF Session
    <3>2. /\ SameTimers(r, d) /\ d.recvs = r.recvs /\ d.log = r.log
          /\ d.closed = r.closed /\ d.state = r.state /\ d.authed = r.authed
      BY <1>8 DEF Session, SameTimers
    <3>. HIDE DEF d
    <3>3. Follows(r, d)
      BY <1>8, <2>1, <3>1, <3>2, FlowFollows
    <3>4. Sane(d) /\ Seen(d) /\ ~d.closed /\ ~Replied(d.log) /\ d.state # "Closing"
      BY <1>8, <2>1, <3>2, <3>3 DEF Follows
    <3>5. RInv(s') /\ Follows(d, s')
      BY <1>3, <2>2, <3>4, FailInv
    <3>6. s'.state = "Closing"
      BY <1>3, <2>2, <3>4, FailEffect
    <3>. QED
      BY <1>1, <1>8, <3>3, <3>5, <3>6 DEF Good, HandlerInv, Follows, Keeps, Proto
  <2>3. CASE s' = StartRelay(SendSocksReply(r, "Succeeded", ok, wr), started)
    <3>. DEFINE c == SendSocksReply(r, "Succeeded", ok, wr)
    <3>1. "Succeeded" \in Message
      BY DEF Message
    <3>2. /\ Follows(r, c) /\ c.log \in {r.log, Append(r.log, "Succeeded")}
          /\ c.closed \/ (/\ Still(r, c) /\ c.sending /\ c.unsent = r.unsent + 1
                          /\ c.log = Append(r.log, "Succeeded"))
      BY <1>3, <1>8, <3>1, ReplyEffect
    <3>. HIDE DEF c
    <3>3. /\ Follows(c, s') /\ IdleQuiet(s') /\ s'.state = "Relaying" /\ s'.log = c.log
          /\ \/ s'.closed
             \/ /\ s'.reading /\ s'.dest /\ SameQueue(c, s') /\ ~c.closed
                /\ s'.flushClose = c.flushClose
      BY <1>3, <2>3, <3>2, RelayEffect DEF Follows, c
    <3>4. Follows(r, s')
      BY <3>2, <3>3, FollowsTransitive
    <3>5. Sane(s') /\ Seen(s') /\ ConnQuiet(s') /\ Keeps(s, s') /\ s'.authed = r.authed
      BY <1>7, <1>8, <3>4 DEF Follows, Keeps
    <3>6. OnceReplied(r.log) /\ OnceReplied(Append(r.log, "Succeeded"))
          /\ Says(Append(r.log, "Succeeded"), "Succeeded")
      BY <2>1, <3>1, LogAppend
    <3>7. Replies(s')
      BY <3>2, <3>3, <3>6 DEF Replies
    <3>8. AuthInv(s') /\ Lively(s') /\ TimersInState(s')
      BY <2>1, <3>2, <3>3, <3>5 DEF AuthInv, Lively, TimersInState, SameQueue
    <3>. QED
      BY <1>1, <3>3, <3>5, <3>7, <3>8 DEF Good, RInv, HandlerInv, Proto
  <2>. QED
    BY <1>2, <1>9, <1>11, <2>2, <2>3 DEF ConnectWanted
<1>. QED
  BY <1>10, <1>11

LEMMA UdpRelayStopsGood ==
  ASSUME IInv, UdpRelayStops
  PROVE  Good
<1>. USE SessionInv
<1>1. PICK ok \in PostOutcomes : s' = [s EXCEPT !.udp = "stopped", !.udpStop = ok]
  BY DEF UdpRelayStops
<1>2. ok \in BOOLEAN
  BY PostsAreBoolean
<1>3. s' \in Session
  BY <1>1, <1>2 DEF Session
<1>4. /\ SameTimers(s, s') /\ s'.recvs = s.recvs /\ s'.log = s.log
      /\ s'.closed = s.closed /\ s'.state = s.state /\ s'.authed = s.authed
      /\ s'.flushClose = s.flushClose /\ s'.reading = s.reading
      /\ s'.unsent = s.unsent /\ s'.sending = s.sending /\ s'.dns = s.dns
      /\ s'.connecting = s.connecting /\ s'.dest = s.dest /\ s'.udp = "stopped"
  BY <1>1 DEF Session, SameTimers
<1>5. Lively(s')
  BY <1>4 DEF Lively
<1>. QED
  BY <1>3, <1>4, <1>5, ChangeGood DEF UdpRelayStops

LEMMA DrainGood ==
  ASSUME IInv, Drain
  PROVE  Good
<1>. USE SessionInv
<1>1. \/ s' = [s EXCEPT !.reading = FALSE] \/ s' = [s EXCEPT !.sending = FALSE]
      \/ s' = [s EXCEPT !.connecting = FALSE] \/ s' = [s EXCEPT !.dns = "none"]
      \/ s' = [s EXCEPT !.udpStop = FALSE]
  BY DEF Drain
<1>2. s' \in Session
  <2>1. [s EXCEPT !.reading = FALSE] \in Session
    BY DEF Session
  <2>2. [s EXCEPT !.sending = FALSE] \in Session
    BY DEF Session
  <2>3. [s EXCEPT !.connecting = FALSE] \in Session
    BY DEF Session
  <2>4. [s EXCEPT !.dns = "none"] \in Session
    BY DEF Session
  <2>5. [s EXCEPT !.udpStop = FALSE] \in Session
    BY DEF Session
  <2>. QED
    BY <1>1, <2>1, <2>2, <2>3, <2>4, <2>5
<1>3. /\ SameTimers(s, s') /\ s'.recvs = s.recvs /\ s'.log = s.log
      /\ s'.closed = s.closed /\ s'.state = s.state /\ s'.authed = s.authed
      /\ s'.flushClose = s.flushClose
  BY <1>1 DEF Session, SameTimers
<1>4. s'.closed /\ Lively(s')
  BY <1>3 DEF Drain, Lively
<1>. QED
  BY <1>2, <1>3, <1>4, ChangeGood DEF Drain

-----------------------------------------------------------------------------
(* A due timer is claimed: from now on it cannot be cancelled. *)
LEMMA TimerDueGood ==
  ASSUME IInv, NEW t \in s.timers, TimerDue(t)
  PROVE  Good
<1>. USE SessionInv
<1>. DEFINE p == [t EXCEPT !.posted = TRUE]
            ts == (s.timers \ {t}) \cup {p}
<1>1. /\ ~t.posted /\ handler' = handler /\ s' = [s EXCEPT !.timers = ts]
  BY DEF TimerDue, Session
<1>2. t \in Timer /\ s.timers \in SUBSET Timer
  BY SessionFields
<1>3. /\ p \in Timer /\ p.kind = t.kind /\ p.gen = t.gen /\ p.seen = t.seen /\ p.posted
  BY <1>2 DEF Timer
<1>. HIDE DEF p
<1>4. ts \in SUBSET Timer
  BY <1>2, <1>3
<1>5. \A u \in ts : u = p \/ (u \in s.timers /\ u # t)
  OBVIOUS
<1>6. p \in ts /\ \A u \in s.timers : u # t => u \in ts
  OBVIOUS
<1>. HIDE DEF ts
<1>7. s' \in Session
  BY <1>1, <1>4 DEF Session
<1>8. /\ s'.timers = ts /\ s'.idleGen = s.idleGen /\ s'.idleTimer = s.idleTimer
      /\ s'.connGen = s.connGen /\ s'.connTimer = s.connTimer
  BY <1>1 DEF Session
<1>9. SameFlow(s, s')
  BY <1>1 DEF Session, SameFlow, Still, SameQueue
<1>10. ~s.closed
  BY <1>1, <1>2, TimerFields DEF TimersSane, IdleQuiet, ConnQuiet
<1>11. ~IdleQuiet(s) \/ t.kind # "idle"
  BY <1>1 DEF IdleQuiet
<1>12. ~ConnQuiet(s) \/ t.kind # "connect"
  BY <1>1 DEF ConnQuiet
<1>13. IdleQuiet(s) => IdleQuiet(s')
  BY <1>3, <1>5, <1>8, <1>11 DEF IdleQuiet
<1>14. ConnQuiet(s) => ConnQuiet(s')
  BY <1>3, <1>5, <1>8, <1>12 DEF ConnQuiet
<1>15. TimersSane(s')
  <2>1. ASSUME NEW u \in ts
        PROVE  u.gen > 0 /\ u.gen <= GenOf(s', u) /\ (~u.posted => u.gen = IdOf(s', u))
    BY <1>3, <1>5, <1>8 DEF TimersSane, GenOf, IdOf
  <2>2. ASSUME NEW u \in ts, NEW v \in ts, u.kind = v.kind, u.gen = v.gen
        PROVE  u = v
    BY <1>3, <1>5, <2>2 DEF TimersSane
  <2>. QED
    BY <1>8, <1>9, <1>10, <2>1, <2>2 DEF TimersSane, SameFlow, Still
<1>16. Seen(s')
  BY <1>3, <1>5, <1>8, <1>9 DEF Seen, SameFlow
<1>17. TimersInState(s') /\ Replies(s') /\ AuthInv(s') /\ Lively(s')
  BY <1>9, <1>13, <1>14
     DEF TimersInState, Replies, AuthInv, Lively, SameFlow, Still, SameQueue
<1>18. HandlerInv(s', handler')
  BY <1>1, <1>9 DEF HandlerInv, SameFlow, Still
<1>19. Keeps(s, s')
  BY <1>1, <1>6, <1>8 DEF Keeps
<1>. QED
  BY <1>7, <1>15, <1>16, <1>17, <1>18, <1>19 DEF Good, RInv, Sane

(* A completion of a timer is taken from the port; of the current          *)
(* generation, it is the last that its id can stand for.                   *)
LEMMA TimerGone ==
  ASSUME IInv, NEW t \in s.timers, t.posted, NEW c \in Session,
         c.timers = s.timers \ {t}, c.idleGen = s.idleGen, c.connGen = s.connGen,
         c.recvs = s.recvs, c.closed = s.closed,
         \/ c.idleTimer = s.idleTimer
         \/ t.kind = "idle" /\ CurrentGeneration(s, t) /\ c.idleTimer = 0,
         \/ c.connTimer = s.connTimer
         \/ t.kind = "connect" /\ CurrentGeneration(s, t) /\ c.connTimer = 0
  PROVE  /\ Sane(c) /\ Seen(c)
         /\ IdleQuiet(s) => IdleQuiet(c)
         /\ ConnQuiet(s) => ConnQuiet(c)
<1>. USE SessionInv
<1>1. IdleQuiet(s) => IdleQuiet(c)
  BY DEF IdleQuiet
<1>2. ConnQuiet(s) => ConnQuiet(c)
  BY DEF ConnQuiet
<1>3. /\ s.idleGen \in Nat /\ s.connGen \in Nat
      /\ \A u \in s.timers : u.gen \in Nat /\ u.kind \in {"idle", "connect"}
  BY SessionFields, TimerFields
<1>4. ASSUME NEW u \in c.timers, ~u.posted
      PROVE  u.gen = IdOf(c, u)
  <2>1. u \in s.timers /\ u # t /\ u.gen = IdOf(s, u) /\ u.gen > 0
    BY <1>4 DEF TimersSane
  <2>2. u.gen = GenOf(s, u)
    BY <1>3, <2>1 DEF TimersSane, GenOf, IdOf
  <2>3. CurrentGeneration(s, t) => t.kind # u.kind
    BY <2>1, <2>2 DEF CurrentGeneration, GenOf, TimersSane
  <2>. QED
    BY <1>3, <2>1, <2>3 DEF IdOf
<1>5. \A u \in c.timers : u.gen > 0 /\ u.gen <= GenOf(c, u)
  BY DEF TimersSane, GenOf
<1>6. c.idleTimer \in {0, c.idleGen} /\ c.connTimer \in {0, c.connGen}
  BY DEF TimersSane
<1>7. \A u, v \in c.timers : u.kind = v.kind /\ u.gen = v.gen => u = v
  BY DEF TimersSane
<1>8. TimersSane(c)
  BY <1>1, <1>2, <1>4, <1>5, <1>6, <1>7 DEF TimersSane
<1>9. Seen(c)
  BY DEF Seen
<1>. QED
  BY <1>1, <1>2, <1>8, <1>9 DEF Sane

(* Only the completion handled is gone; if it was that of an idle timer,   *)
(* and it closed the session, nothing was received since it was armed.     *)
LEMMA OnTimerInv ==
  ASSUME IInv, NEW t \in s.timers, OnTimer(t)
  PROVE  /\ RInv(s') /\ HandlerInv(s', handler')
         /\ \A u \in s.timers : u.posted /\ u # t => u \in s'.timers
         /\ t.kind = "idle" /\ ~s.closed /\ s'.closed => t.seen = s.recvs
<1>. USE SessionInv
<1>. DEFINE ts == s.timers \ {t}
            r == [s EXCEPT !.timers = ts]
            c == IF t.kind = "idle" THEN [r EXCEPT !.idleTimer = 0]
                 ELSE [r EXCEPT !.connTimer = 0]
            d == [c EXCEPT !.dest = FALSE]
<1>1. t.posted /\ handler' = handler /\ handler \in {"none", "start"}
  BY DEF OnTimer, LockFree
<1>2. PICK ok \in PostOutcomes, wr \in PostOutcomes :
        s' = IF s.closed \/ ~CurrentGeneration(s, t) THEN r
             ELSE IF t.kind = "connect" /\ s.state = "Connecting"
             THEN FailAndClose(d, ok, wr)
             ELSE IF t.kind = "idle" /\ s.state \in Proto
             THEN Close(c) ELSE c
  BY DEF OnTimer, Session
<1>3. ok \in BOOLEAN /\ wr \in BOOLEAN
  BY PostsAreBoolean
<1>4. ts \in SUBSET Timer /\ t \in Timer
  BY SessionFields
<1>5. t.kind \in {"idle", "connect"}
  BY <1>4, TimerFields
<1>6. \A u \in s.timers : u # t => u \in ts
  OBVIOUS
<1>. HIDE DEF ts
<1>7. r \in Session
  BY <1>4 DEF Session
<1>8. /\ r.timers = ts /\ r.idleGen = s.idleGen /\ r.idleTimer = s.idleTimer
      /\ r.connGen = s.connGen /\ r.connTimer = s.connTimer
  BY DEF Session
<1>9. SameFlow(s, r)
  BY DEF Session, SameFlow, Still, SameQueue
<1>. HIDE DEF r
<1>10. c \in Session
  <2>1. [r EXCEPT !.idleTimer = 0] \in Session
    BY <1>7 DEF Session
  <2>2. [r EXCEPT !.connTimer = 0] \in Session
    BY <1>7 DEF Session
  <2>. QED
    BY <2>1, <2>2
<1>11. /\ c.timers = ts /\ c.idleGen = s.idleGen /\ c.connGen = s.connGen
       /\ c.idleTimer = IF t.kind = "idle" THEN 0 ELSE s.idleTimer
       /\ c.connTimer = IF t.kind = "idle" THEN s.connTimer ELSE 0
  BY <1>7, <1>8 DEF Session
<1>12. SameFlow(s, c)
  <2>1. SameFlow(r, c)
    BY <1>7 DEF Session, SameFlow, Still, SameQueue
  <2>. QED
    BY <1>9, <2>1 DEF SameFlow, Still, SameQueue
<1>. HIDE DEF c
<1>13. ASSUME NEW x \in {r, c}, s' = x, Sane(x), Seen(x), IdleQuiet(s) => IdleQuiet(x),
              ConnQuiet(s) => ConnQuiet(x)
       PROVE  RInv(s') /\ HandlerInv(s', handler') /\ s'.timers = ts /\ s'.closed = s.closed
  <2>1. SameFlow(s, x) /\ x.timers = ts
    BY <1>8, <1>9, <1>11, <1>12
  <2>2. TimersInState(x) /\ Replies(x) /\ AuthInv(x) /\ Lively(x)
    BY <1>13, <2>1
       DEF TimersInState, Replies, AuthInv, Lively, SameFlow, Still, SameQueue
  <2>3. HandlerInv(x, handler')
    BY <1>1, <2>1 DEF HandlerInv, SameFlow, Still
  <2>. QED
    BY <1>13, <2>1, <2>2, <2>3 DEF RInv, SameFlow, Still
<1>14. CASE s' = r
  <2>1. Sane(r) /\ Seen(r) /\ (IdleQuiet(s) => IdleQuiet(r)) /\ (ConnQuiet(s) => ConnQuiet(r))
    BY <1>1, <1>7, <1>8, <1>9, TimerGone DEF ts, SameFlow, Still
  <2>. QED
    BY <1>6, <1>13, <1>14, <2>1
<1>15. CASE ~s.closed /\ CurrentGeneration(s, t) /\ s' # r
  <2>1. /\ Sane(c) /\ Seen(c) /\ (IdleQuiet(s) => IdleQuiet(c))
        /\ ConnQuiet(s) => ConnQuiet(c)
    BY <1>1, <1>5, <1>10, <1>11, <1>12, <1>15, TimerGone DEF ts, SameFlow, Still
  <2>2. t.kind = "idle" => t.seen = s.recvs
    BY <1>15 DEF Seen, CurrentGeneration
  <2>3. CASE s' = c
    BY <1>6, <1>13, <2>1, <2>2, <2>3
  <2>4. CASE s' = Close(c)
    <3>1. AuthInv(c) /\ OnceReplied(c.log)
      BY <1>12 DEF AuthInv, SameFlow
    <3>2. RInv(s') /\ Follows(c, s') /\ s'.closed
      BY <2>1, <2>4, <3>1, CloseInv, CloseEffect
    <3>. QED
      BY <1>1, <1>6, <1>11, <2>2, <3>2 DEF HandlerInv, Follows
  <2>5. CASE s' = FailAndClose(d, ok, wr) /\ t.kind = "connect" /\ s.state = "Connecting"
    <3>1. d \in Session
      BY <1>10 DEF Session
    <3>2. /\ SameTimers(c, d) /\ d.recvs = c.recvs /\ d.authed = c.authed
          /\ d.closed = c.closed /\ d.state = c.state /\ d.log = c.log
      BY <1>10 DEF Session, SameTimers
    <3>. HIDE DEF d
    <3>3. c.closed = s.closed /\ c.state = s.state /\ c.log = s.log
      BY <1>12 DEF SameFlow, Still
    <3>4. Follows(c, d)
      BY <1>15, <2>1, <3>1, <3>2, <3>3, FlowFollows
    <3>5. Sane(d) /\ Seen(d) /\ ~d.closed /\ ~Replied(d.log) /\ d.state # "Closing"
      BY <1>15, <2>1, <2>5, <3>2, <3>3, <3>4 DEF Follows, Replies
    <3>6. RInv(s') /\ Follows(d, s')
      BY <1>3, <2>5, <3>5, FailInv
    <3>7. s'.state = "Closing"
      BY <1>3, <2>5, <3>5, FailEffect
    <3>. QED
      BY <1>1, <1>6, <1>11, <2>5, <3>2, <3>6, <3>7 DEF HandlerInv, Follows, SameTimers, Proto
  <2>. QED
    BY <1>2, <1>15, <2>3, <2>4, <2>5
<1>. QED
  BY <1>2, <1>14, <1>15

-----------------------------------------------------------------------------
LEMMA InitInv == Init => IInv
<1>. SUFFICES ASSUME Init PROVE IInv
  OBVIOUS
<1>1. s \in Session
  <2>1. /\ "Handshake" \in States /\ 0 \in 0..MaxBuffered /\ {} \in SUBSET Timer
        /\ <<>> \in Seq(Message)
    BY BoundsAssumption DEF States, Proto
  <2>. QED
    BY <2>1 DEF Init, Session
<1>2. /\ s.state = "Handshake" /\ ~s.closed /\ ~s.flushClose /\ s.unsent = 0 /\ ~s.sending
      /\ s.timers = {} /\ s.idleGen = 0 /\ s.idleTimer = 0 /\ s.connGen = 0
      /\ s.connTimer = 0 /\ s.log = <<>> /\ handler = "accept"
  BY DEF Init
<1>3. DOMAIN s.log = {}
  BY <1>2
<1>4. Sane(s) /\ Seen(s) /\ TimersInState(s)
  BY <1>1, <1>2 DEF Sane, TimersSane, Seen, TimersInState, IdleQuiet, ConnQuiet
<1>5. Replies(s)
  BY <1>2, <1>3 DEF Replies, Replied, Says, OnceReplied
<1>6. AuthInv(s) /\ Lively(s) /\ HandlerInv(s, handler)
  BY <1>2 DEF AuthInv, Lively, HandlerInv
<1>. QED
  BY <1>4, <1>5, <1>6 DEF IInv, RInv

(* A step other than the completion of a timer keeps the invariant and     *)
(* every completion of a timer that is in the port.                        *)
LEMMA StepGood ==
  ASSUME IInv, [Next]_vars, ~ \E t \in s.timers : OnTimer(t)
  PROVE  Good
<1>1. CASE UNCHANGED vars
  BY <1>1 DEF vars, Good, IInv, Keeps
<1>2. CASE Start \/ StartRead \/ OnClientRecv
  BY <1>2, StartGood, StartReadGood, OnClientRecvGood
<1>3. CASE Process
  BY <1>3, HandshakeGood, AuthGood, GssapiAuthGood, GssapiProtectGood, RequestGood,
     LoopEndsGood DEF Process
<1>4. CASE OnClientRecvEnd \/ OnClientSendError \/ OnUdpRelayStopped \/ RelayEnds \/ ServerStop
  BY <1>4, ClosingStepsGood
<1>5. CASE OnClientSend \/ DnsCallback \/ OnDnsResolved \/ OnDestConnect
  BY <1>5, OnClientSendGood, DnsCallbackGood, OnDnsResolvedGood, OnDestConnectGood
<1>6. CASE UdpRelayStops \/ Drain
  BY <1>6, UdpRelayStopsGood, DrainGood
<1>7. CASE \E t \in s.timers : TimerDue(t)
  BY <1>7, TimerDueGood
<1>. QED
  BY <1>1, <1>2, <1>3, <1>4, <1>5, <1>6, <1>7 DEF Next, Ended

LEMMA NextInv == IInv /\ [Next]_vars => IInv'
<1>. SUFFICES ASSUME IInv, [Next]_vars PROVE IInv'
  OBVIOUS
<1>1. CASE \E t \in s.timers : OnTimer(t)
  BY <1>1, OnTimerInv DEF IInv
<1>2. CASE ~ \E t \in s.timers : OnTimer(t)
  BY <1>2, StepGood DEF Good, IInv
<1>. QED
  BY <1>1, <1>2

(* The invariant holds in every reachable state of the session, so in      *)
(* particular the buffered protocol input stays within                     *)
(* kMaxProtocolBuffered (OnClientRecv).                                    *)
THEOREM Invariance == Spec => []IInv
BY InitInv, NextInv, PTL DEF Spec

(* ingest_ never outgrows kMaxProtocolBuffered, and the session's members  *)
(* keep their types.                                                       *)
THEOREM TypeCorrect == Spec => []TypeOK
<1>1. IInv => TypeOK
  BY DEF IInv, RInv, Sane, Session, HandlerInv, TypeOK
<1>. QED
  BY <1>1, Invariance, PTL

(* A request gets at most one SOCKS reply, in whatever order the           *)
(* connection, its timer, the resolver and failing posts come in           *)
(* (FailAndClose, OnDestConnect, OnTimer).                                 *)
THEOREM RepliesOnce == Spec => []OneReply
<1>1. ASSUME IInv PROVE OneReply
  <2>. DEFINE R == {i \in DOMAIN s.log : s.log[i] \in {"Succeeded", "Failure"}}
  <2>1. \A i, j \in R : i = j
    BY <1>1, SessionInv DEF OnceReplied
  <2>2. CASE R = {}
    BY <2>2, FS_EmptySet DEF OneReply
  <2>3. CASE R # {}
    <3>1. PICK i \in R : TRUE
      BY <2>3
    <3>2. R = {i}
      BY <2>1, <3>1
    <3>3. Cardinality(R) = 1
      BY <3>2, FS_Singleton
    <3>. QED
      BY <3>3 DEF OneReply
  <2>. QED
    BY <2>2, <2>3
<1>. QED
  BY <1>1, Invariance, PTL

(* The success reply is true of an open session, and no session is served  *)
(* without it (StartRelay, the UDP branch of ProcessRequestBuffer).        *)
THEOREM SuccessIsTrue == Spec => []SuccessMeansService
<1>1. ASSUME IInv PROVE SuccessMeansService
  <2>1. ~s.closed => /\ Says(s.log, "Succeeded") <=> s.state \in {"Relaying", "UdpAssociate"}
                     /\ s.state = "Relaying" => s.dest
                     /\ s.state = "UdpAssociate" => s.udp # "none"
    BY <1>1, SessionInv DEF Replies, Lively
  <2>. QED
    BY <2>1 DEF SuccessMeansService, Says
<1>. QED
  BY <1>1, Invariance, PTL

(* With credentials configured nothing is served before the client has     *)
(* authenticated (SelectAuthMethod, ProcessAuthBuffer, GSSAPI).            *)
THEOREM NoneServedUnknown == Spec => []Authenticated
<1>1. IInv => Authenticated
  BY SessionInv DEF AuthInv, Authenticated
<1>. QED
  BY <1>1, Invariance, PTL

(* An open session always has an operation outstanding that moves it on    *)
(* (BeginClientRead, PumpSend, ConnectToHost, dnsCtx_).                    *)
THEOREM SessionsMoveOn == Spec => []NoZombie
<1>1. ASSUME IInv, ~s.closed, handler = "none"
      PROVE  IF s.flushClose THEN s.sending
             ELSE CASE s.state = "Resolving" -> s.dns # "none"
                    [] s.state = "Connecting" -> s.connecting
                    [] OTHER -> s.reading
  <2>1. s.state \in States
    BY <1>1, SessionInv, SessionFields
  <2>2. Lively(s) /\ HandlerInv(s, handler)
    BY <1>1, SessionInv
  <2>3. s.flushClose => s.sending
    BY <1>1, <2>2 DEF Lively
  <2>4. ~s.flushClose => /\ s.state = "Resolving" => s.dns # "none"
                         /\ s.state = "Connecting" => s.connecting
                         /\ s.state \notin {"Resolving", "Connecting"} => s.reading
    BY <1>1, <2>1, <2>2 DEF Lively, HandlerInv, States
  <2>. QED
    BY <2>3, <2>4
<1>2. IInv => NoZombie
  BY <1>1 DEF NoZombie
<1>. QED
  BY <1>2, Invariance, PTL

(* A timer that can still fire is the one whose id is held, in a state     *)
(* that it is for, and none is left of a closed session (ArmIdleTimer,     *)
(* ArmConnectTimer, the Cancel calls, Close).                              *)
THEOREM NoTimerLeaks == Spec => []NoLeakedTimer
<1>1. ASSUME IInv, NEW t \in s.timers, ~t.posted
      PROVE  /\ ~s.closed
             /\ IF t.kind = "idle" THEN t.gen = s.idleTimer /\ s.state \in Proto
                ELSE t.gen = s.connTimer /\ s.state = "Connecting"
  <2>1. t.kind \in {"idle", "connect"}
    BY <1>1, SessionInv, SessionFields, TimerFields
  <2>2. TimersSane(s) /\ TimersInState(s)
    BY <1>1, SessionInv
  <2>. QED
    BY <1>1, <2>1, <2>2 DEF TimersSane, TimersInState, IdleQuiet, ConnQuiet, IdOf
<1>2. IInv => NoLeakedTimer
  BY <1>1 DEF NoLeakedTimer
<1>. QED
  BY <1>2, Invariance, PTL

(* The idle timeout closes only a session that has received nothing since  *)
(* the timer was armed: OnTimer tells by the generation.                   *)
THEOREM IdleClosesIdle == Spec => IdleMeansIdle
<1>. DEFINE A == \A t \in s.timers :
                   (t.kind = "idle" /\ t.posted /\ t \notin s'.timers /\ ~s.closed /\ s'.closed)
                     => t.seen = s.recvs
<1>1. ASSUME IInv, [Next]_vars PROVE A
  <2>1. CASE ~ \E t \in s.timers : OnTimer(t)
    BY <1>1, <2>1, StepGood DEF Good, Keeps
  <2>2. ASSUME NEW u \in s.timers, OnTimer(u) PROVE A
    BY <1>1, <2>2, OnTimerInv
  <2>. QED
    BY <2>1, <2>2
<1>2. IInv /\ [Next]_vars => [A]_vars
  BY <1>1
<1>. QED
  BY <1>2, Invariance, PTL DEF Spec, IdleMeansIdle
=============================================================================
