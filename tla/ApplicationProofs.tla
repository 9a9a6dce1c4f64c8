------------------------- MODULE ApplicationProofs -------------------------
(***************************************************************************)
(* Proofs about Application, for any number of processes, any length of    *)
(* the countdown and any limit on failed checks.                           *)
(***************************************************************************)
EXTENDS Application, TLAPS

Places == {"none", "config", "counting", "elevated", "refused", "owner", "starting",
           "serving", "caught", "retrying", "joining", "leaving", "cleanup", "thrown",
           "failed", "paused", "ending", "gone"}

(* Before main has a monitoring thread. *)
Unmonitored == {"none", "config", "counting", "elevated", "refused", "owner"}

(* When main has nothing more to do with its monitoring thread. *)
Over == {"leaving", "cleanup", "thrown", "failed", "paused", "ending", "gone"}

TypeOK ==
  /\ pc \in [Procs -> Places] /\ again \in [Procs -> BOOLEAN]
  /\ left \in [Procs -> Nat]
  /\ stop \in [Procs -> BOOLEAN] /\ restart \in [Procs -> BOOLEAN]
  /\ mon \in [Procs -> {"off", "head", "output", "request", "stopping", "done"}]
  /\ good \in [Procs -> {0, 1}] /\ checks \in [Procs -> Nat]
  /\ handles \subseteq Procs /\ parent \in [Procs -> Procs \cup {None}]
  /\ final \in [Procs -> BOOLEAN] /\ bad \in [Procs -> Nat]

(* Who is past the guard has the handle, alone; and only they and those    *)
(* who are being refused have one.  Who has launched a process is about to *)
(* end.                                                                    *)
GuardInv ==
  /\ \A p \in Procs : pc[p] \in InGuard => p \in handles
  /\ \A p, q \in Procs : pc[p] \in InGuard /\ pc[q] \in InGuard => p = q
  /\ \A p \in handles : pc[p] \in InGuard \cup {"refused"}
  /\ \A q \in Procs : parent[q] # None => pc[parent[q]] \in {"ending", "gone"}

(* Where the monitoring thread is, by where main is. *)
ThreadInv ==
  \A p \in Procs :
    /\ pc[p] \in Unmonitored => mon[p] = "off"
    /\ pc[p] = "retrying" => mon[p] = "done"
    /\ pc[p] \in Over => mon[p] \in {"off", "done"}

(* What is counted is at most two failures for each bad round, and one     *)
(* more if the first half of a round has failed.                           *)
CheckInv ==
  \A p \in Procs : pc[p] # "gone" =>
    /\ mon[p] # "output" => checks[p] <= 2 * bad[p]
    /\ mon[p] = "output" => checks[p] <= 2 * bad[p] + (1 - good[p])
    /\ mon[p] \in {"request", "stopping"} => checks[p] >= MaxRetry

(* A shutdown that came before any request for a restart finds no request  *)
(* under way and no countdown that has taken its last look.                *)
FinalInv ==
  \A p \in Procs :
    /\ pc[p] \in {"caught", "retrying"} => stop[p]
    /\ final[p] => /\ stop[p] /\ ~restart[p]
                   /\ mon[p] \in {"off", "head", "done"}
                   /\ pc[p] \in {"counting", "retrying"} => left[p] > 0

IInv == TypeOK /\ GuardInv /\ ThreadInv /\ CheckInv /\ FinalInv
-----------------------------------------------------------------------------
(* Launching a process: what changes is typed. *)
LEMMA LaunchTypes ==
  ASSUME TypeOK, NEW p \in Procs, Launch(p)
  PROVE  pc' \in [Procs -> Places] /\ parent' \in [Procs -> Procs \cup {None}]
<1>1. CASE At(p, "ending") /\ UNCHANGED parent
  BY <1>1 DEF At, TypeOK, Places
<1>2. ASSUME NEW q \in Unborn,
             pc' = [pc EXCEPT ![p] = "ending", ![q] = "config"],
             parent' = [parent EXCEPT ![q] = p]
      PROVE  pc' \in [Procs -> Places] /\ parent' \in [Procs -> Procs \cup {None}]
  BY <1>2 DEF Unborn, TypeOK, Places
<1>. QED
  BY <1>1, <1>2 DEF Launch

(* A process that moves within the guard, or outside it, and not away from *)
(* its end, leaves the guard alone.                                        *)
LEMMA GuardKept ==
  ASSUME TypeOK, GuardInv, NEW p \in Procs, UNCHANGED <<handles, parent>>,
         \A q \in Procs \ {p} : pc'[q] = pc[q],
         pc[p] \in InGuard <=> pc'[p] \in InGuard,
         pc[p] # "refused", pc[p] \notin {"ending", "gone"}
  PROVE  GuardInv'
<1>1. \A q \in Procs : pc'[q] \in InGuard => q \in handles' /\ pc[q] \in InGuard
  BY DEF GuardInv
<1>2. \A q \in handles' : pc'[q] \in InGuard \cup {"refused"}
  BY DEF GuardInv, TypeOK
<1>3. ASSUME NEW q \in Procs, parent'[q] # None
      PROVE  pc'[parent'[q]] \in {"ending", "gone"}
  <2>1. parent[q] \in Procs /\ pc[parent[q]] \in {"ending", "gone"}
    BY <1>3 DEF GuardInv, TypeOK
  <2>. QED
    BY <2>1
<1>. QED
  BY <1>1, <1>2, <1>3 DEF GuardInv

(* Launching by a process outside the guard leaves the guard alone. *)
LEMMA LaunchGuards ==
  ASSUME TypeOK, GuardInv, NEW p \in Procs, Launch(p), UNCHANGED handles,
         pc[p] \in {"config", "cleanup"}
  PROVE  GuardInv'
<1>. USE ApplicationAssumption
<1>1. CASE At(p, "ending") /\ UNCHANGED parent
  <2>1. pc'[p] = "ending" /\ \A q \in Procs \ {p} : pc'[q] = pc[q]
    BY <1>1 DEF At, TypeOK
  <2>. QED
    BY <1>1, <2>1, GuardKept DEF InGuard
<1>2. ASSUME NEW q \in Unborn,
             pc' = [pc EXCEPT ![p] = "ending", ![q] = "config"],
             parent' = [parent EXCEPT ![q] = p]
      PROVE  GuardInv'
  <2>1. /\ q \in Procs /\ q # p /\ pc[q] = "none"
        /\ pc'[p] = "ending" /\ pc'[q] = "config"
        /\ \A r \in Procs \ {p, q} : pc'[r] = pc[r]
    BY <1>2 DEF Unborn, TypeOK
  <2>2. parent'[q] = p /\ \A r \in Procs \ {q} : parent'[r] = parent[r]
    BY <1>2, <2>1 DEF TypeOK
  <2>3. \A r \in Procs : pc'[r] \in InGuard => pc[r] \in InGuard /\ r \in handles'
    BY <2>1 DEF GuardInv, InGuard
  <2>4. \A r \in handles' : pc'[r] \in InGuard \cup {"refused"}
    BY <2>1 DEF TypeOK, GuardInv, InGuard
  <2>5. ASSUME NEW r \in Procs, parent'[r] # None
        PROVE  pc'[parent'[r]] \in {"ending", "gone"}
    <3>1. CASE r = q
      BY <2>1, <2>2, <3>1
    <3>2. CASE r # q
      <4>1. parent[r] \in Procs /\ pc[parent[r]] \in {"ending", "gone"}
        BY <2>2, <2>5, <3>2 DEF TypeOK, GuardInv
      <4>. QED
        BY <2>1, <2>2, <3>2, <4>1
    <3>. QED
      BY <3>1, <3>2
  <2>. QED
    BY <2>3, <2>4, <2>5 DEF GuardInv
<1>. QED
  BY <1>1, <1>2 DEF Launch

(* Type correctness of Application is inductive. *)
LEMMA TypeStep ==
  ASSUME IInv, [Next]_vars
  PROVE  TypeOK'
<1>. USE ApplicationAssumption DEF IInv
<1>1. ASSUME NEW p \in Procs, UserLaunches(p) PROVE TypeOK'
  BY <1>1 DEF UserLaunches, Unborn, At, monVars, TypeOK, Places, None
<1>2. ASSUME NEW p \in Procs, Configure(p) PROVE TypeOK'
  <2>1. CASE Launch(p) /\ UNCHANGED left
    BY <1>2, <2>1, LaunchTypes DEF Configure, monVars, TypeOK
  <2>2. CASE ~(Launch(p) /\ UNCHANGED left)
    <3>1. left' \in [Procs -> Nat] /\ UNCHANGED parent
      BY <1>2, <2>2 DEF Configure, TypeOK
    <3>2. pc' \in [Procs -> Places]
      BY <1>2, <2>2, ZenonT(60) DEF Configure, At, TypeOK, Places
    <3>. QED
      BY <1>2, <3>1, <3>2 DEF Configure, monVars, TypeOK
  <2>. QED
    BY <2>1, <2>2
<1>3. ASSUME NEW p \in Procs, TryAcquire(p) PROVE TypeOK'
  BY <1>3 DEF TryAcquire, At, monVars, TypeOK, Places, None
<1>4. ASSUME NEW p \in Procs, Refused(p) PROVE TypeOK'
  BY <1>4 DEF Refused, At, monVars, TypeOK, Places, None
<1>5. ASSUME NEW p \in Procs, Prepare(p) PROVE TypeOK'
  <2>0. PICK x \in {"starting", "thrown"} : pc' = [pc EXCEPT ![p] = x]
    BY <1>5, Zenon DEF Prepare, At
  <2>1. pc' \in [Procs -> Places]
    BY <2>0 DEF TypeOK, Places
  <2>2. mon' \in [Procs -> {"off", "head", "output", "request", "stopping", "done"}]
    BY <1>5 DEF Prepare, TypeOK
  <2>. QED
    BY <1>5, <2>1, <2>2 DEF Prepare, TypeOK
<1>6. ASSUME NEW p \in Procs, Serve(p) PROVE TypeOK'
  <2>0. PICK x \in {"serving", "caught"} : pc' = [pc EXCEPT ![p] = x]
    BY <1>6, Zenon DEF Serve, At
  <2>1. pc' \in [Procs -> Places]
    BY <2>0 DEF TypeOK, Places
  <2>2. stop' \in [Procs -> BOOLEAN]
    BY <1>6 DEF Serve, TypeOK
  <2>. QED
    BY <1>6, <2>1, <2>2 DEF Serve, monVars, TypeOK
<1>7. ASSUME NEW p \in Procs, StopServing(p) PROVE TypeOK'
  BY <1>7 DEF StopServing, At, monVars, TypeOK, Places, None
<1>8. ASSUME NEW p \in Procs, Retry(p) PROVE TypeOK'
  BY <1>8 DEF Retry, At, monVars, TypeOK, Places, None
<1>9. ASSUME NEW p \in Procs, PrepareRestartAfterDelay(p) PROVE TypeOK'
  <2>1. CASE left[p] > 0 /\ ~Cancelled(p)
    <3>1. left' = [left EXCEPT ![p] = @ - 1] /\ UNCHANGED <<pc, again, restart>>
      BY <1>9, <2>1 DEF PrepareRestartAfterDelay
    <3>2. left' \in [Procs -> Nat]
      BY <2>1, <3>1 DEF TypeOK
    <3>. QED
      BY <1>9, <3>1, <3>2 DEF PrepareRestartAfterDelay, monVars, TypeOK
  <2>2. CASE ~(left[p] > 0 /\ ~Cancelled(p))
    <3>1. restart' \in [Procs -> BOOLEAN]
      BY <1>9, <2>2 DEF PrepareRestartAfterDelay, TypeOK
    <3>2. again' \in [Procs -> BOOLEAN]
      BY <1>9, <2>2, <3>1, Zenon DEF PrepareRestartAfterDelay, TypeOK
    <3>3. PICK x \in {"cleanup", "leaving", "joining"} : pc' = [pc EXCEPT ![p] = x]
      BY <1>9, <2>2, Zenon DEF PrepareRestartAfterDelay, At
    <3>4. pc' \in [Procs -> Places]
      BY <3>3 DEF TypeOK, Places
    <3>. QED
      BY <1>9, <2>2, <3>1, <3>2, <3>4 DEF PrepareRestartAfterDelay, monVars, TypeOK
  <2>. QED
    BY <2>1, <2>2
<1>10. ASSUME NEW p \in Procs, Join(p) PROVE TypeOK'
  BY <1>10 DEF Join, At, monVars, TypeOK, Places, None
<1>11. ASSUME NEW p \in Procs, Leave(p) PROVE TypeOK'
  BY <1>11 DEF Leave, At, GuardReleased, monVars, TypeOK, Places, None
<1>12. ASSUME NEW p \in Procs, Cleanup(p) PROVE TypeOK'
  <2>1. CASE again[p]
    BY <1>12, <2>1, LaunchTypes DEF Cleanup, monVars, TypeOK
  <2>2. CASE ~again[p]
    BY <1>12, <2>2 DEF Cleanup, At, monVars, TypeOK, Places
  <2>. QED
    BY <2>1, <2>2
<1>13. ASSUME NEW p \in Procs, End(p) PROVE TypeOK'
  BY <1>13 DEF End, At, monVars, TypeOK, Places, None
<1>14. ASSUME NEW p \in Procs, CheckListener(p) PROVE TypeOK'
  <2>1. CASE LooksAgain(p)
    <3>1. PICK up \in BOOLEAN :
            /\ good' = [good EXCEPT ![p] = IF up THEN 1 ELSE 0]
            /\ checks' = [checks EXCEPT ![p] = IF up THEN @ ELSE @ + 1]
      BY <1>14, <2>1 DEF CheckListener
    <3>2. good' \in [Procs -> {0, 1}] /\ checks' \in [Procs -> Nat]
      BY <3>1 DEF TypeOK
    <3>. QED
      BY <1>14, <2>1, <3>2 DEF CheckListener, mainVars, TypeOK
  <2>2. CASE ~LooksAgain(p)
    BY <1>14, <2>2 DEF CheckListener, mainVars, TypeOK
  <2>. QED
    BY <2>1, <2>2
<1>15. ASSUME NEW p \in Procs, CheckOutput(p) PROVE TypeOK'
  BY <1>15 DEF CheckOutput, Alive, AfterRound, mainVars, TypeOK, Places, None
<1>16. ASSUME NEW p \in Procs, RequestRestart(p) PROVE TypeOK'
  BY <1>16 DEF RequestRestart, Alive, mainVars, TypeOK, Places, None
<1>17. ASSUME NEW p \in Procs, RequestStop(p) PROVE TypeOK'
  BY <1>17 DEF RequestStop, Alive, mainVars, TypeOK, Places, None
<1>18. ASSUME NEW p \in Procs, ConsoleHandler(p) PROVE TypeOK'
  BY <1>18 DEF ConsoleHandler, mainVars, monVars, TypeOK, Places, None
<1>19. ASSUME NEW p \in Procs, Killed(p) PROVE TypeOK'
  BY <1>19 DEF Killed, At, Alive, TypeOK, Places, None
<1>20. ASSUME UNCHANGED vars PROVE TypeOK'
  BY <1>20 DEF vars, TypeOK, Places
<1>21. ASSUME NEW p \in Procs, PauseOnError(p) PROVE TypeOK'
  BY <1>21 DEF PauseOnError, At, monVars, TypeOK, Places
<1>22. ASSUME NEW p \in Procs, EnterPressed(p) PROVE TypeOK'
  BY <1>22 DEF EnterPressed, At, monVars, TypeOK, Places
<1>. QED
  BY <1>1, <1>2, <1>3, <1>4, <1>5, <1>6, <1>7, <1>8, <1>9, <1>10, <1>11, <1>12, <1>13,
     <1>14, <1>15, <1>16, <1>17, <1>18, <1>19, <1>20, <1>21, <1>22
     DEF Next, Main, Monitor, Ended

(* The guard is held by at most one process, and by nobody who has launched another. *)
LEMMA GuardStep ==
  ASSUME IInv, [Next]_vars
  PROVE  GuardInv'
<1>. USE ApplicationAssumption DEF IInv
<1>1. ASSUME NEW p \in Procs, UserLaunches(p) PROVE GuardInv'
  BY <1>1 DEF UserLaunches, Unborn, At, monVars, TypeOK, GuardInv, InGuard, None
<1>2. ASSUME NEW p \in Procs, Configure(p) PROVE GuardInv'
  <2>1. CASE Launch(p)
    BY <1>2, <2>1, LaunchGuards DEF Configure, InGuard
  <2>2. CASE ~Launch(p)
    <3>1. /\ UNCHANGED <<handles, parent>>
          /\ pc[p] = "config" /\ pc'[p] \in {"failed", "counting", "elevated"}
          /\ \A q \in Procs \ {p} : pc'[q] = pc[q]
      BY <1>2, <2>2 DEF Configure, At, TypeOK
    <3>. QED
      BY <3>1, GuardKept DEF InGuard
  <2>. QED
    BY <2>1, <2>2
<1>3. ASSUME NEW p \in Procs, TryAcquire(p) PROVE GuardInv'
  <2>1. CASE handles = {} /\ At(p, "owner") /\ handles' = {p}
    <3>1. \A q \in Procs : pc[q] \notin InGuard
      BY <2>1 DEF GuardInv
    <3>. QED
      BY <1>3, <2>1, <3>1 DEF TryAcquire, At, TypeOK, GuardInv, InGuard
  <2>2. CASE At(p, "refused") /\ handles' \in {handles, handles \cup {p}}
    BY <1>3, <2>2 DEF TryAcquire, At, TypeOK, GuardInv, InGuard
  <2>. QED
    BY <1>3, <2>1, <2>2 DEF TryAcquire
<1>4. ASSUME NEW p \in Procs, Refused(p) PROVE GuardInv'
  BY <1>4 DEF Refused, At, monVars, TypeOK, GuardInv, InGuard, None
<1>5. ASSUME NEW p \in Procs, Prepare(p) PROVE GuardInv'
  <2>1. /\ UNCHANGED <<handles, parent>>
        /\ pc[p] \in InGuard /\ pc'[p] \in InGuard
        /\ \A q \in Procs \ {p} : pc'[q] = pc[q]
    BY <1>5 DEF Prepare, At, TypeOK, InGuard
  <2>. QED
    BY <2>1, GuardKept DEF InGuard
<1>6. ASSUME NEW p \in Procs, Serve(p) PROVE GuardInv'
  <2>1. /\ UNCHANGED <<handles, parent>>
        /\ pc[p] \in InGuard /\ pc'[p] \in InGuard
        /\ \A q \in Procs \ {p} : pc'[q] = pc[q]
    BY <1>6 DEF Serve, At, TypeOK, InGuard
  <2>. QED
    BY <2>1, GuardKept DEF InGuard
<1>7. ASSUME NEW p \in Procs, StopServing(p) PROVE GuardInv'
  <2>1. /\ UNCHANGED <<handles, parent>>
        /\ pc[p] \in InGuard /\ pc'[p] \in InGuard
        /\ \A q \in Procs \ {p} : pc'[q] = pc[q]
    BY <1>7 DEF StopServing, At, TypeOK, InGuard
  <2>. QED
    BY <2>1, GuardKept DEF InGuard
<1>8. ASSUME NEW p \in Procs, Retry(p) PROVE GuardInv'
  <2>1. /\ UNCHANGED <<handles, parent>>
        /\ pc[p] \in InGuard /\ pc'[p] \in InGuard
        /\ \A q \in Procs \ {p} : pc'[q] = pc[q]
    BY <1>8 DEF Retry, At, TypeOK, InGuard
  <2>. QED
    BY <2>1, GuardKept DEF InGuard
<1>9. ASSUME NEW p \in Procs, PrepareRestartAfterDelay(p) PROVE GuardInv'
  <2>1. /\ UNCHANGED <<handles, parent>>
        /\ pc[p] \in {"counting", "retrying"}
        /\ \A q \in Procs \ {p} : pc'[q] = pc[q]
    BY <1>9 DEF PrepareRestartAfterDelay, At, TypeOK
  <2>2. CASE UNCHANGED pc
    BY <2>1, <2>2 DEF GuardInv
  <2>3. CASE ~UNCHANGED pc
    <3>1. pc'[p] = IF pc[p] = "counting" THEN "cleanup"
                   ELSE IF restart'[p] THEN "leaving" ELSE "joining"
      BY <1>9, <2>3 DEF PrepareRestartAfterDelay, At, TypeOK
    <3>. QED
      BY <2>1, <3>1, GuardKept DEF InGuard
  <2>. QED
    BY <2>2, <2>3
<1>10. ASSUME NEW p \in Procs, Join(p) PROVE GuardInv'
  <2>1. /\ UNCHANGED <<handles, parent>>
        /\ pc[p] \in InGuard /\ pc'[p] \in InGuard
        /\ \A q \in Procs \ {p} : pc'[q] = pc[q]
    BY <1>10 DEF Join, At, TypeOK, InGuard
  <2>. QED
    BY <2>1, GuardKept DEF InGuard
<1>11. ASSUME NEW p \in Procs, Leave(p) PROVE GuardInv'
  BY <1>11 DEF Leave, At, GuardReleased, monVars, TypeOK, GuardInv, InGuard, None
<1>12. ASSUME NEW p \in Procs, Cleanup(p) PROVE GuardInv'
  <2>1. CASE again[p]
    BY <1>12, <2>1, LaunchGuards DEF Cleanup, InGuard
  <2>2. CASE ~again[p]
    <3>1. /\ UNCHANGED <<handles, parent>>
          /\ pc[p] = "cleanup" /\ pc'[p] = "ending"
          /\ \A q \in Procs \ {p} : pc'[q] = pc[q]
      BY <1>12, <2>2 DEF Cleanup, At, TypeOK
    <3>. QED
      BY <3>1, GuardKept DEF InGuard
  <2>. QED
    BY <2>1, <2>2
<1>13. ASSUME NEW p \in Procs, End(p) PROVE GuardInv'
  BY <1>13 DEF End, At, monVars, TypeOK, GuardInv, InGuard, None
<1>14. ASSUME NEW p \in Procs, CheckListener(p) PROVE GuardInv'
  BY <1>14 DEF CheckListener, Alive, LooksAgain, mainVars, TypeOK, GuardInv, InGuard,
     None
<1>15. ASSUME NEW p \in Procs, CheckOutput(p) PROVE GuardInv'
  BY <1>15 DEF CheckOutput, Alive, AfterRound, mainVars, TypeOK, GuardInv, InGuard, None
<1>16. ASSUME NEW p \in Procs, RequestRestart(p) PROVE GuardInv'
  BY <1>16 DEF RequestRestart, Alive, mainVars, TypeOK, GuardInv, InGuard, None
<1>17. ASSUME NEW p \in Procs, RequestStop(p) PROVE GuardInv'
  BY <1>17 DEF RequestStop, Alive, mainVars, TypeOK, GuardInv, InGuard, None
<1>18. ASSUME NEW p \in Procs, ConsoleHandler(p) PROVE GuardInv'
  BY <1>18 DEF ConsoleHandler, mainVars, monVars, TypeOK, GuardInv, InGuard, None
<1>19. ASSUME NEW p \in Procs, Killed(p) PROVE GuardInv'
  BY <1>19 DEF Killed, At, Alive, TypeOK, GuardInv, InGuard, None
<1>20. ASSUME UNCHANGED vars PROVE GuardInv'
  BY <1>20 DEF vars, TypeOK, GuardInv, InGuard
<1>21. ASSUME NEW p \in Procs, PauseOnError(p) PROVE GuardInv'
  <2>1. /\ UNCHANGED <<handles, parent>>
        /\ pc[p] \in {"failed", "paused"} /\ pc'[p] \in {"paused", "ending"}
        /\ \A q \in Procs \ {p} : pc'[q] = pc[q]
    BY <1>21 DEF PauseOnError, At, TypeOK
  <2>. QED
    BY <2>1, GuardKept DEF InGuard
<1>22. ASSUME NEW p \in Procs, EnterPressed(p) PROVE GuardInv'
  <2>1. /\ UNCHANGED <<handles, parent>>
        /\ pc[p] \in {"failed", "paused"} /\ pc'[p] \in {"paused", "ending"}
        /\ \A q \in Procs \ {p} : pc'[q] = pc[q]
    BY <1>22 DEF EnterPressed, At, TypeOK
  <2>. QED
    BY <2>1, GuardKept DEF InGuard
<1>. QED
  BY <1>1, <1>2, <1>3, <1>4, <1>5, <1>6, <1>7, <1>8, <1>9, <1>10, <1>11, <1>12, <1>13,
     <1>14, <1>15, <1>16, <1>17, <1>18, <1>19, <1>20, <1>21, <1>22
     DEF Next, Main, Monitor, Ended

(* The monitoring thread runs only while main is where it will join it. *)
LEMMA ThreadStep ==
  ASSUME IInv, [Next]_vars
  PROVE  ThreadInv'
<1>. USE ApplicationAssumption DEF IInv
<1>1. ASSUME NEW p \in Procs, UserLaunches(p) PROVE ThreadInv'
  BY <1>1 DEF UserLaunches, Unborn, At, monVars, TypeOK, ThreadInv, Unmonitored, Over
<1>2. ASSUME NEW p \in Procs, Configure(p) PROVE ThreadInv'
  <2>1. /\ UNCHANGED mon
        /\ \A q \in Procs : \/ pc'[q] = pc[q]
                            \/ /\ pc[q] \in Unmonitored
                               /\ pc'[q] \in Unmonitored \cup {"failed", "ending"}
    BY <1>2 DEF Configure, Launch, Unborn, At, monVars, TypeOK, Unmonitored
  <2>. QED
    BY <2>1 DEF ThreadInv, Unmonitored, Over
<1>3. ASSUME NEW p \in Procs, TryAcquire(p) PROVE ThreadInv'
  BY <1>3 DEF TryAcquire, At, monVars, TypeOK, ThreadInv, Unmonitored, Over
<1>4. ASSUME NEW p \in Procs, Refused(p) PROVE ThreadInv'
  BY <1>4 DEF Refused, At, monVars, TypeOK, ThreadInv, Unmonitored, Over
<1>5. ASSUME NEW p \in Procs, Prepare(p) PROVE ThreadInv'
  BY <1>5, ZenonT(60) DEF Prepare, At, TypeOK, ThreadInv, Unmonitored, Over
<1>6. ASSUME NEW p \in Procs, Serve(p) PROVE ThreadInv'
  BY <1>6 DEF Serve, At, monVars, TypeOK, ThreadInv, Unmonitored, Over
<1>7. ASSUME NEW p \in Procs, StopServing(p) PROVE ThreadInv'
  BY <1>7 DEF StopServing, At, monVars, TypeOK, ThreadInv, Unmonitored, Over
<1>8. ASSUME NEW p \in Procs, Retry(p) PROVE ThreadInv'
  BY <1>8 DEF Retry, At, monVars, TypeOK, ThreadInv, Unmonitored, Over
<1>9. ASSUME NEW p \in Procs, PrepareRestartAfterDelay(p) PROVE ThreadInv'
  BY <1>9 DEF PrepareRestartAfterDelay, At, Cancelled, monVars, TypeOK, ThreadInv,
     Unmonitored, Over
<1>10. ASSUME NEW p \in Procs, Join(p) PROVE ThreadInv'
  BY <1>10 DEF Join, At, monVars, TypeOK, ThreadInv, Unmonitored, Over
<1>11. ASSUME NEW p \in Procs, Leave(p) PROVE ThreadInv'
  BY <1>11 DEF Leave, At, GuardReleased, monVars, TypeOK, ThreadInv, Unmonitored, Over
<1>12. ASSUME NEW p \in Procs, Cleanup(p) PROVE ThreadInv'
  <2>1. /\ UNCHANGED mon
        /\ \A q \in Procs : \/ pc'[q] = pc[q]
                            \/ pc[q] \in Over /\ pc'[q] = "ending"
                            \/ pc[q] = "none" /\ pc'[q] = "config"
    BY <1>12, ZenonT(60) DEF Cleanup, Launch, Unborn, At, monVars, TypeOK, Over
  <2>. QED
    BY <2>1 DEF ThreadInv, Unmonitored, Over
<1>13. ASSUME NEW p \in Procs, End(p) PROVE ThreadInv'
  BY <1>13 DEF End, At, monVars, TypeOK, ThreadInv, Unmonitored, Over
<1>14. ASSUME NEW p \in Procs, CheckListener(p) PROVE ThreadInv'
  BY <1>14 DEF CheckListener, Alive, LooksAgain, mainVars, TypeOK, ThreadInv,
     Unmonitored, Over
<1>15. ASSUME NEW p \in Procs, CheckOutput(p) PROVE ThreadInv'
  BY <1>15 DEF CheckOutput, Alive, AfterRound, mainVars, TypeOK, ThreadInv, Unmonitored,
     Over
<1>16. ASSUME NEW p \in Procs, RequestRestart(p) PROVE ThreadInv'
  BY <1>16 DEF RequestRestart, Alive, mainVars, TypeOK, ThreadInv, Unmonitored, Over
<1>17. ASSUME NEW p \in Procs, RequestStop(p) PROVE ThreadInv'
  BY <1>17 DEF RequestStop, Alive, mainVars, TypeOK, ThreadInv, Unmonitored, Over
<1>18. ASSUME NEW p \in Procs, ConsoleHandler(p) PROVE ThreadInv'
  BY <1>18 DEF ConsoleHandler, mainVars, monVars, TypeOK, ThreadInv, Unmonitored, Over
<1>19. ASSUME NEW p \in Procs, Killed(p) PROVE ThreadInv'
  BY <1>19 DEF Killed, At, Alive, TypeOK, ThreadInv, Unmonitored, Over
<1>20. ASSUME UNCHANGED vars PROVE ThreadInv'
  BY <1>20 DEF vars, TypeOK, ThreadInv, Unmonitored, Over
<1>21. ASSUME NEW p \in Procs, PauseOnError(p) PROVE ThreadInv'
  BY <1>21 DEF PauseOnError, At, monVars, TypeOK, ThreadInv, Unmonitored, Over
<1>22. ASSUME NEW p \in Procs, EnterPressed(p) PROVE ThreadInv'
  BY <1>22 DEF EnterPressed, At, monVars, TypeOK, ThreadInv, Unmonitored, Over
<1>. QED
  BY <1>1, <1>2, <1>3, <1>4, <1>5, <1>6, <1>7, <1>8, <1>9, <1>10, <1>11, <1>12, <1>13,
     <1>14, <1>15, <1>16, <1>17, <1>18, <1>19, <1>20, <1>21, <1>22
     DEF Next, Main, Monitor, Ended

(* The counter of failures stays within two per bad round. *)
LEMMA CheckStep ==
  ASSUME IInv, [Next]_vars
  PROVE  CheckInv'
<1>. USE ApplicationAssumption DEF IInv
<1>1. ASSUME NEW p \in Procs, UserLaunches(p) PROVE CheckInv'
  BY <1>1 DEF UserLaunches, Unborn, At, monVars, TypeOK, CheckInv, ThreadInv,
     Unmonitored, Over
<1>2. ASSUME NEW p \in Procs, Configure(p) PROVE CheckInv'
  BY <1>2 DEF Configure, Launch, Unborn, At, monVars, TypeOK, CheckInv, ThreadInv,
     Unmonitored, Over
<1>3. ASSUME NEW p \in Procs, TryAcquire(p) PROVE CheckInv'
  BY <1>3 DEF TryAcquire, At, monVars, TypeOK, CheckInv, ThreadInv, Unmonitored, Over
<1>4. ASSUME NEW p \in Procs, Refused(p) PROVE CheckInv'
  BY <1>4 DEF Refused, At, monVars, TypeOK, CheckInv, ThreadInv, Unmonitored, Over
<1>5. ASSUME NEW p \in Procs, Prepare(p) PROVE CheckInv'
  BY <1>5 DEF Prepare, At, TypeOK, CheckInv, ThreadInv, Unmonitored, Over
<1>6. ASSUME NEW p \in Procs, Serve(p) PROVE CheckInv'
  BY <1>6 DEF Serve, At, monVars, TypeOK, CheckInv, ThreadInv, Unmonitored, Over
<1>7. ASSUME NEW p \in Procs, StopServing(p) PROVE CheckInv'
  BY <1>7 DEF StopServing, At, monVars, TypeOK, CheckInv, ThreadInv, Unmonitored, Over
<1>8. ASSUME NEW p \in Procs, Retry(p) PROVE CheckInv'
  BY <1>8 DEF Retry, At, monVars, TypeOK, CheckInv, ThreadInv, Unmonitored, Over
<1>9. ASSUME NEW p \in Procs, PrepareRestartAfterDelay(p) PROVE CheckInv'
  BY <1>9 DEF PrepareRestartAfterDelay, At, Cancelled, monVars, TypeOK, CheckInv,
     ThreadInv, Unmonitored, Over
<1>10. ASSUME NEW p \in Procs, Join(p) PROVE CheckInv'
  BY <1>10 DEF Join, At, monVars, TypeOK, CheckInv, ThreadInv, Unmonitored, Over
<1>11. ASSUME NEW p \in Procs, Leave(p) PROVE CheckInv'
  BY <1>11 DEF Leave, At, GuardReleased, monVars, TypeOK, CheckInv, ThreadInv,
     Unmonitored, Over
<1>12. ASSUME NEW p \in Procs, Cleanup(p) PROVE CheckInv'
  BY <1>12 DEF Cleanup, Launch, Unborn, At, monVars, TypeOK, CheckInv, ThreadInv,
     Unmonitored, Over
<1>13. ASSUME NEW p \in Procs, End(p) PROVE CheckInv'
  BY <1>13 DEF End, At, monVars, TypeOK, CheckInv, ThreadInv, Unmonitored, Over
<1>14. ASSUME NEW p \in Procs, CheckListener(p) PROVE CheckInv'
  BY <1>14 DEF CheckListener, Alive, LooksAgain, mainVars, TypeOK, CheckInv, ThreadInv,
     Unmonitored, Over
<1>15. ASSUME NEW p \in Procs, CheckOutput(p) PROVE CheckInv'
  <2>. SUFFICES ASSUME NEW q \in Procs, pc[q] # "gone"
                PROVE  /\ mon'[q] # "output" => checks'[q] <= 2 * bad'[q]
                       /\ mon'[q] = "output" => checks'[q] <= 2 * bad'[q] + (1 - good'[q])
                       /\ mon'[q] \in {"request", "stopping"} => checks'[q] >= MaxRetry
    BY <1>15 DEF CheckOutput, mainVars, CheckInv
  <2>1. CASE q # p
    BY <1>15, <2>1 DEF CheckOutput, TypeOK, CheckInv
  <2>2. CASE q = p
    <3>1. PICK up \in BOOLEAN :
            LET g == IF up THEN good[p] + 1 ELSE good[p]
                n == IF up THEN checks[p] ELSE checks[p] + 1
            IN /\ checks'[p] = AfterRound(g, n)
               /\ mon'[p] = IF g < 2 /\ n >= MaxRetry THEN "request" ELSE "head"
               /\ bad'[p] = IF g < 2 THEN bad[p] + 1 ELSE 0
      BY <1>15 DEF CheckOutput, TypeOK
    <3>2. /\ good[p] \in {0, 1} /\ checks[p] \in Nat /\ bad[p] \in Nat
          /\ checks[p] <= 2 * bad[p] + (1 - good[p])
      BY <1>15, <2>2 DEF CheckOutput, TypeOK, CheckInv
    <3>. QED
      BY <2>2, <3>1, <3>2 DEF AfterRound
  <2>. QED
    BY <2>1, <2>2
<1>16. ASSUME NEW p \in Procs, RequestRestart(p) PROVE CheckInv'
  BY <1>16 DEF RequestRestart, Alive, mainVars, TypeOK, CheckInv, ThreadInv,
     Unmonitored, Over
<1>17. ASSUME NEW p \in Procs, RequestStop(p) PROVE CheckInv'
  BY <1>17 DEF RequestStop, Alive, mainVars, TypeOK, CheckInv, ThreadInv, Unmonitored,
     Over
<1>18. ASSUME NEW p \in Procs, ConsoleHandler(p) PROVE CheckInv'
  BY <1>18 DEF ConsoleHandler, mainVars, monVars, TypeOK, CheckInv, ThreadInv,
     Unmonitored, Over
<1>19. ASSUME NEW p \in Procs, Killed(p) PROVE CheckInv'
  BY <1>19 DEF Killed, At, Alive, TypeOK, CheckInv, ThreadInv, Unmonitored, Over
<1>20. ASSUME UNCHANGED vars PROVE CheckInv'
  BY <1>20 DEF vars, TypeOK, CheckInv, ThreadInv, Unmonitored, Over
<1>21. ASSUME NEW p \in Procs, PauseOnError(p) PROVE CheckInv'
  BY <1>21 DEF PauseOnError, At, monVars, TypeOK, CheckInv, ThreadInv,
     Unmonitored, Over
<1>22. ASSUME NEW p \in Procs, EnterPressed(p) PROVE CheckInv'
  BY <1>22 DEF EnterPressed, At, monVars, TypeOK, CheckInv, ThreadInv,
     Unmonitored, Over
<1>. QED
  BY <1>1, <1>2, <1>3, <1>4, <1>5, <1>6, <1>7, <1>8, <1>9, <1>10, <1>11, <1>12, <1>13,
     <1>14, <1>15, <1>16, <1>17, <1>18, <1>19, <1>20, <1>21, <1>22
     DEF Next, Main, Monitor, Ended

(* A final shutdown stays final. *)
LEMMA FinalStep ==
  ASSUME IInv, [Next]_vars
  PROVE  FinalInv'
<1>. USE ApplicationAssumption DEF IInv
<1>1. ASSUME NEW p \in Procs, UserLaunches(p) PROVE FinalInv'
  BY <1>1 DEF UserLaunches, Unborn, At, monVars, TypeOK, FinalInv, Handled
<1>2. ASSUME NEW p \in Procs, Configure(p) PROVE FinalInv'
  <2>1. UNCHANGED <<stop, restart, mon, final>>
    BY <1>2 DEF Configure, monVars
  <2>2. ASSUME NEW q \in Procs
        PROVE  /\ pc'[q] = "counting" =>
                    left'[q] > 0 \/ (pc[q] = "counting" /\ left'[q] = left[q])
               /\ pc'[q] \in {"caught", "retrying"} =>
                    pc'[q] = pc[q] /\ left'[q] = left[q]
    <3>1. CASE Launch(p) /\ UNCHANGED left
      BY <3>1 DEF Launch, Unborn, At, TypeOK
    <3>2. CASE At(p, "counting") /\ left' = [left EXCEPT ![p] = Delay + 1]
      BY <3>2 DEF At, TypeOK
    <3>3. CASE (At(p, "failed") \/ At(p, "elevated")) /\ UNCHANGED left
      BY <3>3 DEF At, TypeOK
    <3>. QED
      BY <1>2, <3>1, <3>2, <3>3 DEF Configure
  <2>. QED
    BY <2>1, <2>2 DEF FinalInv
<1>3. ASSUME NEW p \in Procs, TryAcquire(p) PROVE FinalInv'
  BY <1>3 DEF TryAcquire, At, monVars, TypeOK, FinalInv, Handled
<1>4. ASSUME NEW p \in Procs, Refused(p) PROVE FinalInv'
  BY <1>4 DEF Refused, At, monVars, TypeOK, FinalInv, Handled
<1>5. ASSUME NEW p \in Procs, Prepare(p) PROVE FinalInv'
  BY <1>5 DEF Prepare, At, TypeOK, FinalInv, Handled
<1>6. ASSUME NEW p \in Procs, Serve(p) PROVE FinalInv'
  BY <1>6 DEF Serve, At, monVars, TypeOK, FinalInv, Handled
<1>7. ASSUME NEW p \in Procs, StopServing(p) PROVE FinalInv'
  BY <1>7 DEF StopServing, At, monVars, TypeOK, FinalInv, Handled
<1>8. ASSUME NEW p \in Procs, Retry(p) PROVE FinalInv'
  BY <1>8 DEF Retry, At, monVars, TypeOK, FinalInv, Handled
<1>9. ASSUME NEW p \in Procs, PrepareRestartAfterDelay(p) PROVE FinalInv'
  <2>. SUFFICES ASSUME NEW q \in Procs
                PROVE  /\ pc'[q] \in {"caught", "retrying"} => stop'[q]
                       /\ final'[q] => /\ stop'[q] /\ ~restart'[q]
                                       /\ mon'[q] \in {"off", "head", "done"}
                                       /\ pc'[q] \in {"counting", "retrying"} => left'[q] > 0
    BY DEF FinalInv
  <2>1. UNCHANGED <<stop, mon, final>>
    BY <1>9 DEF PrepareRestartAfterDelay, monVars
  <2>2. CASE q # p
    BY <1>9, <2>1, <2>2 DEF PrepareRestartAfterDelay, At, TypeOK, FinalInv
  <2>3. CASE q = p /\ left[p] > 0 /\ ~stop[p]
    BY <1>9, <2>1, <2>3 DEF PrepareRestartAfterDelay, Cancelled, FinalInv
  <2>4. CASE q = p /\ ~(left[p] > 0 /\ ~stop[p])
    <3>1. /\ pc'[p] \in {"cleanup", "leaving", "joining"}
          /\ restart'[p] <=> (restart[p] \/ left[p] = 0)
      BY <1>9, <2>4, ZenonT(60) DEF PrepareRestartAfterDelay, Cancelled, At, TypeOK
    <3>2. final[p] => left[p] > 0
      BY <1>9 DEF PrepareRestartAfterDelay, FinalInv
    <3>. QED
      BY <2>1, <2>4, <3>1, <3>2 DEF FinalInv, TypeOK
  <2>. QED
    BY <2>2, <2>3, <2>4
<1>10. ASSUME NEW p \in Procs, Join(p) PROVE FinalInv'
  BY <1>10 DEF Join, At, monVars, TypeOK, FinalInv, Handled
<1>11. ASSUME NEW p \in Procs, Leave(p) PROVE FinalInv'
  BY <1>11 DEF Leave, At, GuardReleased, monVars, TypeOK, FinalInv, Handled
<1>12. ASSUME NEW p \in Procs, Cleanup(p) PROVE FinalInv'
  <2>1. /\ UNCHANGED <<stop, restart, mon, final, left>>
        /\ \A q \in Procs : pc'[q] = pc[q] \/ pc'[q] \in {"ending", "config"}
    BY <1>12, ZenonT(60) DEF Cleanup, Launch, Unborn, At, monVars, TypeOK
  <2>. QED
    BY <2>1 DEF FinalInv
<1>13. ASSUME NEW p \in Procs, End(p) PROVE FinalInv'
  BY <1>13 DEF End, At, monVars, TypeOK, FinalInv, Handled
<1>14. ASSUME NEW p \in Procs, CheckListener(p) PROVE FinalInv'
  BY <1>14, ZenonT(60) DEF CheckListener, Alive, LooksAgain, mainVars, TypeOK, FinalInv, Handled
<1>15. ASSUME NEW p \in Procs, CheckOutput(p) PROVE FinalInv'
  BY <1>15 DEF CheckOutput, Alive, AfterRound, mainVars, TypeOK, FinalInv, Handled
<1>16. ASSUME NEW p \in Procs, RequestRestart(p) PROVE FinalInv'
  BY <1>16 DEF RequestRestart, Alive, mainVars, TypeOK, FinalInv, Handled
<1>17. ASSUME NEW p \in Procs, RequestStop(p) PROVE FinalInv'
  BY <1>17 DEF RequestStop, Alive, mainVars, TypeOK, FinalInv, Handled
<1>18. ASSUME NEW p \in Procs, ConsoleHandler(p) PROVE FinalInv'
  BY <1>18 DEF ConsoleHandler, mainVars, monVars, TypeOK, FinalInv, Handled
<1>19. ASSUME NEW p \in Procs, Killed(p) PROVE FinalInv'
  BY <1>19 DEF Killed, At, Alive, TypeOK, FinalInv, Handled
<1>20. ASSUME UNCHANGED vars PROVE FinalInv'
  BY <1>20 DEF vars, TypeOK, FinalInv, Handled
<1>21. ASSUME NEW p \in Procs, PauseOnError(p) PROVE FinalInv'
  BY <1>21 DEF PauseOnError, At, monVars, TypeOK, FinalInv
<1>22. ASSUME NEW p \in Procs, EnterPressed(p) PROVE FinalInv'
  BY <1>22 DEF EnterPressed, At, monVars, TypeOK, FinalInv
<1>. QED
  BY <1>1, <1>2, <1>3, <1>4, <1>5, <1>6, <1>7, <1>8, <1>9, <1>10, <1>11, <1>12, <1>13,
     <1>14, <1>15, <1>16, <1>17, <1>18, <1>19, <1>20, <1>21, <1>22
     DEF Next, Main, Monitor, Ended

(* The inductive invariant holds at the start and is kept by every step. *)
LEMMA InitInv == Init => IInv
<1>. SUFFICES ASSUME Init PROVE IInv
  OBVIOUS
<1>. USE ApplicationAssumption
<1>1. TypeOK
  BY DEF Init, TypeOK, Places
<1>. QED
  BY <1>1 DEF Init, IInv, GuardInv, ThreadInv, CheckInv, FinalInv, InGuard, Unmonitored, Over

(* The inductive invariant of the program: who is past the guard, where    *)
(* the monitoring thread is by where main is, what its counter may say,    *)
(* and that a shutdown finds no restart under way (main, Run).             *)
THEOREM Invariance == Spec => []IInv
<1>1. IInv /\ [Next]_vars => IInv'
  BY TypeStep, GuardStep, ThreadStep, CheckStep, FinalStep DEF IInv
<1>. QED
  BY InitInv, <1>1, PTL DEF Spec

(* At most one process is past the single-instance guard, however many     *)
(* copies are started, restarted or killed, and a process that restarts    *)
(* the program has let go of the mutex before (SingleInstanceGuard, main). *)
THEOREM OneCopyRuns == Spec => []OneCopy
<1>1. IInv => OneCopy
  BY DEF IInv, TypeOK, GuardInv, OneCopy, InGuard
<1>. QED
  BY Invariance, <1>1, PTL

(* main never leaves the scope of a monitoring thread that still runs. *)
THEOREM ThreadIsJoined == Spec => []ThreadJoined
<1>1. IInv => ThreadJoined
  BY DEF IInv, ThreadInv, ThreadJoined, Over
<1>. QED
  BY Invariance, <1>1, PTL

(* With more than two failures to a restart, as MaxNetworkCheckRetry is,   *)
(* one bad round does not restart the program: it counts two at most.      *)
THEOREM GlitchIsTolerated == MaxRetry > 2 => (Spec => []GlitchTolerated)
<1>. SUFFICES ASSUME MaxRetry > 2 PROVE Spec => []GlitchTolerated
  OBVIOUS
<1>1. IInv => GlitchTolerated
  <2>. SUFFICES ASSUME IInv, NEW p \in Procs, mon[p] \in {"request", "stopping"}
                PROVE  bad[p] > 1
    BY DEF GlitchTolerated
  <2>1. pc[p] # "gone"
    BY DEF IInv, ThreadInv, Over
  <2>2. checks[p] <= 2 * bad[p] /\ checks[p] >= MaxRetry
    BY <2>1 DEF IInv, CheckInv
  <2>3. checks[p] \in Nat /\ bad[p] \in Nat /\ MaxRetry \in Nat
    BY ApplicationAssumption DEF IInv, TypeOK
  <2>. QED
    BY <2>2, <2>3
<1>. QED
  BY Invariance, <1>1, PTL

(* Ctrl+C that comes before anything asked for a restart is final: no      *)
(* later step of main or of the monitoring thread asks for one.            *)
THEOREM ShutdownIsFinal == Spec => []ShutdownFinal
<1>1. IInv => ShutdownFinal
  BY DEF IInv, FinalInv, ShutdownFinal
<1>. QED
  BY Invariance, <1>1, PTL
=============================================================================
