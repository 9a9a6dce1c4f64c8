------------------------- MODULE IocpServiceProofs -------------------------
(***************************************************************************)
(* Proofs about IocpService, for any number of workers, contexts, timers,  *)
(* posts and restarts.                                                     *)
(***************************************************************************)
EXTENDS IocpService, FiniteSetTheorems, TLAPS

Phases == {"new", "publishing", "failing", "pending", "claimed", "queued", "running",
           "cancelled", "discarded", "done"}
Places == {"exited", "top", "advance", "claimed", "post", "lease", "wait", "check",
           "callback"}

TypeOK ==
  /\ running \in BOOLEAN /\ starts \in Nat /\ missed \in Nat
  /\ stopper \in {"idle", "begun", "cleared", "draining", "joining", "closing"}
  /\ port \in {"null", "open", "unpublished"}
  /\ ctx \in [Ctx -> {"idle", "kernel", "queued"}] /\ posts \in [Ctx -> Nat]
  /\ cancelled \subseteq Ctx
  /\ timer \in [Timers -> Phases] /\ due \subseteq Timers /\ fired \in [Timers -> Nat]
  /\ wakes \in Nat /\ nudges \in Nat /\ outstanding \in Int /\ users \in Int
  /\ pc \in [Workers -> Places] /\ wait \in [Workers -> {"zero", "timed", "inf"}]
  /\ claimed \in [Workers -> SUBSET Timers]
  /\ item \in [Workers -> Ctx \cup Timers \cup {None}]

(* How far Stop has got says whether the service runs and has a port; the  *)
(* workers are gone before the port is.                                    *)
LifeInv ==
  /\ running => stopper = "idle" /\ port = "open"
  /\ stopper \in {"begun", "cleared", "draining", "joining"} => port = "open"
  /\ stopper = "closing" => port = "unpublished"
  /\ stopper = "idle" /\ ~running => port = "null"
  /\ port # "open" => \A w \in Workers : pc[w] = "exited"
  /\ port = "null" => users = 0

(* A timer is claimed by one worker at a time and runs in one.  What a     *)
(* worker has claimed it holds only until it has posted it.                *)
WorkInv ==
  /\ \A w \in Workers : \A t \in claimed[w] :
       timer[t] = "claimed" /\ pc[w] \in {"claimed", "post"}
  /\ \A v, w \in Workers : \A t \in claimed[v] : t \in claimed[w] => v = w
  /\ \A w \in Workers : pc[w] = "callback" =>
       item[w] \in Ctx \/ (item[w] \in Timers /\ timer[item[w]] = "running")
  /\ \A v, w \in Workers :
       /\ pc[v] = "callback" /\ pc[w] = "callback"
       /\ item[v] = item[w] /\ item[v] \in Timers
       => v = w

(* A callback has run exactly for the timers in and after their callback.  *)
FiredInv ==
  \A t \in Timers : fired[t] = IF timer[t] \in {"running", "done"} THEN 1 ELSE 0

(* From the moment Stop has seen outstandingIo_ at zero. *)
Drained ==
  stopper \in {"joining", "closing"} \/ port = "null" =>
    Pinned = {} /\ LiveTimers = {} /\ InCallback = {}

(* The wake-up of a timer is posted before the timer can be claimed. *)
WakeInv ==
  (running /\ \E t \in Timers : timer[t] \in {"publishing", "pending"}) =>
     wakes > 0 \/ \E w \in Workers : ~Sleeps(w)

IInv == TypeOK /\ LifeInv /\ WorkInv /\ FiredInv /\ Accounting /\ Drained /\ WakeInv
-----------------------------------------------------------------------------
(* The sets that are counted are finite. *)
LEMMA Counted ==
  /\ Cardinality(Workers) \in Nat
  /\ IsFiniteSet(Pinned) /\ IsFiniteSet(LiveTimers) /\ IsFiniteSet(InCallback)
  /\ Cardinality(Pinned) \in Nat /\ Cardinality(LiveTimers) \in Nat
  /\ Cardinality(InCallback) \in Nat
<1>1. IsFiniteSet(Workers) /\ IsFiniteSet(Timers) /\ IsFiniteSet(Ctx)
  BY SetsAssumption, FS_Union DEF Ctx
<1>2. /\ Pinned \in SUBSET Ctx /\ LiveTimers \in SUBSET Timers
      /\ InCallback \in SUBSET Workers
  BY DEF Pinned, LiveTimers, InCallback
<1>3. IsFiniteSet(Pinned) /\ IsFiniteSet(LiveTimers) /\ IsFiniteSet(InCallback)
  BY <1>1, <1>2, FS_Subset
<1>. QED
  BY <1>1, <1>3, FS_CardinalityType

(* WakeWorkers posts a number of wake-ups, of the workers at most. *)
LEMMA WakeUpsCounted ==
  \A n \in WakeWorkers : n \in Nat /\ Cardinality(Workers) - n \in Nat
  BY Counted DEF WakeWorkers

(* Taking a part out of a finite set. *)
LEMMA PartTaken ==
  ASSUME NEW S, IsFiniteSet(S), NEW T \in SUBSET S
  PROVE  Cardinality(S \ T) = Cardinality(S) - Cardinality(T)
<1>1. S \cap T = T
  OBVIOUS
<1>. QED
  BY <1>1, FS_Difference

(* Type correctness is inductive. *)
LEMMA TypeStep ==
  ASSUME IInv, [Next]_vars
  PROVE  TypeOK'
<1>. USE SetsAssumption, LimitsAssumption DEF IInv
<1>1. CASE Start
  BY <1>1 DEF Start, opVars, timerVars, portVars, TypeOK, Phases, Places
<1>2. CASE StopBegin
  BY <1>2 DEF StopBegin, opVars, timerVars, portVars, workerVars, TypeOK, Phases,
     Places
<1>3. CASE StopClearTimers
  BY <1>3 DEF StopClearTimers, InMap, opVars, portVars, workerVars, TypeOK, Phases,
     Places
<1>4. CASE StopCancelIo
  <2>1. cancelled' \subseteq Ctx
    BY <1>4 DEF StopCancelIo, TypeOK, Ctx
  <2>2. wakes' \in Nat
    BY <1>4, WakeUpsCounted DEF StopCancelIo, TypeOK
  <2>. QED
    BY <1>4, <2>1, <2>2 DEF StopCancelIo, timerVars, workerVars, TypeOK
<1>5. CASE StopDrained
  <2>1. wakes' \in Nat /\ missed' \in Nat
    BY <1>5, WakeUpsCounted DEF StopDrained, TypeOK
  <2>. QED
    BY <1>5, <2>1 DEF StopDrained, opVars, timerVars, workerVars, TypeOK
<1>6. CASE StopJoined
  BY <1>6 DEF StopJoined, opVars, timerVars, portVars, workerVars, TypeOK, Phases,
     Places
<1>7. CASE StopClose
  BY <1>7 DEF StopClose, opVars, timerVars, workerVars, TypeOK, Phases, Places
<1>8. ASSUME NEW c \in Ctx, PostSocketOp(c)
      PROVE  TypeOK'
  BY <1>8 DEF PostSocketOp, Accepts, lifeVars, timerVars, portVars, workerVars,
     TypeOK, Phases, Places
<1>9. ASSUME NEW c \in Ctx, PostUser(c)
      PROVE  TypeOK'
  BY <1>9 DEF PostUser, Accepts, lifeVars, timerVars, portVars, workerVars, TypeOK,
     Phases, Places
<1>10. ASSUME NEW c \in Ctx, KernelCompletes(c)
       PROVE  TypeOK'
  BY <1>10 DEF KernelCompletes, lifeVars, timerVars, portVars, workerVars, TypeOK,
     Phases, Places
<1>11. ASSUME NEW t \in Timers, ScheduleTimeout(t)
       PROVE  TypeOK'
  BY <1>11 DEF ScheduleTimeout, lifeVars, opVars, workerVars, TypeOK, Phases, Places
<1>12. ASSUME NEW t \in Timers, PublishTimer(t)
       PROVE  TypeOK'
  BY <1>12 DEF PublishTimer, lifeVars, opVars, portVars, workerVars, TypeOK, Phases,
     Places
<1>13. ASSUME NEW t \in Timers, CancelTimeout(t)
       PROVE  TypeOK'
  BY <1>13 DEF CancelTimeout, Cancellable, lifeVars, opVars, workerVars, TypeOK,
     Phases, Places
<1>14. ASSUME NEW t \in Timers, Tick(t)
       PROVE  TypeOK'
  BY <1>14 DEF Tick, lifeVars, opVars, portVars, workerVars, TypeOK, Phases, Places
<1>15. CASE CancelWakes
  BY <1>15 DEF CancelWakes, lifeVars, opVars, timerVars, workerVars, TypeOK, Phases,
     Places
<1>16. ASSUME NEW w \in Workers, LoopTop(w)
       PROVE  TypeOK'
  BY <1>16 DEF LoopTop, lifeVars, opVars, timerVars, portVars, TypeOK, Phases, Places
<1>17. ASSUME NEW w \in Workers, AdvanceTimers(w)
       PROVE  TypeOK'
  BY <1>17 DEF AdvanceTimers, PhaseOfClaimed, DueNow, lifeVars, opVars, portVars,
     TypeOK, Phases, Places
<1>18. ASSUME NEW w \in Workers, CheckClaimed(w)
       PROVE  TypeOK'
  <2>1. CASE running
    BY <1>18, <2>1 DEF CheckClaimed, lifeVars, opVars, portVars, TypeOK, Places
  <2>2. CASE ~running
    <3>1. pc' \in [Workers -> Places] /\ wait' \in [Workers -> {"zero", "timed", "inf"}]
      BY <1>18, <2>2 DEF CheckClaimed, TypeOK, Places
    <3>2. timer' \in [Timers -> Phases]
      BY <1>18, <2>2 DEF CheckClaimed, TypeOK, Phases
    <3>3. claimed' \in [Workers -> SUBSET Timers]
      BY <1>18, <2>2 DEF CheckClaimed, TypeOK
    <3>4. outstanding' \in Int
      <4>1. Cardinality(claimed[w]) \in Nat
        BY SetsAssumption, FS_Subset, FS_CardinalityType DEF TypeOK
      <4>. QED
        BY <1>18, <2>2, <4>1 DEF CheckClaimed, TypeOK
    <3>. QED
      BY <1>18, <3>1, <3>2, <3>3, <3>4 DEF CheckClaimed, lifeVars, opVars, portVars, TypeOK
  <2>. QED
    BY <2>1, <2>2
<1>19. ASSUME NEW w \in Workers, PostClaimed(w)
       PROVE  TypeOK'
  BY <1>19 DEF PostClaimed, lifeVars, opVars, portVars, TypeOK, Phases, Places
<1>20. ASSUME NEW w \in Workers, TakeLease(w)
       PROVE  TypeOK'
  BY <1>20 DEF TakeLease, lifeVars, opVars, timerVars, portVars, TypeOK, Phases,
     Places
<1>21. ASSUME NEW w \in Workers, Dequeue(w)
       PROVE  TypeOK'
  <2>1. PICK x \in Queued :
          /\ item' = [item EXCEPT ![w] = x]
          /\ ctx' = [c \in Ctx |-> IF c = x THEN "idle" ELSE ctx[c]]
          /\ timer' = [t \in Timers |-> IF t = x THEN "running" ELSE timer[t]]
          /\ fired' = [t \in Timers |-> IF t = x THEN fired[t] + 1 ELSE fired[t]]
    BY <1>21 DEF Dequeue
  <2>2. \/ x \in Ctx /\ x \notin Timers /\ ctx[x] = "queued"
        \/ x \in Timers /\ x \notin Ctx /\ timer[x] = "queued"
    BY DEF Queued, Ctx
  <2>3. item' \in [Workers -> Ctx \cup Timers \cup {None}]
    BY <2>1, <2>2 DEF TypeOK
  <2>4. ctx' \in [Ctx -> {"idle", "kernel", "queued"}] /\ timer' \in [Timers -> Phases]
    BY <2>1 DEF TypeOK, Phases
  <2>5. fired' \in [Timers -> Nat]
    BY <2>1 DEF TypeOK
  <2>. QED
    BY <1>21, <2>3, <2>4, <2>5 DEF Dequeue, lifeVars, portVars, TypeOK, Places
<1>22. ASSUME NEW w \in Workers, WakeUp(w)
       PROVE  TypeOK'
  BY <1>22 DEF WakeUp, lifeVars, opVars, timerVars, TypeOK, Phases, Places
<1>23. ASSUME NEW w \in Workers, CheckExit(w)
       PROVE  TypeOK'
  BY <1>23 DEF CheckExit, MayExit, lifeVars, opVars, timerVars, portVars, TypeOK,
     Phases, Places
<1>24. ASSUME NEW w \in Workers, CallbackReturns(w)
       PROVE  TypeOK'
  BY <1>24 DEF CallbackReturns, lifeVars, opVars, portVars, TypeOK, Phases, Places
<1>25. CASE UNCHANGED vars
  BY <1>25 DEF vars, TypeOK, Phases, Places
<1>. QED
  BY <1>1, <1>2, <1>3, <1>4, <1>5, <1>6, <1>7, <1>8, <1>9, <1>10, <1>11, <1>12, <1>13,
     <1>14, <1>15, <1>16, <1>17, <1>18, <1>19, <1>20, <1>21, <1>22, <1>23, <1>24, <1>25
     DEF Next, Stop, Worker, Ended, JoinHangs

(* The life cycle of the service. *)
LEMMA LifeStep ==
  ASSUME IInv, [Next]_vars
  PROVE  LifeInv'
<1>. USE SetsAssumption, LimitsAssumption DEF IInv
<1>1. CASE Start
  BY <1>1 DEF Start, opVars, timerVars, portVars, TypeOK, LifeInv
<1>2. CASE StopBegin
  BY <1>2 DEF StopBegin, opVars, timerVars, portVars, workerVars, TypeOK, LifeInv
<1>3. CASE StopClearTimers
  BY <1>3 DEF StopClearTimers, InMap, opVars, portVars, workerVars, TypeOK, LifeInv
<1>4. CASE StopCancelIo
  BY <1>4 DEF StopCancelIo, timerVars, workerVars, TypeOK, LifeInv
<1>5. CASE StopDrained
  BY <1>5 DEF StopDrained, opVars, timerVars, workerVars, TypeOK, LifeInv
<1>6. CASE StopJoined
  BY <1>6 DEF StopJoined, opVars, timerVars, portVars, workerVars, TypeOK, LifeInv
<1>7. CASE StopClose
  BY <1>7 DEF StopClose, opVars, timerVars, workerVars, TypeOK, LifeInv
<1>8. ASSUME NEW c \in Ctx, PostSocketOp(c)
      PROVE  LifeInv'
  BY <1>8 DEF PostSocketOp, Accepts, lifeVars, timerVars, portVars, workerVars,
     TypeOK, LifeInv
<1>9. ASSUME NEW c \in Ctx, PostUser(c)
      PROVE  LifeInv'
  BY <1>9 DEF PostUser, Accepts, lifeVars, timerVars, portVars, workerVars, TypeOK,
     LifeInv
<1>10. ASSUME NEW c \in Ctx, KernelCompletes(c)
       PROVE  LifeInv'
  BY <1>10 DEF KernelCompletes, lifeVars, timerVars, portVars, workerVars, TypeOK,
     LifeInv
<1>11. ASSUME NEW t \in Timers, ScheduleTimeout(t)
       PROVE  LifeInv'
  BY <1>11 DEF ScheduleTimeout, lifeVars, opVars, workerVars, TypeOK, LifeInv
<1>12. ASSUME NEW t \in Timers, PublishTimer(t)
       PROVE  LifeInv'
  BY <1>12 DEF PublishTimer, lifeVars, opVars, portVars, workerVars, TypeOK, LifeInv
<1>13. ASSUME NEW t \in Timers, CancelTimeout(t)
       PROVE  LifeInv'
  BY <1>13 DEF CancelTimeout, Cancellable, lifeVars, opVars, workerVars, TypeOK,
     LifeInv
<1>14. ASSUME NEW t \in Timers, Tick(t)
       PROVE  LifeInv'
  BY <1>14 DEF Tick, lifeVars, opVars, portVars, workerVars, TypeOK, LifeInv
<1>15. CASE CancelWakes
  BY <1>15 DEF CancelWakes, lifeVars, opVars, timerVars, workerVars, TypeOK, LifeInv
<1>16. ASSUME NEW w \in Workers, LoopTop(w)
       PROVE  LifeInv'
  BY <1>16 DEF LoopTop, lifeVars, opVars, timerVars, portVars, TypeOK, LifeInv
<1>17. ASSUME NEW w \in Workers, AdvanceTimers(w)
       PROVE  LifeInv'
  BY <1>17 DEF AdvanceTimers, PhaseOfClaimed, DueNow, lifeVars, opVars, portVars,
     TypeOK, LifeInv
<1>18. ASSUME NEW w \in Workers, CheckClaimed(w)
       PROVE  LifeInv'
  BY <1>18 DEF CheckClaimed, lifeVars, opVars, portVars, TypeOK, LifeInv
<1>19. ASSUME NEW w \in Workers, PostClaimed(w)
       PROVE  LifeInv'
  BY <1>19 DEF PostClaimed, lifeVars, opVars, portVars, TypeOK, LifeInv
<1>20. ASSUME NEW w \in Workers, TakeLease(w)
       PROVE  LifeInv'
  BY <1>20 DEF TakeLease, lifeVars, opVars, timerVars, portVars, TypeOK, LifeInv
<1>21. ASSUME NEW w \in Workers, Dequeue(w)
       PROVE  LifeInv'
  BY <1>21 DEF Dequeue, lifeVars, portVars, TypeOK, LifeInv
<1>22. ASSUME NEW w \in Workers, WakeUp(w)
       PROVE  LifeInv'
  BY <1>22 DEF WakeUp, lifeVars, opVars, timerVars, TypeOK, LifeInv
<1>23. ASSUME NEW w \in Workers, CheckExit(w)
       PROVE  LifeInv'
  BY <1>23 DEF CheckExit, MayExit, lifeVars, opVars, timerVars, portVars, TypeOK,
     LifeInv
<1>24. ASSUME NEW w \in Workers, CallbackReturns(w)
       PROVE  LifeInv'
  BY <1>24 DEF CallbackReturns, lifeVars, opVars, portVars, TypeOK, LifeInv
<1>25. CASE UNCHANGED vars
  BY <1>25 DEF vars, TypeOK, LifeInv
<1>. QED
  BY <1>1, <1>2, <1>3, <1>4, <1>5, <1>6, <1>7, <1>8, <1>9, <1>10, <1>11, <1>12, <1>13,
     <1>14, <1>15, <1>16, <1>17, <1>18, <1>19, <1>20, <1>21, <1>22, <1>23, <1>24, <1>25
     DEF Next, Stop, Worker, Ended, JoinHangs

(* The workers share out the timers. *)
LEMMA WorkStep ==
  ASSUME IInv, [Next]_vars
  PROVE  WorkInv'
<1>. USE SetsAssumption, LimitsAssumption DEF IInv
<1>1. CASE Start
  BY <1>1 DEF Start, opVars, timerVars, portVars, TypeOK, WorkInv, LifeInv
<1>2. CASE StopBegin
  BY <1>2 DEF StopBegin, opVars, timerVars, portVars, workerVars, TypeOK, WorkInv
<1>3. CASE StopClearTimers
  BY <1>3 DEF StopClearTimers, InMap, opVars, portVars, workerVars, TypeOK, WorkInv
<1>4. CASE StopCancelIo
  BY <1>4 DEF StopCancelIo, timerVars, workerVars, TypeOK, WorkInv
<1>5. CASE StopDrained
  BY <1>5 DEF StopDrained, opVars, timerVars, workerVars, TypeOK, WorkInv
<1>6. CASE StopJoined
  BY <1>6 DEF StopJoined, opVars, timerVars, portVars, workerVars, TypeOK, WorkInv
<1>7. CASE StopClose
  BY <1>7 DEF StopClose, opVars, timerVars, workerVars, TypeOK, WorkInv
<1>8. ASSUME NEW c \in Ctx, PostSocketOp(c)
      PROVE  WorkInv'
  BY <1>8 DEF PostSocketOp, Accepts, lifeVars, timerVars, portVars, workerVars,
     TypeOK, WorkInv
<1>9. ASSUME NEW c \in Ctx, PostUser(c)
      PROVE  WorkInv'
  BY <1>9 DEF PostUser, Accepts, lifeVars, timerVars, portVars, workerVars, TypeOK,
     WorkInv
<1>10. ASSUME NEW c \in Ctx, KernelCompletes(c)
       PROVE  WorkInv'
  BY <1>10 DEF KernelCompletes, lifeVars, timerVars, portVars, workerVars, TypeOK,
     WorkInv
<1>11. ASSUME NEW t \in Timers, ScheduleTimeout(t)
       PROVE  WorkInv'
  BY <1>11 DEF ScheduleTimeout, lifeVars, opVars, workerVars, TypeOK, WorkInv
<1>12. ASSUME NEW t \in Timers, PublishTimer(t)
       PROVE  WorkInv'
  BY <1>12 DEF PublishTimer, lifeVars, opVars, portVars, workerVars, TypeOK, WorkInv
<1>13. ASSUME NEW t \in Timers, CancelTimeout(t)
       PROVE  WorkInv'
  BY <1>13 DEF CancelTimeout, Cancellable, lifeVars, opVars, workerVars, TypeOK,
     WorkInv
<1>14. ASSUME NEW t \in Timers, Tick(t)
       PROVE  WorkInv'
  BY <1>14 DEF Tick, lifeVars, opVars, portVars, workerVars, TypeOK, WorkInv
<1>15. CASE CancelWakes
  BY <1>15 DEF CancelWakes, lifeVars, opVars, timerVars, workerVars, TypeOK, WorkInv
<1>16. ASSUME NEW w \in Workers, LoopTop(w)
       PROVE  WorkInv'
  BY <1>16 DEF LoopTop, lifeVars, opVars, timerVars, portVars, TypeOK, WorkInv
<1>17. ASSUME NEW w \in Workers, AdvanceTimers(w)
       PROVE  WorkInv'
  BY <1>17 DEF AdvanceTimers, PhaseOfClaimed, DueNow, lifeVars, opVars, portVars,
     TypeOK, WorkInv
<1>18. ASSUME NEW w \in Workers, CheckClaimed(w)
       PROVE  WorkInv'
  BY <1>18, SMTT(30) DEF CheckClaimed, lifeVars, opVars, portVars, TypeOK, WorkInv
<1>19. ASSUME NEW w \in Workers, PostClaimed(w)
       PROVE  WorkInv'
  BY <1>19 DEF PostClaimed, lifeVars, opVars, portVars, TypeOK, WorkInv
<1>20. ASSUME NEW w \in Workers, TakeLease(w)
       PROVE  WorkInv'
  BY <1>20 DEF TakeLease, lifeVars, opVars, timerVars, portVars, TypeOK, WorkInv
<1>21. ASSUME NEW w \in Workers, Dequeue(w)
       PROVE  WorkInv'
  <2>1. PICK x \in Queued :
          /\ item' = [item EXCEPT ![w] = x]
          /\ ctx' = [c \in Ctx |-> IF c = x THEN "idle" ELSE ctx[c]]
          /\ timer' = [t \in Timers |-> IF t = x THEN "running" ELSE timer[t]]
          /\ fired' = [t \in Timers |-> IF t = x THEN fired[t] + 1 ELSE fired[t]]
    BY <1>21 DEF Dequeue
  <2>2. \/ x \in Ctx /\ x \notin Timers /\ ctx[x] = "queued"
        \/ x \in Timers /\ x \notin Ctx /\ timer[x] = "queued"
    BY DEF Queued, Ctx
  <2>3. /\ pc'[w] = "callback" /\ item'[w] = x /\ pc[w] = "wait"
        /\ \A v \in Workers \ {w} : pc'[v] = pc[v] /\ item'[v] = item[v]
        /\ claimed' = claimed
    BY <1>21, <2>1 DEF Dequeue, TypeOK
  <2>4. \A t \in Timers : timer'[t] = IF t = x THEN "running" ELSE timer[t]
    BY <2>1
  <2>5. \A v \in Workers : \A t \in claimed[v] : t \in Timers /\ t # x
    BY <2>2, SetsAssumption DEF WorkInv, TypeOK
  <2>6. \A v \in Workers \ {w} : pc[v] = "callback" => item[v] # x \/ x \in Ctx
    BY <2>2 DEF WorkInv
  <2>7. \A v \in Workers : \A t \in claimed'[v] :
          timer'[t] = "claimed" /\ pc'[v] \in {"claimed", "post"}
    BY <2>3, <2>4, <2>5 DEF WorkInv
  <2>8. \A v \in Workers : pc'[v] = "callback" =>
          item'[v] \in Ctx \/ (item'[v] \in Timers /\ timer'[item'[v]] = "running")
    BY <2>2, <2>3, <2>4 DEF WorkInv
  <2>9. \A u, v \in Workers :
          /\ pc'[u] = "callback" /\ pc'[v] = "callback"
          /\ item'[u] = item'[v] /\ item'[u] \in Timers
          => u = v
    BY <2>2, <2>3, <2>6 DEF WorkInv
  <2>. QED
    BY <2>3, <2>7, <2>8, <2>9 DEF WorkInv
<1>22. ASSUME NEW w \in Workers, WakeUp(w)
       PROVE  WorkInv'
  BY <1>22 DEF WakeUp, lifeVars, opVars, timerVars, TypeOK, WorkInv
<1>23. ASSUME NEW w \in Workers, CheckExit(w)
       PROVE  WorkInv'
  BY <1>23 DEF CheckExit, MayExit, lifeVars, opVars, timerVars, portVars, TypeOK,
     WorkInv
<1>24. ASSUME NEW w \in Workers, CallbackReturns(w)
       PROVE  WorkInv'
  <2>1. /\ pc[w] = "callback" /\ pc'[w] = "top"
        /\ \A v \in Workers \ {w} : pc'[v] = pc[v] /\ item'[v] = item[v]
        /\ claimed' = claimed
        /\ \A t \in Timers : timer'[t] = IF t = item[w] THEN "done" ELSE timer[t]
    BY <1>24 DEF CallbackReturns, TypeOK
  <2>2. \A v \in Workers : \A t \in claimed[v] : t \in Timers /\ t # item[w] /\ v # w
    BY <2>1 DEF WorkInv, TypeOK, Ctx
  <2>3. \A v \in Workers \ {w} :
          pc[v] = "callback" /\ item[v] \in Timers => item[v] # item[w]
    BY <2>1 DEF WorkInv
  <2>4. \A v \in Workers : \A t \in claimed'[v] :
          timer'[t] = "claimed" /\ pc'[v] \in {"claimed", "post"}
    BY <2>1, <2>2 DEF WorkInv
  <2>5. \A v \in Workers : pc'[v] = "callback" =>
          item'[v] \in Ctx \/ (item'[v] \in Timers /\ timer'[item'[v]] = "running")
    BY <2>1, <2>3 DEF WorkInv
  <2>6. \A u, v \in Workers :
          /\ pc'[u] = "callback" /\ pc'[v] = "callback"
          /\ item'[u] = item'[v] /\ item'[u] \in Timers
          => u = v
    BY <2>1 DEF WorkInv
  <2>. QED
    BY <2>1, <2>4, <2>5, <2>6 DEF WorkInv
<1>25. CASE UNCHANGED vars
  BY <1>25 DEF vars, TypeOK, WorkInv
<1>. QED
  BY <1>1, <1>2, <1>3, <1>4, <1>5, <1>6, <1>7, <1>8, <1>9, <1>10, <1>11, <1>12, <1>13,
     <1>14, <1>15, <1>16, <1>17, <1>18, <1>19, <1>20, <1>21, <1>22, <1>23, <1>24, <1>25
     DEF Next, Stop, Worker, Ended, JoinHangs

(* Callbacks are counted. *)
LEMMA FiredStep ==
  ASSUME IInv, [Next]_vars
  PROVE  FiredInv'
<1>. USE SetsAssumption, LimitsAssumption DEF IInv
<1>1. CASE Start
  BY <1>1 DEF Start, opVars, timerVars, portVars, TypeOK, FiredInv
<1>2. CASE StopBegin
  BY <1>2 DEF StopBegin, opVars, timerVars, portVars, workerVars, TypeOK, FiredInv
<1>3. CASE StopClearTimers
  BY <1>3 DEF StopClearTimers, InMap, opVars, portVars, workerVars, TypeOK, FiredInv
<1>4. CASE StopCancelIo
  BY <1>4 DEF StopCancelIo, timerVars, workerVars, TypeOK, FiredInv
<1>5. CASE StopDrained
  BY <1>5 DEF StopDrained, opVars, timerVars, workerVars, TypeOK, FiredInv
<1>6. CASE StopJoined
  BY <1>6 DEF StopJoined, opVars, timerVars, portVars, workerVars, TypeOK, FiredInv
<1>7. CASE StopClose
  BY <1>7 DEF StopClose, opVars, timerVars, workerVars, TypeOK, FiredInv
<1>8. ASSUME NEW c \in Ctx, PostSocketOp(c)
      PROVE  FiredInv'
  BY <1>8 DEF PostSocketOp, Accepts, lifeVars, timerVars, portVars, workerVars,
     TypeOK, FiredInv
<1>9. ASSUME NEW c \in Ctx, PostUser(c)
      PROVE  FiredInv'
  BY <1>9 DEF PostUser, Accepts, lifeVars, timerVars, portVars, workerVars, TypeOK,
     FiredInv
<1>10. ASSUME NEW c \in Ctx, KernelCompletes(c)
       PROVE  FiredInv'
  BY <1>10 DEF KernelCompletes, lifeVars, timerVars, portVars, workerVars, TypeOK,
     FiredInv
<1>11. ASSUME NEW t \in Timers, ScheduleTimeout(t)
       PROVE  FiredInv'
  BY <1>11 DEF ScheduleTimeout, lifeVars, opVars, workerVars, TypeOK, FiredInv
<1>12. ASSUME NEW t \in Timers, PublishTimer(t)
       PROVE  FiredInv'
  BY <1>12 DEF PublishTimer, lifeVars, opVars, portVars, workerVars, TypeOK, FiredInv
<1>13. ASSUME NEW t \in Timers, CancelTimeout(t)
       PROVE  FiredInv'
  BY <1>13 DEF CancelTimeout, Cancellable, lifeVars, opVars, workerVars, TypeOK,
     FiredInv
<1>14. ASSUME NEW t \in Timers, Tick(t)
       PROVE  FiredInv'
  BY <1>14 DEF Tick, lifeVars, opVars, portVars, workerVars, TypeOK, FiredInv
<1>15. CASE CancelWakes
  BY <1>15 DEF CancelWakes, lifeVars, opVars, timerVars, workerVars, TypeOK, FiredInv
<1>16. ASSUME NEW w \in Workers, LoopTop(w)
       PROVE  FiredInv'
  BY <1>16 DEF LoopTop, lifeVars, opVars, timerVars, portVars, TypeOK, FiredInv
<1>17. ASSUME NEW w \in Workers, AdvanceTimers(w)
       PROVE  FiredInv'
  BY <1>17 DEF AdvanceTimers, PhaseOfClaimed, DueNow, lifeVars, opVars, portVars,
     TypeOK, FiredInv
<1>18. ASSUME NEW w \in Workers, CheckClaimed(w)
       PROVE  FiredInv'
  BY <1>18 DEF CheckClaimed, lifeVars, opVars, portVars, TypeOK, FiredInv, WorkInv
<1>19. ASSUME NEW w \in Workers, PostClaimed(w)
       PROVE  FiredInv'
  BY <1>19 DEF PostClaimed, lifeVars, opVars, portVars, TypeOK, FiredInv, WorkInv
<1>20. ASSUME NEW w \in Workers, TakeLease(w)
       PROVE  FiredInv'
  BY <1>20 DEF TakeLease, lifeVars, opVars, timerVars, portVars, TypeOK, FiredInv
<1>21. ASSUME NEW w \in Workers, Dequeue(w)
       PROVE  FiredInv'
  <2>1. PICK x \in Queued :
          /\ item' = [item EXCEPT ![w] = x]
          /\ ctx' = [c \in Ctx |-> IF c = x THEN "idle" ELSE ctx[c]]
          /\ timer' = [t \in Timers |-> IF t = x THEN "running" ELSE timer[t]]
          /\ fired' = [t \in Timers |-> IF t = x THEN fired[t] + 1 ELSE fired[t]]
    BY <1>21 DEF Dequeue
  <2>2. \/ x \in Ctx /\ x \notin Timers /\ ctx[x] = "queued"
        \/ x \in Timers /\ x \notin Ctx /\ timer[x] = "queued"
    BY DEF Queued, Ctx
  <2>. QED
    BY <2>1, <2>2 DEF TypeOK, FiredInv
<1>22. ASSUME NEW w \in Workers, WakeUp(w)
       PROVE  FiredInv'
  BY <1>22 DEF WakeUp, lifeVars, opVars, timerVars, TypeOK, FiredInv
<1>23. ASSUME NEW w \in Workers, CheckExit(w)
       PROVE  FiredInv'
  BY <1>23 DEF CheckExit, MayExit, lifeVars, opVars, timerVars, portVars, TypeOK,
     FiredInv
<1>24. ASSUME NEW w \in Workers, CallbackReturns(w)
       PROVE  FiredInv'
  <2>1. /\ fired' = fired
        /\ \A t \in Timers : timer'[t] = IF t = item[w] THEN "done" ELSE timer[t]
    BY <1>24 DEF CallbackReturns
  <2>2. item[w] \in Timers => timer[item[w]] = "running"
    BY <1>24 DEF CallbackReturns, WorkInv, Ctx
  <2>. QED
    BY <2>1, <2>2 DEF FiredInv
<1>25. CASE UNCHANGED vars
  BY <1>25 DEF vars, TypeOK, FiredInv
<1>. QED
  BY <1>1, <1>2, <1>3, <1>4, <1>5, <1>6, <1>7, <1>8, <1>9, <1>10, <1>11, <1>12, <1>13,
     <1>14, <1>15, <1>16, <1>17, <1>18, <1>19, <1>20, <1>21, <1>22, <1>23, <1>24, <1>25
     DEF Next, Stop, Worker, Ended, JoinHangs

(* Wake-ups are not lost. *)
LEMMA WakeStep ==
  ASSUME IInv, [Next]_vars
  PROVE  WakeInv'
<1>. USE SetsAssumption, LimitsAssumption DEF IInv
<1>1. CASE Start
  BY <1>1 DEF Start, opVars, timerVars, portVars, TypeOK, LifeInv, WakeInv, Sleeps
<1>2. CASE StopBegin
  BY <1>2 DEF StopBegin, opVars, timerVars, portVars, workerVars, TypeOK, LifeInv,
     WakeInv, Sleeps
<1>3. CASE StopClearTimers
  BY <1>3 DEF StopClearTimers, InMap, opVars, portVars, workerVars, TypeOK, LifeInv,
     WakeInv, Sleeps
<1>4. CASE StopCancelIo
  BY <1>4 DEF StopCancelIo, timerVars, workerVars, TypeOK, LifeInv, WakeInv, Sleeps
<1>5. CASE StopDrained
  BY <1>5 DEF StopDrained, opVars, timerVars, workerVars, TypeOK, LifeInv, WakeInv,
     Sleeps
<1>6. CASE StopJoined
  BY <1>6 DEF StopJoined, opVars, timerVars, portVars, workerVars, TypeOK, LifeInv,
     WakeInv, Sleeps
<1>7. CASE StopClose
  BY <1>7 DEF StopClose, opVars, timerVars, workerVars, TypeOK, LifeInv, WakeInv,
     Sleeps
<1>8. ASSUME NEW c \in Ctx, PostSocketOp(c)
      PROVE  WakeInv'
  BY <1>8 DEF PostSocketOp, Accepts, lifeVars, timerVars, portVars, workerVars,
     TypeOK, LifeInv, WakeInv, Sleeps
<1>9. ASSUME NEW c \in Ctx, PostUser(c)
      PROVE  WakeInv'
  BY <1>9 DEF PostUser, Accepts, lifeVars, timerVars, portVars, workerVars, TypeOK,
     LifeInv, WakeInv, Sleeps
<1>10. ASSUME NEW c \in Ctx, KernelCompletes(c)
       PROVE  WakeInv'
  BY <1>10 DEF KernelCompletes, lifeVars, timerVars, portVars, workerVars, TypeOK,
     LifeInv, WakeInv, Sleeps
<1>11. ASSUME NEW t \in Timers, ScheduleTimeout(t)
       PROVE  WakeInv'
  BY <1>11 DEF ScheduleTimeout, lifeVars, opVars, workerVars, TypeOK, LifeInv,
     WakeInv, Sleeps
<1>12. ASSUME NEW t \in Timers, PublishTimer(t)
       PROVE  WakeInv'
  BY <1>12 DEF PublishTimer, lifeVars, opVars, portVars, workerVars, TypeOK, LifeInv,
     WakeInv, Sleeps
<1>13. ASSUME NEW t \in Timers, CancelTimeout(t)
       PROVE  WakeInv'
  BY <1>13 DEF CancelTimeout, Cancellable, lifeVars, opVars, workerVars, TypeOK,
     LifeInv, WakeInv, Sleeps
<1>14. ASSUME NEW t \in Timers, Tick(t)
       PROVE  WakeInv'
  BY <1>14 DEF Tick, lifeVars, opVars, portVars, workerVars, TypeOK, LifeInv, WakeInv,
     Sleeps
<1>15. CASE CancelWakes
  BY <1>15 DEF CancelWakes, lifeVars, opVars, timerVars, workerVars, TypeOK, LifeInv,
     WakeInv, Sleeps
<1>16. ASSUME NEW w \in Workers, LoopTop(w)
       PROVE  WakeInv'
  BY <1>16 DEF LoopTop, lifeVars, opVars, timerVars, portVars, TypeOK, LifeInv,
     WakeInv, Sleeps
<1>17. ASSUME NEW w \in Workers, AdvanceTimers(w)
       PROVE  WakeInv'
  BY <1>17 DEF AdvanceTimers, PhaseOfClaimed, DueNow, lifeVars, opVars, portVars,
     TypeOK, LifeInv, WakeInv, Sleeps, TimersLeft, InMap
<1>18. ASSUME NEW w \in Workers, CheckClaimed(w)
       PROVE  WakeInv'
  BY <1>18 DEF CheckClaimed, lifeVars, opVars, portVars, TypeOK, LifeInv, WakeInv,
     Sleeps
<1>19. ASSUME NEW w \in Workers, PostClaimed(w)
       PROVE  WakeInv'
  BY <1>19 DEF PostClaimed, lifeVars, opVars, portVars, TypeOK, LifeInv, WakeInv,
     Sleeps
<1>20. ASSUME NEW w \in Workers, TakeLease(w)
       PROVE  WakeInv'
  BY <1>20 DEF TakeLease, lifeVars, opVars, timerVars, portVars, TypeOK, LifeInv,
     WakeInv, Sleeps
<1>21. ASSUME NEW w \in Workers, Dequeue(w)
       PROVE  WakeInv'
  BY <1>21 DEF Dequeue, lifeVars, portVars, TypeOK, LifeInv, WakeInv, Sleeps
<1>22. ASSUME NEW w \in Workers, WakeUp(w)
       PROVE  WakeInv'
  BY <1>22 DEF WakeUp, lifeVars, opVars, timerVars, TypeOK, LifeInv, WakeInv, Sleeps
<1>23. ASSUME NEW w \in Workers, CheckExit(w)
       PROVE  WakeInv'
  BY <1>23 DEF CheckExit, MayExit, lifeVars, opVars, timerVars, portVars, TypeOK,
     LifeInv, WakeInv, Sleeps
<1>24. ASSUME NEW w \in Workers, CallbackReturns(w)
       PROVE  WakeInv'
  BY <1>24 DEF CallbackReturns, lifeVars, opVars, portVars, TypeOK, LifeInv, WakeInv,
     Sleeps
<1>25. CASE UNCHANGED vars
  BY <1>25 DEF vars, TypeOK, LifeInv, WakeInv, Sleeps
<1>. QED
  BY <1>1, <1>2, <1>3, <1>4, <1>5, <1>6, <1>7, <1>8, <1>9, <1>10, <1>11, <1>12, <1>13,
     <1>14, <1>15, <1>16, <1>17, <1>18, <1>19, <1>20, <1>21, <1>22, <1>23, <1>24, <1>25
     DEF Next, Stop, Worker, Ended, JoinHangs

(* Every operation is counted once. *)
LEMMA AccountingStep ==
  ASSUME IInv, [Next]_vars
  PROVE  Accounting'
<1>. USE SetsAssumption, LimitsAssumption DEF IInv
<1>1. CASE Start
  <2>1. Pinned' = Pinned /\ LiveTimers' = LiveTimers /\ InCallback' = InCallback
    BY <1>1 DEF Start, opVars, timerVars, portVars, TypeOK, Pinned, LiveTimers,
       InCallback, LifeInv
  <2>. QED
    BY <1>1, <2>1 DEF Start, Accounting
<1>2. CASE StopBegin
  <2>1. Pinned' = Pinned /\ LiveTimers' = LiveTimers /\ InCallback' = InCallback
    BY <1>2 DEF StopBegin, opVars, timerVars, portVars, workerVars, TypeOK, Pinned,
       LiveTimers, InCallback
  <2>. QED
    BY <1>2, <2>1 DEF StopBegin, Accounting
<1>3. CASE StopClearTimers
  <2>1. Pinned' = Pinned /\ InCallback' = InCallback
    BY <1>3 DEF StopClearTimers, InMap, opVars, portVars, workerVars, TypeOK, Pinned,
       LiveTimers, InCallback
  <2>. DEFINE gone == {t \in Timers : InMap(t)}
  <2>2. LiveTimers' = LiveTimers \ gone /\ gone \in SUBSET LiveTimers
    BY <1>3 DEF StopClearTimers, InMap, LiveTimers, TypeOK
  <2>3. outstanding' = outstanding - Cardinality(gone)
    BY <1>3 DEF StopClearTimers
  <2>. HIDE DEF gone
  <2>4. Cardinality(gone) \in Nat
    BY <2>2, Counted, FS_Subset, FS_CardinalityType
  <2>5. Cardinality(LiveTimers') = Cardinality(LiveTimers) - Cardinality(gone)
    BY <2>2, Counted, PartTaken
  <2>. QED
    BY <2>1, <2>3, <2>4, <2>5, Counted DEF Accounting
<1>4. CASE StopCancelIo
  <2>1. Pinned' = Pinned /\ LiveTimers' = LiveTimers /\ InCallback' = InCallback
    BY <1>4 DEF StopCancelIo, timerVars, workerVars, TypeOK, Pinned, LiveTimers,
       InCallback
  <2>. QED
    BY <1>4, <2>1 DEF StopCancelIo, Accounting
<1>5. CASE StopDrained
  <2>1. Pinned' = Pinned /\ LiveTimers' = LiveTimers /\ InCallback' = InCallback
    BY <1>5 DEF StopDrained, opVars, timerVars, workerVars, TypeOK, Pinned,
       LiveTimers, InCallback
  <2>. QED
    BY <1>5, <2>1 DEF StopDrained, Accounting
<1>6. CASE StopJoined
  <2>1. Pinned' = Pinned /\ LiveTimers' = LiveTimers /\ InCallback' = InCallback
    BY <1>6 DEF StopJoined, opVars, timerVars, portVars, workerVars, TypeOK, Pinned,
       LiveTimers, InCallback
  <2>. QED
    BY <1>6, <2>1 DEF StopJoined, Accounting
<1>7. CASE StopClose
  <2>1. Pinned' = Pinned /\ LiveTimers' = LiveTimers /\ InCallback' = InCallback
    BY <1>7 DEF StopClose, opVars, timerVars, workerVars, TypeOK, Pinned, LiveTimers,
       InCallback
  <2>. QED
    BY <1>7, <2>1 DEF StopClose, Accounting
<1>8. ASSUME NEW c \in Ctx, PostSocketOp(c)
      PROVE  Accounting'
  <2>1. Pinned' = Pinned \cup {c} /\ c \notin Pinned
    BY <1>8 DEF PostSocketOp, Accepts, lifeVars, timerVars, portVars, workerVars,
       TypeOK, Pinned, LiveTimers, InCallback
  <2>2. LiveTimers' = LiveTimers /\ InCallback' = InCallback
    BY <1>8 DEF PostSocketOp, Accepts, lifeVars, timerVars, portVars, workerVars,
       TypeOK, Pinned, LiveTimers, InCallback
  <2>3. Cardinality(Pinned') = Cardinality(Pinned) + 1
    BY <2>1, Counted, FS_AddElement
  <2>. QED
    BY <1>8, <2>2, <2>3, Counted DEF PostSocketOp, Accounting
<1>9. ASSUME NEW c \in Ctx, PostUser(c)
      PROVE  Accounting'
  <2>1. Pinned' = Pinned \cup {c} /\ c \notin Pinned
    BY <1>9 DEF PostUser, Accepts, lifeVars, timerVars, portVars, workerVars, TypeOK,
       Pinned, LiveTimers, InCallback
  <2>2. LiveTimers' = LiveTimers /\ InCallback' = InCallback
    BY <1>9 DEF PostUser, Accepts, lifeVars, timerVars, portVars, workerVars, TypeOK,
       Pinned, LiveTimers, InCallback
  <2>3. Cardinality(Pinned') = Cardinality(Pinned) + 1
    BY <2>1, Counted, FS_AddElement
  <2>. QED
    BY <1>9, <2>2, <2>3, Counted DEF PostUser, Accounting
<1>10. ASSUME NEW c \in Ctx, KernelCompletes(c)
       PROVE  Accounting'
  <2>1. Pinned' = Pinned /\ LiveTimers' = LiveTimers /\ InCallback' = InCallback
    BY <1>10 DEF KernelCompletes, lifeVars, timerVars, portVars, workerVars, TypeOK,
       Pinned, LiveTimers, InCallback
  <2>. QED
    BY <1>10, <2>1 DEF KernelCompletes, Accounting
<1>11. ASSUME NEW t \in Timers, ScheduleTimeout(t)
       PROVE  Accounting'
  <2>1. LiveTimers' = LiveTimers \cup {t} /\ t \notin LiveTimers
    BY <1>11 DEF ScheduleTimeout, lifeVars, opVars, workerVars, TypeOK, Pinned,
       LiveTimers, InCallback
  <2>2. Pinned' = Pinned /\ InCallback' = InCallback
    BY <1>11 DEF ScheduleTimeout, lifeVars, opVars, workerVars, TypeOK, Pinned,
       LiveTimers, InCallback
  <2>3. Cardinality(LiveTimers') = Cardinality(LiveTimers) + 1
    BY <2>1, Counted, FS_AddElement
  <2>. QED
    BY <1>11, <2>2, <2>3, Counted DEF ScheduleTimeout, Accounting
<1>12. ASSUME NEW t \in Timers, PublishTimer(t)
       PROVE  Accounting'
  <2>1. Pinned' = Pinned /\ InCallback' = InCallback
    BY <1>12 DEF PublishTimer, lifeVars, opVars, portVars, workerVars, TypeOK, Pinned,
       LiveTimers, InCallback
  <2>2. CASE timer[t] = "publishing"
    <3>1. LiveTimers' = LiveTimers
      BY <1>12, <2>2 DEF PublishTimer, LiveTimers, TypeOK
    <3>. QED
      BY <1>12, <2>1, <2>2, <3>1 DEF PublishTimer, Accounting
  <2>3. CASE timer[t] = "failing"
    <3>1. LiveTimers' = LiveTimers \ {t} /\ t \in LiveTimers
      BY <1>12, <2>3 DEF PublishTimer, LiveTimers, TypeOK
    <3>2. Cardinality(LiveTimers') = Cardinality(LiveTimers) - 1
      BY <3>1, Counted, FS_RemoveElement
    <3>. QED
      BY <1>12, <2>1, <2>3, <3>2, Counted DEF PublishTimer, Accounting
  <2>. QED
    BY <1>12, <2>2, <2>3 DEF PublishTimer
<1>13. ASSUME NEW t \in Timers, CancelTimeout(t)
       PROVE  Accounting'
  <2>1. LiveTimers' = LiveTimers \ {t} /\ t \in LiveTimers
    BY <1>13 DEF CancelTimeout, Cancellable, lifeVars, opVars, workerVars, TypeOK,
       Pinned, LiveTimers, InCallback
  <2>2. Pinned' = Pinned /\ InCallback' = InCallback
    BY <1>13 DEF CancelTimeout, Cancellable, lifeVars, opVars, workerVars, TypeOK,
       Pinned, LiveTimers, InCallback
  <2>3. Cardinality(LiveTimers') = Cardinality(LiveTimers) - 1
    BY <2>1, Counted, FS_RemoveElement
  <2>. QED
    BY <1>13, <2>2, <2>3, Counted DEF CancelTimeout, Accounting
<1>14. ASSUME NEW t \in Timers, Tick(t)
       PROVE  Accounting'
  <2>1. Pinned' = Pinned /\ LiveTimers' = LiveTimers /\ InCallback' = InCallback
    BY <1>14 DEF Tick, lifeVars, opVars, portVars, workerVars, TypeOK, Pinned,
       LiveTimers, InCallback
  <2>. QED
    BY <1>14, <2>1 DEF Tick, Accounting
<1>15. CASE CancelWakes
  <2>1. Pinned' = Pinned /\ LiveTimers' = LiveTimers /\ InCallback' = InCallback
    BY <1>15 DEF CancelWakes, lifeVars, opVars, timerVars, workerVars, TypeOK, Pinned,
       LiveTimers, InCallback
  <2>. QED
    BY <1>15, <2>1 DEF CancelWakes, Accounting
<1>16. ASSUME NEW w \in Workers, LoopTop(w)
       PROVE  Accounting'
  <2>1. Pinned' = Pinned /\ LiveTimers' = LiveTimers /\ InCallback' = InCallback
    BY <1>16 DEF LoopTop, lifeVars, opVars, timerVars, portVars, TypeOK, Pinned,
       LiveTimers, InCallback
  <2>. QED
    BY <1>16, <2>1 DEF LoopTop, Accounting
<1>17. ASSUME NEW w \in Workers, AdvanceTimers(w)
       PROVE  Accounting'
  <2>1. Pinned' = Pinned /\ LiveTimers' = LiveTimers /\ InCallback' = InCallback
    BY <1>17 DEF AdvanceTimers, PhaseOfClaimed, DueNow, lifeVars, opVars, portVars,
       TypeOK, Pinned, LiveTimers, InCallback
  <2>. QED
    BY <1>17, <2>1 DEF AdvanceTimers, Accounting
<1>18. ASSUME NEW w \in Workers, CheckClaimed(w)
       PROVE  Accounting'
  <2>1. Pinned' = Pinned /\ InCallback' = InCallback
    BY <1>18 DEF CheckClaimed, lifeVars, opVars, portVars, TypeOK, Pinned, LiveTimers,
       InCallback
  <2>2. CASE running
    BY <1>18, <2>1, <2>2 DEF CheckClaimed, LiveTimers, Accounting
  <2>3. CASE ~running
    <3>. DEFINE gone == claimed[w]
    <3>1. LiveTimers' = LiveTimers \ gone /\ gone \in SUBSET LiveTimers
      BY <1>18, <2>3 DEF CheckClaimed, LiveTimers, TypeOK, WorkInv
    <3>2. outstanding' = outstanding - Cardinality(gone)
      BY <1>18, <2>3 DEF CheckClaimed
    <3>. HIDE DEF gone
    <3>3. Cardinality(gone) \in Nat
      BY <3>1, Counted, FS_Subset, FS_CardinalityType
    <3>4. Cardinality(LiveTimers') = Cardinality(LiveTimers) - Cardinality(gone)
      BY <3>1, Counted, PartTaken
    <3>. QED
      BY <2>1, <3>2, <3>3, <3>4, Counted DEF Accounting
  <2>. QED
    BY <2>2, <2>3
<1>19. ASSUME NEW w \in Workers, PostClaimed(w)
       PROVE  Accounting'
  <2>1. Pinned' = Pinned /\ InCallback' = InCallback
    BY <1>19 DEF PostClaimed, lifeVars, opVars, portVars, TypeOK, Pinned, LiveTimers,
       InCallback
  <2>2. PICK lost \in SUBSET claimed[w] :
          /\ timer' = [t \in Timers |-> IF t \in lost THEN "discarded"
                                        ELSE IF t \in claimed[w] THEN "queued"
                                        ELSE timer[t]]
          /\ outstanding' = outstanding - Cardinality(lost)
    BY <1>19 DEF PostClaimed
  <2>3. LiveTimers' = LiveTimers \ lost /\ lost \in SUBSET LiveTimers
    BY <2>2 DEF LiveTimers, TypeOK, WorkInv
  <2>4. Cardinality(lost) \in Nat
    BY <2>3, Counted, FS_Subset, FS_CardinalityType
  <2>5. Cardinality(LiveTimers') = Cardinality(LiveTimers) - Cardinality(lost)
    BY <2>3, Counted, PartTaken
  <2>. QED
    BY <2>1, <2>2, <2>4, <2>5, Counted DEF Accounting
<1>20. ASSUME NEW w \in Workers, TakeLease(w)
       PROVE  Accounting'
  <2>1. Pinned' = Pinned /\ LiveTimers' = LiveTimers /\ InCallback' = InCallback
    BY <1>20 DEF TakeLease, lifeVars, opVars, timerVars, portVars, TypeOK, Pinned,
       LiveTimers, InCallback
  <2>. QED
    BY <1>20, <2>1 DEF TakeLease, Accounting
<1>21. ASSUME NEW w \in Workers, Dequeue(w)
       PROVE  Accounting'
  <2>1. PICK x \in Queued :
          /\ item' = [item EXCEPT ![w] = x]
          /\ ctx' = [c \in Ctx |-> IF c = x THEN "idle" ELSE ctx[c]]
          /\ timer' = [t \in Timers |-> IF t = x THEN "running" ELSE timer[t]]
          /\ fired' = [t \in Timers |-> IF t = x THEN fired[t] + 1 ELSE fired[t]]
    BY <1>21 DEF Dequeue
  <2>2. \/ x \in Ctx /\ x \notin Timers /\ ctx[x] = "queued"
        \/ x \in Timers /\ x \notin Ctx /\ timer[x] = "queued"
    BY DEF Queued, Ctx
  <2>3. /\ pc'[w] = "callback" /\ item'[w] = x /\ pc[w] = "wait"
        /\ \A v \in Workers \ {w} : pc'[v] = pc[v] /\ item'[v] = item[v]
        /\ outstanding' = outstanding
    BY <1>21, <2>1 DEF Dequeue, TypeOK
  <2>4. LiveTimers' = LiveTimers
    BY <2>1, <2>2 DEF LiveTimers
  <2>5. CASE x \in Ctx
    <3>1. Pinned' = Pinned \ {x} /\ x \in Pinned
      BY <2>1, <2>2, <2>5 DEF Pinned
    <3>2. InCallback' = InCallback \cup {w} /\ w \notin InCallback
      BY <2>3, <2>5 DEF InCallback
    <3>3. /\ Cardinality(Pinned') = Cardinality(Pinned) - 1
          /\ Cardinality(InCallback') = Cardinality(InCallback) + 1
      BY <3>1, <3>2, Counted, FS_AddElement, FS_RemoveElement
    <3>. QED
      BY <2>3, <2>4, <3>3, Counted DEF Accounting
  <2>6. CASE x \in Timers
    <3>1. x \notin Ctx
      BY <2>2, <2>6
    <3>2. Pinned' = Pinned
      BY <2>1, <3>1 DEF Pinned
    <3>3. InCallback' = InCallback
      BY <2>3, <3>1 DEF InCallback
    <3>. QED
      BY <2>3, <2>4, <3>2, <3>3 DEF Accounting
  <2>. QED
    BY <2>2, <2>5, <2>6
<1>22. ASSUME NEW w \in Workers, WakeUp(w)
       PROVE  Accounting'
  <2>1. Pinned' = Pinned /\ LiveTimers' = LiveTimers /\ InCallback' = InCallback
    BY <1>22 DEF WakeUp, lifeVars, opVars, timerVars, TypeOK, Pinned, LiveTimers,
       InCallback
  <2>. QED
    BY <1>22, <2>1 DEF WakeUp, Accounting
<1>23. ASSUME NEW w \in Workers, CheckExit(w)
       PROVE  Accounting'
  <2>1. Pinned' = Pinned /\ LiveTimers' = LiveTimers /\ InCallback' = InCallback
    BY <1>23 DEF CheckExit, MayExit, lifeVars, opVars, timerVars, portVars, TypeOK,
       Pinned, LiveTimers, InCallback
  <2>. QED
    BY <1>23, <2>1 DEF CheckExit, Accounting
<1>24. ASSUME NEW w \in Workers, CallbackReturns(w)
       PROVE  Accounting'
  <2>1. /\ pc[w] = "callback" /\ pc'[w] = "top"
        /\ \A v \in Workers \ {w} : pc'[v] = pc[v] /\ item'[v] = item[v]
        /\ \A t \in Timers : timer'[t] = IF t = item[w] THEN "done" ELSE timer[t]
        /\ outstanding' = outstanding - 1
    BY <1>24 DEF CallbackReturns, TypeOK
  <2>2. Pinned' = Pinned
    BY <1>24 DEF CallbackReturns, opVars, Pinned
  <2>3. CASE item[w] \in Ctx
    <3>1. InCallback' = InCallback \ {w} /\ w \in InCallback
      BY <2>1, <2>3 DEF InCallback
    <3>2. item[w] \notin Timers
      BY <2>3 DEF Ctx
    <3>3. LiveTimers' = LiveTimers
      BY <2>1, <3>2 DEF LiveTimers
    <3>4. Cardinality(InCallback') = Cardinality(InCallback) - 1
      BY <3>1, Counted, FS_RemoveElement
    <3>. QED
      BY <2>1, <2>2, <3>3, <3>4, Counted DEF Accounting
  <2>4. CASE item[w] \in Timers
    <3>1. item[w] \notin Ctx /\ timer[item[w]] = "running"
      BY <2>1, <2>4 DEF WorkInv, Ctx
    <3>2. InCallback' = InCallback
      BY <2>1, <3>1 DEF InCallback
    <3>3. LiveTimers' = LiveTimers \ {item[w]} /\ item[w] \in LiveTimers
      BY <2>1, <2>4, <3>1 DEF LiveTimers
    <3>4. Cardinality(LiveTimers') = Cardinality(LiveTimers) - 1
      BY <3>3, Counted, FS_RemoveElement
    <3>. QED
      BY <2>1, <2>2, <3>2, <3>4, Counted DEF Accounting
  <2>. QED
    BY <2>1, <2>3, <2>4 DEF WorkInv
<1>25. CASE UNCHANGED vars
  BY <1>25 DEF vars, Accounting, Pinned, LiveTimers, InCallback
<1>. QED
  BY <1>1, <1>2, <1>3, <1>4, <1>5, <1>6, <1>7, <1>8, <1>9, <1>10, <1>11, <1>12, <1>13,
     <1>14, <1>15, <1>16, <1>17, <1>18, <1>19, <1>20, <1>21, <1>22, <1>23, <1>24, <1>25
     DEF Next, Stop, Worker, Ended, JoinHangs

(* What Stop has waited for does not come back. *)
LEMMA DrainedStep ==
  ASSUME IInv, [Next]_vars
  PROVE  Drained'
<1>. USE SetsAssumption, LimitsAssumption DEF IInv
<1>1. CASE Start
  BY <1>1 DEF Start, opVars, timerVars, portVars, TypeOK, LifeInv, Drained, Pinned,
     LiveTimers, InCallback, WorkInv
<1>2. CASE StopBegin
  BY <1>2 DEF StopBegin, opVars, timerVars, portVars, workerVars, TypeOK, LifeInv,
     Drained, Pinned, LiveTimers, InCallback, WorkInv
<1>3. CASE StopClearTimers
  BY <1>3 DEF StopClearTimers, InMap, opVars, portVars, workerVars, TypeOK, LifeInv,
     Drained, Pinned, LiveTimers, InCallback, WorkInv
<1>4. CASE StopCancelIo
  BY <1>4 DEF StopCancelIo, timerVars, workerVars, TypeOK, LifeInv, Drained, Pinned,
     LiveTimers, InCallback, WorkInv
<1>5. CASE StopDrained
  <2>1. outstanding = 0
    BY <1>5 DEF StopDrained
  <2>2. /\ Cardinality(Pinned) = 0 /\ Cardinality(LiveTimers) = 0
        /\ Cardinality(InCallback) = 0
    BY <2>1, Counted DEF Accounting
  <2>3. Pinned = {} /\ LiveTimers = {} /\ InCallback = {}
    BY <2>2, Counted, FS_EmptySet
  <2>4. Pinned' = Pinned /\ LiveTimers' = LiveTimers /\ InCallback' = InCallback
    BY <1>5 DEF StopDrained, opVars, timerVars, workerVars, Pinned, LiveTimers, InCallback
  <2>. QED
    BY <2>3, <2>4 DEF Drained
<1>6. CASE StopJoined
  BY <1>6 DEF StopJoined, opVars, timerVars, portVars, workerVars, TypeOK, LifeInv,
     Drained, Pinned, LiveTimers, InCallback, WorkInv
<1>7. CASE StopClose
  BY <1>7 DEF StopClose, opVars, timerVars, workerVars, TypeOK, LifeInv, Drained,
     Pinned, LiveTimers, InCallback, WorkInv
<1>8. ASSUME NEW c \in Ctx, PostSocketOp(c)
      PROVE  Drained'
  BY <1>8 DEF PostSocketOp, Accepts, lifeVars, timerVars, portVars, workerVars,
     TypeOK, LifeInv, Drained, Pinned, LiveTimers, InCallback, WorkInv
<1>9. ASSUME NEW c \in Ctx, PostUser(c)
      PROVE  Drained'
  BY <1>9 DEF PostUser, Accepts, lifeVars, timerVars, portVars, workerVars, TypeOK,
     LifeInv, Drained, Pinned, LiveTimers, InCallback, WorkInv
<1>10. ASSUME NEW c \in Ctx, KernelCompletes(c)
       PROVE  Drained'
  BY <1>10 DEF KernelCompletes, lifeVars, timerVars, portVars, workerVars, TypeOK,
     LifeInv, Drained, Pinned, LiveTimers, InCallback, WorkInv
<1>11. ASSUME NEW t \in Timers, ScheduleTimeout(t)
       PROVE  Drained'
  BY <1>11 DEF ScheduleTimeout, lifeVars, opVars, workerVars, TypeOK, LifeInv,
     Drained, Pinned, LiveTimers, InCallback, WorkInv
<1>12. ASSUME NEW t \in Timers, PublishTimer(t)
       PROVE  Drained'
  BY <1>12 DEF PublishTimer, lifeVars, opVars, portVars, workerVars, TypeOK, LifeInv,
     Drained, Pinned, LiveTimers, InCallback, WorkInv
<1>13. ASSUME NEW t \in Timers, CancelTimeout(t)
       PROVE  Drained'
  BY <1>13 DEF CancelTimeout, Cancellable, lifeVars, opVars, workerVars, TypeOK,
     LifeInv, Drained, Pinned, LiveTimers, InCallback, WorkInv
<1>14. ASSUME NEW t \in Timers, Tick(t)
       PROVE  Drained'
  BY <1>14 DEF Tick, lifeVars, opVars, portVars, workerVars, TypeOK, LifeInv, Drained,
     Pinned, LiveTimers, InCallback, WorkInv
<1>15. CASE CancelWakes
  BY <1>15 DEF CancelWakes, lifeVars, opVars, timerVars, workerVars, TypeOK, LifeInv,
     Drained, Pinned, LiveTimers, InCallback, WorkInv
<1>16. ASSUME NEW w \in Workers, LoopTop(w)
       PROVE  Drained'
  BY <1>16 DEF LoopTop, lifeVars, opVars, timerVars, portVars, TypeOK, LifeInv,
     Drained, Pinned, LiveTimers, InCallback, WorkInv
<1>17. ASSUME NEW w \in Workers, AdvanceTimers(w)
       PROVE  Drained'
  BY <1>17 DEF AdvanceTimers, PhaseOfClaimed, DueNow, lifeVars, opVars, portVars,
     TypeOK, LifeInv, Drained, Pinned, LiveTimers, InCallback, WorkInv
<1>18. ASSUME NEW w \in Workers, CheckClaimed(w)
       PROVE  Drained'
  BY <1>18 DEF CheckClaimed, lifeVars, opVars, portVars, TypeOK, LifeInv, Drained,
     Pinned, LiveTimers, InCallback, WorkInv
<1>19. ASSUME NEW w \in Workers, PostClaimed(w)
       PROVE  Drained'
  BY <1>19 DEF PostClaimed, lifeVars, opVars, portVars, TypeOK, LifeInv, Drained,
     Pinned, LiveTimers, InCallback, WorkInv
<1>20. ASSUME NEW w \in Workers, TakeLease(w)
       PROVE  Drained'
  BY <1>20 DEF TakeLease, lifeVars, opVars, timerVars, portVars, TypeOK, LifeInv,
     Drained, Pinned, LiveTimers, InCallback, WorkInv
<1>21. ASSUME NEW w \in Workers, Dequeue(w)
       PROVE  Drained'
  <2>1. stopper' = stopper /\ port' = port /\ pc[w] = "wait" /\ Queued # {}
    BY <1>21 DEF Dequeue, lifeVars
  <2>2. Pinned # {} \/ LiveTimers # {}
    BY <2>1 DEF Queued, Pinned, LiveTimers
  <2>. QED
    BY <2>1, <2>2 DEF Drained
<1>22. ASSUME NEW w \in Workers, WakeUp(w)
       PROVE  Drained'
  BY <1>22 DEF WakeUp, lifeVars, opVars, timerVars, TypeOK, LifeInv, Drained, Pinned,
     LiveTimers, InCallback, WorkInv
<1>23. ASSUME NEW w \in Workers, CheckExit(w)
       PROVE  Drained'
  BY <1>23 DEF CheckExit, MayExit, lifeVars, opVars, timerVars, portVars, TypeOK,
     LifeInv, Drained, Pinned, LiveTimers, InCallback, WorkInv
<1>24. ASSUME NEW w \in Workers, CallbackReturns(w)
       PROVE  Drained'
  BY <1>24 DEF CallbackReturns, lifeVars, opVars, portVars, TypeOK, LifeInv, Drained,
     Pinned, LiveTimers, InCallback, WorkInv
<1>25. CASE UNCHANGED vars
  BY <1>25 DEF vars, TypeOK, LifeInv, Drained, Pinned, LiveTimers, InCallback, WorkInv
<1>. QED
  BY <1>1, <1>2, <1>3, <1>4, <1>5, <1>6, <1>7, <1>8, <1>9, <1>10, <1>11, <1>12, <1>13,
     <1>14, <1>15, <1>16, <1>17, <1>18, <1>19, <1>20, <1>21, <1>22, <1>23, <1>24, <1>25
     DEF Next, Stop, Worker, Ended, JoinHangs

(* The service starts stopped. *)
LEMMA InitInv == Init => IInv
<1>. SUFFICES ASSUME Init PROVE IInv
  OBVIOUS
<1>. USE SetsAssumption, LimitsAssumption
<1>1. TypeOK
  <2>1. ctx \in [Ctx -> {"idle", "kernel", "queued"}] /\ posts \in [Ctx -> Nat]
    BY DEF Init
  <2>2. timer \in [Timers -> Phases] /\ fired \in [Timers -> Nat]
    BY DEF Init, Phases
  <2>3. pc \in [Workers -> Places] /\ wait \in [Workers -> {"zero", "timed", "inf"}]
    BY DEF Init, Places
  <2>4. claimed \in [Workers -> SUBSET Timers]
    BY DEF Init
  <2>5. item \in [Workers -> Ctx \cup Timers \cup {None}]
    BY DEF Init
  <2>6. /\ running = FALSE /\ stopper = "idle" /\ port = "null" /\ starts = 0
        /\ cancelled = {} /\ due = {} /\ missed = 0
        /\ wakes = 0 /\ nudges = 0 /\ outstanding = 0 /\ users = 0
    BY DEF Init
  <2>7. /\ running \in BOOLEAN /\ starts \in Nat /\ missed \in Nat
        /\ stopper \in {"idle", "begun", "cleared", "draining", "joining", "closing"}
        /\ port \in {"null", "open", "unpublished"}
        /\ cancelled \subseteq Ctx /\ due \subseteq Timers
    BY <2>6
  <2>8. wakes \in Nat /\ nudges \in Nat /\ outstanding \in Int /\ users \in Int
    BY <2>6
  <2>. QED
    BY <2>1, <2>2, <2>3, <2>4, <2>5, <2>7, <2>8 DEF TypeOK
<1>2. Pinned = {} /\ LiveTimers = {} /\ InCallback = {}
  BY DEF Init, Pinned, LiveTimers, InCallback
<1>3. Accounting
  BY <1>2, FS_EmptySet DEF Init, Accounting
<1>4. LifeInv /\ WorkInv /\ FiredInv /\ WakeInv
  BY DEF Init, LifeInv, WorkInv, FiredInv, WakeInv
<1>. QED
  BY <1>1, <1>2, <1>3, <1>4 DEF IInv, Drained

(* IInv holds in every reachable state of the service. *)
THEOREM Invariance == Spec => []IInv
<1>1. IInv /\ [Next]_vars => IInv'
  BY TypeStep, LifeStep, WorkStep, FiredStep, AccountingStep, DrainedStep, WakeStep
     DEF IInv
<1>. QED
  BY <1>1, InitInv, PTL DEF Spec

(* outstandingIo_ is the number of operations that have not been handled   *)
(* to the end, for any number of workers, contexts and timers.             *)
THEOREM OperationsAreCounted == Spec => []Accounting
<1>1. IInv => Accounting
  BY DEF IInv
<1>. QED
  BY <1>1, Invariance, PTL

(* When Stop joins the workers nothing is with the kernel, in the port or  *)
(* armed, and no worker is left when it closes the port.                   *)
THEOREM StopLeavesNothing == Spec => []StopIsComplete
<1>1. IInv => StopIsComplete
  BY DEF IInv, LifeInv, Drained, StopIsComplete
<1>. QED
  BY <1>1, Invariance, PTL

(* However CancelTimeout, AdvanceTimers in several workers and Stop        *)
(* interleave, a timer's callback runs once at most, and never after the   *)
(* timer was cancelled or discarded.                                       *)
THEOREM TimersFireOnce == Spec => []TimerFiresOnce
<1>1. IInv => TimerFiresOnce
  BY DEF IInv, TypeOK, FiredInv, TimerFiresOnce
<1>. QED
  BY <1>1, Invariance, PTL

(* A pending timer always has a worker that will look at it, or a wake-up  *)
(* in the port that makes one look.                                        *)
THEOREM TimersAreWatched == Spec => []NoTimerSleptThrough
<1>1. IInv => NoTimerSleptThrough
  BY DEF IInv, WakeInv, NoTimerSleptThrough
<1>. QED
  BY <1>1, Invariance, PTL
=============================================================================
