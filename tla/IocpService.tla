----------------------------- MODULE IocpService -----------------------------
(***************************************************************************)
(* The completion port service that drives everything else: worker         *)
(* threads dequeue completions and call their handles, timers are claimed  *)
(* by the workers between two waits, and Stop has to wait for every posted *)
(* operation before it closes the port.                                    *)
(*                                                                         *)
(* Any thread, a callback included, may post an operation, schedule or     *)
(* cancel a timer at any moment.  lifecycleMutex_ is a reader-writer lock: *)
(* posting holds it shared for its whole duration and is one action; Stop  *)
(* holds it exclusively over its first steps (stopper = "begun",           *)
(* "cleared").                                                             *)
(***************************************************************************)
EXTENDS Naturals, FiniteSets

CONSTANTS
  Workers,    \* the worker threads
  SocketCtx,  \* IoContexts used for socket operations
  UserCtx,    \* IoContexts used with PostUser
  Timers,     \* timer ids
  MaxPosts,   \* bound: operations posted on one context
  MaxStarts,  \* bound: calls of Start that succeed
  Faults      \* whether posting to the port may fail

ASSUME SetsAssumption ==
  /\ IsFiniteSet(Workers) /\ IsFiniteSet(SocketCtx)
  /\ IsFiniteSet(UserCtx) /\ IsFiniteSet(Timers)
  /\ SocketCtx \cap UserCtx = {}
  /\ (SocketCtx \cup UserCtx) \cap Timers = {}
  /\ Workers # {}
ASSUME LimitsAssumption ==
  MaxPosts \in Nat /\ MaxStarts \in Nat /\ Faults \in BOOLEAN

Ctx == SocketCtx \cup UserCtx
None == "none"

VARIABLES
  running,     \* running_
  stopper,     \* progress of the thread in Stop; "idle" outside it
  port,        \* iocp_: "null", "open" (published) or "unpublished" (to close)
  starts,      \* history: Start calls
  missed,      \* history: wake-ups Stop's last WakeWorkers could not post
  ctx,         \* where the operation of a context is; pinned unless "idle"
  posts,       \* history: operations posted per context
  cancelled,   \* socket contexts whose I/O CancelIoEx has aborted
  timer,       \* phase of a timer, and where its completion is
  due,         \* timers whose time has come
  wakes,       \* null completions in the port
  nudges,      \* CancelTimeout calls that have yet to wake a worker
  outstanding, \* outstandingIo_
  users,       \* iocpUsers_
  pc,          \* what a worker is doing
  wait,        \* the timeout a worker passes to GetQueuedCompletionStatus
  claimed,     \* timers a worker has claimed and not yet posted
  item,        \* the context or timer whose callback a worker runs
  fired        \* history: callbacks per timer

lifeVars == <<running, stopper, port, starts, missed>>
opVars == <<ctx, posts, cancelled>>
timerVars == <<timer, due, fired>>
portVars == <<wakes, nudges>>
workerVars == <<pc, wait, claimed, item>>
vars == <<running, stopper, port, starts, missed, ctx, posts, cancelled, timer,
          due, fired, wakes, nudges, outstanding, users, pc, wait, claimed, item>>

(* No one holds lifecycleMutex_ exclusively. *)
Shared == stopper \notin {"begun", "cleared"}

(* A timer that is in timers_. *)
InMap(t) == timer[t] \in {"publishing", "failing", "pending"}

-----------------------------------------------------------------------------
Init ==
  /\ running = FALSE /\ stopper = "idle" /\ port = "null" /\ starts = 0
  /\ missed = 0
  /\ ctx = [c \in Ctx |-> "idle"] /\ posts = [c \in Ctx |-> 0]
  /\ cancelled = {}
  /\ timer = [t \in Timers |-> "new"] /\ due = {}
  /\ wakes = 0 /\ nudges = 0 /\ outstanding = 0 /\ users = 0
  /\ pc = [w \in Workers |-> "exited"]
  /\ wait = [w \in Workers |-> "inf"]
  /\ claimed = [w \in Workers |-> {}]
  /\ item = [w \in Workers |-> None]
  /\ fired = [t \in Timers |-> 0]

(* Start: a fresh port and fresh workers. *)
Start ==
  /\ stopper = "idle" /\ ~running /\ port = "null" /\ starts < MaxStarts
  /\ running' = TRUE /\ port' = "open" /\ starts' = starts + 1
  /\ pc' = [w \in Workers |-> "top"]
  /\ UNCHANGED <<stopper, missed, opVars, timerVars, portVars, outstanding, users,
                 wait, claimed, item>>

-----------------------------------------------------------------------------
(* Posting.  All Post functions refuse a context that is still pinned, and *)
(* any context once the service stops.                                     *)
AcceptsAny(c) == port = "open" /\ ctx[c] = "idle"
Accepts(c) == running /\ port = "open" /\ ctx[c] = "idle"

(* PostRecv, PostSend, PostRecvFrom, PostSendTo, PostConnect, PostAccept:  *)
(* the operation is with the kernel.                                       *)
PostSocketOp(c) ==
  /\ Shared /\ Accepts(c) /\ c \in SocketCtx /\ posts[c] < MaxPosts
  /\ ctx' = [ctx EXCEPT ![c] = "kernel"]
  /\ posts' = [posts EXCEPT ![c] = @ + 1]
  /\ cancelled' = cancelled \ {c}
  /\ outstanding' = outstanding + 1
  /\ UNCHANGED <<lifeVars, timerVars, portVars, users, workerVars>>

(* PostUser puts the completion into the port itself. *)
PostUser(c) ==
  /\ Shared /\ Accepts(c) /\ c \in UserCtx /\ posts[c] < MaxPosts
  /\ ctx' = [ctx EXCEPT ![c] = "queued"]
  /\ posts' = [posts EXCEPT ![c] = @ + 1]
  /\ outstanding' = outstanding + 1
  /\ UNCHANGED <<lifeVars, cancelled, timerVars, portVars, users, workerVars>>

(* The kernel finishes a socket operation, at the latest when it is        *)
(* cancelled.                                                              *)
KernelCompletes(c) ==
  /\ ctx[c] = "kernel"
  /\ ctx' = [ctx EXCEPT ![c] = "queued"]
  /\ UNCHANGED <<lifeVars, posts, cancelled, timerVars, portVars,
                 outstanding, users, workerVars>>

(* ScheduleTimeout, first half: the timer enters timers_ in phase          *)
(* Publishing and a worker is woken, if the wake-up can be posted.         *)
(* lifecycleMutex_ is held until PublishTimer.                             *)
ScheduleTimeout(t) ==
  /\ Shared /\ running /\ port = "open" /\ timer[t] = "new"
  /\ outstanding' = outstanding + 1
  /\ \/ timer' = [timer EXCEPT ![t] = "publishing"] /\ wakes' = wakes + 1
     \/ Faults /\ timer' = [timer EXCEPT ![t] = "failing"] /\ UNCHANGED wakes
  /\ UNCHANGED <<lifeVars, opVars, due, fired, nudges, users, workerVars>>

(* ... second half: Pending, the timer can now be claimed and cancelled;   *)
(* or gone, when the wake-up could not be posted.                          *)
PublishTimer(t) ==
  /\ \/ /\ timer[t] = "publishing"
        /\ timer' = [timer EXCEPT ![t] = "pending"]
        /\ UNCHANGED outstanding
     \/ /\ timer[t] = "failing"
        /\ timer' = [timer EXCEPT ![t] = "cancelled"]
        /\ outstanding' = outstanding - 1
  /\ UNCHANGED <<lifeVars, opVars, due, fired, portVars, users, workerVars>>

(* CancelTimeout: only a Pending timer can be cancelled.                   *)
CancellableEvenClaimed(t) == timer[t] \in {"pending", "claimed"}
Cancellable(t) == timer[t] = "pending"

CancelTimeout(t) ==
  /\ Cancellable(t)
  /\ timer' = [timer EXCEPT ![t] = "cancelled"]
  /\ outstanding' = outstanding - 1
  /\ nudges' = nudges + 1
  /\ UNCHANGED <<lifeVars, opVars, due, fired, wakes, users, workerVars>>

(* ... and then, with a lease on the port if there still is one, it wakes  *)
(* a worker to compute its wait anew; a wake-up that cannot be posted is   *)
(* forgotten.                                                              *)
CancelWakes ==
  /\ Shared /\ nudges > 0
  /\ nudges' = nudges - 1
  /\ \/ port = "open" /\ wakes' = wakes + 1
     \/ (Faults \/ port # "open") /\ UNCHANGED wakes
  /\ UNCHANGED <<lifeVars, opVars, timerVars, outstanding, users, workerVars>>

(* Time passes. *)
Tick(t) ==
  /\ InMap(t) /\ t \notin due
  /\ due' = due \cup {t}
  /\ UNCHANGED <<lifeVars, opVars, timer, fired, portVars, outstanding,
                 users, workerVars>>

-----------------------------------------------------------------------------
(* The worker loop.  Every turn reads running_ and outstandingIo_ first.   *)
LoopTop(w) ==
  /\ pc[w] = "top"
  /\ pc' = [pc EXCEPT ![w] = IF running THEN "advance" ELSE "lease"]
  /\ wait' = [wait EXCEPT ![w] = IF outstanding = 0 THEN "zero" ELSE "inf"]
  /\ UNCHANGED <<lifeVars, opVars, timerVars, portVars, outstanding, users,
                 claimed, item>>

(* AdvanceTimers, under timerMutex_: claim what is due and pending, and    *)
(* wait no longer than until the nearest of the timers left, those still   *)
(* being published included.                                               *)
DueNow == {t \in Timers : timer[t] = "pending" /\ t \in due}
OnlyPendingLeft(mine) == \E t \in Timers \ mine : timer[t] = "pending"
TimersLeft(mine) == \E t \in Timers \ mine : InMap(t)

(* Once erased from timers_ a timer is found by no other worker and by no  *)
(* CancelTimeout.                                                          *)
NotErased == "pending"
PhaseOfClaimed == "claimed"

AdvanceTimers(w) ==
  /\ pc[w] = "advance"
  /\ timer' = [t \in Timers |-> IF t \in DueNow THEN PhaseOfClaimed ELSE timer[t]]
  /\ claimed' = [claimed EXCEPT ![w] = DueNow]
  /\ wait' = [wait EXCEPT ![w] = IF TimersLeft(DueNow) THEN "timed" ELSE "inf"]
  /\ pc' = [pc EXCEPT ![w] = "claimed"]
  /\ UNCHANGED <<lifeVars, opVars, due, fired, portVars, outstanding, users,
                 item>>

(* ... then, outside the lock, look whether the service is still running: *)
(* if not, discard what was claimed.                                       *)
CheckClaimed(w) ==
  /\ pc[w] = "claimed"
  /\ IF running
     THEN /\ pc' = [pc EXCEPT ![w] = "post"]
          /\ UNCHANGED <<timer, claimed, outstanding, wait>>
     ELSE /\ pc' = [pc EXCEPT ![w] = "lease"]
          /\ timer' = [t \in Timers |-> IF t \in claimed[w] THEN "discarded" ELSE timer[t]]
          /\ outstanding' = outstanding - Cardinality(claimed[w])
          /\ claimed' = [claimed EXCEPT ![w] = {}]
          /\ wait' = [wait EXCEPT ![w] = "zero"]
  /\ UNCHANGED <<lifeVars, opVars, due, fired, portVars, users, item>>

(* ... and post it under a lease; what cannot be posted is discarded too.  *)
PostClaimed(w) ==
  /\ pc[w] = "post" /\ Shared
  /\ \E lost \in SUBSET claimed[w] :
       /\ IF port = "open" THEN lost # {} => Faults ELSE lost = claimed[w]
       /\ timer' = [t \in Timers |-> IF t \in lost THEN "discarded"
                                     ELSE IF t \in claimed[w] THEN "queued"
                                     ELSE timer[t]]
       /\ outstanding' = outstanding - Cardinality(lost)
  /\ claimed' = [claimed EXCEPT ![w] = {}]
  /\ pc' = [pc EXCEPT ![w] = "lease"]
  /\ UNCHANGED <<lifeVars, opVars, due, fired, portVars, users, wait, item>>

(* The lease keeps the port handle open during the wait. *)
TakeLease(w) ==
  /\ pc[w] = "lease" /\ Shared
  /\ pc' = [pc EXCEPT ![w] = IF port = "open" THEN "wait" ELSE "exited"]
  /\ users' = IF port = "open" THEN users + 1 ELSE users
  /\ UNCHANGED <<lifeVars, opVars, timerVars, portVars, outstanding, wait,
                 claimed, item>>

Queued == {c \in Ctx : ctx[c] = "queued"} \cup {t \in Timers : timer[t] = "queued"}

(* GetQueuedCompletionStatus returns a completion: its pins are moved out  *)
(* of the context, which may be posted again at once, and the callback     *)
(* runs.                                                                   *)
Dequeue(w) ==
  /\ pc[w] = "wait"
  /\ \E x \in Queued :
       /\ item' = [item EXCEPT ![w] = x]
       /\ ctx' = [c \in Ctx |-> IF c = x THEN "idle" ELSE ctx[c]]
       /\ timer' = [t \in Timers |-> IF t = x THEN "running" ELSE timer[t]]
       /\ fired' = [t \in Timers |-> IF t = x THEN fired[t] + 1 ELSE fired[t]]
  /\ users' = users - 1
  /\ pc' = [pc EXCEPT ![w] = "callback"]
  /\ UNCHANGED <<lifeVars, posts, cancelled, due, portVars, outstanding,
                 wait, claimed>>

(* ... or a null completion, or a timeout when there is nothing. *)
WakeUp(w) ==
  /\ pc[w] = "wait"
  /\ \/ wakes > 0 /\ wakes' = wakes - 1
     \/ wait[w] # "inf" /\ wakes = 0 /\ Queued = {} /\ UNCHANGED wakes
  /\ users' = users - 1
  /\ pc' = [pc EXCEPT ![w] = "check"]
  /\ UNCHANGED <<lifeVars, opVars, timerVars, nudges, outstanding, wait,
                 claimed, item>>

(* The worker exits when the service has stopped and nothing is            *)
(* outstanding any more.                                                   *)
MayExit == ~running /\ outstanding = 0

CheckExit(w) ==
  /\ pc[w] = "check"
  /\ pc' = [pc EXCEPT ![w] = IF MayExit THEN "exited" ELSE "top"]
  /\ UNCHANGED <<lifeVars, opVars, timerVars, portVars, outstanding, users,
                 wait, claimed, item>>

(* The callback returned: only now is the operation accounted for. *)
CallbackReturns(w) ==
  /\ pc[w] = "callback"
  /\ outstanding' = outstanding - 1
  /\ timer' = [t \in Timers |-> IF t = item[w] THEN "done" ELSE timer[t]]
  /\ item' = [item EXCEPT ![w] = None]
  /\ pc' = [pc EXCEPT ![w] = "top"]
  /\ UNCHANGED <<lifeVars, opVars, due, fired, portVars, users, wait,
                 claimed>>

Worker(w) == \/ LoopTop(w) \/ AdvanceTimers(w) \/ CheckClaimed(w)
             \/ PostClaimed(w)
             \/ TakeLease(w) \/ Dequeue(w) \/ WakeUp(w) \/ CheckExit(w)
             \/ CallbackReturns(w)

-----------------------------------------------------------------------------
(* Stop, from a thread that is no worker.  It cannot start while a Post or *)
(* ScheduleTimeout holds lifecycleMutex_.                                  *)
StopBegin ==
  /\ stopper = "idle" /\ running
  /\ \A t \in Timers : timer[t] \notin {"publishing", "failing"}
  /\ running' = FALSE /\ stopper' = "begun"
  /\ UNCHANGED <<port, starts, missed, opVars, timerVars, portVars, outstanding,
                 users, workerVars>>

(* ClearTimers. *)
StopClearTimers ==
  /\ stopper = "begun"
  /\ timer' = [t \in Timers |-> IF InMap(t) THEN "cancelled" ELSE timer[t]]
  /\ outstanding' = outstanding - Cardinality({t \in Timers : InMap(t)})
  /\ stopper' = "cleared"
  /\ UNCHANGED <<running, port, starts, missed, opVars, due, fired, portVars, users,
                 workerVars>>

(* WakeWorkers posts one null completion per worker and does not look      *)
(* whether it could: how many arrive.                                      *)
WakeWorkers == IF Faults THEN 0..Cardinality(Workers) ELSE {Cardinality(Workers)}

(* CancelOutstandingSocketIo and the first WakeWorkers; the lock is freed. *)
StopCancelIo ==
  /\ stopper = "cleared"
  /\ cancelled' = cancelled \cup {c \in SocketCtx : ctx[c] = "kernel"}
  /\ \E n \in WakeWorkers : wakes' = wakes + n
  /\ stopper' = "draining"
  /\ UNCHANGED <<running, port, starts, missed, ctx, posts, timerVars, nudges,
                 outstanding, users, workerVars>>

(* WaitOutstandingZero, then the second WakeWorkers: workers that went to  *)
(* an infinite wait meanwhile have to be told.                             *)
StopDrainedSilently ==
  /\ stopper = "draining" /\ outstanding = 0
  /\ stopper' = "joining"
  /\ UNCHANGED <<running, port, starts, missed, opVars, timerVars, portVars,
                 outstanding, users, workerVars>>

StopDrained ==
  /\ stopper = "draining" /\ outstanding = 0
  /\ \E n \in WakeWorkers : wakes' = wakes + n /\ missed' = Cardinality(Workers) - n
  /\ stopper' = "joining"
  /\ UNCHANGED <<running, port, starts, opVars, timerVars, nudges,
                 outstanding, users, workerVars>>

(* The workers are joined and the port is unpublished. *)
StopJoined ==
  /\ stopper = "joining" /\ \A w \in Workers : pc[w] = "exited"
  /\ port' = "unpublished" /\ stopper' = "closing"
  /\ UNCHANGED <<running, starts, missed, opVars, timerVars, portVars, outstanding,
                 users, workerVars>>

(* WaitIocpIdle and CloseHandle; whatever is left in the port is lost. *)
StopClose ==
  /\ stopper = "closing" /\ users = 0
  /\ port' = "null" /\ stopper' = "idle" /\ wakes' = 0 /\ missed' = 0
  /\ UNCHANGED <<running, starts, opVars, timerVars, nudges, outstanding,
                 users, workerVars>>

Stop == \/ StopBegin \/ StopClearTimers \/ StopCancelIo \/ StopDrained
        \/ StopJoined \/ StopClose

(* The service is stopped and will not be started again. *)
Ended == port = "null" /\ starts = MaxStarts /\ UNCHANGED vars

(* Stop waits for workers whose wake-ups were lost, and nobody else can    *)
(* wake them.                                                              *)
JoinHangs == stopper = "joining" /\ missed > 0 /\ UNCHANGED vars

Next ==
  \/ Start \/ Stop \/ Ended \/ JoinHangs
  \/ \E c \in Ctx : PostSocketOp(c) \/ PostUser(c) \/ KernelCompletes(c)
  \/ \E t \in Timers : ScheduleTimeout(t) \/ PublishTimer(t) \/ CancelTimeout(t) \/ Tick(t)
  \/ CancelWakes
  \/ \E w \in Workers : Worker(w)

Spec == Init /\ [][Next]_vars

(* Threads that can run do; callbacks return; CancelIoEx completes what it *)
(* aborts; time passes.  Nobody has to post, to cancel or to call Stop.    *)
Fairness ==
  /\ \A w \in Workers : WF_vars(Worker(w))
  /\ WF_vars(CancelWakes)
  /\ WF_vars(Stop /\ stopper # "idle")
  /\ \A c \in SocketCtx : WF_vars(c \in cancelled /\ KernelCompletes(c))
  /\ \A t \in Timers : WF_vars(PublishTimer(t)) /\ WF_vars(Tick(t))

FairSpec == Spec /\ Fairness

-----------------------------------------------------------------------------
(* outstandingIo_ counts exactly the operations whose completion has not   *)
(* been handled to the end: with the kernel, in the port, in a callback;   *)
(* and the timers, from ScheduleTimeout to cancellation, discard or the    *)
(* end of their callback.  A unit too few lets Stop close the port under   *)
(* an operation, one too many makes it wait for ever.                      *)
LiveTimers == {t \in Timers : timer[t] \in {"publishing", "failing", "pending",
                                           "claimed", "queued", "running"}}
Pinned == {c \in Ctx : ctx[c] # "idle"}
InCallback == {w \in Workers : pc[w] = "callback" /\ item[w] \in Ctx}

Accounting ==
  outstanding = Cardinality(Pinned) + Cardinality(LiveTimers) + Cardinality(InCallback)

(* Stop "blocks until every posted operation completes" (Iocp.h): once the *)
(* workers are being joined nothing is with the kernel, in the port or     *)
(* armed, and when the port is closed no worker is left to touch it.       *)
StopIsComplete ==
  /\ stopper \in {"joining", "closing"} \/ port = "null" =>
       Pinned = {} /\ LiveTimers = {} /\ InCallback = {}
  /\ port = "null" => users = 0 /\ \A w \in Workers : pc[w] = "exited"

(* A timer's callback runs at most once, and never when the timer was      *)
(* cancelled or discarded, however cancellation, the claims of several     *)
(* workers and Stop interleave.                                            *)
TimerFiresOnce ==
  \A t \in Timers : /\ fired[t] <= 1
                     /\ timer[t] \in {"cancelled", "discarded"} => fired[t] = 0

(* No timer is slept through: while one is pending, a worker is not bound  *)
(* for an infinite wait or a wake-up is in the port.                       *)
Sleeps(w) ==
  \/ pc[w] = "exited"
  \/ pc[w] \in {"claimed", "post", "lease", "wait"} /\ wait[w] = "inf"

NoTimerSleptThrough ==
  (running /\ \E t \in Timers : timer[t] = "pending") =>
     wakes > 0 \/ \E w \in Workers : ~Sleeps(w)

(* Stop returns, provided callbacks do, whichever wake-ups of the first    *)
(* WakeWorkers and of CancelTimeout are lost.  Of the last WakeWorkers     *)
(* each one that is posted ends a worker: only as many as it failed to     *)
(* post can be left for Stop to join.                                      *)
LeftBehind == {w \in Workers : pc[w] # "exited"}

StopReturns ==
  (stopper # "idle") ~>
     \/ stopper = "idle"
     \/ stopper = "joining" /\ missed > 0 /\ Cardinality(LeftBehind) <= missed
=============================================================================
