----------------------------- MODULE Application -----------------------------
(***************************************************************************)
(* The program around the server: main, the thread that watches the        *)
(* network interfaces, the console handler, the restart of the program and *)
(* the guard against a second copy, over several processes.                *)
(*                                                                         *)
(* main and the monitoring thread of a process share g_stop and            *)
(* restartRequested_; processes share the named mutex, an object of the    *)
(* system that exists while some process has a handle to it.  A process    *)
(* may be killed at any time, which closes its handles.                    *)
(*                                                                         *)
(* server.Start returns once g_stop is set: what ProxyServer has to say on *)
(* that is not repeated here.                                              *)
(***************************************************************************)
EXTENDS Naturals, FiniteSets

CONSTANTS
  Procs,    \* bound: the processes, 1..n, launched in this order
  MaxRetry, \* MaxNetworkCheckRetry
  Delay     \* StartupRestartDelaySec

ASSUME ApplicationAssumption ==
  /\ IsFiniteSet(Procs) /\ Procs = 1..Cardinality(Procs)
  /\ MaxRetry \in Nat \ {0}
  /\ Delay \in Nat \ {0}

None == 0

VARIABLES
  pc,       \* where main is
  again,    \* restartAfterCleanup
  left,     \* in PrepareRestartAfterDelay: the looks at g_stop to come
  stop,     \* g_stop
  restart,  \* restartRequested_
  mon,      \* where the monitoring thread is
  good,     \* allSuccess
  checks,   \* currentNetworkCheck_
  handles,  \* the processes with a handle to the mutex
  parent,   \* the process that launched a process, if one did
  final,    \* history: told to stop while nothing asked for a restart
  bad       \* history: rounds with a failure since the last one without

mainVars == <<pc, again, left>>
monVars == <<mon, good, checks, bad>>
vars == <<pc, again, left, stop, restart, mon, good, checks, handles, parent,
          final, bad>>

(* main: "none" before the process exists; "config", "elevated" and        *)
(* "owner" on the way to the server, "refused" by the guard; "starting"    *)
(* and "serving" in server.Start, "caught" what it threw; "counting" in    *)
(* PrepareRestartAfterDelay for an invalid configuration, "retrying" for a *)
(* server that did not start; "joining", "leaving" the scope of the guard, *)
(* "cleanup" after it; "thrown" out of that scope by an exception,         *)
(* "failed" after it, "paused" until the user presses Enter; "ending" with *)
(* nothing left to do, "gone".                                             *)
Alive(p) == pc[p] \notin {"none", "gone"}

(* Where the console handler is installed. *)
Handled == {"starting", "serving", "caught", "counting", "retrying", "joining", "leaving",
            "thrown"}

(* Past the guard. *)
InGuard == {"owner", "starting", "serving", "caught", "retrying", "joining", "leaving",
            "thrown"}

Unborn == {p \in Procs : pc[p] = "none" /\ \A q \in 1..(p - 1) : pc[q] # "none"}

At(p, place) == pc' = [pc EXCEPT ![p] = place]

Init ==
  /\ pc = [p \in Procs |-> "none"] /\ again = [p \in Procs |-> FALSE]
  /\ left = [p \in Procs |-> 0]
  /\ stop = [p \in Procs |-> FALSE] /\ restart = [p \in Procs |-> FALSE]
  /\ mon = [p \in Procs |-> "off"] /\ good = [p \in Procs |-> 0]
  /\ checks = [p \in Procs |-> 0] /\ bad = [p \in Procs |-> 0]
  /\ handles = {} /\ parent = [p \in Procs |-> None]
  /\ final = [p \in Procs |-> FALSE]

-----------------------------------------------------------------------------
(* The user starts the program. *)
UserLaunches(p) ==
  /\ p \in Unborn
  /\ At(p, "config")
  /\ UNCHANGED <<again, left, stop, restart, monVars, handles, parent, final>>

(* ShellExecuteEx launches a process, or fails to; p has only to end. *)
Launch(p) ==
  \/ \E q \in Unborn :
       /\ pc' = [pc EXCEPT ![p] = "ending", ![q] = "config"]
       /\ parent' = [parent EXCEPT ![q] = p]
  \/ At(p, "ending") /\ UNCHANGED parent

(* The process ends, and the system closes what it left open. *)
End(p) ==
  /\ pc[p] = "ending"
  /\ At(p, "gone") /\ handles' = handles \ {p}
  /\ UNCHANGED <<again, left, stop, restart, monVars, parent, final>>

(* LoadFromFile and IsValid: a configuration that cannot be loaded is an   *)
(* error, an invalid one is tried again after a while, by a new process.   *)
(* A valid one needs elevated rights.                                      *)
Configure(p) ==
  /\ pc[p] = "config"
  /\ \/ At(p, "failed") /\ UNCHANGED <<left, parent>>
     \/ At(p, "counting") /\ left' = [left EXCEPT ![p] = Delay + 1] /\ UNCHANGED parent
     \/ At(p, "elevated") /\ UNCHANGED <<left, parent>>
     \/ Launch(p) /\ UNCHANGED left            \* EnsureElevatedOrRelaunch
  /\ UNCHANGED <<again, stop, restart, monVars, handles, final>>

(* SingleInstanceGuard: CreateMutex opens a handle, or fails ... *)
TryAcquire(p) ==
  /\ pc[p] = "elevated"
  /\ \/ /\ At(p, IF handles = {} THEN "owner" ELSE "refused")
        /\ handles' = handles \cup {p}
     \/ At(p, "refused") /\ UNCHANGED handles
  /\ UNCHANGED <<again, left, stop, restart, monVars, parent, final>>

(* ... which is closed when the mutex existed already. *)
Refused(p) ==
  /\ pc[p] = "refused"
  /\ At(p, "ending") /\ handles' = handles \ {p}
  /\ UNCHANGED <<again, left, stop, restart, monVars, parent, final>>

(* The console handler is installed and the monitoring thread started; an  *)
(* exception, std::thread's own included, leaves the scope of the guard.   *)
Prepare(p) ==
  /\ pc[p] = "owner"
  /\ \/ At(p, "starting") /\ mon' = [mon EXCEPT ![p] = "head"]
     \/ At(p, "thrown") /\ UNCHANGED mon
  /\ UNCHANGED <<again, left, stop, restart, good, checks, bad, handles, parent,
                 final>>

(* server.Start: it serves until g_stop is set, or throws. *)
Serve(p) ==
  /\ pc[p] = "starting"
  /\ \/ At(p, "serving") /\ UNCHANGED stop
     \/ At(p, "caught") /\ stop' = [stop EXCEPT ![p] = TRUE]
  /\ UNCHANGED <<again, left, restart, monVars, handles, parent, final>>

StopServing(p) ==
  /\ pc[p] = "serving" /\ stop[p]
  /\ At(p, "joining")
  /\ UNCHANGED <<again, left, stop, restart, monVars, handles, parent, final>>

(* The catch clauses join the thread, and prepare a restart. *)
Retry(p) ==
  /\ pc[p] = "caught" /\ mon[p] = "done"
  /\ At(p, "retrying") /\ left' = [left EXCEPT ![p] = Delay + 1]
  /\ UNCHANGED <<again, stop, restart, monVars, handles, parent, final>>

(* PrepareRestartAfterDelay: one look at g_stop, the last one after the    *)
(* delay; then the request, which no longer looks.                         *)
CountIgnoresStop(p) == FALSE
Cancelled(p) == stop[p]

PrepareRestartAfterDelay(p) ==
  /\ pc[p] \in {"counting", "retrying"}
  /\ IF left[p] > 0 /\ ~Cancelled(p)
     THEN left' = [left EXCEPT ![p] = @ - 1] /\ UNCHANGED <<pc, again, restart>>
     ELSE /\ restart' = [restart EXCEPT ![p] = @ \/ left[p] = 0]
          /\ again' = [again EXCEPT ![p] = restart'[p]]
          /\ At(p, IF pc[p] = "counting" THEN "cleanup"
                   ELSE IF restart'[p] THEN "leaving" ELSE "joining")
          /\ UNCHANGED left
  /\ UNCHANGED <<stop, monVars, handles, parent, final>>

(* The thread is joined, unless it was, and RestartRequested asked again. *)
JoinsNobody(p) ==
  /\ pc[p] = "joining"
  /\ At(p, "leaving")
  /\ stop' = [stop EXCEPT ![p] = TRUE]
  /\ again' = [again EXCEPT ![p] = restart[p]]
  /\ UNCHANGED <<left, restart, monVars, handles, parent, final>>
Join(p) ==
  /\ pc[p] = "joining" /\ mon[p] = "done"
  /\ At(p, "leaving")
  /\ stop' = [stop EXCEPT ![p] = TRUE]
  /\ again' = [again EXCEPT ![p] = restart[p]]
  /\ UNCHANGED <<left, restart, monVars, handles, parent, final>>

(* The guard goes out of scope, an exception or not ... *)
GuardLeft(p) == handles
GuardReleased(p) == handles \ {p}

Leave(p) ==
  /\ pc[p] \in {"leaving", "thrown"}
  /\ At(p, IF pc[p] = "thrown" THEN "failed" ELSE "cleanup")
  /\ handles' = GuardReleased(p)
  /\ UNCHANGED <<again, left, stop, restart, monVars, parent, final>>

(* ... and the program ends, or is restarted. *)
Cleanup(p) ==
  /\ pc[p] = "cleanup"
  /\ IF again[p] THEN Launch(p) ELSE At(p, "ending") /\ UNCHANGED parent
  /\ UNCHANGED <<again, left, stop, restart, monVars, handles, final>>

(* After an error PauseOnErrorIfStandaloneConsole: a process that is alone *)
(* in its console waits for the user; the console handler is gone.         *)
PauseOnError(p) ==
  /\ pc[p] = "failed"
  /\ At(p, "paused") \/ At(p, "ending")
  /\ UNCHANGED <<again, left, stop, restart, monVars, handles, parent, final>>

EnterPressed(p) ==
  /\ pc[p] = "paused"
  /\ At(p, "ending")
  /\ UNCHANGED <<again, left, stop, restart, monVars, handles, parent, final>>

-----------------------------------------------------------------------------
(* NetworkMonitoring::Run.  A round looks at the two interfaces, each up   *)
(* or down; then the thread sleeps until the next round or g_stop.         *)
LooksAnyway(p) == TRUE
LooksAgain(p) == ~stop[p]

CheckListener(p) ==
  /\ Alive(p) /\ mon[p] = "head"
  /\ IF LooksAgain(p)
     THEN /\ mon' = [mon EXCEPT ![p] = "output"]
          /\ \E up \in BOOLEAN :
               /\ good' = [good EXCEPT ![p] = IF up THEN 1 ELSE 0]
               /\ checks' = [checks EXCEPT ![p] = IF up THEN @ ELSE @ + 1]
     ELSE mon' = [mon EXCEPT ![p] = "done"] /\ UNCHANGED <<good, checks>>
  /\ UNCHANGED <<mainVars, stop, restart, handles, parent, final, bad>>

NeverResets(g, n) == n
AfterRound(g, n) == IF g = 2 THEN 0 ELSE n

CheckOutput(p) ==
  /\ Alive(p) /\ mon[p] = "output"
  /\ \E up \in BOOLEAN :
       LET g == IF up THEN good[p] + 1 ELSE good[p]
           n == IF up THEN checks[p] ELSE checks[p] + 1
       IN /\ good' = [good EXCEPT ![p] = 0]
          /\ checks' = [checks EXCEPT ![p] = AfterRound(g, n)]
          /\ mon' = [mon EXCEPT ![p] = IF g < 2 /\ n >= MaxRetry THEN "request" ELSE "head"]
          /\ bad' = [bad EXCEPT ![p] = IF g < 2 THEN @ + 1 ELSE 0]
  /\ UNCHANGED <<mainVars, stop, restart, handles, parent, final>>

(* The restart is asked for before the server is told to stop. *)
RequestRestart(p) ==
  /\ Alive(p) /\ mon[p] = "request"
  /\ restart' = [restart EXCEPT ![p] = TRUE] /\ mon' = [mon EXCEPT ![p] = "stopping"]
  /\ UNCHANGED <<mainVars, stop, good, checks, bad, handles, parent, final>>

RequestStop(p) ==
  /\ Alive(p) /\ mon[p] = "stopping"
  /\ stop' = [stop EXCEPT ![p] = TRUE] /\ mon' = [mon EXCEPT ![p] = "done"]
  /\ UNCHANGED <<mainVars, restart, good, checks, bad, handles, parent, final>>

Monitor(p) ==
  CheckListener(p) \/ CheckOutput(p) \/ RequestRestart(p) \/ RequestStop(p)

-----------------------------------------------------------------------------
(* The user presses Ctrl+C: ConsoleHandler, where it is installed. *)
ConsoleHandler(p) ==
  /\ pc[p] \in Handled /\ ~stop[p]
  /\ stop' = [stop EXCEPT ![p] = TRUE]
  /\ final' = [final EXCEPT ![p] =
                 /\ ~restart[p] /\ mon[p] \in {"off", "head", "done"}
                 /\ (pc[p] = "counting" => left[p] > 0)]
  /\ UNCHANGED <<mainVars, restart, monVars, handles, parent>>

(* The process is killed: by Ctrl+C where there is no handler, or by any   *)
(* other means.  The system closes its handles.                            *)
Killed(p) ==
  /\ Alive(p)
  /\ At(p, "gone") /\ handles' = handles \ {p}
  /\ mon' = [mon EXCEPT ![p] = "off"]
  /\ UNCHANGED <<again, left, stop, restart, good, checks, bad, parent, final>>

Ended == (\A p \in Procs : pc[p] = "gone") /\ UNCHANGED vars

Main(p) ==
  \/ Configure(p) \/ TryAcquire(p) \/ Refused(p) \/ Prepare(p) \/ Serve(p)
  \/ StopServing(p) \/ Retry(p) \/ PrepareRestartAfterDelay(p) \/ Join(p)
  \/ Leave(p) \/ Cleanup(p) \/ PauseOnError(p) \/ End(p)

Next ==
  \/ \E p \in Procs : UserLaunches(p) \/ Main(p) \/ Monitor(p)
                      \/ ConsoleHandler(p) \/ EnterPressed(p) \/ Killed(p)
  \/ Ended

Spec == Init /\ [][Next]_vars

(* Threads run; nobody has to start, stop or kill the program. *)
FairSpec == Spec /\ \A p \in Procs : WF_vars(Main(p)) /\ WF_vars(Monitor(p))

-----------------------------------------------------------------------------
(* "Single-instance guard to prevent a second copy from running." (README) *)
(* At most one process is past the guard, also across restarts and kills,  *)
(* and a restarted program is not refused on account of the process that   *)
(* restarted it: that one has let go of the mutex.                         *)
OneCopy ==
  /\ \A p, q \in Procs : pc[p] \in InGuard /\ pc[q] \in InGuard => p = q
  /\ \A q \in Procs : parent[q] # None => parent[q] \notin handles

(* The scope of the monitoring thread is not left while it runs, which     *)
(* would end the program on the spot (std::thread), restart and all.       *)
ThreadJoined ==
  \A p \in Procs :
    pc[p] \in {"leaving", "cleanup", "thrown", "failed", "paused", "ending", "gone"} =>
      mon[p] \in {"off", "done"}

(* A failure that lasts one round only never restarts the program, however *)
(* many of them there were (currentNetworkCheck_ counts interfaces).       *)
GlitchTolerated ==
  \A p \in Procs : mon[p] \in {"request", "stopping"} => bad[p] > 1

(* "Clean shutdown on Ctrl+C" (README): one that does not come into a      *)
(* round of the monitoring thread, or after the last look of a countdown   *)
(* or a request for a restart, is final: the program is not restarted.     *)
ShutdownFinal == \A p \in Procs : final[p] => ~restart[p]

(* A process that is told to stop ends, wherever main and the monitoring   *)
(* thread are; only one that met an error may wait for the user to press   *)
(* Enter, with the mutex released.                                         *)
ShutdownEnds ==
  \A p \in Procs : stop[p] ~> pc[p] = "gone" \/ (pc[p] = "paused" /\ p \notin handles)
=============================================================================
