---------------------------- MODULE IPerfProcess ----------------------------
(***************************************************************************)
(* The iperf child process of the exporter's server mode and the threads   *)
(* that supervise it (iperf_exporter/iperf.py, classes IPerf and           *)
(* IPerfServer; cli.py, run_exporter).                                     *)
(*                                                                         *)
(* Three kinds of threads call IPerfServer.ensure_running: the main thread *)
(* once (IPerfServer.run), the watchdog thread every watchdog_interval,    *)
(* and one HTTP thread per scrape (IPerfCollector.collect).  The main      *)
(* thread then waits for SIGTERM/SIGINT and calls IPerfServer.stop.  They  *)
(* share _process, restart_count, test_runs_total["error"] and             *)
(* _stop_cleanup.  _process_lock protects _process only: the restart       *)
(* counter is read outside it to count errors.                             *)
(*                                                                         *)
(* A child is a number, so that a child that was forgotten can be told     *)
(* from the one _process refers to.  Left out: timestamps, exit codes, the *)
(* streams (IPerfServer.tla has the pipe) and logging.                     *)
(***************************************************************************)
EXTENDS Naturals, FiniteSets

CONSTANTS
    Scrapers,           \* HTTP threads that may be scraping at the same time
    Main,               \* the main thread
    Watchdog,           \* the watchdog thread
    Nobody,             \* the holder of a free lock
    MaxExits,           \* bound: how often a child exits by itself
    MaxSpawnFailures    \* bound: how often Popen raises OSError

Threads == Scrapers \cup {Main, Watchdog}

ASSUME ThreadsAssumption ==
    /\ Main # Watchdog
    /\ Main \notin Scrapers
    /\ Watchdog \notin Scrapers
    /\ Nobody \notin Threads

ASSUME BoundsAssumption == MaxExits \in Nat /\ MaxSpawnFailures \in Nat

VARIABLES
    process,        \* the child _process refers to, or NoChild
    alive,          \* the children the operating system runs
    doomed,         \* the children that were sent SIGKILL
    nextChild,      \* the number of the next child
    processLock,    \* the holder of _process_lock, or Nobody
    restartCount,   \* restart_count
    errors,         \* test_runs_total["error"]
    stopCleanup,    \* the event _stop_cleanup
    pc,             \* where each thread is
    previous,       \* previous_restart_count, the local of each ensure_running
    exits,          \* history: children that exited by themselves
    spawnFailures,  \* history: Popen calls that raised
    stoppedBelow    \* history: nextChild when stop() let go of its child

vars == <<process, alive, doomed, nextChild, processLock, restartCount, errors,
          stopCleanup, pc, previous, exits, spawnFailures, stoppedBelow>>

childVars == <<process, alive, doomed, nextChild>>
counterVars == <<restartCount, errors>>
historyVars == <<exits, spawnFailures, stoppedBelow>>

NoChild == 0

(***************************************************************************)
(* Control points.  The first five are inside IPerfServer.ensure_running.  *)
(***************************************************************************)
EnsurePoints == {"enter", "acquire", "spawn", "compare", "store"}
MainPoints == {"start_threads", "serving", "stop_acquire", "wait_term",
               "wait_kill", "join", "terminated"}
WatchdogPoints == {"unstarted", "check", "wait", "finished", "died"}
ScraperPoints == {"idle", "read"}

LockedPoints == {"spawn", "wait_term", "wait_kill"}

PointsOf(t) ==
    EnsurePoints \cup (IF t = Main THEN MainPoints
                       ELSE IF t = Watchdog THEN WatchdogPoints
                       ELSE ScraperPoints)

TypeOK ==
    /\ process \in Nat
    /\ alive \in SUBSET (Nat \ {NoChild})
    /\ doomed \in SUBSET Nat
    /\ nextChild \in Nat \ {NoChild}
    /\ processLock \in Threads \cup {Nobody}
    /\ restartCount \in Nat
    /\ errors \in Nat
    /\ stopCleanup \in BOOLEAN
    /\ pc \in [Threads -> EnsurePoints \cup MainPoints \cup WatchdogPoints \cup ScraperPoints]
    /\ \A t \in Threads : pc[t] \in PointsOf(t)
    /\ previous \in [Threads -> Nat]
    /\ exits \in Nat
    /\ spawnFailures \in Nat
    /\ stoppedBelow \in Nat

Init ==
    /\ process = NoChild
    /\ alive = {}
    /\ doomed = {}
    /\ nextChild = 1
    /\ processLock = Nobody
    /\ restartCount = 0
    /\ errors = 0
    /\ stopCleanup = FALSE
    /\ pc = [t \in Threads |-> IF t = Main THEN "enter"
                               ELSE IF t = Watchdog THEN "unstarted" ELSE "idle"]
    /\ previous = [t \in Threads |-> 0]
    /\ exits = 0
    /\ spawnFailures = 0
    /\ stoppedBelow = 0

-----------------------------------------------------------------------------
(* Threads are daemons: nothing runs once the main thread has returned.    *)
Running == pc[Main] # "terminated"

Goto(t, point) == pc' = [pc EXCEPT ![t] = point]

(* Mutation: _process_lock is not taken.                                   *)
LockIgnored == processLock \in Threads \cup {Nobody}
LockFree == processLock = Nobody

(* Mutation: every caller goes on like the watchdog.                       *)
ReturnedToWait(t) == IF t = Nobody THEN "idle" ELSE "wait"

(* Where a thread goes on after ensure_running returned, and after it      *)
(* raised: run() and the watchdog's loop have no handler, so the program   *)
(* ends, or the watchdog thread dies; a scrape only fails.                 *)
Returned(t) == IF t = Main THEN "start_threads"
               ELSE IF t = Watchdog THEN "wait" ELSE "read"
Raised(t) == IF t = Main THEN "terminated"
             ELSE IF t = Watchdog THEN "died" ELSE "idle"

(***************************************************************************)
(* IPerfServer.ensure_running                                              *)
(***************************************************************************)
ReadPrevious(t) ==
    /\ Running
    /\ pc[t] = "enter"
    /\ previous' = [previous EXCEPT ![t] = restartCount]
    /\ Goto(t, "acquire")
    /\ UNCHANGED <<childVars, processLock, counterVars, stopCleanup, historyVars>>

(* The locked part of IPerf.ensure_running up to the spawn.                *)
PollNone(t) ==
    /\ process = NoChild
    /\ processLock' = t
    /\ Goto(t, "spawn")
    /\ UNCHANGED <<process, restartCount>>

PollRunning(t) ==
    /\ process \in alive
    /\ Goto(t, "compare")
    /\ UNCHANGED <<process, processLock, restartCount>>

(* Mutation: _process still refers to the dead child if the spawn fails.   *)
PollExitedKeepsChild(t) ==
    /\ process # NoChild
    /\ process \notin alive
    /\ restartCount' = restartCount + 1
    /\ processLock' = t
    /\ Goto(t, "spawn")
    /\ UNCHANGED process

PollExited(t) ==
    /\ process # NoChild
    /\ process \notin alive
    /\ restartCount' = restartCount + 1
    /\ process' = NoChild
    /\ processLock' = t
    /\ Goto(t, "spawn")

Acquire(t) ==
    /\ Running
    /\ pc[t] = "acquire"
    /\ LockFree
    /\ PollNone(t) \/ PollRunning(t) \/ PollExited(t)
    /\ UNCHANGED <<alive, doomed, nextChild, errors, stopCleanup, previous, historyVars>>

(* _spawn_process: Popen starts a child, or raises; either way the lock is *)
(* released.                                                               *)
Spawn(t) ==
    /\ Running
    /\ pc[t] = "spawn"
    /\ process' = nextChild
    /\ alive' = alive \cup {nextChild}
    /\ nextChild' = nextChild + 1
    /\ processLock' = Nobody
    /\ Goto(t, "compare")
    /\ UNCHANGED <<doomed, counterVars, stopCleanup, previous, historyVars>>

(* Mutation: the lock is not released when Popen raises.                   *)
SpawnFailsKeepsLock(t) ==
    /\ Running
    /\ pc[t] = "spawn"
    /\ spawnFailures < MaxSpawnFailures
    /\ spawnFailures' = spawnFailures + 1
    /\ Goto(t, Raised(t))
    /\ UNCHANGED <<childVars, processLock, counterVars, stopCleanup, previous,
                   exits, stoppedBelow>>

SpawnFails(t) ==
    /\ Running
    /\ pc[t] = "spawn"
    /\ spawnFailures < MaxSpawnFailures
    /\ spawnFailures' = spawnFailures + 1
    /\ processLock' = Nobody
    /\ Goto(t, Raised(t))
    /\ UNCHANGED <<childVars, counterVars, stopCleanup, previous, exits, stoppedBelow>>

(* test_runs_total["error"] += restart_count - previous_restart_count,     *)
(* without a lock.  With the key present CPython runs it without giving up *)
(* the interpreter lock; the first time, Counter.__missing__ is a Python   *)
(* call and another thread may run between its 0 and the store.            *)
Compare(t) ==
    /\ Running
    /\ pc[t] = "compare"
    /\ \/ /\ restartCount <= previous[t]
          /\ Goto(t, Returned(t))
          /\ UNCHANGED errors
       \/ /\ restartCount > previous[t]
          /\ errors > 0
          /\ errors' = errors + (restartCount - previous[t])
          /\ Goto(t, Returned(t))
       \/ /\ restartCount > previous[t]
          /\ errors = 0
          /\ Goto(t, "store")
          /\ UNCHANGED errors
    /\ UNCHANGED <<childVars, processLock, restartCount, stopCleanup, previous, historyVars>>

Store(t) ==
    /\ Running
    /\ pc[t] = "store"
    /\ errors' = restartCount - previous[t]
    /\ Goto(t, Returned(t))
    /\ UNCHANGED <<childVars, processLock, restartCount, stopCleanup, previous, historyVars>>

EnsureRunning(t) ==
    \/ ReadPrevious(t) \/ Acquire(t) \/ Spawn(t) \/ SpawnFails(t)
    \/ Compare(t) \/ Store(t)

(***************************************************************************)
(* The watchdog thread: watch_process.                                     *)
(***************************************************************************)
WatchdogCheck ==
    /\ Running
    /\ pc[Watchdog] = "check"
    /\ Goto(Watchdog, IF stopCleanup THEN "finished" ELSE "enter")
    /\ UNCHANGED <<childVars, processLock, counterVars, stopCleanup, previous, historyVars>>

(* Mutation: the thread ends at the timeout as it does at the event.       *)
WatchdogWaitOnce ==
    /\ Running
    /\ pc[Watchdog] = "wait"
    /\ Goto(Watchdog, "finished")
    /\ UNCHANGED <<childVars, processLock, counterVars, stopCleanup, previous, historyVars>>

(* _stop_cleanup.wait(watchdog_interval): the event, or the timeout.       *)
WatchdogWait ==
    /\ Running
    /\ pc[Watchdog] = "wait"
    /\ Goto(Watchdog, IF stopCleanup THEN "finished" ELSE "check")
    /\ UNCHANGED <<childVars, processLock, counterVars, stopCleanup, previous, historyVars>>

(***************************************************************************)
(* A scrape: collect() calls ensure_running, then read_output.             *)
(***************************************************************************)
Serving == pc[Main] \notin EnsurePoints \cup {"start_threads", "terminated"}

BeginScrape(s) ==
    /\ Serving
    /\ pc[s] = "idle"
    /\ Goto(s, "enter")
    /\ UNCHANGED <<childVars, processLock, counterVars, stopCleanup, previous, historyVars>>

ReadOutput(s) ==
    /\ Running
    /\ pc[s] = "read"
    /\ LockFree
    /\ Goto(s, "idle")
    /\ UNCHANGED <<childVars, processLock, counterVars, stopCleanup, previous, historyVars>>

(***************************************************************************)
(* The main thread: the end of IPerfServer.run, then IPerfServer.stop.     *)
(***************************************************************************)
StartThreads ==
    /\ pc[Main] = "start_threads"
    /\ pc' = [pc EXCEPT ![Main] = "serving", ![Watchdog] = "check"]
    /\ stopCleanup' = FALSE
    /\ UNCHANGED <<childVars, processLock, counterVars, previous, historyVars>>

(* SIGTERM or SIGINT ends wait_for_shutdown; stop() sets the event first.  *)
Shutdown ==
    /\ pc[Main] = "serving"
    /\ stopCleanup' = TRUE
    /\ Goto(Main, "stop_acquire")
    /\ UNCHANGED <<childVars, processLock, counterVars, previous, historyVars>>

(* IPerf.stop takes the lock: nothing to stop, a child that is gone, or a  *)
(* running child that is sent SIGTERM and waited for with the lock held.   *)
StopAcquire ==
    /\ pc[Main] = "stop_acquire"
    /\ LockFree
    /\ \/ /\ process \in alive
          /\ processLock' = Main
          /\ Goto(Main, "wait_term")
          /\ UNCHANGED <<process, stoppedBelow>>
       \/ /\ process \notin alive
          /\ process' = NoChild
          /\ stoppedBelow' = nextChild
          /\ Goto(Main, "join")
          /\ UNCHANGED processLock
    /\ UNCHANGED <<alive, doomed, nextChild, counterVars, stopCleanup, previous,
                   exits, spawnFailures>>

(* The finally clause of IPerf.stop, and the release of the lock.          *)
LetGo(point) ==
    /\ process' = NoChild
    /\ processLock' = Nobody
    /\ stoppedBelow' = nextChild
    /\ Goto(Main, point)

(* Mutation: the child is sent SIGTERM but not waited for.                 *)
StopWaitedNot ==
    /\ pc[Main] \in {"wait_term", "wait_kill"}
    /\ LetGo("join")
    /\ UNCHANGED <<alive, doomed, nextChild, counterVars, stopCleanup, previous,
                   exits, spawnFailures>>

(* wait(timeout) returns the exit status of the child.                     *)
StopWaited ==
    /\ pc[Main] \in {"wait_term", "wait_kill"}
    /\ alive' = alive \ {process}
    /\ LetGo("join")
    /\ UNCHANGED <<doomed, nextChild, counterVars, stopCleanup, previous,
                   exits, spawnFailures>>

(* The first wait timed out: SIGKILL and wait again.                       *)
StopKills ==
    /\ pc[Main] = "wait_term"
    /\ process \in alive
    /\ doomed' = doomed \cup {process}
    /\ Goto(Main, "wait_kill")
    /\ UNCHANGED <<process, alive, nextChild, processLock, counterVars, stopCleanup,
                   previous, historyVars>>

(* The second wait timed out too: TimeoutExpired leaves stop() after its   *)
(* finally clause, and the program ends without joining its threads.       *)
StopRaises ==
    /\ pc[Main] = "wait_kill"
    /\ process \in alive
    /\ LetGo("terminated")
    /\ UNCHANGED <<alive, doomed, nextChild, counterVars, stopCleanup, previous,
                   exits, spawnFailures>>

(* join(timeout=1) of the cleanup and the watchdog thread returns whether  *)
(* or not they ended; then main() returns.                                 *)
JoinThreads ==
    /\ pc[Main] = "join"
    /\ Goto(Main, "terminated")
    /\ UNCHANGED <<childVars, processLock, counterVars, stopCleanup, previous, historyVars>>

(***************************************************************************)
(* The operating system.                                                   *)
(***************************************************************************)
ChildExits ==
    /\ exits < MaxExits
    /\ \E c \in alive \ doomed : alive' = alive \ {c}
    /\ exits' = exits + 1
    /\ UNCHANGED <<process, doomed, nextChild, processLock, counterVars, stopCleanup,
                   pc, previous, spawnFailures, stoppedBelow>>

KilledChildExits ==
    /\ \E c \in alive \cap doomed : alive' = alive \ {c}
    /\ UNCHANGED <<process, doomed, nextChild, processLock, counterVars, stopCleanup,
                   pc, previous, historyVars>>

(* The program has ended: the one state in which it may stop.              *)
Terminated ==
    /\ ~Running
    /\ UNCHANGED vars

MainStep ==
    \/ StartThreads \/ StopWaited \/ StopKills \/ StopRaises
    \/ JoinThreads

Next ==
    \/ \E t \in Threads : EnsureRunning(t)
    \/ \E s \in Scrapers : BeginScrape(s) \/ ReadOutput(s)
    \/ WatchdogCheck \/ WatchdogWait
    \/ MainStep \/ Shutdown \/ StopAcquire
    \/ ChildExits \/ KilledChildExits
    \/ Terminated

Spec == Init /\ [][Next]_vars

(* Every thread that can run does; waiting for _process_lock is strongly   *)
(* fair, as a holder keeps it for seconds at most and calls are seconds    *)
(* apart.  Nothing makes a scrape or a signal arrive.                      *)
Fairness ==
    /\ \A t \in Threads :
          /\ WF_vars(ReadPrevious(t) \/ Spawn(t) \/ SpawnFails(t) \/ Compare(t) \/ Store(t))
          /\ SF_vars(Acquire(t))
    /\ \A s \in Scrapers : SF_vars(ReadOutput(s))
    /\ WF_vars(WatchdogCheck) /\ WF_vars(WatchdogWait)
    /\ WF_vars(MainStep) /\ SF_vars(StopAcquire)
    /\ WF_vars(KilledChildExits)

FairSpec == Spec /\ Fairness

-----------------------------------------------------------------------------
(***************************************************************************)
(* Properties                                                              *)
(***************************************************************************)

(* A child that runs and was not sent SIGKILL is the one _process refers   *)
(* to: no interleaving of the threads, no failed spawn and no shutdown     *)
(* leaves an iperf running that nobody will poll, restart or stop, so two  *)
(* never compete for the listening port.                                   *)
NoForgottenChild == alive \ doomed \subseteq {process}

(* iperf_process_restarts_total counts every exit of a child exactly once, *)
(* however many threads notice it: an exit is either counted, or that of   *)
(* the child _process still refers to, or (once) that of the child stop()  *)
(* let go of.                                                              *)
UncountedExit == IF process # NoChild /\ process \notin alive THEN 1 ELSE 0

EveryExitCountedOnce ==
    /\ restartCount + UncountedExit <= exits + (IF pc[Main] = "wait_kill" THEN 1 ELSE 0)
    /\ exits <= restartCount + UncountedExit
                + (IF pc[Main] \in {"join", "terminated"} THEN 1 ELSE 0)

(* stop() never lets go of a child that goes on running: what still runs   *)
(* afterwards was sent SIGKILL, or was started by an ensure_running that   *)
(* took the lock after stop() released it.                                 *)
StopEndsItsChild == \A c \in alive \ doomed : c >= stoppedBelow

(* All of it together: threads, lock, failed spawns and shutdown implement *)
(* a single supervisor that has one child at a time, starts the next one   *)
(* only after the last one ended and counts every end at most once.        *)
Supervisor == INSTANCE Supervisor WITH
                  current <- process, up <- alive \ doomed, restarts <- restartCount

Supervised == Supervisor!Spec

(* While the exporter runs, a child that is not there is started again,    *)
(* unless a failed spawn killed the watchdog thread.                       *)
ChildComesBack ==
    (pc[Main] = "serving" /\ process \notin alive)
        ~> (process \in alive \/ stopCleanup \/ pc[Watchdog] = "died")

(* The changelog's statement, without the exception: the watchdog restarts *)
(* crashed iperf child processes.                                          *)
WatchdogRestartsChild ==
    (pc[Main] = "serving" /\ process \notin alive) ~> (process \in alive \/ stopCleanup)

(* Shutdown completes: stop() is not kept from the lock, nor by a child    *)
(* that ignores SIGTERM, nor by the threads it joins.                      *)
StopReturns == stopCleanup ~> ~Running
=============================================================================
