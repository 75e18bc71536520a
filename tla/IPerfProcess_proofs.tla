------------------------ MODULE IPerfProcess_proofs ------------------------
(***************************************************************************)
(* Proofs about IPerfProcess for any number of scraping threads, child     *)
(* exits and failed spawns.  The invariant TypeOK /\ LockInv /\ ChildInv   *)
(* /\ CountInv is inductive and implies the safety properties.             *)
(***************************************************************************)
EXTENDS IPerfProcess, TLAPS

(* The lock is held exactly by the thread that is in a locked section: in  *)
(* particular a failed spawn and an exception in stop() release it.  The   *)
(* watchdog thread does not run before the main thread started it.         *)
LockInv ==
    /\ \A t \in Threads : pc[t] \in LockedPoints <=> processLock = t
    /\ pc[Main] \in EnsurePoints \cup {"start_threads"} => pc[Watchdog] = "unstarted"

(* What is known of the child in each locked section, and of the numbers   *)
(* of the children.                                                        *)
ChildInv ==
    /\ NoForgottenChild
    /\ \A t \in Threads : pc[t] = "spawn" => process = NoChild
    /\ pc[Main] = "wait_kill" => process \in doomed
    /\ process \in doomed => pc[Main] = "wait_kill" \/ process = NoChild
    /\ \A c \in alive \cup doomed \cup {process} : c < nextChild
    /\ process = NoChild \/ process >= stoppedBelow
    /\ stoppedBelow <= nextChild

(* EveryExitCountedOnce, strengthened for a child that is being killed; a  *)
(* saved restart count is never ahead of the counter.                      *)
CountInv ==
    /\ EveryExitCountedOnce
    /\ restartCount <= exits
    /\ \A t \in Threads : previous[t] <= restartCount

Inv == TypeOK /\ LockInv /\ ChildInv /\ CountInv

-----------------------------------------------------------------------------
(* The invariant holds initially.                                          *)
LEMMA InitInv == Init => Inv
<1> SUFFICES ASSUME Init PROVE Inv
  OBVIOUS
<1> USE ThreadsAssumption DEF Init, Threads, NoChild
<1>1. TypeOK
  <2>1. \A t \in Threads : pc[t] \in PointsOf(t)
    BY DEF PointsOf, EnsurePoints, ScraperPoints, WatchdogPoints
  <2>2. pc \in [Threads -> EnsurePoints \cup MainPoints \cup WatchdogPoints \cup ScraperPoints]
    BY DEF EnsurePoints, WatchdogPoints, ScraperPoints
  <2>3. previous \in [Threads -> Nat]
    OBVIOUS
  <2>4. /\ alive \in SUBSET (Nat \ {NoChild})
        /\ doomed \in SUBSET Nat
    OBVIOUS
  <2>5. /\ process \in Nat /\ nextChild \in Nat \ {NoChild}
        /\ processLock \in Threads \cup {Nobody}
        /\ restartCount \in Nat /\ errors \in Nat
        /\ exits \in Nat /\ spawnFailures \in Nat /\ stoppedBelow \in Nat
    OBVIOUS
  <2>6. stopCleanup \in BOOLEAN
    OBVIOUS
  <2> HIDE DEF Init, Threads, NoChild
  <2> QED
    BY <2>1, <2>2, <2>3, <2>4, <2>5, <2>6 DEF TypeOK
<1>2. LockInv
  BY DEF LockInv, LockedPoints, EnsurePoints
<1>3. ChildInv
  BY DEF ChildInv, NoForgottenChild
<1>4. CountInv
  BY DEF CountInv, EveryExitCountedOnce, UncountedExit
<1> QED
  BY <1>1, <1>2, <1>3, <1>4 DEF Inv

-----------------------------------------------------------------------------
(* ensure_running, by any thread.                                          *)
LEMMA EnsureInv ==
  ASSUME Inv, NEW t \in Threads, EnsureRunning(t)
  PROVE  Inv'
<1> USE ThreadsAssumption DEF Threads, NoChild, Goto
<1>1. CASE ReadPrevious(t)
  <2> USE <1>1 DEF ReadPrevious, childVars, counterVars, historyVars
  <2>1. TypeOK'
    BY DEF Inv, TypeOK, PointsOf, EnsurePoints
  <2>2. LockInv'
    BY DEF Inv, TypeOK, LockInv, LockedPoints, EnsurePoints
  <2>3. ChildInv'
    BY DEF Inv, TypeOK, ChildInv, NoForgottenChild
  <2>4. CountInv'
    BY DEF Inv, TypeOK, CountInv, EveryExitCountedOnce, UncountedExit
  <2> QED
    BY <2>1, <2>2, <2>3, <2>4 DEF Inv
<1>2. CASE Acquire(t)
  <2> USE <1>2 DEF Acquire, LockFree, PollNone, PollRunning, PollExited, historyVars
  <2>1. TypeOK'
    BY DEF Inv, TypeOK, PointsOf, EnsurePoints
  <2>2. LockInv'
    BY DEF Inv, TypeOK, LockInv, LockedPoints, EnsurePoints
  <2>3. ChildInv'
    BY DEF Inv, TypeOK, LockInv, LockedPoints, ChildInv, NoForgottenChild
  <2>4. CountInv'
    BY DEF Inv, TypeOK, LockInv, LockedPoints, CountInv, EveryExitCountedOnce, UncountedExit
  <2> QED
    BY <2>1, <2>2, <2>3, <2>4 DEF Inv
<1>3. CASE Spawn(t)
  <2> USE <1>3 DEF Spawn, counterVars, historyVars
  <2>1. TypeOK'
    BY DEF Inv, TypeOK, PointsOf, EnsurePoints
  <2>2. LockInv'
    BY DEF Inv, TypeOK, LockInv, LockedPoints, EnsurePoints
  <2>3. ChildInv'
    BY DEF Inv, TypeOK, LockInv, LockedPoints, ChildInv, NoForgottenChild
  <2>4. CountInv'
    BY DEF Inv, TypeOK, LockInv, LockedPoints, ChildInv, CountInv, EveryExitCountedOnce, UncountedExit
  <2> QED
    BY <2>1, <2>2, <2>3, <2>4 DEF Inv
<1>4. CASE SpawnFails(t)
  <2> USE <1>4 DEF SpawnFails, childVars, counterVars, Raised
  <2>1. TypeOK'
    BY DEF Inv, TypeOK, PointsOf, EnsurePoints, MainPoints, WatchdogPoints, ScraperPoints
  <2>2. LockInv'
    BY DEF Inv, TypeOK, LockInv, LockedPoints, EnsurePoints
  <2>3. ChildInv'
    BY DEF Inv, TypeOK, LockInv, LockedPoints, ChildInv, NoForgottenChild
  <2>4. CountInv'
    BY DEF Inv, TypeOK, LockInv, LockedPoints, CountInv, EveryExitCountedOnce, UncountedExit
  <2> QED
    BY <2>1, <2>2, <2>3, <2>4 DEF Inv
<1>5. CASE Compare(t)
  <2> USE <1>5 DEF Compare, childVars, historyVars, Returned
  <2>1. TypeOK'
    <3>1. errors' \in Nat
      BY DEF Inv, TypeOK
    <3>2. /\ pc' \in [Threads -> EnsurePoints \cup MainPoints \cup WatchdogPoints \cup ScraperPoints]
          /\ \A u \in Threads : pc'[u] \in PointsOf(u)
      BY DEF Inv, TypeOK, PointsOf, EnsurePoints, MainPoints, WatchdogPoints, ScraperPoints
    <3> QED
      BY <3>1, <3>2 DEF Inv, TypeOK
  <2>2. LockInv'
    BY DEF Inv, TypeOK, LockInv, LockedPoints, EnsurePoints
  <2>3. ChildInv'
    BY DEF Inv, TypeOK, ChildInv, NoForgottenChild
  <2>4. CountInv'
    BY DEF Inv, TypeOK, CountInv, EveryExitCountedOnce, UncountedExit
  <2> QED
    BY <2>1, <2>2, <2>3, <2>4 DEF Inv
<1>6. CASE Store(t)
  <2> USE <1>6 DEF Store, childVars, historyVars, Returned
  <2>1. TypeOK'
    BY DEF Inv, TypeOK, CountInv, PointsOf, EnsurePoints, MainPoints, WatchdogPoints, ScraperPoints
  <2>2. LockInv'
    BY DEF Inv, TypeOK, LockInv, LockedPoints, EnsurePoints
  <2>3. ChildInv'
    BY DEF Inv, TypeOK, ChildInv, NoForgottenChild
  <2>4. CountInv'
    BY DEF Inv, TypeOK, CountInv, EveryExitCountedOnce, UncountedExit
  <2> QED
    BY <2>1, <2>2, <2>3, <2>4 DEF Inv
<1> QED
  BY <1>1, <1>2, <1>3, <1>4, <1>5, <1>6 DEF EnsureRunning

-----------------------------------------------------------------------------
(* The watchdog's loop and the scrapes change nothing but control points.  *)
LEMMA LoopInv ==
  ASSUME Inv,
         \/ WatchdogCheck
         \/ WatchdogWait
         \/ \E s \in Scrapers : BeginScrape(s) \/ ReadOutput(s)
  PROVE  Inv'
<1> USE ThreadsAssumption DEF Threads, NoChild, Goto
<1> DEFINE Moves(t, point) ==
        /\ pc' = [pc EXCEPT ![t] = point]
        /\ point \in PointsOf(t)
        /\ pc[t] \in {"check", "wait", "idle", "read"}
        /\ UNCHANGED <<childVars, processLock, counterVars, stopCleanup, previous, historyVars>>
<1>1. PICK t \in Scrapers \cup {Watchdog}, point \in {"finished", "enter", "check", "idle"} : Moves(t, point)
  <2>1. CASE WatchdogCheck
    BY <2>1 DEF WatchdogCheck, PointsOf, EnsurePoints, WatchdogPoints
  <2>2. CASE WatchdogWait
    BY <2>2 DEF WatchdogWait, PointsOf, EnsurePoints, WatchdogPoints
  <2>3. CASE \E s \in Scrapers : BeginScrape(s)
    BY <2>3 DEF BeginScrape, PointsOf, EnsurePoints, ScraperPoints
  <2>4. CASE \E s \in Scrapers : ReadOutput(s)
    BY <2>4 DEF ReadOutput, PointsOf, EnsurePoints, ScraperPoints
  <2> QED
    BY <2>1, <2>2, <2>3, <2>4
<1> USE <1>1 DEF childVars, counterVars, historyVars
<1>2. TypeOK'
  <2>1. pc' \in [Threads -> EnsurePoints \cup MainPoints \cup WatchdogPoints \cup ScraperPoints]
    BY DEF Inv, TypeOK, EnsurePoints, WatchdogPoints, ScraperPoints
  <2>2. \A u \in Threads : pc'[u] \in PointsOf(u)
    BY DEF Inv, TypeOK
  <2> QED
    BY <2>1, <2>2 DEF Inv, TypeOK
<1>3. LockInv'
  BY DEF Inv, TypeOK, LockInv, LockedPoints, EnsurePoints
<1>4. ChildInv'
  BY DEF Inv, TypeOK, ChildInv, NoForgottenChild
<1>5. CountInv'
  BY DEF Inv, TypeOK, CountInv, EveryExitCountedOnce, UncountedExit
<1> QED
  BY <1>2, <1>3, <1>4, <1>5 DEF Inv

-----------------------------------------------------------------------------
(* The main thread: starting the threads and stop().                       *)
LEMMA MainInv ==
  ASSUME Inv, MainStep \/ Shutdown \/ StopAcquire
  PROVE  Inv'
<1> USE ThreadsAssumption DEF Threads, NoChild, Goto
<1>1. CASE StartThreads
  <2> USE <1>1 DEF StartThreads, childVars, counterVars, historyVars
  <2>1. TypeOK'
    <3>1. pc' \in [Threads -> EnsurePoints \cup MainPoints \cup WatchdogPoints \cup ScraperPoints]
      BY DEF Inv, TypeOK, MainPoints, WatchdogPoints
    <3>2. \A u \in Threads : pc'[u] \in PointsOf(u)
      BY DEF Inv, TypeOK, PointsOf, MainPoints, WatchdogPoints
    <3> QED
      BY <3>1, <3>2 DEF Inv, TypeOK
  <2>2. LockInv'
    BY DEF Inv, TypeOK, LockInv, LockedPoints, EnsurePoints
  <2>3. ChildInv'
    BY DEF Inv, TypeOK, ChildInv, NoForgottenChild
  <2>4. CountInv'
    BY DEF Inv, TypeOK, CountInv, EveryExitCountedOnce, UncountedExit
  <2> QED
    BY <2>1, <2>2, <2>3, <2>4 DEF Inv
<1>2. CASE Shutdown
  <2> USE <1>2 DEF Shutdown, childVars, counterVars, historyVars
  <2>1. TypeOK'
    BY DEF Inv, TypeOK, PointsOf, EnsurePoints, MainPoints, WatchdogPoints, ScraperPoints
  <2>2. LockInv'
    BY DEF Inv, TypeOK, LockInv, LockedPoints, EnsurePoints
  <2>3. ChildInv'
    BY DEF Inv, TypeOK, ChildInv, NoForgottenChild
  <2>4. CountInv'
    BY DEF Inv, TypeOK, CountInv, EveryExitCountedOnce, UncountedExit
  <2> QED
    BY <2>1, <2>2, <2>3, <2>4 DEF Inv
<1>3. CASE StopAcquire
  <2> USE <1>3 DEF StopAcquire, LockFree, counterVars
  <2>1. TypeOK'
    BY DEF Inv, TypeOK, PointsOf, EnsurePoints, MainPoints, WatchdogPoints, ScraperPoints
  <2>2. LockInv'
    BY DEF Inv, TypeOK, LockInv, LockedPoints, EnsurePoints
  <2>3. ChildInv'
    BY DEF Inv, TypeOK, LockInv, LockedPoints, ChildInv, NoForgottenChild
  <2>4. CountInv'
    BY DEF Inv, TypeOK, CountInv, EveryExitCountedOnce, UncountedExit
  <2> QED
    BY <2>1, <2>2, <2>3, <2>4 DEF Inv
<1>4. CASE StopWaited
  <2> USE <1>4 DEF StopWaited, LetGo, counterVars
  <2>1. TypeOK'
    BY DEF Inv, TypeOK, PointsOf, EnsurePoints, MainPoints, WatchdogPoints, ScraperPoints
  <2>2. LockInv'
    BY DEF Inv, TypeOK, LockInv, LockedPoints, EnsurePoints
  <2>3. ChildInv'
    BY DEF Inv, TypeOK, LockInv, LockedPoints, ChildInv, NoForgottenChild
  <2>4. CountInv'
    BY DEF Inv, TypeOK, CountInv, EveryExitCountedOnce, UncountedExit
  <2> QED
    BY <2>1, <2>2, <2>3, <2>4 DEF Inv
<1>5. CASE StopKills
  <2> USE <1>5 DEF StopKills, counterVars, historyVars
  <2>1. TypeOK'
    BY DEF Inv, TypeOK, PointsOf, EnsurePoints, MainPoints, WatchdogPoints, ScraperPoints
  <2>2. LockInv'
    BY DEF Inv, TypeOK, LockInv, LockedPoints, EnsurePoints
  <2>3. ChildInv'
    BY DEF Inv, TypeOK, LockInv, LockedPoints, ChildInv, NoForgottenChild
  <2>4. CountInv'
    BY DEF Inv, TypeOK, CountInv, EveryExitCountedOnce, UncountedExit
  <2> QED
    BY <2>1, <2>2, <2>3, <2>4 DEF Inv
<1>6. CASE StopRaises
  <2> USE <1>6 DEF StopRaises, LetGo, counterVars
  <2>1. TypeOK'
    BY DEF Inv, TypeOK, PointsOf, EnsurePoints, MainPoints, WatchdogPoints, ScraperPoints
  <2>2. LockInv'
    BY DEF Inv, TypeOK, LockInv, LockedPoints, EnsurePoints
  <2>3. ChildInv'
    BY DEF Inv, TypeOK, LockInv, LockedPoints, ChildInv, NoForgottenChild
  <2>4. CountInv'
    BY DEF Inv, TypeOK, CountInv, EveryExitCountedOnce, UncountedExit
  <2> QED
    BY <2>1, <2>2, <2>3, <2>4 DEF Inv
<1>7. CASE JoinThreads
  <2> USE <1>7 DEF JoinThreads, childVars, counterVars, historyVars
  <2>1. TypeOK'
    BY DEF Inv, TypeOK, PointsOf, EnsurePoints, MainPoints, WatchdogPoints, ScraperPoints
  <2>2. LockInv'
    BY DEF Inv, TypeOK, LockInv, LockedPoints, EnsurePoints
  <2>3. ChildInv'
    BY DEF Inv, TypeOK, ChildInv, NoForgottenChild
  <2>4. CountInv'
    BY DEF Inv, TypeOK, CountInv, EveryExitCountedOnce, UncountedExit
  <2> QED
    BY <2>1, <2>2, <2>3, <2>4 DEF Inv
<1> QED
  BY <1>1, <1>2, <1>3, <1>4, <1>5, <1>6, <1>7 DEF MainStep

-----------------------------------------------------------------------------
(* The exits of children.                                                  *)
LEMMA ExitInv ==
  ASSUME Inv, ChildExits \/ KilledChildExits
  PROVE  Inv'
<1> USE ThreadsAssumption DEF Threads, NoChild
<1>1. CASE ChildExits
  <2> USE <1>1 DEF ChildExits, counterVars
  <2>1. TypeOK'
    BY DEF Inv, TypeOK
  <2>2. LockInv'
    BY DEF Inv, LockInv
  <2>3. ChildInv'
    BY DEF Inv, TypeOK, ChildInv, NoForgottenChild
  <2>4. CountInv'
    BY DEF Inv, TypeOK, ChildInv, NoForgottenChild, CountInv, EveryExitCountedOnce, UncountedExit
  <2> QED
    BY <2>1, <2>2, <2>3, <2>4 DEF Inv
<1>2. CASE KilledChildExits
  <2> USE <1>2 DEF KilledChildExits, counterVars, historyVars
  <2>1. TypeOK'
    BY DEF Inv, TypeOK
  <2>2. LockInv'
    BY DEF Inv, LockInv
  <2>3. ChildInv'
    BY DEF Inv, TypeOK, ChildInv, NoForgottenChild
  <2>4. CountInv'
    BY DEF Inv, TypeOK, ChildInv, NoForgottenChild, CountInv, EveryExitCountedOnce, UncountedExit
  <2> QED
    BY <2>1, <2>2, <2>3, <2>4 DEF Inv
<1> QED
  BY <1>1, <1>2

-----------------------------------------------------------------------------
(* The invariant holds in every reachable state.                           *)
THEOREM SpecInv == Spec => []Inv
<1>1. Inv /\ [Next]_vars => Inv'
  <2> SUFFICES ASSUME Inv, [Next]_vars PROVE Inv'
    OBVIOUS
  <2>1. CASE \E t \in Threads : EnsureRunning(t)
    BY <2>1, EnsureInv
  <2>2. CASE \/ WatchdogCheck \/ WatchdogWait
             \/ \E s \in Scrapers : BeginScrape(s) \/ ReadOutput(s)
    BY <2>2, LoopInv
  <2>3. CASE MainStep \/ Shutdown \/ StopAcquire
    BY <2>3, MainInv
  <2>4. CASE ChildExits \/ KilledChildExits
    BY <2>4, ExitInv
  <2>5. CASE UNCHANGED vars
    <3> USE <2>5 DEF vars
    <3>1. TypeOK'
      BY DEF Inv, TypeOK
    <3>2. LockInv'
      BY DEF Inv, LockInv
    <3>3. ChildInv'
      BY DEF Inv, ChildInv, NoForgottenChild
    <3>4. CountInv'
      BY DEF Inv, CountInv, EveryExitCountedOnce, UncountedExit
    <3> QED
      BY <3>1, <3>2, <3>3, <3>4 DEF Inv
  <2> QED
    BY <2>1, <2>2, <2>3, <2>4, <2>5 DEF Next, Terminated
<1> QED
  BY InitInv, <1>1, PTL DEF Spec

(* The variables keep their types.                                         *)
THEOREM TypeCorrect == Spec => []TypeOK
BY SpecInv, PTL DEF Inv

(* No child is ever forgotten: for any number of threads, a child that     *)
(* runs and was not killed is the one _process refers to.                  *)
THEOREM NoChildIsForgotten == Spec => []NoForgottenChild
<1>1. Inv => NoForgottenChild
  BY DEF Inv, ChildInv
<1> QED
  BY <1>1, SpecInv, PTL

(* restart_count counts every exit of a child once, whoever notices it.    *)
THEOREM ExitsAreCountedOnce == Spec => []EveryExitCountedOnce
<1>1. Inv => EveryExitCountedOnce
  BY DEF Inv, CountInv
<1> QED
  BY <1>1, SpecInv, PTL

(* stop() does not let go of a running child.                              *)
THEOREM StopLeavesNoChildBehind == Spec => []StopEndsItsChild
<1>1. Inv => StopEndsItsChild
  BY DEF Inv, TypeOK, ChildInv, NoForgottenChild, StopEndsItsChild, NoChild
<1> QED
  BY <1>1, SpecInv, PTL

-----------------------------------------------------------------------------
(* What a step of the model is for the supervisor: threads only move, or   *)
(* start a child, notice its end, end it or let go of it.                  *)
LEMMA StepSupervised ==
  ASSUME Inv, Next
  PROVE  [Supervisor!Next]_<<process, alive \ doomed, restartCount>>
<1> USE ThreadsAssumption DEF NoChild
<1> DEFINE Same == UNCHANGED <<process, alive, doomed, restartCount>>
<1>1. Same => UNCHANGED <<process, alive \ doomed, restartCount>>
  OBVIOUS
<1>2. CASE \E t \in Threads : EnsureRunning(t)
  <2>1. PICK t \in Threads : EnsureRunning(t)
    BY <1>2
  <2>2. CASE ReadPrevious(t) \/ SpawnFails(t) \/ Compare(t) \/ Store(t)
    BY <2>2, <1>1 DEF ReadPrevious, SpawnFails, Compare, Store, childVars, counterVars
  <2>3. CASE Acquire(t)
    <3>1. CASE PollNone(t) \/ PollRunning(t)
      BY <2>3, <3>1, <1>1 DEF Acquire, PollNone, PollRunning
    <3>2. CASE PollExited(t)
      <4>1. Supervisor!Notice
        BY <2>3, <3>2 DEF Acquire, PollExited, Supervisor!Notice, Inv, ChildInv, NoForgottenChild
      <4> QED
        BY <4>1 DEF Supervisor!Next
    <3> QED
      BY <2>3, <3>1, <3>2 DEF Acquire
  <2>4. CASE Spawn(t)
    <3>1. process = NoChild /\ alive \ doomed = {}
      BY <2>4 DEF Spawn, Inv, TypeOK, ChildInv, NoForgottenChild
    <3>2. nextChild # NoChild /\ nextChild \notin doomed
      BY DEF Inv, TypeOK, ChildInv
    <3>3. Supervisor!Start
      BY <2>4, <3>1, <3>2 DEF Spawn, counterVars, Supervisor!Start
    <3> QED
      BY <3>3 DEF Supervisor!Next
  <2> QED
    BY <2>1, <2>2, <2>3, <2>4 DEF EnsureRunning
<1>3. CASE \/ WatchdogCheck \/ WatchdogWait \/ Shutdown \/ StartThreads \/ JoinThreads
           \/ \E s \in Scrapers : BeginScrape(s) \/ ReadOutput(s)
           \/ Terminated
  BY <1>3, <1>1 DEF WatchdogCheck, WatchdogWait, Shutdown, StartThreads, JoinThreads,
                    BeginScrape, ReadOutput, Terminated, vars, childVars, counterVars
<1>4. CASE StopAcquire
  <2>1. CASE process \in alive
    BY <1>4, <2>1, <1>1 DEF StopAcquire, counterVars
  <2>2. CASE process \notin alive
    <3>1. Supervisor!LetGo
      BY <1>4, <2>2 DEF StopAcquire, counterVars, Supervisor!LetGo, Inv, ChildInv, NoForgottenChild
    <3> QED
      BY <3>1 DEF Supervisor!Next
  <2> QED
    BY <2>1, <2>2
<1>5. CASE StopWaited \/ StopRaises
  <2>1. Supervisor!LetGo
    BY <1>5 DEF StopWaited, StopRaises, LetGo, counterVars, Supervisor!LetGo, Inv, ChildInv, NoForgottenChild
  <2> QED
    BY <2>1 DEF Supervisor!Next
<1>6. CASE StopKills
  <2>1. Supervisor!End
    BY <1>6 DEF StopKills, counterVars, Supervisor!End, Inv, ChildInv, NoForgottenChild
  <2> QED
    BY <2>1 DEF Supervisor!Next
<1>7. CASE ChildExits
  <2>1. Supervisor!End
    BY <1>7 DEF ChildExits, counterVars, Supervisor!End, Inv, ChildInv, NoForgottenChild
  <2> QED
    BY <2>1 DEF Supervisor!Next
<1>8. CASE KilledChildExits
  <2>1. UNCHANGED <<process, alive \ doomed, restartCount>>
    BY <1>8 DEF KilledChildExits, counterVars
  <2> QED
    BY <2>1
<1> QED
  BY <1>2, <1>3, <1>4, <1>5, <1>6, <1>7, <1>8 DEF Next, MainStep

(* The threads and their lock implement a single supervisor of one child.  *)
THEOREM ThreadsImplementSupervisor == Spec => Supervised
<1>1. Init => Supervisor!Init
  BY DEF Init, Supervisor!Init, NoChild
<1>2. Inv /\ [Next]_vars => [Supervisor!Next]_(Supervisor!vars)
  BY StepSupervised DEF vars, Supervisor!vars
<1> QED
  BY <1>1, <1>2, SpecInv, PTL DEF Spec, Supervised, Supervisor!Spec

=============================================================================
