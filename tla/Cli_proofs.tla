---------------------------- MODULE Cli_proofs ----------------------------
(***************************************************************************)
(* Proofs about Cli: its types, that no iperf outlives the program, and    *)
(* that a probe's status is that of its iperf, for any number of exits,    *)
(* failed starts and signals.                                              *)
(***************************************************************************)
EXTENDS Cli, TLAPS

(* Until the program is over it knows the child that runs; once stop()     *)
(* returned, only a late child runs.                                       *)
ChildInv ==
    /\ child = "up" /\ point # "over" => known
    /\ child = "up" /\ point = "join" => late
    /\ NoChildOutlives

(* A probe starts one child.  Until it is stopped the child ends by itself *)
(* only, and when the loop is left its exit code is known, or there is a   *)
(* shutdown.                                                               *)
ProbeInv ==
    /\ mode = "probe" /\ point # "over" => raisedAt = "nowhere"
    /\ mode = "probe" /\ point \in LoopPoints \cup StopPoints =>
          child # "none" /\ known
    /\ mode = "probe" /\ point \notin {"wait_term", "wait_kill", "over"} /\ child = "ended" =>
          code \in OwnCodes
    /\ mode = "probe" /\ point = "stop" =>
          (lastExit = "none" /\ shutdown) \/ (lastExit = code /\ child = "ended")
    /\ ProbeStatusTruthful

(* Every mode has its own points.                                          *)
PointInv ==
    /\ point \in {"outer", "pause", "again", "rerun"} => mode = "periodicProbe"
    /\ point = "ensure" => mode = "continuous"
    /\ point = "poll" => mode # "continuous"

Inv == TypeOK /\ PointInv /\ ChildInv /\ ProbeInv

(* The sets of points and codes are expanded everywhere below.             *)
USE DEF Modes, Clients, Codes, OwnCodes, Points, ServerPoints, LoopPoints, StopPoints,
        childVars, historyVars

LEMMA InitInv == Init => Inv
<1> SUFFICES ASSUME Init PROVE Inv
  OBVIOUS
<1>1. TypeOK
  BY DEF Init, TypeOK
<1>2. PointInv /\ ChildInv
  BY DEF Init, PointInv, ChildInv, NoChildOutlives
<1>3. ProbeInv
  BY DEF Init, ProbeInv, ProbeStatusTruthful
<1> QED
  BY <1>1, <1>2, <1>3 DEF Inv

(* Every caller of ensure_running keeps the invariant.                     *)
LEMMA EnsureInv ==
  ASSUME Inv,
         NEW from \in {"construct", "run", "ensure", "rerun"},
         NEW to \in {"publish", "outer", "check", "read"},
         EnsuresRunning(from, to),
         from = "construct" <=> to = "publish",
         from \in {"ensure", "rerun"} => mode # "probe",
         from # "construct" => mode \in Clients,
         to = "outer" => mode = "periodicProbe"
  PROVE  Inv'
<1>1. TypeOK'
  <2> USE DEF Inv, TypeOK, EnsuresRunning, FindsRunning, Spawns, SpawnFails, NotesExit, Goto,
              Leaves
  <2>1. shutdown' \in BOOLEAN /\ known' \in BOOLEAN /\ late' \in BOOLEAN
    OBVIOUS
  <2>2. IF child' = "ended" THEN code' \in Codes ELSE code' = "none"
    OBVIOUS
  <2>3. status' \in Codes \cup {"none", "raised"} /\ (status' # "none" <=> point' = "over")
    OBVIOUS
  <2> QED
    BY <2>1, <2>2, <2>3
<1>2. PointInv' /\ ChildInv'
  BY DEF Inv, TypeOK, PointInv, ChildInv, NoChildOutlives, EnsuresRunning, FindsRunning, Spawns,
         SpawnFails, NotesExit, Goto, Leaves
<1>3. ProbeInv'
  BY DEF Inv, TypeOK, ChildInv, ProbeInv, ProbeStatusTruthful, EnsuresRunning, FindsRunning,
         Spawns, SpawnFails, NotesExit, Goto, Leaves
<1> QED
  BY <1>1, <1>2, <1>3 DEF Inv

(* Every step of the main thread does.                                     *)
LEMMA MainInv == Inv /\ MainStep => Inv'
<1> SUFFICES ASSUME Inv, MainStep PROVE Inv'
  OBVIOUS
<1> USE DEF Inv, TypeOK, PointInv, ChildInv, ProbeInv, NoChildOutlives, ProbeStatusTruthful
<1>1. CASE Construct
  BY <1>1, EnsureInv DEF Construct
<1>2. CASE RunClient
  <2>1. point = "run" /\ mode \in Clients
    BY <1>2 DEF RunClient, EnsuresRunning
  <2>2. FirstPoint \in {"outer", "check"} /\ (FirstPoint = "outer" => mode = "periodicProbe")
    BY DEF FirstPoint
  <2> QED
    BY <1>2, <2>1, <2>2, EnsureInv DEF RunClient
<1>3. CASE EnsureClient
  BY <1>3, EnsureInv DEF EnsureClient, EnsuresRunning
<1>4. CASE RunAgain
  BY <1>4, EnsureInv DEF RunAgain, EnsuresRunning
<1>5. CASE Publish
  BY <1>5 DEF Publish, Goto, Leaves
<1>6. CASE WaitForShutdown
  BY <1>6 DEF WaitForShutdown, Goto
<1>7. CASE CloseTraces
  BY <1>7 DEF CloseTraces, Goto, Leaves
<1>8. CASE JoinThreads
  BY <1>8 DEF JoinThreads, Returns
<1>9. CASE OuterCheck
  BY <1>9 DEF OuterCheck, Goto
<1>10. CASE Check
  BY <1>10 DEF Check, Goto
<1>11. CASE ReadOutput
  BY <1>11 DEF ReadOutput, Goto
<1>12. CASE PollExitCode
  <2>1. TypeOK'
    BY <1>12 DEF PollExitCode, Goto
  <2>2. PointInv' /\ ChildInv'
    BY <1>12 DEF PollExitCode, Goto
  <2>3. ProbeInv'
    BY <1>12 DEF PollExitCode, Goto
  <2> QED
    BY <2>1, <2>2, <2>3
<1>13. CASE Sleep
  BY <1>13 DEF Sleep, Goto
<1>14. CASE CheckAgain
  BY <1>14 DEF CheckAgain, Goto
<1>15. CASE StopFindsChild
  BY <1>15 DEF StopFindsChild, Goto
<1>16. CASE StopFindsNone
  <2>1. TypeOK'
    <3>1. shutdown' \in BOOLEAN /\ known' \in BOOLEAN /\ late' \in BOOLEAN
      BY <1>16 DEF StopFindsNone, Stopped, Goto, Returns
    <3>2. IF child' = "ended" THEN code' \in Codes ELSE code' = "none"
      BY <1>16 DEF StopFindsNone, Stopped, Goto, Returns
    <3>3. status' \in Codes \cup {"none", "raised"} /\ (status' # "none" <=> point' = "over")
      BY <1>16 DEF StopFindsNone, Stopped, Goto, Returns
    <3> QED
      BY <1>16, <3>1, <3>2, <3>3 DEF StopFindsNone, Stopped, Goto, Returns
  <2>2. PointInv' /\ ChildInv'
    BY <1>16 DEF StopFindsNone, Stopped, Goto, Returns
  <2>3. ProbeInv'
    BY <1>16 DEF StopFindsNone, Stopped, Goto, Returns
  <2> QED
    BY <2>1, <2>2, <2>3
<1>17. CASE StopWaited
  <2>1. TypeOK'
    <3>1. shutdown' \in BOOLEAN /\ known' \in BOOLEAN /\ late' \in BOOLEAN
      BY <1>17 DEF StopWaited
    <3>2. /\ code' \in Codes /\ child' = "ended"
          /\ lastExit' \in Codes \cup {"none"}
      BY <1>17 DEF StopWaited
    <3>3. status' \in Codes \cup {"none", "raised"} /\ (status' # "none" <=> point' = "over")
      BY <1>17, <3>2 DEF StopWaited, Stopped, Goto, Returns
    <3> QED
      BY <1>17, <3>1, <3>2, <3>3 DEF StopWaited, Stopped, Goto, Returns
  <2>2. PointInv' /\ ChildInv'
    BY <1>17 DEF StopWaited, Stopped, Goto, Returns
  <2>3. ProbeInv'
    BY <1>17 DEF StopWaited, Stopped, Goto, Returns
  <2> QED
    BY <2>1, <2>2, <2>3
<1>18. CASE StopTimesOut
  <2>1. TypeOK'
    <3>1. shutdown' \in BOOLEAN /\ known' \in BOOLEAN /\ late' \in BOOLEAN
      BY <1>18 DEF StopTimesOut, Goto, Leaves
    <3>2. IF child' = "ended" THEN code' \in Codes ELSE code' = "none"
      BY <1>18 DEF StopTimesOut, Goto, Leaves
    <3>3. status' \in Codes \cup {"none", "raised"} /\ (status' # "none" <=> point' = "over")
      BY <1>18 DEF StopTimesOut, Goto, Leaves
    <3> QED
      BY <1>18, <3>1, <3>2, <3>3 DEF StopTimesOut, Goto, Leaves
  <2>2. PointInv' /\ ChildInv'
    BY <1>18 DEF StopTimesOut, Goto, Leaves
  <2>3. ProbeInv'
    BY <1>18 DEF StopTimesOut, Goto, Leaves
  <2> QED
    BY <2>1, <2>2, <2>3
<1> QED
  BY <1>1, <1>2, <1>3, <1>4, <1>5, <1>6, <1>7, <1>8, <1>9, <1>10, <1>11, <1>12, <1>13, <1>14, <1>15, <1>16, <1>17, <1>18 DEF MainStep

(* So do the other threads of the server, signals, and children that end.  *)
LEMMA StepInv == Inv /\ [Next]_vars => Inv'
<1> SUFFICES ASSUME Inv, [Next]_vars PROVE Inv'
  OBVIOUS
<1>1. CASE MainStep
  BY <1>1, MainInv
<1> USE DEF Inv, TypeOK, PointInv, ChildInv, ProbeInv, NoChildOutlives, ProbeStatusTruthful
<1>2. CASE OtherThreadEnsures
  <2>1. TypeOK'
    <3>1. shutdown' \in BOOLEAN /\ known' \in BOOLEAN /\ late' \in BOOLEAN
      BY <1>2 DEF OtherThreadEnsures, NotesExit, Spawns, SpawnFails
    <3>2. IF child' = "ended" THEN code' \in Codes ELSE code' = "none"
      BY <1>2 DEF OtherThreadEnsures, NotesExit, Spawns, SpawnFails
    <3>3. status' \in Codes \cup {"none", "raised"} /\ (status' # "none" <=> point' = "over")
      BY <1>2 DEF OtherThreadEnsures, NotesExit, Spawns, SpawnFails
    <3>4. child' \in {"none", "up", "ended"} /\ lastExit' \in Codes \cup {"none"}
      BY <1>2 DEF OtherThreadEnsures, NotesExit, Spawns, SpawnFails
    <3>5. spawnFailures' \in Nat
      BY <1>2 DEF OtherThreadEnsures, NotesExit, Spawns, SpawnFails
    <3>6. UNCHANGED <<mode, point, raisedAt, shutdown, status, exits>>
      BY <1>2 DEF OtherThreadEnsures
    <3> QED
      BY <3>1, <3>2, <3>4, <3>5, <3>6
  <2>2. PointInv' /\ ChildInv'
    BY <1>2 DEF OtherThreadEnsures, NotesExit, Spawns, SpawnFails
  <2>3. ProbeInv'
    BY <1>2 DEF OtherThreadEnsures, NotesExit, Spawns, SpawnFails
  <2> QED
    BY <2>1, <2>2, <2>3
<1>3. CASE Signal
  BY <1>3 DEF Signal
<1>4. CASE ChildEnds
  BY <1>4 DEF ChildEnds
<1>5. CASE SignalledChildEnds
  BY <1>5 DEF SignalledChildEnds
<1>6. CASE UNCHANGED vars
  BY <1>6 DEF vars
<1> QED
  BY <1>1, <1>2, <1>3, <1>4, <1>5, <1>6 DEF Next, Over

LEMMA SpecInv == Spec => []Inv
BY InitInv, StepInv, PTL DEF Spec

(* The types, for every bound on exits and failed starts.                  *)
THEOREM TypeCorrect == Spec => []TypeOK
<1>1. Inv => TypeOK
  BY DEF Inv
<1> QED
  BY <1>1, SpecInv, PTL

(* A client never leaves an iperf running that SIGKILL could end, and the  *)
(* server only in the cases NoChildOutlives names.                         *)
THEOREM ChildrenEnd == Spec => []NoChildOutlives
<1>1. Inv => NoChildOutlives
  BY DEF Inv, ChildInv
<1> QED
  BY <1>1, SpecInv, PTL

(* The exit status of a probe is that of its iperf, but for an error the   *)
(* shutdown hides.                                                         *)
THEOREM ProbesReportTruth == Spec => []ProbeStatusTruthful
<1>1. Inv => ProbeStatusTruthful
  BY DEF Inv, ProbeInv
<1> QED
  BY <1>1, SpecInv, PTL
=============================================================================
