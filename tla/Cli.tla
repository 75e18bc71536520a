-------------------------------- MODULE Cli --------------------------------
(***************************************************************************)
(* The program around the iperf child (iperf_exporter/cli.py): main() runs *)
(* the exporter, or a client that runs continuously, once as a probe, or   *)
(* as a probe again and again, until SIGTERM or SIGINT sets the shutdown   *)
(* event; then the child is stopped and main() returns the exit status.    *)
(* The operator starts a probe as the container of a job, so this status   *)
(* is what Kubernetes takes for the result of the measurement.             *)
(*                                                                         *)
(* A client has one thread.  In server mode other threads call             *)
(* ensure_running too; here each such call is one step between those of    *)
(* the main thread (IPerfProcess interleaves their steps).  Left out: the  *)
(* arguments, what the loops log, and a signal that arrives before its     *)
(* handler is installed.                                                   *)
(***************************************************************************)
EXTENDS Naturals

CONSTANTS
    MaxExits,           \* bound: exits of children nobody asked for
    MaxSpawnFailures    \* bound: failed starts

ASSUME CliAssumption == MaxExits \in Nat /\ MaxSpawnFailures \in Nat

Modes == {"server", "continuous", "probe", "periodicProbe"}
Clients == Modes \ {"server"}

(* How a child ends: by itself with success or an error, or by a signal.   *)
OwnCodes == {"ok", "error"}
Codes == OwnCodes \cup {"terminated", "killed"}

VARIABLES
    mode,           \* the mode and execution mode main() was called with
    point,          \* where the main thread is
    raisedAt,       \* the point an exception left, or "nowhere"
    shutdown,       \* _shutdown_event
    known,          \* _process is set
    child,          \* the child: "none", "up" or "ended"
    code,           \* the exit code of the child that ended last, or "none"
    lastExit,       \* last_exit_code
    status,         \* what main() returned, or "none"
    late,           \* history: a child was started behind server.stop()
    exits,          \* history: exits nobody asked for
    spawnFailures   \* history: failed starts

childVars == <<known, child, code>>
historyVars == <<late, exits, spawnFailures>>
vars == <<mode, point, raisedAt, shutdown, childVars, lastExit, status, historyVars>>

ServerPoints == {"construct", "publish", "serve", "close", "join"}
LoopPoints == {"outer", "check", "ensure", "read", "poll", "sleep", "pause", "again", "rerun"}
StopPoints == {"stop", "wait_term", "wait_kill"}
Points == ServerPoints \cup {"run"} \cup LoopPoints \cup StopPoints \cup {"over"}

(* Types; and the program has a status exactly when it is over, and a      *)
(* child that ended has a code.                                            *)
TypeOK ==
    /\ mode \in Modes /\ point \in Points /\ raisedAt \in Points \cup {"nowhere"}
    /\ point \in ServerPoints => mode = "server"
    /\ point \in LoopPoints \cup {"run"} => mode \in Clients
    /\ shutdown \in BOOLEAN /\ known \in BOOLEAN /\ late \in BOOLEAN
    /\ child \in {"none", "up", "ended"}
    /\ IF child = "ended" THEN code \in Codes ELSE code = "none"
    /\ lastExit \in Codes \cup {"none"}
    /\ status \in Codes \cup {"none", "raised"}
    /\ status # "none" <=> point = "over"
    /\ exits \in Nat /\ spawnFailures \in Nat

Init ==
    /\ mode \in Modes
    /\ point = IF mode = "server" THEN "construct" ELSE "run"
    /\ raisedAt = "nowhere"
    /\ shutdown = FALSE
    /\ known = FALSE /\ child = "none" /\ code = "none"
    /\ lastExit = "none" /\ status = "none"
    /\ late = FALSE /\ exits = 0 /\ spawnFailures = 0

-----------------------------------------------------------------------------
Goto(p) == point' = p /\ UNCHANGED status

(* Mutation: the status of the exporter is always 0.                       *)
ReturnsOk(exitCode) ==
    /\ point' = "over"
    /\ status' = IF raisedAt # "nowhere" THEN "raised" ELSE "ok"

(* main() returns: the exit code of a probe's child, unless it is unknown. *)
Returns(exitCode) ==
    /\ point' = "over"
    /\ status' = IF raisedAt # "nowhere" THEN "raised"
                 ELSE IF mode = "probe" /\ exitCode # "none" THEN exitCode
                 ELSE "ok"

(* Mutation: an exception leaves no status.                                *)
LeavesQuietly == raisedAt' = point /\ point' = "over" /\ UNCHANGED status

(* An exception leaves main(): outside of the try, or in stop().           *)
Leaves == raisedAt' = point /\ point' = "over" /\ status' = "raised"

(***************************************************************************)
(* IPerf.ensure_running by whoever holds the lock.                         *)
(***************************************************************************)
FindsRunning == known /\ child = "up" /\ UNCHANGED <<childVars, spawnFailures>>

Spawns ==
    /\ ~(known /\ child = "up")
    /\ known' = TRUE /\ child' = "up" /\ code' = "none"
    /\ UNCHANGED spawnFailures

SpawnFails ==
    /\ ~(known /\ child = "up")
    /\ spawnFailures < MaxSpawnFailures
    /\ spawnFailures' = spawnFailures + 1
    /\ known' = FALSE
    /\ UNCHANGED <<child, code>>

(* ... which notes the exit code of the child it finds dead.               *)
NotesExit == lastExit' = IF known /\ child = "ended" THEN code ELSE lastExit

(* The main thread calls it at one point and goes on at another; if it     *)
(* raises, the loop is left for its finally clause, setup_exporter and     *)
(* setup_client are left altogether.                                       *)
EnsuresRunning(from, to) ==
    /\ point = from
    /\ NotesExit
    /\ \/ (FindsRunning \/ Spawns) /\ Goto(to) /\ UNCHANGED raisedAt
       \/ /\ SpawnFails
          /\ IF from \in {"construct", "run"} THEN Leaves
             ELSE raisedAt' = from /\ Goto("stop")
    /\ UNCHANGED <<mode, shutdown, late, exits>>

-----------------------------------------------------------------------------
(***************************************************************************)
(* The server: setup_exporter, run_exporter.                               *)
(***************************************************************************)
Construct == EnsuresRunning("construct", "publish")

(* registry.register collects once and start_http_server binds the port;   *)
(* either may raise, and nothing stops the child then.                     *)
Publish ==
    /\ point = "publish"
    /\ (Goto("serve") /\ UNCHANGED raisedAt) \/ Leaves
    /\ UNCHANGED <<mode, shutdown, childVars, lastExit, historyVars>>

WaitForShutdown ==
    /\ point = "serve"
    /\ shutdown
    /\ Goto("close")
    /\ UNCHANGED <<mode, raisedAt, shutdown, childVars, lastExit, historyVars>>

(* IPerfCollector.stop: path_trace.close() may raise TimeoutExpired, and   *)
(* server.stop() is not called.                                            *)
CloseTraces ==
    /\ point = "close"
    /\ (Goto("stop") /\ UNCHANGED raisedAt) \/ Leaves
    /\ UNCHANGED <<mode, shutdown, childVars, lastExit, historyVars>>

JoinThreads ==
    /\ point = "join"
    /\ Returns(lastExit)
    /\ UNCHANGED <<mode, raisedAt, shutdown, childVars, lastExit, historyVars>>

(* The watchdog and the scrapes, while stop() does not hold the lock.      *)
OtherThreadEnsures ==
    /\ mode = "server"
    /\ point \in {"publish", "serve", "close", "stop", "join"}
    /\ ~(known /\ child = "up")
    /\ NotesExit
    /\ Spawns \/ SpawnFails
    /\ late' = IF point = "join" /\ child' = "up" THEN TRUE ELSE late
    /\ UNCHANGED <<mode, point, raisedAt, shutdown, status, exits>>

-----------------------------------------------------------------------------
(***************************************************************************)
(* The client: setup_client, run_client and its three loops.               *)
(***************************************************************************)
FirstPoint == IF mode = "periodicProbe" THEN "outer" ELSE "check"

RunClient == EnsuresRunning("run", FirstPoint)

(* stream_client_periodically: while not _shutdown_event.is_set().         *)
OuterCheck ==
    /\ point = "outer"
    /\ Goto(IF shutdown THEN "stop" ELSE "check")
    /\ UNCHANGED <<mode, raisedAt, shutdown, childVars, lastExit, historyVars>>

(* Mutation: on shutdown the loop leaves the program.                      *)
CheckReturns ==
    /\ point = "check"
    /\ IF ~shutdown
       THEN Goto(IF mode = "continuous" THEN "ensure" ELSE "read")
       ELSE Returns("none")
    /\ UNCHANGED <<mode, raisedAt, shutdown, childVars, lastExit, historyVars>>

(* The condition of the other loops.  stream_client_once returns None on   *)
(* shutdown, and run_client stores that as the exit code of the probe.     *)
Check ==
    /\ point = "check"
    /\ IF ~shutdown
       THEN Goto(IF mode = "continuous" THEN "ensure" ELSE "read") /\ UNCHANGED lastExit
       ELSE /\ Goto(IF mode = "periodicProbe" THEN "pause" ELSE "stop")
            /\ lastExit' = IF mode = "probe" THEN "none" ELSE lastExit
    /\ UNCHANGED <<mode, raisedAt, shutdown, childVars, historyVars>>

EnsureClient == EnsuresRunning("ensure", "read")

ReadOutput ==
    /\ point = "read"
    /\ Goto(IF mode = "continuous" THEN "sleep" ELSE "poll")
    /\ UNCHANGED <<mode, raisedAt, shutdown, childVars, lastExit, historyVars>>

PollExitCode ==
    /\ point = "poll"
    /\ \/ /\ child = "up"
          /\ Goto("sleep")
          /\ UNCHANGED lastExit
       \/ /\ child = "ended"
          /\ lastExit' = code
          /\ Goto(IF mode = "probe" THEN "stop" ELSE "pause")
    /\ UNCHANGED <<mode, raisedAt, shutdown, childVars, historyVars>>

(* wait_seconds returns at the event or after its time.                    *)
Sleep ==
    /\ point \in {"sleep", "pause"}
    /\ Goto(IF point = "sleep" THEN "check" ELSE "again")
    /\ UNCHANGED <<mode, raisedAt, shutdown, childVars, lastExit, historyVars>>

(* Mutation: the period is over and no new run is started.                 *)
CheckAgainOnly ==
    /\ point = "again"
    /\ Goto(IF shutdown THEN "stop" ELSE "outer")
    /\ UNCHANGED <<mode, raisedAt, shutdown, childVars, lastExit, historyVars>>

CheckAgain ==
    /\ point = "again"
    /\ Goto(IF shutdown THEN "stop" ELSE "rerun")
    /\ UNCHANGED <<mode, raisedAt, shutdown, childVars, lastExit, historyVars>>

RunAgain == EnsuresRunning("rerun", "outer")

-----------------------------------------------------------------------------
(***************************************************************************)
(* IPerf.stop, in the finally clause of both.                              *)
(***************************************************************************)
StopFindsChild ==
    /\ point = "stop"
    /\ known /\ child = "up"
    /\ Goto("wait_term")
    /\ UNCHANGED <<mode, raisedAt, shutdown, childVars, lastExit, historyVars>>

Stopped(exitCode) == IF mode = "server" THEN Goto("join") ELSE Returns(exitCode)

(* Nothing to stop: last_exit_code stays what it was, although a child     *)
(* that ended may not have been polled.                                    *)
StopFindsNone ==
    /\ point = "stop"
    /\ ~(known /\ child = "up")
    /\ known' = FALSE
    /\ Stopped(lastExit)
    /\ UNCHANGED <<mode, raisedAt, shutdown, child, code, lastExit, historyVars>>

StopWaited ==
    /\ point \in {"wait_term", "wait_kill"}
    /\ child = "ended"
    /\ lastExit' = code
    /\ known' = FALSE
    /\ Stopped(code)
    /\ UNCHANGED <<mode, raisedAt, shutdown, child, code, historyVars>>

StopTimesOut ==
    /\ child = "up"
    /\ \/ /\ point = "wait_term"
          /\ Goto("wait_kill")
          /\ UNCHANGED <<raisedAt, known>>
       \/ /\ point = "wait_kill"
          /\ known' = FALSE
          /\ Leaves
    /\ UNCHANGED <<mode, shutdown, child, code, lastExit, historyVars>>

-----------------------------------------------------------------------------
(* The environment: signals, and children that end.                        *)
Signal ==
    /\ point # "over"
    /\ shutdown' = TRUE
    /\ UNCHANGED <<mode, point, raisedAt, childVars, lastExit, status, historyVars>>

ChildEnds ==
    /\ child = "up" /\ exits < MaxExits
    /\ exits' = exits + 1
    /\ child' = "ended" /\ code' \in OwnCodes
    /\ UNCHANGED <<mode, point, raisedAt, shutdown, known, lastExit, status, late, spawnFailures>>

SignalledChildEnds ==
    /\ child = "up"
    /\ child' = "ended"
    /\ \/ point = "wait_term" /\ code' \in {"ok", "terminated"}
       \/ point = "wait_kill" /\ code' = "killed"
    /\ UNCHANGED <<mode, point, raisedAt, shutdown, known, lastExit, status, historyVars>>

Over == point = "over" /\ UNCHANGED vars

MainStep ==
    \/ Construct \/ Publish \/ WaitForShutdown \/ CloseTraces \/ JoinThreads
    \/ RunClient \/ OuterCheck \/ Check \/ EnsureClient \/ ReadOutput \/ PollExitCode
    \/ Sleep \/ CheckAgain \/ RunAgain
    \/ StopFindsChild \/ StopFindsNone \/ StopWaited \/ StopTimesOut

Next ==
    \/ MainStep \/ OtherThreadEnsures
    \/ Signal \/ ChildEnds \/ SignalledChildEnds
    \/ Over

Spec == Init /\ [][Next]_vars

(* The main thread goes on; nothing makes a signal come or a child end.    *)
FairSpec == Spec /\ WF_vars(MainStep)

-----------------------------------------------------------------------------
(***************************************************************************)
(* Properties                                                              *)
(***************************************************************************)
(* No iperf outlives the program, whenever the signal comes and whatever   *)
(* fails, except: in server mode the setup or path_trace.close() raised,   *)
(* or another thread started a child behind stop(); and a child that       *)
(* SIGKILL does not end.                                                   *)
NoChildOutlives ==
    point = "over" /\ child = "up" =>
        \/ mode = "server" /\ (raisedAt \in {"publish", "close"} \/ late)
        \/ raisedAt = "wait_kill"

(* The status of a probe is the code its iperf ended with, whoever ended   *)
(* it, and the iperf did end: whenever the signal comes, no status is of   *)
(* an earlier poll or of no child at all.  The one exception: a shutdown   *)
(* hides the error of an iperf that had ended by itself and was not polled *)
(* yet.  An iperf that answers SIGTERM with 0 counts as a success.         *)
ProbeStatusTruthful ==
    point = "over" /\ mode = "probe" /\ status # "raised" =>
        /\ child = "ended"
        /\ status # code => status = "ok" /\ code = "error" /\ shutdown

(* A client whose iperf ended starts it again, after an error as well as   *)
(* after a success, until it is told to stop or cannot start one.          *)
ClientComesBack ==
    mode \in {"continuous", "periodicProbe"} /\ child = "ended"
        ~> (child = "up" \/ shutdown \/ point = "over")
=============================================================================
