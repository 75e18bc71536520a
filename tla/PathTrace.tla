----------------------------- MODULE PathTrace -----------------------------
(***************************************************************************)
(* The background path traces of the exporter (iperf_exporter/             *)
(* path_trace.py, class PathTraceCollector).                               *)
(*                                                                         *)
(* A scrape calls collect() with the peers that are retained: under _lock  *)
(* it harvests the futures that are done, forgets the pairs of addresses   *)
(* nobody needs, and submits a trace for every pair that has no fresh      *)
(* result and none on the way.  A single worker thread runs the traces one *)
(* after the other; each runs a tracepath process, with a timeout.  At     *)
(* shutdown the main thread calls close() while the worker and scrapes go  *)
(* on.  _process_lock guards _active_process, the closed flag is an event  *)
(* read without a lock.                                                    *)
(*                                                                         *)
(* Left out: hops and the text of the output, the reason of a failure      *)
(* (_error_counts is the sum over its reasons), ports, durations, log-once *)
(* flags, and a signal the kernel refuses.  The clock is the action        *)
(* Elapse, after which a result is due for a refresh.                      *)
(***************************************************************************)
EXTENDS Naturals, FiniteSets, Sequences, SequencesExt

CONSTANTS
    Pairs,      \* pairs of local and peer address
    Scrapers,   \* HTTP threads
    MaxTraces   \* bound: traces submitted

(* A scrape is given finitely many peers, for the table of them is capped.  *)
ASSUME PathTraceAssumption == MaxTraces \in Nat /\ IsFiniteSet(Pairs)

(* How a trace ends: recorded as a success, recorded as a failure, or with *)
(* an exception that the worker does not handle.                           *)
Outcomes == {"success", "failure", "exception"}

VARIABLES
    cache,          \* _cache: per pair, "fresh" or "due" result
    inFlight,       \* _in_flight: per pair, the state of its future
    queue,          \* the work queue of the executor
    shutdown,       \* the executor was shut down
    closed,         \* the event _closed
    worker,         \* the step of the worker thread
    job,            \* the pair the worker traces
    process,        \* the last tracepath: "none" (ended), "running", "stopping"
    active,         \* _active_process is set
    processLocked,  \* the main thread holds _process_lock
    errors,         \* _error_counts, all reasons
    pc,             \* where each scrape is
    wanted,         \* per scrape, the pairs of the peers it was given
    main,           \* the step of close() in the main thread
    submitted,      \* history: traces submitted
    succeeded       \* history: traces recorded as a success

executorVars == <<inFlight, queue, shutdown>>
workerVars == <<worker, job, process, active>>
historyVars == <<submitted, succeeded>>
vars == <<cache, executorVars, closed, workerVars, processLocked, errors, pc,
          wanted, main, historyVars>>

FutureStates == {"queued", "running", "done", "failed", "cancelled"}
Finished == {"done", "failed", "cancelled"}

(* The steps of the worker at which _active_process is set.                *)
Tracing == {"trace", "expired", "clear", "clear_expired"}

(* Types; and _active_process is set exactly while a trace runs.           *)
TypeOK ==
    /\ DOMAIN cache \subseteq Pairs
    /\ \A p \in DOMAIN cache : cache[p] \in {"fresh", "due"}
    /\ DOMAIN inFlight \subseteq Pairs
    /\ \A p \in DOMAIN inFlight : inFlight[p] \in FutureStates
    /\ queue \in Seq(Pairs)
    /\ shutdown \in BOOLEAN /\ closed \in BOOLEAN /\ processLocked \in BOOLEAN
    /\ worker \in {"idle", "start"} \cup Tracing \cup Outcomes
    /\ IF worker = "idle" THEN job = "none" ELSE job \in Pairs
    /\ process \in {"none", "running", "stopping"}
    /\ active = (worker \in Tracing)
    /\ errors \in Nat
    /\ pc \in [Scrapers -> {"idle", "collect"}]
    /\ wanted \in [Scrapers -> SUBSET Pairs]
    /\ main \in {"serving", "stop_active", "wait_active", "shutdown", "join", "closed", "raised"}
    /\ submitted \in Nat /\ succeeded \in Nat

Empty == [x \in {} |-> x]

Init ==
    /\ cache = Empty
    /\ inFlight = Empty /\ queue = <<>> /\ shutdown = FALSE
    /\ closed = FALSE
    /\ worker = "idle" /\ job = "none" /\ process = "none" /\ active = FALSE
    /\ processLocked = FALSE
    /\ errors = 0
    /\ pc = [s \in Scrapers |-> "idle"]
    /\ wanted = [s \in Scrapers |-> {}]
    /\ main = "serving"
    /\ submitted = 0 /\ succeeded = 0

-----------------------------------------------------------------------------
(***************************************************************************)
(* collect(), in a scrape.                                                 *)
(***************************************************************************)

(* The closed flag is read before the lock is taken, not again under it.   *)
CollectNothing(s) == pc[s] = "idle" /\ closed /\ UNCHANGED vars

BeginCollect(s) ==
    /\ pc[s] = "idle"
    /\ ~closed
    /\ \E pairs \in SUBSET Pairs : wanted' = [wanted EXCEPT ![s] = pairs]
    /\ pc' = [pc EXCEPT ![s] = "collect"]
    /\ UNCHANGED <<cache, executorVars, closed, workerVars, processLocked, errors,
                   main, historyVars>>

(* _store_completed_traces: a result is cached, an exception is counted.   *)
Harvested == {p \in DOMAIN inFlight : inFlight[p] \in Finished}
Raising == {p \in Harvested : inFlight[p] # "done"}
Completed == Harvested \ Raising

(* The cache of the pairs this scrape needs.                               *)
NewCache(s) ==
    [p \in (DOMAIN cache \cup Completed) \cap wanted[s] |->
        IF p \in Completed THEN "fresh" ELSE cache[p]]

(* Mutation: a pair whose trace is on the way is submitted again.          *)
DueAgain(s) ==
    {p \in wanted[s] : p \notin DOMAIN NewCache(s) \/ NewCache(s)[p] = "due"}

(* The pairs that need a trace: no fresh result, none on the way.          *)
Due(s) ==
    {p \in wanted[s] : /\ p \notin DOMAIN inFlight \ Harvested
                       /\ p \notin DOMAIN NewCache(s) \/ NewCache(s)[p] = "due"}

(* Mutation: a worker exception is not counted.                            *)
HarvestedUncounted == errors
HarvestedCounts == errors + Cardinality(Raising)

(* After a shutdown, submit() raises and the scrape fails, what was        *)
(* harvested being stored.                                                 *)
Collect(s) ==
    /\ pc[s] = "collect"
    /\ pc' = [pc EXCEPT ![s] = "idle"]
    /\ wanted' = [wanted EXCEPT ![s] = {}]
    /\ cache' = NewCache(s)
    /\ errors' = HarvestedCounts
    /\ LET waiting == DOMAIN inFlight \ Harvested
           new == IF shutdown THEN {} ELSE Due(s)
       IN  /\ submitted + Cardinality(new) <= MaxTraces
           /\ submitted' = submitted + Cardinality(new)
           /\ inFlight' = [p \in waiting \cup new |->
                              IF p \in new THEN "queued" ELSE inFlight[p]]
           /\ \E order \in SetToSeqs(new) : queue' = queue \o order
    /\ UNCHANGED <<shutdown, closed, workerVars, processLocked, main, succeeded>>

Elapse(p) ==
    /\ p \in DOMAIN cache
    /\ cache' = [cache EXCEPT ![p] = "due"]
    /\ UNCHANGED <<executorVars, closed, workerVars, processLocked, errors, pc,
                   wanted, main, historyVars>>

-----------------------------------------------------------------------------
(***************************************************************************)
(* The worker thread: _collect_for_target and _run_trace_command.          *)
(***************************************************************************)
TakeJob ==
    /\ worker = "idle"
    /\ queue # <<>>
    /\ job' = Head(queue)
    /\ queue' = Tail(queue)
    /\ inFlight' = [inFlight EXCEPT ![Head(queue)] = "running"]
    /\ worker' = "start"
    /\ UNCHANGED <<cache, shutdown, closed, process, active, processLocked, errors,
                   pc, wanted, main, historyVars>>

(* Mutation: the process is started without a look at the closed flag.     *)
StartAnyway == TRUE
MayStart == ~closed

(* Under _process_lock: a closed collector starts nothing, and the empty   *)
(* output of a command that "failed" is recorded; Popen may raise          *)
(* FileNotFoundError, a failure, or another OSError that nobody handles.   *)
(* A killed process that was given up before is not followed any more.     *)
StartProcess ==
    /\ worker = "start"
    /\ ~processLocked
    /\ \/ /\ MayStart
          /\ process' = "running"
          /\ active' = TRUE
          /\ worker' = "trace"
       \/ /\ worker' \in IF MayStart THEN {"failure", "exception"} ELSE {"failure"}
          /\ UNCHANGED <<process, active>>
    /\ UNCHANGED <<cache, executorVars, closed, job, processLocked, errors, pc, wanted,
                   main, historyVars>>

(* The process ends, by itself or because it was told to.                  *)
ProcessEnds ==
    /\ process # "none"
    /\ process' = "none"
    /\ UNCHANGED <<cache, executorVars, closed, worker, job, active, processLocked,
                   errors, pc, wanted, main, historyVars>>

(* communicate() returns.                                                  *)
Communicated ==
    /\ worker = "trace"
    /\ process = "none"
    /\ worker' = "clear"
    /\ UNCHANGED <<cache, executorVars, closed, job, process, active, processLocked,
                   errors, pc, wanted, main, historyVars>>

(* Mutation: the process is not stopped when its time is up.               *)
TimesOutOnly ==
    /\ worker = "trace"
    /\ worker' = "expired"
    /\ UNCHANGED <<cache, executorVars, closed, job, process, active, processLocked,
                   errors, pc, wanted, main, historyVars>>

(* communicate() times out; _stop_active_process stops the process, unless *)
(* it just ended.                                                          *)
TimesOut ==
    /\ worker = "trace"
    /\ worker' = "expired"
    /\ process' = IF process = "running" THEN "stopping" ELSE process
    /\ UNCHANGED <<cache, executorVars, closed, job, active, processLocked, errors, pc,
                   wanted, main, historyVars>>

(* The worker waited for the end of the process it stopped, or the wait    *)
(* after SIGKILL timed out too: a TimeoutExpired either way.               *)
ExpiredStopped ==
    /\ worker = "expired"
    /\ process \in {"none", "stopping"}
    /\ worker' = "clear_expired"
    /\ UNCHANGED <<cache, executorVars, closed, job, process, active, processLocked,
                   errors, pc, wanted, main, historyVars>>

(* Mutation: the finally clause is missing.                                *)
ClearActiveNot ==
    /\ worker \in {"clear", "clear_expired"}
    /\ worker' \in IF worker = "clear" THEN {"success", "failure"} ELSE {"failure"}
    /\ UNCHANGED <<cache, executorVars, closed, job, process, active, processLocked,
                   errors, pc, wanted, main, historyVars>>

(* The finally clause, under _process_lock, and what becomes of the output *)
(* (a trace that was cut short may have reached its peer before).          *)
ClearActive ==
    /\ worker \in {"clear", "clear_expired"}
    /\ ~processLocked
    /\ active' = FALSE
    /\ worker' \in IF worker = "clear" THEN {"success", "failure"} ELSE {"failure"}
    /\ UNCHANGED <<cache, executorVars, closed, job, process, processLocked, errors, pc,
                   wanted, main, historyVars>>

(* _record_trace_failure or _record_trace_success under _lock; then the    *)
(* future is done, or has the exception (no step reads both in between).   *)
Record ==
    /\ worker \in Outcomes
    /\ errors' = errors + (IF worker = "failure" THEN 1 ELSE 0)
    /\ succeeded' = succeeded + (IF worker = "success" THEN 1 ELSE 0)
    /\ inFlight' = [inFlight EXCEPT ![job] = IF worker = "exception" THEN "failed" ELSE "done"]
    /\ worker' = "idle"
    /\ job' = "none"
    /\ UNCHANGED <<cache, queue, shutdown, closed, process, active, processLocked, pc,
                   wanted, main, submitted>>

-----------------------------------------------------------------------------
(***************************************************************************)
(* close(), in the main thread.                                            *)
(***************************************************************************)
Close ==
    /\ main = "serving"
    /\ closed' = TRUE
    /\ main' = "stop_active"
    /\ UNCHANGED <<cache, executorVars, workerVars, processLocked, errors, pc,
                   wanted, historyVars>>

(* Mutation: the lock is held while the process is stopped and joined.     *)
ReadActiveKeepsLock ==
    /\ main = "stop_active"
    /\ ~processLocked
    /\ processLocked' = TRUE
    /\ main' = IF active THEN "wait_active" ELSE "shutdown"
    /\ UNCHANGED <<cache, executorVars, closed, workerVars, errors, pc, wanted,
                   historyVars>>

(* _active_process is read under the lock; with none there is nothing to   *)
(* stop.                                                                   *)
ReadActive ==
    /\ main = "stop_active"
    /\ ~processLocked
    /\ main' = IF active THEN "wait_active" ELSE "shutdown"
    /\ UNCHANGED <<cache, executorVars, closed, workerVars, processLocked, errors,
                   pc, wanted, historyVars>>

(* _stop_active_process: SIGTERM, later SIGKILL, unless it has ended.      *)
StopActive ==
    /\ main = "wait_active"
    /\ process = "running"
    /\ process' = "stopping"
    /\ UNCHANGED <<cache, executorVars, closed, worker, job, active, processLocked,
                   errors, pc, wanted, main, historyVars>>

StopWaited ==
    /\ main = "wait_active"
    /\ process = "none"
    /\ main' = "shutdown"
    /\ UNCHANGED <<cache, executorVars, closed, workerVars, processLocked, errors,
                   pc, wanted, historyVars>>

(* The wait after SIGKILL times out too: TimeoutExpired leaves close() and *)
(* IPerfCollector.stop, before the executor or the server is stopped.      *)
StopRaises ==
    /\ main = "wait_active"
    /\ process = "stopping"
    /\ main' = "raised"
    /\ UNCHANGED <<cache, executorVars, closed, workerVars, processLocked, errors,
                   pc, wanted, historyVars>>

(* executor.shutdown(wait=True, cancel_futures=True).                      *)
Shutdown ==
    /\ main = "shutdown"
    /\ shutdown' = TRUE
    /\ inFlight' = [p \in DOMAIN inFlight |->
                        IF inFlight[p] = "queued" THEN "cancelled" ELSE inFlight[p]]
    /\ queue' = <<>>
    /\ main' = "join"
    /\ UNCHANGED <<cache, closed, workerVars, processLocked, errors, pc, wanted,
                   submitted, succeeded>>

JoinWorker ==
    /\ main = "join"
    /\ worker = "idle"
    /\ main' = "closed"
    /\ UNCHANGED <<cache, executorVars, closed, workerVars, processLocked, errors,
                   pc, wanted, historyVars>>

-----------------------------------------------------------------------------
Worker ==
    TakeJob \/ StartProcess \/ Communicated \/ TimesOut \/ ExpiredStopped \/ ClearActive
    \/ Record
Closing == ReadActive \/ StopActive \/ StopWaited \/ StopRaises \/ Shutdown \/ JoinWorker

(* The program goes on to stop the iperf server and to end.                *)
Ended == main \in {"closed", "raised"} /\ UNCHANGED vars

Next ==
    \/ \E s \in Scrapers : CollectNothing(s) \/ BeginCollect(s) \/ Collect(s)
    \/ \E p \in Pairs : Elapse(p)
    \/ Worker \/ ProcessEnds
    \/ Close \/ Closing
    \/ Ended

Spec == Init /\ [][Next]_vars

(* The worker and close() make progress.  Nothing is assumed of tracepath: *)
(* it may hang, even once it was killed.                                   *)
FairSpec == Spec /\ WF_vars(Worker) /\ WF_vars(Closing)

-----------------------------------------------------------------------------
(***************************************************************************)
(* Properties                                                              *)
(***************************************************************************)
Queued == {p \in DOMAIN inFlight : inFlight[p] = "queued"}
Running == {p \in DOMAIN inFlight : inFlight[p] = "running"}

(* close() leaves the worker nothing to start: after it looked for an      *)
(* active process and stopped it, or found none, no tracepath runs that    *)
(* was not told to end, and none is ever started again, wherever the       *)
(* worker and the scrapes were when it was called.  Shutting the executor  *)
(* down never waits for a whole trace.                                     *)
NoTraceBehindClose ==
    /\ main \in {"shutdown", "join", "closed"} => process # "running"
    /\ main \in {"join", "closed"} => queue = <<>>

(* A pair is traced once at a time: the queue and the worker hold exactly  *)
(* the pairs in flight that have no result, each of them once.             *)
OneTracePerPair ==
    /\ IsInjective(queue)
    /\ ToSet(queue) = Queued
    /\ Running = (IF worker = "idle" THEN {} ELSE {job})

(* Every trace that was submitted is accounted for once: a success, an     *)
(* error, or still to come, an exception or a cancellation becoming an     *)
(* error when a scrape harvests it.                                        *)
EveryTraceCounted ==
    submitted = succeeded + errors + Cardinality(Queued) + Cardinality(Running)
                + Cardinality(Raising)

(* A trace that was submitted is over at some time, though tracepath may   *)
(* hang: its timeout frees the single worker for the next pair.            *)
TracesFinish ==
    \A p \in Pairs :
        (p \in DOMAIN inFlight /\ inFlight[p] \notin Finished)
            ~> (p \in DOMAIN inFlight => inFlight[p] \in Finished)

(* close() returns, or raises: no deadlock with the worker it joins.       *)
CloseReturns == closed ~> main \in {"closed", "raised"}
=============================================================================
