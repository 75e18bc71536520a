# A TLA+ model of iperf_exporter and its operator

This directory holds TLA+ specifications of the program in `src/`: the
Prometheus exporter that runs `iperf` and turns its output into metrics
(`src/iperf_exporter`), and the Kubernetes operator that deploys pairs of
exporters (`src/iperf_operator`). TLC checks the specifications on small
instances, and TLAPS checks proofs for every value of their constants.
`PROJECT.json` is the index: components, runs, mutants, the source lines of
every definition, findings, hazards and theorems.

    tlc -workers 2 -config table.cfg MCPeerTable     # a run
    tlapm PeerTable_proofs.tla                       # a proof

Contents: [the system](#the-system), [plan](#plan), [modules](#modules),
[runs](#runs), [fairness](#fairness), [proofs](#proofs),
[findings](#findings), [what is not modelled](#what-is-not-modelled).

## The system

### The exporter

One Python process per measured endpoint. Its threads in server mode:

| Thread | Code | What it touches |
| --- | --- | --- |
| main | `cli.run_exporter`, `IPerfServer.run`, `stop` | starts the child and the threads, waits for SIGTERM, stops everything |
| watchdog | `IPerfServer.watch_process` | restarts a dead child every `watchdog_interval` |
| cleanup | `periodically_remove_dead_clients` | ages and evicts peers every `cleanup_interval` |
| one per scrape | `IPerfCollector.collect` | restarts a dead child, reads its output, walks the peers |
| trace worker | `PathTraceCollector` executor | runs `tracepath`, one pair of addresses at a time |

| Component | State | Operations | What makes it correct |
| --- | --- | --- | --- |
| Child supervision (`IPerf`, `IPerfServer`) | `_process`, `restart_count`, error counter, `_process_lock`, `_stop_cleanup` | `ensure_running`, `run`, `stop`, `watch_process` | One child at a time, none forgotten, every exit counted once, shutdown ends the child and itself |
| Peer table (`IPerfServer.output`, `tcp_histograms`) | an entry with a TTL per peer id, histograms, seven counters | `parse_output` per line, a cleanup round | Every connection gets one outcome; entries leave after their TTL, neither early nor late; histograms follow their peer |
| Server mode end to end | the pipe, the batch a scrape read, the connections iperf serves | emission, scrape, cleanup round, restart | An active stream stays in the table; reports reach the entry of their connection; a blocked child is read from |
| Path traces (`PathTraceCollector`) | cache, futures in flight, work queue, active process, closed flag | `collect`, the worker's job, `close` | A pair is traced once at a time, each trace is counted, traces end, nothing starts behind `close`, `close` returns |
| Collector (`IPerfCollector`) | a failure counter, a duration and a success time per component, shared by all requests without a lock | a scrape: three components and the walks between them | Failures show in their counter, a request exports its own results only |
| Socket statistics (`SocketStatsCollector`) | failure counts, the time of the last success | one `ss` call per scrape, and its parser | Rows are paired with their details, connections with their sockets |
| Program (`cli.main`, `IPerfClient`) | the shutdown event, one child, the exit status | server; continuous, one-shot and periodic client loops | A shutdown ends the loop and its child, the status of a probe is that of its `iperf` |

Components meet in these places: `collect` calls `ensure_running`, then
`read_output`, and then walks the table and gives its peers to
`PathTraceCollector.collect`; the table is shared with the cleanup thread
under `_lock`, except for the walk, which takes no lock; the child is shared
under `_process_lock`; at shutdown `IPerfCollector.stop` closes the traces
and then stops the server. Prometheus may scrape while a scrape still runs.

### The operator

A kopf operator with four custom resources. A `RemoteCluster` tells how to reach
another cluster. A `LinkMeasurement` refers to a `MeasurementProfile`
and owns one `MeasurementSession` per network mode and direction. A session
owns a server (services and a `StatefulSet`) in one cluster and a client
(a `Deployment`, or for a probe a `Job` per generation) in the same or another
cluster.

| Component | State | Operations | What makes it correct |
| --- | --- | --- | --- |
| Sessions (`_reconcile_session`, `_delete_session_workloads`) | the workloads in two clusters | change handler, delete handler, 15 s timer | Workloads converge to the spec, a probe runs once per generation, deletion removes what exists and ends |
| Link measurements (`_reconcile_measurement`) | the sessions it owns | change handler: load the profile, resolve the nodes, apply, list and delete sessions | The sessions are those of the current spec and profile |
| Profiles (`reconcile_profile`) | trigger annotations of measurements | change handler: list and patch measurements | A change of a profile reaches its measurements |
| Remote clusters | status | change handler: reports whether the cluster can be reached | Handlers find the cluster when they need it |
| Metrics (`OperatorMetrics`) | phases, pending finalizers, observed jobs | set, remove, observe | Gauges forget what is gone; a job is counted once |
| Specs and names (`specs.py`) | none | expansion, normalisation, names | Names are stable and distinct |

kopf serialises the change and delete handlers of an object, but runs its timer
next to them. Calls to an API server may fail between any two steps of a pass;
kopf then starts the handler again. Owner references clean up local objects
only.

### What is hard here

`PROJECT.json` lists each hazard with its line. The themes:

- **Interleaving.** Three kinds of threads find the same dead child; a counter
  is compared outside the lock that protects it; a dict is walked without one;
  requests share counters; two scrapes ask for the same trace; the operator's
  timer overlaps a change; a profile is saved while a measurement is handled.
- **Stale state.** A closed flag read before the lock, a peer id that iperf uses
  again, a mode that the timer read before the session changed, a generation
  that the deletion itself raised, a session that is applied while it is deleted.
- **Timeouts.** Children and `tracepath` ignore SIGTERM, hang, or end at the
  moment their time is up; TTLs count cleanup rounds but are refreshed by scrapes.
- **Partial failure.** `Popen` raises after the old child is given up, a parser
  raises after a success was noted, a handler fails or the operator restarts
  halfway through its calls, the port is taken after the child was started.
- **Limits.** The pipe fills up between scrapes, a TTL of 0.

## Plan

In order of importance. Steps 1 to 10 are done.

1. `IPerfProcess`: supervision of the child, with proofs.
2. `PeerTable`: the table, with proofs.
3. `IPerfServer`: composes `PeerTable` (INSTANCE) with the pipe, the scrapes
   and the cleanup thread; `PeerWalk`: the table and a request that walks it.
4. `PathTrace`: background traces and their shutdown.
5. `SessionOperator`: one session, its handlers and its timer.
6. Abstract specifications, each with its refinement checked and proved:
   `Supervisor`, which `IPerfProcess` implements, and `ConnectionLedger`, which
   `PeerTable` implements.
7. `Cli`: the program around the child in all its modes, with proofs.
8. `SocketStats`, `Scrape`: pairing of `ss` rows as operators against a reference,
   and requests that run it at the same time.
9. `Specs`, `MeasurementOperator`: the expansion of a measurement as operators
   against a reference, and the handlers of measurements and profiles.
10. Proofs of the safety properties of `SessionOperator`, `PathTrace`, `IPerfServer`,
    `Scrape` and `MeasurementOperator`.
11. `OperatorMetrics`: phases, finalizers and observed jobs over a restart, and
    the readiness and phases that a session's status reports.
12. Compositions: `MeasurementOperator` over `SessionOperator`, in place of the
    single step by which a deleted session leaves.

## Modules

Each `MC*.tla` gives constants their values; `MCScrape` and `MCMeasurement` also
assume, for TLC to evaluate, that the pure operators agree with their references
on every small input. Mutated forms of definitions
(comment "Mutation:") stand before the definition they change; they are not
part of the specification. Each shows that a property fails when the code had
that bug.

**IPerfProcess** (`iperf.py` 211-291, 670-723; `cli.py` 364-381, 450-472).
`pc` has a value per thread. `ensure_running` is split where another thread can
come between: reading the restart count, acquiring `_process_lock` and polling,
spawning, comparing, storing. A child is a number, so that one that nobody
refers to can be told from the current one. The operating system ends children,
fails spawns and ends killed children at any moment. `stop` is split at its
waits: SIGTERM, SIGKILL, a second wait that may raise.

**PeerTable** (`iperf.py` 294-342, 414-446, 604-649, 725-763, 772-776,
858-1022). A line of output is one action, as `parse_output` handles it under
`_lock`; so is a cleanup round. Lines are kinds with a peer id: a new connection,
a report, a report that fails halfway, a histogram, one that is rejected.
`connection` numbers tell a connection from a later one with the same peer id.
The history `quiet` counts the rounds for the TTL properties.

**PeerWalk** (`collector.py` 200-226, 1087-1148) EXTENDS `PeerTable` with a request that
builds a family from the table while lines of other requests and cleanup rounds come
in between. `dict` is the dictionary the loop holds: a new peer id is inserted into
it as long as it is still `server.output`; a round installs another one, and the walk
goes on over the old. The iterator compares sizes and raises when they differ.

**Supervisor** and **ConnectionLedger** say in a few lines what the two modules
above promise: one child at a time, started only after the last one ended, each
end counted at most once, and let go of only when it does not run; and
connections that leave the state of waiting once, by a success, by a timeout or
by being overwritten, with counters that follow. `IPerfProcess!Supervised` maps
`process`, the children that run and were not killed, and `restartCount` to the
former; `PeerTable!OutcomesAsLedger` maps the entries without a report
(`Unreported`) and the counters to the latter.

**IPerfServer** composes `PeerTable` with what feeds it: iperf prints lines into a
pipe of `PipeSize` lines and blocks when it is full; a scrape takes all lines at
once and parses them one by one with `_process_lock` held, rounds in between (the
walk over the table, which changes nothing, is in `PeerWalk`). Restarts close the pipe and keep the table.
Time is cleanup rounds: a scrape finishes at least every `ScrapeGap` rounds, and
iperf prints one report per connection and round (the defaults of both intervals
are a second).

**PathTrace** (`path_trace.py`). `collect` is one action under `_lock`; the read
of the closed flag before it is another. The worker's steps are those at which
`close` can come between: start under `_process_lock`, communicate, time out,
stop, clear, record. `close` sets the flag, reads the active process, stops it
(which may raise), shuts the executor down and joins.

**Cli** (`cli.py` 296-472; `iperf.py` 211-290, 525-536). One main thread, in one of
four modes: a server, or a client that is continuous, a probe or periodic. Each
check of the shutdown event, each wait and each call on the child is an action of
its own, so that the signal and the child's end come in between. `EnsuresRunning`
is `ensure_running` as the main thread meets it: the child runs, is started, or
`Popen` raises. `status` is what `main` returned; `raisedAt` is where an exception
left. In server mode the other threads' `ensure_running` is one action
(`IPerfProcess` splits it).

**SocketStats** (`socket_stats.py`, `collector.py` 152-181). The loop of
`_parse_output` as a fold over lines that are rows, text or blank, `_normalize_address`
as what it does to the spellings of a host, and `_find_socket_snapshot` with its
wildcards. `ParseCorrect` is the reference: the rows of the exporter's port, the
last one of every key, each with the text line just below.

**Scrape** (`collector.py` 1038-1175, `socket_stats.py` 195-237). Requests run
`collect` at the same time, component by component, and visit the peers one by
one. `_collect_component` and `_record_failure` are `CountFailure`: the first
increment of a `Counter`'s key is a read and a store between which another
request may come, later ones are one step. An exception of the runner that nobody
handles counts for the component `socket`. Of the dates only those of the component
`socket` and of `ss` are kept: one replaces the other in the health family. Peers
are inserted by any request, and a walk over a dict that grew raises. `happened`,
`goodRuns` and `reported` remember what the counters and dates ought to say,
`raced` which counters two requests were about to create.

**SessionOperator** (`controller.py`, from `_apply_service` on). Two threads, the
handler and the timer, go through a pass with one action per API call; `body` is
the generation of the spec they work on, `jobName` the one the job is named
after. kopf (what starts, retries, releases the finalizer), the API server
(generations, deletion, garbage collection, readiness) and the user are external.
`overtaken` and `late` remember where a pass met a change of the spec or a deletion;
`troubles` counts calls that raise and restarts, which share a bound.

**Specs** (`specs.py` 10-14, 178-199, 240-341). `normalize_execution` and
`expand_measurement_sessions` as operators: `Valid` gathers the errors they raise,
`Expand` is the list of sessions, `SessionName` a triple in place of a slug.
`ExpandCorrect` is the reference. `Merged` is what a JSON merge patch makes of an
existing session.

**MeasurementOperator** (`controller.py` 186-205, 310-321, 442-540, 582-628, 749-859)
EXTENDS `Specs`. `worker` is the handler of a measurement, one action per API
call, with the body it was started with and the version of the profile it loaded;
`noter` is the handler of a profile. `handled` is kopf's memory of the body it
finished with: a handler is due when the body differs or the operator restarted.
A measurement is an object, so that one that was deleted can be told from one
created with its name. Sessions are live or leaving (they have a finalizer) and
are patched in either state. The user, the end of a leaving session and the
operator's restart are external, and so is whether an endpoint can be resolved: a
`RemoteCluster`, its kubeconfig or the `InternalIP` of a node comes and goes
(`resolvable`), and a pass that misses one gives up for good. `disturbed` (a namesake's pass or a leaving
session was in the way) and `reverted` (the measurement has a body again that was
handled, or is being handled, and no pass began since) remember the exceptions named below.

## Runs

| Run | Instance | What it shows |
| --- | --- | --- |
| `process` | 1 scrape, watchdog, main; 2 exits, 1 failed spawn | no child forgotten, exits counted once, threads implement `Supervisor`; a dead child comes back while the watchdog lives; `stop` returns |
| `process_watchdog` | the same, 1 exit | a finding, below |
| `table` | 2 peers, 1 histogram name, TCP, TTL 2, 7 lines, 1 walk at a time | connections add up, counters implement `ConnectionLedger`, eviction is neither early nor late, histograms follow peers, the table empties; an exported family has the peers of one instant |
| `server` | 2 peers, 1 scrape, 2 connections, pipe of 3, gap 1, TTL 4, 6 lines | active streams stay, reports reach their connection, a blocked child resumes |
| `trace` | 2 scrapes, 2 pairs, 3 traces | everything said of `PathTrace` |
| `scrape` | 2 requests (symmetric), 1 peer id, 2 connections announced under it in any order, TCP, 2 failures, 2 seconds, 3 outputs of `ss` | failures are counted, exactly unless two requests meet the first one together; samples are those of their own socket; a misleading date has a counted failure next to it, or one about to be counted; `ParseCorrect` for all outputs of up to 4 lines |
| `cli` | 4 modes, 3 exits, 2 failed spawns | no child outlives the program, the status of a probe is the code its `iperf` ended with, a client's `iperf` comes back |
| `session` | a probe of a remote client with a local server, or continuous traffic with a remote one; 2 generations, 1 failed call or restart, 1 job the user deletes | what a deletion leaves is of earlier specs and generations; deletions end, probes run once per generation, the workloads of a probe converge |
| `session_cleanup`, `session_continuous` | no failures | findings |
| `measurement` | 2 measurements of one name, 1 profile in 2 versions, endpoints in 2 clusters, 2 specs, 3 edits, addresses that come or go, deletions, failures or restarts | a measurement that is Ready has the sessions of its spec and no other, with the settings of its profile unless its body came back; it gets there; `ExpandCorrect` for all small specs |
| `measurement_lost` | 1 measurement | a finding |

Why these bounds suffice to be interesting:

- Two exits, a scrape and the watchdog let threads race for a child, hold a
  stale restart count over a second restart, and start a child behind `stop`. One
  failed spawn kills the watchdog. The theorems hold for any number of scrapes.
- Seven lines are enough for a peer to connect, report, grow histograms, be
  overwritten by a connection with its id, and for another to time out, with a walk
  over the dictionary at any point.
- The condition under which active streams are retained was found with the
  `server` run: `MetricTTL >= 2 * ScrapeGap + 2`, as a scrape may take its batch
  at once and parse it a whole gap later (gap 1: a TTL of 4 passes and 3 fails;
  gap 2: 6 passes and 5 fails), and a pipe that holds the reports of a gap: with
  two peers a pipe of 1 or 2 lines loses reports to blocking and a stream is
  evicted. The defaults (a TTL of 3600 rounds, scrapes every 15 or 30 seconds)
  are far on the safe side; an evicted active stream would never come back, as
  iperf announces a connection once.
- Three traces over two pairs leave one pair traced again after a refresh while
  the other is queued behind it.
- Two requests are enough for both to meet the first failure of a counter, for
  one to insert a peer or to replace its connection while the other walks, and for
  results to be mixed up. The
  outputs hold a spelling of every kind, a wildcard next to an exact row, a row
  twice, and a detail line that does not convert.
- Three exits and two failed starts let a periodic client fail, come back, and
  fail again; a signal may come at any moment, also twice.
- Three events over two versions of a profile let a measurement be created,
  edited and deleted while a pass runs, its namesake be created behind it, or a
  failure or restart leave a pass half done after an edit. Of the two specs one
  asks for a session in two clusters, the other for it in one cluster, with other
  settings, and for a second session, which an edit adds or makes stale. All
  addresses are there to begin with.
- Two generations and a deletion (which raises the generation once more) give a
  pass that works on an older body, and workloads in a cluster the session has
  left; a failure or a restart hits every call. Both in one behaviour are left to
  the safety theorems, which hold for any number of them.

## Fairness

Where a fairness condition names a few variables only (`WF_worker`, `WF_threadVars`)
every step of its action changes them: it says the same as `WF_vars`.

- `IPerfProcess`: weak fairness of a thread's own steps. Acquiring
  `_process_lock` is strongly fair: it is held for seconds at most, and the calls
  of the others are seconds apart, so that a thread that waits gets it. SIGKILL
  ends a child at some time. No fairness of scrapes, signals, exits, or of a child's
  reaction to SIGTERM.
- `PeerTable`: the cleanup thread's loop never ends. iperf need not print.
- `IPerfServer`: Prometheus scrapes for ever, and a scrape makes progress (strong
  fairness where it needs the lock, or the child).
- `PathTrace`: the worker and `close` make progress. Nothing is assumed of
  `tracepath`, so traces must end by their timeout.
- `Cli`: the main thread goes on. Nothing is assumed of signals and of the child.
- `MeasurementOperator`: kopf starts the handlers that are due and passes go on,
  one worker per measurement and per profile. That a deleted session goes is
  not assumed.
- `SessionOperator`: kopf starts handlers that are due and the timer, passes
  go on, servers become ready at some time. Failures and restarts are finite in
  number; the user does nothing that is needed.

## Proofs

The eight `*_proofs` modules prove every safety property of the passing runs,
invariants and action properties, and both refinements, for all constants that
satisfy the assumptions of the modules: distinct threads, a finite set of pairs
(traces) or of requests and peers (scrapes), a protocol, natural bounds and TTLs,
specs that name a profile there is. The bounds on exits, lines, traces, failures
and edits are constants too, so that the theorems hold for any number of them.
Two theorems have a hypothesis:

- `ActiveStreamsStay` assumes `MetricTTL > 2 * ScrapeGap + 1` and that the pipe is
  never full. The first is what the `server` run found to be necessary. With
  the second, no line ever waits in `iperf` for room; how large a pipe has to be
  for that depends on the number of streams, and stays with TLC.
- `SamplesAreOwn` assumes that the parser agrees with its reference on the outputs
  of `ss` that the constant lists (`ParserIsRight`). TLC evaluates this for the
  outputs of the `scrape` run, and for all outputs of up to four lines. For every
  output it would need induction over the lines.

Hardly a property is inductive as it stands. What each proof rests on:

- *Child* (`IPerfProcess_proofs`). That no child is forgotten needs
  that a thread about to spawn knows of none (`ChildInv`), which holds since only
  the holder of `_process_lock` is in a locked section (`LockInv`), a failed spawn
  and an exception in `stop` included. That exits are counted once needs what is
  known of the child `stop` is killing (`CountInv`). `StopLeavesNoChildBehind`
  follows: `stop` never lets go of a child that runs on.
- *Supervisor.* `StepSupervised` maps each action to a step of `Supervisor` or to a
  stutter, using that invariant: a spawn is `Start` since no child runs while its
  thread holds the lock, a poll that finds an exit code is `Notice`.
- *Table* (`PeerTable_proofs`). The sums need finite sets of peers (`CountInv`, with
  the cardinality theorems of the library): a round evicts any number of peers at
  once and counts those not yet reported as timeouts. Both TTL properties follow from
  `TTLInv`: the TTL of an entry and its quiet rounds add up to `MetricTTL`.
  `NoEarlyEviction` is the action property.
- *Walks.* `WalksLeaveTheTable` carries the theorems over to `PeerWalk`.
  `FamiliesAtOnce` needs that the dictionary being walked only grows: rounds
  replace it, lines insert. So its size tells whether it still is what it was, by the
  cardinality of a set and its subset.
- *Ledger.* `StepLedger` maps a line or a round to a step of `ConnectionLedger`; the
  round is the case that needs cardinalities, as several connections time out at once.
- *Program* (`Cli_proofs`). `ChildrenEnd` needs that the program knows the child that
  runs until it is over (`ChildInv`); `ProbesReportTruth` needs that a probe starts one
  child and leaves its loop with the exit code or with a shutdown (`ProbeInv`).
- *Server* (`IPerfServer_proofs`). `ServerRunsTable` shows that the table in the server
  takes steps of `PeerTable` only, so that everything proved of the table holds of
  it (the proofs are instantiated, not repeated). `ReportsReach` is about the
  lines not yet parsed, in the batch and in the pipe: with the entry's owner before
  them and the stream now served behind, the connections of a peer id come in the order
  of their numbers, and every report is about the owner or is announced further
  ahead (`StreamInv`). Lemmas say what a printed, a parsed and a lost line do to
  that order. `ActiveInv` says that the entry of a stream that is served outlasts
  what is left until its next refresh: its line is being parsed, waits in the pipe
  for this scrape or the next, or is yet to be printed.
- *Traces* (`PathTrace_proofs`). `CloseInv` relates where `close` is to the two flags,
  and says that a process nobody told to end is one the worker waits for. So the
  absence of an active process, which is all that `close` looks at, means that none
  runs. `OneTracePerPair` keeps the work queue a sequence without repetitions
  (`QueueGrows`, `QueueShrinks`); `EveryTraceCounted` moves a trace from one set to the
  next and needs their cardinalities, as a scrape submits and harvests many.
- *Requests* (`Scrape_proofs`). `CountInv` counts the requests that are about to store
  the first failure of a counter: failures are what the counter says and those
  (`Exact`), unless two requests were there together (`raced`), when an increment may be
  lost but, once one stored, not the counter. What `MisleadingDateHasFailure` asks for
  may pass, so `DateInv` is stated with a condition that stays (`Trouble`,
  `TroubleStays`): a failure that was counted, is about to be, or will be when the text
  that was dated is parsed. `SamplesAreOwn` follows a request from what its own `ss` printed
  to what it exports (`RequestInv`).
- *Sessions* (`SessionOperator_proofs`). `PassInv`: a pass works on a generation that
  exists, on a past one once the session is being deleted, and a probe's job is
  never named after a body older than the pass's. `DeleteInv`: what the delete handler
  has deleted stays deleted, as without a late timer pass nobody else is at work.
  `PlaceInv`: objects are only where a spec so far wanted them, jobs only of generations
  so far, and none of the generation that the deletion made, which has the spec of the one
  before; so what is left when the session is gone is of the past.
  `CountInv`: the jobs created for a generation, the one that is still missing, and one
  for each thread whose overtaken pass may still touch it, add up to no more than one
  and the deletions and overtakings that explain a rerun.
- *Measurements* (`MeasurementOperator_proofs`). `PassInv` says what a pass has done so far:
  the sessions it applied are right, those it is to delete are unwanted, and
  after the listing it knows every session its measurement owns. `DoneInv` is what is
  left of that when the pass succeeded; no other handler touches it, unless the name
  is disturbed (`OthersLeave`). `Fresh` is what ties two handlers together: the version
  a pass loaded is the profile's present one, or the profile's handler has yet to
  tell the measurement. The proof showed a case that one profile does not
  have, and that `SettledIsExpanded` now excepts (`reverted`, below).

The properties that this leaves to TLC:

- Liveness, which rests on fairness and so on ENABLED, is out of the prover's reach.
- What a fold or a recursive function computes for every input needs an induction
  principle with an operator as its parameter, which no installed prover can
  instantiate: that `ss` is parsed as `ParseCorrect` says, and that `Expand` is as
  `ExpandCorrect` says. TLC evaluates both for all small inputs.

## Findings

Where what a document says and what the code does part:

- `session_cleanup` (`controller.py:571`): the delete handler deletes the job named
  after the generation of the body it is given. The API server raises the
  generation when it marks a session for deletion, so the name is that of a job
  that was never created. In the local cluster the owner reference still collects
  the real one; in a remote cluster a probe's job stays. `README.md:114` promises
  the removal of the generated workloads.
- `session_continuous` (`controller.py:651`): a timer pass that began in probe mode
  and is overtaken by a change to continuous deletes the Deployment of the new
  mode and creates a job. The timer of a continuous session only reports, so
  nothing repairs it until the session changes or the operator restarts.
- `process_watchdog` (`iperf.py:721`): a spawn that fails ends the watchdog thread.
  Without scrapes the child stays away, where the changelog promises a watchdog
  that restarts crashed children.
- `measurement_lost` (`controller.py:188`): a network mode or direction that is
  removed and added again while its session still waits for its finalizer (a
  delete handler that has to reach a remote cluster may take long) is patched on the
  session that is leaving. The patch succeeds, the measurement is Ready; then the
  session is gone, and a measurement has no timer that would create it again.
  `docs/operator-crds.md:100` promises a session for every direction.

Known exceptions, which the models have and the properties name:

- A child that another thread started behind `stop`, one whose exporter could not
  bind its port or whose `path_trace.close()` raised (so that `server.stop` is not
  called), and one that SIGKILL does not end outlive the program
  (`NoChildOutlives`).
- The error counter counts a restart once for every thread whose `ensure_running`
  overlaps it (`iperf.py:692`), where `docs/metrics.md:210` defines an error as a
  restart.
- A new connection with a retained peer id replaces the entry but not the
  histograms of the one before (`iperf.py:1013`); they go with the id.
- A line of another request that inserts a peer disturbs a walk: the `RuntimeError`
  ends that request and no counter shows it (`WalkRaises` in `PeerWalk` and `Scrape`).
- Two requests that meet the first failure of a counter together may lose one increment
  (`collector.py:1044`; `FailuresShow` is exact for counters that were not `raced`).
- The success time of the socket component falls back to that of the component,
  which is set although `ss` failed (`collector.py:1047`), where `docs/metrics.md:218`
  has the time of the latest successful execution. A failure that was counted stands
  next to it, but not while another request is between the date of its `ss` and the
  counting of its parse failure (`MisleadingDateHasFailure`).
- A shutdown may hide the error of a probe that ended by itself and was not polled yet
  (`ProbeStatusTruthful`). And the status is the code `iperf` ended with, whoever ended it:
  a probe that a shutdown interrupts counts as a success if its `iperf` answers SIGTERM
  with 0.
- A timer pass that outlives the delete handler (`DeletionIsComplete`).
- Workloads in a cluster that the session's spec no longer names, and jobs of earlier
  generations, are not the delete handler's business (`controller.py:551-574`). In the local
  cluster the owner reference collects them, in a remote one they stay
  (`DeletionIsComplete` says that nothing else does).
- A probe runs once more for every pass that was under way when the generation rose: it
  may delete the job of the new generation, which the next pass creates again
  (`RerunsExplained`), where `docs/operator-crds.md:211-213` has a new run only for a new
  generation or after an explicit deletion.
- A measurement that misses the address of an endpoint gives up with a `PermanentError` and
  is not handled again when there is one: its `RemoteCluster` is not registered
  (`controller.py:143`), names no Secret or one without the kubeconfig (163, 172), or its node
  has no `InternalIP` (470). `MeasurementsConverge` excepts these measurements.
- A body that comes back (`reverted`): kopf finds the body handled last and
  starts no handler. After a pass for the edit failed halfway, what it applied
  stays (`MeasurementsConverge`). A profile tells those measurements of a new version
  that name it at that moment (`controller.py:759`): one that is moved to
  another profile meanwhile, and back before the handler succeeded, keeps the
  settings of the earlier version while it is Ready; so does one whose annotation
  the handler of the other profile writes over (`SettledIsExpanded` still has the
  sessions then, but not the version). `docs/operator-crds.md:167` has a session's
  settings copied from the profile.
- A merge patch keeps `durationSeconds` and `every` of an execution that the spec no
  longer has (`AsDemanded`).
- Measurements whose names have the same slug share their sessions' names
  (`specs.py:115`); names are model values here.

## What is not modelled

- Formatting of metric families, regular expressions and unit conversions, log
  messages, argument parsing: data that no property depends on.
- Torn lines: iperf writes a line with one write; half a line would be a parse error.
- In `SessionOperator`: a `RemoteCluster` that is missing. Its `PermanentError`
  (`controller.py:141`) is not retried: a delete handler that meets it gives up, and
  kopf releases the session. Every other failure is retried. Also the ClusterIP
  service (it comes and goes with the headless one), what the status says beyond
  having been reported, node addresses.
- In `MeasurementOperator`: the statuses, the handlers that only remove series, a
  profile created anew while a pass for its predecessor runs, sessions that users
  delete, and a create that meets a conflict (which is one of the failed calls).
- Operator metrics but for the phase of a session: counters and gauges per resource
  and the jobs already observed (step 11 of the plan).
- In `Specs`: strings (slugs, truncated names, durations), exporter settings, labels
  and environment variables. `manifests.py` is a function from a session to Kubernetes
  objects, without state.
- Helm charts, images, dashboards, the demo: configuration.
