------------------------------- MODULE Scrape -------------------------------
(***************************************************************************)
(* A scrape of the exporter (iperf_exporter/collector.py,                  *)
(* IPerfCollector.collect, and the ss command of socket_stats.py).         *)
(*                                                                         *)
(* Every HTTP request runs collect() in its own thread: the components     *)
(* iperf, path_trace and socket one after the other, each timed, counted   *)
(* and dated by _collect_component, and between them walks over the peers  *)
(* the server retains.  No lock is held: requests share the counters, the  *)
(* dates and the dictionary of the peers.                                  *)
(*                                                                         *)
(* The components iperf and path_trace are reduced to their outcome        *)
(* (IPerfServer and PathTrace model them), the clock counts to a bound,    *)
(* and the walks of several metric families over the same dictionary are   *)
(* one.  Left out: durations, log-once flags, labels, the dates of the     *)
(* exporter, of iperf and of path_trace, which are only exported, and the  *)
(* cleanup thread, which replaces the dictionary and so disturbs no walk.  *)
(***************************************************************************)
EXTENDS SocketStats, FiniteSets

CONSTANTS
    Scrapers,       \* HTTP threads
    PeerIds,        \* the ids iperf numbers its connections with
    Connections,    \* connections as iperf prints them: local and peer address
    Proto,          \* "udp" or "tcp"
    Outputs,        \* what ss may print
    MaxFailures,    \* bound: failures of all components
    MaxClock        \* bound: seconds

ASSUME ScrapeAssumption ==
    /\ Proto \in {"udp", "tcp"}
    /\ IsFiniteSet(Scrapers) /\ IsFiniteSet(PeerIds)
    /\ MaxFailures \in Nat /\ MaxClock \in Nat \ {0}

Components == {"iperf", "path_trace", "socket"}
SsReasons == {"unavailable", "timeout", "command"}

(* The counters of a scrape: by component, and by the reason of ss.        *)
Failures == Components \cup SsReasons

VARIABLES
    pc,             \* where each request is
    failing,        \* per request, the counter it is about to set to 1
    output,         \* the peers the server retains
    todo,           \* per request, the peers its walk has not visited
    size,           \* per request, how many there were when the walk began
    snapshots,      \* per request, what the socket component returned
    errors,         \* _collector_errors[(_, "exception")], and error_counts
    date,           \* _collector_last_success_timestamps of socket, 0 for none
    ssDate,         \* last_success_timestamp_seconds of ss, 0 for none
    clock,
    printed,        \* history: per request, what its ss printed
    samples,        \* history: per request, the socket samples it exported
    happened,       \* history: per counter, the failures that happened
    raced,          \* history: counters another request was to set meanwhile
    goodRuns,       \* history: the dates of the socket components that worked
    reported        \* history: the last date of the sockets a request exported

requestVars == <<pc, failing, todo, size, snapshots>>
healthVars == <<errors, date, ssDate>>
historyVars == <<printed, samples, happened, raced, goodRuns, reported>>
vars == <<requestVars, output, healthVars, clock, historyVars>>

(* The points of a request, in the order of collect().                     *)
Walks == {"families", "traces", "queues", "sockets"}
Points == {"idle", "iperf", "path_trace", "ss", "parse", "count", "health"} \cup Walks

(* Types; and no counter exceeds the failures, no date is in the future.   *)
TypeOK ==
    /\ pc \in [Scrapers -> Points]
    /\ failing \in [Scrapers -> {"none"} \cup Failures]
    /\ DOMAIN output \subseteq PeerIds
    /\ \A p \in DOMAIN output : output[p] \in Connections
    /\ todo \in [Scrapers -> SUBSET PeerIds]
    /\ size \in [Scrapers -> 0..Cardinality(PeerIds)]
    /\ printed \in [Scrapers -> Outputs \cup {<<>>}]
    /\ errors \in [Failures -> 0..MaxFailures]
    /\ happened \in [Failures -> 0..MaxFailures] /\ raced \subseteq Failures
    /\ date \in 0..clock /\ ssDate \in 0..clock /\ clock \in 1..MaxClock
    /\ goodRuns \subseteq 1..clock /\ reported \in 0..clock

Init ==
    /\ pc = [s \in Scrapers |-> "idle"]
    /\ failing = [s \in Scrapers |-> "none"]
    /\ output = [p \in {} |-> CHOOSE c \in Connections : TRUE]
    /\ todo = [s \in Scrapers |-> {}]
    /\ size = [s \in Scrapers |-> 0]
    /\ snapshots = [s \in Scrapers |-> NoSockets]
    /\ errors = [f \in Failures |-> 0]
    /\ date = 0 /\ ssDate = 0
    /\ clock = 1
    /\ printed = [s \in Scrapers |-> <<>>]
    /\ samples = [s \in Scrapers |-> {}]
    /\ happened = [f \in Failures |-> 0]
    /\ raced = {}
    /\ goodRuns = {}
    /\ reported = 0

-----------------------------------------------------------------------------
Goto(s, point) ==
    /\ pc' = [pc EXCEPT ![s] = point]
    /\ UNCHANGED <<todo, size>>

(* A request ends, and with it its local variables.                        *)
Ends(s) ==
    /\ pc' = [pc EXCEPT ![s] = "idle"]
    /\ todo' = [todo EXCEPT ![s] = {}]
    /\ size' = [size EXCEPT ![s] = 0]
    /\ snapshots' = [snapshots EXCEPT ![s] = NoSockets]
    /\ printed' = [printed EXCEPT ![s] = <<>>]
    /\ samples' = [samples EXCEPT ![s] = {}]

(* A walk begins, over the peers of the dictionary as it is now.           *)
BeginWalk(s, point) ==
    /\ pc' = [pc EXCEPT ![s] = point]
    /\ todo' = [todo EXCEPT ![s] = DOMAIN output']
    /\ size' = [size EXCEPT ![s] = Cardinality(DOMAIN output')]

Dated == date' = clock

(* Where a request goes on after a failure was counted: ss's own failures  *)
(* are handled, the component returns nothing and still is dated; an       *)
(* exception is raised again and ends the request.                         *)
AfterFailure(s, f) ==
    IF f \in SsReasons
    THEN Dated /\ BeginWalk(s, "queues") /\ UNCHANGED <<snapshots, printed, samples>>
    ELSE Ends(s) /\ UNCHANGED date

(* The failures there were, and those an output of ss is about to cause.   *)
Doomed(s) == pc[s] = "parse" /\ ParseRaises(Proto, printed[s])
FailuresSoFar ==
    happened["iperf"] + happened["path_trace"] + happened["socket"]
    + happened["unavailable"] + happened["timeout"] + happened["command"]
    + Cardinality({s \in Scrapers : Doomed(s)})

(* Mutation: a failure of ss is counted by ss and by the component.        *)
CountFailureTwice(s, f) ==
    /\ Doomed(s) \/ FailuresSoFar < MaxFailures
    /\ happened' = [happened EXCEPT ![f] = @ + 1]
    /\ raced' = IF \E t \in Scrapers : failing[t] = f THEN raced \cup {f} ELSE raced
    /\ \/ /\ errors[f] > 0
          /\ errors' = [errors EXCEPT ![f] = @ + 2]
          /\ AfterFailure(s, f)
          /\ UNCHANGED failing
       \/ /\ errors[f] = 0
          /\ failing' = [failing EXCEPT ![s] = f]
          /\ Goto(s, "count")
          /\ UNCHANGED <<errors, date, snapshots, printed, samples>>

(* error_counts[f] += 1.  With the key present CPython runs it without     *)
(* giving up the interpreter lock; the first time, Counter.__missing__ is  *)
(* a Python call and another thread may run between its 0 and the store.   *)
CountFailure(s, f) ==
    /\ Doomed(s) \/ FailuresSoFar < MaxFailures
    /\ happened' = [happened EXCEPT ![f] = @ + 1]
    /\ raced' = IF \E t \in Scrapers : failing[t] = f THEN raced \cup {f} ELSE raced
    /\ \/ /\ errors[f] > 0
          /\ errors' = [errors EXCEPT ![f] = @ + 1]
          /\ AfterFailure(s, f)
          /\ UNCHANGED failing
       \/ /\ errors[f] = 0
          /\ failing' = [failing EXCEPT ![s] = f]
          /\ Goto(s, "count")
          /\ UNCHANGED <<errors, date, snapshots, printed, samples>>

(* Mutation: the store is forgotten.                                       *)
StoreFailureNot(s) ==
    /\ pc[s] = "count"
    /\ failing' = [failing EXCEPT ![s] = "none"]
    /\ UNCHANGED output
    /\ AfterFailure(s, failing[s])
    /\ UNCHANGED <<errors, ssDate, clock, happened, raced, goodRuns, reported>>

StoreFailure(s) ==
    /\ pc[s] = "count"
    /\ errors' = [errors EXCEPT ![failing[s]] = 1]
    /\ failing' = [failing EXCEPT ![s] = "none"]
    /\ UNCHANGED output
    /\ AfterFailure(s, failing[s])
    /\ UNCHANGED <<ssDate, clock, happened, raced, goodRuns, reported>>

-----------------------------------------------------------------------------
BeginScrape(s) ==
    /\ pc[s] = "idle"
    /\ Goto(s, "iperf")
    /\ UNCHANGED <<failing, snapshots, output, healthVars, clock, historyVars>>

(* The component iperf: its lines announce a connection, under a new or a  *)
(* known id, or none.                                                      *)
ReadIperf(s) ==
    /\ pc[s] = "iperf"
    /\ \/ UNCHANGED output
       \/ \E p \in PeerIds, c \in Connections :
             output' = [q \in DOMAIN output \cup {p} |-> IF q = p THEN c ELSE output[q]]
    /\ BeginWalk(s, "families")
    /\ UNCHANGED <<failing, snapshots, healthVars, clock, printed, samples, happened,
                   raced, goodRuns, reported>>

TracePaths(s) ==
    /\ pc[s] = "path_trace"
    /\ UNCHANGED output
    /\ BeginWalk(s, "traces")
    /\ UNCHANGED <<failing, snapshots, healthVars, clock, historyVars>>

(* An exception of either: no iperf can be started, no trace submitted.    *)
ComponentRaises(s) ==
    /\ pc[s] \in {"iperf", "path_trace"}
    /\ UNCHANGED output
    /\ CountFailure(s, pc[s])
    /\ UNCHANGED <<ssDate, clock, goodRuns, reported>>

(* The component socket: ss does not exist, hangs, or exits with a status, *)
(* or running it raises what nobody handles (it may not be executed, its   *)
(* output is not text), before ss is dated.  Or it prints, which counts as *)
(* a success before the text is parsed.                                    *)
SsFails(s) ==
    /\ pc[s] = "ss"
    /\ UNCHANGED output
    /\ \E f \in SsReasons \cup {"socket"} : CountFailure(s, f)
    /\ UNCHANGED <<ssDate, clock, goodRuns, reported>>

SsPrints(s) ==
    /\ pc[s] = "ss"
    /\ \E lines \in Outputs :
          /\ ParseRaises(Proto, lines) => FailuresSoFar < MaxFailures
          /\ printed' = [printed EXCEPT ![s] = lines]
          /\ goodRuns' = IF ParseRaises(Proto, lines) THEN goodRuns ELSE goodRuns \cup {clock}
    /\ ssDate' = clock
    /\ Goto(s, "parse")
    /\ UNCHANGED <<failing, snapshots, output, errors, date, clock, samples, happened,
                   raced, reported>>

(* Mutation: the snapshots are kept in one attribute of the collector.     *)
ParseSsForAll(s) ==
    /\ pc[s] = "parse"
    /\ ~ParseRaises(Proto, printed[s])
    /\ snapshots' = [t \in Scrapers |-> ParseOutput(Proto, printed[s])]
    /\ Dated
    /\ UNCHANGED output
    /\ BeginWalk(s, "queues")
    /\ UNCHANGED <<failing, errors, ssDate, clock, historyVars>>

ParseSs(s) ==
    /\ pc[s] = "parse"
    /\ ~ParseRaises(Proto, printed[s])
    /\ snapshots' = [snapshots EXCEPT ![s] = ParseOutput(Proto, printed[s])]
    /\ Dated
    /\ UNCHANGED output
    /\ BeginWalk(s, "queues")
    /\ UNCHANGED <<failing, errors, ssDate, clock, historyVars>>

ParseSsRaises(s) ==
    /\ pc[s] = "parse"
    /\ ParseRaises(Proto, printed[s])
    /\ UNCHANGED output
    /\ CountFailure(s, "socket")
    /\ UNCHANGED <<ssDate, clock, goodRuns, reported>>

-----------------------------------------------------------------------------
(* What the families export for a peer: the queues of its socket, and for  *)
(* TCP the values of the details too.                                      *)
SamplesOf(s, p) ==
    IF pc[s] \in {"queues", "sockets"}
    THEN {[family |-> pc[s], connection |-> output[p], socket |-> socket] :
             socket \in FoundSockets(output[p], snapshots[s])}
    ELSE {}

VisitPeer(s) ==
    /\ pc[s] \in Walks
    /\ size[s] = Cardinality(DOMAIN output)
    /\ \E p \in todo[s] :
          /\ todo' = [todo EXCEPT ![s] = @ \ {p}]
          /\ samples' = [samples EXCEPT ![s] = @ \cup SamplesOf(s, p)]
    /\ UNCHANGED <<pc, failing, size, snapshots, output, healthVars, clock, printed, happened,
                   raced, goodRuns, reported>>

After(point) ==
    CASE point = "families" -> "path_trace"
      [] point = "traces"   -> "ss"
      [] point = "queues"   -> IF Proto = "tcp" THEN "sockets" ELSE "health"
      [] point = "sockets"  -> "health"

EndWalk(s) ==
    /\ pc[s] \in Walks
    /\ size[s] = Cardinality(DOMAIN output)
    /\ todo[s] = {}
    /\ UNCHANGED output
    /\ IF After(pc[s]) = "sockets" THEN BeginWalk(s, "sockets")
       ELSE /\ pc' = [pc EXCEPT ![s] = After(pc[s])]
            /\ size' = [size EXCEPT ![s] = 0]
            /\ UNCHANGED todo
    /\ UNCHANGED <<failing, snapshots, healthVars, clock, historyVars>>

(* Another request added a peer: RuntimeError, which nothing counts.       *)
WalkRaises(s) ==
    /\ pc[s] \in Walks
    /\ size[s] # Cardinality(DOMAIN output)
    /\ Ends(s)
    /\ UNCHANGED <<failing, output, healthVars, clock, happened, raced, goodRuns, reported>>

(* The health families: the date of ss itself, if it has one, replaces     *)
(* that of the component.                                                  *)
SocketDate == IF ssDate # 0 THEN ssDate ELSE date

ExportHealth(s) ==
    /\ pc[s] = "health"
    /\ reported' = SocketDate
    /\ Ends(s)
    /\ UNCHANGED <<failing, output, healthVars, clock, happened, raced, goodRuns>>

Tick ==
    /\ clock < MaxClock
    /\ clock' = clock + 1
    /\ UNCHANGED <<requestVars, output, healthVars, historyVars>>

Next ==
    \/ \E s \in Scrapers :
          \/ BeginScrape(s) \/ ReadIperf(s) \/ TracePaths(s) \/ ComponentRaises(s)
          \/ SsFails(s) \/ SsPrints(s) \/ ParseSs(s) \/ ParseSsRaises(s) \/ StoreFailure(s)
          \/ VisitPeer(s) \/ EndWalk(s) \/ WalkRaises(s) \/ ExportHealth(s)
    \/ Tick

Spec == Init /\ [][Next]_vars

-----------------------------------------------------------------------------
(***************************************************************************)
(* Properties                                                              *)
(***************************************************************************)
(* Nothing is counted that did not happen.  A failure of a component or of *)
(* ss is counted once by the request that met it, exactly, unless another  *)
(* request was about to store the first of its kind: then increments may   *)
(* be lost, but once a request stored, the counter is not 0.               *)
FailuresShow ==
    \A f \in Failures :
        LET storing == Cardinality({s \in Scrapers : failing[s] = f})
        IN  /\ errors[f] <= happened[f]
            /\ f \notin raced => errors[f] + storing = happened[f]
            /\ happened[f] > storing => errors[f] > 0

(* The socket values a request exports for a connection are those of the   *)
(* last row its own ss printed for that connection on the exporter's port, *)
(* with the details below it; a socket bound to a wildcard stands in only  *)
(* where the connection has no row of its own.  No request exports what    *)
(* another one's ss said, nor a neighbour's details.                       *)
SamplesMatchSockets ==
    \A s \in Scrapers : \A x \in samples[s] :
        LET lines == printed[s]
            row == lines[x.socket.row]
            ownKey == SocketKey(x.connection)
            hasOwnRow == \E i \in OwnRows(lines) : RowKey(lines[i]) = ownKey
        IN  /\ x.socket.row \in OwnRows(lines) /\ LastRow(lines, x.socket.row)
            /\ Normalized(row.peer) = x.connection.peer
            /\ IF hasOwnRow THEN RowKey(row) = ownKey
               ELSE Normalized(row.local).host \in {Wildcards[i] : i \in DOMAIN Wildcards}
            /\ x.socket.detail = IF Proto = "tcp" /\ TextBelow(lines, x.socket.row)
                                 THEN x.socket.row + 1 ELSE 0

(* A request whose ss was dated and whose text cannot be parsed, until     *)
(* that is counted.                                                        *)
Uncounted(s) == (pc[s] = "parse" \/ failing[s] = "socket") /\ ParseRaises(Proto, printed[s])

(* A date of the sockets that stands for no successful run is exported     *)
(* only when a failure of ss or of the component was counted before, or    *)
(* while another request is between the date of its ss and the counting of *)
(* its parse failure: in that gap the date stands alone.  The component is *)
(* dated although ss failed, and ss before its text is parsed, so neither  *)
(* a date nor the order of the two alone says this.                        *)
MisleadingDateHasFailure ==
    reported \notin goodRuns \cup {0} =>
        \/ \E f \in SsReasons \cup {"socket"} : errors[f] > 0
        \/ \E s \in Scrapers : Uncounted(s)
=============================================================================
