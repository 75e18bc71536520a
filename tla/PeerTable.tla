----------------------------- MODULE PeerTable -----------------------------
(***************************************************************************)
(* What the exporter remembers of the streams its iperf server reports     *)
(* (iperf_exporter/iperf.py, class IPerfServer: output, tcp_histograms and *)
(* the counters next to them).                                             *)
(*                                                                         *)
(* parse_output feeds the table one line of iperf output at a time; the    *)
(* cleanup thread ages it every cleanup_interval and evicts the entries    *)
(* whose TTL reached 0.  Both work under IPerfServer._lock, so each is one *)
(* action.  A line is a member of a small set: what kind it is, which peer *)
(* id it names and whether its fields convert.                             *)
(*                                                                         *)
(* A connection is a number (the value of connections_total when iperf     *)
(* announced it), as iperf uses a peer id again after a restart.  Reported *)
(* figures, addresses and timestamps are left out; the addresses a         *)
(* histogram copies from its peer are the connection they belong to.       *)
(***************************************************************************)
EXTENDS Naturals, FiniteSets

CONSTANTS
    Peers,      \* the peer ids iperf prints in brackets
    Names,      \* the names of TCP latency histograms
    Proto,      \* "udp" or "tcp"
    MetricTTL,  \* metric_ttl, in cleanup ticks
    MaxLines    \* bound: the lines iperf prints

ASSUME TableAssumption ==
    /\ Proto \in {"udp", "tcp"}
    /\ MetricTTL \in Nat
    /\ MaxLines \in Nat

VARIABLES
    output,         \* output: the retained peers and their entries
    histograms,     \* tcp_histograms: <<peer id, name>> to connection
    connections,    \* connections_total
    samples,        \* samples_total
    parseErrors,    \* parse_errors_total
    evicted,        \* samples_evicted_total["ttl"]
    success,        \* test_runs_total["success"]
    timeout,        \* test_runs_total["timeout"]
    lines,          \* history: lines processed
    replaced,       \* history: entries a new connection overwrote ...
    unresolved,     \* history: ... that had no valid report yet
    quiet           \* history: per peer, ticks since a line refreshed its entry

tableVars == <<output, histograms, connections, samples, parseErrors, evicted,
               success, timeout>>
historyVars == <<lines, replaced, unresolved, quiet>>
vars == <<tableVars, historyVars>>

Retained == DOMAIN output

(* An entry: its TTL, successful_report_seen, and its connection.          *)
Entry == [ttl : Nat, reported : BOOLEAN, connection : Nat \ {0}]

TypeOK ==
    /\ Retained \subseteq Peers
    /\ output \in [Retained -> Entry]
    /\ DOMAIN histograms \subseteq Peers \X Names
    /\ histograms \in [DOMAIN histograms -> Nat \ {0}]
    /\ connections \in Nat /\ samples \in Nat /\ parseErrors \in Nat
    /\ evicted \in Nat /\ success \in Nat /\ timeout \in Nat
    /\ lines \in Nat /\ replaced \in Nat /\ unresolved \in Nat
    /\ quiet \in [Retained -> Nat]

Empty == [x \in {} |-> x]

Init ==
    /\ output = Empty
    /\ histograms = Empty
    /\ connections = 0 /\ samples = 0 /\ parseErrors = 0
    /\ evicted = 0 /\ success = 0 /\ timeout = 0
    /\ lines = 0 /\ replaced = 0 /\ unresolved = 0
    /\ quiet = Empty

-----------------------------------------------------------------------------
(* f with the value of x set to v, x being in the domain of f or not.      *)
Put(f, x, v) == [y \in DOMAIN f \cup {x} |-> IF y = x THEN v ELSE f[y]]

Read == /\ lines < MaxLines
        /\ lines' = lines + 1

(* A line of the stream of peer p was processed.                           *)
Heard(p) == quiet' = [quiet EXCEPT ![p] = 0]

(* "[id] local ... connected with ...": a fresh entry, whatever the table  *)
(* held for that id.                                                       *)
NewConnection(p) ==
    /\ Read
    /\ connections' = connections + 1
    /\ output' = Put(output, p, [ttl |-> MetricTTL, reported |-> FALSE,
                                 connection |-> connections + 1])
    /\ replaced' = replaced + (IF p \in Retained THEN 1 ELSE 0)
    /\ unresolved' = unresolved
                     + (IF p \in Retained /\ ~output[p].reported THEN 1 ELSE 0)
    /\ quiet' = Put(quiet, p, 0)
    /\ UNCHANGED <<histograms, samples, parseErrors, evicted, success, timeout>>

(* Mutation: every report counts as a success.                             *)
FirstReportAlways(p) == output[p].ttl \in Nat
FirstReport(p) == ~output[p].reported

(* An interval report of a retained peer: update() resets the TTL, then    *)
(* _record_successful_sample counts it, and counts the first one as the    *)
(* success of its connection.                                              *)
Report(p) ==
    /\ Read
    /\ p \in Retained
    /\ output' = [output EXCEPT ![p].ttl = MetricTTL, ![p].reported = TRUE]
    /\ samples' = samples + 1
    /\ success' = success + (IF FirstReport(p) THEN 1 ELSE 0)
    /\ Heard(p)
    /\ UNCHANGED <<histograms, connections, parseErrors, evicted, timeout, replaced, unresolved>>

(* A TCP report whose read distribution does not convert ("1::2"): update()*)
(* raises after update_common reset the TTL, and nothing is counted but    *)
(* the parse error.                                                        *)
ReportFailsHalfway(p) ==
    /\ Proto = "tcp"
    /\ Read
    /\ p \in Retained
    /\ output' = [output EXCEPT ![p].ttl = MetricTTL]
    /\ parseErrors' = parseErrors + 1
    /\ Heard(p)
    /\ UNCHANGED <<histograms, connections, samples, evicted, success, timeout,
                   replaced, unresolved>>

(* Mutation: a histogram of an unknown peer is stored without addresses.   *)
HistogramOfAnyPeer(p, n) ==
    /\ Proto = "tcp"
    /\ Read
    /\ histograms' = Put(histograms, <<p, n>>,
                         IF p \in Retained THEN output[p].connection ELSE 0)
    /\ UNCHANGED <<output, connections, samples, parseErrors, evicted, success, timeout,
                   replaced, unresolved, quiet>>

(* A histogram line of a retained peer is stored with the addresses of the *)
(* peer; it does not count as a report and leaves the TTL alone.           *)
Histogram(p, n) ==
    /\ Proto = "tcp"
    /\ Read
    /\ p \in Retained
    /\ histograms' = Put(histograms, <<p, n>>, output[p].connection)
    /\ UNCHANGED <<output, connections, samples, parseErrors, evicted, success, timeout,
                   replaced, unresolved, quiet>>

(* A report or histogram of a peer that is not retained (KeyError), one    *)
(* that does not convert before anything is stored, or an interval line    *)
(* that no pattern matches.                                                *)
RejectedLine ==
    /\ Read
    /\ parseErrors' = parseErrors + 1
    /\ UNCHANGED <<output, histograms, connections, samples, evicted, success, timeout,
                   replaced, unresolved, quiet>>

(* Mutations: only peers that reported age; an entry leaves one round too  *)
(* early; one round too late, the TTL being looked at before it is lowered.*)
AgedIfReported(p) == [output[p] EXCEPT !.ttl = IF output[p].reported THEN @ - 1 ELSE @]
ExpiredEarly == {p \in Retained : output[p].ttl <= 2}
ExpiredLate == {p \in Retained : output[p].ttl = 0}

(* decrease_current_metric_ttl and is_metric_ttl_exceeded: a TTL of 0      *)
(* stays 0, so it lasts one round like a TTL of 1.                         *)
Aged(p) == [output[p] EXCEPT !.ttl = IF @ > 0 THEN @ - 1 ELSE 0]
Expired == {p \in Retained : Aged(p).ttl = 0}

(* Mutations: the removed entries are counted as one; the histograms of    *)
(* removed peers are forgotten about.                                      *)
CountedAsOne(S) == IF S = {} THEN 0 ELSE 1
AllHistograms == histograms

Counted(S) == Cardinality(S)
RemainingHistograms ==
    [k \in {k \in DOMAIN histograms : k[1] \in Retained \ Expired} |-> histograms[k]]

(* The history counts rounds up to MetricTTL + 1.                          *)
Older(rounds) == IF rounds > MetricTTL THEN rounds ELSE rounds + 1

(* One round of periodically_remove_dead_clients.                          *)
CleanupTick ==
    /\ output' = [p \in Retained \ Expired |-> Aged(p)]
    /\ evicted' = evicted + Counted(Expired)
    /\ timeout' = timeout + Cardinality({p \in Expired : ~output[p].reported})
    /\ histograms' = RemainingHistograms
    /\ quiet' = [p \in Retained \ Expired |-> Older(quiet[p])]
    /\ UNCHANGED <<connections, samples, parseErrors, success, lines, replaced, unresolved>>

Line ==
    \/ \E p \in Peers :
          \/ NewConnection(p) \/ Report(p) \/ ReportFailsHalfway(p)
          \/ \E n \in Names : Histogram(p, n)
    \/ RejectedLine

Next == Line \/ CleanupTick

Spec == Init /\ [][Next]_vars

(* The cleanup thread wakes up for ever; iperf need not print anything.    *)
FairSpec == Spec /\ WF_vars(CleanupTick)

-----------------------------------------------------------------------------
(***************************************************************************)
(* Properties                                                              *)
(***************************************************************************)
Unreported == {p \in Retained : ~output[p].reported}

(* test_runs_total gives each connection at most one outcome, success or   *)
(* timeout: a connection has an outcome, still waits for its first report, *)
(* or was overwritten by a later one with its peer id.                     *)
OneOutcomePerConnection ==
    connections = success + timeout + Cardinality(Unreported) + unresolved

(* No entry disappears uncounted: a connection is retained, was evicted    *)
(* (samples_evicted_total) or was overwritten.                             *)
EveryConnectionAccounted ==
    connections = Cardinality(Retained) + evicted + replaced

(* A histogram is dropped with its peer: the metrics never show one of a   *)
(* peer that is not retained.                                              *)
HistogramsOfRetainedPeers == \A k \in DOMAIN histograms : k[1] \in Retained

(* An entry is never evicted early: only after MetricTTL rounds of the     *)
(* cleanup without a line that refreshed it, however rounds and lines      *)
(* interleave (a TTL of 0 counts as 1).                                    *)
EvictedOnlyWhenQuiet ==
    [][\A p \in Retained : p \notin DOMAIN output' => quiet[p] + 1 >= MetricTTL]_vars

(* Nor late: no entry outlives MetricTTL quiet rounds.                     *)
QuietPeersLeave == \A p \in Retained : quiet[p] < MetricTTL \/ quiet[p] = 0

(* Once iperf falls silent everything is forgotten: gauges of dead streams *)
(* do not stay for ever, and every connection gets its outcome.            *)
TableEmpties == <>[](Retained = {} /\ histograms = Empty)

(* Seen as a ledger of outcomes, every line and every round is one entry:  *)
(* a connection leaves the waiting ones once, and counters only grow, by   *)
(* as much as connections leave.                                           *)
Ledger == INSTANCE ConnectionLedger WITH
              opened <- connections, waiting <- Cardinality(Unreported), lost <- unresolved

OutcomesAsLedger == Ledger!Spec
=============================================================================
