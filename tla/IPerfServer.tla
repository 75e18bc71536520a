---------------------------- MODULE IPerfServer ----------------------------
(***************************************************************************)
(* The exporter's server mode end to end: an iperf child that prints lines *)
(* into a pipe, scrapes that drain it (IPerfCollector.collect, IPerfServer *)
(* .read_output), the table they fill (PeerTable) and the cleanup thread   *)
(* that ages it whether or not anyone scrapes.                             *)
(*                                                                         *)
(* Nothing reads the pipe between scrapes.  A scrape reads what is there   *)
(* and parses it line by line with _process_lock held; each line takes     *)
(* _lock, so a cleanup round may fall between two lines.  The metric       *)
(* families are then built from the table (PeerWalk).  A dead child is     *)
(* replaced by ensure_running at the start of a scrape or by the watchdog: *)
(* its unread output is closed with the pipe, its peers stay in the table  *)
(* (IPerfProcess has the details).                                         *)
(*                                                                         *)
(* Time is the rounds of the cleanup thread.  A client that is connected   *)
(* makes iperf print one report per round, as its interval and             *)
(* cleanup_interval are both a second by default, unless the pipe is full. *)
(***************************************************************************)
EXTENDS Naturals, FiniteSets, Sequences

CONSTANTS
    Peers, Names, Proto, MetricTTL, MaxLines,   \* of PeerTable
    Scrapers,       \* HTTP threads
    Nobody,         \* the holder of a free lock
    PipeSize,       \* the lines that fit into the pipe
    ScrapeGap,      \* a scrape completes every ScrapeGap rounds
    MaxStreams      \* bound: connections clients make

ASSUME ServerAssumption ==
    /\ Proto \in {"udp", "tcp"}
    /\ MetricTTL \in Nat
    /\ MaxLines \in Nat
    /\ Nobody \notin Scrapers
    /\ PipeSize \in Nat \ {0}
    /\ ScrapeGap \in Nat \ {0}
    /\ MaxStreams \in Nat

VARIABLES
    output, histograms, connections, samples, parseErrors, evicted, success,
    timeout, lines, replaced, unresolved, quiet,  \* of PeerTable
    childUp,        \* the iperf child runs
    streams,        \* per peer id, the connection iperf serves under it, or 0
    printed,        \* the peer ids reported on since the last round
    pipe,           \* the lines iperf printed and nobody read
    processLock,    \* the holder of _process_lock
    batch,          \* what readlines() returned and is not parsed yet
    pc,             \* where each scrape is
    sinceScrape,    \* rounds since a scrape finished reading
    nextStream,     \* history: the number of the next connection
    owner           \* history: the connection each entry was made for

table == <<output, histograms, connections, samples, parseErrors, evicted, success,
           timeout, lines, replaced, unresolved, quiet>>
child == <<childUp, streams, printed, nextStream>>
vars == <<table, child, pipe, processLock, batch, pc, sinceScrape, owner>>

Table == INSTANCE PeerTable

LineOf == [kind : {"connect", "report"}, peer : Peers, stream : Nat \ {0}]

TypeOK ==
    /\ Table!TypeOK
    /\ childUp \in BOOLEAN
    /\ streams \in [Peers -> Nat]
    /\ printed \subseteq Peers
    /\ pipe \in Seq(LineOf) /\ Len(pipe) <= PipeSize
    /\ processLock \in Scrapers \cup {Nobody}
    /\ batch \in Seq(LineOf)
    /\ pc \in [Scrapers -> {"idle", "read", "parse", "walk"}]
    /\ sinceScrape \in 0..ScrapeGap
    /\ nextStream \in 1..(MaxStreams + 1)
    /\ owner \in [Peers -> Nat]

Init ==
    /\ Table!Init
    /\ childUp = TRUE
    /\ streams = [p \in Peers |-> 0]
    /\ printed = {}
    /\ pipe = <<>>
    /\ processLock = Nobody
    /\ batch = <<>>
    /\ pc = [s \in Scrapers |-> "idle"]
    /\ sinceScrape = 0
    /\ nextStream = 1
    /\ owner = [p \in Peers |-> 0]

-----------------------------------------------------------------------------
(***************************************************************************)
(* The iperf child and its clients.  A write to a full pipe blocks.        *)
(***************************************************************************)
(* Mutation: a write to a full pipe does not wait.                         *)
EmitAnyway(kind, p, stream) ==
    /\ lines + Len(pipe) + Len(batch) < MaxLines
    /\ pipe' = Append(pipe, [kind |-> kind, peer |-> p, stream |-> stream])

Emit(kind, p, stream) ==
    /\ Len(pipe) < PipeSize
    /\ lines + Len(pipe) + Len(batch) < MaxLines
    /\ pipe' = Append(pipe, [kind |-> kind, peer |-> p, stream |-> stream])

Connect(p) ==
    /\ childUp /\ streams[p] = 0
    /\ nextStream <= MaxStreams
    /\ Emit("connect", p, nextStream)
    /\ streams' = [streams EXCEPT ![p] = nextStream]
    /\ nextStream' = nextStream + 1
    /\ printed' = printed \cup {p}
    /\ UNCHANGED <<table, childUp, processLock, batch, pc, sinceScrape, owner>>

PrintReport(p) ==
    /\ childUp /\ streams[p] # 0
    /\ p \notin printed
    /\ Emit("report", p, streams[p])
    /\ printed' = printed \cup {p}
    /\ UNCHANGED <<table, childUp, streams, nextStream, processLock, batch, pc,
                   sinceScrape, owner>>

Disconnect(p) ==
    /\ streams[p] # 0
    /\ streams' = [streams EXCEPT ![p] = 0]
    /\ UNCHANGED <<table, childUp, printed, nextStream, pipe, processLock, batch, pc,
                   sinceScrape, owner>>

ChildExits ==
    /\ childUp
    /\ childUp' = FALSE
    /\ streams' = [p \in Peers |-> 0]
    /\ UNCHANGED <<table, printed, nextStream, pipe, processLock, batch, pc,
                   sinceScrape, owner>>

-----------------------------------------------------------------------------
(***************************************************************************)
(* ensure_running finds the child dead: its pipe is closed with what is in *)
(* it, and a new child starts.  By the watchdog, or at the start of a      *)
(* scrape.                                                                 *)
(***************************************************************************)
Restart ==
    /\ processLock = Nobody
    /\ ~childUp
    /\ childUp' = TRUE
    /\ pipe' = <<>>

WatchdogRestarts ==
    /\ Restart
    /\ UNCHANGED <<table, streams, printed, nextStream, processLock, batch, pc,
                   sinceScrape, owner>>

BeginScrape(s) ==
    /\ pc[s] = "idle"
    /\ pc' = [pc EXCEPT ![s] = "read"]
    /\ \/ Restart
       \/ /\ processLock = Nobody
          /\ childUp
          /\ UNCHANGED <<childUp, pipe>>
    /\ UNCHANGED <<table, streams, printed, nextStream, processLock, batch,
                   sinceScrape, owner>>

(* Mutation: nothing is read while no peer is retained.                    *)
BeginReadForPeers(s) ==
    /\ pc[s] = "read"
    /\ processLock = Nobody
    /\ processLock' = s
    /\ IF DOMAIN output = {}
       THEN UNCHANGED <<batch, pipe>>
       ELSE batch' = pipe /\ pipe' = <<>>
    /\ pc' = [pc EXCEPT ![s] = "parse"]
    /\ UNCHANGED <<table, child, sinceScrape, owner>>

(* read_output: with the lock, everything that is in the pipe.             *)
BeginRead(s) ==
    /\ pc[s] = "read"
    /\ processLock = Nobody
    /\ processLock' = s
    /\ batch' = pipe
    /\ pipe' = <<>>
    /\ pc' = [pc EXCEPT ![s] = "parse"]
    /\ UNCHANGED <<table, child, sinceScrape, owner>>

(* Mutation: an announced peer id that is retained is left alone.          *)
ParseConnectOfNewPeer(line) ==
    /\ line.kind = "connect"
    /\ IF line.peer \in DOMAIN output
       THEN Table!RejectedLine /\ UNCHANGED owner
       ELSE Table!NewConnection(line.peer) /\ owner' = [owner EXCEPT ![line.peer] = line.stream]

ParseConnect(line) ==
    /\ line.kind = "connect"
    /\ Table!NewConnection(line.peer)
    /\ owner' = [owner EXCEPT ![line.peer] = line.stream]

ParseReport(line) ==
    /\ line.kind = "report"
    /\ \/ Table!Report(line.peer)
       \/ line.peer \notin DOMAIN output /\ Table!RejectedLine
    /\ UNCHANGED owner

ParseLine(s) ==
    /\ pc[s] = "parse"
    /\ batch # <<>>
    /\ ParseConnect(Head(batch)) \/ ParseReport(Head(batch))
    /\ batch' = Tail(batch)
    /\ UNCHANGED <<child, pipe, processLock, pc, sinceScrape>>

FinishRead(s) ==
    /\ pc[s] = "parse"
    /\ batch = <<>>
    /\ processLock' = Nobody
    /\ sinceScrape' = 0
    /\ pc' = [pc EXCEPT ![s] = "walk"]
    /\ UNCHANGED <<table, child, pipe, batch, owner>>

(* The families are exported, or RuntimeError fails the scrape (PeerWalk). *)
FinishScrape(s) ==
    /\ pc[s] = "walk"
    /\ pc' = [pc EXCEPT ![s] = "idle"]
    /\ UNCHANGED <<table, child, pipe, processLock, batch, sinceScrape, owner>>

-----------------------------------------------------------------------------
(* A round of the cleanup thread, one second after the last: whoever is    *)
(* connected was reported on, and a scrape came in time.                   *)
Round ==
    /\ \A p \in Peers : streams[p] # 0 => p \in printed \/ Len(pipe) = PipeSize
    /\ sinceScrape < ScrapeGap
    /\ sinceScrape' = sinceScrape + 1
    /\ printed' = {}
    /\ Table!CleanupTick
    /\ UNCHANGED <<childUp, streams, nextStream, pipe, processLock, batch, pc, owner>>

Scrape(s) == BeginRead(s) \/ ParseLine(s) \/ FinishRead(s) \/ FinishScrape(s)

Next ==
    \/ \E p \in Peers : Connect(p) \/ PrintReport(p) \/ Disconnect(p)
    \/ ChildExits \/ WatchdogRestarts
    \/ \E s \in Scrapers : BeginScrape(s) \/ Scrape(s)
    \/ Round

Spec == Init /\ [][Next]_vars

(* Prometheus scrapes for ever, and a scrape that was begun makes progress.*)
FairSpec ==
    /\ Spec
    /\ \A s \in Scrapers :
          /\ SF_vars(BeginScrape(s))
          /\ SF_vars(BeginRead(s))
          /\ WF_vars(ParseLine(s)) /\ WF_vars(FinishRead(s)) /\ WF_vars(FinishScrape(s))

-----------------------------------------------------------------------------
(***************************************************************************)
(* Properties                                                              *)
(***************************************************************************)

(* A stream that is connected and being reported on is never evicted, as   *)
(* long as scrapes come often enough for the TTL and the pipe does not     *)
(* fill up in between: its entry is there from the moment its announcement *)
(* was parsed until the child or the client goes away.  An entry evicted   *)
(* too early never comes back: iperf announces a connection once, and its  *)
(* later reports are parse errors.                                         *)
(* A scrape may take its batch at once and parse it a whole gap later, so  *)
(* up to 2 * ScrapeGap + 1 rounds pass between two refreshes of an entry.  *)
ActivePeersRetained ==
    \A p \in Peers : streams[p] # 0 /\ owner[p] = streams[p] => p \in DOMAIN output

(* A report reaches the entry of the connection it is about, though peer   *)
(* ids are used again after a disconnect and by a restarted child, entries *)
(* of ended connections are retained, and unread lines are lost.           *)
ReportsReachTheirConnection ==
    batch # <<>> /\ Head(batch).kind = "report" /\ Head(batch).peer \in DOMAIN output
        => owner[Head(batch).peer] = Head(batch).stream

(* An iperf that is blocked on a full pipe is read from: it does not stall *)
(* while somebody scrapes.                                                 *)
BlockedChildResumes == Len(pipe) = PipeSize ~> Len(pipe) < PipeSize
=============================================================================
