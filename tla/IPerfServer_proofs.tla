------------------------ MODULE IPerfServer_proofs ------------------------
(***************************************************************************)
(* Proofs about IPerfServer for any peers, scrapers, TTL, gap between      *)
(* scrapes and sizes of the pipe.                                          *)
(***************************************************************************)
EXTENDS IPerfServer, Integers, SequenceTheorems, TLAPS

(* What is proved of the table holds in the server, whose steps are its.   *)
TableProofs == INSTANCE PeerTable_proofs WITH
                   at <- "idle", dict <- {}, shared <- FALSE, size <- 0, seen <- {}, began <- {}

(* The types that are not the table's.                                     *)
ChildTypes ==
    /\ childUp \in BOOLEAN
    /\ streams \in [Peers -> Nat]
    /\ printed \subseteq Peers
    /\ nextStream \in 1..(MaxStreams + 1)
    /\ owner \in [Peers -> Nat]

ScrapeTypes ==
    /\ pipe \in Seq(LineOf) /\ Len(pipe) <= PipeSize
    /\ batch \in Seq(LineOf)
    /\ processLock \in Scrapers \cup {Nobody}
    /\ pc \in [Scrapers -> {"idle", "read", "parse", "walk"}]
    /\ sinceScrape \in 0..ScrapeGap

(* One scrape parses at a time, the one that holds the lock; nothing is    *)
(* read while it is free.  A dead child serves nobody.                     *)
LockInv ==
    /\ \A s \in Scrapers : pc[s] = "parse" <=> processLock = s
    /\ processLock = Nobody => batch = <<>>
    /\ childUp = FALSE => \A p \in Peers : streams[p] = 0

(* The lines that will be parsed, in this order, unless the pipe is lost.  *)
Unread == batch \o pipe

ConnectLine(p, stream) == [kind |-> "connect", peer |-> p, stream |-> stream]

(* A report is about the connection that owns its entry, or is announced   *)
(* between here and the report; so is a stream that is served.             *)
Announced(u, ow, i) ==
    u[i].kind = "report" =>
        \/ ow[u[i].peer] = u[i].stream
        \/ \E j \in 1..(i - 1) : u[j] = ConnectLine(u[i].peer, u[i].stream)

Served(u, st, ow, p) ==
    st[p] # 0 =>
        \/ ow[p] = st[p]
        \/ \E j \in DOMAIN u : u[j] = ConnectLine(p, st[p])

(* The connections of a peer id follow one another in the order of their   *)
(* numbers: the one that owns the entry, those that are unread, the one    *)
(* that is served, and those to come.                                      *)
InRange(line, st, ow, next) ==
    /\ line.stream < next
    /\ st[line.peer] # 0 => line.stream <= st[line.peer]
    /\ line.kind = "connect" => ow[line.peer] < line.stream

InOrder(first, second) ==
    first.peer = second.peer =>
        /\ first.stream <= second.stream
        /\ second.kind = "connect" => first.stream < second.stream

(* u is unread, st is served, ow owns the entries, next is the next number.*)
Orderly(u, st, ow, next) ==
    /\ \A p \in Peers : st[p] < next /\ ow[p] < next /\ Served(u, st, ow, p)
    /\ \A i \in DOMAIN u : InRange(u[i], st, ow, next) /\ Announced(u, ow, i)
    /\ \A i, j \in DOMAIN u : i < j => InOrder(u[i], u[j])

StreamInv == Orderly(Unread, streams, owner, nextStream)

USE ServerAssumption
-----------------------------------------------------------------------------
(* The table goes through its own steps only,                              *)
LEMMA TableStep ==
  ASSUME batch \in Seq(LineOf), [Next]_vars
  PROVE  [TableProofs!Next]_(TableProofs!vars)
<1> USE DEF TableProofs!vars, TableProofs!tableVars, TableProofs!historyVars
<1>1. ASSUME UNCHANGED table PROVE UNCHANGED TableProofs!vars
  BY <1>1 DEF table
<1>2. ASSUME NEW p \in Peers, Connect(p) \/ PrintReport(p) \/ Disconnect(p)
      PROVE  UNCHANGED table
  BY <1>2 DEF Connect, PrintReport, Disconnect
<1>3. ASSUME NEW s \in Scrapers, BeginScrape(s) \/ BeginRead(s) \/ FinishRead(s) \/ FinishScrape(s)
      PROVE  UNCHANGED table
  BY <1>3 DEF BeginScrape, BeginRead, FinishRead, FinishScrape
<1>4. CASE ChildExits \/ WatchdogRestarts \/ UNCHANGED vars
  BY <1>1, <1>4 DEF ChildExits, WatchdogRestarts, vars
<1>5. ASSUME NEW p, Table!NewConnection(p) PROVE TableProofs!NewConnection(p)
  BY <1>5 DEF Table!NewConnection, TableProofs!NewConnection, Table!Read, TableProofs!Read,
     Table!Put, TableProofs!Put, Table!Retained, TableProofs!Retained
<1>6. ASSUME NEW p, Table!Report(p) PROVE TableProofs!Report(p)
  BY <1>6 DEF Table!Report, TableProofs!Report, Table!Read, TableProofs!Read, Table!Heard,
     TableProofs!Heard, Table!Retained, TableProofs!Retained, Table!FirstReport,
     TableProofs!FirstReport
<1>7. ASSUME Table!RejectedLine PROVE TableProofs!RejectedLine
  BY <1>7 DEF Table!RejectedLine, TableProofs!RejectedLine, Table!Read, TableProofs!Read
<1>8. ASSUME Table!CleanupTick PROVE TableProofs!CleanupTick
  <2>1. Table!Retained = TableProofs!Retained
    BY DEF Table!Retained, TableProofs!Retained
  <2>2. \A p : Table!Aged(p) = TableProofs!Aged(p)
    BY DEF Table!Aged, TableProofs!Aged
  <2>3. Table!Expired = TableProofs!Expired
    BY <2>1, <2>2 DEF Table!Expired, TableProofs!Expired
  <2>4. Table!RemainingHistograms = TableProofs!RemainingHistograms
    BY <2>1, <2>3 DEF Table!RemainingHistograms, TableProofs!RemainingHistograms
  <2>5. \A rounds : Table!Older(rounds) = TableProofs!Older(rounds)
    BY DEF Table!Older, TableProofs!Older
  <2>6. \A S : /\ Table!Cardinality(S) = TableProofs!Cardinality(S)
               /\ Table!Counted(S) = TableProofs!Counted(S)
    BY DEF Table!Counted, TableProofs!Counted, Table!Cardinality, TableProofs!Cardinality
  <2>7. [p \in Table!Retained \ Table!Expired |-> Table!Aged(p)]
          = [p \in TableProofs!Retained \ TableProofs!Expired |-> TableProofs!Aged(p)]
    BY <2>1, <2>2, <2>3
  <2>8. [p \in Table!Retained \ Table!Expired |-> Table!Older(quiet[p])]
          = [p \in TableProofs!Retained \ TableProofs!Expired |-> TableProofs!Older(quiet[p])]
    BY <2>1, <2>3, <2>5
  <2> QED
    BY <1>8, <2>3, <2>4, <2>6, <2>7, <2>8 DEF Table!CleanupTick, TableProofs!CleanupTick
<1>9. ASSUME NEW s \in Scrapers, ParseLine(s) PROVE TableProofs!Next
  <2>1. Head(batch) \in LineOf
    BY <1>9, HeadTailProperties DEF ParseLine
  <2>2. Head(batch).peer \in Peers
    BY <2>1 DEF LineOf
  <2> QED
    BY <1>5, <1>6, <1>7, <1>9, <2>2 DEF ParseLine, ParseConnect, ParseReport,
       TableProofs!Next, TableProofs!Line
<1>10. CASE Round
  BY <1>8, <1>10 DEF Round, TableProofs!Next
<1> QED
  BY <1>1, <1>2, <1>3, <1>4, <1>9, <1>10 DEF Next, Scrape

-----------------------------------------------------------------------------
Own == ChildTypes /\ ScrapeTypes /\ LockInv

LEMMA OwnInit == Init => Own
<1> SUFFICES ASSUME Init PROVE Own
  OBVIOUS
<1> USE DEF Init
<1>1. ChildTypes
  BY DEF ChildTypes
<1>2. ScrapeTypes
  BY EmptySeq DEF ScrapeTypes
<1>3. LockInv
  BY DEF LockInv
<1> QED
  BY <1>1, <1>2, <1>3 DEF Own

(* A line that is printed is appended, if it fits.                         *)
LEMMA EmitTypes ==
  ASSUME ScrapeTypes, NEW kind \in {"connect", "report"}, NEW p \in Peers,
         NEW stream \in Nat \ {0}, Emit(kind, p, stream)
  PROVE  pipe' \in Seq(LineOf) /\ Len(pipe') <= PipeSize
<1>1. [kind |-> kind, peer |-> p, stream |-> stream] \in LineOf
  BY DEF LineOf
<1>2. pipe \in Seq(LineOf) /\ Len(pipe) \in Nat /\ Len(pipe) < PipeSize
  BY LenProperties DEF ScrapeTypes, Emit
<1> QED
  BY <1>1, <1>2, AppendProperties DEF Emit

LEMMA OwnStep == Own /\ [Next]_vars => Own'
<1> SUFFICES ASSUME Own, [Next]_vars PROVE ChildTypes' /\ ScrapeTypes' /\ LockInv'
  BY DEF Own
<1>0. ChildTypes /\ ScrapeTypes /\ LockInv
  BY DEF Own
<1> USE DEF child
<1>1. ASSUME NEW p \in Peers, Connect(p) PROVE ChildTypes' /\ ScrapeTypes' /\ LockInv'
  <2>1. nextStream \in Nat \ {0} /\ Emit("connect", p, nextStream)
    BY <1>0, <1>1 DEF ChildTypes, Connect
  <2>2. ChildTypes'
    BY <1>0, <1>1, <2>1 DEF ChildTypes, Connect
  <2>3. ScrapeTypes'
    BY <1>0, <1>1, <2>1, EmitTypes DEF ScrapeTypes, Connect
  <2>4. LockInv'
    BY <1>0, <1>1 DEF LockInv, Connect
  <2> QED
    BY <2>2, <2>3, <2>4
<1>2. ASSUME NEW p \in Peers, PrintReport(p) PROVE ChildTypes' /\ ScrapeTypes' /\ LockInv'
  <2>1. streams[p] \in Nat \ {0} /\ Emit("report", p, streams[p])
    BY <1>0, <1>2 DEF ChildTypes, PrintReport
  <2>2. ChildTypes'
    BY <1>0, <1>2 DEF ChildTypes, PrintReport
  <2>3. ScrapeTypes'
    BY <1>0, <1>2, <2>1, EmitTypes DEF ScrapeTypes, PrintReport
  <2>4. LockInv'
    BY <1>0, <1>2 DEF LockInv, PrintReport
  <2> QED
    BY <2>2, <2>3, <2>4
<1>3. ASSUME NEW p \in Peers, Disconnect(p) PROVE ChildTypes' /\ ScrapeTypes' /\ LockInv'
  BY <1>0, <1>3 DEF ChildTypes, ScrapeTypes, LockInv, Disconnect
<1>4. CASE ChildExits
  BY <1>0, <1>4 DEF ChildTypes, ScrapeTypes, LockInv, ChildExits
<1>5. CASE WatchdogRestarts
  <2>1. <<>> \in Seq(LineOf) /\ Len(<<>>) = 0
    BY EmptySeq
  <2> QED
    BY <1>0, <1>5, <2>1 DEF ChildTypes, ScrapeTypes, LockInv, WatchdogRestarts, Restart
<1>6. ASSUME NEW s \in Scrapers, BeginScrape(s) PROVE ChildTypes' /\ ScrapeTypes' /\ LockInv'
  <2>1. <<>> \in Seq(LineOf) /\ Len(<<>>) = 0
    BY EmptySeq
  <2>2. \/ pipe' = <<>> /\ childUp' = TRUE
        \/ UNCHANGED <<pipe, childUp>>
    BY <1>6 DEF BeginScrape, Restart
  <2>3. /\ pc' = [pc EXCEPT ![s] = "read"] /\ pc[s] = "idle"
        /\ UNCHANGED <<streams, printed, nextStream, owner, processLock, batch, sinceScrape>>
    BY <1>6 DEF BeginScrape
  <2>a. ChildTypes'
    <3>1. childUp' = TRUE \/ childUp' = childUp
      BY <2>2
    <3>2. childUp' \in BOOLEAN
      BY <1>0, <3>1 DEF ChildTypes
    <3> QED
      BY <1>0, <2>3, <3>2 DEF ChildTypes
  <2>b. ScrapeTypes'
    <3>1. pipe' = <<>> \/ pipe' = pipe
      BY <2>2
    <3>2. pipe' \in Seq(LineOf) /\ Len(pipe') <= PipeSize
      <4>1. CASE pipe' = <<>>
        BY <2>1, <4>1
      <4>2. CASE pipe' = pipe
        BY <1>0, <4>2 DEF ScrapeTypes
      <4> QED
        BY <3>1, <4>1, <4>2
    <3> QED
      BY <1>0, <2>3, <3>2 DEF ScrapeTypes
  <2>4. ChildTypes' /\ ScrapeTypes'
    BY <2>a, <2>b
  <2>5. LockInv'
    BY <1>0, <2>2, <2>3 DEF LockInv, ScrapeTypes
  <2> QED
    BY <2>4, <2>5
<1>7. ASSUME NEW s \in Scrapers, BeginRead(s) PROVE ChildTypes' /\ ScrapeTypes' /\ LockInv'
  <2>1. <<>> \in Seq(LineOf) /\ Len(<<>>) = 0
    BY EmptySeq
  <2>2. ChildTypes' /\ ScrapeTypes'
    BY <1>0, <1>7, <2>1 DEF ChildTypes, ScrapeTypes, BeginRead
  <2>3. LockInv'
    BY <1>0, <1>7 DEF LockInv, ScrapeTypes, BeginRead
  <2> QED
    BY <2>2, <2>3
<1>8. ASSUME NEW s \in Scrapers, ParseLine(s) PROVE ChildTypes' /\ ScrapeTypes' /\ LockInv'
  <2>1. Head(batch) \in LineOf /\ Tail(batch) \in Seq(LineOf)
    BY <1>0, <1>8, HeadTailProperties DEF ScrapeTypes, ParseLine
  <2>2. Head(batch).stream \in Nat
    BY <2>1 DEF LineOf
  <2>3. owner' \in [Peers -> Nat]
    BY <1>0, <1>8, <2>2 DEF ChildTypes, ScrapeTypes, ParseLine, ParseConnect, ParseReport
  <2>4. /\ UNCHANGED <<child, pipe, processLock, pc, sinceScrape>> /\ batch' = Tail(batch)
        /\ pc[s] = "parse"
    BY <1>8 DEF ParseLine
  <2>5. ChildTypes' /\ ScrapeTypes'
    BY <1>0, <2>1, <2>3, <2>4 DEF ChildTypes, ScrapeTypes
  <2>6. LockInv'
    BY <1>0, <2>4 DEF LockInv
  <2> QED
    BY <2>5, <2>6
<1>9. ASSUME NEW s \in Scrapers, FinishRead(s) PROVE ChildTypes' /\ ScrapeTypes' /\ LockInv'
  <2>1. ChildTypes' /\ ScrapeTypes'
    BY <1>0, <1>9 DEF ChildTypes, ScrapeTypes, FinishRead
  <2>2. LockInv'
    BY <1>0, <1>9 DEF LockInv, ScrapeTypes, FinishRead
  <2> QED
    BY <2>1, <2>2
<1>10. ASSUME NEW s \in Scrapers, FinishScrape(s) PROVE ChildTypes' /\ ScrapeTypes' /\ LockInv'
  BY <1>0, <1>10 DEF ChildTypes, ScrapeTypes, LockInv, FinishScrape
<1>11. CASE Round
  BY <1>0, <1>11 DEF ChildTypes, ScrapeTypes, LockInv, Round
<1>12. CASE UNCHANGED vars
  BY <1>0, <1>12 DEF ChildTypes, ScrapeTypes, LockInv, vars
<1> QED
  BY <1>1, <1>2, <1>3, <1>4, <1>5, <1>6, <1>7, <1>8, <1>9, <1>10, <1>11, <1>12 DEF Next, Scrape

LEMMA SpecOwn == Spec => []Own
BY OwnInit, OwnStep, PTL DEF Spec

-----------------------------------------------------------------------------
(* The server runs the table as PeerTable says, whatever lines iperf has   *)
(* printed, lost or repeated: what holds of the table holds here.          *)
THEOREM ServerRunsTable == Spec => TableProofs!Spec
<1>1. Init => TableProofs!Init
  BY DEF Init, Table!Init, TableProofs!Init, Table!Empty, TableProofs!Empty
<1>2. Own /\ [Next]_vars => [TableProofs!Next]_(TableProofs!vars)
  BY TableStep DEF Own, ScrapeTypes
<1> QED
  BY <1>1, <1>2, SpecOwn, PTL DEF Spec, TableProofs!Spec

LEMMA SpecTable == Spec => []TableProofs!Inv
<1>1. TableProofs!TableAssumption
  BY DEF TableProofs!TableAssumption
<1>2. TableProofs!Spec => []TableProofs!Inv
  BY <1>1, TableProofs!SpecInv
<1> QED
  BY <1>2, ServerRunsTable, PTL

(* The types, the table's among them.                                      *)
THEOREM TypeCorrect == Spec => []TypeOK
<1>1. TableProofs!Inv => Table!TypeOK
  BY DEF TableProofs!Inv, TableProofs!TypeOK, Table!TypeOK, TableProofs!Retained, Table!Retained,
     TableProofs!Entry, Table!Entry
<1>2. Table!TypeOK /\ Own => TypeOK
  BY DEF Own, ChildTypes, ScrapeTypes, TypeOK
<1> QED
  BY <1>1, <1>2, SpecOwn, SpecTable, PTL

-----------------------------------------------------------------------------
(* What the steps of a connection do to the order of the lines.  iperf     *)
(* announces connection next, or reports on one that it serves.            *)
Prints(line, st, next, st2, next2) ==
    /\ next <= next2 /\ line.stream < next2
    /\ st2[line.peer] = line.stream
    /\ \A q \in Peers \ {line.peer} : st2[q] = st[q]
    /\ \/ line.kind = "connect" /\ line.stream = next
       \/ line.kind = "report" /\ line.stream = st[line.peer]

LEMMA OrderAppend ==
  ASSUME NEW u \in Seq(LineOf), NEW st \in [Peers -> Nat], NEW ow \in [Peers -> Nat],
         NEW next \in Nat, Orderly(u, st, ow, next),
         NEW st2 \in [Peers -> Nat], NEW next2 \in Nat, NEW line \in LineOf,
         Prints(line, st, next, st2, next2)
  PROVE  Orderly(Append(u, line), st2, ow, next2)
<1> PICK p \in Peers : p = line.peer
  BY DEF LineOf
<1> USE DEF Prints
<1> DEFINE n == Len(u)
           v == Append(u, line)
<1>1. /\ n \in Nat /\ DOMAIN u = 1..n /\ \A i \in 1..n : u[i] \in LineOf
  BY LenProperties, ElementOfSeq
<1>2. /\ v \in Seq(LineOf) /\ Len(v) = n + 1 /\ v[n + 1] = line
      /\ \A i \in 1..n : v[i] = u[i]
  BY AppendProperties
<1>3. DOMAIN v = 1..(n + 1)
  BY <1>2, LenProperties
<1> HIDE DEF v, n
<1>4. \A i \in 1..(n + 1) : i \in 1..n \/ i = n + 1
  BY <1>1
<1>5. \A i \in 1..n : i \in 1..(n + 1) /\ i < n + 1 /\ \A j \in 1..(i - 1) : j \in 1..n
  BY <1>1
<1>6. line.stream \in Nat \ {0} /\ \A i \in 1..n : u[i].peer \in Peers /\ u[i].stream \in Nat \ {0}
  BY <1>1 DEF LineOf
<1>7. \A i \in 1..n : /\ u[i].stream < next
                      /\ st[u[i].peer] # 0 => u[i].stream <= st[u[i].peer]
                      /\ u[i].kind = "connect" => ow[u[i].peer] < u[i].stream
  BY <1>1 DEF Orderly, InRange
(* The new line is the last of its peer.                                   *)
<1>8. \A i \in 1..n : u[i].peer = p => /\ u[i].stream <= line.stream
                                       /\ line.kind = "connect" => u[i].stream < line.stream
  BY <1>6, <1>7
<1>9. ASSUME NEW q \in Peers PROVE st2[q] < next2 /\ ow[q] < next2
  <2>1. st[q] < next /\ ow[q] < next
    BY DEF Orderly
  <2>2. st[q] \in Nat /\ ow[q] \in Nat
    OBVIOUS
  <2>3. st[q] < next2 /\ ow[q] < next2
    BY <2>1, <2>2
  <2>4. st2[q] < next2
    <3>1. CASE q = p
      BY <3>1
    <3>2. CASE q # p
      BY <2>3, <3>2
    <3> QED
      BY <3>1, <3>2
  <2> QED
    BY <2>3, <2>4
<1>10. ASSUME NEW q \in Peers PROVE Served(v, st2, ow, q)
  <2>1. Served(u, st, ow, q)
    BY DEF Orderly
  <2>2. CASE q # p
    BY <1>1, <1>2, <1>3, <1>5, <2>1, <2>2 DEF Served
  <2>3. CASE q = p /\ line.kind = "report"
    <3>1. st2[q] = st[q]
      BY <2>3
    <3> QED
      BY <1>1, <1>2, <1>3, <1>5, <2>1, <3>1 DEF Served
  <2>4. CASE q = p /\ line.kind = "connect"
    <3>1. line = ConnectLine(q, st2[q])
      BY <2>4 DEF LineOf, ConnectLine
    <3>2. n + 1 \in DOMAIN v
      BY <1>1, <1>3
    <3> QED
      BY <1>2, <3>1, <3>2 DEF Served
  <2> QED
    BY <2>2, <2>3, <2>4 DEF LineOf
<1>11. ASSUME NEW i \in 1..(n + 1) PROVE InRange(v[i], st2, ow, next2)
  <2>1. CASE i \in 1..n
    <3>1. CASE u[i].peer = p
      BY <1>2, <1>6, <1>7, <1>8, <2>1, <3>1 DEF InRange
    <3>2. CASE u[i].peer # p
      BY <1>2, <1>6, <1>7, <2>1, <3>2 DEF InRange
    <3> QED
      BY <3>1, <3>2
  <2>2. CASE i = n + 1
    BY <1>2, <1>6, <2>2 DEF InRange, Orderly
  <2> QED
    BY <1>4, <2>1, <2>2
<1>12. ASSUME NEW i \in 1..(n + 1) PROVE Announced(v, ow, i)
  <2>1. CASE i \in 1..n
    <3>1. Announced(u, ow, i)
      BY <1>1, <2>1 DEF Orderly
    <3> QED
      BY <1>2, <1>5, <2>1, <3>1 DEF Announced
  <2>2. CASE i = n + 1 /\ line.kind = "report"
    <3>1. st[p] # 0 /\ Served(u, st, ow, p)
      BY <1>6, <2>2 DEF Orderly
    <3>2. ow[p] = line.stream \/ \E j \in 1..n : u[j] = ConnectLine(p, line.stream)
      BY <1>1, <2>2, <3>1 DEF Served
    <3>3. i - 1 = n
      BY <1>1, <2>2
    <3> QED
      BY <1>2, <2>2, <3>2, <3>3 DEF Announced
  <2>3. CASE i = n + 1 /\ line.kind = "connect"
    BY <1>2, <2>3 DEF Announced
  <2> QED
    BY <1>4, <2>1, <2>2, <2>3 DEF LineOf
<1>13. ASSUME NEW i \in 1..(n + 1), NEW j \in 1..(n + 1), i < j PROVE InOrder(v[i], v[j])
  <2>0. i \in 1..n
    BY <1>1, <1>13
  <2>1. CASE j \in 1..n
    BY <1>1, <1>2, <1>13, <2>0, <2>1 DEF Orderly
  <2>2. CASE j = n + 1
    BY <1>2, <1>8, <2>0, <2>2 DEF InOrder
  <2> QED
    BY <1>4, <2>1, <2>2
<1> QED
  BY <1>3, <1>9, <1>10, <1>11, <1>12, <1>13 DEF Orderly, v

LEMMA OrderTail ==
  ASSUME NEW u \in Seq(LineOf), NEW st \in [Peers -> Nat], NEW ow \in [Peers -> Nat],
         NEW next \in Nat, Orderly(u, st, ow, next), u # <<>>,
         NEW ow2 \in [Peers -> Nat],
         \/ u[1].kind = "connect" /\ ow2 = [ow EXCEPT ![u[1].peer] = u[1].stream]
         \/ u[1].kind = "report" /\ ow2 = ow
  PROVE  Orderly(Tail(u), st, ow2, next)
<1> DEFINE n == Len(u)
           v == Tail(u)
<1>1. /\ n \in Nat \ {0} /\ DOMAIN u = 1..n /\ \A i \in 1..n : u[i] \in LineOf
  BY LenProperties, ElementOfSeq, EmptySeq
<1>2. /\ v \in Seq(LineOf) /\ Len(v) = n - 1
      /\ \A i \in 1..(n - 1) : v[i] = u[i + 1]
  BY HeadTailProperties
<1>3. DOMAIN v = 1..(n - 1)
  BY <1>2, LenProperties
<1> HIDE DEF v, n
<1>4. 1 \in 1..n /\ \A i \in 1..(n - 1) : i + 1 \in 1..n /\ 1 < i + 1
  BY <1>1
<1>5. \A i \in 1..n : u[i].peer \in Peers /\ u[i].stream \in Nat \ {0}
  BY <1>1 DEF LineOf
<1>6. \A i \in 1..n : /\ u[i].stream < next
                      /\ st[u[i].peer] # 0 => u[i].stream <= st[u[i].peer]
                      /\ u[i].kind = "connect" => ow[u[i].peer] < u[i].stream
  BY <1>1 DEF Orderly, InRange
(* The first line comes before the others of its peer.                     *)
<1>7. \A i \in 1..(n - 1) : u[i + 1].peer = u[1].peer =>
          /\ u[1].stream <= u[i + 1].stream
          /\ u[i + 1].kind = "connect" => u[1].stream < u[i + 1].stream
  BY <1>1, <1>4 DEF Orderly, InOrder
<1>8. \A q \in Peers : q # u[1].peer => ow2[q] = ow[q]
  BY <1>4, <1>5
<1>9. \A q \in Peers : st[q] < next /\ ow2[q] < next
  BY <1>4, <1>5, <1>6 DEF Orderly
(* A witness further on stays; the first line was no other one's.          *)
<1>10. ASSUME NEW q \in Peers, NEW s \in Nat, NEW m \in 1..n, m > 1,
              ow[q] = s \/ \E j \in 1..(m - 1) : u[j] = ConnectLine(q, s),
              u[1].peer = q => u[1].stream <= s
       PROVE  ow2[q] = s \/ \E j \in 1..(m - 2) : v[j] = ConnectLine(q, s)
  <2>1. CASE ow[q] = s
    <3>1. CASE u[1].peer = q /\ u[1].kind = "connect"
      <4>1. ow[q] < u[1].stream
        BY <1>4, <1>6, <3>1
      <4> QED
        BY <1>4, <1>5, <1>10, <2>1, <3>1, <4>1
    <3>2. CASE u[1].peer # q \/ u[1].kind = "report"
      BY <1>4, <1>5, <1>8, <2>1, <3>2
    <3> QED
      BY <3>1, <3>2
  <2>2. CASE \E j \in 1..(m - 1) : u[j] = ConnectLine(q, s)
    <3>1. PICK j \in 1..(m - 1) : u[j] = ConnectLine(q, s)
      BY <2>2
    <3>2. CASE j = 1
      <4>1. u[1].kind = "connect" /\ u[1].peer = q /\ u[1].stream = s
        BY <3>1, <3>2 DEF ConnectLine
      <4> QED
        BY <4>1
    <3>3. CASE j # 1
      <4>1. j - 1 \in 1..(m - 2) /\ j - 1 \in 1..(n - 1) /\ (j - 1) + 1 = j
        BY <1>1, <3>3
      <4>2. v[j - 1] = u[j]
        BY <1>2, <4>1
      <4> QED
        BY <3>1, <4>1, <4>2
    <3> QED
      BY <3>2, <3>3
  <2> QED
    BY <1>10, <2>1, <2>2
<1>11. ASSUME NEW q \in Peers PROVE Served(v, st, ow2, q)
  <2> SUFFICES ASSUME st[q] # 0 PROVE ow2[q] = st[q] \/ \E j \in DOMAIN v : v[j] = ConnectLine(q, st[q])
    BY DEF Served
  <2>1. ow[q] = st[q] \/ \E j \in 1..n : u[j] = ConnectLine(q, st[q])
    BY <1>1 DEF Orderly, Served
  <2>2. u[1].peer = q => u[1].stream <= st[q]
    BY <1>4, <1>6
  <2>3. CASE ow[q] = st[q]
    <3>1. ~(u[1].peer = q /\ u[1].kind = "connect")
      BY <1>4, <1>5, <1>6, <2>2, <2>3
    <3> QED
      BY <1>4, <1>5, <1>8, <2>3, <3>1
  <2>4. CASE \E j \in 1..n : u[j] = ConnectLine(q, st[q])
    <3>1. PICK j \in 1..n : u[j] = ConnectLine(q, st[q])
      BY <2>4
    <3>2. CASE j = 1
      <4>1. u[1].kind = "connect" /\ u[1].peer = q /\ u[1].stream = st[q]
        BY <3>1, <3>2 DEF ConnectLine
      <4> QED
        BY <4>1
    <3>3. CASE j # 1
      <4>1. j - 1 \in 1..(n - 1) /\ (j - 1) + 1 = j
        BY <1>1, <3>3
      <4> QED
        BY <1>2, <1>3, <3>1, <4>1
    <3> QED
      BY <3>2, <3>3
  <2> QED
    BY <2>1, <2>3, <2>4
<1>12. ASSUME NEW i \in 1..(n - 1) PROVE InRange(v[i], st, ow2, next)
  <2>1. v[i] = u[i + 1] /\ i + 1 \in 1..n
    BY <1>2, <1>4
  <2>2. CASE u[i + 1].peer = u[1].peer
    BY <1>4, <1>5, <1>6, <1>7, <2>1, <2>2 DEF InRange
  <2>3. CASE u[i + 1].peer # u[1].peer
    BY <1>5, <1>6, <1>8, <2>1, <2>3 DEF InRange
  <2> QED
    BY <2>2, <2>3
<1>13. ASSUME NEW i \in 1..(n - 1) PROVE Announced(v, ow2, i)
  <2> DEFINE line == u[i + 1]
  <2>1. v[i] = line /\ i + 1 \in 1..n /\ i + 1 > 1 /\ (i + 1) - 1 = i /\ (i + 1) - 2 = i - 1
    BY <1>2, <1>4
  <2>2. line.peer \in Peers /\ line.stream \in Nat
    BY <1>5, <2>1
  <2>3. u[1].peer = line.peer => u[1].stream <= line.stream
    BY <1>7
  <2>4. Announced(u, ow, i + 1)
    BY <1>1, <2>1 DEF Orderly
  <2> SUFFICES ASSUME line.kind = "report"
               PROVE  \/ ow2[line.peer] = line.stream
                      \/ \E j \in 1..(i - 1) : v[j] = ConnectLine(line.peer, line.stream)
    BY <2>1 DEF Announced
  <2>5. \/ ow[line.peer] = line.stream
        \/ \E j \in 1..((i + 1) - 1) : u[j] = ConnectLine(line.peer, line.stream)
    BY <2>4 DEF Announced
  <2> HIDE DEF line
  <2>6. \/ ow2[line.peer] = line.stream
        \/ \E j \in 1..((i + 1) - 2) : v[j] = ConnectLine(line.peer, line.stream)
    BY <1>10, <2>1, <2>2, <2>3, <2>5
  <2> QED
    BY <2>1, <2>6
<1>14. ASSUME NEW i \in 1..(n - 1), NEW j \in 1..(n - 1), i < j PROVE InOrder(v[i], v[j])
  <2>1. v[i] = u[i + 1] /\ v[j] = u[j + 1] /\ i + 1 \in 1..n /\ j + 1 \in 1..n /\ i + 1 < j + 1
    BY <1>1, <1>2, <1>14
  <2> QED
    BY <1>1, <2>1 DEF Orderly
<1> QED
  BY <1>3, <1>9, <1>11, <1>12, <1>13, <1>14 DEF Orderly, v

LEMMA OrderDrop ==
  ASSUME NEW u \in Seq(LineOf), NEW st \in [Peers -> Nat], NEW ow \in [Peers -> Nat],
         NEW next \in Nat, Orderly(u, st, ow, next), NEW st2 \in [Peers -> Nat],
         \A q \in Peers : st2[q] = 0 \/ st2[q] = st[q]
  PROVE  Orderly(u, st2, ow, next)
<1>1. \A i \in DOMAIN u : u[i] \in LineOf
  BY LenProperties, ElementOfSeq
<1>2. \A i \in DOMAIN u : InRange(u[i], st2, ow, next)
  <2> SUFFICES ASSUME NEW i \in DOMAIN u PROVE InRange(u[i], st2, ow, next)
    OBVIOUS
  <2>1. u[i].peer \in Peers /\ InRange(u[i], st, ow, next)
    BY <1>1 DEF Orderly, LineOf
  <2> QED
    BY <2>1 DEF InRange
<1>3. \A q \in Peers : st2[q] < next /\ ow[q] < next /\ Served(u, st2, ow, q)
  BY DEF Orderly, Served
<1> QED
  BY <1>2, <1>3 DEF Orderly

LEMMA OrderLost ==
  ASSUME NEW u, NEW st \in [Peers -> Nat], NEW ow \in [Peers -> Nat], NEW next \in Nat,
         Orderly(u, st, ow, next), \A q \in Peers : st[q] = 0
  PROVE  Orderly(<<>>, st, ow, next)
<1>1. DOMAIN <<>> = {}
  OBVIOUS
<1> QED
  BY <1>1 DEF Orderly, Served

-----------------------------------------------------------------------------
(* What the steps of the server do to the lines that are unread.           *)
LEMMA UnreadTyped ==
  ASSUME Own
  PROVE  batch \in Seq(LineOf) /\ pipe \in Seq(LineOf) /\ Unread \in Seq(LineOf)
BY ConcatProperties DEF Own, ScrapeTypes, Unread

LEMMA UnreadPrinted ==
  ASSUME Own, NEW line \in LineOf, pipe' = Append(pipe, line), batch' = batch
  PROVE  Unread' = Append(Unread, line)
<1>1. batch \in Seq(LineOf) /\ pipe \in Seq(LineOf) /\ Unread \in Seq(LineOf)
  BY UnreadTyped
<1>2. <<line>> \in Seq(LineOf)
  OBVIOUS
<1>3. Append(pipe, line) = pipe \o <<line>> /\ Append(Unread, line) = Unread \o <<line>>
  BY <1>1, AppendIsConcat
<1>4. (batch \o pipe) \o <<line>> = batch \o (pipe \o <<line>>)
  BY <1>1, <1>2, ConcatAssociative
<1> QED
  BY <1>3, <1>4 DEF Unread

LEMMA UnreadParsed ==
  ASSUME Own, batch # <<>>, batch' = Tail(batch), pipe' = pipe
  PROVE  /\ Head(batch) \in LineOf
         /\ Unread # <<>> /\ Unread[1] = Head(batch)
         /\ Unread' = Tail(Unread)
<1> DEFINE b == batch
           c == pipe
           u == Unread
           t == Tail(batch)
<1>1. b \in Seq(LineOf) /\ c \in Seq(LineOf) /\ u \in Seq(LineOf)
  BY UnreadTyped
<1>2. /\ Head(batch) \in LineOf /\ Head(batch) = b[1]
      /\ t \in Seq(LineOf) /\ Len(t) = Len(b) - 1
      /\ \A i \in 1..Len(t) : t[i] = b[i + 1]
  BY <1>1, HeadTailProperties
<1>3. Len(b) \in Nat \ {0} /\ Len(c) \in Nat
  BY <1>1, EmptySeq, LenProperties
<1>4. /\ Len(u) = Len(b) + Len(c)
      /\ \A i \in 1..(Len(b) + Len(c)) : u[i] = IF i <= Len(b) THEN b[i] ELSE c[i - Len(b)]
  BY <1>1, ConcatProperties DEF Unread
<1>5. u # <<>> /\ u[1] = b[1]
  <2>1. Len(u) # 0 /\ 1 \in 1..(Len(b) + Len(c)) /\ 1 <= Len(b)
    BY <1>3, <1>4
  <2>2. u # <<>>
    BY <2>1, EmptySeq
  <2> QED
    BY <1>4, <2>1, <2>2
<1>6. /\ t \o c \in Seq(LineOf) /\ Len(t \o c) = Len(t) + Len(c)
      /\ \A i \in 1..(Len(t) + Len(c)) : (t \o c)[i] = IF i <= Len(t) THEN t[i] ELSE c[i - Len(t)]
  BY <1>1, <1>2, ConcatProperties
<1>7. /\ Tail(u) \in Seq(LineOf) /\ Len(Tail(u)) = Len(u) - 1
      /\ \A i \in 1..Len(Tail(u)) : Tail(u)[i] = u[i + 1]
  BY <1>1, <1>5, HeadTailProperties
<1>8. Len(t \o c) = Len(Tail(u))
  BY <1>2, <1>3, <1>4, <1>6, <1>7
<1>9. t \o c = Tail(u)
  <2> DEFINE v == t \o c
             w == Tail(u)
  <2>1. ASSUME NEW i \in 1..Len(v) PROVE v[i] = w[i]
    <3>1. /\ i \in 1..(Len(t) + Len(c)) /\ i \in 1..Len(w)
          /\ i + 1 \in 1..(Len(b) + Len(c))
          /\ i <= Len(t) <=> i + 1 <= Len(b)
          /\ i - Len(t) = (i + 1) - Len(b)
      BY <1>2, <1>3, <1>6, <1>8
    <3>2. w[i] = u[i + 1]
      BY <1>7, <3>1
    <3>3. CASE i <= Len(t)
      <4>1. v[i] = t[i] /\ u[i + 1] = b[i + 1]
        BY <1>4, <1>6, <3>1, <3>3
      <4>2. i \in 1..Len(t)
        BY <1>2, <1>3, <3>1, <3>3
      <4> QED
        BY <1>2, <3>2, <4>1, <4>2
    <3>4. CASE ~(i <= Len(t))
      BY <1>4, <1>6, <3>1, <3>2, <3>4
    <3> QED
      BY <3>3, <3>4
  <2>2. v \in Seq(LineOf) /\ w \in Seq(LineOf) /\ Len(v) = Len(w)
    BY <1>6, <1>7, <1>8
  <2> HIDE DEF v, w
  <2>3. v = w
    BY <2>1, <2>2, SeqEqual
  <2> QED
    BY <2>3 DEF v, w
<1>10. Unread' = t \o c
  BY DEF Unread
<1> QED
  BY <1>2, <1>5, <1>9, <1>10

LEMMA UnreadTaken ==
  ASSUME Own, batch = <<>>, batch' = pipe, pipe' = <<>>
  PROVE  Unread' = Unread
BY ConcatEmptySeq DEF Own, ScrapeTypes, Unread

LEMMA UnreadLost ==
  ASSUME Own, Restart, batch' = batch, owner' = owner, nextStream' = nextStream,
         streams' = streams, StreamInv
  PROVE  StreamInv'
<1>1. batch = <<>> /\ pipe' = <<>> /\ \A p \in Peers : streams[p] = 0
  BY DEF Restart, Own, LockInv
<1>2. <<>> \in Seq(LineOf)
  BY EmptySeq
<1>3. Unread' = <<>>
  BY <1>1, <1>2, ConcatEmptySeq DEF Unread
<1>4. streams \in [Peers -> Nat] /\ owner \in [Peers -> Nat] /\ nextStream \in Nat
  BY DEF Own, ChildTypes
<1>5. Orderly(<<>>, streams, owner, nextStream)
  BY <1>1, <1>4, OrderLost DEF StreamInv
<1> QED
  BY <1>3, <1>5 DEF StreamInv

LEMMA StreamInit == Init => StreamInv
<1> SUFFICES ASSUME Init PROVE StreamInv
  OBVIOUS
<1>1. <<>> \in Seq(LineOf) /\ DOMAIN <<>> = {}
  BY EmptySeq
<1>2. Unread = <<>>
  BY <1>1, ConcatEmptySeq DEF Init, Unread
<1>3. \A p \in Peers : streams[p] = 0 /\ owner[p] = 0 /\ nextStream = 1
  BY DEF Init
<1> QED
  BY <1>1, <1>2, <1>3 DEF StreamInv, Orderly, Served

LEMMA StreamStep == Own /\ StreamInv /\ [Next]_vars => StreamInv'
<1> SUFFICES ASSUME Own, StreamInv, [Next]_vars PROVE StreamInv'
  OBVIOUS
<1>1. /\ streams \in [Peers -> Nat] /\ owner \in [Peers -> Nat] /\ nextStream \in Nat \ {0}
      /\ Unread \in Seq(LineOf) /\ Orderly(Unread, streams, owner, nextStream)
  BY UnreadTyped DEF Own, ChildTypes, StreamInv
<1>2. /\ streams' \in [Peers -> Nat] /\ owner' \in [Peers -> Nat] /\ nextStream' \in Nat
  BY OwnStep DEF Own, ChildTypes
<1> DEFINE Still == Unread' = Unread /\ owner' = owner /\ nextStream' = nextStream
<1>3. ASSUME Still, streams' = streams PROVE StreamInv'
  BY <1>3 DEF StreamInv
<1>4. ASSUME Still, \A q \in Peers : streams'[q] = 0 \/ streams'[q] = streams[q] PROVE StreamInv'
  <2>1. Orderly(Unread, streams', owner, nextStream)
    BY <1>1, <1>2, <1>4, OrderDrop
  <2> QED
    BY <1>4, <2>1 DEF StreamInv
<1> USE DEF child
<1>5. ASSUME NEW p \in Peers, Connect(p) PROVE StreamInv'
  <2> DEFINE line == ConnectLine(p, nextStream)
  <2>1. /\ line \in LineOf /\ line.peer = p /\ line.stream = nextStream /\ line.kind = "connect"
    BY <1>1 DEF ConnectLine, LineOf
  <2>2. /\ pipe' = Append(pipe, line) /\ batch' = batch
        /\ streams' = [streams EXCEPT ![p] = nextStream] /\ owner' = owner
        /\ nextStream' = nextStream + 1
    BY <1>5 DEF Connect, Emit, ConnectLine
  <2>3. Unread' = Append(Unread, line)
    BY <2>1, <2>2, UnreadPrinted
  <2>4. Prints(line, streams, nextStream, streams', nextStream')
    BY <1>1, <2>1, <2>2 DEF Prints
  <2>5. Orderly(Append(Unread, line), streams', owner, nextStream')
    BY <1>1, <1>2, <2>1, <2>4, OrderAppend
  <2> QED
    BY <2>2, <2>3, <2>5 DEF StreamInv
<1>6. ASSUME NEW p \in Peers, PrintReport(p) PROVE StreamInv'
  <2> DEFINE line == [kind |-> "report", peer |-> p, stream |-> streams[p]]
  <2>1. /\ line \in LineOf /\ line.peer = p /\ line.stream = streams[p] /\ line.kind = "report"
    BY <1>1, <1>6 DEF LineOf, PrintReport
  <2>2. /\ pipe' = Append(pipe, line) /\ batch' = batch
        /\ streams' = streams /\ owner' = owner /\ nextStream' = nextStream
    BY <1>6 DEF PrintReport, Emit
  <2>3. Unread' = Append(Unread, line)
    BY <2>1, <2>2, UnreadPrinted
  <2>4. streams[p] < nextStream
    BY <1>1 DEF Orderly
  <2>5. Prints(line, streams, nextStream, streams, nextStream)
    BY <1>1, <2>1, <2>4 DEF Prints
  <2>6. Orderly(Append(Unread, line), streams, owner, nextStream)
    BY <1>1, <2>1, <2>5, OrderAppend
  <2> QED
    BY <2>2, <2>3, <2>6 DEF StreamInv
<1>7. ASSUME NEW p \in Peers, Disconnect(p) PROVE StreamInv'
  BY <1>1, <1>4, <1>7 DEF Disconnect, Unread
<1>8. CASE ChildExits
  BY <1>4, <1>8 DEF ChildExits, Unread
<1>9. CASE WatchdogRestarts
  BY <1>9, UnreadLost DEF WatchdogRestarts
<1>10. ASSUME NEW s \in Scrapers, BeginScrape(s) PROVE StreamInv'
  <2>1. CASE Restart
    BY <1>10, <2>1, UnreadLost DEF BeginScrape
  <2>2. CASE UNCHANGED <<childUp, pipe>>
    BY <1>3, <1>10, <2>2 DEF BeginScrape, Unread
  <2> QED
    BY <1>10, <2>1, <2>2 DEF BeginScrape
<1>11. ASSUME NEW s \in Scrapers, BeginRead(s) PROVE StreamInv'
  <2>1. batch = <<>> /\ batch' = pipe /\ pipe' = <<>>
    BY <1>11 DEF BeginRead, Own, LockInv
  <2>2. Unread' = Unread
    BY <2>1, UnreadTaken
  <2> QED
    BY <1>3, <1>11, <2>2 DEF BeginRead
<1>12. ASSUME NEW s \in Scrapers, ParseLine(s) PROVE StreamInv'
  <2>1. /\ batch # <<>> /\ batch' = Tail(batch) /\ pipe' = pipe
        /\ streams' = streams /\ nextStream' = nextStream
    BY <1>12 DEF ParseLine
  <2>2. Unread # <<>> /\ Unread[1] = Head(batch) /\ Unread' = Tail(Unread)
    BY <2>1, UnreadParsed
  <2>3. \/ Head(batch).kind = "connect"
           /\ owner' = [owner EXCEPT ![Head(batch).peer] = Head(batch).stream]
        \/ Head(batch).kind = "report" /\ owner' = owner
    BY <1>12 DEF ParseLine, ParseConnect, ParseReport
  <2>4. Orderly(Tail(Unread), streams, owner', nextStream)
    BY <1>1, <1>2, <2>2, <2>3, OrderTail
  <2> QED
    BY <2>1, <2>2, <2>4 DEF StreamInv
<1>13. ASSUME NEW s \in Scrapers, FinishRead(s) \/ FinishScrape(s) PROVE StreamInv'
  BY <1>3, <1>13 DEF FinishRead, FinishScrape, Unread
<1>14. CASE Round \/ UNCHANGED vars
  BY <1>3, <1>14 DEF Round, vars, Unread
<1> QED
  BY <1>5, <1>6, <1>7, <1>8, <1>9, <1>10, <1>11, <1>12, <1>13, <1>14 DEF Next, Scrape

LEMMA SpecStreams == Spec => []StreamInv
BY StreamInit, StreamStep, SpecOwn, PTL DEF Spec

(* A report is stored with the connection it is about: the announcement    *)
(* that owns the entry is the last one before the report.                  *)
THEOREM ReportsReach == Spec => []ReportsReachTheirConnection
<1>1. ASSUME Own, StreamInv, batch # <<>>, Head(batch).kind = "report"
      PROVE  owner[Head(batch).peer] = Head(batch).stream
  <2>1. batch \in Seq(LineOf) /\ pipe \in Seq(LineOf)
    BY <1>1, UnreadTyped
  <2>2. Len(batch) \in Nat \ {0} /\ Len(pipe) \in Nat
    BY <1>1, <2>1, EmptySeq, LenProperties
  <2>3. Unread \in Seq(LineOf) /\ 1 \in 1..Len(Unread) /\ Unread[1] = batch[1]
    BY <2>1, <2>2, ConcatProperties DEF Unread
  <2>4. Announced(Unread, owner, 1)
    BY <1>1, <2>3, LenProperties DEF StreamInv, Orderly
  <2>5. 1..(1 - 1) = {} /\ Head(batch) = batch[1]
    OBVIOUS
  <2> QED
    BY <1>1, <2>3, <2>4, <2>5 DEF Announced
<1>2. Own /\ StreamInv => ReportsReachTheirConnection
  BY <1>1 DEF ReportsReachTheirConnection
<1> QED
  BY <1>2, SpecOwn, SpecStreams, PTL

-----------------------------------------------------------------------------
(* The peers that lines are about, the rounds that are left until a scrape *)
(* must have finished, and the gap that may follow it before the lines     *)
(* that were left in the pipe are read.                                    *)
Speaking(s) == {s[i].peer : i \in DOMAIN s}
Left == ScrapeGap - sinceScrape
Held == IF processLock = Nobody THEN 0 ELSE ScrapeGap

Active(p) == streams[p] # 0 /\ owner[p] = streams[p]

(* The entry of p outlasts what is left until its next refresh: its line   *)
(* is being parsed, waits in the pipe, or is yet to be printed.            *)
Lasting(p) ==
    /\ p \in DOMAIN output
    /\ p \in Speaking(batch) => output[p].ttl > Left
    /\ p \in Speaking(pipe) /\ p \notin Speaking(batch) => output[p].ttl > Left + Held
    /\ p \notin Speaking(batch) /\ p \notin Speaking(pipe) =>
          /\ output[p].ttl >= MetricTTL - 1
          /\ p \in printed => output[p].ttl >= MetricTTL

ActiveInv == \A p \in Peers : Active(p) => Lasting(p)

LEMMA SpeakingAppend ==
  ASSUME NEW s \in Seq(LineOf), NEW line \in LineOf
  PROVE  Speaking(Append(s, line)) = Speaking(s) \cup {line.peer}
<1> DEFINE n == Len(s)
           t == Append(s, line)
<1>1. n \in Nat /\ DOMAIN s = 1..n
  BY LenProperties
<1>2. /\ t \in Seq(LineOf) /\ Len(t) = n + 1 /\ t[n + 1] = line
      /\ \A i \in 1..n : t[i] = s[i]
  BY AppendProperties
<1>3. DOMAIN t = 1..(n + 1)
  BY <1>2, LenProperties
<1>4. 1..(n + 1) = 1..n \cup {n + 1}
  BY <1>1
<1> HIDE DEF n, t
<1>5. Speaking(t) = {t[i].peer : i \in 1..n \cup {n + 1}} /\ Speaking(s) = {s[i].peer : i \in 1..n}
  BY <1>1, <1>3, <1>4 DEF Speaking
<1>6. {t[i].peer : i \in 1..n \cup {n + 1}} = {s[i].peer : i \in 1..n} \cup {line.peer}
  BY <1>2
<1> QED
  BY <1>5, <1>6 DEF t

LEMMA SpeakingTail ==
  ASSUME NEW s \in Seq(LineOf), s # <<>>
  PROVE  Speaking(s) = Speaking(Tail(s)) \cup {Head(s).peer}
<1> DEFINE n == Len(s)
           t == Tail(s)
           h == Head(s)
<1>1. n \in Nat \ {0} /\ DOMAIN s = 1..n /\ h = s[1]
  BY EmptySeq, LenProperties
<1>2. t \in Seq(LineOf) /\ Len(t) = n - 1 /\ \A i \in 1..(n - 1) : t[i] = s[i + 1]
  BY HeadTailProperties
<1>3. DOMAIN t = 1..(n - 1)
  BY <1>2, LenProperties
<1> HIDE DEF n, t, h
<1>4. ASSUME NEW x \in Speaking(s) PROVE x \in Speaking(t) \cup {h.peer}
  <2>1. PICK i \in 1..n : x = s[i].peer
    BY <1>1, <1>4 DEF Speaking
  <2>2. CASE i = 1
    BY <1>1, <2>1, <2>2
  <2>3. CASE i # 1
    <3>1. i - 1 \in 1..(n - 1) /\ (i - 1) + 1 = i
      BY <1>1, <2>3
    <3>2. t[i - 1] = s[i]
      BY <1>2, <3>1
    <3> QED
      BY <1>3, <2>1, <3>1, <3>2 DEF Speaking
  <2> QED
    BY <2>2, <2>3
<1>5. ASSUME NEW x \in Speaking(t) PROVE x \in Speaking(s)
  <2>1. PICK i \in 1..(n - 1) : x = t[i].peer
    BY <1>3, <1>5 DEF Speaking
  <2>2. i + 1 \in 1..n
    BY <1>1
  <2> QED
    BY <1>1, <1>2, <2>1, <2>2 DEF Speaking
<1>6. h.peer \in Speaking(s)
  <2>1. 1 \in DOMAIN s
    BY <1>1
  <2> QED
    BY <1>1, <2>1 DEF Speaking
<1>7. Speaking(s) = Speaking(t) \cup {h.peer}
  BY <1>4, <1>5, <1>6
<1> QED
  BY <1>7 DEF t, h

LEMMA SpeakingEmpty == Speaking(<<>>) = {}
BY DEF Speaking

LEMMA ActiveStep ==
  ASSUME Own, TableProofs!Inv, StreamInv, ActiveInv, [Next]_vars,
         MetricTTL > 2 * ScrapeGap + 1, Len(pipe) < PipeSize
  PROVE  ActiveInv'
<1>1. /\ streams \in [Peers -> Nat] /\ owner \in [Peers -> Nat] /\ printed \subseteq Peers
      /\ batch \in Seq(LineOf) /\ pipe \in Seq(LineOf)
      /\ sinceScrape \in 0..ScrapeGap
  BY DEF Own, ChildTypes, ScrapeTypes
<1>2. \A p \in DOMAIN output : /\ output[p] = [output[p] EXCEPT !.ttl = output[p].ttl]
                               /\ output[p].ttl \in Nat
  BY DEF TableProofs!Inv, TableProofs!TypeOK, TableProofs!Retained, TableProofs!Entry
<1>3. /\ ScrapeGap \in Nat \ {0} /\ MetricTTL \in Nat
      /\ Left \in Nat /\ Left <= ScrapeGap /\ Held \in {0, ScrapeGap}
  BY <1>1 DEF Left, Held
<1> DEFINE Same(p) == /\ p \in DOMAIN output => p \in DOMAIN output' /\ output'[p] = output[p]
                      /\ Left' = Left /\ Held' = Held
                      /\ p \in printed' <=> p \in printed
                      /\ p \in Speaking(batch)' <=> p \in Speaking(batch)
                      /\ p \in Speaking(pipe)' <=> p \in Speaking(pipe)
<1>4. ASSUME NEW p \in Peers, Lasting(p), Same(p) PROVE Lasting(p)'
  BY <1>4 DEF Lasting
<1> HIDE DEF Same
<1>5. ASSUME UNCHANGED <<table, streams, owner, printed, batch, pipe, sinceScrape, processLock>>
      PROVE  ActiveInv'
  <2>1. \A p \in Peers : Same(p) /\ Active(p)' = Active(p)
    BY <1>5 DEF Same, Active, Left, Held, table
  <2> QED
    BY <1>4, <2>1 DEF ActiveInv
<1>6. ASSUME Restart, streams' = streams PROVE ActiveInv'
  BY <1>6 DEF Restart, Own, LockInv, ActiveInv, Active
<1> USE DEF child
<1>7. ASSUME NEW p \in Peers, Connect(p) PROVE ActiveInv'
  <2>1. owner[p] < nextStream /\ owner[p] \in Nat
    BY <1>1 DEF StreamInv, Orderly
  <2>2. /\ owner' = owner /\ streams' = [streams EXCEPT ![p] = nextStream]
        /\ printed' = printed \cup {p}
        /\ UNCHANGED <<table, batch, sinceScrape, processLock>>
        /\ pipe' = Append(pipe, ConnectLine(p, nextStream))
    BY <1>7 DEF Connect, Emit, ConnectLine
  <2>3. ConnectLine(p, nextStream) \in LineOf /\ ConnectLine(p, nextStream).peer = p
    BY DEF ConnectLine, LineOf, Own, ChildTypes
  <2>4. Speaking(pipe)' = Speaking(pipe) \cup {p}
    BY <1>1, <2>2, <2>3, SpeakingAppend
  <2>5. ~Active(p)'
    BY <1>1, <2>1, <2>2 DEF Active
  <2>6. ASSUME NEW q \in Peers, q # p PROVE Same(q) /\ (Active(q)' <=> Active(q))
    BY <1>1, <2>2, <2>4, <2>6 DEF Same, Active, Left, Held, table
  <2> QED
    BY <1>4, <2>5, <2>6 DEF ActiveInv
<1>8. ASSUME NEW p \in Peers, PrintReport(p) PROVE ActiveInv'
  <2> DEFINE line == [kind |-> "report", peer |-> p, stream |-> streams[p]]
  <2>1. /\ UNCHANGED <<table, streams, owner, batch, sinceScrape, processLock>>
        /\ printed' = printed \cup {p}
        /\ pipe' = Append(pipe, line) /\ streams[p] # 0
    BY <1>8 DEF PrintReport, Emit
  <2>2. line \in LineOf /\ line.peer = p
    BY <1>1, <2>1 DEF LineOf
  <2> HIDE DEF line
  <2>3. Speaking(pipe)' = Speaking(pipe) \cup {p}
    BY <1>1, <2>1, <2>2, SpeakingAppend
  <2>4. \A q \in Peers : Active(q)' <=> Active(q)
    BY <2>1 DEF Active
  <2>5. ASSUME NEW q \in Peers, q # p PROVE Same(q)
    BY <2>1, <2>3, <2>5 DEF Same, Left, Held, table
  <2>6. ASSUME Lasting(p) PROVE Lasting(p)'
    <3>1. p \in DOMAIN output /\ output[p].ttl \in Nat /\ output' = output
      BY <1>2, <2>1, <2>6 DEF Lasting, table
    <3>2. Left' = Left /\ Held' = Held /\ batch' = batch
      BY <2>1 DEF Left, Held
    <3>3. \/ p \in Speaking(batch)
          \/ p \notin Speaking(batch) /\ output[p].ttl > Left + Held
      BY <1>3, <2>6, <3>1 DEF Lasting
    <3> QED
      BY <2>3, <2>6, <3>1, <3>2, <3>3 DEF Lasting
  <2> QED
    BY <1>4, <2>4, <2>5, <2>6 DEF ActiveInv
<1>9. ASSUME NEW p \in Peers, Disconnect(p) PROVE ActiveInv'
  <2>1. /\ owner' = owner /\ streams' = [streams EXCEPT ![p] = 0]
        /\ UNCHANGED <<table, printed, batch, pipe, sinceScrape, processLock>>
    BY <1>9 DEF Disconnect
  <2>2. \A q \in Peers : Same(q) /\ (Active(q)' => Active(q))
    BY <1>1, <2>1 DEF Same, Active, Left, Held, table
  <2> QED
    BY <1>4, <2>2 DEF ActiveInv
<1>10. CASE ChildExits
  BY <1>10 DEF ChildExits, ActiveInv, Active
<1>11. CASE WatchdogRestarts
  BY <1>6, <1>11 DEF WatchdogRestarts
<1>12. ASSUME NEW s \in Scrapers, BeginScrape(s) PROVE ActiveInv'
  <2>1. CASE Restart
    BY <1>6, <1>12, <2>1 DEF BeginScrape
  <2>2. CASE UNCHANGED <<childUp, pipe>>
    BY <1>5, <1>12, <2>2 DEF BeginScrape
  <2> QED
    BY <1>12, <2>1, <2>2 DEF BeginScrape
<1>13. ASSUME NEW s \in Scrapers, BeginRead(s) PROVE ActiveInv'
  <2>1. /\ UNCHANGED <<table, streams, owner, printed, sinceScrape>>
        /\ processLock = Nobody /\ batch = <<>> /\ batch' = pipe /\ pipe' = <<>>
    BY <1>13 DEF BeginRead, Own, LockInv
  <2>2. Speaking(batch) = {} /\ Speaking(batch)' = Speaking(pipe) /\ Speaking(pipe)' = {}
    BY <2>1, SpeakingEmpty
  <2>3. output' = output /\ Left' = Left /\ Held = 0 /\ printed' = printed
    BY <2>1 DEF Left, Held, table
  <2>4. \A p \in Peers : Active(p)' <=> Active(p)
    BY <2>1 DEF Active
  <2>5. ASSUME NEW p \in Peers, Lasting(p) PROVE Lasting(p)'
    BY <1>3, <2>2, <2>3, <2>5 DEF Lasting
  <2> QED
    BY <2>4, <2>5 DEF ActiveInv
<1>14. ASSUME NEW s \in Scrapers, ParseLine(s) PROVE ActiveInv'
  <2> DEFINE line == Head(batch)
  <2>1. /\ batch # <<>> /\ batch' = Tail(batch)
        /\ UNCHANGED <<streams, printed, pipe, sinceScrape, processLock>>
        /\ ParseConnect(line) \/ ParseReport(line)
    BY <1>14 DEF ParseLine
  <2>2. line \in LineOf
    BY <1>1, <2>1, HeadTailProperties
  <2> HIDE DEF line
  <2>3. PICK p \in Peers : p = line.peer
    BY <2>2 DEF LineOf
  <2>4. Speaking(batch) = Speaking(batch)' \cup {p}
    BY <1>1, <2>1, <2>3, SpeakingTail DEF line
  <2>5. Left' = Left /\ Held' = Held
    BY <2>1 DEF Left, Held
  <2>6. \/ p \in DOMAIN output' /\ output'[p].ttl = MetricTTL
        \/ p \notin DOMAIN output /\ owner' = owner
    <3>1. CASE ParseConnect(line)
      BY <2>3, <3>1 DEF ParseConnect, Table!NewConnection, Table!Put
    <3>2. CASE ParseReport(line) /\ Table!Report(p)
      <4>1. p \in DOMAIN output
            /\ output' = [output EXCEPT ![p].ttl = MetricTTL, ![p].reported = TRUE]
        BY <3>2 DEF Table!Report, Table!Retained
      <4>2. output[p] \in TableProofs!Entry
        BY <4>1 DEF TableProofs!Inv, TableProofs!TypeOK, TableProofs!Retained
      <4> QED
        BY <4>1, <4>2 DEF TableProofs!Entry
    <3>3. CASE ParseReport(line) /\ p \notin DOMAIN output
      BY <3>3 DEF ParseReport
    <3> QED
      BY <2>1, <2>3, <3>1, <3>2, <3>3 DEF ParseReport
  <2>7. ASSUME NEW q \in Peers, q # p
        PROVE  /\ q \in DOMAIN output => q \in DOMAIN output' /\ output'[q] = output[q]
               /\ owner'[q] = owner[q]
    <3>1. CASE ParseConnect(line)
      BY <1>1, <2>3, <2>7, <3>1 DEF ParseConnect, Table!NewConnection, Table!Put
    <3>2. CASE ParseReport(line) /\ Table!Report(p)
      BY <2>7, <3>2 DEF ParseReport, Table!Report
    <3>3. CASE ParseReport(line) /\ Table!RejectedLine
      BY <3>3 DEF ParseReport, Table!RejectedLine
    <3> QED
      BY <2>1, <2>3, <3>1, <3>2, <3>3 DEF ParseReport
  <2>8. ASSUME NEW q \in Peers, q # p PROVE Same(q) /\ (Active(q)' <=> Active(q))
    BY <2>1, <2>4, <2>5, <2>7, <2>8 DEF Same, Active
  <2>9. ASSUME Active(p)' PROVE Lasting(p)'
    <3>1. p \in DOMAIN output' /\ output'[p].ttl = MetricTTL
      <4>1. ASSUME p \notin DOMAIN output, owner' = owner PROVE FALSE
        BY <2>1, <2>3, <2>9, <4>1 DEF Active, ActiveInv, Lasting
      <4> QED
        BY <2>6, <4>1
    <3> QED
      BY <1>3, <2>5, <3>1 DEF Lasting
  <2> QED
    BY <1>4, <2>8, <2>9 DEF ActiveInv
<1>15. ASSUME NEW s \in Scrapers, FinishRead(s) PROVE ActiveInv'
  <2>1. /\ UNCHANGED <<table, streams, owner, printed, pipe, batch>>
        /\ batch = <<>> /\ processLock' = Nobody /\ sinceScrape' = 0 /\ processLock # Nobody
    BY <1>15 DEF FinishRead, Own, LockInv
  <2>2. Speaking(batch) = {} /\ Speaking(batch)' = {} /\ Speaking(pipe)' = Speaking(pipe)
    BY <2>1, SpeakingEmpty
  <2>3. /\ output' = output /\ Left' = ScrapeGap /\ Held = ScrapeGap /\ Held' = 0
        /\ printed' = printed
    BY <2>1, <1>3 DEF Left, Held, table
  <2>4. \A p \in Peers : Active(p)' <=> Active(p)
    BY <2>1 DEF Active
  <2>5. ASSUME NEW p \in Peers, Lasting(p) PROVE Lasting(p)'
    <3>1. p \in DOMAIN output /\ output[p].ttl \in Nat
      BY <1>2, <2>5 DEF Lasting
    <3> QED
      BY <1>3, <2>2, <2>3, <2>5, <3>1 DEF Lasting
  <2> QED
    BY <2>4, <2>5 DEF ActiveInv
<1>16. ASSUME NEW s \in Scrapers, FinishScrape(s) PROVE ActiveInv'
  BY <1>5, <1>16 DEF FinishScrape
<1>17. CASE Round
  <2>1. /\ UNCHANGED <<streams, owner, batch, pipe, processLock>>
        /\ printed' = {} /\ Table!CleanupTick
        /\ sinceScrape < ScrapeGap /\ sinceScrape' = sinceScrape + 1
    BY <1>17 DEF Round
  <2>2. Left >= 1 /\ Left' = Left - 1 /\ Held' = Held
    BY <1>1, <1>3, <2>1 DEF Left, Held
  <2>3. \A p \in Peers : streams[p] # 0 => p \in printed
    BY <1>1, <1>17, LenProperties DEF Round
  <2>4. ASSUME NEW p \in DOMAIN output, output[p].ttl >= 2
        PROVE  p \in DOMAIN output' /\ output'[p].ttl = output[p].ttl - 1
    <3>1. output[p] \in TableProofs!Entry
      BY DEF TableProofs!Inv, TableProofs!TypeOK, TableProofs!Retained
    <3>2. Table!Aged(p).ttl = output[p].ttl - 1
      BY <1>2, <2>4, <3>1 DEF Table!Aged, TableProofs!Entry
    <3>3. Table!Aged(p).ttl # 0
      BY <1>2, <2>4, <3>2
    <3>4. p \in Table!Retained \ Table!Expired
      BY <3>3 DEF Table!Retained, Table!Expired
    <3>5. output' = [q \in Table!Retained \ Table!Expired |-> Table!Aged(q)]
      BY <2>1 DEF Table!CleanupTick
    <3> QED
      BY <3>2, <3>4, <3>5
  <2>5. ASSUME NEW p \in Peers, streams[p] # 0, Lasting(p) PROVE Lasting(p)'
    <3>1. p \in DOMAIN output /\ output[p].ttl \in Nat /\ p \in printed
      BY <1>2, <2>3, <2>5 DEF Lasting
    <3>2. output[p].ttl >= 2
      BY <1>3, <2>2, <2>5, <3>1 DEF Lasting
    <3>3. p \in DOMAIN output' /\ output'[p].ttl = output[p].ttl - 1
      BY <2>4, <3>1, <3>2
    <3> QED
      BY <1>3, <2>1, <2>2, <2>5, <3>1, <3>3 DEF Lasting
  <2>6. \A p \in Peers : Active(p)' <=> Active(p)
    BY <2>1 DEF Active
  <2> QED
    BY <2>5, <2>6 DEF ActiveInv, Active
<1>18. CASE UNCHANGED vars
  BY <1>5, <1>18 DEF vars
<1> QED
  BY <1>7, <1>8, <1>9, <1>10, <1>11, <1>12, <1>13, <1>14, <1>15, <1>16, <1>17, <1>18
     DEF Next, Scrape

(* Streams that are served stay in the table, if an entry lives longer     *)
(* than two gaps between scrapes and a round more, and iperf never has to  *)
(* wait for room in the pipe: its line is read at the latest by the scrape *)
(* after the one that is under way, and refreshes the entry.               *)
THEOREM ActiveStreamsStay ==
  ASSUME MetricTTL > 2 * ScrapeGap + 1
  PROVE  Spec /\ [](Len(pipe) < PipeSize) => []ActivePeersRetained
<1>1. Init => ActiveInv
  BY DEF Init, ActiveInv, Active
<1>2. /\ Own /\ TableProofs!Inv /\ StreamInv /\ ActiveInv
      /\ Len(pipe) < PipeSize /\ [Next]_vars
      => ActiveInv'
  BY ActiveStep
<1>3. ActiveInv => ActivePeersRetained
  BY DEF ActiveInv, ActivePeersRetained, Active, Lasting
<1> QED
  BY <1>1, <1>2, <1>3, SpecOwn, SpecTable, SpecStreams, PTL DEF Spec
=============================================================================
