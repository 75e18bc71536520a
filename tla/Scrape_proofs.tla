---------------------------- MODULE Scrape_proofs ----------------------------
(***************************************************************************)
(* Proofs about Scrape for any requests, peers, connections, outputs of ss *)
(* and bounds.                                                             *)
(***************************************************************************)
EXTENDS Scrape, Integers, SequenceTheorems, FiniteSetTheorems, TLAPS

WalkTypes ==
    /\ pc \in [Scrapers -> Points]
    /\ todo \in [Scrapers -> SUBSET PeerIds]
    /\ size \in [Scrapers -> 0..Cardinality(PeerIds)]
    /\ printed \in [Scrapers -> Outputs \cup {<<>>}]
    /\ DOMAIN snapshots = Scrapers /\ DOMAIN samples = Scrapers

PeerTypes ==
    /\ failing \in [Scrapers -> {"none"} \cup Failures]
    /\ DOMAIN output \subseteq PeerIds
    /\ \A p \in DOMAIN output : output[p] \in Connections

(* The counters are bounded by CountInv.                                   *)
HealthTypes ==
    /\ errors \in [Failures -> Nat]
    /\ happened \in [Failures -> Nat] /\ raced \subseteq Failures
    /\ date \in 0..clock
    /\ ssDate \in 0..clock /\ clock \in 1..MaxClock
    /\ goodRuns \subseteq 1..clock /\ reported \in 0..clock

(* A request is about to store the 1 of a first failure exactly while it   *)
(* counts one, and then the failure happened.                              *)
CountingInv ==
    \A s \in Scrapers :
        /\ pc[s] = "count" <=> failing[s] # "none"
        /\ failing[s] # "none" => happened[failing[s]] > 0

Storing(f) == {s \in Scrapers : failing[s] = f}

(* A counter nobody raced for: at most one request is about to store, the  *)
(* first, and what was counted and what it stores is all that happened.    *)
Exact(f) ==
    /\ \A s \in Storing(f) : Storing(f) = {s} /\ errors[f] = 0
    /\ errors[f] + Cardinality(Storing(f)) = happened[f]

CountInv ==
    /\ FailuresSoFar <= MaxFailures
    /\ \A f \in Failures :
          /\ errors[f] <= happened[f]
          /\ happened[f] > Cardinality(Storing(f)) => errors[f] > 0
          /\ f \notin raced => Exact(f)

(* A failure of the sockets that shows, or the gap before a parse failure  *)
(* does.  Once true it stays true: the gap ends with the counting.         *)
SocketFailures == SsReasons \cup {"socket"}
Trouble ==
    \/ \E f \in SocketFailures : errors[f] > 0
    \/ \E s \in Scrapers : Uncounted(s)

(* Each date that may be exported is good, none, or next to a failure.     *)
DateInv ==
    /\ ssDate # 0 => ssDate \in goodRuns \/ Trouble
    /\ ssDate = 0 => date = 0 \/ Trouble
    /\ reported \notin goodRuns \cup {0} => Trouble
    /\ \A s \in Scrapers : pc[s] = "parse" => ssDate # 0

(* What the property says of a sample.                                     *)
Matches(x, lines) ==
    LET row == lines[x.socket.row]
        ownKey == SocketKey(x.connection)
        hasOwnRow == \E i \in OwnRows(lines) : RowKey(lines[i]) = ownKey
    IN  /\ x.socket.row \in OwnRows(lines) /\ LastRow(lines, x.socket.row)
        /\ Normalized(row.peer) = x.connection.peer
        /\ IF hasOwnRow THEN RowKey(row) = ownKey
           ELSE Normalized(row.local).host \in {Wildcards[i] : i \in DOMAIN Wildcards}
        /\ x.socket.detail = IF Proto = "tcp" /\ TextBelow(lines, x.socket.row)
                             THEN x.socket.row + 1 ELSE 0

(* A request works on what its own ss printed, once that was parsed.       *)
Exporting == {"queues", "sockets", "health"}
RequestInv(s) ==
    /\ pc[s] \notin Exporting => samples[s] = {} /\ snapshots[s] = NoSockets
    /\ pc[s] = "parse" => printed[s] \in Outputs
    /\ \/ snapshots[s] = NoSockets
       \/ /\ printed[s] \in Outputs
          /\ ~ParseRaises(Proto, printed[s])
          /\ snapshots[s] = ParseOutput(Proto, printed[s])
    /\ \A x \in samples[s] : Matches(x, printed[s])

SampleInv == \A s \in Scrapers : RequestInv(s)

Types == WalkTypes /\ PeerTypes /\ HealthTypes /\ CountingInv

USE ScrapeAssumption DEF Components, SsReasons, Failures, Walks, Points
-----------------------------------------------------------------------------
(* The requests that fail, in whatever component, and those that do not.   *)
Fails(s, f) ==
    /\ CountFailure(s, f)
    /\ UNCHANGED <<output, ssDate, clock, goodRuns, reported>>
    /\ pc[s] \in {"iperf", "path_trace", "ss", "parse"}
    /\ pc[s] = "parse" => f = "socket" /\ Doomed(s)

GoesOn(s) ==
    \/ BeginScrape(s) \/ ReadIperf(s) \/ TracePaths(s) \/ ParseSs(s)
    \/ VisitPeer(s) \/ EndWalk(s) \/ WalkRaises(s) \/ ExportHealth(s)

LEMMA StepCases ==
  ASSUME [Next]_vars
  PROVE  \/ \E s \in Scrapers :
               \/ \E f \in Failures : Fails(s, f)
               \/ StoreFailure(s) \/ SsPrints(s) \/ GoesOn(s)
         \/ Tick
         \/ UNCHANGED vars
<1>1. ASSUME NEW s \in Scrapers, ComponentRaises(s) PROVE \E f \in Failures : Fails(s, f)
  BY <1>1 DEF ComponentRaises, Fails
<1>2. ASSUME NEW s \in Scrapers, SsFails(s) PROVE \E f \in Failures : Fails(s, f)
  BY <1>2 DEF SsFails, Fails
<1>3. ASSUME NEW s \in Scrapers, ParseSsRaises(s) PROVE \E f \in Failures : Fails(s, f)
  BY <1>3 DEF ParseSsRaises, Fails, Doomed
<1> QED
  BY <1>1, <1>2, <1>3 DEF Next, GoesOn

-----------------------------------------------------------------------------
(* Types.                                                                  *)
LEMMA PeersCounted ==
  ASSUME NEW S \in SUBSET PeerIds
  PROVE  Cardinality(S) \in 0..Cardinality(PeerIds)
BY FS_Subset, FS_CardinalityType

LEMMA EndsTypes ==
  ASSUME WalkTypes, NEW s \in Scrapers, Ends(s)
  PROVE  WalkTypes' /\ pc'[s] = "idle"
<1>1. 0 \in 0..Cardinality(PeerIds)
  BY PeersCounted
<1>2. {} \in SUBSET PeerIds /\ <<>> \in Outputs \cup {<<>>} /\ "idle" \in Points
  OBVIOUS
<1> QED
  BY <1>1, <1>2 DEF WalkTypes, Ends

LEMMA BeginWalkTypes ==
  ASSUME WalkTypes, NEW s \in Scrapers, NEW point \in Points, BeginWalk(s, point),
         DOMAIN output' \subseteq PeerIds, printed' = printed,
         DOMAIN snapshots' = Scrapers, DOMAIN samples' = Scrapers
  PROVE  WalkTypes' /\ pc'[s] = point
<1>1. Cardinality(DOMAIN output') \in 0..Cardinality(PeerIds)
  BY PeersCounted
<1> QED
  BY <1>1 DEF WalkTypes, BeginWalk

LEMMA GotoTypes ==
  ASSUME WalkTypes, NEW s \in Scrapers, NEW point \in Points, Goto(s, point),
         printed' \in [Scrapers -> Outputs \cup {<<>>}],
         DOMAIN snapshots' = Scrapers, DOMAIN samples' = Scrapers
  PROVE  WalkTypes' /\ pc'[s] = point
BY DEF WalkTypes, Goto

LEMMA AfterFailureTypes ==
  ASSUME WalkTypes, PeerTypes, HealthTypes, NEW s \in Scrapers, NEW f \in Failures,
         AfterFailure(s, f), output' = output, clock' = clock
  PROVE  /\ WalkTypes' /\ date' \in 0..clock
         /\ pc'[s] \in {"queues", "idle"}
<1>1. CASE f \in SsReasons
  <2>1. BeginWalk(s, "queues") /\ UNCHANGED <<snapshots, printed, samples>>
    BY <1>1 DEF AfterFailure
  <2>2. DOMAIN output' \subseteq PeerIds /\ DOMAIN snapshots' = Scrapers /\ DOMAIN samples' = Scrapers
    BY <2>1 DEF PeerTypes, WalkTypes
  <2>3. WalkTypes' /\ pc'[s] = "queues"
    BY <2>1, <2>2, BeginWalkTypes
  <2>4. Dated /\ clock \in 0..clock
    BY <1>1 DEF AfterFailure, HealthTypes
  <2> QED
    BY <2>3, <2>4 DEF Dated, HealthTypes
<1>2. CASE f \notin SsReasons
  <2>1. Ends(s) /\ date' = date
    BY <1>2 DEF AfterFailure
  <2> QED
    BY <2>1, EndsTypes DEF HealthTypes
<1> QED
  BY <1>1, <1>2

(* What counting a failure does: it is counted, or will be as the first.   *)
Counts(s, f) ==
    /\ happened' = [happened EXCEPT ![f] = @ + 1]
    /\ raced' = IF \E t \in Scrapers : failing[t] = f THEN raced \cup {f} ELSE raced
    /\ \/ /\ errors[f] > 0
          /\ errors' = [errors EXCEPT ![f] = @ + 1]
          /\ failing' = failing
          /\ pc'[s] \in {"queues", "idle"}
       \/ /\ errors[f] = 0
          /\ errors' = errors
          /\ failing' = [failing EXCEPT ![s] = f]
          /\ pc'[s] = "count"

LEMMA FailsTypes ==
  ASSUME Types, NEW s \in Scrapers, NEW f \in Failures, Fails(s, f)
  PROVE  WalkTypes' /\ PeerTypes' /\ HealthTypes' /\ Counts(s, f)
<1>0. WalkTypes /\ PeerTypes /\ HealthTypes
  BY DEF Types
<1>1. UNCHANGED <<output, ssDate, clock, goodRuns, reported>>
  BY DEF Fails
<1>2. /\ happened' = [happened EXCEPT ![f] = @ + 1] /\ happened' \in [Failures -> Nat]
      /\ raced' = IF \E t \in Scrapers : failing[t] = f THEN raced \cup {f} ELSE raced
      /\ raced' \subseteq Failures
  BY <1>0 DEF Fails, CountFailure, HealthTypes
<1>3. CASE errors[f] > 0 /\ errors' = [errors EXCEPT ![f] = @ + 1] /\ AfterFailure(s, f)
           /\ UNCHANGED failing
  <2>1. /\ WalkTypes' /\ date' \in 0..clock
        /\ pc'[s] \in {"queues", "idle"}
    BY <1>0, <1>1, <1>3, AfterFailureTypes
  <2>2. PeerTypes'
    BY <1>0, <1>1, <1>3 DEF PeerTypes
  <2>3. HealthTypes'
    BY <1>0, <1>1, <1>2, <1>3, <2>1 DEF HealthTypes
  <2> QED
    BY <1>2, <1>3, <2>1, <2>2, <2>3 DEF Counts
<1>4. CASE errors[f] = 0 /\ failing' = [failing EXCEPT ![s] = f] /\ Goto(s, "count")
           /\ UNCHANGED <<errors, date, snapshots, printed, samples>>
  <2>1. WalkTypes' /\ pc'[s] = "count"
    BY <1>0, <1>4, GotoTypes DEF WalkTypes
  <2>2. PeerTypes'
    BY <1>0, <1>1, <1>4 DEF PeerTypes
  <2>3. HealthTypes'
    BY <1>0, <1>1, <1>2, <1>4 DEF HealthTypes
  <2> QED
    BY <1>2, <1>4, <2>1, <2>2, <2>3 DEF Counts
<1> QED
  BY <1>3, <1>4 DEF Fails, CountFailure

LEMMA StoreTypes ==
  ASSUME Types, NEW s \in Scrapers, StoreFailure(s)
  PROVE  /\ WalkTypes' /\ PeerTypes' /\ HealthTypes'
         /\ failing[s] \in Failures /\ pc'[s] \in {"queues", "idle"}
<1>0. WalkTypes /\ PeerTypes /\ HealthTypes /\ CountingInv
  BY DEF Types
<1>1. failing[s] \in Failures
  BY <1>0 DEF StoreFailure, CountingInv, PeerTypes
<1>2. /\ UNCHANGED <<output, ssDate, clock, happened, raced, goodRuns, reported>>
      /\ failing' = [failing EXCEPT ![s] = "none"]
      /\ errors' = [errors EXCEPT ![failing[s]] = 1]
      /\ AfterFailure(s, failing[s])
  BY DEF StoreFailure
<1>3. /\ WalkTypes' /\ date' \in 0..clock
      /\ pc'[s] \in {"queues", "idle"}
  BY <1>0, <1>1, <1>2, AfterFailureTypes
<1>4. PeerTypes'
  BY <1>0, <1>2 DEF PeerTypes
<1>5. HealthTypes'
  BY <1>0, <1>1, <1>2, <1>3 DEF HealthTypes
<1> QED
  BY <1>1, <1>3, <1>4, <1>5

LEMMA PrintsTypes ==
  ASSUME Types, NEW s \in Scrapers, SsPrints(s)
  PROVE  WalkTypes' /\ PeerTypes' /\ HealthTypes' /\ pc'[s] = "parse"
<1>0. WalkTypes /\ PeerTypes /\ HealthTypes
  BY DEF Types
<1>1. printed' \in [Scrapers -> Outputs \cup {<<>>}]
  BY <1>0 DEF SsPrints, WalkTypes
<1>2. WalkTypes' /\ pc'[s] = "parse"
  BY <1>0, <1>1, GotoTypes DEF SsPrints, WalkTypes
<1>3. PeerTypes'
  BY <1>0 DEF SsPrints, PeerTypes
<1>4. HealthTypes'
  <2>1. clock \in 1..clock
    BY <1>0 DEF HealthTypes
  <2>2. goodRuns' \subseteq 1..clock
    BY <1>0, <2>1 DEF HealthTypes, SsPrints
  <2> QED
    BY <1>0, <2>1, <2>2 DEF SsPrints, HealthTypes
<1> QED
  BY <1>2, <1>3, <1>4

(* The other steps of a request are neither at the counters nor at ss.     *)
LEMMA GoesOnTypes ==
  ASSUME Types, NEW s \in Scrapers, GoesOn(s)
  PROVE  /\ WalkTypes' /\ PeerTypes' /\ HealthTypes'
         /\ pc[s] # "count" /\ pc'[s] \notin {"count", "parse"}
         /\ ~Doomed(s)
         /\ UNCHANGED <<errors, happened, raced, failing, clock, ssDate, goodRuns>>
<1>0. WalkTypes /\ PeerTypes /\ HealthTypes
  BY DEF Types
<1>1. clock \in 0..clock
  BY <1>0 DEF HealthTypes
<1>2. /\ pc[s] # "count" /\ ~Doomed(s) /\ failing' = failing
      /\ UNCHANGED <<errors, happened, raced, clock, ssDate, goodRuns>>
  BY DEF GoesOn, BeginScrape, ReadIperf, TracePaths, ParseSs, VisitPeer, EndWalk, WalkRaises,
     ExportHealth, Doomed, healthVars, historyVars
<1>3. HealthTypes'
  <2>2. date' \in 0..clock
    BY <1>0, <1>1 DEF HealthTypes, GoesOn, BeginScrape, ReadIperf, TracePaths, ParseSs,
       VisitPeer, EndWalk, WalkRaises, ExportHealth, healthVars, Dated
  <2>3. reported' \in 0..clock
    BY <1>0, <1>1 DEF HealthTypes, GoesOn, BeginScrape, ReadIperf, TracePaths, ParseSs,
       VisitPeer, EndWalk, WalkRaises, ExportHealth, historyVars, SocketDate
  <2> QED
    BY <1>0, <1>2, <2>2, <2>3 DEF HealthTypes
<1>4. PeerTypes'
  <2>1. CASE ReadIperf(s)
    BY <1>0, <1>2, <2>1 DEF ReadIperf, PeerTypes
  <2>2. CASE ~ReadIperf(s)
    BY <1>0, <1>2, <2>2 DEF PeerTypes, GoesOn, BeginScrape, TracePaths, ParseSs, VisitPeer,
       EndWalk, WalkRaises, ExportHealth
  <2> QED
    BY <2>1, <2>2
<1>5. WalkTypes' /\ pc'[s] \notin {"count", "parse"}
  <2>0. DOMAIN output' \subseteq PeerIds
    BY <1>4 DEF PeerTypes
  <2>1. CASE BeginScrape(s)
    BY <1>0, <2>1, GotoTypes DEF BeginScrape, WalkTypes, historyVars
  <2>2. CASE ReadIperf(s)
    BY <1>0, <2>0, <2>2, BeginWalkTypes DEF ReadIperf, WalkTypes
  <2>3. CASE TracePaths(s)
    BY <1>0, <2>0, <2>3, BeginWalkTypes DEF TracePaths, WalkTypes, historyVars
  <2>4. CASE ParseSs(s)
    BY <1>0, <2>0, <2>4, BeginWalkTypes DEF ParseSs, WalkTypes, historyVars
  <2>5. CASE VisitPeer(s)
    <3>1. /\ todo' \in [Scrapers -> SUBSET PeerIds] /\ DOMAIN samples' = Scrapers
          /\ UNCHANGED <<pc, size, snapshots, printed>> /\ pc[s] \in Walks
      BY <1>0, <2>5 DEF VisitPeer, WalkTypes
    <3> QED
      BY <1>0, <3>1 DEF WalkTypes
  <2>6. CASE EndWalk(s)
    <3>1. CASE BeginWalk(s, "sockets")
      BY <1>0, <2>0, <2>6, <3>1, BeginWalkTypes DEF EndWalk, WalkTypes, historyVars
    <3>2. CASE ~BeginWalk(s, "sockets")
      <4>1. /\ pc' = [pc EXCEPT ![s] = After(pc[s])] /\ size' = [size EXCEPT ![s] = 0]
            /\ UNCHANGED <<todo, snapshots, printed, samples>> /\ pc[s] \in Walks
        BY <2>6, <3>2 DEF EndWalk, historyVars
      <4>2. After(pc[s]) \in {"path_trace", "ss", "sockets", "health"}
        BY <4>1 DEF After
      <4>3. 0 \in 0..Cardinality(PeerIds)
        BY PeersCounted
      <4> QED
        BY <1>0, <4>1, <4>2, <4>3 DEF WalkTypes
    <3> QED
      BY <3>1, <3>2
  <2>7. CASE WalkRaises(s) \/ ExportHealth(s)
    BY <1>0, <2>7, EndsTypes DEF WalkRaises, ExportHealth
  <2> QED
    BY <2>1, <2>2, <2>3, <2>4, <2>5, <2>6, <2>7 DEF GoesOn
<1> QED
  BY <1>2, <1>3, <1>4, <1>5

(* A step of one request leaves the others where they are.                 *)
LEMMA OthersStay ==
  ASSUME Types, NEW s \in Scrapers, NEW t \in Scrapers, s # t,
         (\E f \in Failures : Fails(s, f)) \/ StoreFailure(s) \/ SsPrints(s) \/ GoesOn(s)
  PROVE  /\ pc'[t] = pc[t] /\ failing'[t] = failing[t] /\ printed'[t] = printed[t]
         /\ snapshots'[t] = snapshots[t] /\ samples'[t] = samples[t]
         /\ Doomed(t)' <=> Doomed(t)
<1> DEFINE Stays == /\ pc'[t] = pc[t] /\ failing'[t] = failing[t] /\ printed'[t] = printed[t]
                    /\ snapshots'[t] = snapshots[t] /\ samples'[t] = samples[t]
<1>0. WalkTypes /\ PeerTypes
  BY DEF Types
<1>1. ASSUME NEW f \in Failures, Fails(s, f) PROVE Stays
  BY <1>0, <1>1 DEF Fails, CountFailure, AfterFailure, Ends, Goto, BeginWalk, WalkTypes, PeerTypes
<1>2. ASSUME StoreFailure(s) PROVE Stays
  BY <1>0, <1>2 DEF StoreFailure, AfterFailure, Ends, BeginWalk, WalkTypes, PeerTypes
<1>3. ASSUME SsPrints(s) PROVE Stays
  BY <1>0, <1>3 DEF SsPrints, Goto, WalkTypes, PeerTypes
<1>4. ASSUME GoesOn(s) PROVE Stays
  BY <1>0, <1>4 DEF GoesOn, BeginScrape, ReadIperf, TracePaths, ParseSs, VisitPeer, EndWalk,
     WalkRaises, ExportHealth, Ends, Goto, BeginWalk, WalkTypes, PeerTypes, historyVars
<1> QED
  BY <1>1, <1>2, <1>3, <1>4 DEF Doomed

-----------------------------------------------------------------------------
LEMMA CountingStep ==
  ASSUME Types, [Next]_vars
  PROVE  CountingInv'
<1> SUFFICES ASSUME NEW t \in Scrapers
             PROVE  /\ pc'[t] = "count" <=> failing'[t] # "none"
                    /\ failing'[t] # "none" => happened'[failing'[t]] > 0
  BY DEF CountingInv
<1>0. /\ WalkTypes /\ PeerTypes /\ HealthTypes
      /\ pc[t] = "count" <=> failing[t] # "none"
      /\ failing[t] # "none" => happened[failing[t]] > 0
  BY DEF Types, CountingInv
<1>1. failing[t] # "none" => failing[t] \in Failures
  BY <1>0 DEF PeerTypes
<1>2. ASSUME NEW s \in Scrapers, NEW f \in Failures, Fails(s, f)
      PROVE  /\ pc'[t] = "count" <=> failing'[t] # "none"
             /\ failing'[t] # "none" => happened'[failing'[t]] > 0
  <2>1. Counts(s, f)
    BY <1>2, FailsTypes
  <2>2. \A g \in Failures : happened[g] > 0 => happened'[g] > 0
    BY <1>0, <2>1 DEF Counts, HealthTypes
  <2>3. happened'[f] > 0 /\ f # "none"
    BY <1>0, <2>1 DEF Counts, HealthTypes
  <2>4. CASE s # t
    BY <1>0, <1>1, <1>2, <2>2, <2>4, OthersStay
  <2>5. CASE s = t
    <3>1. failing[t] = "none"
      BY <1>0, <1>2, <2>5 DEF Fails
    <3> QED
      BY <1>0, <2>1, <2>3, <2>5, <3>1 DEF Counts, PeerTypes
  <2> QED
    BY <2>4, <2>5
<1>3. ASSUME NEW s \in Scrapers, StoreFailure(s) \/ SsPrints(s) \/ GoesOn(s)
      PROVE  /\ pc'[t] = "count" <=> failing'[t] # "none"
             /\ failing'[t] # "none" => happened'[failing'[t]] > 0
  <2>1. happened' = happened
    BY <1>3, GoesOnTypes DEF StoreFailure, SsPrints
  <2>2. CASE s # t
    BY <1>0, <1>3, <2>1, <2>2, OthersStay
  <2>3. CASE s = t /\ StoreFailure(s)
    BY <1>0, <2>3, StoreTypes DEF StoreFailure, PeerTypes
  <2>4. CASE s = t /\ SsPrints(s)
    <3>1. pc'[t] = "parse" /\ pc[t] # "count" /\ failing' = failing
      BY <2>4, PrintsTypes DEF SsPrints
    <3> QED
      BY <1>0, <3>1
  <2>5. CASE s = t /\ GoesOn(s)
    BY <1>0, <2>5, GoesOnTypes
  <2> QED
    BY <1>3, <2>2, <2>3, <2>4, <2>5
<1>4. CASE Tick \/ UNCHANGED vars
  BY <1>0, <1>4 DEF Tick, vars, requestVars, historyVars
<1> QED
  BY <1>2, <1>3, <1>4, StepCases

LEMMA TypesInit == Init => Types
<1> SUFFICES ASSUME Init PROVE Types
  OBVIOUS
<1>1. 0 \in 0..Cardinality(PeerIds) /\ {} \in SUBSET PeerIds
  BY PeersCounted
<1>2. WalkTypes
  BY <1>1 DEF Init, WalkTypes
<1>3. PeerTypes
  BY DEF Init, PeerTypes
<1>4. HealthTypes
  BY DEF Init, HealthTypes
<1>5. CountingInv
  BY DEF Init, CountingInv
<1> QED
  BY <1>2, <1>3, <1>4, <1>5 DEF Types

LEMMA TypesStep == Types /\ [Next]_vars => Types'
<1> SUFFICES ASSUME Types, [Next]_vars PROVE Types'
  OBVIOUS
<1>1. CountingInv'
  BY CountingStep
<1>2. ASSUME NEW s \in Scrapers,
             \/ \E f \in Failures : Fails(s, f)
             \/ StoreFailure(s) \/ SsPrints(s) \/ GoesOn(s)
      PROVE  WalkTypes' /\ PeerTypes' /\ HealthTypes'
  BY <1>2, FailsTypes, StoreTypes, PrintsTypes, GoesOnTypes
<1>3. CASE Tick
  <2>1. WalkTypes' /\ PeerTypes'
    BY <1>3 DEF Types, WalkTypes, PeerTypes, Tick, requestVars, historyVars
  <2>2. HealthTypes'
    <3>1. /\ clock \in 1..MaxClock /\ clock' \in 1..MaxClock
          /\ 0..clock \subseteq 0..clock' /\ 1..clock \subseteq 1..clock'
      BY <1>3 DEF Types, HealthTypes, Tick
    <3>2. date \in 0..clock'
      BY <3>1 DEF Types, HealthTypes
    <3> QED
      BY <1>3, <3>1, <3>2 DEF Types, HealthTypes, Tick, healthVars, historyVars
  <2> QED
    BY <1>1, <2>1, <2>2 DEF Types
<1>4. CASE UNCHANGED vars
  BY <1>1, <1>4 DEF Types, WalkTypes, PeerTypes, HealthTypes, vars, requestVars, healthVars, historyVars
<1> QED
  BY <1>1, <1>2, <1>3, <1>4, StepCases DEF Types

-----------------------------------------------------------------------------
(* The counters.                                                           *)
DoomedRequests == {s \in Scrapers : Doomed(s)}
Happened ==
    happened["iperf"] + happened["path_trace"] + happened["socket"]
    + happened["unavailable"] + happened["timeout"] + happened["command"]

LEMMA HappenedStep ==
  ASSUME happened \in [Failures -> Nat], NEW f \in Failures,
         happened' = [happened EXCEPT ![f] = @ + 1]
  PROVE  Happened' = Happened + 1
<1>1. CASE f = "iperf"
  BY <1>1 DEF Happened
<1>2. CASE f = "path_trace"
  BY <1>2 DEF Happened
<1>3. CASE f = "socket"
  BY <1>3 DEF Happened
<1>4. CASE f = "unavailable"
  BY <1>4 DEF Happened
<1>5. CASE f = "timeout"
  BY <1>5 DEF Happened
<1>6. CASE f = "command"
  BY <1>6 DEF Happened
<1> QED
  BY <1>1, <1>2, <1>3, <1>4, <1>5, <1>6

LEMMA Total ==
  ASSUME happened \in [Failures -> Nat]
  PROVE  /\ FailuresSoFar = Happened + Cardinality(DoomedRequests)
         /\ Happened \in Nat /\ Cardinality(DoomedRequests) \in Nat
         /\ IsFiniteSet(DoomedRequests)
         /\ \A f \in Failures : happened[f] <= Happened
<1>1. DoomedRequests \in SUBSET Scrapers
  BY DEF DoomedRequests
<1>2. IsFiniteSet(DoomedRequests) /\ Cardinality(DoomedRequests) \in Nat
  BY <1>1, FS_Subset, FS_CardinalityType
<1>3. \A f \in Failures : happened[f] \in Nat
  OBVIOUS
<1>4. Happened \in Nat /\ \A f \in Failures : happened[f] <= Happened
  BY <1>3 DEF Happened
<1> QED
  BY <1>2, <1>4 DEF FailuresSoFar, Happened, DoomedRequests

(* The requests that count, or are doomed to, are finitely many.           *)
LEMMA AddOne ==
  ASSUME NEW S \in SUBSET Scrapers, NEW s \in Scrapers, s \notin S
  PROVE  Cardinality(S \cup {s}) = Cardinality(S) + 1 /\ Cardinality(S) \in Nat
BY FS_Subset, FS_AddElement, FS_CardinalityType

LEMMA TotalStep ==
  ASSUME Types, FailuresSoFar <= MaxFailures, [Next]_vars
  PROVE  FailuresSoFar' <= MaxFailures
<1>0. WalkTypes /\ happened \in [Failures -> Nat]
  BY DEF Types, HealthTypes
<1>1. happened' \in [Failures -> Nat]
  BY TypesStep DEF Types, HealthTypes
<1>2. /\ FailuresSoFar = Happened + Cardinality(DoomedRequests)
      /\ Happened \in Nat /\ Cardinality(DoomedRequests) \in Nat
  BY <1>0, Total
<1>3. FailuresSoFar' = Happened' + Cardinality(DoomedRequests')
  BY <1>1, Total DEF FailuresSoFar, Happened, DoomedRequests
<1>4. ASSUME happened' = happened, \A t \in Scrapers : Doomed(t)' <=> Doomed(t)
      PROVE  FailuresSoFar' <= MaxFailures
  <2>1. DoomedRequests' = DoomedRequests /\ Happened' = Happened
    BY <1>4 DEF DoomedRequests, Happened
  <2> QED
    BY <1>2, <1>3, <2>1
<1>5. ASSUME NEW s \in Scrapers, NEW f \in Failures, Fails(s, f)
      PROVE  FailuresSoFar' <= MaxFailures
  <2>1. Happened' = Happened + 1
    BY <1>0, <1>5, FailsTypes, HappenedStep DEF Counts
  <2>2. ~Doomed(s)'
    BY <1>5, FailsTypes DEF Counts, Doomed
  <2>3. DoomedRequests' = DoomedRequests \ {s}
    BY <1>5, <2>2, OthersStay DEF DoomedRequests
  <2>4. CASE Doomed(s)
    <3>1. s \in DoomedRequests /\ DoomedRequests' \in SUBSET Scrapers /\ s \notin DoomedRequests'
          /\ DoomedRequests = DoomedRequests' \cup {s}
      BY <2>3, <2>4 DEF DoomedRequests
    <3>2. Cardinality(DoomedRequests) = Cardinality(DoomedRequests') + 1
          /\ Cardinality(DoomedRequests') \in Nat
      BY <3>1, AddOne
    <3> QED
      BY <1>2, <1>3, <2>1, <3>2
  <2>5. CASE ~Doomed(s)
    <3>1. DoomedRequests' = DoomedRequests
      BY <2>3, <2>5 DEF DoomedRequests
    <3>2. FailuresSoFar < MaxFailures
      BY <1>5, <2>5 DEF Fails, CountFailure
    <3> QED
      BY <1>2, <1>3, <2>1, <3>1, <3>2
  <2> QED
    BY <2>4, <2>5
<1>6. ASSUME NEW s \in Scrapers, StoreFailure(s) PROVE FailuresSoFar' <= MaxFailures
  <2>1. ~Doomed(s) /\ ~Doomed(s)' /\ happened' = happened
    BY <1>6, StoreTypes DEF StoreFailure, Doomed
  <2> QED
    BY <1>4, <1>6, <2>1, OthersStay
<1>7. ASSUME NEW s \in Scrapers, SsPrints(s) PROVE FailuresSoFar' <= MaxFailures
  <2>1. ~Doomed(s) /\ happened' = happened
    BY <1>7 DEF SsPrints, Doomed
  <2>2. CASE ~Doomed(s)'
    BY <1>4, <1>7, <2>1, <2>2, OthersStay
  <2>3. CASE Doomed(s)'
    <3>1. DoomedRequests' = DoomedRequests \cup {s} /\ s \notin DoomedRequests
      BY <1>7, <2>1, <2>3, OthersStay DEF DoomedRequests
    <3>2. Cardinality(DoomedRequests') = Cardinality(DoomedRequests) + 1
      BY <3>1, AddOne DEF DoomedRequests
    <3>3. FailuresSoFar < MaxFailures
      BY <1>0, <1>7, <2>3 DEF SsPrints, Doomed, WalkTypes
    <3>4. Happened' = Happened
      BY <2>1 DEF Happened
    <3> QED
      BY <1>2, <1>3, <3>2, <3>3, <3>4
  <2> QED
    BY <2>2, <2>3
<1>8. ASSUME NEW s \in Scrapers, GoesOn(s) PROVE FailuresSoFar' <= MaxFailures
  <2>1. ~Doomed(s) /\ ~Doomed(s)' /\ happened' = happened
    BY <1>8, GoesOnTypes DEF Doomed
  <2> QED
    BY <1>4, <1>8, <2>1, OthersStay
<1>9. CASE Tick \/ UNCHANGED vars
  BY <1>4, <1>9 DEF Tick, vars, requestVars, historyVars, Doomed
<1> QED
  BY <1>5, <1>6, <1>7, <1>8, <1>9, StepCases

LEMMA CountStep == Types /\ CountInv /\ [Next]_vars => CountInv'
<1> SUFFICES ASSUME Types, CountInv, [Next]_vars PROVE CountInv'
  OBVIOUS
<1>1. FailuresSoFar' <= MaxFailures
  BY TotalStep DEF CountInv
<1> SUFFICES ASSUME NEW g \in Failures
             PROVE  /\ errors'[g] <= happened'[g]
                    /\ happened'[g] > Cardinality(Storing(g)') => errors'[g] > 0
                    /\ g \notin raced' => Exact(g)'
  BY <1>1 DEF CountInv
<1> DEFINE Right == /\ errors'[g] <= happened'[g]
                    /\ happened'[g] > Cardinality(Storing(g)') => errors'[g] > 0
                    /\ g \notin raced' => Exact(g)'
<1>0. /\ PeerTypes /\ HealthTypes /\ CountingInv
      /\ errors[g] <= happened[g]
      /\ happened[g] > Cardinality(Storing(g)) => errors[g] > 0
      /\ g \notin raced => Exact(g)
  BY DEF Types, CountInv
<1>2. /\ errors[g] \in Nat /\ happened[g] \in Nat
      /\ Storing(g) \in SUBSET Scrapers /\ Cardinality(Storing(g)) \in Nat
  BY <1>0, FS_Subset, FS_CardinalityType DEF HealthTypes, Storing
<1>3. ASSUME UNCHANGED <<errors, happened, failing, raced>> PROVE Right
  <2>1. Storing(g)' = Storing(g)
    BY <1>3 DEF Storing
  <2> QED
    BY <1>0, <1>3, <2>1 DEF Exact
<1>4. ASSUME NEW s \in Scrapers, NEW f \in Failures, Fails(s, f) PROVE Right
  <2>1. Counts(s, f) /\ failing[s] = "none"
    BY <1>0, <1>4, FailsTypes DEF Fails, CountingInv
  <2>2. CASE f # g
    <3>1. errors'[g] = errors[g] /\ happened'[g] = happened[g] /\ (g \in raced' <=> g \in raced)
      BY <1>0, <2>1, <2>2 DEF Counts, HealthTypes
    <3>2. Storing(g)' = Storing(g)
      BY <1>0, <2>1, <2>2 DEF Counts, Storing, PeerTypes
    <3> QED
      BY <1>0, <3>1, <3>2 DEF Exact
  <2>3. g \notin raced' /\ f = g => g \notin raced /\ Storing(g) = {}
    BY <2>1 DEF Counts, Storing
  <2>4. g \notin raced' /\ f = g => errors[g] = happened[g]
    <3>1. Cardinality({}) = 0
      BY FS_EmptySet
    <3> QED
      BY <1>0, <1>2, <2>3, <3>1 DEF Exact
  <2>5. CASE f = g /\ errors[f] > 0
    <3>1. errors'[g] = errors[g] + 1 /\ happened'[g] = happened[g] + 1
      BY <1>0, <2>1, <2>5 DEF Counts, HealthTypes
    <3>2. Storing(g)' = Storing(g)
      BY <2>1, <2>5 DEF Counts, Storing
    <3>3. g \notin raced' => Exact(g)'
      <4>1. Cardinality({}) = 0
        BY FS_EmptySet
      <4> QED
        BY <1>2, <2>3, <2>4, <2>5, <3>1, <3>2, <4>1 DEF Exact
    <3> QED
      BY <1>0, <1>2, <3>1, <3>3
  <2>6. CASE f = g /\ errors[f] = 0
    <3>1. /\ errors'[g] = 0 /\ happened'[g] = happened[g] + 1
          /\ failing' = [failing EXCEPT ![s] = g]
      BY <1>0, <2>1, <2>6 DEF Counts, HealthTypes
    <3>2. Storing(g)' = Storing(g) \cup {s} /\ s \notin Storing(g)
      BY <1>0, <2>1, <3>1 DEF Storing, PeerTypes
    <3>3. Cardinality(Storing(g)') = Cardinality(Storing(g)) + 1
      BY <1>2, <3>2, AddOne
    <3>4. g \notin raced' => Exact(g)'
      <4>1. g \notin raced' => Storing(g)' = {s} /\ happened[g] = 0 /\ Cardinality(Storing(g)) = 0
        BY <2>3, <2>4, <2>6, <3>2, FS_EmptySet
      <4> QED
        BY <2>6, <3>1, <3>3, <4>1 DEF Exact
    <3> QED
      BY <1>0, <1>2, <2>6, <3>1, <3>3, <3>4
  <2> QED
    BY <1>2, <2>2, <2>5, <2>6
<1>5. ASSUME NEW s \in Scrapers, StoreFailure(s) PROVE Right
  <2>1. /\ errors' = [errors EXCEPT ![failing[s]] = 1] /\ UNCHANGED <<happened, raced>>
        /\ failing' = [failing EXCEPT ![s] = "none"]
        /\ failing[s] \in Failures /\ happened[failing[s]] > 0
    BY <1>0, <1>5, StoreTypes DEF StoreFailure, CountingInv
  <2>2. CASE failing[s] = g
    <3>1. errors'[g] = 1 /\ happened'[g] = happened[g] /\ happened[g] > 0
      BY <1>0, <2>1, <2>2 DEF HealthTypes
    <3>2. s \in Storing(g) /\ Storing(g)' = Storing(g) \ {s}
      BY <1>0, <2>1, <2>2 DEF Storing, PeerTypes
    <3>3. g \notin raced => Exact(g)'
      <4>0. g \notin raced =>
              /\ Storing(g) = {s} /\ errors[g] = 0
              /\ errors[g] + Cardinality(Storing(g)) = happened[g]
        BY <1>0, <3>2 DEF Exact
      <4>1. Cardinality({s}) = 1 /\ Cardinality({}) = 0
        BY FS_Singleton, FS_EmptySet
      <4>2. g \notin raced => Storing(g)' = {} /\ happened[g] = 1
        BY <3>2, <4>0, <4>1
      <4> QED
        BY <2>1, <3>1, <4>1, <4>2 DEF Exact
    <3> QED
      BY <1>2, <2>1, <3>1, <3>3
  <2>3. CASE failing[s] # g
    <3>1. Storing(g)' = Storing(g)
      BY <1>0, <2>1, <2>3 DEF Storing, PeerTypes
    <3>2. errors'[g] = errors[g]
      BY <1>0, <2>1, <2>3 DEF HealthTypes
    <3> QED
      BY <1>0, <2>1, <3>1, <3>2 DEF Exact
  <2> QED
    BY <2>2, <2>3
<1>6. ASSUME NEW s \in Scrapers, SsPrints(s) \/ GoesOn(s) PROVE Right
  BY <1>3, <1>6, GoesOnTypes DEF SsPrints
<1>7. CASE Tick \/ UNCHANGED vars
  BY <1>3, <1>7 DEF Tick, vars, requestVars, healthVars, historyVars
<1> QED
  BY <1>4, <1>5, <1>6, <1>7, StepCases

LEMMA CountInit == Init => CountInv
<1> SUFFICES ASSUME Init PROVE CountInv
  OBVIOUS
<1>1. happened \in [Failures -> Nat] /\ DoomedRequests = {} /\ Happened = 0
  BY DEF Init, DoomedRequests, Doomed, Happened
<1>2. FailuresSoFar = 0
  BY <1>1, Total, FS_EmptySet
<1>3. \A f \in Failures : Storing(f) = {} /\ errors[f] = 0 /\ happened[f] = 0
  BY DEF Init, Storing
<1>4. Cardinality({}) = 0
  BY FS_EmptySet
<1>5. \A f \in Failures : Exact(f)
  BY <1>3, <1>4 DEF Exact
<1> QED
  BY <1>2, <1>3, <1>4, <1>5 DEF CountInv

LEMMA SpecCounts == Spec => [](Types /\ CountInv)
<1>1. Types /\ CountInv /\ [Next]_vars => (Types /\ CountInv)'
  BY TypesStep, CountStep
<1> QED
  BY <1>1, TypesInit, CountInit, PTL DEF Spec

(* The types, and that the counters stay within the bound on failures.     *)
THEOREM TypeCorrect == Spec => []TypeOK
<1>1. ASSUME Types, CountInv PROVE TypeOK
  <2>1. \A f \in Failures : /\ errors[f] \in Nat /\ happened[f] \in Nat
                            /\ errors[f] <= happened[f] /\ happened[f] <= MaxFailures
    <3>1. /\ FailuresSoFar = Happened + Cardinality(DoomedRequests)
          /\ Happened \in Nat /\ Cardinality(DoomedRequests) \in Nat
          /\ \A f \in Failures : happened[f] <= Happened
      BY <1>1, Total DEF Types, HealthTypes
    <3>2. Happened <= MaxFailures
      BY <1>1, <3>1 DEF CountInv
    <3>3. \A f \in Failures : errors[f] \in Nat /\ happened[f] \in Nat /\ errors[f] <= happened[f]
      BY <1>1 DEF Types, HealthTypes, CountInv
    <3> QED
      BY <3>1, <3>2, <3>3
  <2>2. /\ errors \in [Failures -> 0..MaxFailures] /\ happened \in [Failures -> 0..MaxFailures]
    BY <1>1, <2>1 DEF Types, HealthTypes
  <2> QED
    BY <1>1, <2>2 DEF Types, WalkTypes, PeerTypes, HealthTypes, TypeOK
<1> QED
  BY <1>1, SpecCounts, PTL

(* The counters make nothing up; they are exact unless several requests    *)
(* meet the first failure of a kind together, and not 0 even then.         *)
THEOREM FailuresAreCounted == Spec => []FailuresShow
<1>1. Types /\ CountInv => FailuresShow
  BY DEF CountInv, FailuresShow, Storing, Exact
<1> QED
  BY <1>1, SpecCounts, PTL

-----------------------------------------------------------------------------
(* The dates.                                                              *)
LEMMA TroubleStays ==
  ASSUME Types, Trouble, [Next]_vars
  PROVE  Trouble'
<1>0. /\ WalkTypes /\ PeerTypes /\ HealthTypes /\ CountingInv
      /\ \A g \in Failures : errors[g] \in Nat
  BY DEF Types, HealthTypes
<1>1. ASSUME NEW s \in Scrapers, NEW t \in Scrapers, t # s, Uncounted(t),
             (\E f \in Failures : Fails(s, f)) \/ StoreFailure(s) \/ SsPrints(s) \/ GoesOn(s)
      PROVE  Trouble'
  <2>1. Uncounted(t)'
    BY <1>1, OthersStay DEF Uncounted
  <2> QED
    BY <2>1 DEF Trouble
<1>2. ASSUME NEW s \in Scrapers, NEW f \in Failures, Fails(s, f) PROVE Trouble'
  <2>1. Counts(s, f) /\ failing[s] = "none" /\ (pc[s] = "parse" => f = "socket")
    BY <1>0, <1>2, FailsTypes DEF Fails, CountingInv
  <2>2. CASE \E g \in SocketFailures : errors[g] > 0
    BY <1>0, <2>1, <2>2 DEF Counts, HealthTypes, Trouble, SocketFailures
  <2>3. CASE Uncounted(s)
    <3>1. f = "socket" /\ pc[s] = "parse" /\ ParseRaises(Proto, printed[s])
      BY <2>1, <2>3 DEF Uncounted
    <3>2. CASE errors[f] > 0
      BY <2>2, <3>1, <3>2 DEF SocketFailures
    <3>3. CASE errors[f] = 0
      <4>1. failing'[s] = "socket" /\ printed' = printed
        BY <1>0, <1>2, <3>1, <3>3 DEF Fails, CountFailure, PeerTypes
      <4> QED
        BY <3>1, <4>1 DEF Trouble, Uncounted
    <3> QED
      BY <2>1, <3>2, <3>3 DEF Counts
  <2> QED
    BY <1>1, <1>2, <2>2, <2>3 DEF Trouble
<1>3. ASSUME NEW s \in Scrapers, StoreFailure(s) PROVE Trouble'
  <2>1. errors' = [errors EXCEPT ![failing[s]] = 1] /\ failing[s] \in Failures /\ pc[s] # "parse"
    BY <1>3, StoreTypes DEF StoreFailure
  <2>2. \A g \in Failures : errors[g] > 0 \/ g = failing[s] => errors'[g] > 0
    BY <1>0, <2>1 DEF HealthTypes
  <2>3. SocketFailures \subseteq Failures
    BY DEF SocketFailures
  <2>4. CASE \E g \in SocketFailures : errors[g] > 0 \/ g = failing[s]
    BY <2>2, <2>3, <2>4 DEF Trouble
  <2>5. CASE Uncounted(s)
    BY <2>1, <2>4, <2>5 DEF Uncounted, SocketFailures
  <2> QED
    BY <1>1, <1>3, <2>4, <2>5 DEF Trouble
<1>4. ASSUME NEW s \in Scrapers, SsPrints(s) \/ GoesOn(s) PROVE Trouble'
  <2>1. errors' = errors /\ pc[s] # "count"
    BY <1>4, GoesOnTypes DEF SsPrints
  <2>2. ~Uncounted(s)
    <3>1. failing[s] # "socket"
      BY <1>0, <2>1 DEF CountingInv
    <3>2. ~Doomed(s)
      BY <1>4, GoesOnTypes DEF SsPrints, Doomed
    <3> QED
      BY <3>1, <3>2 DEF Uncounted, Doomed
  <2> QED
    BY <1>1, <1>4, <2>1, <2>2 DEF Trouble
<1>5. CASE Tick \/ UNCHANGED vars
  BY <1>5 DEF Tick, vars, requestVars, healthVars, historyVars, Trouble, Uncounted
<1> QED
  BY <1>2, <1>3, <1>4, <1>5, StepCases

(* A request that a step does not move does not come to parse.             *)
DatesKept ==
    /\ UNCHANGED <<ssDate, goodRuns, reported>>
    /\ date' = date \/ Trouble' \/ ssDate # 0
    /\ \A s \in Scrapers : pc'[s] = "parse" => pc[s] = "parse"

LEMMA KeptDates ==
  ASSUME Types, DateInv, [Next]_vars, DatesKept
  PROVE  DateInv'
<1>1. Trouble => Trouble'
  BY TroubleStays
<1> QED
  BY <1>1 DEF DateInv, DatesKept

LEMMA DateStep ==
  ASSUME Types, DateInv, [Next]_vars
  PROVE  DateInv'
<1>0. /\ PeerTypes /\ HealthTypes /\ CountingInv
      /\ Trouble => Trouble'
  BY TroubleStays DEF Types
<1>1. ASSUME NEW s \in Scrapers, NEW f \in Failures, AfterFailure(s, f),
             errors'[f] > 0
      PROVE  date' = date \/ Trouble'
  BY <1>1 DEF AfterFailure, SocketFailures, Trouble
<1>2. ASSUME NEW s \in Scrapers, NEW f \in Failures, Fails(s, f) PROVE DateInv'
  <2>1. /\ UNCHANGED <<ssDate, goodRuns, reported>>
        /\ pc'[s] # "parse"
    BY <1>2, FailsTypes DEF Fails, Counts
  <2>2. CASE errors[f] > 0 /\ errors' = [errors EXCEPT ![f] = @ + 1] /\ AfterFailure(s, f)
    <3>1. errors'[f] > 0
      BY <1>0, <2>2 DEF HealthTypes
    <3> QED
      BY <1>1, <1>2, <2>1, <2>2, <3>1, OthersStay, KeptDates DEF DatesKept
  <2>3. CASE date' = date
    BY <1>2, <2>1, <2>3, OthersStay, KeptDates DEF DatesKept
  <2> QED
    BY <1>2, <2>2, <2>3 DEF Fails, CountFailure
<1>3. ASSUME NEW s \in Scrapers, StoreFailure(s) PROVE DateInv'
  <2>1. /\ UNCHANGED <<ssDate, goodRuns, reported>>
        /\ AfterFailure(s, failing[s]) /\ failing[s] \in Failures /\ pc'[s] # "parse"
        /\ errors' = [errors EXCEPT ![failing[s]] = 1]
    BY <1>3, StoreTypes DEF StoreFailure
  <2>2. errors'[failing[s]] > 0
    BY <1>0, <2>1 DEF HealthTypes
  <2>3. date' = date \/ Trouble'
    BY <1>1, <2>1, <2>2
  <2> QED
    BY <1>3, <2>1, <2>3, OthersStay, KeptDates DEF DatesKept
<1>4. ASSUME NEW s \in Scrapers, SsPrints(s) PROVE DateInv'
  <2>1. PICK lines \in Outputs :
           /\ printed' = [printed EXCEPT ![s] = lines]
           /\ goodRuns' = IF ParseRaises(Proto, lines) THEN goodRuns ELSE goodRuns \cup {clock}
    BY <1>4, Zenon DEF SsPrints
  <2>2. ssDate' = clock /\ clock # 0 /\ reported' = reported /\ pc'[s] = "parse"
    <3>1. ssDate' = clock /\ reported' = reported
      BY <1>4 DEF SsPrints
    <3>2. pc'[s] = "parse"
      BY <1>4, PrintsTypes
    <3>3. clock # 0
      BY <1>0 DEF HealthTypes
    <3> QED
      BY <3>1, <3>2, <3>3
  <2>3. clock \in goodRuns' \/ Trouble'
    <3>1. CASE ParseRaises(Proto, lines)
      <4>1. printed'[s] = lines
        BY <2>1 DEF Types, WalkTypes
      <4>2. Uncounted(s)'
        BY <2>2, <3>1, <4>1 DEF Uncounted
      <4> QED
        BY <4>2 DEF Trouble
    <3>2. CASE ~ParseRaises(Proto, lines)
      BY <2>1, <3>2
    <3> QED
      BY <3>1, <3>2
  <2>4. goodRuns \subseteq goodRuns'
    BY <2>1
  <2> QED
    BY <1>0, <2>2, <2>3, <2>4 DEF DateInv
<1>5. ASSUME NEW s \in Scrapers, GoesOn(s) PROVE DateInv'
  <2>1. /\ UNCHANGED <<ssDate, goodRuns>>
        /\ \A t \in Scrapers : pc'[t] = "parse" => pc[t] = "parse"
    BY <1>5, GoesOnTypes, OthersStay
  <2>2. CASE ExportHealth(s)
    <3>1. reported' = SocketDate /\ date' = date
      BY <1>0, <2>2 DEF ExportHealth, healthVars
    <3>2. ssDate # 0 \/ ssDate = 0
      OBVIOUS
    <3>3. reported' \notin goodRuns \cup {0} => Trouble
      BY <3>1, <3>2 DEF SocketDate, DateInv
    <3>4. \A t \in Scrapers : pc'[t] = "parse" => ssDate' # 0
      BY <2>1 DEF DateInv
    <3>5. ssDate' # 0 => ssDate' \in goodRuns' \/ Trouble
      BY <2>1 DEF DateInv
    <3>6. ssDate' = 0 => date' = 0 \/ Trouble
      BY <2>1, <3>1 DEF DateInv
    <3> QED
      BY <1>0, <2>1, <3>3, <3>4, <3>5, <3>6 DEF DateInv
  <2>3. CASE ~ExportHealth(s)
    <3>1. reported' = reported /\ (date' = date \/ pc[s] = "parse")
      BY <1>0, <1>5, <2>3 DEF GoesOn, BeginScrape, ReadIperf, TracePaths, ParseSs, VisitPeer,
         EndWalk, WalkRaises, Dated, HealthTypes, healthVars, historyVars
    <3> QED
      BY <2>1, <3>1, KeptDates DEF DatesKept, DateInv
  <2> QED
    BY <2>2, <2>3
<1>6. CASE Tick \/ UNCHANGED vars
  BY <1>6, KeptDates DEF DatesKept, Tick, vars, requestVars, healthVars, historyVars
<1> QED
  BY <1>2, <1>3, <1>4, <1>5, <1>6, StepCases

(* A date of the sockets that no successful run of ss stands for is only   *)
(* exported once a failure shows, or in the gap of another request between *)
(* the date of its ss and the counting of its parse failure.               *)
THEOREM DatesAreHonest == Spec => []MisleadingDateHasFailure
<1>1. Init => DateInv
  BY DEF Init, DateInv
<1>2. Types /\ DateInv /\ [Next]_vars => DateInv'
  BY DateStep
<1>3. Types /\ DateInv => MisleadingDateHasFailure
  BY DEF DateInv, Trouble, SocketFailures, MisleadingDateHasFailure
<1> QED
  BY <1>1, <1>2, <1>3, TypesInit, TypesStep, PTL DEF Spec

-----------------------------------------------------------------------------
(* The samples.  What the loop over the lines of ss computes is TLC's to   *)
(* check (induction over data is beyond the prover): for the outputs of a  *)
(* run it does.                                                            *)
ParserIsRight == \A lines \in Outputs : ParseCorrect(Proto, lines)

(* The connection's own key comes first, then those of the wildcards.      *)
LEMMA Candidates ==
  ASSUME NEW c
  PROVE  /\ DOMAIN CandidateKeys(c) = 1..4
         /\ CandidateKeys(c)[1] = SocketKey(c)
         /\ \A j \in 2..4 : CandidateKeys(c)[j] = WildcardKey(c, j - 1)
<1> DEFINE S == {SocketKey(c)} \cup {WildcardKey(c, i) : i \in 1..3}
           own == <<SocketKey(c)>>
           others == [i \in 1..3 |-> WildcardKey(c, i)]
<1>1. DOMAIN Wildcards = 1..3
  BY DEF Wildcards
<1>2. own \in Seq(S) /\ Len(own) = 1 /\ own[1] = SocketKey(c)
  <2>1. SocketKey(c) \in S
    OBVIOUS
  <2> QED
    BY <2>1
<1>3. others \in Seq(S) /\ Len(others) = 3
  <2>1. others \in [1..3 -> S]
    OBVIOUS
  <2> QED
    BY <2>1
<1>4. /\ own \o others \in Seq(S) /\ Len(own \o others) = 4
      /\ \A i \in 1..4 : (own \o others)[i] = IF i <= 1 THEN own[i] ELSE others[i - 1]
  BY <1>2, <1>3, ConcatProperties
<1>5. CandidateKeys(c) = own \o others
  BY <1>1 DEF CandidateKeys
<1>6. DOMAIN (own \o others) = 1..4
  BY <1>4
<1>7. \A j \in 2..4 : (own \o others)[j] = WildcardKey(c, j - 1)
  BY <1>4
<1> QED
  BY <1>2, <1>4, <1>5, <1>6, <1>7

LEMMA FoundMatches ==
  ASSUME NEW lines \in Outputs, ParserIsRight, ~ParseRaises(Proto, lines), NEW c, NEW family,
         NEW socket \in FoundSockets(c, ParseOutput(Proto, lines))
  PROVE  Matches([family |-> family, connection |-> c, socket |-> socket], lines)
<1> DEFINE sockets == ParseOutput(Proto, lines)
           keys == CandidateKeys(c)
           x == [family |-> family, connection |-> c, socket |-> socket]
<1>1. ParsesAs(Proto, lines, sockets)
  BY DEF ParserIsRight, ParseCorrect
<1>2. PICK j \in DOMAIN keys :
         /\ socket = sockets[keys[j]] /\ keys[j] \in DOMAIN sockets
         /\ \A k \in 1..(j - 1) : keys[k] \notin DOMAIN sockets
  BY DEF FoundSockets
<1>3. PICK i \in OwnRows(lines) :
         /\ RowKey(lines[i]) = keys[j] /\ LastRow(lines, i)
         /\ socket = [row |-> i, detail |-> IF Proto = "tcp" /\ TextBelow(lines, i)
                                            THEN i + 1 ELSE 0]
  BY <1>1, <1>2 DEF ParsesAs
<1>4. x.connection = c /\ x.socket = socket /\ x.socket.row = i
      /\ x.socket.detail = IF Proto = "tcp" /\ TextBelow(lines, i) THEN i + 1 ELSE 0
  BY <1>3
<1>5. CASE \E r \in OwnRows(lines) : RowKey(lines[r]) = SocketKey(c)
  <2>1. SocketKey(c) \in DOMAIN sockets
    BY <1>1, <1>5 DEF ParsesAs
  <2>2. j = 1
    BY <1>2, <2>1, Candidates
  <2>3. RowKey(lines[i]) = SocketKey(c)
    BY <1>3, <2>2, Candidates
  <2>4. Normalized(lines[i].peer) = c.peer
    BY <2>3 DEF RowKey, SocketKey
  <2> QED
    BY <1>3, <1>4, <1>5, <2>3, <2>4 DEF Matches
<1>6. CASE ~ \E r \in OwnRows(lines) : RowKey(lines[r]) = SocketKey(c)
  <2>1. j \in 2..4
    BY <1>3, <1>6, Candidates
  <2>2. RowKey(lines[i]) = WildcardKey(c, j - 1)
    BY <1>3, <2>1, Candidates
  <2>3. /\ Normalized(lines[i].peer) = c.peer
        /\ Normalized(lines[i].local) = [host |-> Wildcards[j - 1], spelling |-> "plain"]
    BY <2>2 DEF RowKey, WildcardKey
  <2>4. j - 1 \in DOMAIN Wildcards
    BY <2>1 DEF Wildcards
  <2>5. Normalized(lines[i].local).host \in {Wildcards[w] : w \in DOMAIN Wildcards}
    BY <2>3, <2>4
  <2> QED
    BY <1>3, <1>4, <1>6, <2>3, <2>5 DEF Matches
<1> QED
  BY <1>5, <1>6

LEMMA NothingFound ==
  ASSUME NEW c
  PROVE  FoundSockets(c, NoSockets) = {}
BY DEF FoundSockets, NoSockets

(* A request that exports nothing yet, or nothing any more.                *)
LEMMA NothingYet ==
  ASSUME NEW s \in Scrapers, samples'[s] = {}, snapshots'[s] = NoSockets,
         pc'[s] = "parse" => printed'[s] \in Outputs
  PROVE  RequestInv(s)'
BY DEF RequestInv

LEMMA SampleStep ==
  ASSUME ParserIsRight, Types, SampleInv, [Next]_vars
  PROVE  SampleInv'
<1> SUFFICES ASSUME NEW t \in Scrapers PROVE RequestInv(t)'
  BY DEF SampleInv
<1>0. WalkTypes /\ RequestInv(t)
  BY DEF Types, SampleInv
<1>1. ASSUME NEW s \in Scrapers, s # t,
             (\E f \in Failures : Fails(s, f)) \/ StoreFailure(s) \/ SsPrints(s) \/ GoesOn(s)
      PROVE  RequestInv(t)'
  BY <1>0, <1>1, OthersStay DEF RequestInv
<1>2. ASSUME NEW f \in Failures, AfterFailure(t, f), pc[t] \notin Exporting,
             pc'[t] # "parse"
      PROVE  RequestInv(t)'
  BY <1>0, <1>2, NothingYet DEF AfterFailure, Ends, RequestInv, WalkTypes
<1>3. ASSUME NEW f \in Failures, Fails(t, f) PROVE RequestInv(t)'
  <2>1. pc[t] \notin Exporting /\ pc'[t] # "parse"
    BY <1>3, FailsTypes DEF Fails, Counts, Exporting
  <2>2. CASE UNCHANGED <<snapshots, printed, samples>>
    BY <1>0, <2>1, <2>2, NothingYet DEF RequestInv
  <2> QED
    BY <1>2, <1>3, <2>1, <2>2 DEF Fails, CountFailure
<1>4. ASSUME StoreFailure(t) PROVE RequestInv(t)'
  BY <1>2, <1>4, StoreTypes DEF StoreFailure, Exporting
<1>5. ASSUME SsPrints(t) PROVE RequestInv(t)'
  <2>1. printed'[t] \in Outputs
    BY <1>0, <1>5 DEF SsPrints, WalkTypes
  <2>2. pc[t] \notin Exporting /\ UNCHANGED <<snapshots, samples>>
    BY <1>5 DEF SsPrints, Exporting
  <2> QED
    BY <1>0, <2>1, <2>2, NothingYet DEF RequestInv
<1>6. ASSUME GoesOn(t) PROVE RequestInv(t)'
  <2>0. pc'[t] # "parse"
    BY <1>6, GoesOnTypes
  <2>1. CASE BeginScrape(t) \/ ReadIperf(t) \/ TracePaths(t)
    <3>1. pc[t] \notin Exporting /\ UNCHANGED <<snapshots, samples>>
      BY <2>1 DEF BeginScrape, ReadIperf, TracePaths, Exporting, historyVars
    <3> QED
      BY <1>0, <2>0, <3>1, NothingYet DEF RequestInv
  <2>2. CASE ParseSs(t)
    <3>1. /\ snapshots'[t] = ParseOutput(Proto, printed[t]) /\ samples[t] = {}
          /\ printed[t] \in Outputs /\ ~ParseRaises(Proto, printed[t])
          /\ printed' = printed /\ samples' = samples
      BY <1>0, <2>2 DEF ParseSs, RequestInv, WalkTypes, Exporting, historyVars
    <3>2. pc'[t] \in Exporting
      BY <1>0, <2>2 DEF ParseSs, BeginWalk, WalkTypes, Exporting
    <3> QED
      BY <2>0, <3>1, <3>2 DEF RequestInv
  <2>3. CASE VisitPeer(t)
    <3>1. PICK p \in todo[t] : samples' = [samples EXCEPT ![t] = @ \cup SamplesOf(t, p)]
      BY <2>3, Zenon DEF VisitPeer
    <3>2. UNCHANGED <<pc, snapshots, printed>> /\ pc[t] \in Walks
      BY <2>3 DEF VisitPeer
    <3>3. samples'[t] = samples[t] \cup SamplesOf(t, p)
      BY <1>0, <3>1 DEF WalkTypes
    <3>4. \A x \in SamplesOf(t, p) : Matches(x, printed[t])
      BY <1>0, NothingFound, FoundMatches DEF SamplesOf, RequestInv
    <3>5. pc[t] \notin Exporting => SamplesOf(t, p) = {}
      BY DEF SamplesOf, Exporting
    <3> QED
      BY <1>0, <3>2, <3>3, <3>4, <3>5 DEF RequestInv
  <2>4. CASE EndWalk(t)
    <3>1. UNCHANGED <<snapshots, printed, samples>>
      BY <2>4 DEF EndWalk, historyVars
    <3>2. pc[t] \in Exporting => pc'[t] \in Exporting
      BY <1>0, <2>4 DEF EndWalk, BeginWalk, After, Exporting, WalkTypes
    <3> QED
      BY <1>0, <2>0, <3>1, <3>2 DEF RequestInv
  <2>5. CASE WalkRaises(t) \/ ExportHealth(t)
    BY <1>0, <2>0, <2>5, NothingYet DEF WalkRaises, ExportHealth, Ends, WalkTypes
  <2> QED
    BY <1>6, <2>1, <2>2, <2>3, <2>4, <2>5 DEF GoesOn
<1>7. CASE Tick \/ UNCHANGED vars
  BY <1>0, <1>7 DEF Tick, vars, requestVars, historyVars, RequestInv
<1> QED
  BY <1>1, <1>3, <1>4, <1>5, <1>6, <1>7, StepCases

(* Every socket value a request exports is that of the last row its own ss *)
(* printed for the connection, with that row's details, whatever other     *)
(* requests do, if the parser is right about the outputs of ss.            *)
THEOREM SamplesAreOwn ==
  ASSUME ParserIsRight
  PROVE  Spec => []SamplesMatchSockets
<1>1. Init => SampleInv
  BY DEF Init, SampleInv, RequestInv, Exporting
<1>2. Types /\ SampleInv /\ [Next]_vars => SampleInv'
  BY SampleStep
<1>3. SampleInv => SamplesMatchSockets
  BY DEF SampleInv, RequestInv, Matches, SamplesMatchSockets
<1> QED
  BY <1>1, <1>2, <1>3, TypesInit, TypesStep, PTL DEF Spec
=============================================================================
