------------------------- MODULE PeerTable_proofs -------------------------
(***************************************************************************)
(* Proofs about PeerTable, and about the walks of PeerWalk over it, for    *)
(* any sets of peers and histogram names, any TTL and any number of lines. *)
(***************************************************************************)
EXTENDS PeerWalk, FiniteSetTheorems, TLAPS

(* The table is finite, and its counters add up.                           *)
CountInv ==
    /\ IsFiniteSet(Retained)
    /\ OneOutcomePerConnection
    /\ EveryConnectionAccounted

(* The TTL of an entry and its quiet rounds add up to MetricTTL, and an    *)
(* entry that has been through a round has TTL left.                       *)
TTLInv ==
    \A p \in Retained :
        /\ output[p].ttl + quiet[p] = MetricTTL
        /\ output[p].ttl = 0 => quiet[p] = 0

Inv == TypeOK /\ CountInv /\ TTLInv /\ HistogramsOfRetainedPeers

-----------------------------------------------------------------------------
(* The unreported peers are a finite subset of the retained ones.          *)
LEMMA UnreportedFinite ==
  ASSUME IsFiniteSet(Retained)
  PROVE  /\ IsFiniteSet(Unreported)
         /\ Cardinality(Unreported) \in Nat
         /\ Cardinality(Retained) \in Nat
<1>1. Unreported \in SUBSET Retained
  BY DEF Unreported
<1> QED
  BY <1>1, FS_Subset, FS_CardinalityType

(* The invariant holds initially.                                          *)
LEMMA InitInv == Init => Inv
<1> SUFFICES ASSUME Init PROVE Inv
  OBVIOUS
<1>1. Retained = {} /\ DOMAIN histograms = {}
  BY DEF Init, Retained, Empty
<1>2. TypeOK
  <2> QED
    BY <1>1 DEF Init, TypeOK, Empty, Retained
<1>3. CountInv
  <2>1. Unreported = {}
    BY <1>1 DEF Unreported
  <2> QED
    BY <1>1, <2>1, FS_EmptySet DEF Init, CountInv, OneOutcomePerConnection, EveryConnectionAccounted
<1>4. TTLInv /\ HistogramsOfRetainedPeers
  BY <1>1 DEF TTLInv, HistogramsOfRetainedPeers
<1> QED
  BY <1>2, <1>3, <1>4 DEF Inv

-----------------------------------------------------------------------------
(* A new connection: the entry is added or overwritten.                    *)
LEMMA NewConnectionInv ==
  ASSUME Inv, NEW p \in Peers, NewConnection(p)
  PROVE  Inv'
<1> USE TableAssumption DEF NewConnection, Read
<1> DEFINE fresh == [ttl |-> MetricTTL, reported |-> FALSE, connection |-> connections + 1]
<1>1. fresh \in Entry
  BY DEF Inv, TypeOK, Entry
<1>2. /\ output' \in [Retained \cup {p} -> Entry]
      /\ Retained' = Retained \cup {p}
      /\ output'[p] = fresh
      /\ \A q \in Retained : q # p => output'[q] = output[q]
  <2>1. output \in [Retained -> Entry] /\ output' = Put(output, p, fresh)
    BY DEF Inv, TypeOK
  <2>2. /\ output' \in [Retained \cup {p} -> Entry]
        /\ DOMAIN output' = Retained \cup {p}
        /\ output'[p] = fresh
        /\ \A q \in Retained : q # p => output'[q] = output[q]
    <3> HIDE DEF fresh, NewConnection
    <3> QED
      BY <1>1, <2>1 DEF Put
  <2> QED
    BY <2>2 DEF Retained
<1>3. /\ quiet' \in [Retained \cup {p} -> Nat]
      /\ quiet'[p] = 0
      /\ \A q \in Retained : q # p => quiet'[q] = quiet[q]
  <2>1. quiet \in [Retained -> Nat] /\ quiet' = Put(quiet, p, 0) /\ 0 \in Nat
    BY DEF Inv, TypeOK
  <2> HIDE DEF NewConnection
  <2> QED
    BY <2>1 DEF Put
<1>4. TypeOK'
  <2>2. /\ connections' \in Nat /\ samples' \in Nat /\ parseErrors' \in Nat
        /\ evicted' \in Nat /\ success' \in Nat /\ timeout' \in Nat
        /\ lines' \in Nat /\ replaced' \in Nat /\ unresolved' \in Nat
    BY DEF Inv, TypeOK
  <2>3. Retained' \subseteq Peers
    BY <1>2 DEF Inv, TypeOK
  <2>4. /\ DOMAIN histograms' \subseteq Peers \X Names
        /\ histograms' \in [DOMAIN histograms' -> Nat \ {0}]
    BY DEF Inv, TypeOK
  <2>5. output' \in [Retained' -> Entry] /\ quiet' \in [Retained' -> Nat]
    BY <1>2, <1>3
  <2> QED
    BY <2>2, <2>3, <2>4, <2>5 DEF TypeOK
<1>5. CountInv'
  <2>1. Unreported' = Unreported \cup {p}
    <3>1. ~output'[p].reported
      BY <1>2
    <3> HIDE DEF NewConnection, fresh
    <3> QED
      BY <1>2, <3>1 DEF Unreported
  <2>2. p \in Unreported <=> p \in Retained /\ ~output[p].reported
    BY DEF Unreported
  <2>3. /\ IsFiniteSet(Retained')
        /\ Cardinality(Retained') = IF p \in Retained THEN Cardinality(Retained)
                                                     ELSE Cardinality(Retained) + 1
    BY <1>2, FS_AddElement DEF Inv, CountInv
  <2>4. Cardinality(Unreported') = IF p \in Unreported THEN Cardinality(Unreported)
                                                      ELSE Cardinality(Unreported) + 1
    BY <2>1, UnreportedFinite, FS_AddElement DEF Inv, CountInv
  <2>5. EveryConnectionAccounted'
    BY <2>3, UnreportedFinite DEF Inv, TypeOK, CountInv, EveryConnectionAccounted
  <2>6. unresolved' = unresolved + (IF p \in Unreported THEN 1 ELSE 0)
    BY <2>2
  <2>7. OneOutcomePerConnection'
    <3>1. /\ Cardinality(Unreported) \in Nat
          /\ connections = success + timeout + Cardinality(Unreported) + unresolved
      BY UnreportedFinite DEF Inv, CountInv, OneOutcomePerConnection
    <3>2. /\ connections' = connections + 1
          /\ success' = success /\ timeout' = timeout
          /\ success \in Nat /\ timeout \in Nat /\ unresolved \in Nat
      BY DEF Inv, TypeOK
    <3> HIDE DEF NewConnection, fresh
    <3> QED
      BY <2>4, <2>6, <3>1, <3>2 DEF OneOutcomePerConnection
  <2> QED
    BY <2>3, <2>5, <2>7 DEF CountInv
<1>6. TTLInv'
  <2>1. output'[p].ttl = MetricTTL
    BY <1>2
  <2> HIDE DEF NewConnection, fresh
  <2> QED
    BY <1>2, <1>3, <2>1 DEF Inv, TTLInv
<1>7. HistogramsOfRetainedPeers'
  BY <1>2 DEF Inv, HistogramsOfRetainedPeers
<1> QED
  BY <1>4, <1>5, <1>6, <1>7 DEF Inv

-----------------------------------------------------------------------------
(* What a line that refreshes the entry of p keeps: only the TTL and the   *)
(* report flag of p change.                                                *)
LEMMA RefreshInv ==
  ASSUME Inv, NEW p \in Retained, NEW hasReport \in BOOLEAN,
         output' = [output EXCEPT ![p].ttl = MetricTTL, ![p].reported = hasReport],
         Heard(p),
         UNCHANGED <<histograms, connections, evicted, replaced>>
  PROVE  /\ Retained' = Retained
         /\ output' \in [Retained -> Entry]
         /\ quiet' \in [Retained -> Nat]
         /\ Unreported' = IF hasReport THEN Unreported \ {p} ELSE Unreported \cup {p}
         /\ TTLInv'
         /\ HistogramsOfRetainedPeers'
         /\ EveryConnectionAccounted'
<1> USE TableAssumption
<1>1. Retained' = Retained /\ output' \in [Retained -> Entry]
  BY DEF Inv, TypeOK, Retained, Entry
<1>2. output'[p].ttl = MetricTTL /\ output'[p].reported = hasReport
  BY DEF Inv, TypeOK, Entry
<1>3. \A q \in Retained : q # p => output'[q] = output[q]
  BY DEF Inv, TypeOK
<1>4. quiet' \in [Retained -> Nat]
  BY DEF Inv, TypeOK, Heard
<1>5. Unreported' = IF hasReport THEN Unreported \ {p} ELSE Unreported \cup {p}
  BY <1>1, <1>2, <1>3 DEF Unreported
<1>6. TTLInv'
  BY <1>1, <1>2, <1>3 DEF Inv, TypeOK, TTLInv, Heard
<1>7. HistogramsOfRetainedPeers' /\ EveryConnectionAccounted'
  BY <1>1 DEF Inv, CountInv, HistogramsOfRetainedPeers, EveryConnectionAccounted
<1> QED
  BY <1>1, <1>4, <1>5, <1>6, <1>7

(* A report that is counted.                                               *)
LEMMA ReportInv ==
  ASSUME Inv, NEW p \in Peers, Report(p)
  PROVE  Inv'
<1> USE DEF Report, FirstReport, Read
<1>1. /\ Retained' = Retained
      /\ output' \in [Retained -> Entry]
      /\ quiet' \in [Retained -> Nat]
      /\ Unreported' = Unreported \ {p}
      /\ TTLInv' /\ HistogramsOfRetainedPeers' /\ EveryConnectionAccounted'
  BY RefreshInv
<1>2. TypeOK'
  <2>1. /\ success' \in Nat /\ samples' \in Nat /\ lines' \in Nat
        /\ UNCHANGED <<histograms, connections, parseErrors, evicted, timeout, replaced, unresolved>>
    BY DEF Inv, TypeOK
  <2> HIDE DEF Report
  <2> QED
    BY <1>1, <2>1 DEF Inv, TypeOK
<1>3. OneOutcomePerConnection'
  <2>1. p \in Unreported <=> ~output[p].reported
    BY DEF Unreported
  <2>2. Cardinality(Unreported') = IF p \in Unreported THEN Cardinality(Unreported) - 1
                                                      ELSE Cardinality(Unreported)
    BY <1>1, UnreportedFinite, FS_RemoveElement DEF Inv, CountInv
  <2>3. success' = success + (IF p \in Unreported THEN 1 ELSE 0)
    BY <2>1
  <2> QED
    <3>1. /\ Cardinality(Unreported) \in Nat
          /\ connections = success + timeout + Cardinality(Unreported) + unresolved
      BY UnreportedFinite DEF Inv, CountInv, OneOutcomePerConnection
    <3>2. /\ UNCHANGED <<connections, timeout, unresolved>>
          /\ success \in Nat /\ timeout \in Nat /\ unresolved \in Nat
      BY DEF Inv, TypeOK
    <3> HIDE DEF Report
    <3> QED
      BY <2>2, <2>3, <3>1, <3>2 DEF OneOutcomePerConnection
<1> QED
  BY <1>1, <1>2, <1>3 DEF Inv, CountInv

(* A report that fails after it reset the TTL.                             *)
LEMMA ReportFailsInv ==
  ASSUME Inv, NEW p \in Peers, ReportFailsHalfway(p)
  PROVE  Inv'
<1> USE DEF ReportFailsHalfway, Read
<1>1. output[p].reported \in BOOLEAN
  BY DEF Inv, TypeOK, Entry
<1>2. output' = [output EXCEPT ![p].ttl = MetricTTL, ![p].reported = output[p].reported]
  BY DEF Inv, TypeOK, Entry
<1>3. /\ Retained' = Retained
      /\ output' \in [Retained -> Entry]
      /\ quiet' \in [Retained -> Nat]
      /\ Unreported' = IF output[p].reported THEN Unreported \ {p} ELSE Unreported \cup {p}
      /\ TTLInv' /\ HistogramsOfRetainedPeers' /\ EveryConnectionAccounted'
  BY <1>1, <1>2, RefreshInv
<1>4. Unreported' = Unreported
  BY <1>3 DEF Unreported
<1>5. TypeOK'
  BY <1>3 DEF Inv, TypeOK
<1>6. OneOutcomePerConnection'
  BY <1>4 DEF Inv, CountInv, OneOutcomePerConnection
<1> QED
  BY <1>3, <1>5, <1>6 DEF Inv, CountInv

(* A histogram, and a line that is only counted as a parse error.          *)
LEMMA HistogramInv ==
  ASSUME Inv, NEW p \in Peers, NEW n \in Names, Histogram(p, n)
  PROVE  Inv'
<1> USE DEF Histogram, Read
<1>1. Retained' = Retained /\ Unreported' = Unreported
  BY DEF Retained, Unreported
<1>2. /\ histograms' \in [DOMAIN histograms \cup {<<p, n>>} -> Nat \ {0}]
      /\ DOMAIN histograms' = DOMAIN histograms \cup {<<p, n>>}
  <2>1. output[p].connection \in Nat \ {0}
    BY DEF Inv, TypeOK, Entry
  <2>2. histograms \in [DOMAIN histograms -> Nat \ {0}]
    BY DEF Inv, TypeOK
  <2> QED
    BY <2>1, <2>2 DEF Put
<1>4. TypeOK'
  <2>1. /\ connections' \in Nat /\ samples' \in Nat /\ parseErrors' \in Nat
        /\ evicted' \in Nat /\ success' \in Nat /\ timeout' \in Nat
        /\ lines' \in Nat /\ replaced' \in Nat /\ unresolved' \in Nat
    BY DEF Inv, TypeOK
  <2>2. /\ output' \in [Retained' -> Entry] /\ quiet' \in [Retained' -> Nat]
        /\ Retained' \subseteq Peers
    BY <1>1 DEF Inv, TypeOK
  <2>3. DOMAIN histograms' \subseteq Peers \X Names
    BY <1>2 DEF Inv, TypeOK
  <2> QED
    BY <1>2, <2>1, <2>2, <2>3 DEF TypeOK
<1>5. CountInv'
  BY <1>1 DEF Inv, CountInv, OneOutcomePerConnection, EveryConnectionAccounted
<1>6. TTLInv'
  BY <1>1 DEF Inv, TTLInv
<1>7. HistogramsOfRetainedPeers'
  BY <1>1, <1>2 DEF Inv, HistogramsOfRetainedPeers
<1> QED
  BY <1>4, <1>5, <1>6, <1>7 DEF Inv

LEMMA RejectedInv ==
  ASSUME Inv, RejectedLine
  PROVE  Inv'
<1> USE DEF RejectedLine, Read
<1>1. TypeOK'
  BY DEF Inv, TypeOK, Retained
<1>2. CountInv'
  BY DEF Inv, CountInv, OneOutcomePerConnection, EveryConnectionAccounted, Retained, Unreported
<1>3. TTLInv' /\ HistogramsOfRetainedPeers'
  BY DEF Inv, TTLInv, HistogramsOfRetainedPeers, Retained
<1> QED
  BY <1>1, <1>2, <1>3 DEF Inv

-----------------------------------------------------------------------------
(* A round of the cleanup: the expired entries leave with their histograms *)
(* and are counted.                                                        *)
LEMMA TickInv ==
  ASSUME Inv, CleanupTick
  PROVE  Inv'
<1> USE TableAssumption DEF CleanupTick, Counted, RemainingHistograms
<1> DEFINE Lost == {p \in Expired : ~output[p].reported}
<1>1. \A p \in Retained :
        /\ Aged(p) \in Entry
        /\ Aged(p).ttl = IF output[p].ttl > 0 THEN output[p].ttl - 1 ELSE 0
        /\ Aged(p).reported = output[p].reported
  <2> SUFFICES ASSUME NEW p \in Retained
               PROVE  /\ Aged(p) \in Entry
                      /\ Aged(p).ttl = IF output[p].ttl > 0 THEN output[p].ttl - 1 ELSE 0
                      /\ Aged(p).reported = output[p].reported
    OBVIOUS
  <2>1. output[p] \in Entry
    BY DEF Inv, TypeOK
  <2> HIDE DEF CleanupTick
  <2> QED
    BY <2>1 DEF Aged, Entry
<1>2. /\ Retained' = Retained \ Expired
      /\ output' \in [Retained' -> Entry]
      /\ \A p \in Retained' : output'[p] = Aged(p)
  BY <1>1 DEF Retained
<1>3. /\ quiet' \in [Retained' -> Nat]
      /\ \A p \in Retained' : quiet'[p] = Older(quiet[p])
  BY <1>2, TableAssumption DEF Inv, TypeOK, Older
<1>4. Expired \in SUBSET Retained /\ Lost \in SUBSET Unreported
  BY DEF Expired, Unreported
<1>5. /\ IsFiniteSet(Retained') /\ Cardinality(Expired) \in Nat
      /\ Cardinality(Retained') = Cardinality(Retained) - Cardinality(Expired)
  <2>1. IsFiniteSet(Expired)
    BY <1>4, FS_Subset DEF Inv, CountInv
  <2>2. Retained \cap Expired = Expired
    BY <1>4
  <2> QED
    BY <1>2, <2>1, <2>2, FS_Difference, FS_CardinalityType DEF Inv, CountInv
<1>6. /\ Cardinality(Lost) \in Nat
      /\ Cardinality(Unreported') = Cardinality(Unreported) - Cardinality(Lost)
  <2>1. IsFiniteSet(Unreported)
    BY UnreportedFinite DEF Inv, CountInv
  <2>2. IsFiniteSet(Lost)
    BY <1>4, <2>1, FS_Subset
  <2>3. Unreported' = Unreported \ Lost
    BY <1>1, <1>2 DEF Unreported
  <2>4. Unreported \cap Lost = Lost
    BY <1>4
  <2>5. Cardinality(Lost) \in Nat
    BY <2>2, FS_CardinalityType
  <2> HIDE DEF Lost, CleanupTick
  <2>6. Cardinality(Unreported \ Lost) = Cardinality(Unreported) - Cardinality(Unreported \cap Lost)
    BY <2>1, FS_Difference
  <2> QED
    BY <2>3, <2>4, <2>5, <2>6
<1>7. TypeOK'
  <2>1. /\ connections' \in Nat /\ samples' \in Nat /\ parseErrors' \in Nat
        /\ evicted' \in Nat /\ success' \in Nat /\ timeout' \in Nat
        /\ lines' \in Nat /\ replaced' \in Nat /\ unresolved' \in Nat
    BY <1>5, <1>6 DEF Inv, TypeOK
  <2>2. Retained' \subseteq Peers
    BY <1>2 DEF Inv, TypeOK
  <2>3. /\ DOMAIN histograms' \subseteq Peers \X Names
        /\ histograms' \in [DOMAIN histograms' -> Nat \ {0}]
    BY DEF Inv, TypeOK
  <2> QED
    BY <1>2, <1>3, <2>1, <2>2, <2>3 DEF TypeOK
<1>8. CountInv'
  <2>1. /\ Cardinality(Unreported) \in Nat /\ Cardinality(Retained) \in Nat
        /\ connections = success + timeout + Cardinality(Unreported) + unresolved
        /\ connections = Cardinality(Retained) + evicted + replaced
    BY UnreportedFinite DEF Inv, CountInv, OneOutcomePerConnection, EveryConnectionAccounted
  <2>2. /\ UNCHANGED <<connections, success, unresolved, replaced>>
        /\ evicted' = evicted + Cardinality(Expired)
        /\ timeout' = timeout + Cardinality(Lost)
        /\ success \in Nat /\ timeout \in Nat /\ unresolved \in Nat
        /\ evicted \in Nat /\ replaced \in Nat
    BY DEF Inv, TypeOK
  <2> HIDE DEF CleanupTick, Lost
  <2> QED
    BY <1>5, <1>6, <2>1, <2>2 DEF CountInv, OneOutcomePerConnection, EveryConnectionAccounted
<1>9. TTLInv'
  <2> SUFFICES ASSUME NEW p \in Retained'
               PROVE  output'[p].ttl + quiet'[p] = MetricTTL /\ output'[p].ttl # 0
    BY DEF TTLInv
  <2>1. p \in Retained /\ Aged(p).ttl # 0 /\ output'[p] = Aged(p)
    BY <1>2 DEF Expired
  <2>2. output[p].ttl + quiet[p] = MetricTTL /\ output[p].ttl \in Nat /\ quiet[p] \in Nat
    BY <2>1 DEF Inv, TypeOK, TTLInv, Entry
  <2>3. /\ Aged(p).ttl = IF output[p].ttl > 0 THEN output[p].ttl - 1 ELSE 0
        /\ quiet'[p] = Older(quiet[p])
    BY <1>1, <1>3, <2>1
  <2>4. Older(quiet[p]) = quiet[p] + 1
    BY <2>2, TableAssumption DEF Older
  <2> HIDE DEF CleanupTick
  <2> QED
    BY <2>1, <2>2, <2>3, <2>4
<1>10. HistogramsOfRetainedPeers'
  BY <1>2 DEF HistogramsOfRetainedPeers
<1> QED
  BY <1>7, <1>8, <1>9, <1>10 DEF Inv

-----------------------------------------------------------------------------
(* The invariant holds in every reachable state.                           *)
THEOREM SpecInv == Spec => []Inv
<1>1. Inv /\ [Next]_vars => Inv'
  <2> SUFFICES ASSUME Inv, [Next]_vars PROVE Inv'
    OBVIOUS
  <2>1. ASSUME NEW p \in Peers, NewConnection(p) PROVE Inv'
    BY <2>1, NewConnectionInv
  <2>2. ASSUME NEW p \in Peers, Report(p) PROVE Inv'
    BY <2>2, ReportInv
  <2>3. ASSUME NEW p \in Peers, ReportFailsHalfway(p) PROVE Inv'
    BY <2>3, ReportFailsInv
  <2>4. ASSUME NEW p \in Peers, NEW n \in Names, Histogram(p, n) PROVE Inv'
    BY <2>4, HistogramInv
  <2>5. CASE RejectedLine
    BY <2>5, RejectedInv
  <2>6. CASE CleanupTick
    BY <2>6, TickInv
  <2>7. CASE UNCHANGED vars
    <3> USE <2>7 DEF vars, tableVars, historyVars
    <3>1. Retained' = Retained /\ Unreported' = Unreported
      BY DEF Retained, Unreported
    <3>2. TypeOK'
      BY <3>1 DEF Inv, TypeOK
    <3>3. CountInv'
      BY <3>1 DEF Inv, CountInv, OneOutcomePerConnection, EveryConnectionAccounted
    <3>4. TTLInv' /\ HistogramsOfRetainedPeers'
      BY <3>1 DEF Inv, TTLInv, HistogramsOfRetainedPeers
    <3> QED
      BY <3>2, <3>3, <3>4 DEF Inv
  <2> QED
    BY <2>1, <2>2, <2>3, <2>4, <2>5, <2>6, <2>7 DEF Next, Line
<1> QED
  BY InitInv, <1>1, PTL DEF Spec

(* The variables keep their types.                                         *)
THEOREM TypeCorrect == Spec => []TypeOK
<1>1. Inv => TypeOK
  BY DEF Inv
<1> QED
  BY <1>1, SpecInv, PTL

(* Success, timeout, waiting and overwritten connections add up: no        *)
(* connection is counted with two outcomes, for any lines and rounds.      *)
THEOREM OutcomesAddUp == Spec => []OneOutcomePerConnection
<1>1. Inv => OneOutcomePerConnection
  BY DEF Inv, CountInv
<1> QED
  BY <1>1, SpecInv, PTL

(* Retained, evicted and overwritten entries add up to the connections.    *)
THEOREM ConnectionsAddUp == Spec => []EveryConnectionAccounted
<1>1. Inv => EveryConnectionAccounted
  BY DEF Inv, CountInv
<1> QED
  BY <1>1, SpecInv, PTL

(* A histogram never outlives the entry of its peer id.                    *)
THEOREM HistogramsFollowPeers == Spec => []HistogramsOfRetainedPeers
<1>1. Inv => HistogramsOfRetainedPeers
  BY DEF Inv
<1> QED
  BY <1>1, SpecInv, PTL

(* No entry outlives its TTL.                                              *)
THEOREM NoLateEviction == Spec => []QuietPeersLeave
<1>1. Inv => QuietPeersLeave
  <2> SUFFICES ASSUME Inv, NEW p \in Retained
               PROVE  quiet[p] < MetricTTL \/ quiet[p] = 0
    BY DEF QuietPeersLeave
  <2>1. output[p].ttl + quiet[p] = MetricTTL /\ output[p].ttl \in Nat /\ quiet[p] \in Nat
    BY DEF Inv, TypeOK, TTLInv, Entry
  <2>2. output[p].ttl = 0 => quiet[p] = 0
    BY DEF Inv, TTLInv
  <2> QED
    BY <2>1, <2>2, TableAssumption
<1> QED
  BY <1>1, SpecInv, PTL

(* No step evicts an entry before MetricTTL quiet rounds.                  *)
THEOREM NoEarlyEviction == Spec => EvictedOnlyWhenQuiet
<1> DEFINE Step == \A p \in Retained : p \notin DOMAIN output' => quiet[p] + 1 >= MetricTTL
<1>1. Inv /\ [Next]_vars => [Step]_vars
  <2> SUFFICES ASSUME Inv, Next, NEW p \in Retained, p \notin DOMAIN output'
               PROVE  quiet[p] + 1 >= MetricTTL
    OBVIOUS
  <2>1. CleanupTick
    <3>1. ASSUME NEW q \in Peers, NewConnection(q) PROVE FALSE
      BY <3>1 DEF NewConnection, Put, Retained
    <3>2. ASSUME Line, ~(\E q \in Peers : NewConnection(q)) PROVE FALSE
      BY <3>2 DEF Line, Report, ReportFailsHalfway, Histogram, RejectedLine, Retained
    <3> QED
      BY <3>1, <3>2 DEF Next
  <2>2. p \in Expired
    BY <2>1 DEF CleanupTick
  <2>3. /\ output[p].ttl + quiet[p] = MetricTTL
        /\ output[p].ttl \in Nat /\ quiet[p] \in Nat
        /\ Aged(p).ttl = IF output[p].ttl > 0 THEN output[p].ttl - 1 ELSE 0
    BY DEF Inv, TypeOK, TTLInv, Entry, Aged
  <2> QED
    BY <2>2, <2>3, TableAssumption DEF Expired
<1> QED
  BY <1>1, SpecInv, PTL DEF Spec, EvictedOnlyWhenQuiet

-----------------------------------------------------------------------------
(* What a step of the table is for the ledger.                             *)
LEMMA StepLedger ==
  ASSUME Inv, Next
  PROVE  [Ledger!Next]_<<connections, Cardinality(Unreported), success, timeout, unresolved>>
<1> DEFINE waiting == Cardinality(Unreported)
           Same == UNCHANGED <<connections, waiting, success, timeout, unresolved>>
<1>1. waiting \in Nat /\ success \in Nat /\ timeout \in Nat /\ IsFiniteSet(Unreported)
  BY UnreportedFinite DEF Inv, TypeOK, CountInv
<1>2. ASSUME NEW p \in Peers, NewConnection(p)
      PROVE  Ledger!Open \/ Ledger!OpenOver
  <2> DEFINE fresh == [ttl |-> MetricTTL, reported |-> FALSE, connection |-> connections + 1]
  <2>1. /\ Retained' = Retained \cup {p}
        /\ output'[p] = fresh
        /\ \A q \in Retained : q # p => output'[q] = output[q]
    <3>1. output \in [Retained -> Entry] /\ output' = Put(output, p, fresh)
      BY <1>2 DEF Inv, TypeOK, NewConnection
    <3> HIDE DEF fresh
    <3> QED
      BY <3>1 DEF Put, Retained
  <2>2. Unreported' = Unreported \cup {p}
    <3>1. ~output'[p].reported
      BY <2>1
    <3> HIDE DEF fresh
    <3> QED
      BY <2>1, <3>1 DEF Unreported
  <2>3. waiting' = IF p \in Unreported THEN waiting ELSE waiting + 1
    BY <1>1, <2>2, FS_AddElement
  <2>4. p \in Unreported => waiting > 0
    <3>1. ASSUME p \in Unreported PROVE waiting # 0
      BY <1>1, <3>1, FS_EmptySet
    <3> QED
      BY <1>1, <3>1
  <2>5. /\ unresolved' = unresolved + (IF p \in Unreported THEN 1 ELSE 0)
        /\ success' = success /\ timeout' = timeout /\ unresolved \in Nat
        /\ connections' = connections + 1
    BY <1>2 DEF NewConnection, Unreported, Inv, TypeOK
  <2> HIDE DEF waiting
  <2>6. CASE p \in Unreported
    <3>1. Ledger!OpenOver
      BY <2>3, <2>4, <2>5, <2>6 DEF Ledger!OpenOver, waiting
    <3> QED
      BY <3>1
  <2>7. CASE p \notin Unreported
    <3>1. Ledger!Open
      BY <2>3, <2>5, <2>7 DEF Ledger!Open, waiting
    <3> QED
      BY <3>1
  <2> QED
    BY <2>6, <2>7
<1>3. ASSUME NEW p \in Peers, Report(p)
      PROVE  Ledger!Succeed \/ Same
  <2>1. /\ Retained' = Retained
        /\ Unreported' = Unreported \ {p}
    BY <1>3, RefreshInv DEF Report, FirstReport, Read
  <2>2. /\ success' = success + (IF p \in Unreported THEN 1 ELSE 0)
        /\ UNCHANGED <<connections, timeout, unresolved>>
    BY <1>3 DEF Report, FirstReport, Unreported
  <2>3. CASE p \in Unreported
    <3>1. waiting' = waiting - 1 /\ waiting # 0
      BY <1>1, <2>1, <2>3, FS_RemoveElement, FS_EmptySet
    <3>2. Ledger!Succeed
      BY <1>1, <2>2, <2>3, <3>1 DEF Ledger!Succeed
    <3> QED
      BY <3>2
  <2>4. CASE p \notin Unreported
    <3>1. Unreported' = Unreported
      BY <2>1, <2>4
    <3> QED
      BY <1>1, <2>2, <2>4, <3>1
  <2> QED
    BY <2>3, <2>4
<1>4. ASSUME NEW p \in Peers, ReportFailsHalfway(p)
      PROVE  Same
  <2>1. /\ output[p].reported \in BOOLEAN
        /\ output' = [output EXCEPT ![p].ttl = MetricTTL, ![p].reported = output[p].reported]
    BY <1>4 DEF ReportFailsHalfway, Inv, TypeOK, Entry
  <2>2. Unreported' = IF output[p].reported THEN Unreported \ {p} ELSE Unreported \cup {p}
    BY <1>4, <2>1, RefreshInv DEF ReportFailsHalfway, Read
  <2>3. Unreported' = Unreported
    BY <1>4, <2>2 DEF Unreported, ReportFailsHalfway
  <2> QED
    BY <1>4, <2>3 DEF ReportFailsHalfway
<1>5. ASSUME \/ RejectedLine
             \/ \E p \in Peers, n \in Names : Histogram(p, n)
      PROVE  Same
  BY <1>5 DEF RejectedLine, Histogram, Unreported, Retained
<1>6. ASSUME CleanupTick
      PROVE  Ledger!TimeOut \/ Same
  <2> DEFINE Lost == {p \in Expired : ~output[p].reported}
  <2>1. Lost \in SUBSET Unreported
    BY DEF Expired, Unreported
  <2>2. Unreported' = Unreported \ Lost
    <3>1. \A p \in Retained : Aged(p).reported = output[p].reported
      BY DEF Aged, Inv, TypeOK, Entry
    <3>2. /\ Retained' = Retained \ Expired
          /\ \A p \in Retained' : output'[p] = Aged(p)
      BY <1>6 DEF CleanupTick, Retained
    <3> QED
      BY <3>1, <3>2 DEF Unreported
  <2>3. IsFiniteSet(Lost) /\ Cardinality(Lost) \in Nat
    BY <1>1, <2>1, FS_Subset, FS_CardinalityType
  <2>4. Cardinality(Unreported \ Lost) = waiting - Cardinality(Unreported \cap Lost)
    BY <1>1, FS_Difference
  <2>5. waiting' = waiting - Cardinality(Lost)
    <3>1. Unreported \cap Lost = Lost
      BY <2>1
    <3> QED
      BY <2>2, <2>4, <3>1
  <2>6. /\ timeout' = timeout + Cardinality(Lost)
        /\ UNCHANGED <<connections, success, unresolved>>
    BY <1>6 DEF CleanupTick
  <2>7. Cardinality(Lost) <= waiting
    BY <1>1, <2>1, FS_Subset
  <2> HIDE DEF Lost
  <2>8. CASE Cardinality(Lost) = 0
    BY <1>1, <2>5, <2>6, <2>8
  <2>9. CASE Cardinality(Lost) # 0
    <3>1. Cardinality(Lost) \in 1..waiting
      BY <1>1, <2>3, <2>7, <2>9
    <3>2. Ledger!TimeOut
      BY <2>5, <2>6, <3>1 DEF Ledger!TimeOut
    <3> QED
      BY <3>2
  <2> QED
    BY <2>8, <2>9
<1> QED
  BY <1>2, <1>3, <1>4, <1>5, <1>6 DEF Next, Line, Ledger!Next

(* The table implements the ledger: every line and every round is one      *)
(* entry of it or none, so an outcome is never counted for a connection    *)
(* that does not wait for one.                                             *)
THEOREM TableImplementsLedger == Spec => OutcomesAsLedger
<1>1. Init => Ledger!Init
  <2> SUFFICES ASSUME Init PROVE Ledger!Init
    OBVIOUS
  <2>1. Unreported = {}
    BY DEF Init, Unreported, Retained, Empty
  <2> QED
    BY <2>1, FS_EmptySet DEF Init, Ledger!Init
<1>2. Inv /\ [Next]_vars => [Ledger!Next]_(Ledger!vars)
  <2>1. UNCHANGED vars => UNCHANGED <<connections, Cardinality(Unreported), success, timeout, unresolved>>
    BY DEF vars, tableVars, historyVars, Unreported, Retained
  <2> QED
    BY <2>1, StepLedger DEF Ledger!vars
<1> QED
  BY <1>1, <1>2, SpecInv, PTL DEF Spec, OutcomesAsLedger, Ledger!Spec

-----------------------------------------------------------------------------
(* The walks.                                                              *)
WalkInv ==
    /\ WalkTypeOK
    /\ IsFiniteSet(dict)
    /\ FamiliesAreSnapshots

(* The walks leave the table alone: what holds of it holds next to them.   *)
THEOREM WalksLeaveTheTable == WalkSpec => Spec
<1>1. WalkInit => Init
  BY DEF WalkInit
<1>2. [WalkNext]_walkingVars => [Next]_vars
  BY DEF WalkNext, LineMeanwhile, CleanupMeanwhile, BeginWalk, VisitPeer, EndWalk, WalkRaises,
     NextFamily, LeaveWalk, walkingVars, Next
<1> QED
  BY <1>1, <1>2, PTL DEF WalkSpec, Spec

(* Lines only add peers.                                                   *)
LEMMA LinesAdd ==
  ASSUME TypeOK, Line
  PROVE  Retained \subseteq Retained'
<1>1. ASSUME NEW p \in Peers, NewConnection(p) PROVE Retained \subseteq Retained'
  BY <1>1 DEF NewConnection, Put, Retained
<1>2. ASSUME NEW p \in Peers, Report(p) \/ ReportFailsHalfway(p) PROVE Retained' = Retained
  BY <1>2 DEF Report, ReportFailsHalfway, TypeOK, Retained
<1>3. ASSUME (\E p \in Peers, n \in Names : Histogram(p, n)) \/ RejectedLine PROVE Retained' = Retained
  BY <1>3 DEF Histogram, RejectedLine, Retained
<1> QED
  BY <1>1, <1>2, <1>3 DEF Line

LEMMA WalkStep ==
  ASSUME Inv, Inv', WalkInv, [WalkNext]_walkingVars
  PROVE  WalkInv'
<1>0. /\ WalkTypeOK /\ IsFiniteSet(dict) /\ FamiliesAreSnapshots
      /\ Retained \subseteq Peers /\ Retained' \subseteq Peers
      /\ IsFiniteSet(Retained) /\ IsFiniteSet(Retained')
  BY DEF WalkInv, Inv, TypeOK, CountInv
<1>1. CASE LineMeanwhile
  <2>1. dict' = IF shared THEN Retained' ELSE dict
    BY <1>1 DEF LineMeanwhile, Retained
  <2>2. dict \subseteq dict' /\ dict' \subseteq Peers /\ IsFiniteSet(dict')
    BY <1>0, <1>1, <2>1, LinesAdd DEF WalkTypeOK, LineMeanwhile, Inv
  <2> QED
    BY <1>0, <1>1, <2>1, <2>2 DEF WalkInv, WalkTypeOK, FamiliesAreSnapshots, LineMeanwhile
<1>2. CASE CleanupMeanwhile
  BY <1>0, <1>2 DEF WalkInv, WalkTypeOK, FamiliesAreSnapshots, CleanupMeanwhile
<1>3. CASE BeginWalk
  <2>1. /\ Retained' = Retained /\ dict' = Retained /\ began' = Retained
        /\ at' = "walking" /\ shared' = TRUE /\ seen' = seen /\ size' = Cardinality(Retained)
    BY <1>3 DEF BeginWalk, vars, tableVars, Retained
  <2>2. seen = {}
    BY <1>0, <1>3 DEF BeginWalk, WalkTypeOK
  <2> QED
    BY <1>0, <2>1, <2>2 DEF WalkInv, WalkTypeOK, FamiliesAreSnapshots
<1>4. CASE VisitPeer
  <2>1. Retained' = Retained /\ seen' \subseteq dict
    BY <1>0, <1>4 DEF VisitPeer, vars, tableVars, Retained, WalkTypeOK
  <2> QED
    BY <1>0, <1>4, <2>1 DEF WalkInv, WalkTypeOK, FamiliesAreSnapshots, VisitPeer
<1>5. CASE EndWalk
  <2>1. Cardinality(began) = Cardinality(dict)
    BY <1>0, <1>5 DEF EndWalk, SizeChanged, WalkTypeOK
  <2>2. began = dict
    BY <1>0, <2>1, FS_Subset DEF WalkTypeOK
  <2>3. seen = began /\ Retained' = Retained
    BY <1>0, <1>5, <2>2 DEF EndWalk, WalkTypeOK, vars, tableVars, Retained
  <2> QED
    BY <1>0, <1>5, <2>3 DEF WalkInv, WalkTypeOK, FamiliesAreSnapshots, EndWalk
<1>6. CASE WalkRaises \/ NextFamily
  <2>1. LeaveWalk
    BY <1>6 DEF WalkRaises, NextFamily
  <2> QED
    BY <2>1, FS_EmptySet DEF LeaveWalk, WalkInv, WalkTypeOK, FamiliesAreSnapshots
<1>7. CASE UNCHANGED walkingVars
  BY <1>0, <1>7 DEF walkingVars, walkVars, vars, tableVars, Retained, WalkInv, WalkTypeOK,
     FamiliesAreSnapshots
<1> QED
  BY <1>1, <1>2, <1>3, <1>4, <1>5, <1>6, <1>7 DEF WalkNext

(* A family has the peers retained when its walk began, whatever lines and *)
(* rounds come in between: the dictionary walked only grows, so its size   *)
(* at the end says whether it is still what it was.                        *)
THEOREM FamiliesAtOnce == WalkSpec => []FamiliesAreSnapshots
<1>1. WalkInit => WalkInv
  BY FS_EmptySet DEF WalkInit, NoWalk, WalkInv, WalkTypeOK, FamiliesAreSnapshots
<1>2. WalkSpec => []Inv
  BY WalksLeaveTheTable, SpecInv, PTL
<1>3. Inv /\ Inv' /\ WalkInv /\ [WalkNext]_walkingVars => WalkInv'
  BY WalkStep
<1>4. WalkInv => FamiliesAreSnapshots
  BY DEF WalkInv
<1> QED
  BY <1>1, <1>2, <1>3, <1>4, PTL DEF WalkSpec
=============================================================================
