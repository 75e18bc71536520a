------------------------- MODULE PathTrace_proofs -------------------------
(***************************************************************************)
(* Proofs about PathTrace for any finite set of pairs and any scrapers.    *)
(***************************************************************************)
EXTENDS PathTrace, FiniteSetTheorems, SequenceTheorems, TLAPS

(* TypeOK in parts: the harvested results, the futures and their queue,    *)
(* the rest.                                                               *)
FutureTypes ==
    /\ DOMAIN cache \subseteq Pairs
    /\ \A p \in DOMAIN cache : cache[p] \in {"fresh", "due"}
    /\ DOMAIN inFlight \subseteq Pairs
    /\ \A p \in DOMAIN inFlight : inFlight[p] \in FutureStates
    /\ queue \in Seq(Pairs)

WorkerTypes ==
    /\ worker \in {"idle", "start"} \cup Tracing \cup Outcomes
    /\ worker = "idle" => job = "none"
    /\ worker # "idle" => job \in Pairs
    /\ process \in {"none", "running", "stopping"}
    /\ \/ worker \in Tracing /\ active = TRUE
       \/ worker \notin Tracing /\ active = FALSE

ScrapeTypes ==
    /\ shutdown \in BOOLEAN /\ closed \in BOOLEAN /\ processLocked \in BOOLEAN
    /\ errors \in Nat
    /\ pc \in [Scrapers -> {"idle", "collect"}]
    /\ wanted \in [Scrapers -> SUBSET Pairs]
    /\ main \in {"serving", "stop_active", "wait_active", "shutdown", "join", "closed", "raised"}
    /\ submitted \in Nat /\ succeeded \in Nat

(* What close() did so far, by where it is; a process that was not told to *)
(* end is one the worker waits for, so that the absence of an active one,  *)
(* which is what close() looks at, means that none runs.                   *)
CloseInv ==
    /\ \/ main = "serving" /\ closed = FALSE
       \/ main # "serving" /\ closed = TRUE
    /\ \/ main \in {"join", "closed"} /\ shutdown = TRUE
       \/ main \notin {"join", "closed"} /\ shutdown = FALSE
    /\ process = "running" => worker = "trace"
    /\ NoTraceBehindClose

Inv == TypeOK /\ CloseInv /\ OneTracePerPair /\ EveryTraceCounted

USE PathTraceAssumption DEF FutureStates, Finished, Tracing, Outcomes

-----------------------------------------------------------------------------
(* Any order of the pairs to submit holds each of them once.               *)
LEMMA OrderOfSet ==
  ASSUME NEW S \in SUBSET Pairs, NEW order \in SetToSeqs(S)
  PROVE  order \in Seq(Pairs) /\ IsInjective(order) /\ ToSet(order) = S
<1>1. IsFiniteSet(S) /\ Cardinality(S) \in Nat
  BY FS_Subset, FS_CardinalityType
<1> DEFINE D == 1..Cardinality(S)
<1>2. order \in [D -> S] /\ \A i, j \in D : i # j => order[i] # order[j]
  BY DEF SetToSeqs
<1>3. order \in Seq(S) /\ DOMAIN order = D
  BY <1>1, <1>2
<1>4. order \in Seq(Pairs)
  BY <1>3, SeqMonotonic
<1>5. IsInjective(order)
  BY <1>2, <1>3 DEF IsInjective
<1>6. IsFiniteSet(D) /\ Cardinality(D) = Cardinality(S)
  BY <1>1, FS_Interval
<1>7. order \in Surjection(D, S)
  <2>1. order \in Injection(D, S)
    BY <1>2, <1>5 DEF Injection
  <2> QED
    BY <1>1, <1>6, <2>1, FS_Injection
<1>8. ToSet(order) = S
  BY <1>2, <1>3, <1>7 DEF ToSet, Surjection
<1> QED
  BY <1>4, <1>5, <1>8

(* The queue grows by pairs it does not hold yet,                          *)
LEMMA QueueGrows ==
  ASSUME NEW q \in Seq(Pairs), NEW r \in Seq(Pairs), IsInjective(q), IsInjective(r),
         ToSet(q) \cap ToSet(r) = {}
  PROVE  /\ q \o r \in Seq(Pairs) /\ IsInjective(q \o r)
         /\ ToSet(q \o r) = ToSet(q) \cup ToSet(r)
<1> DEFINE n == Len(q)
           m == Len(r)
           s == q \o r
<1>1. /\ n \in Nat /\ m \in Nat /\ DOMAIN q = 1..n /\ DOMAIN r = 1..m
  BY LenProperties
<1>2. /\ s \in Seq(Pairs) /\ Len(s) = n + m
      /\ \A i \in 1..(n + m) : s[i] = IF i <= n THEN q[i] ELSE r[i - n]
  BY ConcatProperties
<1>3. DOMAIN s = 1..(n + m)
  BY <1>2, LenProperties
<1> HIDE DEF s
<1>4. \A i \in 1..(n + m) : \/ i \in 1..n /\ s[i] = q[i]
                            \/ i \notin 1..n /\ i - n \in 1..m /\ s[i] = r[i - n]
  BY <1>1, <1>2
<1>5. \A i \in 1..n : i \in 1..(n + m) /\ s[i] = q[i]
  BY <1>1, <1>2
<1>6. \A j \in 1..m : j + n \in 1..(n + m) /\ s[j + n] = r[j]
  <2> SUFFICES ASSUME NEW j \in 1..m PROVE j + n \in 1..(n + m) /\ s[j + n] = r[j]
    OBVIOUS
  <2>1. j + n \in 1..(n + m) /\ ~(j + n <= n) /\ j + n - n = j
    BY <1>1
  <2> QED
    BY <1>2, <2>1
<1>7. ToSet(s) = ToSet(q) \cup ToSet(r)
  BY <1>1, <1>3, <1>4, <1>5, <1>6 DEF ToSet
<1>8. IsInjective(s)
  <2> SUFFICES ASSUME NEW i \in 1..(n + m), NEW j \in 1..(n + m), s[i] = s[j] PROVE i = j
    BY <1>3 DEF IsInjective
  <2>1. CASE i \in 1..n /\ j \in 1..n
    BY <1>1, <1>5, <2>1 DEF IsInjective
  <2>2. CASE i \notin 1..n /\ j \notin 1..n
    <3>1. i - n \in 1..m /\ j - n \in 1..m /\ r[i - n] = r[j - n]
      BY <1>4, <2>2
    <3>2. i - n = j - n
      BY <1>1, <3>1 DEF IsInjective
    <3> QED
      BY <1>1, <3>2
  <2>3. CASE (i \in 1..n) # (j \in 1..n)
    <3>1. \/ s[i] \in ToSet(q) /\ s[j] \in ToSet(r)
          \/ s[i] \in ToSet(r) /\ s[j] \in ToSet(q)
      BY <1>1, <1>4, <2>3 DEF ToSet
    <3> QED
      BY <3>1
  <2> QED
    BY <2>1, <2>2, <2>3
<1> QED
  BY <1>2, <1>7, <1>8 DEF s

(* and shrinks by the one the worker takes.                                *)
LEMMA QueueShrinks ==
  ASSUME NEW q \in Seq(Pairs), IsInjective(q), q # <<>>
  PROVE  /\ Head(q) \in ToSet(q) /\ Tail(q) \in Seq(Pairs) /\ IsInjective(Tail(q))
         /\ ToSet(Tail(q)) = ToSet(q) \ {Head(q)}
<1> DEFINE n == Len(q)
           t == Tail(q)
<1>1. n \in Nat \ {0} /\ DOMAIN q = 1..n /\ Head(q) = q[1]
  BY LenProperties, EmptySeq
<1>2. t \in Seq(Pairs) /\ Len(t) = n - 1 /\ \A i \in 1..(n - 1) : t[i] = q[i + 1]
  BY HeadTailProperties
<1>3. DOMAIN t = 1..(n - 1)
  BY <1>2, LenProperties
<1> HIDE DEF t
<1>4. IsInjective(t)
  <2> SUFFICES ASSUME NEW i \in 1..(n - 1), NEW j \in 1..(n - 1), t[i] = t[j] PROVE i = j
    BY <1>3 DEF IsInjective
  <2>1. i + 1 \in 1..n /\ j + 1 \in 1..n /\ q[i + 1] = q[j + 1]
    BY <1>1, <1>2
  <2>2. i + 1 = j + 1
    BY <1>1, <2>1 DEF IsInjective
  <2> QED
    BY <2>2
<1>5. \A i \in 1..(n - 1) : i + 1 \in 1..n /\ i + 1 # 1
  BY <1>1
<1>6. \A k \in 1..n : k # 1 => k - 1 \in 1..(n - 1) /\ q[k] = t[k - 1]
  <2> SUFFICES ASSUME NEW k \in 1..n, k # 1 PROVE k - 1 \in 1..(n - 1) /\ q[k] = t[k - 1]
    OBVIOUS
  <2>1. k - 1 \in 1..(n - 1) /\ (k - 1) + 1 = k
    BY <1>1
  <2> QED
    BY <1>2, <2>1
<1>7. 1 \in 1..n /\ \A k \in 1..n : q[k] = q[1] => k = 1
  BY <1>1 DEF IsInjective
<1>8. ToSet(t) \subseteq ToSet(q) \ {q[1]}
  BY <1>1, <1>2, <1>3, <1>5, <1>7 DEF ToSet
<1>9. ToSet(q) \ {q[1]} \subseteq ToSet(t)
  BY <1>1, <1>3, <1>6 DEF ToSet
<1> QED
  BY <1>1, <1>2, <1>4, <1>7, <1>8, <1>9 DEF t, ToSet

-----------------------------------------------------------------------------
(* Equality with a truth value, by cases.                                  *)
LEMMA EqualsBoolean ==
  ASSUME NEW a, NEW b \in BOOLEAN
  PROVE  a = b <=> \/ b /\ a = TRUE
                   \/ ~b /\ a = FALSE
<1>1. CASE b = TRUE
  BY <1>1
<1>2. CASE b = FALSE
  BY <1>2
<1> QED
  BY <1>1, <1>2

LEMMA TypeParts == TypeOK <=> FutureTypes /\ WorkerTypes /\ ScrapeTypes
<1> DEFINE tracing == worker \in Tracing
<1>1. tracing \in BOOLEAN
  OBVIOUS
<1> HIDE DEF tracing
<1>2. active = tracing <=> \/ tracing /\ active = TRUE
                           \/ ~tracing /\ active = FALSE
  BY <1>1, EqualsBoolean
<1> QED
  BY <1>2 DEF TypeOK, tracing, FutureTypes, WorkerTypes, ScrapeTypes

(* Whatever is counted is finite.                                          *)
LEMMA Countable ==
  ASSUME FutureTypes, NEW S \in SUBSET DOMAIN inFlight
  PROVE  IsFiniteSet(S) /\ Cardinality(S) \in Nat
<1>1. S \in SUBSET Pairs
  BY DEF FutureTypes
<1> QED
  BY <1>1, FS_Subset, FS_CardinalityType

LEMMA DueFinite ==
  ASSUME TypeOK, NEW s \in Scrapers
  PROVE  Due(s) \in SUBSET Pairs /\ IsFiniteSet(Due(s)) /\ Cardinality(Due(s)) \in Nat
<1>1. Due(s) \in SUBSET Pairs
  BY DEF TypeOK, Due
<1> QED
  BY <1>1, FS_Subset, FS_CardinalityType

LEMMA InitInv == Init => Inv
<1> SUFFICES ASSUME Init PROVE Inv
  OBVIOUS
<1> USE DEF Init
<1>1. FutureTypes
  BY EmptySeq DEF FutureTypes, Empty
<1>2. WorkerTypes
  BY DEF WorkerTypes
<1>3. ScrapeTypes
  <2>1. {} \in SUBSET Pairs
    OBVIOUS
  <2>2. wanted \in [Scrapers -> SUBSET Pairs] /\ pc \in [Scrapers -> {"idle", "collect"}]
    BY <2>1
  <2>3. shutdown \in BOOLEAN /\ closed \in BOOLEAN /\ processLocked \in BOOLEAN
    OBVIOUS
  <2> QED
    BY <2>2, <2>3 DEF ScrapeTypes
<1>4. CloseInv
  <2>1. closed = FALSE /\ shutdown = FALSE /\ main = "serving" /\ process = "none"
    OBVIOUS
  <2> QED
    BY <2>1 DEF CloseInv, NoTraceBehindClose
<1>5. DOMAIN inFlight = {} /\ Queued = {} /\ Running = {} /\ Raising = {}
  BY DEF Empty, Queued, Running, Raising, Harvested
<1>6. OneTracePerPair
  <2>1. DOMAIN queue = {}
    OBVIOUS
  <2> QED
    BY <1>5, <2>1 DEF OneTracePerPair, IsInjective, ToSet
<1>7. EveryTraceCounted
  BY <1>5, FS_EmptySet DEF EveryTraceCounted
<1> QED
  BY <1>1, <1>2, <1>3, <1>4, <1>6, <1>7, TypeParts DEF Inv

-----------------------------------------------------------------------------
(* The futures and their queue stay in all steps but these.                *)
Frames ==
    \/ UNCHANGED <<inFlight, queue, submitted, succeeded, errors>>
         /\ (worker = "idle" <=> worker' = "idle") /\ job' = job
    \/ \E s \in Scrapers : Collect(s)
    \/ TakeJob \/ Record \/ Shutdown

LEMMA StepFrames == TypeOK /\ [Next]_vars => Frames
<1> SUFFICES ASSUME TypeOK, [Next]_vars PROVE Frames
  OBVIOUS
<1> USE DEF executorVars, workerVars, historyVars
<1>1. ASSUME NEW s \in Scrapers, CollectNothing(s) \/ BeginCollect(s) PROVE Frames
  BY <1>1 DEF CollectNothing, BeginCollect, vars, Frames
<1>2. ASSUME NEW p \in Pairs, Elapse(p) PROVE Frames
  BY <1>2 DEF Elapse, Frames
<1>3. CASE StartProcess \/ Communicated \/ TimesOut \/ ExpiredStopped \/ ClearActive
  <2>1. worker # "idle" /\ worker' # "idle"
    BY <1>3 DEF StartProcess, Communicated, TimesOut, ExpiredStopped, ClearActive
  <2>2. UNCHANGED <<inFlight, queue, submitted, succeeded, errors, job>>
    BY <1>3 DEF StartProcess, Communicated, TimesOut, ExpiredStopped, ClearActive
  <2> QED
    BY <2>1, <2>2 DEF Frames
<1>4. CASE ProcessEnds \/ Close \/ ReadActive \/ StopActive \/ StopWaited \/ StopRaises
           \/ JoinWorker \/ UNCHANGED vars
  BY <1>4 DEF ProcessEnds, Close, ReadActive, StopActive, StopWaited, StopRaises, JoinWorker,
     vars, Frames
<1>5. CASE Ended
  BY <1>5 DEF Ended, vars, Frames
<1>6. CASE TakeJob \/ Record \/ Shutdown \/ \E s \in Scrapers : Collect(s)
  BY <1>6 DEF Frames
<1> QED
  BY <1>1, <1>2, <1>3, <1>4, <1>5, <1>6 DEF Next, Worker, Closing

(* What a collect() does to the futures: those that wait stay, those due   *)
(* are queued, none of which is on the way.                                *)
LEMMA CollectEffect ==
  ASSUME TypeOK, NEW s \in Scrapers, Collect(s)
  PROVE  \E new \in SUBSET Pairs :
            /\ new = {} \/ (shutdown = FALSE /\ new = Due(s))
            /\ IsFiniteSet(new) /\ Cardinality(new) \in Nat
            /\ new \cap Queued = {} /\ new \cap Running = {}
            /\ Queued' = Queued \cup new /\ Running' = Running /\ Raising' = {}
            /\ DOMAIN inFlight' \subseteq Pairs
            /\ \A p \in DOMAIN inFlight' : inFlight'[p] \in FutureStates
            /\ errors' = errors + Cardinality(Raising)
            /\ submitted' = submitted + Cardinality(new)
            /\ \E order \in SetToSeqs(new) : queue' = queue \o order
<1> DEFINE waiting == DOMAIN inFlight \ Harvested
           new == IF shutdown THEN {} ELSE Due(s)
<1>1. shutdown \in BOOLEAN /\ Due(s) \in SUBSET Pairs /\ new \in SUBSET Pairs
  BY DueFinite DEF TypeOK
<1>2. IsFiniteSet(new) /\ Cardinality(new) \in Nat
  BY <1>1, FS_Subset, FS_CardinalityType
<1>3. new = {} \/ (shutdown = FALSE /\ new = Due(s))
  BY <1>1
<1>4. new \cap waiting = {}
  BY DEF Due
<1>5. inFlight' = [p \in waiting \cup new |-> IF p \in new THEN "queued" ELSE inFlight[p]]
  BY DEF Collect
<1>6. /\ submitted' = submitted + Cardinality(new)
      /\ \E order \in SetToSeqs(new) : queue' = queue \o order
      /\ errors' = errors + Cardinality(Raising)
  BY DEF Collect, HarvestedCounts
<1> HIDE DEF new
<1>7. waiting = Queued \cup Running
  BY DEF TypeOK, Harvested, Queued, Running
<1>8. /\ DOMAIN inFlight' = waiting \cup new
      /\ \A p \in new : inFlight'[p] = "queued"
      /\ \A p \in waiting : inFlight'[p] = inFlight[p]
  BY <1>4, <1>5
<1>9. /\ \A p \in waiting : inFlight[p] = "queued" \/ inFlight[p] = "running"
      /\ Queued = {p \in waiting : inFlight[p] = "queued"}
      /\ Running = {p \in waiting : inFlight[p] = "running"}
  BY <1>7 DEF Queued, Running
<1> HIDE DEF waiting
<1>10. Queued' = Queued \cup new /\ Running' = Running
  BY <1>8, <1>9 DEF Queued, Running
<1>11. Raising' = {}
  BY <1>8, <1>9 DEF Raising, Harvested
<1>12. DOMAIN inFlight' \subseteq Pairs
       /\ \A p \in DOMAIN inFlight' : inFlight'[p] \in FutureStates
  <2>1. waiting \subseteq Pairs
    BY DEF waiting, TypeOK
  <2> QED
    BY <1>1, <1>8, <1>9, <2>1
<1>13. new \cap Queued = {} /\ new \cap Running = {}
  BY <1>4, <1>7 DEF waiting
<1> QED
  BY <1>1, <1>2, <1>3, <1>6, <1>10, <1>11, <1>12, <1>13

-----------------------------------------------------------------------------
LEMMA TypeStep == Inv /\ [Next]_vars => TypeOK'
<1> SUFFICES ASSUME Inv, [Next]_vars PROVE FutureTypes' /\ WorkerTypes' /\ ScrapeTypes'
  <2>1. TypeOK' <=> FutureTypes' /\ WorkerTypes' /\ ScrapeTypes'
    BY TypeParts, PTL
  <2> QED
    BY <2>1
<1>0. TypeOK /\ FutureTypes /\ WorkerTypes /\ ScrapeTypes /\ OneTracePerPair
  BY TypeParts DEF Inv
<1> USE DEF executorVars, workerVars, historyVars
<1>1. ASSUME NEW s \in Scrapers, CollectNothing(s) \/ BeginCollect(s)
      PROVE  FutureTypes' /\ WorkerTypes' /\ ScrapeTypes'
  <2>1. UNCHANGED <<cache, inFlight, queue, worker, job, process, active>>
    BY <1>1 DEF CollectNothing, BeginCollect, vars
  <2>2. FutureTypes' /\ WorkerTypes'
    BY <1>0, <2>1 DEF FutureTypes, WorkerTypes
  <2>3. ScrapeTypes'
    BY <1>0, <1>1 DEF ScrapeTypes, CollectNothing, BeginCollect, vars
  <2> QED
    BY <2>2, <2>3
<1>2. ASSUME NEW s \in Scrapers, Collect(s) PROVE FutureTypes' /\ WorkerTypes' /\ ScrapeTypes'
  <2>1. PICK new \in SUBSET Pairs :
            /\ Cardinality(new) \in Nat
            /\ DOMAIN inFlight' \subseteq Pairs
            /\ \A p \in DOMAIN inFlight' : inFlight'[p] \in FutureStates
            /\ errors' = errors + Cardinality(Raising)
            /\ submitted' = submitted + Cardinality(new)
            /\ \E order \in SetToSeqs(new) : queue' = queue \o order
    BY <1>0, <1>2, CollectEffect
  <2>2. PICK order \in SetToSeqs(new) : queue' = queue \o order
    BY <2>1
  <2>3. queue' \in Seq(Pairs)
    BY <1>0, <2>2, OrderOfSet, ConcatProperties DEF FutureTypes
  <2>4. DOMAIN cache' \subseteq Pairs /\ \A p \in DOMAIN cache' : cache'[p] \in {"fresh", "due"}
    BY <1>0, <1>2 DEF FutureTypes, Collect, NewCache, Completed, Harvested
  <2>5. Cardinality(Raising) \in Nat
    BY <1>0, Countable DEF Raising, Harvested
  <2>6. WorkerTypes'
    BY <1>0, <1>2 DEF WorkerTypes, Collect
  <2>7. ScrapeTypes'
    BY <1>0, <1>2, <2>1, <2>5 DEF ScrapeTypes, Collect
  <2> QED
    BY <2>1, <2>3, <2>4, <2>6, <2>7 DEF FutureTypes
<1>3. ASSUME NEW p \in Pairs, Elapse(p) PROVE FutureTypes' /\ WorkerTypes' /\ ScrapeTypes'
  BY <1>0, <1>3 DEF FutureTypes, WorkerTypes, ScrapeTypes, Elapse
<1>4. CASE TakeJob
  <2>1. Head(queue) \in Pairs /\ Tail(queue) \in Seq(Pairs)
    BY <1>0, <1>4, HeadTailProperties DEF TakeJob, FutureTypes
  <2>2. FutureTypes'
    BY <1>0, <1>4, <2>1 DEF FutureTypes, TakeJob
  <2>3. WorkerTypes'
    BY <1>0, <1>4, <2>1 DEF WorkerTypes, TakeJob
  <2>4. ScrapeTypes'
    BY <1>0, <1>4 DEF ScrapeTypes, TakeJob
  <2> QED
    BY <2>2, <2>3, <2>4
<1>5. CASE StartProcess \/ Communicated \/ TimesOut \/ ExpiredStopped \/ ClearActive \/ ProcessEnds
  <2>1. FutureTypes' /\ ScrapeTypes'
    BY <1>0, <1>5 DEF FutureTypes, ScrapeTypes, StartProcess, Communicated, TimesOut,
       ExpiredStopped, ClearActive, ProcessEnds
  <2>2. WorkerTypes'
    BY <1>0, <1>5 DEF WorkerTypes, StartProcess, Communicated, TimesOut, ExpiredStopped,
       ClearActive, ProcessEnds
  <2> QED
    BY <2>1, <2>2
<1>6. CASE Record
  <2>1. FutureTypes' /\ WorkerTypes'
    BY <1>0, <1>6 DEF FutureTypes, WorkerTypes, Record
  <2>2. ScrapeTypes'
    BY <1>0, <1>6 DEF ScrapeTypes, Record
  <2> QED
    BY <2>1, <2>2
<1>7. CASE Close \/ ReadActive \/ StopActive \/ StopWaited \/ StopRaises \/ JoinWorker
  <2>1. FutureTypes' /\ ScrapeTypes'
    BY <1>0, <1>7 DEF FutureTypes, ScrapeTypes, Close, ReadActive, StopActive, StopWaited,
       StopRaises, JoinWorker
  <2>2. WorkerTypes'
    BY <1>0, <1>7 DEF WorkerTypes, Close, ReadActive, StopActive, StopWaited, StopRaises,
       JoinWorker
  <2> QED
    BY <2>1, <2>2
<1>8. CASE Shutdown
  <2>1. FutureTypes'
    BY <1>0, <1>8, EmptySeq DEF FutureTypes, Shutdown
  <2>2. WorkerTypes' /\ ScrapeTypes'
    BY <1>0, <1>8 DEF WorkerTypes, ScrapeTypes, Shutdown
  <2> QED
    BY <2>1, <2>2
<1>9. CASE Ended \/ UNCHANGED vars
  BY <1>0, <1>9 DEF Ended, vars, FutureTypes, WorkerTypes, ScrapeTypes
<1> QED
  BY <1>1, <1>2, <1>3, <1>4, <1>5, <1>6, <1>7, <1>8, <1>9 DEF Next, Worker, Closing

-----------------------------------------------------------------------------
(* close() leaves nothing behind, step by step.                            *)
LEMMA CloseStep == Inv /\ [Next]_vars => CloseInv'
<1> SUFFICES ASSUME Inv, [Next]_vars PROVE CloseInv'
  OBVIOUS
<1>0. WorkerTypes /\ CloseInv
  BY TypeParts DEF Inv
<1> USE DEF executorVars, workerVars, historyVars, CloseInv, NoTraceBehindClose
<1>1. ASSUME NEW s \in Scrapers, CollectNothing(s) \/ BeginCollect(s) PROVE CloseInv'
  BY <1>0, <1>1 DEF CollectNothing, BeginCollect, vars
<1>2. ASSUME NEW s \in Scrapers, Collect(s) PROVE CloseInv'
  <2>1. UNCHANGED <<closed, shutdown, main, process, worker>>
    BY <1>2 DEF Collect
  <2>2. shutdown = TRUE => queue' = queue
    <3>1. PICK new \in SUBSET Pairs :
            /\ new = {} \/ (shutdown = FALSE /\ new = Due(s))
            /\ \E order \in SetToSeqs(new) : queue' = queue \o order
      BY <1>2, CollectEffect DEF Inv
    <3> SUFFICES ASSUME shutdown = TRUE PROVE queue' = queue
      OBVIOUS
    <3>2. PICK order \in SetToSeqs({}) : queue' = queue \o order
      BY <3>1
    <3>3. order \in Seq(Pairs) /\ ToSet(order) = {}
      BY <3>2, OrderOfSet
    <3>4. Len(order) \in Nat /\ DOMAIN order = 1..Len(order)
      BY <3>3, LenProperties
    <3>5. Len(order) = 0
      <4> SUFFICES ASSUME Len(order) # 0 PROVE FALSE
        OBVIOUS
      <4>1. 1 \in DOMAIN order
        BY <3>4
      <4> QED
        BY <3>3, <4>1 DEF ToSet
    <3>6. order = <<>>
      BY <3>3, <3>5, EmptySeq
    <3> QED
      BY <3>2, <3>6, ConcatEmptySeq DEF Inv, TypeOK
  <2> QED
    BY <1>0, <2>1, <2>2
<1>3. ASSUME NEW p \in Pairs, Elapse(p) PROVE CloseInv'
  BY <1>0, <1>3 DEF Elapse
<1>4. CASE TakeJob
  BY <1>0, <1>4 DEF TakeJob
<1>5. CASE StartProcess
  BY <1>0, <1>5 DEF StartProcess, MayStart
<1>6. CASE Communicated \/ TimesOut \/ ExpiredStopped \/ ClearActive \/ ProcessEnds \/ Record
  BY <1>0, <1>6 DEF Communicated, TimesOut, ExpiredStopped, ClearActive, ProcessEnds, Record
<1>7. CASE Close
  BY <1>0, <1>7 DEF Close
<1>8. CASE ReadActive
  BY <1>0, <1>8 DEF ReadActive, WorkerTypes
<1>9. CASE StopActive \/ StopWaited \/ StopRaises \/ JoinWorker
  BY <1>0, <1>9 DEF StopActive, StopWaited, StopRaises, JoinWorker
<1>10. CASE Shutdown
  BY <1>0, <1>10 DEF Shutdown
<1>11. CASE Ended \/ UNCHANGED vars
  BY <1>0, <1>11 DEF Ended, vars
<1> QED
  BY <1>1, <1>2, <1>3, <1>4, <1>5, <1>6, <1>7, <1>8, <1>9, <1>10, <1>11 DEF Next, Worker, Closing

-----------------------------------------------------------------------------
(* What the worker and close() do to the futures.                          *)
LEMMA TakeEffect ==
  ASSUME Inv, TakeJob
  PROVE  /\ Head(queue) \in Queued /\ Running = {}
         /\ Queued' = Queued \ {Head(queue)} /\ Running' = {Head(queue)} /\ Raising' = Raising
         /\ IsInjective(queue') /\ ToSet(queue') = ToSet(queue) \ {Head(queue)}
<1>1. queue \in Seq(Pairs) /\ queue # <<>> /\ IsInjective(queue) /\ ToSet(queue) = Queued
      /\ Running = {}
  BY DEF Inv, TypeOK, OneTracePerPair, TakeJob
<1> DEFINE h == Head(queue)
<1>2. h \in Queued /\ IsInjective(queue') /\ ToSet(queue') = ToSet(queue) \ {h}
  BY <1>1, QueueShrinks DEF TakeJob
<1> HIDE DEF h
<1>3. /\ h \in DOMAIN inFlight /\ inFlight[h] = "queued" /\ DOMAIN inFlight' = DOMAIN inFlight
      /\ \A p \in DOMAIN inFlight : inFlight'[p] = IF p = h THEN "running" ELSE inFlight[p]
  BY <1>2 DEF TakeJob, Queued, h
<1>4. Queued' = Queued \ {h}
  BY <1>3 DEF Queued
<1>5. Running' = {h}
  BY <1>1, <1>3 DEF Running
<1>6. Raising' = Raising
  BY <1>3 DEF Raising, Harvested
<1> QED
  BY <1>1, <1>2, <1>4, <1>5, <1>6 DEF h

LEMMA RecordEffect ==
  ASSUME Inv, Record
  PROVE  /\ Running = {job} /\ job \notin Raising
         /\ Queued' = Queued /\ Running' = {}
         /\ Raising' = IF worker = "exception" THEN Raising \cup {job} ELSE Raising
<1>1. Running = {job}
  BY DEF Inv, OneTracePerPair, Record
<1>2. job \in DOMAIN inFlight /\ inFlight[job] = "running"
  BY <1>1 DEF Running
<1>3. /\ DOMAIN inFlight' = DOMAIN inFlight
      /\ \A p \in DOMAIN inFlight :
            inFlight'[p] = IF p = job THEN (IF worker = "exception" THEN "failed" ELSE "done")
                           ELSE inFlight[p]
  BY DEF Record
<1>4. Queued' = Queued
  BY <1>2, <1>3 DEF Queued
<1>5. Running' = {}
  BY <1>1, <1>3 DEF Running
<1>6. job \notin Raising
  BY <1>2 DEF Raising, Harvested
<1>7. CASE worker = "exception"
  BY <1>1, <1>2, <1>3, <1>4, <1>5, <1>6, <1>7 DEF Raising, Harvested
<1>8. CASE worker # "exception"
  BY <1>1, <1>2, <1>3, <1>4, <1>5, <1>6, <1>8 DEF Raising, Harvested
<1> QED
  BY <1>7, <1>8

LEMMA ShutdownEffect ==
  ASSUME Shutdown
  PROVE  /\ Queued' = {} /\ Running' = Running /\ Raising' = Raising \cup Queued
         /\ Raising \cap Queued = {}
<1>1. /\ DOMAIN inFlight' = DOMAIN inFlight
      /\ \A p \in DOMAIN inFlight :
            inFlight'[p] = IF inFlight[p] = "queued" THEN "cancelled" ELSE inFlight[p]
  BY DEF Shutdown
<1>2. Queued' = {} /\ Running' = Running
  BY <1>1 DEF Queued, Running
<1>3. Raising' = Raising \cup Queued /\ Raising \cap Queued = {}
  BY <1>1 DEF Queued, Raising, Harvested
<1> QED
  BY <1>2, <1>3

(* The queue and the worker hold each pair in flight once.                 *)
LEMMA QueueStep == Inv /\ [Next]_vars => OneTracePerPair'
<1> SUFFICES ASSUME Inv, [Next]_vars PROVE OneTracePerPair'
  OBVIOUS
<1>0. TypeOK /\ OneTracePerPair /\ Frames
  BY StepFrames DEF Inv
<1>1. CASE /\ UNCHANGED <<inFlight, queue>>
           /\ (worker = "idle" <=> worker' = "idle") /\ job' = job
  <2>1. Queued' = Queued /\ Running' = Running
    BY <1>1 DEF Queued, Running
  <2> QED
    BY <1>0, <1>1, <2>1 DEF OneTracePerPair
<1>2. ASSUME NEW s \in Scrapers, Collect(s) PROVE OneTracePerPair'
  <2>1. PICK new \in SUBSET Pairs :
            /\ new \cap Queued = {}
            /\ Queued' = Queued \cup new /\ Running' = Running
            /\ \E order \in SetToSeqs(new) : queue' = queue \o order
    BY <1>0, <1>2, CollectEffect
  <2>2. PICK order \in SetToSeqs(new) : queue' = queue \o order
    BY <2>1
  <2>3. order \in Seq(Pairs) /\ IsInjective(order) /\ ToSet(order) = new
    BY <2>2, OrderOfSet
  <2>4. queue \in Seq(Pairs) /\ IsInjective(queue) /\ ToSet(queue) = Queued
    BY <1>0 DEF TypeOK, OneTracePerPair
  <2>5. IsInjective(queue') /\ ToSet(queue') = Queued'
    BY <2>1, <2>2, <2>3, <2>4, QueueGrows
  <2>6. worker' = worker /\ job' = job
    BY <1>2 DEF Collect, workerVars
  <2> QED
    BY <1>0, <2>1, <2>5, <2>6 DEF OneTracePerPair
<1>3. CASE TakeJob
  <2>1. worker' # "idle" /\ job' = Head(queue)
    BY <1>3 DEF TakeJob
  <2> QED
    BY <1>0, <1>3, <2>1, TakeEffect DEF OneTracePerPair
<1>4. CASE Record
  <2>1. worker' = "idle" /\ queue' = queue
    BY <1>4 DEF Record
  <2> QED
    BY <1>0, <1>4, <2>1, RecordEffect DEF OneTracePerPair
<1>5. CASE Shutdown
  <2>1. UNCHANGED <<worker, job>> /\ queue' = <<>>
    BY <1>5 DEF Shutdown, workerVars
  <2>2. DOMAIN <<>> = {} /\ DOMAIN queue' = {}
    BY <2>1
  <2>3. IsInjective(queue') /\ ToSet(queue') = {}
    BY <2>2 DEF IsInjective, ToSet
  <2> QED
    BY <1>0, <1>5, <2>1, <2>3, ShutdownEffect DEF OneTracePerPair
<1> QED
  BY <1>0, <1>1, <1>2, <1>3, <1>4, <1>5 DEF Frames

(* And none is lost from the counts.                                       *)
LEMMA CountStep == Inv /\ [Next]_vars => EveryTraceCounted'
<1> SUFFICES ASSUME Inv, [Next]_vars PROVE EveryTraceCounted'
  OBVIOUS
<1>0. TypeOK /\ FutureTypes /\ Frames
  BY StepFrames, TypeParts DEF Inv
<1> DEFINE q == Cardinality(Queued)
           r == Cardinality(Running)
           x == Cardinality(Raising)
<1>1. /\ IsFiniteSet(Queued) /\ IsFiniteSet(Running) /\ IsFiniteSet(Raising)
      /\ q \in Nat /\ r \in Nat /\ x \in Nat
  <2>1. /\ Queued \in SUBSET DOMAIN inFlight /\ Running \in SUBSET DOMAIN inFlight
        /\ Raising \in SUBSET DOMAIN inFlight
    BY DEF Queued, Running, Raising, Harvested
  <2> QED
    BY <1>0, <2>1, Countable
<1>2. submitted = succeeded + errors + q + r + x
  BY DEF Inv, EveryTraceCounted
<1>3. submitted \in Nat /\ succeeded \in Nat /\ errors \in Nat
  BY <1>0 DEF TypeOK
<1> SUFFICES submitted' = succeeded' + errors' + q' + r' + x'
  BY DEF EveryTraceCounted
<1>4. CASE UNCHANGED <<inFlight, submitted, succeeded, errors>>
  <2>1. Queued' = Queued /\ Running' = Running /\ Raising' = Raising
    BY <1>4 DEF Queued, Running, Raising, Harvested
  <2> QED
    BY <1>2, <1>4, <2>1
<1>5. ASSUME NEW s \in Scrapers, Collect(s)
      PROVE  submitted' = succeeded' + errors' + q' + r' + x'
  <2>1. PICK new \in SUBSET Pairs :
            /\ IsFiniteSet(new) /\ Cardinality(new) \in Nat /\ new \cap Queued = {}
            /\ Queued' = Queued \cup new /\ Running' = Running /\ Raising' = {}
            /\ errors' = errors + x /\ submitted' = submitted + Cardinality(new)
    BY <1>0, <1>5, CollectEffect
  <2>2. q' = q + Cardinality(new)
    <3>1. Queued \cap new = {} /\ Cardinality({}) = 0
      BY <2>1, FS_EmptySet
    <3>2. Cardinality(Queued \cup new) = q + Cardinality(new) - Cardinality(Queued \cap new)
      BY <1>1, <2>1, FS_Union
    <3> QED
      BY <1>1, <2>1, <3>1, <3>2
  <2>3. r' = r /\ x' = 0 /\ succeeded' = succeeded
    BY <1>5, <2>1, FS_EmptySet DEF Collect
  <2> QED
    BY <1>1, <1>2, <1>3, <2>1, <2>2, <2>3
<1>6. CASE TakeJob
  <2>1. UNCHANGED <<submitted, succeeded, errors>>
    BY <1>6 DEF TakeJob, historyVars
  <2>2. q' = q - 1
    BY <1>1, <1>6, TakeEffect, FS_RemoveElement
  <2>3. r = 0 /\ r' = 1 /\ x' = x
    BY <1>6, TakeEffect, FS_EmptySet, FS_Singleton
  <2> QED
    BY <1>1, <1>2, <1>3, <2>1, <2>2, <2>3
<1>7. CASE Record
  <2>1. /\ submitted' = submitted /\ worker \in Outcomes
        /\ errors' = errors + (IF worker = "failure" THEN 1 ELSE 0)
        /\ succeeded' = succeeded + (IF worker = "success" THEN 1 ELSE 0)
    BY <1>7 DEF Record
  <2>2. q' = q /\ r = 1 /\ r' = 0
    BY <1>7, RecordEffect, FS_EmptySet, FS_Singleton
  <2>3. x' = IF worker = "exception" THEN x + 1 ELSE x
    BY <1>1, <1>7, RecordEffect, FS_AddElement
  <2> QED
    BY <1>1, <1>2, <1>3, <2>1, <2>2, <2>3
<1>8. CASE Shutdown
  <2>1. UNCHANGED <<submitted, succeeded, errors>>
    BY <1>8 DEF Shutdown
  <2>2. q' = 0 /\ r' = r
    BY <1>8, ShutdownEffect, FS_EmptySet
  <2>3. x' = x + q
    <3>1. Cardinality(Raising \cap Queued) = 0
      BY <1>8, ShutdownEffect, FS_EmptySet
    <3>2. Cardinality(Raising \cup Queued) = x + q - Cardinality(Raising \cap Queued)
      BY <1>1, FS_Union
    <3>3. Raising' = Raising \cup Queued
      BY <1>8, ShutdownEffect
    <3> QED
      BY <1>1, <3>1, <3>2, <3>3
  <2> QED
    BY <1>1, <1>2, <1>3, <2>1, <2>2, <2>3
<1> QED
  BY <1>0, <1>4, <1>5, <1>6, <1>7, <1>8 DEF Frames

-----------------------------------------------------------------------------
LEMMA SpecInv == Spec => []Inv
<1>1. Inv /\ [Next]_vars => Inv'
  BY TypeStep, CloseStep, QueueStep, CountStep DEF Inv
<1> QED
  BY <1>1, InitInv, PTL DEF Spec

(* The types, for every number of traces.                                  *)
THEOREM TypeCorrect == Spec => []TypeOK
<1>1. Inv => TypeOK
  BY DEF Inv
<1> QED
  BY <1>1, SpecInv, PTL

(* After close() looked for an active trace none runs that was not told to *)
(* end, and none is queued once the executor is shut down.                 *)
THEOREM CloseLeavesNoTrace == Spec => []NoTraceBehindClose
<1>1. Inv => NoTraceBehindClose
  BY DEF Inv, CloseInv
<1> QED
  BY <1>1, SpecInv, PTL

(* The queue and the worker hold each pair in flight exactly once.         *)
THEOREM PairsTracedOnce == Spec => []OneTracePerPair
<1>1. Inv => OneTracePerPair
  BY DEF Inv
<1> QED
  BY <1>1, SpecInv, PTL

(* No trace is lost from the counts and none is counted twice.             *)
THEOREM TracesCounted == Spec => []EveryTraceCounted
<1>1. Inv => EveryTraceCounted
  BY DEF Inv
<1> QED
  BY <1>1, SpecInv, PTL
=============================================================================
