---------------------- MODULE SessionOperator_proofs ----------------------
(***************************************************************************)
(* Proofs about SessionOperator for any clusters and specs and any number  *)
(* of generations, failures, restarts and jobs the user deletes.           *)
(***************************************************************************)
EXTENDS SessionOperator, FiniteSetTheorems, SequenceTheorems, TLAPS

(* TypeOK in parts: the session, its objects, the threads.                 *)
PendingType == pending = FALSE \/ (pending = TRUE /\ session = "deleting")

SessionTypes ==
    /\ session \in {"present", "deleting", "gone"}
    /\ spec \in Seq(Specs) /\ Generation \in Generations
    /\ handled \in 0..Generation
    /\ resume \in BOOLEAN /\ deleted \in BOOLEAN
    /\ phase \in {"none", "reported", "Deleting", "Error"}
    /\ PendingType
    /\ userDeletes \in 0..MaxUserDeletes /\ troubles \in 0..MaxTroubles
    /\ overtaken \in Nat /\ late \in BOOLEAN

ApiTypes ==
    /\ services \subseteq Clusters /\ statefulsets \subseteq Clusters
    /\ ready \subseteq statefulsets
    /\ deployments \subseteq Clusters
    /\ jobs \subseteq Clusters \X Generations
    /\ created \in [Generations -> Nat]

ThreadTypes ==
    /\ pc \in [Threads -> {"idle"} \cup ReconcilePoints \cup DeletePoints]
    /\ pc["timer"] \notin DeletePoints
    /\ body \in [Threads -> Generations]
    /\ jobName \in [Threads -> Generations]
    /\ todo \in [Threads -> SUBSET Generations]
    /\ found \in [Threads -> BOOLEAN]

(* A job is named, listed and created between these points.                *)
NamingPoints == {"list_jobs", "delete_jobs", "check_ready", "apply_job"}
EarlyPoints == {"service", "statefulset", "delete_deployment", "apply_deployment", "list_jobs"}

(* A pass works on a generation there is, on a past one once the session   *)
(* is being deleted; a probe's job is never named after an older body, nor *)
(* is it among those the pass deletes.                                     *)
PassOf(t) ==
    /\ body[t] <= Generation /\ jobName[t] <= Generation
    /\ pc[t] \in ReconcilePoints /\ session # "present" => body[t] < Generation
    /\ pc[t] \in NamingPoints /\ Mode(t) = "probe" => jobName[t] >= body[t]
    /\ pc[t] = "apply_deployment" => Mode(t) # "probe"
    /\ pc[t] \in {"check_ready", "apply_job"} => Mode(t) = "probe"
    /\ pc[t] = "delete_jobs" /\ Mode(t) = "probe" => jobName[t] \notin todo[t]

PassInv ==
    /\ session = "present" => Generation <= MaxGeneration
    /\ \A t \in Threads : PassOf(t)

(* The delete handler works on the last generation; what it deleted stays  *)
(* deleted, for without a late timer pass nobody else is at work.          *)
DeleteInv ==
    /\ session # "present" /\ ~late => pc["timer"] = "idle"
    /\ pc["handler"] \in DeletePoints =>
          session = "deleting" /\ body["handler"] = Generation /\ ~deleted
    /\ deleted => session # "present" /\ pc["handler"] = "idle" /\ ~pending
    /\ session = "gone" => deleted /\ \A t \in Threads : pc[t] = "idle"
    /\ ~late =>
          /\ deleted \/ pc["handler"] \in {"del_service", "del_deployment", "del_job"} =>
                Current.server \notin statefulsets
          /\ deleted \/ pc["handler"] \in {"del_deployment", "del_job"} =>
                Current.server \notin services
          /\ deleted \/ pc["handler"] = "del_job" => Current.client \notin deployments
          /\ deleted => phase = "none"

(* A pass that works on an older body may still delete or create the job   *)
(* of generation g, but only one of the two, and once.                     *)
Overtaken(t) == pc[t] \in ReconcilePoints /\ body[t] < Generation
MayTouch(t, g) ==
    /\ Overtaken(t)
    /\ \/ pc[t] \in EarlyPoints
       \/ pc[t] = "delete_jobs" /\ g \in todo[t]
       \/ /\ pc[t] \in {"delete_jobs", "check_ready", "apply_job"}
          /\ g = jobName[t] /\ Mode(t) = "probe"

(* A pass that works on the current body may create the job: it is not     *)
(* there, or its generation is yet to come.                                *)
Missing(g) ==
    /\ session = "present"
    /\ \/ g > Generation
       \/ g = Generation /\ CurrentMode = "probe" /\ <<Current.client, g>> \notin jobs

One(condition) == IF condition THEN 1 ELSE 0

(* The creations of a job, with those that are still possible, are paid    *)
(* for by its first one, the user's deletions and the passes overtaken.    *)
CountInv ==
    \A g \in Generations :
        created[g] + One(Missing(g)) + One(MayTouch("handler", g)) + One(MayTouch("timer", g))
            <= 1 + userDeletes + overtaken

(* Objects are only where a spec so far wanted them, and a job is of a     *)
(* generation so far; the generation the deletion made has the spec of the *)
(* one before and, without a late timer pass, neither a job nor a pass     *)
(* that would create one.                                                  *)
SpecsSoFar == {spec[g] : g \in 1..Generation}
Servers == {s.server : s \in SpecsSoFar}
Clients == {s.client : s \in SpecsSoFar}
LastNamed == IF session = "present" \/ late THEN Generation ELSE Generation - 1

PlaceInv ==
    /\ services \subseteq Servers /\ statefulsets \subseteq Servers
    /\ deployments \subseteq Clients
    /\ jobs \subseteq Clients \X (1..LastNamed)
    /\ \A t \in Threads : jobName[t] <= LastNamed
    /\ session # "present" => Generation >= 2 /\ spec[Generation] = spec[Generation - 1]

Inv == TypeOK /\ PassInv /\ DeleteInv /\ CountInv /\ PlaceInv

USE SessionAssumption DEF Threads, Generation, Generations, ReconcilePoints, DeletePoints

-----------------------------------------------------------------------------
(* The spec a pass works on is one of the specs.                           *)
LEMMA SpecOfPass ==
  ASSUME TypeOK, PassInv, NEW t \in Threads
  PROVE  /\ body[t] \in 1..Len(spec)
         /\ Mode(t) \in {"probe", "continuous"} /\ Server(t) \in Clusters /\ Client(t) \in Clusters
<1>1. body[t] \in 1..Len(spec)
  BY DEF TypeOK, PassInv, PassOf
<1>2. spec[body[t]] \in Specs
  BY <1>1, ElementOfSeq DEF TypeOK
<1> QED
  BY <1>1, <1>2 DEF Mode, Server, Client

(* A new generation leaves the older ones alone.                           *)
LEMMA AppendKeeps ==
  ASSUME TypeOK, NEW s \in Specs, spec' = Append(spec, s)
  PROVE  /\ spec' \in Seq(Specs) /\ Len(spec') = Len(spec) + 1
         /\ \A g \in 1..Len(spec) : spec'[g] = spec[g]
         /\ spec'[Len(spec) + 1] = s
BY AppendProperties DEF TypeOK

(* The busy threads are counted.                                           *)
LEMMA BusyFinite == Cardinality(Busy) \in Nat
<1>1. IsFiniteSet({"handler"} \cup {"timer"})
  BY FS_Singleton, FS_AddElement
<1>2. Busy \in SUBSET ({"handler"} \cup {"timer"})
  BY DEF Busy
<1>3. IsFiniteSet(Busy)
  BY <1>1, <1>2, FS_Subset
<1> QED
  BY <1>3, FS_CardinalityType

-----------------------------------------------------------------------------
LEMMA TypeParts == TypeOK <=> SessionTypes /\ ApiTypes /\ ThreadTypes
BY DEF TypeOK, PendingType, SessionTypes, ApiTypes, ThreadTypes

(* The user's edits and the deletion append a spec.                        *)
LEMMA LastSpec ==
  ASSUME SessionTypes
  PROVE  spec[Generation] \in Specs
<1>1. spec \in Seq(Specs) /\ Len(spec) \in 1..Len(spec)
  BY DEF SessionTypes
<1> QED
  BY <1>1, ElementOfSeq

LEMMA SpecAppended ==
  ASSUME TypeOK, Update \/ Delete
  PROVE  \E s \in Specs : spec' = Append(spec, s)
<1>1. CASE Update
  <2>1. \E s \in Specs \ {spec[Generation]} : spec' = Append(spec, s)
    BY <1>1, Zenon DEF Update
  <2> QED
    BY <2>1, Zenon
<1>2. CASE Delete
  <2>1. spec[Generation] \in Specs
    BY LastSpec, TypeParts
  <2>2. spec' = Append(spec, spec[Generation])
    BY <1>2, Zenon DEF Delete
  <2> QED
    BY <2>1, <2>2, Zenon
<1> QED
  BY <1>1, <1>2

LEMMA InitInv == Init => Inv
<1> SUFFICES ASSUME Init PROVE Inv
  OBVIOUS
<1> USE DEF Init
<1>1. PICK s \in Specs : spec = <<s>>
  OBVIOUS
<1>2. spec \in Seq(Specs) /\ Len(spec) = 1
  BY <1>1
<1>3. TypeOK
  <2>0. PendingType /\ resume \in BOOLEAN /\ deleted \in BOOLEAN /\ late \in BOOLEAN
    BY DEF PendingType
  <2>1. SessionTypes /\ ApiTypes
    BY <1>2, <2>0 DEF SessionTypes, ApiTypes
  <2>2. 1 \in Generations /\ {} \in SUBSET Generations
    OBVIOUS
  <2>3. ThreadTypes
    <3>1. pc \in [Threads -> {"idle"}] /\ pc["timer"] \notin DeletePoints
      OBVIOUS
    <3>2. body \in [Threads -> Generations] /\ jobName \in [Threads -> Generations]
      BY <2>2
    <3>3. todo \in [Threads -> SUBSET Generations] /\ found \in [Threads -> BOOLEAN]
      BY <2>2
    <3> QED
      BY <3>1, <3>2, <3>3 DEF ThreadTypes
  <2> QED
    BY <2>1, <2>3, TypeParts
<1>4. PassInv
  BY <1>2 DEF PassInv, PassOf, NamingPoints
<1>5. DeleteInv
  BY DEF DeleteInv
<1>6. CountInv
  BY DEF CountInv, MayTouch, Overtaken, One
<1>7. PlaceInv
  BY <1>1, <1>2 DEF PlaceInv, LastNamed
<1> QED
  BY <1>3, <1>4, <1>5, <1>6, <1>7 DEF Inv

-----------------------------------------------------------------------------
(* The end of a pass clears the variables of its thread.                   *)
LEMMA EndTypes ==
  ASSUME ThreadTypes, NEW t \in Threads, End(t)
  PROVE  ThreadTypes'
<1>1. 1 \in Generations /\ {} \in SUBSET Generations
  OBVIOUS
<1>2. pc' \in [Threads -> {"idle"} \cup ReconcilePoints \cup DeletePoints]
      /\ pc'["timer"] \notin DeletePoints
  BY DEF ThreadTypes, End
<1>3. body' \in [Threads -> Generations] /\ jobName' \in [Threads -> Generations]
  BY <1>1 DEF ThreadTypes, End
<1>4. todo' \in [Threads -> SUBSET Generations] /\ found' \in [Threads -> BOOLEAN]
  BY <1>1 DEF ThreadTypes, End
<1> QED
  BY <1>2, <1>3, <1>4 DEF ThreadTypes

(* Types, step by step.                                                    *)
LEMMA TypeStep == Inv /\ [Next]_vars => TypeOK'
<1> SUFFICES ASSUME Inv, [Next]_vars PROVE SessionTypes' /\ ApiTypes' /\ ThreadTypes'
  BY DEF TypeOK, PendingType, SessionTypes, ApiTypes, ThreadTypes
<1>0. SessionTypes /\ ApiTypes /\ ThreadTypes /\ TypeOK /\ PassInv /\ DeleteInv
  BY TypeParts DEF Inv
<1> USE DEF apiVars, kopfVars, threadVars, metricVars, boundVars, historyVars
<1>1. CASE HandlerBegins \/ TimerBegins \/ DeleteBegins
  <2>1. SessionTypes' /\ ApiTypes'
    <3>1. UNCHANGED <<session, spec, kopfVars, apiVars, boundVars, historyVars>>
      BY <1>1 DEF HandlerBegins, TimerBegins, DeleteBegins
    <3>2. \/ UNCHANGED metricVars
          \/ session = "deleting" /\ phase' = "Deleting" /\ pending' = TRUE
      BY <1>1 DEF HandlerBegins, TimerBegins, DeleteBegins
    <3>3. PendingType'
      <4>1. PendingType /\ session' = session
        BY <1>0, <3>1 DEF SessionTypes
      <4>2. pending' = pending \/ (session = "deleting" /\ pending' = TRUE)
        BY <3>2
      <4> QED
        BY <4>1, <4>2 DEF PendingType
    <3>4. phase' \in {"none", "reported", "Deleting", "Error"}
      BY <1>0, <3>2 DEF SessionTypes
    <3>5. ApiTypes'
      BY <1>0, <3>1 DEF ApiTypes
    <3> QED
      BY <1>0, <3>1, <3>3, <3>4, <3>5 DEF SessionTypes
  <2>2. PICK t \in Threads :
           \E point \in ReconcilePoints \cup DeletePoints :
              (t = "timer" => point \notin DeletePoints) /\ Begin(t, point)
    BY <1>1 DEF HandlerBegins, TimerBegins, DeleteBegins, TimerStartsAt
  <2>3. Generation \in Generations
    BY <1>0 DEF SessionTypes
  <2>4. ThreadTypes'
    BY <1>0, <2>2, <2>3 DEF ThreadTypes, Begin, Goto
  <2> QED
    BY <2>1, <2>4
<1>2. ASSUME NEW t \in Threads, Reconcile(t)
      PROVE  SessionTypes' /\ ApiTypes' /\ ThreadTypes'
  <2>0. /\ body[t] \in 1..Len(spec)
        /\ Mode(t) \in {"probe", "continuous"} /\ Server(t) \in Clusters /\ Client(t) \in Clusters
    BY <1>0, SpecOfPass
  <2>1. CASE ApplyService(t)
    BY <1>0, <2>0, <2>1 DEF ApplyService, SessionTypes, PendingType, ApiTypes, ThreadTypes, Goto
  <2>2. CASE ApplyStatefulSet(t)
    BY <1>0, <2>0, <2>2 DEF ApplyStatefulSet, SessionTypes, PendingType, ApiTypes, ThreadTypes, Goto
  <2>3. CASE DeleteDeployment(t)
    <3>1. SessionTypes' /\ ApiTypes'
      BY <1>0, <2>3 DEF DeleteDeployment, SessionTypes, PendingType, ApiTypes
    <3>2. jobName' \in [Threads -> Generations]
      BY <1>0, <2>0, <2>3 DEF DeleteDeployment, SessionTypes, ThreadTypes
    <3> QED
      BY <1>0, <2>3, <3>1, <3>2 DEF DeleteDeployment, ThreadTypes, Goto
  <2>4. CASE ApplyDeployment(t)
    BY <1>0, <2>0, <2>4 DEF ApplyDeployment, SessionTypes, PendingType, ApiTypes, ThreadTypes, Goto
  <2>5. CASE ListJobs(t)
    <3>1. SessionTypes' /\ ApiTypes'
      BY <1>0, <2>5 DEF ListJobs, SessionTypes, PendingType, ApiTypes
    <3>2. todo' \in [Threads -> SUBSET Generations] /\ found' \in [Threads -> BOOLEAN]
      BY <1>0, <2>5 DEF ListJobs, Unwanted, JobsOf, ThreadTypes
    <3> QED
      BY <1>0, <2>5, <3>1, <3>2 DEF ListJobs, AfterJobs, ThreadTypes, Goto
  <2>6. CASE DeleteListedJob(t)
    <3>1. SessionTypes' /\ ApiTypes'
      BY <1>0, <2>6 DEF DeleteListedJob, SessionTypes, PendingType, ApiTypes
    <3>2. todo' \in [Threads -> SUBSET Generations]
      BY <1>0, <2>6 DEF DeleteListedJob, ThreadTypes
    <3> QED
      BY <1>0, <2>6, <3>1, <3>2 DEF DeleteListedJob, AfterJobs, ThreadTypes, Goto
  <2>7. CASE CheckReady(t)
    BY <1>0, <2>0, <2>7 DEF CheckReady, SessionTypes, PendingType, ApiTypes, ThreadTypes, Goto
  <2>8. CASE ApplyJob(t)
    <3>1. SessionTypes' /\ ThreadTypes'
      BY <1>0, <2>8 DEF ApplyJob, SessionTypes, PendingType, ThreadTypes, Goto
    <3>2. jobName[t] \in Generations
      BY <1>0 DEF ThreadTypes
    <3>3. created' \in [Generations -> Nat]
      BY <1>0, <2>8, <3>2 DEF ApplyJob, ApiTypes
    <3>4. jobs' \subseteq Clusters \X Generations
      BY <1>0, <2>0, <2>8, <3>2 DEF ApplyJob, ApiTypes
    <3> QED
      BY <1>0, <2>8, <3>1, <3>3, <3>4 DEF ApplyJob, ApiTypes
  <2>9. CASE Status(t)
    <3>0. handled' \in 0..Generation /\ resume' \in BOOLEAN
      <4>1. CASE t = "handler"
        <5>1. handled' = body[t] /\ resume' = FALSE
          BY <2>9, <4>1 DEF Status
        <5>2. Len(spec) \in Nat
          BY <1>0 DEF SessionTypes
        <5>3. resume' \in BOOLEAN
          BY <5>1
        <5>4. handled' \in 0..Generation
          BY <2>0, <5>1, <5>2
        <5> QED
          BY <5>3, <5>4
      <4>2. CASE t = "timer"
        <5>1. handled' = handled /\ resume' = resume
          BY <2>9, <4>2 DEF Status
        <5> QED
          BY <1>0, <5>1 DEF SessionTypes
      <4> QED
        BY <4>1, <4>2
    <3>1. SessionTypes' /\ ApiTypes'
      <4>1. /\ UNCHANGED <<session, spec, deleted, apiVars, pending, boundVars, historyVars>>
            /\ phase' = "reported"
        BY <2>9 DEF Status
      <4>2. PendingType /\ session' = session /\ pending' = pending
        BY <1>0, <4>1 DEF SessionTypes
      <4>3. PendingType'
        BY <4>2 DEF PendingType
      <4> QED
        BY <1>0, <3>0, <4>1, <4>3 DEF SessionTypes, ApiTypes
    <3> QED
      BY <1>0, <2>9, <3>1, EndTypes DEF Status
  <2> QED
    BY <1>2, <2>1, <2>2, <2>3, <2>4, <2>5, <2>6, <2>7, <2>8, <2>9 DEF Reconcile
<1>3. ASSUME NEW t \in Threads, DeleteWorkloads(t)
      PROVE  SessionTypes' /\ ApiTypes' /\ ThreadTypes'
  <2>1. CASE DelStatefulSet(t)
    BY <1>0, <2>1 DEF DelStatefulSet, SessionTypes, PendingType, ApiTypes, ThreadTypes, Goto
  <2>2. CASE DelService(t)
    BY <1>0, <2>2 DEF DelService, SessionTypes, PendingType, ApiTypes, ThreadTypes, Goto
  <2>3. CASE DelDeployment(t)
    BY <1>0, <2>3 DEF DelDeployment, SessionTypes, PendingType, ApiTypes, ThreadTypes, Goto
  <2>4. CASE DelJob(t)
    <3>1. SessionTypes' /\ ApiTypes'
      BY <1>0, <2>4 DEF DelJob, SessionTypes, PendingType, ApiTypes
    <3> QED
      BY <1>0, <2>4, <3>1, EndTypes DEF DelJob
  <2> QED
    BY <1>3, <2>1, <2>2, <2>3, <2>4 DEF DeleteWorkloads
<1>4. ASSUME NEW t \in Threads, CallFails(t)
      PROVE  SessionTypes' /\ ApiTypes' /\ ThreadTypes'
  <2>1. SessionTypes' /\ ApiTypes'
    BY <1>0, <1>4 DEF CallFails, SessionTypes, PendingType, ApiTypes
  <2> QED
    BY <1>0, <1>4, <2>1, EndTypes DEF CallFails
<1>5. CASE Update
  <2>1. PICK s \in Specs : spec' = Append(spec, s)
    BY <1>5 DEF Update
  <2>2. spec' \in Seq(Specs) /\ Len(spec') = Len(spec) + 1
    BY <1>0, <2>1, AppendKeeps
  <2>3. SessionTypes'
    BY <1>0, <1>5, <2>2, BusyFinite DEF Update, SessionTypes, PendingType
  <2> QED
    BY <1>0, <1>5, <2>3 DEF Update, ApiTypes, ThreadTypes
<1>6. CASE Delete
  <2>1. spec[Generation] \in Specs
    BY <1>0, LastSpec
  <2>2. spec' \in Seq(Specs) /\ Len(spec') = Len(spec) + 1
    BY <1>0, <1>6, <2>1, AppendKeeps DEF Delete
  <2>3. SessionTypes'
    BY <1>0, <1>6, <2>2, BusyFinite DEF Delete, SessionTypes, PendingType, PassInv
  <2> QED
    BY <1>0, <1>6, <2>3 DEF Delete, ApiTypes, ThreadTypes
<1>7. CASE Release
  BY <1>0, <1>7 DEF Release, DeleteInv, SessionTypes, PendingType, ApiTypes, ThreadTypes
<1>8. CASE Restart
  <2>0. UNCHANGED <<session, spec, handled, apiVars, userDeletes, historyVars>>
    BY <1>8 DEF Restart
  <2>1. SessionTypes' /\ ApiTypes'
    <3>1. /\ pending' = FALSE /\ resume' = TRUE /\ deleted' = FALSE /\ phase' = "none"
          /\ troubles < MaxTroubles /\ troubles' = troubles + 1
      BY <1>8 DEF Restart
    <3>2. PendingType' /\ resume' \in BOOLEAN /\ deleted' \in BOOLEAN
      BY <3>1 DEF PendingType
    <3> QED
      BY <1>0, <2>0, <3>1, <3>2 DEF SessionTypes, ApiTypes
  <2>2. 1 \in Generations /\ {} \in SUBSET Generations
    OBVIOUS
  <2>3. ThreadTypes'
    BY <1>8, <2>2 DEF Restart, ThreadTypes
  <2> QED
    BY <2>1, <2>3
<1>9. ASSUME NEW c \in Clusters, BecomesReady(c)
      PROVE  SessionTypes' /\ ApiTypes' /\ ThreadTypes'
  BY <1>0, <1>9 DEF BecomesReady, SessionTypes, PendingType, ApiTypes, ThreadTypes
<1>10. CASE CollectGarbage
  BY <1>0, <1>10 DEF CollectGarbage, SessionTypes, PendingType, ApiTypes, ThreadTypes
<1>11. CASE UserDeletesJob
  <2>1. SessionTypes'
    BY <1>0, <1>11 DEF UserDeletesJob, SessionTypes, PendingType
  <2> QED
    BY <1>0, <1>11, <2>1 DEF UserDeletesJob, ApiTypes, ThreadTypes
<1>12. CASE UNCHANGED vars
  BY <1>0, <1>12 DEF vars, SessionTypes, PendingType, ApiTypes, ThreadTypes
<1> QED
  BY <1>1, <1>2, <1>3, <1>4, <1>5, <1>6, <1>7, <1>8, <1>9, <1>10, <1>11, <1>12 DEF Next, Handler, Timer

-----------------------------------------------------------------------------
(* A thread that does not move keeps its part, and so does one whose pass  *)
(* ends.                                                                   *)
LEMMA PassOfStays ==
  ASSUME NEW t \in Threads, PassOf(t), UNCHANGED <<session, spec>>,
         pc'[t] = pc[t], body'[t] = body[t], jobName'[t] = jobName[t], todo'[t] = todo[t]
  PROVE  PassOf(t)'
BY DEF PassOf, Mode

LEMMA PassOfEnds ==
  ASSUME TypeOK, NEW t \in Threads, UNCHANGED <<session, spec>>,
         pc'[t] = "idle", body'[t] = 1, jobName'[t] = 1
  PROVE  PassOf(t)'
BY DEF TypeOK, PassOf, NamingPoints

LEMMA PassStep == Inv /\ [Next]_vars => PassInv'
<1> SUFFICES ASSUME Inv, [Next]_vars PROVE PassInv'
  OBVIOUS
<1>0. TypeOK /\ PassInv /\ \A t \in Threads : PassOf(t)
  BY DEF Inv, PassInv
<1>a. ASSUME UNCHANGED <<session, spec>>, \A t \in Threads : PassOf(t)' PROVE PassInv'
  BY <1>0, <1>a DEF PassInv
(* One thread moves, the other one stays.                                  *)
<1>b. ASSUME NEW t \in Threads, UNCHANGED <<session, spec>>, PassOf(t)',
             \A u \in Threads \ {t} : /\ pc'[u] = pc[u] /\ body'[u] = body[u]
                                      /\ jobName'[u] = jobName[u] /\ todo'[u] = todo[u]
      PROVE  PassInv'
  <2>1. \A u \in Threads \ {t} : PassOf(u)'
    BY <1>0, <1>b, PassOfStays
  <2> QED
    BY <1>a, <1>b, <2>1
<1> USE DEF apiVars, kopfVars, threadVars, metricVars, boundVars, historyVars
<1>1. CASE HandlerBegins \/ TimerBegins \/ DeleteBegins
  <2>1. PICK t \in Threads, point \in {"service", "status", "del_statefulset"} :
           /\ Begin(t, point) /\ UNCHANGED <<session, spec>>
           /\ session = "present" \/ point = "del_statefulset"
    BY <1>1 DEF HandlerBegins, TimerBegins, DeleteBegins, TimerStartsAt
  <2>2. Generation \in Nat
    BY <1>0 DEF TypeOK
  <2>3. PassOf(t)'
    <3>1. pc'[t] = point /\ body'[t] = Generation /\ jobName'[t] = jobName[t]
      BY <1>0, <2>1 DEF TypeOK, Begin, Goto
    <3> QED
      BY <1>0, <2>1, <2>2, <3>1 DEF PassOf, NamingPoints
  <2> QED
    BY <1>0, <1>b, <2>1, <2>3 DEF TypeOK, Begin, Goto
<1>2. ASSUME NEW t \in Threads, Reconcile(t) PROVE PassInv'
  <2>0. /\ UNCHANGED <<session, spec>>
        /\ \A u \in Threads \ {t} : /\ pc'[u] = pc[u] /\ body'[u] = body[u]
                                    /\ jobName'[u] = jobName[u] /\ todo'[u] = todo[u]
    BY <1>0, <1>2 DEF TypeOK, Goto, End, Reconcile, ApplyService, ApplyStatefulSet,
       DeleteDeployment, ApplyDeployment, ListJobs, DeleteListedJob, CheckReady, ApplyJob, Status
  <2> SUFFICES PassOf(t)'
    BY <1>b, <2>0
  <2>a. /\ PassOf(t) /\ pc[t] \in ReconcilePoints \cup DeletePoints \cup {"idle"}
        /\ body[t] \in 1..Len(spec) /\ Len(spec) \in Nat
        /\ jobName[t] \in Nat
    <3>1. Len(spec) \in Nat /\ jobName[t] \in Nat
      BY <1>0 DEF TypeOK
    <3>2. pc[t] \in ReconcilePoints \cup DeletePoints \cup {"idle"}
      BY <1>0 DEF TypeOK
    <3> QED
      BY <1>0, <3>1, <3>2, SpecOfPass
  <2>1. CASE ApplyService(t) \/ ApplyStatefulSet(t)
    <3>1. /\ pc[t] \in ReconcilePoints /\ pc'[t] \notin NamingPoints
          /\ pc'[t] = "apply_deployment" => Mode(t) # "probe"
          /\ body'[t] = body[t] /\ jobName'[t] = jobName[t]
      BY <1>0, <2>1 DEF TypeOK, ApplyService, ApplyStatefulSet, Goto, NamingPoints
    <3> QED
      BY <2>0, <2>a, <3>1 DEF PassOf, NamingPoints, Mode
  <2>2. CASE DeleteDeployment(t)
    <3>1. /\ pc[t] \in ReconcilePoints /\ pc'[t] = "list_jobs" /\ body'[t] = body[t]
          /\ jobName'[t] \in {body[t], Len(spec)}
      BY <1>0, <2>2 DEF TypeOK, DeleteDeployment, Goto
    <3> QED
      BY <2>0, <2>a, <3>1 DEF PassOf
  <2>3. CASE ApplyDeployment(t)
    <3>1. /\ pc[t] = "apply_deployment" /\ pc'[t] = "list_jobs" /\ body'[t] = body[t]
          /\ jobName'[t] = jobName[t]
      BY <1>0, <2>3 DEF TypeOK, ApplyDeployment, Goto
    <3> QED
      BY <2>0, <2>a, <3>1 DEF PassOf, Mode
  <2>4. CASE ListJobs(t)
    <3>1. /\ pc[t] = "list_jobs" /\ body'[t] = body[t] /\ jobName'[t] = jobName[t]
          /\ pc'[t] \in {"delete_jobs", "check_ready", "status"}
          /\ pc'[t] = "check_ready" => Mode(t) = "probe"
          /\ todo'[t] = Unwanted(t)
      BY <1>0, <2>4 DEF TypeOK, ListJobs, AfterJobs, Goto
    <3>2. Mode(t) = "probe" => jobName[t] \notin Unwanted(t)
      BY DEF Unwanted
    <3> QED
      BY <2>0, <2>a, <3>1, <3>2 DEF PassOf, NamingPoints, Mode
  <2>5. CASE DeleteListedJob(t)
    <3>1. /\ pc[t] = "delete_jobs" /\ body'[t] = body[t] /\ jobName'[t] = jobName[t]
          /\ pc'[t] \in {"delete_jobs", "check_ready", "status"}
          /\ pc'[t] = "check_ready" => Mode(t) = "probe"
          /\ todo'[t] \subseteq todo[t]
      BY <1>0, <2>5 DEF TypeOK, DeleteListedJob, AfterJobs, Goto
    <3> QED
      BY <2>0, <2>a, <3>1 DEF PassOf, NamingPoints, Mode
  <2>6. CASE CheckReady(t) \/ ApplyJob(t)
    <3>1. /\ pc[t] \in {"check_ready", "apply_job"}
          /\ pc'[t] \in {"apply_job", "status"}
          /\ body'[t] = body[t] /\ jobName'[t] = jobName[t]
      BY <1>0, <2>6 DEF TypeOK, CheckReady, ApplyJob, Goto
    <3> QED
      BY <2>0, <2>a, <3>1 DEF PassOf, NamingPoints, Mode
  <2>7. CASE Status(t)
    BY <1>0, <2>0, <2>7, PassOfEnds DEF TypeOK, Status, End
  <2> QED
    BY <1>2, <2>1, <2>2, <2>3, <2>4, <2>5, <2>6, <2>7 DEF Reconcile
<1>3. ASSUME NEW t \in Threads, DeleteWorkloads(t) \/ CallFails(t) PROVE PassInv'
  <2>0. /\ UNCHANGED <<session, spec>>
        /\ \A u \in Threads \ {t} : /\ pc'[u] = pc[u] /\ body'[u] = body[u]
                                    /\ jobName'[u] = jobName[u] /\ todo'[u] = todo[u]
    BY <1>0, <1>3 DEF TypeOK, Goto, End, DeleteWorkloads, DelStatefulSet, DelService,
       DelDeployment, DelJob, CallFails
  <2>1. CASE DelJob(t) \/ CallFails(t)
    BY <1>0, <1>b, <2>0, <2>1, PassOfEnds DEF TypeOK, DelJob, CallFails, End
  <2>2. CASE DelStatefulSet(t) \/ DelService(t) \/ DelDeployment(t)
    <3>1. /\ pc'[t] \in DeletePoints /\ body'[t] = body[t] /\ jobName'[t] = jobName[t]
      BY <1>0, <2>2 DEF TypeOK, DelStatefulSet, DelService, DelDeployment, Goto
    <3>2. PassOf(t)'
      BY <1>0, <2>0, <3>1 DEF PassOf, NamingPoints
    <3> QED
      BY <1>b, <2>0, <3>2
  <2> QED
    BY <1>3, <2>1, <2>2 DEF DeleteWorkloads
<1>4. CASE Update \/ Delete
  <2>1. PICK s \in Specs : spec' = Append(spec, s)
    BY <1>0, <1>4, SpecAppended, Zenon
  <2>2. /\ Len(spec') = Len(spec) + 1 /\ Len(spec) \in Nat
        /\ \A g \in 1..Len(spec) : spec'[g] = spec[g]
    BY <1>0, <2>1, AppendKeeps DEF TypeOK
  <2>3. ASSUME NEW t \in Threads PROVE PassOf(t)'
    <3>1. /\ body[t] \in 1..Len(spec) /\ jobName[t] \in Nat /\ UNCHANGED threadVars
          /\ body[t] <= Len(spec) /\ jobName[t] <= Len(spec) /\ PassOf(t)
      <4>1. jobName[t] \in Nat
        BY <1>0 DEF TypeOK
      <4>2. UNCHANGED threadVars
        BY <1>4 DEF Update, Delete
      <4>3. body[t] \in 1..Len(spec)
        BY <1>0, SpecOfPass
      <4> QED
        BY <1>0, <4>1, <4>2, <4>3 DEF PassOf
    <3>2. Mode(t)' = Mode(t)
      BY <2>2, <3>1 DEF Mode
    <3> QED
      BY <2>2, <3>1, <3>2 DEF PassOf
  <2>4. session' = "present" => Generation' <= MaxGeneration
    BY <1>4, <2>2 DEF Update, Delete
  <2> QED
    BY <2>3, <2>4 DEF PassInv
<1>5. CASE Release
  <2>1. UNCHANGED <<spec, threadVars>> /\ session' = "gone" /\ \A t \in Threads : pc[t] = "idle"
    BY <1>5 DEF Release, Busy
  <2>2. \A t \in Threads : PassOf(t)'
    BY <1>0, <2>1 DEF PassOf, NamingPoints
  <2> QED
    BY <2>1, <2>2 DEF PassInv
<1>6. CASE Restart
  BY <1>0, <1>a, <1>6, PassOfEnds DEF Restart
<1>7. ASSUME NEW c \in Clusters, BecomesReady(c) PROVE PassInv'
  BY <1>0, <1>a, <1>7, PassOfStays DEF BecomesReady
<1>8. CASE CollectGarbage \/ UserDeletesJob \/ UNCHANGED vars
  BY <1>0, <1>a, <1>8, PassOfStays DEF CollectGarbage, UserDeletesJob, vars
<1> QED
  BY <1>1, <1>2, <1>3, <1>4, <1>5, <1>6, <1>7, <1>8 DEF Next, Handler, Timer

-----------------------------------------------------------------------------
(* Of the deletion only what a handler has not deleted yet can change.     *)
LEMMA DeleteStep == Inv /\ [Next]_vars => DeleteInv'
<1> SUFFICES ASSUME Inv, [Next]_vars PROVE DeleteInv'
  OBVIOUS
<1>0. TypeOK /\ PassInv /\ DeleteInv
  BY DEF Inv
<1> USE DEF apiVars, kopfVars, threadVars, metricVars, boundVars, historyVars
<1>1. CASE HandlerBegins
  <2>1. /\ session = "present" /\ UNCHANGED <<session, deleted>>
        /\ pc'["handler"] = "service" /\ pc'["timer"] = pc["timer"]
    BY <1>0, <1>1 DEF TypeOK, HandlerBegins, Begin, Goto
  <2> QED
    BY <1>0, <2>1 DEF DeleteInv
<1>2. CASE TimerBegins
  <2>1. /\ session = "present" /\ UNCHANGED <<session, deleted>>
        /\ pc'["handler"] = pc["handler"]
    BY <1>0, <1>2 DEF TypeOK, TimerBegins, Begin, Goto
  <2> QED
    BY <1>0, <2>1 DEF DeleteInv
<1>3. CASE DeleteBegins
  <2>1. /\ session = "deleting" /\ ~deleted /\ UNCHANGED <<session, spec, deleted, late>>
        /\ pc'["handler"] = "del_statefulset" /\ pc'["timer"] = pc["timer"]
        /\ body'["handler"] = Generation
    BY <1>0, <1>3 DEF TypeOK, DeleteBegins, Begin, Goto
  <2> QED
    BY <1>0, <2>1 DEF DeleteInv
<1>4. ASSUME NEW t \in Threads, Reconcile(t) PROVE DeleteInv'
  <2>1. /\ pc[t] \in ReconcilePoints /\ pc'[t] \in ReconcilePoints \cup {"idle"}
        /\ \A u \in Threads \ {t} : pc'[u] = pc[u]
        /\ UNCHANGED <<session, spec, deleted, pending, late>>
        /\ \A u \in Threads \ {t} : body'[u] = body[u]
    BY <1>0, <1>4 DEF TypeOK, Goto, End, Reconcile, ApplyService, ApplyStatefulSet, AfterJobs,
       DeleteDeployment, ApplyDeployment, ListJobs, DeleteListedJob, CheckReady, ApplyJob, Status
  <2>2. CASE t = "handler"
    BY <1>0, <2>1, <2>2 DEF DeleteInv
  <2>3. CASE t = "timer"
    <3>1. session = "present" \/ late
      BY <1>0, <2>1, <2>3 DEF DeleteInv
    <3> QED
      BY <1>0, <2>1, <2>3, <3>1 DEF DeleteInv
  <2> QED
    BY <2>2, <2>3
<1>5. ASSUME NEW t \in Threads, DeleteWorkloads(t) PROVE DeleteInv'
  <2>1. /\ t = "handler" /\ pc[t] \in DeletePoints
        /\ UNCHANGED <<session, spec, late>> /\ pc'["timer"] = pc["timer"]
        /\ session = "deleting" /\ body[t] = Generation
        /\ Server(t) = Current.server /\ Client(t) = Current.client
    BY <1>0, <1>5 DEF TypeOK, Goto, End, DeleteWorkloads, DelStatefulSet, DelService,
       DelDeployment, DelJob, DeleteInv, Server, Client, Current
  <2>2. CASE DelStatefulSet(t)
    BY <1>0, <2>1, <2>2 DEF DelStatefulSet, DeleteInv, TypeOK, Goto, Current
  <2>3. CASE DelService(t)
    BY <1>0, <2>1, <2>3 DEF DelService, DeleteInv, TypeOK, Goto, Current
  <2>4. CASE DelDeployment(t)
    BY <1>0, <2>1, <2>4 DEF DelDeployment, DeleteInv, TypeOK, Goto, Current
  <2>5. CASE DelJob(t)
    BY <1>0, <2>1, <2>5 DEF DelJob, DeleteInv, TypeOK, End, Current
  <2> QED
    BY <1>5, <2>2, <2>3, <2>4, <2>5 DEF DeleteWorkloads
<1>6. ASSUME NEW t \in Threads, CallFails(t) PROVE DeleteInv'
  <2>1. /\ pc'[t] = "idle" /\ \A u \in Threads \ {t} : pc'[u] = pc[u] /\ body'[u] = body[u]
        /\ UNCHANGED <<session, spec, kopfVars, apiVars, pending, late>> /\ pc[t] # "idle"
    BY <1>0, <1>6 DEF TypeOK, CallFails, End
  <2> QED
    BY <1>0, <2>1 DEF DeleteInv, Current
<1>7. CASE Update
  BY <1>0, <1>7 DEF Update, DeleteInv
<1>8. CASE Delete
  <2>1. ~deleted /\ pc["handler"] \notin DeletePoints
    BY <1>0, <1>8 DEF Delete, DeleteInv
  <2> QED
    BY <1>8, <2>1 DEF Delete, DeleteInv
<1>9. CASE Release
  BY <1>0, <1>9 DEF Release, Busy, DeleteInv, Current
<1>10. CASE Restart
  <2>1. /\ \A t \in Threads : pc'[t] = "idle"
        /\ deleted' = FALSE /\ session' = session /\ session # "gone"
    BY <1>10 DEF Restart
  <2> QED
    BY <2>1 DEF DeleteInv
<1>11. ASSUME NEW c \in Clusters, BecomesReady(c) PROVE DeleteInv'
  BY <1>0, <1>11 DEF BecomesReady, DeleteInv, Current
<1>12. CASE CollectGarbage
  BY <1>0, <1>12 DEF CollectGarbage, DeleteInv, Current
<1>13. CASE UserDeletesJob \/ UNCHANGED vars
  BY <1>0, <1>13 DEF UserDeletesJob, vars, DeleteInv, Current
<1> QED
  BY <1>1, <1>2, <1>3, <1>4, <1>5, <1>6, <1>7, <1>8, <1>9, <1>10, <1>11, <1>12, <1>13 DEF Next, Handler, Timer

-----------------------------------------------------------------------------
(* A raise of the generation pays for the passes that are under way.       *)
LEMMA BusyPays ==
  One("handler" \in Busy) + One("timer" \in Busy) <= Cardinality(Busy)
<1>1. Busy \subseteq {"handler", "timer"}
  BY DEF Busy
<1>2. CASE "handler" \in Busy /\ "timer" \in Busy
  <2>1. Busy = {"handler"} \cup {"timer"}
    BY <1>1, <1>2
  <2>2. Cardinality({"handler"} \cup {"timer"}) = 2
    <3>1. IsFiniteSet({"handler"}) /\ Cardinality({"handler"}) = 1
      BY FS_Singleton
    <3>2. \A x : Cardinality({"handler"} \cup {x}) =
                   IF x \in {"handler"} THEN Cardinality({"handler"}) ELSE Cardinality({"handler"}) + 1
      BY <3>1, FS_AddElement
    <3>3. "timer" \notin {"handler"}
      OBVIOUS
    <3>4. Cardinality({"handler"} \cup {"timer"}) = Cardinality({"handler"}) + 1
      BY <3>2, <3>3
    <3> QED
      BY <3>1, <3>4
  <2>3. One("handler" \in Busy) = 1 /\ One("timer" \in Busy) = 1
    BY <1>2 DEF One
  <2> QED
    BY <2>1, <2>2, <2>3
<1>3. CASE "handler" \notin Busy /\ "timer" \notin Busy
  <2>1. One("handler" \in Busy) = 0 /\ One("timer" \in Busy) = 0
    BY <1>3 DEF One
  <2> QED
    BY <2>1, BusyFinite
<1>4. CASE "handler" \in Busy /\ "timer" \notin Busy
  <2>1. Busy = {"handler"}
    BY <1>1, <1>4
  <2>2. Cardinality(Busy) = 1
    BY <2>1, FS_Singleton
  <2>3. One("handler" \in Busy) = 1 /\ One("timer" \in Busy) = 0
    BY <1>4 DEF One
  <2> QED
    BY <2>2, <2>3
<1>5. CASE "handler" \notin Busy /\ "timer" \in Busy
  <2>1. Busy = {"timer"}
    BY <1>1, <1>5
  <2>2. Cardinality(Busy) = 1
    BY <2>1, FS_Singleton
  <2>3. One("handler" \in Busy) = 0 /\ One("timer" \in Busy) = 1
    BY <1>5 DEF One
  <2> QED
    BY <2>2, <2>3
<1> QED
  BY <1>2, <1>3, <1>4, <1>5

CountOf(g) ==
    created[g] + One(Missing(g)) + One(MayTouch("handler", g)) + One(MayTouch("timer", g))
        <= 1 + userDeletes + overtaken

(* It is enough to look at the thread that moves.                          *)
LEMMA ThreadCounts ==
  ASSUME TypeOK, TypeOK', CountInv, NEW t \in Threads, NEW g \in Generations,
         UNCHANGED <<spec, userDeletes, overtaken>>,
         \A u \in Threads \ {t} : /\ pc'[u] = pc[u] /\ body'[u] = body[u]
                                  /\ jobName'[u] = jobName[u] /\ todo'[u] = todo[u],
         created'[g] + One(Missing(g))' + One(MayTouch(t, g))'
            <= created[g] + One(Missing(g)) + One(MayTouch(t, g))
  PROVE  CountOf(g)'
<1>1. \A u \in Threads \ {t} : MayTouch(u, g)' = MayTouch(u, g)
  BY DEF MayTouch, Overtaken, Mode
<1>2. /\ created[g] \in Nat /\ created'[g] \in Nat
      /\ userDeletes \in Nat /\ overtaken \in Nat
  BY DEF TypeOK
<1>3. CountOf(g)
  BY DEF CountInv, CountOf
<1> QED
  BY <1>1, <1>2, <1>3 DEF CountOf, One

LEMMA CountStep == Inv /\ [Next]_vars => CountInv'
<1> SUFFICES ASSUME Inv, [Next]_vars, NEW g \in Generations PROVE CountOf(g)'
  BY DEF CountInv, CountOf
<1>0. /\ TypeOK /\ TypeOK' /\ PassInv /\ DeleteInv /\ CountInv
      /\ CountOf(g)
  BY TypeStep DEF Inv, CountInv, CountOf
<1> USE DEF apiVars, kopfVars, threadVars, metricVars, boundVars, historyVars
<1>n. /\ created[g] \in Nat /\ created'[g] \in Nat
      /\ userDeletes \in Nat /\ overtaken \in Nat
  BY <1>0 DEF TypeOK
(* The created jobs and what is missing stay; a pass ends or goes on.      *)
<1>a. ASSUME NEW t \in Threads, UNCHANGED <<session, spec, jobs, created, userDeletes, overtaken>>,
             \A u \in Threads \ {t} : /\ pc'[u] = pc[u] /\ body'[u] = body[u]
                                      /\ jobName'[u] = jobName[u] /\ todo'[u] = todo[u],
             MayTouch(t, g)' => MayTouch(t, g)
      PROVE  CountOf(g)'
  <2>1. Missing(g)' = Missing(g)
    BY <1>a DEF Missing, CurrentMode, Current
  <2> QED
    BY <1>0, <1>n, <1>a, <2>1, ThreadCounts DEF One
<1>1. CASE HandlerBegins \/ TimerBegins \/ DeleteBegins
  <2>1. PICK t \in Threads, point \in {"service", "status", "del_statefulset"} :
           /\ Begin(t, point)
           /\ UNCHANGED <<session, spec, jobs, created, userDeletes, overtaken>>
    BY <1>1 DEF HandlerBegins, TimerBegins, DeleteBegins, TimerStartsAt
  <2>2. /\ body'[t] = Generation
        /\ \A u \in Threads \ {t} : /\ pc'[u] = pc[u] /\ body'[u] = body[u]
                                    /\ jobName'[u] = jobName[u] /\ todo'[u] = todo[u]
    BY <1>0, <2>1 DEF TypeOK, Begin, Goto
  <2>3. ~MayTouch(t, g)'
    BY <1>0, <2>1, <2>2 DEF TypeOK, MayTouch, Overtaken
  <2> QED
    BY <1>a, <2>1, <2>2, <2>3
<1>2. ASSUME NEW t \in Threads, Reconcile(t) PROVE CountOf(g)'
  <2>0. /\ UNCHANGED <<session, spec, userDeletes, overtaken>>
        /\ \A u \in Threads \ {t} : /\ pc'[u] = pc[u] /\ body'[u] = body[u]
                                    /\ jobName'[u] = jobName[u] /\ todo'[u] = todo[u]
    BY <1>0, <1>2 DEF TypeOK, Goto, End, Reconcile, ApplyService, ApplyStatefulSet,
       DeleteDeployment, ApplyDeployment, ListJobs, DeleteListedJob, CheckReady, ApplyJob, Status
  <2>a. PassOf(t) /\ body[t] \in 1..Len(spec) /\ Len(spec) \in Nat /\ jobName[t] \in Generations
    <3>1. Len(spec) \in Nat
      BY <1>0, LenProperties DEF TypeOK
    <3>2. jobName[t] \in Generations
      BY <1>0 DEF TypeOK
    <3> QED
      BY <1>0, <3>1, <3>2, SpecOfPass DEF PassInv
  <2>1. CASE ApplyService(t) \/ ApplyStatefulSet(t) \/ DeleteDeployment(t) \/ ApplyDeployment(t)
             \/ ListJobs(t)
    <3>1. pc[t] \in EarlyPoints /\ body'[t] = body[t] /\ UNCHANGED <<jobs, created>>
      BY <1>0, <2>1 DEF TypeOK, ApplyService, ApplyStatefulSet, DeleteDeployment, ApplyDeployment,
         ListJobs, Goto, EarlyPoints
    <3>2. MayTouch(t, g)' => MayTouch(t, g)
      BY <2>0, <3>1 DEF MayTouch, Overtaken, EarlyPoints
    <3> QED
      BY <1>a, <2>0, <3>1, <3>2
  <2>2. CASE DeleteListedJob(t)
    <3>1. PICK h \in todo[t] :
             /\ pc[t] = "delete_jobs" /\ jobs' = jobs \ {<<Client(t), h>>}
             /\ todo'[t] = todo[t] \ {h}
             /\ pc'[t] \in {"delete_jobs", "check_ready", "status"}
             /\ body'[t] = body[t] /\ jobName'[t] = jobName[t] /\ created' = created
      BY <1>0, <2>2 DEF TypeOK, DeleteListedJob, AfterJobs, Goto
    <3>2. MayTouch(t, g)' => MayTouch(t, g)
      BY <2>0, <3>1 DEF MayTouch, Overtaken, EarlyPoints, Mode
    <3>3. ASSUME Missing(g)', ~Missing(g) PROVE MayTouch(t, g) /\ ~MayTouch(t, g)'
      <4>1. g = Generation /\ CurrentMode = "probe" /\ h = g
        BY <2>0, <3>1, <3>3 DEF Missing, CurrentMode, Current
      <4>2. Mode(t) = "probe" => jobName[t] # g
        BY <2>a, <3>1, <4>1 DEF PassOf
      <4>3. body[t] # Generation
        <5> SUFFICES ASSUME body[t] = Generation PROVE FALSE
          OBVIOUS
        <5>1. Mode(t) = "probe"
          BY <4>1 DEF Mode, CurrentMode, Current
        <5>2. jobName[t] = Generation
          BY <2>a, <3>1, <5>1 DEF PassOf, NamingPoints
        <5> QED
          BY <4>1, <4>2, <5>1, <5>2
      <4>4. body[t] < Generation
        BY <2>a, <4>3
      <4>5. MayTouch(t, g)
        BY <3>1, <4>1, <4>4 DEF MayTouch, Overtaken
      <4>6. ~MayTouch(t, g)'
        BY <2>0, <3>1, <4>1, <4>2 DEF MayTouch, EarlyPoints, Mode
      <4> QED
        BY <4>5, <4>6
    <3> QED
      BY <1>0, <1>n, <2>0, <3>1, <3>2, <3>3, ThreadCounts DEF One
  <2>3. CASE CheckReady(t)
    <3>1. /\ pc[t] = "check_ready" /\ pc'[t] \in {"apply_job", "status"}
          /\ body'[t] = body[t] /\ jobName'[t] = jobName[t] /\ UNCHANGED <<jobs, created>>
      BY <1>0, <2>3 DEF TypeOK, CheckReady, Goto
    <3>2. MayTouch(t, g)' => MayTouch(t, g)
      BY <2>0, <3>1 DEF MayTouch, Overtaken, EarlyPoints, Mode
    <3> QED
      BY <1>a, <2>0, <3>1, <3>2
  <2>4. CASE ApplyJob(t)
    <3>1. /\ pc[t] = "apply_job" /\ pc'[t] = "status"
          /\ jobs' = jobs \cup {<<Client(t), jobName[t]>>}
          /\ created'[g] = IF g = jobName[t] /\ <<Client(t), g>> \notin jobs
                           THEN created[g] + 1 ELSE created[g]
      BY <1>0, <2>4, <2>a DEF TypeOK, ApplyJob, Goto
    <3>2. ~MayTouch(t, g)' /\ (Missing(g)' => Missing(g))
      BY <2>0, <3>1 DEF MayTouch, EarlyPoints, Missing, CurrentMode, Current
    <3>3. ASSUME g = jobName[t], <<Client(t), g>> \notin jobs
          PROVE  MayTouch(t, g) \/ (Missing(g) /\ ~Missing(g)')
      <4>1. Mode(t) = "probe" /\ jobName[t] >= body[t] /\ g <= Generation
        BY <2>a, <3>1, <3>3 DEF PassOf, NamingPoints
      <4>2. CASE body[t] < Generation
        BY <3>1, <3>3, <4>1, <4>2 DEF MayTouch, Overtaken
      <4>3. CASE body[t] = Generation
        <5>1. session = "present"
          BY <2>a, <3>1, <4>3 DEF PassOf
        <5>2. g = Generation /\ CurrentMode = "probe" /\ Client(t) = Current.client
          BY <2>a, <3>3, <4>1, <4>3 DEF Mode, Client, CurrentMode, Current
        <5> QED
          BY <2>0, <2>a, <3>1, <3>3, <5>1, <5>2 DEF Missing, CurrentMode, Current
      <4> QED
        BY <2>a, <4>2, <4>3
    <3> QED
      BY <1>0, <1>n, <2>0, <3>1, <3>2, <3>3, ThreadCounts DEF One
  <2>5. CASE Status(t)
    <3>1. pc'[t] = "idle" /\ UNCHANGED <<jobs, created>>
      BY <1>0, <2>5 DEF TypeOK, Status, End
    <3> QED
      BY <1>a, <2>0, <3>1 DEF MayTouch, Overtaken
  <2> QED
    BY <1>2, <2>1, <2>2, <2>3, <2>4, <2>5 DEF Reconcile
<1>3. ASSUME NEW t \in Threads, DeleteWorkloads(t) \/ CallFails(t) PROVE CountOf(g)'
  <2>1. /\ UNCHANGED <<session, spec, created, userDeletes, overtaken>>
        /\ \A u \in Threads \ {t} : /\ pc'[u] = pc[u] /\ body'[u] = body[u]
                                    /\ jobName'[u] = jobName[u] /\ todo'[u] = todo[u]
        /\ pc'[t] \notin ReconcilePoints
    BY <1>0, <1>3 DEF TypeOK, Goto, End, DeleteWorkloads, DelStatefulSet, DelService,
       DelDeployment, DelJob, CallFails
  <2>2. jobs' = jobs \/ session = "deleting"
    BY <1>0, <1>3 DEF DeleteWorkloads, DelStatefulSet, DelService, DelDeployment, DelJob,
       CallFails, TypeOK, DeleteInv
  <2>3. ~MayTouch(t, g)' /\ (Missing(g)' => Missing(g))
    BY <2>1, <2>2 DEF MayTouch, Overtaken, Missing, CurrentMode, Current
  <2> QED
    BY <1>0, <1>n, <2>1, <2>3, ThreadCounts DEF One
<1>4. CASE Update \/ Delete
  <2>1. PICK s \in Specs : spec' = Append(spec, s)
    BY <1>0, <1>4, SpecAppended, Zenon
  <2>2. Len(spec') = Len(spec) + 1 /\ Len(spec) \in Nat
    BY <1>0, <2>1, AppendKeeps DEF TypeOK
  <2>3. Missing(g)' => Missing(g)
    BY <1>4, <2>2 DEF Update, Delete, Missing
  <2>4. \A t \in Threads : MayTouch(t, g)' => t \in Busy
    BY <1>4 DEF Update, Delete, MayTouch, Overtaken, Busy
  <2>5. /\ UNCHANGED <<created, userDeletes>>
        /\ overtaken' = overtaken + Cardinality(Busy)
    BY <1>4 DEF Update, Delete
  <2>6. created[g] + One(Missing(g)') <= 1 + userDeletes + overtaken
    BY <1>0, <1>n, <2>3 DEF CountOf, One
  <2>7. One(MayTouch("handler", g)') + One(MayTouch("timer", g)') <= Cardinality(Busy)
    BY <2>4, BusyPays, BusyFinite DEF One
  <2> QED
    BY <1>n, <2>5, <2>6, <2>7, BusyFinite DEF CountOf, One
<1>5. CASE Release \/ CollectGarbage \/ UNCHANGED vars \/ \E c \in Clusters : BecomesReady(c)
  <2>1. /\ UNCHANGED <<spec, created, userDeletes, overtaken, threadVars>>
        /\ Missing(g)' => Missing(g)
    BY <1>5 DEF Release, CollectGarbage, BecomesReady, vars, Missing, CurrentMode, Current
  <2> QED
    BY <1>0, <1>n, <2>1, ThreadCounts DEF One, MayTouch, Overtaken, Mode
<1>6. CASE Restart
  <2>1. /\ UNCHANGED <<session, spec, jobs, created, userDeletes, overtaken>>
        /\ \A t \in Threads : pc'[t] = "idle"
    BY <1>6 DEF Restart
  <2>2. Missing(g)' = Missing(g) /\ \A t \in Threads : ~MayTouch(t, g)'
    BY <2>1 DEF Missing, CurrentMode, Current, MayTouch, Overtaken
  <2> QED
    BY <1>0, <1>n, <2>1, <2>2 DEF CountOf, One
<1>7. CASE UserDeletesJob
  <2>1. /\ UNCHANGED <<spec, created, overtaken, threadVars>>
        /\ userDeletes' = userDeletes + 1
    BY <1>7 DEF UserDeletesJob
  <2>2. \A t \in Threads : MayTouch(t, g)' = MayTouch(t, g)
    BY <2>1 DEF MayTouch, Overtaken, Mode
  <2> QED
    BY <1>0, <1>n, <2>1, <2>2 DEF CountOf, One
<1> QED
  BY <1>1, <1>2, <1>3, <1>4, <1>5, <1>6, <1>7 DEF Next, Handler, Timer

-----------------------------------------------------------------------------
(* The specs so far only grow.                                             *)
LEMMA SpecsGrow ==
  ASSUME TypeOK, NEW s \in Specs, spec' = Append(spec, s)
  PROVE  Servers \subseteq Servers' /\ Clients \subseteq Clients'
<1>1. /\ Len(spec') = Len(spec) + 1 /\ Len(spec) \in Nat
      /\ \A g \in 1..Len(spec) : spec'[g] = spec[g]
  BY AppendKeeps DEF TypeOK
<1>2. SpecsSoFar \subseteq SpecsSoFar'
  BY <1>1 DEF SpecsSoFar
<1> QED
  BY <1>2 DEF Servers, Clients

(* The spec a pass works on is one of them.                                *)
LEMMA PassPlaces ==
  ASSUME TypeOK, PassInv, NEW t \in Threads
  PROVE  Server(t) \in Servers /\ Client(t) \in Clients
BY SpecOfPass DEF Server, Client, Servers, Clients, SpecsSoFar

LEMMA PlaceStep == Inv /\ [Next]_vars => PlaceInv'
<1> SUFFICES ASSUME Inv, [Next]_vars PROVE PlaceInv'
  OBVIOUS
<1>0. TypeOK /\ PassInv /\ DeleteInv /\ PlaceInv
  BY DEF Inv
<1> USE DEF apiVars, kopfVars, threadVars, metricVars, boundVars, historyVars
(* While session and specs stay, the places do.                            *)
<1>a. ASSUME UNCHANGED <<session, spec, late>>
      PROVE  Servers' = Servers /\ Clients' = Clients /\ LastNamed' = LastNamed
  BY <1>a DEF Servers, Clients, SpecsSoFar, LastNamed
(* Objects go, passes end or go on under the name they have.               *)
<1>b. ASSUME UNCHANGED <<session, spec, late>>,
             services' \subseteq services, statefulsets' \subseteq statefulsets,
             deployments' \subseteq deployments, jobs' \subseteq jobs,
             \A t \in Threads : jobName'[t] \in {jobName[t], 1}
      PROVE  PlaceInv'
  <2>1. LastNamed >= 1
    BY <1>0 DEF TypeOK, PlaceInv, LastNamed
  <2> QED
    BY <1>0, <1>a, <1>b, <2>1 DEF PlaceInv
<1>1. CASE HandlerBegins \/ TimerBegins \/ DeleteBegins
  <2>1. PICK t \in Threads, point \in {"service", "status", "del_statefulset"} :
           Begin(t, point) /\ UNCHANGED <<session, spec, late, apiVars>>
    BY <1>1 DEF HandlerBegins, TimerBegins, DeleteBegins, TimerStartsAt
  <2>2. jobName' = jobName
    BY <2>1 DEF Begin
  <2> QED
    BY <1>b, <2>1, <2>2
<1>2. ASSUME NEW t \in Threads, Reconcile(t) PROVE PlaceInv'
  <2>0. /\ UNCHANGED <<session, spec, late>>
        /\ \A u \in Threads \ {t} : jobName'[u] = jobName[u]
    BY <1>0, <1>2 DEF TypeOK, End, Reconcile, ApplyService, ApplyStatefulSet,
       DeleteDeployment, ApplyDeployment, ListJobs, DeleteListedJob, CheckReady, ApplyJob, Status
  <2>a. Server(t) \in Servers /\ Client(t) \in Clients
    BY <1>0, PassPlaces
  <2>1. CASE ApplyService(t) \/ ApplyStatefulSet(t) \/ ApplyDeployment(t)
    <3>1. /\ services' \subseteq services \cup {Server(t)}
          /\ statefulsets' \subseteq statefulsets \cup {Server(t)}
          /\ deployments' \subseteq deployments \cup {Client(t)}
          /\ UNCHANGED <<jobs, jobName>>
      BY <2>1 DEF ApplyService, ApplyStatefulSet, ApplyDeployment
    <3> QED
      BY <1>0, <1>a, <2>0, <2>a, <3>1 DEF PlaceInv
  <2>2. CASE DeleteDeployment(t)
    <3>1. jobName'[t] <= LastNamed
      <4>1. /\ pc[t] = "delete_deployment" /\ jobName'[t] \in {body[t], Len(spec)}
            /\ jobName'[t] = body[t] \/ t = "timer"
        BY <1>0, <2>2 DEF TypeOK, DeleteDeployment
      <4>2. /\ body[t] \in Nat /\ Len(spec) \in Nat /\ body[t] <= Len(spec)
            /\ session # "present" => body[t] < Len(spec)
        BY <1>0, <4>1 DEF TypeOK, PassInv, PassOf
      <4>3. t = "timer" => session = "present" \/ late
        BY <1>0, <4>1 DEF DeleteInv
      <4> QED
        BY <4>1, <4>2, <4>3 DEF LastNamed
    <3>2. /\ deployments' \subseteq deployments
          /\ UNCHANGED <<services, statefulsets, jobs>>
      BY <2>2 DEF DeleteDeployment
    <3> QED
      BY <1>0, <1>a, <2>0, <3>1, <3>2 DEF PlaceInv
  <2>3. CASE ListJobs(t) \/ DeleteListedJob(t) \/ CheckReady(t) \/ Status(t)
    <3>1. /\ UNCHANGED <<services, statefulsets, deployments>> /\ jobs' \subseteq jobs
          /\ jobName'[t] \in {jobName[t], 1}
      BY <1>0, <2>3 DEF TypeOK, ListJobs, DeleteListedJob, CheckReady, Status, End
    <3> QED
      BY <1>b, <2>0, <3>1
  <2>4. CASE ApplyJob(t)
    <3>1. /\ jobs' = jobs \cup {<<Client(t), jobName[t]>>}
          /\ UNCHANGED <<services, statefulsets, deployments, jobName>>
      BY <2>4 DEF ApplyJob
    <3>2. jobName[t] \in 1..LastNamed
      <4>1. jobName[t] \in Nat \ {0} /\ Len(spec) \in Nat
        BY <1>0 DEF TypeOK
      <4> QED
        BY <1>0, <4>1 DEF PlaceInv, LastNamed
    <3>3. jobs' \subseteq Clients \X (1..LastNamed)
      BY <1>0, <2>a, <3>1, <3>2 DEF PlaceInv
    <3> QED
      BY <1>0, <1>a, <2>0, <3>1, <3>3 DEF PlaceInv
  <2> QED
    BY <1>2, <2>1, <2>2, <2>3, <2>4 DEF Reconcile
<1>3. ASSUME NEW t \in Threads, DeleteWorkloads(t) \/ CallFails(t) PROVE PlaceInv'
  <2>1. /\ UNCHANGED <<session, spec, late>>
        /\ \A u \in Threads : jobName'[u] \in {jobName[u], 1}
        /\ services' \subseteq services /\ statefulsets' \subseteq statefulsets
        /\ deployments' \subseteq deployments /\ jobs' \subseteq jobs
    BY <1>0, <1>3 DEF TypeOK, End, DeleteWorkloads, DelStatefulSet, DelService,
       DelDeployment, DelJob, CallFails
  <2> QED
    BY <1>b, <2>1
<1>4. CASE Update \/ Delete
  <2>1. PICK s \in Specs : spec' = Append(spec, s)
    BY <1>0, <1>4, SpecAppended, Zenon
  <2>2. Servers \subseteq Servers' /\ Clients \subseteq Clients'
    BY <1>0, <2>1, SpecsGrow
  <2>3. /\ Len(spec') = Len(spec) + 1 /\ Len(spec) \in Nat \ {0}
        /\ spec'[Len(spec) + 1] = s /\ \A g \in 1..Len(spec) : spec'[g] = spec[g]
    BY <1>0, <2>1, AppendKeeps DEF TypeOK
  <2>4. session = "present" /\ UNCHANGED <<apiVars, threadVars>>
    BY <1>4 DEF Update, Delete
  <2>5. LastNamed <= LastNamed' /\ LastNamed \in Nat /\ LastNamed' \in Nat
    BY <2>3, <2>4 DEF LastNamed
  <2>6. jobs' \subseteq Clients' \X (1..LastNamed')
    <3>1. 1..LastNamed \subseteq 1..LastNamed'
      BY <2>5
    <3> QED
      BY <1>0, <2>2, <2>4, <3>1 DEF PlaceInv
  <2>7. ASSUME NEW t \in Threads PROVE jobName'[t] <= LastNamed'
    <3>1. jobName[t] \in Nat
      BY <1>0 DEF TypeOK
    <3> QED
      BY <1>0, <2>4, <2>5, <3>1 DEF PlaceInv
  <2>8. session' # "present" => spec'[Generation'] = spec'[Generation' - 1]
    BY <1>4, <2>1, <2>3, <2>4 DEF Update, Delete
  <2> QED
    BY <1>0, <2>2, <2>3, <2>4, <2>6, <2>7, <2>8 DEF PlaceInv
<1>5. CASE Release
  <2>1. /\ UNCHANGED <<spec, late, apiVars, threadVars>> /\ session = "deleting"
        /\ session' = "gone"
    BY <1>5 DEF Release
  <2>2. Servers' = Servers /\ Clients' = Clients /\ LastNamed' = LastNamed
    BY <2>1 DEF Servers, Clients, SpecsSoFar, LastNamed
  <2> QED
    BY <1>0, <2>1, <2>2 DEF PlaceInv
<1>6. CASE Restart
  <2>1. UNCHANGED <<session, spec, late, apiVars>> /\ \A t \in Threads : jobName'[t] = 1
    BY <1>6 DEF Restart
  <2> QED
    BY <1>b, <2>1
<1>7. CASE \/ \E c \in Clusters : BecomesReady(c)
           \/ CollectGarbage \/ UserDeletesJob \/ UNCHANGED vars
  <2>1. /\ UNCHANGED <<session, spec, late, threadVars>>
        /\ services' \subseteq services /\ statefulsets' \subseteq statefulsets
        /\ deployments' \subseteq deployments /\ jobs' \subseteq jobs
    BY <1>7 DEF BecomesReady, CollectGarbage, UserDeletesJob, vars
  <2> QED
    BY <1>b, <2>1
<1> QED
  BY <1>1, <1>2, <1>3, <1>4, <1>5, <1>6, <1>7 DEF Next, Handler, Timer

-----------------------------------------------------------------------------
LEMMA SpecInv == Spec => []Inv
<1>1. Inv /\ [Next]_vars => Inv'
  BY TypeStep, PassStep, DeleteStep, CountStep, PlaceStep DEF Inv
<1> QED
  BY <1>1, InitInv, PTL DEF Spec

(* The types, for every bound on generations, failures and restarts.       *)
THEOREM TypeCorrect == Spec => []TypeOK
<1>1. Inv => TypeOK
  BY DEF Inv
<1> QED
  BY <1>1, SpecInv, PTL

(* What a session that is gone may leave to the collector, or for good, is *)
(* what DeletionIsComplete says: nothing of the last spec's server and     *)
(* Deployment, nothing where no earlier spec wanted it, no job of the      *)
(* deletion's generation, no phase in the metrics, for any clusters and    *)
(* specs, however often the deletion failed or began again.                *)
THEOREM DeletionLeavesThePast == Spec => []DeletionIsComplete
<1>1. Inv => DeletionIsComplete
  <2> SUFFICES ASSUME Inv, session = "gone", ~late
               PROVE  /\ services \cup statefulsets
                             \subseteq {s.server : s \in Earlier} \ {Current.server}
                      /\ deployments \subseteq {s.client : s \in Earlier} \ {Current.client}
                      /\ jobs \subseteq {s.client : s \in Earlier} \X (1..(Generation - 1))
                      /\ phase = "none"
    BY DEF DeletionIsComplete
  <2>1. /\ Current.server \notin services \cup statefulsets
        /\ Current.client \notin deployments /\ phase = "none"
    BY DEF Inv, DeleteInv
  <2>2. SpecsSoFar = Earlier
    <3>1. Len(spec) \in Nat /\ Len(spec) >= 2 /\ spec[Len(spec)] = spec[Len(spec) - 1]
      BY DEF Inv, TypeOK, PlaceInv
    <3> QED
      BY <3>1 DEF SpecsSoFar, Earlier
  <2>3. LastNamed = Generation - 1
    BY DEF LastNamed
  <2> QED
    BY <2>1, <2>2, <2>3 DEF Inv, PlaceInv, Servers, Clients
<1> QED
  BY <1>1, SpecInv, PTL

(* A generation's probe runs once, but for the reasons RerunsExplained     *)
(* counts.                                                                 *)
THEOREM ProbesRunOnce == Spec => []RerunsExplained
<1>1. Inv => RerunsExplained
  <2> SUFFICES ASSUME Inv, NEW g \in Generations
               PROVE  created[g] <= 1 + userDeletes + overtaken
    BY DEF RerunsExplained
  <2>1. created[g] \in Nat /\ userDeletes \in Nat /\ overtaken \in Nat
    BY DEF Inv, TypeOK
  <2> QED
    BY <2>1 DEF Inv, CountInv, One
<1> QED
  BY <1>1, SpecInv, PTL
=============================================================================
