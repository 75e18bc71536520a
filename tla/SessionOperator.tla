-------------------------- MODULE SessionOperator --------------------------
(***************************************************************************)
(* The operator and the workloads of one MeasurementSession (iperf_operator*)
(* /controller.py, _reconcile_session, _delete_session_workloads and the   *)
(* kopf handlers that call them).                                          *)
(*                                                                         *)
(* A session is measured by a server (services and a StatefulSet) in one   *)
(* cluster and a client in the same or another one: a Deployment, or for a *)
(* probe one Job per generation of the session.  kopf runs the change      *)
(* handlers of a session one after the other, and the timer next to them,  *)
(* in a thread of its own; both talk to the API servers, call by call, and *)
(* any call may fail, which ends the pass; kopf starts another one later.  *)
(* Objects in the local cluster are owned by the session, so the cluster   *)
(* collects them after it; remote ones are only ever deleted by a handler. *)
(*                                                                         *)
(* Left out: the ClusterIP service (a session has one network mode for     *)
(* life, so it comes and goes with the headless one), manifests, the       *)
(* status (one phase stands for all that a pass reports), the metrics that *)
(* count passes, a create that meets a conflict (a failed call), and that  *)
(* kopf refreshes the body a running timer reads, except where it names    *)
(* the job: the clusters and the mode are those at the pass's beginning.   *)
(* The RemoteCluster of a session exists: no PermanentError ends a pass.   *)
(***************************************************************************)
EXTENDS Naturals, FiniteSets, Sequences

CONSTANTS
    Clusters,       \* cluster names
    Local,          \* the operator's own cluster
    Specs,          \* the specs the user may give the session
    MaxGeneration,  \* bound: generations of the spec
    MaxTroubles,    \* bound: calls that raise, and restarts of the operator
    MaxUserDeletes  \* bound: jobs deleted by the user

ASSUME SessionAssumption ==
    /\ Local \in Clusters
    /\ Specs \subseteq [mode : {"probe", "continuous"}, server : Clusters, client : Clusters]
    /\ MaxGeneration \in Nat \ {0} /\ MaxTroubles \in Nat /\ MaxUserDeletes \in Nat

Threads == {"handler", "timer"}

VARIABLES
    session,        \* the MeasurementSession: "present", "deleting" or "gone"
    spec,           \* its spec in every generation, the last one being current
    handled,        \* the generation a change handler last succeeded for
    resume,         \* the operator started, and has not resumed the session
    deleted,        \* the delete handler succeeded
    services,       \* clusters with the session's services,
    statefulsets,   \* ... its StatefulSet,
    ready,          \* ... with a ready replica,
    deployments,    \* ... its client Deployment
    jobs,           \* its Jobs: cluster and generation
    pc,             \* where each thread is
    body,           \* per thread, the generation of the body it works on
    jobName,        \* per thread, the generation its job is named after
    todo,           \* per thread, jobs it listed and will delete
    found,          \* per thread, whether it listed the job it wants
    phase,          \* the phase in the operator's metrics, or "none"
    pending,        \* the finalizer counts as pending in the metrics
    created,        \* history: per generation, how often its job was created
    userDeletes, troubles,  \* history: what the bounds count
    overtaken,      \* history: passes under way as the generation was raised
    late            \* history: a timer pass was under way as deletion began

apiVars == <<services, statefulsets, ready, deployments, jobs, created>>
kopfVars == <<handled, resume, deleted>>
threadVars == <<pc, body, jobName, todo, found>>
metricVars == <<phase, pending>>
boundVars == <<userDeletes, troubles>>
historyVars == <<overtaken, late>>
vars == <<session, spec, kopfVars, apiVars, threadVars, metricVars, boundVars, historyVars>>

Generation == Len(spec)
Generations == 1..(MaxGeneration + 1)

ReconcilePoints == {"service", "statefulset", "delete_deployment", "apply_deployment",
                    "list_jobs", "delete_jobs", "check_ready", "apply_job", "status"}
DeletePoints == {"del_statefulset", "del_service", "del_deployment", "del_job"}

(* Types; the finalizer counts as pending only while the session exists    *)
(* and is being deleted.                                                   *)
TypeOK ==
    /\ session \in {"present", "deleting", "gone"}
    /\ spec \in Seq(Specs) /\ Generation \in Generations
    /\ handled \in 0..Generation
    /\ resume \in BOOLEAN /\ deleted \in BOOLEAN
    /\ services \subseteq Clusters /\ statefulsets \subseteq Clusters
    /\ ready \subseteq statefulsets
    /\ deployments \subseteq Clusters
    /\ jobs \subseteq Clusters \X Generations
    /\ pc \in [Threads -> {"idle"} \cup ReconcilePoints \cup DeletePoints]
    /\ pc["timer"] \notin DeletePoints
    /\ body \in [Threads -> Generations]
    /\ jobName \in [Threads -> Generations]
    /\ todo \in [Threads -> SUBSET Generations]
    /\ found \in [Threads -> BOOLEAN]
    /\ phase \in {"none", "reported", "Deleting", "Error"}
    /\ pending \in BOOLEAN /\ (pending => session = "deleting")
    /\ created \in [Generations -> Nat]
    /\ userDeletes \in 0..MaxUserDeletes /\ troubles \in 0..MaxTroubles
    /\ overtaken \in Nat /\ late \in BOOLEAN

Init ==
    /\ session = "present"
    /\ \E s \in Specs : spec = <<s>>
    /\ handled = 0 /\ resume = FALSE /\ deleted = FALSE
    /\ services = {} /\ statefulsets = {} /\ ready = {} /\ deployments = {}
    /\ jobs = {}
    /\ pc = [t \in Threads |-> "idle"]
    /\ body = [t \in Threads |-> 1]
    /\ jobName = [t \in Threads |-> 1]
    /\ todo = [t \in Threads |-> {}]
    /\ found = [t \in Threads |-> FALSE]
    /\ phase = "none" /\ pending = FALSE
    /\ created = [g \in Generations |-> 0]
    /\ userDeletes = 0 /\ troubles = 0
    /\ overtaken = 0 /\ late = FALSE

-----------------------------------------------------------------------------
Mode(t) == spec[body[t]].mode
Server(t) == spec[body[t]].server
Client(t) == spec[body[t]].client
JobsOf(t) == {g \in Generations : <<Client(t), g>> \in jobs}

Goto(t, point) == pc' = [pc EXCEPT ![t] = point]

(* A thread begins a pass with the body of the session as it is now.       *)
Begin(t, point) ==
    /\ pc[t] = "idle"
    /\ Goto(t, point)
    /\ body' = [body EXCEPT ![t] = Generation]
    /\ UNCHANGED <<jobName, todo, found>>

(* A thread ends its pass; its locals go out of scope.                     *)
End(t) ==
    /\ pc' = [pc EXCEPT ![t] = "idle"]
    /\ body' = [body EXCEPT ![t] = 1]
    /\ jobName' = [jobName EXCEPT ![t] = 1]
    /\ todo' = [todo EXCEPT ![t] = {}]
    /\ found' = [found EXCEPT ![t] = FALSE]

(***************************************************************************)
(* What kopf starts.  A change handler runs until it succeeded for the     *)
(* latest generation, and once after the operator started.                 *)
(***************************************************************************)
HandlerBegins ==
    /\ session = "present"
    /\ handled # Generation \/ resume
    /\ Begin("handler", "service")
    /\ UNCHANGED <<session, spec, kopfVars, apiVars, metricVars, boundVars, historyVars>>

(* Mutation: the timer never reconciles.                                   *)
TimerReportsOnly == "status"
TimerStartsAt == IF spec[Generation].mode = "probe" THEN "service" ELSE "status"

(* The timer reconciles a probe and only reports on a Deployment.          *)
TimerBegins ==
    /\ session = "present"
    /\ Begin("timer", TimerStartsAt)
    /\ UNCHANGED <<session, spec, kopfVars, apiVars, metricVars, boundVars, historyVars>>

DeleteBegins ==
    /\ session = "deleting"
    /\ ~deleted
    /\ Begin("handler", "del_statefulset")
    /\ phase' = "Deleting"
    /\ pending' = TRUE
    /\ UNCHANGED <<session, spec, kopfVars, apiVars, boundVars, historyVars>>

-----------------------------------------------------------------------------
(***************************************************************************)
(* _reconcile_session, one action per call to an API server.               *)
(***************************************************************************)
ApplyService(t) ==
    /\ pc[t] = "service"
    /\ services' = services \cup {Server(t)}
    /\ Goto(t, "statefulset")
    /\ UNCHANGED <<session, spec, kopfVars, statefulsets, ready, deployments, jobs, created,
                   body, jobName, todo, found, metricVars, boundVars, historyVars>>

ApplyStatefulSet(t) ==
    /\ pc[t] = "statefulset"
    /\ statefulsets' = statefulsets \cup {Server(t)}
    /\ Goto(t, IF Mode(t) = "probe" THEN "delete_deployment" ELSE "apply_deployment")
    /\ UNCHANGED <<session, spec, kopfVars, services, ready, deployments, jobs, created,
                   body, jobName, todo, found, metricVars, boundVars, historyVars>>

(* The job is built after the Deployment is gone, from a body that kopf    *)
(* refreshes under a running timer.                                        *)
DeleteDeployment(t) ==
    /\ pc[t] = "delete_deployment"
    /\ deployments' = deployments \ {Client(t)}
    /\ \E g \in {body[t]} \cup (IF t = "timer" THEN {Generation} ELSE {}) :
          jobName' = [jobName EXCEPT ![t] = g]
    /\ Goto(t, "list_jobs")
    /\ UNCHANGED <<session, spec, kopfVars, services, statefulsets, ready, jobs, created,
                   body, todo, found, metricVars, boundVars, historyVars>>

ApplyDeployment(t) ==
    /\ pc[t] = "apply_deployment"
    /\ deployments' = deployments \cup {Client(t)}
    /\ Goto(t, "list_jobs")
    /\ UNCHANGED <<session, spec, kopfVars, services, statefulsets, ready, jobs, created,
                   body, jobName, todo, found, metricVars, boundVars, historyVars>>

(* What follows when every job that is to be deleted is.                   *)
AfterJobs(t, isFound) ==
    IF Mode(t) = "probe" /\ ~isFound THEN "check_ready" ELSE "status"

(* Mutation: the job of this generation is deleted with the others.        *)
UnwantedAll(t) == JobsOf(t)

(* The jobs of other generations; without a probe, all.                    *)
Unwanted(t) == JobsOf(t) \ (IF Mode(t) = "probe" THEN {jobName[t]} ELSE {})

ListJobs(t) ==
    /\ pc[t] = "list_jobs"
    /\ LET isFound == Mode(t) = "probe" /\ jobName[t] \in JobsOf(t)
       IN  /\ found' = [found EXCEPT ![t] = isFound]
           /\ Goto(t, IF Unwanted(t) = {} THEN AfterJobs(t, isFound) ELSE "delete_jobs")
    /\ todo' = [todo EXCEPT ![t] = Unwanted(t)]
    /\ UNCHANGED <<session, spec, kopfVars, apiVars, body, jobName, metricVars, boundVars,
                   historyVars>>

DeleteListedJob(t) ==
    /\ pc[t] = "delete_jobs"
    /\ \E g \in todo[t] :
          /\ jobs' = jobs \ {<<Client(t), g>>}
          /\ todo' = [todo EXCEPT ![t] = @ \ {g}]
          /\ Goto(t, IF todo[t] = {g} THEN AfterJobs(t, found[t]) ELSE "delete_jobs")
    /\ UNCHANGED <<session, spec, kopfVars, services, statefulsets, ready, deployments,
                   created, body, jobName, found, metricVars, boundVars, historyVars>>

CheckReady(t) ==
    /\ pc[t] = "check_ready"
    /\ Goto(t, IF Server(t) \in ready THEN "apply_job" ELSE "status")
    /\ UNCHANGED <<session, spec, kopfVars, apiVars, body, jobName, todo, found, metricVars,
                   boundVars, historyVars>>

ApplyJob(t) ==
    /\ pc[t] = "apply_job"
    /\ jobs' = jobs \cup {<<Client(t), jobName[t]>>}
    /\ created' = IF <<Client(t), jobName[t]>> \in jobs THEN created
                  ELSE [created EXCEPT ![jobName[t]] = @ + 1]
    /\ Goto(t, "status")
    /\ UNCHANGED <<session, spec, kopfVars, services, statefulsets, ready, deployments,
                   body, jobName, todo, found, metricVars, boundVars, historyVars>>

(* _session_status, then the phase goes to the metrics and the pass ends;  *)
(* kopf remembers what generation the handler succeeded for.               *)
Status(t) ==
    /\ pc[t] = "status"
    /\ phase' = "reported"
    /\ IF t = "handler"
       THEN handled' = body[t] /\ resume' = FALSE
       ELSE UNCHANGED <<handled, resume>>
    /\ End(t)
    /\ UNCHANGED <<session, spec, deleted, apiVars, pending, boundVars, historyVars>>

-----------------------------------------------------------------------------
(***************************************************************************)
(* _delete_session_workloads: an object that is not there is no error.     *)
(***************************************************************************)
(* Mutation: a missing StatefulSet is an error and ends the pass.          *)
DelStatefulSetRaises(t) ==
    /\ pc[t] = "del_statefulset"
    /\ IF Server(t) \in statefulsets
       THEN Goto(t, "del_service") /\ UNCHANGED <<body, jobName, todo, found, phase>>
       ELSE End(t) /\ phase' = "Error"
    /\ statefulsets' = statefulsets \ {Server(t)}
    /\ ready' = ready \ {Server(t)}
    /\ UNCHANGED <<session, spec, kopfVars, services, deployments, jobs, created, pending,
                   boundVars, historyVars>>

(* Mutation: a missing StatefulSet is taken for a deletion that is done.   *)
DelStatefulSetOrDone(t) ==
    /\ pc[t] = "del_statefulset"
    /\ statefulsets' = statefulsets \ {Server(t)}
    /\ ready' = ready \ {Server(t)}
    /\ Goto(t, IF Server(t) \in statefulsets THEN "del_service" ELSE "del_job")
    /\ UNCHANGED <<session, spec, kopfVars, services, deployments, jobs, created, body,
                   jobName, todo, found, metricVars, boundVars, historyVars>>

DelStatefulSet(t) ==
    /\ pc[t] = "del_statefulset"
    /\ statefulsets' = statefulsets \ {Server(t)}
    /\ ready' = ready \ {Server(t)}
    /\ Goto(t, "del_service")
    /\ UNCHANGED <<session, spec, kopfVars, services, deployments, jobs, created, body,
                   jobName, todo, found, metricVars, boundVars, historyVars>>

DelService(t) ==
    /\ pc[t] = "del_service"
    /\ services' = services \ {Server(t)}
    /\ Goto(t, "del_deployment")
    /\ UNCHANGED <<session, spec, kopfVars, statefulsets, ready, deployments, jobs, created,
                   body, jobName, todo, found, metricVars, boundVars, historyVars>>

DelDeployment(t) ==
    /\ pc[t] = "del_deployment"
    /\ deployments' = deployments \ {Client(t)}
    /\ Goto(t, "del_job")
    /\ UNCHANGED <<session, spec, kopfVars, services, statefulsets, ready, jobs, created,
                   body, jobName, todo, found, metricVars, boundVars, historyVars>>

(* Mutation: the finalizer is not marked complete.                         *)
DelJobStillPending(t) ==
    /\ pc[t] = "del_job"
    /\ jobs' = jobs \ {<<Client(t), body[t]>>}
    /\ deleted' = TRUE
    /\ phase' = "none"
    /\ End(t)
    /\ UNCHANGED <<session, spec, handled, resume, services, statefulsets, ready,
                   deployments, created, pending, boundVars, historyVars>>

(* The job named after the generation of the body, then the bookkeeping.   *)
DelJob(t) ==
    /\ pc[t] = "del_job"
    /\ jobs' = jobs \ {<<Client(t), body[t]>>}
    /\ deleted' = TRUE
    /\ pending' = FALSE
    /\ phase' = "none"
    /\ End(t)
    /\ UNCHANGED <<session, spec, handled, resume, services, statefulsets, ready,
                   deployments, created, boundVars, historyVars>>

(* Any call may raise: the pass ends, the phase is Error, kopf tries again.*)
CallFails(t) ==
    /\ pc[t] # "idle"
    /\ troubles < MaxTroubles
    /\ troubles' = troubles + 1
    /\ phase' = "Error"
    /\ End(t)
    /\ UNCHANGED <<session, spec, kopfVars, apiVars, pending, userDeletes, historyVars>>

-----------------------------------------------------------------------------
(***************************************************************************)
(* The user, the cluster and the operator's process.                       *)
(***************************************************************************)
Busy == {t \in Threads : pc[t] # "idle"}

Update ==
    /\ session = "present"
    /\ Generation < MaxGeneration
    /\ \E s \in Specs \ {spec[Generation]} : spec' = Append(spec, s)
    /\ overtaken' = overtaken + Cardinality(Busy)
    /\ UNCHANGED <<session, kopfVars, apiVars, threadVars, metricVars, boundVars, late>>

(* The API server raises the generation when it marks an object for        *)
(* deletion; the finalizer keeps the object until the operator lets it go. *)
Delete ==
    /\ session = "present"
    /\ session' = "deleting"
    /\ spec' = Append(spec, spec[Generation])
    /\ late' = (pc["timer"] # "idle")
    /\ overtaken' = overtaken + Cardinality(Busy)
    /\ UNCHANGED <<kopfVars, apiVars, threadVars, metricVars, boundVars>>

(* kopf waits for the delete handler and for a timer pass that still runs. *)
Release ==
    /\ session = "deleting"
    /\ deleted
    /\ Busy = {}
    /\ session' = "gone"
    /\ UNCHANGED <<spec, kopfVars, apiVars, threadVars, metricVars, boundVars, historyVars>>

BecomesReady(c) ==
    /\ c \in statefulsets
    /\ ready' = ready \cup {c}
    /\ UNCHANGED <<session, spec, kopfVars, services, statefulsets, deployments, jobs,
                   created, threadVars, metricVars, boundVars, historyVars>>

(* The owner references of local objects.                                  *)
CollectGarbage ==
    /\ session = "gone"
    /\ services' = services \ {Local}
    /\ statefulsets' = statefulsets \ {Local}
    /\ ready' = ready \ {Local}
    /\ deployments' = deployments \ {Local}
    /\ jobs' = {j \in jobs : j[1] # Local}
    /\ UNCHANGED <<session, spec, kopfVars, created, threadVars, metricVars, boundVars,
                   historyVars>>

UserDeletesJob ==
    /\ userDeletes < MaxUserDeletes
    /\ userDeletes' = userDeletes + 1
    /\ \E j \in jobs : jobs' = jobs \ {j}
    /\ UNCHANGED <<session, spec, kopfVars, services, statefulsets, ready, deployments,
                   created, threadVars, metricVars, troubles, historyVars>>

(* The operator starts again: threads and metrics are lost.                *)
Restart ==
    /\ troubles < MaxTroubles
    /\ troubles' = troubles + 1
    /\ pc' = [t \in Threads |-> "idle"]
    /\ body' = [t \in Threads |-> 1]
    /\ jobName' = [t \in Threads |-> 1]
    /\ todo' = [t \in Threads |-> {}]
    /\ found' = [t \in Threads |-> FALSE]
    /\ phase' = "none" /\ pending' = FALSE
    /\ resume' = TRUE /\ deleted' = FALSE
    /\ session # "gone"
    /\ UNCHANGED <<session, spec, handled, apiVars, userDeletes, historyVars>>

-----------------------------------------------------------------------------
Reconcile(t) ==
    \/ ApplyService(t) \/ ApplyStatefulSet(t) \/ DeleteDeployment(t) \/ ApplyDeployment(t)
    \/ ListJobs(t) \/ DeleteListedJob(t) \/ CheckReady(t) \/ ApplyJob(t) \/ Status(t)

DeleteWorkloads(t) == DelStatefulSet(t) \/ DelService(t) \/ DelDeployment(t) \/ DelJob(t)

(* What the handler and the timer do when no call fails.                   *)
Handler == HandlerBegins \/ DeleteBegins \/ Reconcile("handler") \/ DeleteWorkloads("handler")
Timer == TimerBegins \/ Reconcile("timer")

Next ==
    \/ Handler \/ Timer
    \/ \E t \in Threads : CallFails(t)
    \/ Update \/ Delete \/ Release \/ Restart
    \/ \E c \in Clusters : BecomesReady(c)
    \/ CollectGarbage \/ UserDeletesJob

Spec == Init /\ [][Next]_vars

(* kopf starts what is due, a pass goes on, servers become ready: calls    *)
(* fail and the operator restarts MaxTroubles times only.                  *)
FairSpec ==
    /\ Spec
    /\ WF_threadVars(Handler) /\ WF_threadVars(Timer) /\ WF_session(Release)
    /\ WF_ready(\E c \in Clusters : BecomesReady(c))

-----------------------------------------------------------------------------
(***************************************************************************)
(* Properties                                                              *)
(***************************************************************************)
Current == spec[Generation]
CurrentMode == Current.mode

(* The specs the session had before its deletion, which made a generation  *)
(* of its own with the spec of the last.                                   *)
Earlier == {spec[g] : g \in 1..(Generation - 1)}

(* What a session that is gone may leave to the collector, or for good, is *)
(* of the past: services, StatefulSets and Deployments in clusters that an *)
(* earlier spec named and the last one does not, and jobs of generations   *)
(* before the deletion's.  The server and the Deployment of the last spec  *)
(* are deleted and the metrics have forgotten the session, though calls    *)
(* failed, the operator restarted and specs changed in between, unless a   *)
(* timer pass that began before the deletion outlived the delete handler.  *)
(* (A job of an earlier generation may well be left: NothingLeftBehind.)   *)
DeletionIsComplete ==
    session = "gone" /\ ~late =>
        /\ services \cup statefulsets \subseteq {s.server : s \in Earlier} \ {Current.server}
        /\ deployments \subseteq {s.client : s \in Earlier} \ {Current.client}
        /\ jobs \subseteq {s.client : s \in Earlier} \X (1..(Generation - 1))
        /\ phase = "none"

(* A generation's probe runs once, however handler, timer, failures and    *)
(* restarts interleave: it is only created again after the user deleted    *)
(* it, or after a pass that worked on an older body did.                   *)
RerunsExplained == \A g \in Generations : created[g] <= 1 + userDeletes + overtaken

(* A probe session converges: in the end there are a server, the job of    *)
(* the current generation, no other job and no Deployment, whatever failed *)
(* or overlapped on the way.                                               *)
ProbeConverged ==
    /\ Current.server \in services \cap statefulsets
    /\ Current.client \notin deployments
    /\ {g \in Generations : <<Current.client, g>> \in jobs} = {Generation}

ProbesConverge == <>[](session = "present" /\ CurrentMode = "probe" => ProbeConverged)

(* A deletion completes once calls succeed: the finalizer is not kept for  *)
(* ever, whatever was or was not created.                                  *)
DeletionsComplete == session = "deleting" ~> session = "gone"

(* The documentation's statement on deletion: the session's workloads are  *)
(* removed, by the operator or, in the local cluster, by the collector. *)
NothingLeftBehind ==
    session = "gone" =>
        /\ services \cup statefulsets \cup deployments \subseteq {Local}
        /\ \A j \in jobs : j[1] = Local

(* The documentation's statement on the continuous mode: its client is a   *)
(* Deployment that lives as long as the mode.                              *)
ContinuousKeepsItsClient ==
    <>[](session = "present" /\ CurrentMode = "continuous" => Current.client \in deployments)
=============================================================================
