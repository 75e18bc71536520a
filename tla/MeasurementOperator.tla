------------------------ MODULE MeasurementOperator ------------------------
(***************************************************************************)
(* The operator between the resources users write and the sessions it      *)
(* keeps for them (iperf_operator/controller.py, _reconcile_measurement    *)
(* and reconcile_profile).                                                 *)
(*                                                                         *)
(* A LinkMeasurement names a MeasurementProfile.  Its handler loads the    *)
(* profile, looks up the addresses of both endpoints, expands the spec and *)
(* applies a MeasurementSession for each result, call by call, and then    *)
(* deletes the sessions with the measurement's label that it no longer     *)
(* wants.  The handler of a profile notes the profile's version in an      *)
(* annotation of every measurement that names it, which is a change of     *)
(* these measurements and so makes their handlers run.                     *)
(*                                                                         *)
(* kopf runs one handler at a time for one object, each with the object's  *)
(* body as it was when the pass began, until it succeeded or raised a      *)
(* PermanentError for the body as it then is; what it compares is the      *)
(* body's content.  It also runs them once after the operator started.     *)
(* Objects of the same name, one deleted and one created, have different   *)
(* workers.  A session has a finalizer: it leaves some time after it was   *)
(* deleted.  The API server collects sessions whose owner is gone.         *)
(*                                                                         *)
(* Left out: the statuses, the metrics and with them the handlers that     *)
(* only remove series; the RemoteCluster's own handler, which reports its  *)
(* reachability; sessions that users delete; names with the same slug; a   *)
(* profile created anew while a pass for its predecessor runs; a create    *)
(* that meets a conflict (a failed call).                                  *)
(***************************************************************************)
EXTENDS Specs

CONSTANTS
    Measurements,   \* LinkMeasurements: objects, not names
    NameOf,         \* their names
    Profiles,       \* names of profiles
    UserSpecs,      \* the specs users may give a measurement
    MaxSaves,       \* bound: versions of profiles
    MaxEvents       \* bound: what else users do, calls that raise, restarts

ASSUME MeasurementAssumption ==
    /\ \A s \in UserSpecs : s.profileRef \in Profiles
    /\ \A s \in UserSpecs : {DirectionsOf(s), ModesOf(s)} \subseteq Seq(STRING)
    /\ MaxSaves \in Nat /\ MaxEvents \in Nat

VARIABLES
    body,       \* the LinkMeasurements: spec and annotation, or Absent
    created,    \* those that were created
    handled,    \* per measurement, at most one: the body last handled
    resuming,   \* measurements to handle because the operator started
    worker,     \* per measurement, its handler
    outcome,    \* per measurement, how its last pass ended
    profile,    \* per profile its version; 0: it does not exist
    saves,      \* versions so far
    noted,      \* per profile, the version its handler last finished with
    renoting,   \* profiles to handle because the operator started
    noter,      \* per profile, its handler
    resolvable, \* endpoints whose address there is; all to begin with
    sessions,   \* the MeasurementSessions
    events,     \* history: what MaxEvents bounds
    disturbed,  \* history: names with a session applied while it was leaving,
                \* or changed by the handler of a deleted measurement
    reverted    \* history: measurements that came back to a body a pass handled
                \* or is handling, with no pass begun since

objectVars == <<body, created>>
workerVars == <<handled, resuming, worker, outcome>>
noterVars == <<noted, renoting, noter>>
profileVars == <<profile, saves>>
vars == <<objectVars, workerVars, profileVars, noterVars, resolvable, sessions, events,
          disturbed, reverted>>

(* The address of an endpoint: its node has an InternalIP, and a remote    *)
(* cluster is registered with a Secret that has its kubeconfig.            *)
Endpoints == UNION {{s.source, s.destination} : s \in UserSpecs}

Names == {NameOf[m] : m \in Measurements}
Bodies == [spec : UserSpecs, trigger : 0..MaxSaves]
Absent == [at |-> "absent"]
Idle == [at |-> "idle"]
SessionNames == Names \X NetworkModes \X Directions

Present == {m \in Measurements : body[m] # Absent}
Running(m) == worker[m].at # "idle"
Steps == {"load", "nodes", "apply", "list", "delete", "report"}

(* What every valid spec expands to.                                       *)
Expansion == [s \in {u \in UserSpecs : Valid(u)} |-> Expand(s)]
SessionModes == {e.execution.mode : e \in UNION {Range(Expansion[s]) : s \in DOMAIN Expansion}}

(* Types; of a session, only what this module looks at.  A pass works with *)
(* a version of the profile that there was when it loaded it, and a        *)
(* finished one has a body and an outcome.                                 *)
TypeOK ==
    /\ created \subseteq Measurements /\ Present \subseteq created
    /\ \A m \in Present : body[m] \in Bodies
    /\ \A m, n \in Present : NameOf[m] = NameOf[n] => m = n
    /\ \A m \in Measurements :
          /\ handled[m] \subseteq Bodies /\ Cardinality(handled[m]) <= 1
          /\ Running(m) =>
                /\ worker[m].at \in Steps /\ worker[m].body \in Bodies
                /\ worker[m].version \in 0..saves
                /\ worker[m].at # "load" => worker[m].version > 0
                /\ worker[m].todo \subseteq SessionNames
    /\ resuming \subseteq Measurements
    /\ outcome \in [Measurements -> {"none", "ready", "noProfile", "unresolved", "raised"}]
    /\ profile \in [Profiles -> 0..saves] /\ noted \in [Profiles -> 0..saves]
    /\ renoting \subseteq Profiles
    /\ \A p \in Profiles : noter[p].at \in {"idle", "list", "patch", "report"}
    /\ resolvable \subseteq Endpoints
    /\ \A k \in SessionNames : sessions[k] # Absent =>
          /\ sessions[k].at \in {"live", "leaving"}
          /\ sessions[k].owner \in created
          /\ sessions[k].version \in 1..saves
          /\ SessionName(k[1], sessions[k].spec) = k
          /\ sessions[k].spec.execution.mode \in SessionModes
    /\ events \in 0..MaxEvents /\ saves \in 0..MaxSaves
    /\ disturbed \subseteq Names /\ reverted \subseteq Measurements

Init ==
    /\ body = [m \in Measurements |-> Absent] /\ created = {}
    /\ handled = [m \in Measurements |-> {}] /\ resuming = {}
    /\ worker = [m \in Measurements |-> Idle]
    /\ outcome = [m \in Measurements |-> "none"]
    /\ profile = [p \in Profiles |-> 0] /\ saves = 0
    /\ noted = [p \in Profiles |-> 0] /\ renoting = {}
    /\ noter = [p \in Profiles |-> Idle]
    /\ resolvable = Endpoints
    /\ sessions = [k \in SessionNames |-> Absent]
    /\ events = 0
    /\ disturbed = {} /\ reverted = {}

Event == events < MaxEvents /\ events' = events + 1

(* kopf compares contents: of a body that comes back to one that is        *)
(* handled, or is being handled, the handler never learns.                 *)
Handles(m, b) == handled[m] = {b} \/ (Running(m) /\ worker[m].body = b)

BodiesChange ==
    reverted' = {m \in Measurements :
                    IF body'[m] = body[m] THEN m \in reverted ELSE Handles(m, body'[m])}

-----------------------------------------------------------------------------
(***************************************************************************)
(* The handler of a measurement                                            *)
(***************************************************************************)
Due(m) == m \in Present /\ (handled[m] # {body[m]} \/ m \in resuming)

Wanted(m) == Expansion[worker[m].body.spec]
WantedNames(m) == {SessionName(NameOf[m], s) : s \in Range(Wanted(m))}
Labelled(m) == {k \in SessionNames : k[1] = NameOf[m] /\ sessions[k] # Absent}

Goto(m, step) == worker' = [worker EXCEPT ![m].at = step]

Begin(m) ==
    /\ ~Running(m)
    /\ Due(m)
    /\ worker' = [worker EXCEPT ![m] =
          [at |-> "load", body |-> body[m], version |-> 0, done |-> 0, todo |-> {}]]
    /\ reverted' = reverted \ {m}
    /\ UNCHANGED <<objectVars, handled, resuming, outcome, profileVars, noterVars, resolvable,
                   sessions, events, disturbed>>

(* A pass that ends for good, with success or with a PermanentError, is    *)
(* not repeated for the same body: an annotation of the object, if it is   *)
(* still there, says so.                                                   *)
Ends(m, how) ==
    /\ worker' = [worker EXCEPT ![m] = Idle]
    /\ IF m \in Present
       THEN /\ handled' = [handled EXCEPT ![m] = {worker[m].body}]
            /\ resuming' = resuming \ {m}
            /\ outcome' = [outcome EXCEPT ![m] = how]
       ELSE UNCHANGED <<handled, resuming, outcome>>

(* Any other exception ends the pass, and kopf starts another one.         *)
Raises(m) ==
    /\ outcome' = IF m \in Present THEN [outcome EXCEPT ![m] = "raised"] ELSE outcome
    /\ worker' = [worker EXCEPT ![m] = Idle]
    /\ UNCHANGED <<handled, resuming>>

(* Mutation: the handler goes on without the profile.                      *)
LoadAny(m) ==
    /\ worker[m].at = "load"
    /\ worker' = [worker EXCEPT ![m].at = "nodes",
                                ![m].version = profile[worker[m].body.spec.profileRef]]
    /\ UNCHANGED <<objectVars, handled, resuming, outcome, profileVars, noterVars, resolvable,
                   sessions, events, disturbed, reverted>>

LoadProfile(m) ==
    /\ worker[m].at = "load"
    /\ LET version == profile[worker[m].body.spec.profileRef]
       IN  IF version = 0
           THEN Ends(m, "noProfile")
           ELSE /\ worker' = [worker EXCEPT ![m].at = "nodes", ![m].version = version]
                /\ UNCHANGED <<handled, resuming, outcome>>
    /\ UNCHANGED <<objectVars, profileVars, noterVars, resolvable, sessions, events,
                   disturbed, reverted>>

(* The addresses of both endpoints, then the expansion, which makes no     *)
(* calls.  An address that there is not is a PermanentError.               *)
ReadNodes(m) ==
    /\ worker[m].at = "nodes"
    /\ LET spec == worker[m].body.spec
       IN  IF {spec.source, spec.destination} \subseteq resolvable
           THEN IF spec \in DOMAIN Expansion
                THEN Goto(m, "apply") /\ UNCHANGED <<handled, resuming, outcome>>
                ELSE Raises(m)
           ELSE Ends(m, "unresolved")
    /\ UNCHANGED <<objectVars, profileVars, noterVars, resolvable, sessions, events,
                   disturbed, reverted>>

(* A session that exists is patched, a leaving one too; else it is created.*)
Applied(m, wanted) ==
    LET old == sessions[SessionName(NameOf[m], wanted)]
    IN  [at      |-> IF old = Absent THEN "live" ELSE old.at,
         owner   |-> m,
         version |-> worker[m].version,
         spec    |-> IF old = Absent THEN wanted ELSE Merged(old.spec, wanted)]

ApplySession(m) ==
    /\ worker[m].at = "apply"
    /\ LET wanted == Wanted(m)[worker[m].done + 1]
           k == SessionName(NameOf[m], wanted)
       IN  /\ sessions' = [sessions EXCEPT ![k] = Applied(m, wanted)]
           /\ disturbed' = IF sessions[k].at = "leaving" \/ m \notin Present
                           THEN disturbed \cup {NameOf[m]} ELSE disturbed
    /\ worker' = [worker EXCEPT
          ![m].done = @ + 1,
          ![m].at = IF worker[m].done + 1 = Len(Wanted(m)) THEN "list" ELSE "apply"]
    /\ UNCHANGED <<objectVars, handled, resuming, outcome, profileVars, noterVars, resolvable,
                   events, reverted>>

(* Mutation: nothing is deleted.                                           *)
ListSessionsOnly(m) ==
    /\ worker[m].at = "list"
    /\ Goto(m, "report")
    /\ UNCHANGED <<objectVars, handled, resuming, outcome, profileVars, noterVars, resolvable,
                   sessions, events, disturbed, reverted>>

ListSessions(m) ==
    /\ worker[m].at = "list"
    /\ LET stale == Labelled(m) \ WantedNames(m)
       IN  worker' = [worker EXCEPT ![m].todo = stale,
                                    ![m].at = IF stale = {} THEN "report" ELSE "delete"]
    /\ UNCHANGED <<objectVars, handled, resuming, outcome, profileVars, noterVars, resolvable,
                   sessions, events, disturbed, reverted>>

(* A session that is not there, or is leaving, is no error.                *)
Leave(k) == IF sessions[k] = Absent THEN sessions ELSE [sessions EXCEPT ![k].at = "leaving"]

DeleteSession(m) ==
    /\ worker[m].at = "delete"
    /\ \E k \in worker[m].todo :
          /\ sessions' = Leave(k)
          /\ worker' = [worker EXCEPT
                ![m].todo = @ \ {k},
                ![m].at = IF worker[m].todo = {k} THEN "report" ELSE "delete"]
    /\ disturbed' = IF m \notin Present THEN disturbed \cup {NameOf[m]} ELSE disturbed
    /\ UNCHANGED <<objectVars, handled, resuming, outcome, profileVars, noterVars, resolvable,
                   events, reverted>>

Report(m) ==
    /\ worker[m].at = "report"
    /\ Ends(m, "ready")
    /\ UNCHANGED <<objectVars, profileVars, noterVars, resolvable, sessions, events,
                   disturbed, reverted>>

CallFails(m) ==
    /\ Running(m)
    /\ Event
    /\ Raises(m)
    /\ UNCHANGED <<objectVars, profileVars, noterVars, resolvable, sessions,
                   disturbed, reverted>>

Reconcile(m) ==
    \/ LoadProfile(m) \/ ReadNodes(m) \/ ApplySession(m) \/ ListSessions(m)
    \/ DeleteSession(m) \/ Report(m)

-----------------------------------------------------------------------------
(***************************************************************************)
(* The handler of a profile                                                *)
(***************************************************************************)
NoteBegins(p) ==
    /\ noter[p].at = "idle"
    /\ profile[p] > 0
    /\ noted[p] # profile[p] \/ p \in renoting
    /\ noter' = [noter EXCEPT ![p] = [at |-> "list", version |-> profile[p], todo |-> {}]]
    /\ UNCHANGED <<objectVars, workerVars, profileVars, noted, renoting, resolvable, sessions,
                   events, disturbed, reverted>>

ListMeasurements(p) ==
    /\ noter[p].at = "list"
    /\ LET naming == {NameOf[m] : m \in {n \in Present : body[n].spec.profileRef = p}}
       IN  noter' = [noter EXCEPT ![p].todo = naming,
                                  ![p].at = IF naming = {} THEN "report" ELSE "patch"]
    /\ UNCHANGED <<objectVars, workerVars, profileVars, noted, renoting, resolvable, sessions,
                   events, disturbed, reverted>>

(* Mutation: the annotation is written but says nothing new.               *)
PatchSame(p) ==
    /\ noter[p].at = "patch"
    /\ \E n \in noter[p].todo :
          noter' = [noter EXCEPT ![p].todo = @ \ {n},
                                 ![p].at = IF noter[p].todo = {n} THEN "report" ELSE "patch"]
    /\ UNCHANGED <<objectVars, workerVars, profileVars, noted, renoting, resolvable, sessions,
                   events, disturbed, reverted>>

(* The measurement of a listed name gets the annotation, whatever it now   *)
(* names; if there is none, the call raises and the pass starts again.     *)
PatchMeasurement(p) ==
    /\ noter[p].at = "patch"
    /\ \E n \in noter[p].todo :
          LET named == {m \in Present : NameOf[m] = n}
          IN  /\ body' = [m \in Measurements |-> IF m \in named
                             THEN [body[m] EXCEPT !.trigger = noter[p].version]
                             ELSE body[m]]
              /\ noter' = IF named = {} THEN [noter EXCEPT ![p] = Idle]
                          ELSE [noter EXCEPT
                             ![p].todo = @ \ {n},
                             ![p].at = IF noter[p].todo = {n} THEN "report" ELSE "patch"]
    /\ BodiesChange
    /\ UNCHANGED <<created, workerVars, profileVars, noted, renoting, resolvable, sessions,
                   events, disturbed>>

NoteReports(p) ==
    /\ noter[p].at = "report"
    /\ noted' = IF profile[p] > 0 THEN [noted EXCEPT ![p] = noter[p].version] ELSE noted
    /\ renoting' = renoting \ {p}
    /\ noter' = [noter EXCEPT ![p] = Idle]
    /\ UNCHANGED <<objectVars, workerVars, profileVars, resolvable, sessions, events,
                   disturbed, reverted>>

NoteFails(p) ==
    /\ noter[p].at # "idle"
    /\ Event
    /\ noter' = [noter EXCEPT ![p] = Idle]
    /\ UNCHANGED <<objectVars, workerVars, profileVars, noted, renoting, resolvable, sessions, disturbed, reverted>>

Note(p) == ListMeasurements(p) \/ PatchMeasurement(p) \/ NoteReports(p)

-----------------------------------------------------------------------------
(***************************************************************************)
(* The users, the API server and the operator's process                    *)
(***************************************************************************)
(* The objects of one name are interchangeable: they come in one order.    *)
Successor(n) == CHOOSE m \in Measurements \ created : NameOf[m] = n

UserCreates(m) ==
    /\ m \notin created
    /\ m = Successor(NameOf[m])
    /\ \A n \in Present : NameOf[n] # NameOf[m]
    /\ Event
    /\ created' = created \cup {m}
    /\ \E s \in UserSpecs : body' = [body EXCEPT ![m] = [spec |-> s, trigger |-> 0]]
    /\ UNCHANGED <<workerVars, profileVars, noterVars, resolvable, sessions,
                   disturbed, reverted>>

UserEdits(m) ==
    /\ m \in Present
    /\ Event
    /\ \E s \in UserSpecs \ {body[m].spec} : body' = [body EXCEPT ![m].spec = s]
    /\ BodiesChange
    /\ UNCHANGED <<created, workerVars, profileVars, noterVars, resolvable, sessions,
                   disturbed>>

(* A measurement has no finalizer: it goes at once, and a pass goes on.    *)
UserDeletes(m) ==
    /\ m \in Present
    /\ Event
    /\ body' = [body EXCEPT ![m] = Absent]
    /\ handled' = [handled EXCEPT ![m] = {}]
    /\ outcome' = [outcome EXCEPT ![m] = "none"]
    /\ resuming' = resuming \ {m}
    /\ reverted' = reverted \ {m}
    /\ UNCHANGED <<created, worker, profileVars, noterVars, resolvable, sessions,
                   disturbed>>

UserSavesProfile(p) ==
    /\ saves < MaxSaves
    /\ saves' = saves + 1
    /\ profile' = [profile EXCEPT ![p] = saves + 1]
    /\ UNCHANGED <<objectVars, workerVars, noterVars, resolvable, sessions, events,
                   disturbed, reverted>>

UserRemovesProfile(p) ==
    /\ profile[p] > 0
    /\ Event
    /\ profile' = [profile EXCEPT ![p] = 0]
    /\ noted' = [noted EXCEPT ![p] = 0]
    /\ renoting' = renoting \ {p}
    /\ UNCHANGED <<objectVars, workerVars, saves, noter, resolvable, sessions,
                   disturbed, reverted>>

(* A RemoteCluster, its kubeconfig or a node's InternalIP comes or goes.   *)
AddressChanges(e) ==
    /\ Event
    /\ resolvable' = IF e \in resolvable THEN resolvable \ {e} ELSE resolvable \cup {e}
    /\ UNCHANGED <<objectVars, workerVars, profileVars, noterVars, sessions,
                   disturbed, reverted>>

(* The delete handler of a session is done and its finalizer removed.      *)
SessionGoes(k) ==
    /\ sessions[k].at = "leaving"
    /\ sessions' = [sessions EXCEPT ![k] = Absent]
    /\ UNCHANGED <<objectVars, workerVars, profileVars, noterVars, resolvable, events,
                   disturbed, reverted>>

CollectGarbage(k) ==
    /\ sessions[k].at = "live"
    /\ sessions[k].owner \notin Present
    /\ sessions' = Leave(k)
    /\ UNCHANGED <<objectVars, workerVars, profileVars, noterVars, resolvable, events,
                   disturbed, reverted>>

(* The operator starts again: its passes are lost, every object is handled *)
(* once more.                                                              *)
Restart ==
    /\ Event
    /\ worker' = [m \in Measurements |-> Idle]
    /\ noter' = [p \in Profiles |-> Idle]
    /\ resuming' = Present
    /\ renoting' = {p \in Profiles : profile[p] > 0}
    /\ UNCHANGED <<objectVars, handled, outcome, profileVars, noted, resolvable, sessions, disturbed, reverted>>

-----------------------------------------------------------------------------
Users ==
    \/ \E m \in Measurements : UserCreates(m) \/ UserEdits(m) \/ UserDeletes(m)
    \/ \E p \in Profiles : UserSavesProfile(p) \/ UserRemovesProfile(p)
    \/ \E e \in Endpoints : AddressChanges(e)

Next ==
    \/ \E m \in Measurements : Begin(m) \/ Reconcile(m) \/ CallFails(m)
    \/ \E p \in Profiles : NoteBegins(p) \/ Note(p) \/ NoteFails(p)
    \/ Users
    \/ \E k \in SessionNames : SessionGoes(k) \/ CollectGarbage(k)
    \/ Restart

Spec == Init /\ [][Next]_vars

(* kopf starts what is due, and passes go on.  That leaving sessions go is *)
(* not assumed.                                                            *)
FairSpec ==
    /\ Spec
    /\ \A m \in Measurements : WF_worker(Begin(m) \/ Reconcile(m))
    /\ \A p \in Profiles : WF_noter(NoteBegins(p) \/ Note(p))

-----------------------------------------------------------------------------
(***************************************************************************)
(* Properties                                                              *)
(***************************************************************************)
ProfileOf(m) == body[m].spec.profileRef

(* Nothing is left to do for a measurement, nor for the profile it names.  *)
Settled(m) ==
    /\ m \in Present
    /\ ~Running(m) /\ ~Due(m)
    /\ profile[ProfileOf(m)] > 0
    /\ noter[ProfileOf(m)].at = "idle"
    /\ noted[ProfileOf(m)] = profile[ProfileOf(m)] /\ ProfileOf(m) \notin renoting

Demanded(m) == {<<SessionName(NameOf[m], s), s>> : s \in Range(Expansion[body[m].spec])}

(* A session is as demanded, but for a field of the execution that the     *)
(* spec does not have (any more).                                          *)
AsDemanded(session, demanded) ==
    session = [demanded EXCEPT !.execution =
        [mode     |-> @.mode,
         every    |-> IF @.every = 0 THEN session.execution.every ELSE @.every,
         duration |-> IF @.duration = 0 THEN session.execution.duration ELSE @.duration]]

(* The sessions of a measurement are those its spec asks for, and no other.*)
Placed(m) ==
    /\ \A d \in Demanded(m) : LET session == sessions[d[1]]
          IN  session.at = "live" /\ session.owner = m /\ AsDemanded(session.spec, d[2])
    /\ \A k \in SessionNames :
          sessions[k].at = "live" /\ sessions[k].owner = m => k \in {d[1] : d \in Demanded(m)}

UpToDate(m) == \A d \in Demanded(m) : sessions[d[1]].version = profile[ProfileOf(m)]

Expanded(m) == Placed(m) /\ UpToDate(m)

(* When a measurement's pass succeeded and nothing is left to do, it has   *)
(* the sessions its spec asks for and no other: whatever edits, saves,     *)
(* failures and restarts came in between and in which order the two        *)
(* handlers saw them, unless a pass met a session on its way out or the    *)
(* handler of a deleted namesake.  They have the profile as it now is,     *)
(* unless the body came back to the one handled: the profile was saved     *)
(* while the measurement named another one, or the handler of another one  *)
(* wrote its version over the annotation.                                  *)
SettledIsExpanded ==
    \A m \in Measurements :
        Settled(m) /\ outcome[m] = "ready" /\ NameOf[m] \notin disturbed =>
            Placed(m) /\ (m \notin reverted => UpToDate(m))

(* In the end a measurement that can be expanded is, also when its profile *)
(* came after it, changed, went and came back, and calls failed.  Not so   *)
(* - if its last pass missed the address of an endpoint (no RemoteCluster, *)
(*   no kubeconfig in its Secret, no InternalIP), although there is one    *)
(*   now: the PermanentError is not retried;                               *)
(* - if the body came back to the one handled, or being handled: no other  *)
(*   pass starts for it;                                                   *)
(* - if a session was patched while it was leaving, or changed by the      *)
(*   handler of a deleted namesake.                                        *)
MeasurementsConverge ==
    <>[](\A m \in Measurements :
            m \in Present /\ profile[ProfileOf(m)] > 0 /\ body[m].spec \in DOMAIN Expansion
                /\ outcome[m] # "unresolved" /\ m \notin reverted
                /\ NameOf[m] \notin disturbed
            => Expanded(m))

(* The documentation's statement on directions and network modes: the      *)
(* operator expands them into separate MeasurementSession objects.         *)
EveryDemandHasItsSession ==
    \A m \in Measurements :
        Settled(m) /\ outcome[m] = "ready" =>
            \A d \in Demanded(m) : sessions[d[1]] # Absent
=============================================================================
