-------------------- MODULE MeasurementOperator_proofs --------------------
(***************************************************************************)
(* Proofs about MeasurementOperator for any measurements, names, profiles, *)
(* specs and bounds.                                                       *)
(***************************************************************************)
EXTENDS MeasurementOperator, SequenceTheorems, FiniteSetTheorems, TLAPS

(* The bodies there can be so far: no annotation is of a later version.    *)
BodiesNow == [spec : UserSpecs, trigger : 0..saves]

ObjectTypes ==
    /\ body \in [Measurements -> BodiesNow \cup {Absent}]
    /\ created \subseteq Measurements /\ Present \subseteq created
    /\ \A m, n \in Present : NameOf[m] = NameOf[n] => m = n
    /\ resolvable \subseteq Endpoints
    /\ events \in 0..MaxEvents /\ saves \in 0..MaxSaves
    /\ disturbed \subseteq Names /\ reverted \subseteq Measurements

Outcomes == {"none", "ready", "noProfile", "unresolved", "raised"}
HandledTypes ==
    /\ handled \in [Measurements -> SUBSET BodiesNow]
    /\ \A m \in Measurements :
          /\ handled[m] = {} \/ \E b \in BodiesNow : handled[m] = {b}
          /\ m \notin created => handled[m] = {}
    /\ resuming \subseteq Measurements
    /\ outcome \in [Measurements -> Outcomes]

(* A pass knows a version once it loaded the profile, and what to apply    *)
(* once it expanded the spec; it deletes under its measurement's name.     *)
Passes == [at : Steps, body : BodiesNow, version : 0..saves, done : Nat,
           todo : SUBSET SessionNames]
Placing == {"apply", "list", "delete", "report"}
PassTypes(m) ==
    /\ m \in created
    /\ worker[m].at # "load" => worker[m].version > 0
    /\ worker[m].at \in {"load", "nodes"} => worker[m].done = 0
    /\ worker[m].at \in Placing => worker[m].body.spec \in DOMAIN Expansion
    /\ worker[m].at = "apply" => worker[m].done < Len(Wanted(m))
    /\ \A k \in worker[m].todo : k[1] = NameOf[m]
WorkerTypes ==
    /\ worker \in [Measurements -> Passes \cup {Idle}]
    /\ \A m \in Measurements : Running(m) => PassTypes(m)

Notes == [at : {"list", "patch", "report"}, version : 0..saves, todo : SUBSET Names]
NoterTypes ==
    /\ profile \in [Profiles -> 0..saves] /\ noted \in [Profiles -> 0..saves]
    /\ renoting \subseteq Profiles
    /\ noter \in [Profiles -> Notes \cup {Idle}]

SessionTypes ==
    /\ DOMAIN sessions = SessionNames
    /\ \A k \in SessionNames : sessions[k] # Absent =>
          /\ DOMAIN sessions[k] = {"at", "owner", "version", "spec"}
          /\ sessions[k].at \in {"live", "leaving"}
          /\ sessions[k].owner \in created /\ NameOf[sessions[k].owner] = k[1]
          /\ sessions[k].version \in 1..saves
          /\ SessionName(k[1], sessions[k].spec) = k
          /\ sessions[k].spec.execution.mode \in SessionModes

Types == ObjectTypes /\ HandledTypes /\ WorkerTypes /\ NoterTypes /\ SessionTypes

(* The session a pass of m applied for s, with version w of the profile.   *)
Right(m, w, s) ==
    LET session == sessions[SessionName(NameOf[m], s)]
    IN  /\ session.at = "live" /\ session.owner = m /\ session.version = w
        /\ AsDemanded(session.spec, s)

Owns(m, k) == sessions[k].at = "live" /\ sessions[k].owner = m

PassInv(m) ==
    /\ worker[m].at = "apply" => \A i \in 1..worker[m].done : Right(m, worker[m].version, Wanted(m)[i])
    /\ worker[m].at \in {"list", "delete", "report"} =>
          \A s \in Range(Wanted(m)) : Right(m, worker[m].version, s)
    /\ worker[m].at = "delete" => worker[m].todo \cap WantedNames(m) = {}
    /\ worker[m].at = "report" => worker[m].todo = {}
    /\ worker[m].at \in {"delete", "report"} =>
          \A k \in SessionNames : Owns(m, k) => k \in WantedNames(m) \cup worker[m].todo

(* What a pass for the body b left behind when it succeeded.               *)
DoneInv(m, b, w) ==
    /\ b.spec \in DOMAIN Expansion
    /\ \A s \in Range(Expansion[b.spec]) : Right(m, w, s)
    /\ \A k \in SessionNames :
          Owns(m, k) => k \in {SessionName(NameOf[m], s) : s \in Range(Expansion[b.spec])}

(* Version w of the profile is the present one, or the profile's handler   *)
(* is still to tell a measurement with the body b, which knows an earlier  *)
(* one.                                                                    *)
Told(m, p) == noter[p].at = "patch" /\ NameOf[m] \in noter[p].todo
Fresh(m, b, w) ==
    LET p == b.spec.profileRef
    IN  profile[p] > 0 /\ w # profile[p] =>
            /\ b.trigger # profile[p]
            /\ noted[p] # profile[p]
            /\ noter[p].at \in {"patch", "report"} /\ noter[p].version = profile[p] => Told(m, p)

Undisturbed(m) == m \in Present /\ NameOf[m] \notin disturbed
Kept(m, b) == m \in Present /\ body[m] = b /\ m \notin reverted

RunInv ==
    \A m \in Measurements :
        /\ Running(m) /\ Undisturbed(m) => PassInv(m)
        /\ Running(m) /\ worker[m].at # "load" /\ Kept(m, worker[m].body) =>
              Fresh(m, worker[m].body, worker[m].version)

AtRest(m) == ~Running(m) /\ m \notin resuming /\ outcome[m] = "ready" /\ handled[m] # {}

(* What a pass left at its end, and nothing took away since.               *)
Left(m) == \E b \in handled[m], w \in 1..saves : DoneInv(m, b, w) /\ (Kept(m, b) => Fresh(m, b, w))

RestInv == \A m \in Measurements : AtRest(m) /\ Undisturbed(m) => Left(m)

Invariant == Types /\ RunInv /\ RestInv
-----------------------------------------------------------------------------
(* What a spec expands to.                                                 *)
Expandable == DOMAIN Expansion

LEMMA BoundedList ==
  ASSUME NEW values, NEW a, NEW b, NEW c, values \in Seq(STRING), IsInjective(values),
         values # <<>>, Range(values) \subseteq {a, b, c}
  PROVE  /\ Len(values) \in 1..3
         /\ \A i \in 1..Len(values) : values[i] \in {a, b, c}
         /\ b = c => Len(values) \in 1..2
<1>1. Len(values) \in Nat /\ DOMAIN values = 1..Len(values) /\ Len(values) # 0
  OBVIOUS
<1>2. \A i \in 1..Len(values) : values[i] \in {a, b, c}
  BY <1>1 DEF Range
<1>3. \A i, j \in 1..Len(values) : values[i] = values[j] => i = j
  BY <1>1 DEF IsInjective
<1>4. ~(Len(values) > 3)
  <2> SUFFICES ASSUME Len(values) > 3 PROVE FALSE
    OBVIOUS
  <2>1. 1 \in 1..Len(values) /\ 2 \in 1..Len(values) /\ 3 \in 1..Len(values) /\ 4 \in 1..Len(values)
    BY <1>1
  <2>2. /\ values[1] # values[2] /\ values[1] # values[3] /\ values[1] # values[4]
        /\ values[2] # values[3] /\ values[2] # values[4] /\ values[3] # values[4]
    BY <1>3, <2>1
  <2> QED
    BY <1>2, <2>1, <2>2
<1>5. b = c => ~(Len(values) > 2)
  <2> SUFFICES ASSUME b = c, Len(values) > 2 PROVE FALSE
    OBVIOUS
  <2>1. 1 \in 1..Len(values) /\ 2 \in 1..Len(values) /\ 3 \in 1..Len(values)
    BY <1>1
  <2>2. values[1] # values[2] /\ values[1] # values[3] /\ values[2] # values[3]
    BY <1>3, <2>1
  <2> QED
    BY <1>2, <2>1, <2>2
<1> QED
  BY <1>1, <1>2, <1>4, <1>5

LEMMA Lists ==
  ASSUME NEW spec \in Expandable
  PROVE  /\ spec \in UserSpecs /\ Expansion[spec] = Expand(spec)
         /\ Len(ModesOf(spec)) \in 1..3 /\ Len(DirectionsOf(spec)) \in 1..2
         /\ \A i \in 1..Len(ModesOf(spec)) : ModesOf(spec)[i] \in NetworkModes
         /\ \A i \in 1..Len(DirectionsOf(spec)) : DirectionsOf(spec)[i] \in Directions
<1>1. spec \in UserSpecs /\ Valid(spec) /\ Expansion[spec] = Expand(spec)
  BY DEF Expandable, Expansion
<1>2. DirectionsOf(spec) \in Seq(STRING) /\ ModesOf(spec) \in Seq(STRING)
  BY <1>1, MeasurementAssumption
<1>3. /\ Listed(DirectionsOf(spec), Directions) /\ Listed(ModesOf(spec), NetworkModes)
  BY <1>1 DEF Valid
<1>4. /\ Len(ModesOf(spec)) \in 1..3
      /\ \A i \in 1..Len(ModesOf(spec)) : ModesOf(spec)[i] \in NetworkModes
  <2> DEFINE L == ModesOf(spec)
  <2> HIDE DEF L
  <2>1. L \in Seq(STRING) /\ IsInjective(L) /\ L # <<>> /\ Range(L) \subseteq {"host", "pod", "service"}
    BY <1>2, <1>3 DEF Listed, NetworkModes, L
  <2>2. Len(L) \in 1..3 /\ \A i \in 1..Len(L) : L[i] \in {"host", "pod", "service"}
    BY <2>1, BoundedList
  <2> QED
    BY <2>2 DEF NetworkModes, L
<1>5. /\ Len(DirectionsOf(spec)) \in 1..2
      /\ \A i \in 1..Len(DirectionsOf(spec)) : DirectionsOf(spec)[i] \in Directions
  <2> DEFINE L == DirectionsOf(spec)
             forth == "sourceToDestination"
             back == "destinationToSource"
  <2> HIDE DEF L
  <2>1. L \in Seq(STRING) /\ IsInjective(L) /\ L # <<>> /\ Range(L) \subseteq {forth, back, back}
    BY <1>2, <1>3 DEF Listed, Directions, L
  <2>2. Len(L) \in 1..2 /\ \A i \in 1..Len(L) : L[i] \in {forth, back, back}
    BY <2>1, BoundedList
  <2> QED
    BY <2>2 DEF Directions, L
<1> QED
  BY <1>1, <1>4, <1>5

LEMMA Expanding ==
  ASSUME NEW spec \in Expandable
  PROVE  /\ Len(Expansion[spec]) \in Nat /\ Len(Expansion[spec]) >= 1
         /\ DOMAIN Expansion[spec] = 1..Len(Expansion[spec])
         /\ \A i \in 1..Len(Expansion[spec]) :
               \E mode \in NetworkModes, direction \in Directions :
                  Expansion[spec][i] = Session(spec, mode, direction)
<1> DEFINE modes == ModesOf(spec)
           directions == DirectionsOf(spec)
           size == Len(modes) * Len(directions)
<1>1. /\ Len(modes) \in 1..3 /\ Len(directions) \in 1..2
      /\ \A i \in 1..Len(modes) : modes[i] \in NetworkModes
      /\ \A i \in 1..Len(directions) : directions[i] \in Directions
      /\ Expansion[spec] = Expand(spec)
  BY Lists
<1> HIDE DEF modes, directions
<1>2. size \in Nat /\ size >= 1
  <2>1. CASE Len(directions) = 1
    <3>1. size = Len(modes) * 1
      BY <2>1
    <3>2. Len(modes) \in Nat /\ Len(modes) >= 1
      BY <1>1
    <3> HIDE DEF size
    <3> QED
      BY <3>1, <3>2
  <2>2. CASE Len(directions) = 2
    <3>1. size = Len(modes) * 2
      BY <2>2
    <3>2. Len(modes) \in Nat /\ Len(modes) >= 1
      BY <1>1
    <3> HIDE DEF size
    <3> QED
      BY <3>1, <3>2
  <2> QED
    BY <1>1, <2>1, <2>2
<1>3. \A i \in 1..size : /\ ((i - 1) \div Len(directions)) + 1 \in 1..Len(modes)
                         /\ ((i - 1) % Len(directions)) + 1 \in 1..Len(directions)
  <2>1. CASE Len(directions) = 1
    BY <1>1, <2>1
  <2>2. CASE Len(directions) = 2
    BY <1>1, <2>2
  <2> QED
    BY <1>1, <2>1, <2>2
<1>4. Expansion[spec] = [i \in 1..size |->
           Session(spec, modes[((i - 1) \div Len(directions)) + 1],
                   directions[((i - 1) % Len(directions)) + 1])]
  BY <1>1 DEF Expand, modes, directions
<1>5. Len(Expansion[spec]) = size /\ DOMAIN Expansion[spec] = 1..size
  <2> DEFINE F == Expansion[spec]
  <2>1. DOMAIN F = 1..size
    BY <1>4
  <2> HIDE DEF size
  <2>2. F \in [1..size -> Range(F)]
    BY <1>4, <2>1 DEF Range, size
  <2>3. F \in Seq(Range(F))
    BY <1>2, <2>2, SeqDef
  <2>4. Len(F) \in Nat /\ DOMAIN F = 1..Len(F)
    BY <2>3, LenProperties
  <2> HIDE DEF F
  <2>5. size \in 1..Len(F) /\ Len(F) \in Nat
    BY <1>2, <2>1, <2>4
  <2>6. Len(F) \in 1..size
    BY <1>2, <2>1, <2>4, <2>5
  <2> QED
    BY <1>2, <2>1, <2>5, <2>6 DEF F
<1>6. ASSUME NEW i \in 1..size
      PROVE  \E mode \in NetworkModes, direction \in Directions :
                Expansion[spec][i] = Session(spec, mode, direction)
  <2> DEFINE mode == modes[((i - 1) \div Len(directions)) + 1]
             direction == directions[((i - 1) % Len(directions)) + 1]
  <2>1. mode \in NetworkModes /\ direction \in Directions
    BY <1>1, <1>3
  <2>2. Expansion[spec][i] = Session(spec, mode, direction)
    BY <1>4
  <2> QED
    BY <2>1, <2>2
<1> QED
  BY <1>2, <1>5, <1>6

Sessions(spec) == Range(Expansion[spec])

LEMMA SessionFacts ==
  ASSUME NEW spec \in Expandable, NEW s \in Sessions(spec), NEW n \in Names
  PROVE  /\ \E mode \in NetworkModes, direction \in Directions : s = Session(spec, mode, direction)
         /\ SessionName(n, s) \in SessionNames /\ SessionName(n, s)[1] = n
         /\ s.execution.mode \in SessionModes
<1>1. PICK mode \in NetworkModes, direction \in Directions : s = Session(spec, mode, direction)
  BY Expanding DEF Sessions, Range
<1>2. SessionName(n, s) = <<n, mode, direction>>
  BY <1>1 DEF SessionName, Session
<1>3. <<n, mode, direction>> \in SessionNames
  BY DEF SessionNames
<1>4. s.execution.mode \in SessionModes
  BY DEF SessionModes, Sessions, Expandable
<1> QED
  BY <1>1, <1>2, <1>3, <1>4

(* Two sessions of one name are one.                                       *)
LEMMA OneSessionPerName ==
  ASSUME NEW spec \in Expandable, NEW s \in Sessions(spec), NEW t \in Sessions(spec), NEW n \in Names,
         SessionName(n, s) = SessionName(n, t)
  PROVE  s = t
<1>1. PICK mode \in NetworkModes, direction \in Directions : s = Session(spec, mode, direction)
  BY SessionFacts
<1>2. PICK mode2 \in NetworkModes, direction2 \in Directions : t = Session(spec, mode2, direction2)
  BY SessionFacts
<1>3. mode = mode2 /\ direction = direction2
  BY <1>1, <1>2 DEF SessionName, Session
<1> QED
  BY <1>1, <1>2, <1>3

(* What is patched onto an old session, or created, is as demanded.        *)
LEMMA MergedRecord ==
  ASSUME NEW mode, NEW direction, NEW source, NEW destination, NEW how, NEW every, NEW duration,
         NEW old
  PROVE  LET S(e, d) == [mode |-> mode, direction |-> direction, source |-> source,
                         destination |-> destination,
                         execution |-> [mode |-> how, every |-> e, duration |-> d]]
         IN  /\ Merged(old, S(every, duration))
                    = S(MergedField(old.execution.every, every),
                        MergedField(old.execution.duration, duration))
             /\ \A e, d : AsDemanded(S(e, d), S(every, duration)) <=>
                    /\ e = IF every = 0 THEN e ELSE every
                    /\ d = IF duration = 0 THEN d ELSE duration
<1> DEFINE S(e, d) == [mode |-> mode, direction |-> direction, source |-> source,
                       destination |-> destination,
                       execution |-> [mode |-> how, every |-> e, duration |-> d]]
<1>1. Merged(old, S(every, duration))
         = S(MergedField(old.execution.every, every), MergedField(old.execution.duration, duration))
  BY DEF Merged
<1>2. ASSUME NEW e, NEW d
      PROVE  AsDemanded(S(e, d), S(every, duration)) <=>
                S(e, d) = S(IF every = 0 THEN e ELSE every, IF duration = 0 THEN d ELSE duration)
  BY DEF AsDemanded
<1>3. \A e, d : S(e, d).execution.every = e /\ S(e, d).execution.duration = d
  OBVIOUS
<1> HIDE DEF S
<1>4. ASSUME NEW e, NEW d, NEW f, NEW g PROVE S(e, d) = S(f, g) <=> e = f /\ d = g
  BY <1>3
<1>5. \A e, d : AsDemanded(S(e, d), S(every, duration)) <=>
          e = (IF every = 0 THEN e ELSE every) /\ d = (IF duration = 0 THEN d ELSE duration)
  BY <1>2, <1>4
<1> QED
  BY <1>1, <1>5 DEF S

LEMMA MergedAsDemanded ==
  ASSUME NEW spec \in Expandable, NEW s \in Sessions(spec), NEW old
  PROVE  /\ AsDemanded(s, s) /\ AsDemanded(Merged(old, s), s)
         /\ \A n : SessionName(n, Merged(old, s)) = SessionName(n, s)
         /\ Merged(old, s).execution.mode = s.execution.mode
<1>1. PICK mode \in NetworkModes, direction \in Directions : s = Session(spec, mode, direction)
  BY Expanding DEF Sessions, Range
<1>2. PICK source, destination, how, every, duration :
         s = [mode |-> mode, direction |-> direction, source |-> source,
              destination |-> destination,
              execution |-> [mode |-> how, every |-> every, duration |-> duration]]
  BY <1>1 DEF Session, Execution
<1> DEFINE S(e, d) == [mode |-> mode, direction |-> direction, source |-> source,
                       destination |-> destination,
                       execution |-> [mode |-> how, every |-> e, duration |-> d]]
           e1 == MergedField(old.execution.every, every)
           d1 == MergedField(old.execution.duration, duration)
<1>3. /\ Merged(old, S(every, duration)) = S(e1, d1)
      /\ \A e, d : AsDemanded(S(e, d), S(every, duration)) <=>
            /\ e = IF every = 0 THEN e ELSE every
            /\ d = IF duration = 0 THEN d ELSE duration
  BY MergedRecord
<1>4. s = S(every, duration)
  BY <1>2
<1>5. /\ e1 = IF every = 0 THEN e1 ELSE every
      /\ d1 = IF duration = 0 THEN d1 ELSE duration
  BY DEF MergedField
<1>6. \A e, d : /\ S(e, d).execution.mode = how
                /\ \A n : SessionName(n, S(e, d)) = <<n, mode, direction>>
  BY DEF SessionName
<1> HIDE DEF S, e1, d1
<1>7. AsDemanded(s, s) /\ AsDemanded(Merged(old, s), s)
  BY <1>3, <1>4, <1>5
<1> QED
  BY <1>3, <1>4, <1>6, <1>7

-----------------------------------------------------------------------------
(* The steps, by whose they are.                                           *)
Mine(m) ==
    \/ Begin(m) \/ LoadProfile(m) \/ ReadNodes(m) \/ ApplySession(m) \/ ListSessions(m)
    \/ DeleteSession(m) \/ Report(m) \/ CallFails(m)
Noting(p) ==
    NoteBegins(p) \/ ListMeasurements(p) \/ PatchMeasurement(p) \/ NoteReports(p) \/ NoteFails(p)
Outside ==
    \/ \E m \in Measurements : UserCreates(m) \/ UserEdits(m) \/ UserDeletes(m)
    \/ \E p \in Profiles : UserSavesProfile(p) \/ UserRemovesProfile(p)
    \/ \E e \in Endpoints : AddressChanges(e)
    \/ \E k \in SessionNames : SessionGoes(k) \/ CollectGarbage(k)
    \/ Restart

LEMMA StepCases ==
  ASSUME [Next]_vars
  PROVE  \/ \E m \in Measurements : Mine(m)
         \/ \E p \in Profiles : Noting(p)
         \/ Outside
         \/ UNCHANGED vars
BY DEF Next, Mine, Noting, Outside, Reconcile, Note, Users

(* A pass of m changes nothing of the objects, the profiles and their      *)
(* handlers, and nothing of other measurements' passes.                    *)
LEMMA MineLeaves ==
  ASSUME Types, NEW m \in Measurements, Mine(m)
  PROVE  /\ UNCHANGED <<body, created, profile, saves, noterVars, resolvable>>
         /\ events' = events \/ (events < MaxEvents /\ events' = events + 1)
         /\ disturbed' = disturbed \/ disturbed' = disturbed \cup {NameOf[m]}
         /\ reverted' \subseteq reverted
         /\ worker' \in [Measurements -> {worker'[n] : n \in Measurements}]
         /\ \A n \in Measurements : n # m =>
               /\ worker'[n] = worker[n] /\ handled'[n] = handled[n] /\ outcome'[n] = outcome[n]
               /\ n \in resuming' <=> n \in resuming
<1>0. worker \in [Measurements -> Passes \cup {Idle}] /\ handled \in [Measurements -> SUBSET BodiesNow]
      /\ outcome \in [Measurements -> Outcomes]
  BY DEF Types, WorkerTypes, HandledTypes
<1>1. UNCHANGED <<body, created, profile, saves, noterVars, resolvable>>
  BY DEF Mine, Begin, LoadProfile, ReadNodes, ApplySession, ListSessions, DeleteSession, Report,
     CallFails, objectVars, profileVars
<1>2. events' = events \/ (events < MaxEvents /\ events' = events + 1)
  BY DEF Mine, Begin, LoadProfile, ReadNodes, ApplySession, ListSessions, DeleteSession, Report,
     CallFails, Event
<1>3. disturbed' = disturbed \/ disturbed' = disturbed \cup {NameOf[m]}
  BY DEF Mine, Begin, LoadProfile, ReadNodes, ApplySession, ListSessions, DeleteSession, Report,
     CallFails
<1>4. reverted' \subseteq reverted
  BY DEF Mine, Begin, LoadProfile, ReadNodes, ApplySession, ListSessions, DeleteSession, Report,
     CallFails
<1>5. \A n \in Measurements : n # m => worker'[n] = worker[n]
  BY <1>0 DEF Mine, Begin, LoadProfile, ReadNodes, ApplySession, ListSessions, DeleteSession, Report,
     CallFails, Ends, Raises, Goto
<1>6. DOMAIN worker' = Measurements /\ worker' = [n \in DOMAIN worker' |-> worker'[n]]
  BY <1>0 DEF Mine, Begin, LoadProfile, ReadNodes, ApplySession, ListSessions, DeleteSession, Report,
     CallFails, Ends, Raises, Goto
<1>7. \A n \in Measurements : n # m => /\ handled'[n] = handled[n] /\ outcome'[n] = outcome[n]
                                       /\ n \in resuming' <=> n \in resuming
  BY <1>0 DEF Mine, Begin, LoadProfile, ReadNodes, ApplySession, ListSessions, DeleteSession, Report,
     CallFails, Ends, Raises
<1> QED
  BY <1>1, <1>2, <1>3, <1>4, <1>5, <1>6, <1>7

LEMMA NotingLeaves ==
  ASSUME Types, NEW p \in Profiles, Noting(p)
  PROVE  /\ UNCHANGED <<created, workerVars, profileVars, resolvable, sessions, disturbed>>
         /\ events' = events \/ (events < MaxEvents /\ events' = events + 1)
         /\ ~PatchMeasurement(p) => UNCHANGED <<body, reverted>>
         /\ \A q \in Profiles : q # p => noter'[q] = noter[q] /\ noted'[q] = noted[q]
<1>0. noter \in [Profiles -> Notes \cup {Idle}] /\ noted \in [Profiles -> 0..saves]
  BY DEF Types, NoterTypes
<1>1. UNCHANGED <<created, workerVars, profileVars, resolvable, sessions, disturbed>>
  BY DEF Noting, NoteBegins, ListMeasurements, PatchMeasurement, NoteReports, NoteFails, objectVars
<1>2. events' = events \/ (events < MaxEvents /\ events' = events + 1)
  BY DEF Noting, NoteBegins, ListMeasurements, PatchMeasurement, NoteReports, NoteFails, Event
<1>3. ~PatchMeasurement(p) => UNCHANGED <<body, reverted>>
  BY DEF Noting, NoteBegins, ListMeasurements, NoteReports, NoteFails, objectVars
<1>4. \A q \in Profiles : q # p => noter'[q] = noter[q] /\ noted'[q] = noted[q]
  BY <1>0 DEF Noting, NoteBegins, ListMeasurements, PatchMeasurement, NoteReports, NoteFails
<1> QED
  BY <1>1, <1>2, <1>3, <1>4

-----------------------------------------------------------------------------
(* Types.                                                                  *)
LEMMA NotAbsent ==
  ASSUME NEW b \in BodiesNow
  PROVE  b # Absent
<1>1. DOMAIN b = {"spec", "trigger"} /\ DOMAIN Absent = {"at"}
  BY DEF BodiesNow, Absent
<1> QED
  BY <1>1

LEMMA Grows ==
  ASSUME Types, [Next]_vars
  PROVE  /\ saves \in Nat /\ saves' \in 0..MaxSaves /\ saves <= saves'
         /\ BodiesNow \subseteq BodiesNow' /\ 0..saves \subseteq 0..saves'
         /\ created \subseteq created'
<1>1. saves \in 0..MaxSaves
  BY DEF Types, ObjectTypes
<1>2. saves' = saves \/ (saves < MaxSaves /\ saves' = saves + 1)
  <2>1. CASE Outside
    BY <2>1 DEF Outside, UserCreates, UserEdits, UserDeletes, UserSavesProfile, UserRemovesProfile,
       AddressChanges, SessionGoes, CollectGarbage, Restart, profileVars
  <2> QED
    BY <2>1, StepCases, MineLeaves, NotingLeaves DEF vars, profileVars
<1>3. created \subseteq created'
  <2>1. CASE Outside
    BY <2>1 DEF Outside, UserCreates, UserEdits, UserDeletes, UserSavesProfile, UserRemovesProfile,
       AddressChanges, SessionGoes, CollectGarbage, Restart, objectVars
  <2> QED
    BY <2>1, StepCases, MineLeaves, NotingLeaves DEF vars, objectVars
<1>4. saves' \in 0..MaxSaves /\ saves <= saves' /\ 0..saves \subseteq 0..saves'
  BY <1>1, <1>2, MeasurementAssumption
<1>5. BodiesNow \subseteq BodiesNow'
  BY <1>4 DEF BodiesNow
<1> QED
  BY <1>1, <1>3, <1>4, <1>5

(* A measurement that is not the first of its name to be there.            *)
LEMMA BodiesStep ==
  ASSUME Types, [Next]_vars
  PROVE  /\ body' \in [Measurements -> BodiesNow' \cup {Absent}]
         /\ Present' \subseteq created' /\ created' \subseteq Measurements
         /\ \A m, n \in Present' : NameOf[m] = NameOf[n] => m = n
<1>0. /\ body \in [Measurements -> BodiesNow \cup {Absent}]
      /\ created \subseteq Measurements /\ Present \subseteq created
      /\ \A m, n \in Present : NameOf[m] = NameOf[n] => m = n
      /\ BodiesNow \subseteq BodiesNow' /\ created \subseteq created'
  BY Grows DEF Types, ObjectTypes
<1>1. ASSUME UNCHANGED <<body, created>>
      PROVE  /\ body' \in [Measurements -> BodiesNow' \cup {Absent}]
             /\ Present' \subseteq created' /\ created' \subseteq Measurements
             /\ \A m, n \in Present' : NameOf[m] = NameOf[n] => m = n
  <2>1. Present' = Present
    BY <1>1 DEF Present
  <2> QED
    BY <1>0, <1>1, <2>1
<1>2. ASSUME NEW p \in Profiles, PatchMeasurement(p)
      PROVE  /\ body' \in [Measurements -> BodiesNow' \cup {Absent}] /\ Present' = Present
             /\ created' = created
  <2>1. PICK n \in noter[p].todo :
           body' = [m \in Measurements |-> IF m \in {i \in Present : NameOf[i] = n}
                                           THEN [body[m] EXCEPT !.trigger = noter[p].version]
                                           ELSE body[m]]
    BY <1>2, Zenon DEF PatchMeasurement
  <2>2. noter[p].version \in 0..saves
    <3>1. noter[p].at = "patch" /\ noter[p] \in Notes \cup {Idle}
      BY <1>2 DEF PatchMeasurement, Types, NoterTypes
    <3> QED
      BY <3>1 DEF Notes, Idle
  <2>3. \A b \in BodiesNow : [b EXCEPT !.trigger = noter[p].version] \in BodiesNow
    BY <2>2 DEF BodiesNow
  <2>4. \A m \in Measurements : m \in Present <=> body[m] \in BodiesNow
    BY <1>0, NotAbsent DEF Present
  <2>5. \A m \in Measurements : /\ body[m] \in BodiesNow => body'[m] \in BodiesNow
                                /\ body[m] = Absent => body'[m] = Absent
    BY <2>1, <2>3, NotAbsent DEF Present
  <2>6. body' \in [Measurements -> BodiesNow' \cup {Absent}]
    BY <1>0, <2>1, <2>5
  <2>7. Present' = Present
    BY <1>0, <2>4, <2>5, NotAbsent DEF Present
  <2> QED
    BY <1>2, <2>6, <2>7 DEF PatchMeasurement
<1>3. ASSUME NEW m \in Measurements, UserCreates(m)
      PROVE  /\ body' \in [Measurements -> BodiesNow' \cup {Absent}]
             /\ Present' \subseteq created' /\ created' \subseteq Measurements
             /\ \A i, n \in Present' : NameOf[i] = NameOf[n] => i = n
  <2>1. PICK s \in UserSpecs : body' = [body EXCEPT ![m] = [spec |-> s, trigger |-> 0]]
    BY <1>3, Zenon DEF UserCreates
  <2>2. [spec |-> s, trigger |-> 0] \in BodiesNow
    BY Grows DEF BodiesNow
  <2>3. body' \in [Measurements -> BodiesNow' \cup {Absent}] /\ Present' \subseteq Present \cup {m}
    BY <1>0, <2>1, <2>2 DEF Present
  <2>4. created' = created \cup {m} /\ \A n \in Present : NameOf[n] # NameOf[m]
    BY <1>3 DEF UserCreates
  <2> QED
    BY <1>0, <2>3, <2>4
<1>4. ASSUME NEW m \in Measurements, UserEdits(m) \/ UserDeletes(m)
      PROVE  body' \in [Measurements -> BodiesNow' \cup {Absent}] /\ Present' \subseteq Present
  <2>1. m \in Present /\ body[m] \in BodiesNow
    BY <1>0, <1>4, NotAbsent DEF UserEdits, UserDeletes, Present
  <2>2. PICK b \in BodiesNow \cup {Absent} : body' = [body EXCEPT ![m] = b]
    <3>1. CASE UserEdits(m)
      <4>1. PICK s \in UserSpecs : body' = [body EXCEPT ![m].spec = s]
        BY <3>1, Zenon DEF UserEdits
      <4>2. [body[m] EXCEPT !.spec = s] \in BodiesNow
        BY <2>1 DEF BodiesNow
      <4> QED
        BY <4>1, <4>2
    <3>2. CASE UserDeletes(m)
      BY <3>2 DEF UserDeletes
    <3> QED
      BY <1>4, <3>1, <3>2
  <2> QED
    BY <1>0, <2>1, <2>2 DEF Present
<1>5. ASSUME Outside
      PROVE  \/ UNCHANGED <<body, created>>
             \/ \E m \in Measurements : UserCreates(m)
             \/ created' = created /\ \E m \in Measurements : UserEdits(m) \/ UserDeletes(m)
  BY <1>5 DEF Outside, UserEdits, UserDeletes, UserSavesProfile, UserRemovesProfile,
     AddressChanges, SessionGoes, CollectGarbage, Restart, objectVars
<1>6. CASE Outside
  BY <1>0, <1>1, <1>3, <1>4, <1>5, <1>6
<1>7. CASE \E p \in Profiles : Noting(p)
  BY <1>0, <1>1, <1>2, <1>7, NotingLeaves
<1>8. CASE \E m \in Measurements : Mine(m)
  BY <1>1, <1>8, MineLeaves
<1>9. CASE UNCHANGED vars
  BY <1>1, <1>9 DEF vars, objectVars
<1> QED
  BY <1>6, <1>7, <1>8, <1>9, StepCases

LEMMA ObjectStep ==
  ASSUME Types, [Next]_vars
  PROVE  ObjectTypes'
<1>0. /\ resolvable \subseteq Endpoints /\ events \in 0..MaxEvents
      /\ disturbed \subseteq Names /\ reverted \subseteq Measurements
  BY DEF Types, ObjectTypes
<1>1. /\ events' = events \/ (events < MaxEvents /\ events' = events + 1)
      /\ disturbed' \subseteq Names
      /\ resolvable' \subseteq Endpoints
      /\ reverted' \subseteq Measurements
  <2>1. CASE \E m \in Measurements : Mine(m)
    <3>1. \A m \in Measurements : NameOf[m] \in Names
      BY DEF Names
    <3> QED
      BY <1>0, <2>1, <3>1, MineLeaves
  <2>2. CASE \E p \in Profiles : Noting(p)
    <3>1. PICK p \in Profiles : Noting(p)
      BY <2>2
    <3>2. PatchMeasurement(p) => reverted' \subseteq Measurements
      BY DEF PatchMeasurement, BodiesChange
    <3> QED
      BY <1>0, <3>1, <3>2, NotingLeaves
  <2>3. CASE Outside
    <3>1. events' = events \/ (events < MaxEvents /\ events' = events + 1)
      BY <2>3 DEF Outside, UserCreates, UserEdits, UserDeletes, UserSavesProfile, UserRemovesProfile,
         AddressChanges, SessionGoes, CollectGarbage, Restart, Event
    <3>2. disturbed' = disturbed
      BY <2>3 DEF Outside, UserCreates, UserEdits, UserDeletes, UserSavesProfile, UserRemovesProfile,
         AddressChanges, SessionGoes, CollectGarbage, Restart
    <3>3. resolvable' \subseteq Endpoints
      BY <1>0, <2>3 DEF Outside, UserCreates, UserEdits, UserDeletes, UserSavesProfile,
         UserRemovesProfile, AddressChanges, SessionGoes, CollectGarbage, Restart
    <3>4. reverted' \subseteq Measurements
      BY <1>0, <2>3 DEF Outside, UserCreates, UserEdits, UserDeletes, UserSavesProfile,
         UserRemovesProfile, AddressChanges, SessionGoes, CollectGarbage, Restart, BodiesChange
    <3> QED
      BY <1>0, <3>1, <3>2, <3>3, <3>4
  <2>4. CASE UNCHANGED vars
    BY <1>0, <2>4 DEF vars
  <2> QED
    BY <2>1, <2>2, <2>3, <2>4, StepCases
<1>2. events' \in 0..MaxEvents
  BY <1>0, <1>1, MeasurementAssumption
<1> QED
  BY <1>1, <1>2, BodiesStep, Grows DEF ObjectTypes


-----------------------------------------------------------------------------
(* A pass, moved on.                                                       *)
Moved(m, at, version, done, todo) ==
    [at |-> at, body |-> worker[m].body, version |-> version, done |-> done, todo |-> todo]

LEMMA PassFacts ==
  ASSUME Types, NEW m \in Measurements, Running(m)
  PROVE  /\ worker[m] \in Passes /\ PassTypes(m)
         /\ worker[m].at \in Steps /\ worker[m].body \in BodiesNow
         /\ worker[m].version \in 0..saves /\ worker[m].done \in Nat
         /\ worker[m].todo \subseteq SessionNames
         /\ worker[m].body.spec.profileRef \in Profiles /\ worker[m].body.spec \in UserSpecs
<1>1. worker[m] \in Passes /\ PassTypes(m)
  BY DEF Types, WorkerTypes, Running, Idle
<1>2. /\ worker[m].at \in Steps /\ worker[m].body \in BodiesNow
      /\ worker[m].version \in 0..saves /\ worker[m].done \in Nat
      /\ worker[m].todo \subseteq SessionNames
  BY <1>1 DEF Passes
<1>3. worker[m].body.spec \in UserSpecs
  BY <1>2 DEF BodiesNow
<1> QED
  BY <1>1, <1>2, <1>3, MeasurementAssumption

LEMMA Moves ==
  ASSUME Types, NEW m \in Measurements
  PROVE  LET w == worker[m]
             v == profile[w.body.spec.profileRef]
         IN  /\ Begin(m) =>
                   worker'[m] = [at |-> "load", body |-> body[m], version |-> 0, done |-> 0, todo |-> {}]
             /\ LoadProfile(m) =>
                   worker'[m] = IF v = 0 THEN Idle ELSE Moved(m, "nodes", v, w.done, w.todo)
             /\ ReadNodes(m) =>
                   \/ worker'[m] = Idle
                   \/ /\ worker'[m] = Moved(m, "apply", w.version, w.done, w.todo)
                      /\ w.body.spec \in Expandable
             /\ ApplySession(m) =>
                   worker'[m] = Moved(m, IF w.done + 1 = Len(Wanted(m)) THEN "list" ELSE "apply",
                                      w.version, w.done + 1, w.todo)
             /\ ListSessions(m) =>
                   worker'[m] = Moved(m, IF Labelled(m) \ WantedNames(m) = {} THEN "report" ELSE "delete",
                                      w.version, w.done, Labelled(m) \ WantedNames(m))
             /\ DeleteSession(m) =>
                   \E k \in w.todo :
                      /\ worker'[m] = Moved(m, IF w.todo = {k} THEN "report" ELSE "delete",
                                            w.version, w.done, w.todo \ {k})
                      /\ sessions' = Leave(k)
             /\ Report(m) \/ CallFails(m) => worker'[m] = Idle
<1>0. worker \in [Measurements -> Passes \cup {Idle}]
  BY DEF Types, WorkerTypes
<1>1. ASSUME Running(m)
      PROVE  worker[m] = Moved(m, worker[m].at, worker[m].version, worker[m].done, worker[m].todo)
  <2>1. worker[m] \in Passes
    BY <1>1, PassFacts
  <2> QED
    BY <2>1 DEF Passes, Moved
<1>2. Begin(m) => worker'[m] = [at |-> "load", body |-> body[m], version |-> 0, done |-> 0, todo |-> {}]
  BY <1>0 DEF Begin
<1>3. ASSUME LoadProfile(m)
      PROVE  LET v == profile[worker[m].body.spec.profileRef]
             IN worker'[m] = IF v = 0 THEN Idle ELSE Moved(m, "nodes", v, worker[m].done, worker[m].todo)
  <2> DEFINE v == profile[worker[m].body.spec.profileRef]
  <2>1. worker[m].at = "load" /\ Running(m)
    BY <1>3 DEF LoadProfile, Running
  <2>2. IF v = 0 THEN Ends(m, "noProfile")
        ELSE worker' = [worker EXCEPT ![m].at = "nodes", ![m].version = v]
    BY <1>3 DEF LoadProfile
  <2>3. CASE v = 0
    BY <1>0, <2>2, <2>3 DEF Ends
  <2>4. CASE v # 0
    BY <1>0, <1>1, <2>1, <2>2, <2>4 DEF Moved
  <2> QED
    BY <2>3, <2>4
<1>4. ASSUME ReadNodes(m)
      PROVE  \/ worker'[m] = Idle
             \/ /\ worker'[m] = Moved(m, "apply", worker[m].version, worker[m].done, worker[m].todo)
                /\ worker[m].body.spec \in Expandable
  <2>1. worker[m].at = "nodes" /\ Running(m)
    BY <1>4 DEF ReadNodes, Running
  <2>2. \/ Ends(m, "unresolved") \/ Raises(m)
        \/ Goto(m, "apply") /\ worker[m].body.spec \in Expandable
    BY <1>4 DEF ReadNodes, Expandable
  <2> QED
    BY <1>0, <1>1, <2>1, <2>2 DEF Ends, Raises, Goto, Moved
<1>5. ASSUME ApplySession(m)
      PROVE  worker'[m] = Moved(m, IF worker[m].done + 1 = Len(Wanted(m)) THEN "list" ELSE "apply",
                                worker[m].version, worker[m].done + 1, worker[m].todo)
  <2>1. worker[m].at = "apply" /\ Running(m)
    BY <1>5 DEF ApplySession, Running
  <2>2. worker' = [worker EXCEPT
          ![m].done = @ + 1,
          ![m].at = IF worker[m].done + 1 = Len(Wanted(m)) THEN "list" ELSE "apply"]
    BY <1>5 DEF ApplySession
  <2> QED
    BY <1>0, <1>1, <2>1, <2>2 DEF Moved
<1>6. ASSUME ListSessions(m)
      PROVE  worker'[m] = Moved(m, IF Labelled(m) \ WantedNames(m) = {} THEN "report" ELSE "delete",
                                worker[m].version, worker[m].done, Labelled(m) \ WantedNames(m))
  <2>1. worker[m].at = "list" /\ Running(m)
    BY <1>6 DEF ListSessions, Running
  <2> DEFINE stale == Labelled(m) \ WantedNames(m)
  <2>2. worker' = [worker EXCEPT ![m].todo = stale,
                                 ![m].at = IF stale = {} THEN "report" ELSE "delete"]
    BY <1>6 DEF ListSessions
  <2> QED
    BY <1>0, <1>1, <2>1, <2>2 DEF Moved
<1>7. ASSUME DeleteSession(m)
      PROVE  \E k \in worker[m].todo :
                /\ worker'[m] = Moved(m, IF worker[m].todo = {k} THEN "report" ELSE "delete",
                                      worker[m].version, worker[m].done, worker[m].todo \ {k})
                /\ sessions' = Leave(k)
  <2>1. worker[m].at = "delete" /\ Running(m)
    BY <1>7 DEF DeleteSession, Running
  <2>2. PICK k \in worker[m].todo :
          /\ sessions' = Leave(k)
          /\ worker' = [worker EXCEPT
                ![m].todo = @ \ {k},
                ![m].at = IF worker[m].todo = {k} THEN "report" ELSE "delete"]
    BY <1>7, Zenon DEF DeleteSession
  <2> QED
    BY <1>0, <1>1, <2>1, <2>2 DEF Moved
<1>8. Report(m) \/ CallFails(m) => worker'[m] = Idle
  BY <1>0 DEF Report, CallFails, Ends, Raises
<1> QED
  BY <1>2, <1>3, <1>4, <1>5, <1>6, <1>7, <1>8

(* How a pass leaves what is noted of its end.                             *)
LEMMA Endings ==
  ASSUME Types, NEW m \in Measurements, Mine(m)
  PROVE  \/ Running(m)' /\ UNCHANGED <<handled, resuming, outcome>>
         \/ Running(m) /\ \E how \in Outcomes : Ends(m, how) /\ (how = "ready" => Report(m))
         \/ Raises(m)
<1>1. CASE Begin(m) \/ ApplySession(m) \/ ListSessions(m) \/ DeleteSession(m)
  <2>1. UNCHANGED <<handled, resuming, outcome>>
    BY <1>1 DEF Begin, ApplySession, ListSessions, DeleteSession
  <2>2. worker'[m].at \in Steps
    <3>1. CASE Begin(m)
      <4>1. worker'[m] = [at |-> "load", body |-> body[m], version |-> 0, done |-> 0, todo |-> {}]
        BY <3>1, Moves
      <4> QED
        BY <4>1 DEF Steps
    <3>2. CASE ApplySession(m)
      <4>1. \E at \in {"list", "apply"} :
               worker'[m] = Moved(m, at, worker[m].version, worker[m].done + 1, worker[m].todo)
        BY <3>2, Moves
      <4> QED
        BY <4>1 DEF Moved, Steps
    <3>3. CASE ListSessions(m)
      <4>1. \E at \in {"report", "delete"} :
               worker'[m] = Moved(m, at, worker[m].version, worker[m].done, Labelled(m) \ WantedNames(m))
        BY <3>3, Moves
      <4> QED
        BY <4>1 DEF Moved, Steps
    <3>4. CASE DeleteSession(m)
      <4>1. \E at \in {"report", "delete"}, k \in worker[m].todo :
               worker'[m] = Moved(m, at, worker[m].version, worker[m].done, worker[m].todo \ {k})
        BY <3>4, Moves
      <4> QED
        BY <4>1 DEF Moved, Steps
    <3> QED
      BY <1>1, <3>1, <3>2, <3>3, <3>4
  <2> QED
    BY <2>1, <2>2 DEF Running, Steps
<1>2. CASE LoadProfile(m)
  <2> DEFINE v == profile[worker[m].body.spec.profileRef]
  <2>1. worker'[m] = IF v = 0 THEN Idle ELSE Moved(m, "nodes", v, worker[m].done, worker[m].todo)
    BY <1>2, Moves
  <2> QED
    BY <1>2, <2>1 DEF LoadProfile, Running, Outcomes, Moved
<1>3. CASE ReadNodes(m)
  <2>1. \/ Ends(m, "unresolved") \/ Raises(m)
        \/ Goto(m, "apply") /\ UNCHANGED <<handled, resuming, outcome>>
    BY <1>3 DEF ReadNodes
  <2>2. CASE Goto(m, "apply") /\ UNCHANGED <<handled, resuming, outcome>>
    <3>1. worker'[m] # Idle
      <4>1. worker'[m] = [worker[m] EXCEPT !.at = "apply"] /\ worker[m] \in Passes
        BY <1>3, <2>2, PassFacts DEF Goto, ReadNodes, Running, Types, WorkerTypes
      <4> QED
        BY <4>1 DEF Passes, Idle
    <3>2. worker'[m] = Moved(m, "apply", worker[m].version, worker[m].done, worker[m].todo)
      BY <1>3, <3>1, Moves
    <3> QED
      BY <2>2, <3>2 DEF Moved, Running
  <2> QED
    BY <1>3, <2>1, <2>2 DEF ReadNodes, Running, Outcomes
<1>4. CASE Report(m)
  BY <1>4 DEF Report, Running, Outcomes
<1>5. CASE CallFails(m)
  BY <1>5 DEF CallFails
<1> QED
  BY <1>1, <1>2, <1>3, <1>4, <1>5 DEF Mine

LEMMA HandledStep ==
  ASSUME Types, [Next]_vars
  PROVE  HandledTypes'
<1>0. /\ handled \in [Measurements -> SUBSET BodiesNow]
      /\ \A m \in Measurements :
          /\ handled[m] = {} \/ \E b \in BodiesNow : handled[m] = {b}
          /\ m \notin created => handled[m] = {}
      /\ resuming \subseteq Measurements
      /\ outcome \in [Measurements -> Outcomes]
      /\ BodiesNow \subseteq BodiesNow' /\ created \subseteq created' /\ Present \subseteq created
      /\ Present \subseteq Measurements
  BY Grows DEF Types, HandledTypes, ObjectTypes, Present
<1>1. CASE UNCHANGED <<handled, resuming, outcome>>
  BY <1>0, <1>1 DEF HandledTypes
<1>2. ASSUME NEW m \in Measurements, NEW how \in Outcomes, Running(m), Ends(m, how)
      PROVE  HandledTypes'
  <2>1. worker[m].body \in BodiesNow
    BY <1>2, PassFacts
  <2>2. CASE m \in Present
    <3>1. /\ handled' = [handled EXCEPT ![m] = {worker[m].body}]
          /\ resuming' = resuming \ {m}
          /\ outcome' = [outcome EXCEPT ![m] = how]
      BY <1>2, <2>2 DEF Ends
    <3> QED
      BY <1>0, <2>1, <2>2, <3>1 DEF HandledTypes
  <2>3. CASE m \notin Present
    BY <1>1, <1>2, <2>3 DEF Ends
  <2> QED
    BY <2>2, <2>3
<1>3. ASSUME NEW m \in Measurements, Raises(m)
      PROVE  HandledTypes'
  <2>1. outcome' \in [Measurements -> Outcomes] /\ UNCHANGED <<handled, resuming>>
    BY <1>0, <1>3 DEF Raises, Outcomes
  <2> QED
    BY <1>0, <2>1 DEF HandledTypes
<1>4. ASSUME NEW m \in Measurements, UserDeletes(m)
      PROVE  HandledTypes'
  <2>1. /\ handled' = [handled EXCEPT ![m] = {}]
        /\ outcome' = [outcome EXCEPT ![m] = "none"]
        /\ resuming' = resuming \ {m}
    BY <1>4 DEF UserDeletes
  <2> QED
    BY <1>0, <2>1 DEF HandledTypes, Outcomes
<1>5. CASE Restart
  BY <1>0, <1>5 DEF Restart, HandledTypes
<1>6. ASSUME Outside
      PROVE  \/ UNCHANGED <<handled, resuming, outcome>>
             \/ \E m \in Measurements : UserDeletes(m)
             \/ Restart
  BY <1>6 DEF Outside, UserCreates, UserEdits, UserSavesProfile, UserRemovesProfile,
     AddressChanges, SessionGoes, CollectGarbage, workerVars
<1>7. CASE \E m \in Measurements : Mine(m)
  BY <1>1, <1>2, <1>3, <1>7, Endings
<1>8. CASE \E p \in Profiles : Noting(p)
  BY <1>1, <1>8, NotingLeaves DEF workerVars
<1>9. CASE Outside
  BY <1>1, <1>4, <1>5, <1>6, <1>9
<1>10. CASE UNCHANGED vars
  BY <1>1, <1>10 DEF vars, workerVars
<1> QED
  BY <1>7, <1>8, <1>9, <1>10, StepCases

LEMMA WorkerStep ==
  ASSUME Types, [Next]_vars
  PROVE  WorkerTypes'
<1>0. /\ worker \in [Measurements -> Passes \cup {Idle}]
      /\ Passes \subseteq Passes' /\ created \subseteq created' /\ Present \subseteq created
      /\ body \in [Measurements -> BodiesNow \cup {Absent}]
      /\ saves \in Nat /\ profile \in [Profiles -> 0..saves]
  BY Grows DEF Types, WorkerTypes, Passes, ObjectTypes, NoterTypes
<1>1. ASSUME NEW m \in Measurements, worker'[m] = worker[m]
      PROVE  Running(m)' => worker'[m] \in Passes /\ PassTypes(m)'
  BY <1>0, <1>1, PassFacts DEF Running, PassTypes, Wanted
<1>2. CASE UNCHANGED worker
  BY <1>0, <1>1, <1>2 DEF WorkerTypes
<1>3. ASSUME NEW m \in Measurements, Mine(m)
      PROVE  worker'[m] = Idle \/ (worker'[m] \in Passes /\ PassTypes(m)')
  <2> DEFINE w == worker[m]
  <2>1. CASE Begin(m)
    <3>1. /\ worker'[m] = [at |-> "load", body |-> body[m], version |-> 0, done |-> 0, todo |-> {}]
          /\ m \in Present
      BY <2>1, Moves DEF Begin, Due
    <3>2. body[m] \in BodiesNow /\ m \in created'
      BY <1>0, <3>1 DEF Present
    <3> QED
      BY <1>0, <3>1, <3>2 DEF Passes, PassTypes, Placing, Steps
  <2>2. CASE LoadProfile(m)
    <3> DEFINE v == profile[w.body.spec.profileRef]
    <3>1. w.at = "load" /\ Running(m) /\ (worker'[m] = IF v = 0 THEN Idle ELSE Moved(m, "nodes", v, w.done, w.todo))
      BY <2>2, Moves DEF LoadProfile, Running
    <3>2. v \in 0..saves
      BY <1>0, <3>1, PassFacts
    <3> QED
      BY <1>0, <3>1, <3>2, PassFacts DEF Passes, PassTypes, Placing, Steps, Moved
  <2>3. CASE ReadNodes(m)
    <3>1. w.at = "nodes" /\ Running(m)
      BY <2>3 DEF ReadNodes, Running
    <3>2. CASE worker'[m] = Moved(m, "apply", w.version, w.done, w.todo) /\ w.body.spec \in Expandable
      <4>1. Wanted(m)' = Expansion[w.body.spec] /\ Len(Expansion[w.body.spec]) >= 1
            /\ Len(Expansion[w.body.spec]) \in Nat
        BY <3>2, Expanding DEF Wanted, Moved
      <4>2. w.done = 0 /\ w.version > 0 /\ \A k \in w.todo : k[1] = NameOf[m]
        BY <3>1, PassFacts DEF PassTypes
      <4> QED
        BY <1>0, <3>1, <3>2, <4>1, <4>2, PassFacts DEF Passes, PassTypes, Placing, Steps, Moved, Expandable
    <3> QED
      BY <2>3, <3>2, Moves
  <2>4. CASE ApplySession(m)
    <3>1. w.at = "apply" /\ Running(m)
      BY <2>4 DEF ApplySession, Running
    <3>2. worker'[m] = Moved(m, IF w.done + 1 = Len(Wanted(m)) THEN "list" ELSE "apply",
                                w.version, w.done + 1, w.todo)
      BY <2>4, Moves
    <3>3. Wanted(m)' = Wanted(m) /\ Len(Wanted(m)) \in Nat /\ w.done < Len(Wanted(m))
      BY <3>1, <3>2, PassFacts, Expanding DEF Wanted, Moved, PassTypes, Placing, Expandable
    <3> QED
      BY <1>0, <3>1, <3>2, <3>3, PassFacts DEF Passes, PassTypes, Placing, Steps, Moved
  <2>5. CASE ListSessions(m)
    <3>1. w.at = "list" /\ Running(m)
      BY <2>5 DEF ListSessions, Running
    <3>2. PICK next \in {"report", "delete"} :
             worker'[m] = Moved(m, next, w.version, w.done, Labelled(m) \ WantedNames(m))
      BY <2>5, Moves
    <3>3. \A k \in Labelled(m) : k \in SessionNames /\ k[1] = NameOf[m]
      BY DEF Labelled
    <3> QED
      BY <1>0, <3>1, <3>2, <3>3, PassFacts DEF Passes, PassTypes, Placing, Steps, Moved
  <2>6. CASE DeleteSession(m)
    <3>1. w.at = "delete" /\ Running(m)
      BY <2>6 DEF DeleteSession, Running
    <3>2. PICK next \in {"report", "delete"}, k \in w.todo :
             worker'[m] = Moved(m, next, w.version, w.done, w.todo \ {k})
      BY <2>6, Moves
    <3> QED
      BY <1>0, <3>1, <3>2, PassFacts DEF Passes, PassTypes, Placing, Steps, Moved
  <2>7. CASE Report(m) \/ CallFails(m)
    BY <2>7, Moves
  <2> QED
    BY <1>3, <2>1, <2>2, <2>3, <2>4, <2>5, <2>6, <2>7 DEF Mine
<1>4. CASE \E m \in Measurements : Mine(m)
  <2>1. PICK m \in Measurements : Mine(m)
    BY <1>4
  <2>2. DOMAIN worker' = Measurements /\ worker' = [n \in DOMAIN worker' |-> worker'[n]]
    BY <2>1, MineLeaves
  <2>3. \A n \in Measurements : n # m => worker'[n] = worker[n]
    BY <2>1, MineLeaves
  <2>4. ASSUME NEW n \in Measurements
        PROVE  /\ worker'[n] \in Passes' \cup {Idle}
               /\ Running(n)' => PassTypes(n)'
    <3>1. CASE n = m
      BY <1>0, <1>3, <2>1, <3>1 DEF Running, Idle
    <3>2. CASE n # m
      BY <1>0, <1>1, <2>3, <3>2
    <3> QED
      BY <3>1, <3>2
  <2> QED
    BY <2>2, <2>4 DEF WorkerTypes
<1>5. CASE \E p \in Profiles : Noting(p)
  BY <1>2, <1>5, NotingLeaves DEF workerVars
<1>6. CASE Outside
  <2>1. CASE Restart
    <3>1. worker' = [m \in Measurements |-> Idle]
      BY <2>1 DEF Restart
    <3> QED
      BY <3>1 DEF WorkerTypes, Running, Idle
  <2>2. CASE ~Restart
    BY <1>2, <1>6, <2>2 DEF Outside, UserCreates, UserEdits, UserDeletes, UserSavesProfile,
       UserRemovesProfile, AddressChanges, SessionGoes, CollectGarbage, workerVars
  <2> QED
    BY <2>1, <2>2
<1>7. CASE UNCHANGED vars
  BY <1>2, <1>7 DEF vars, workerVars
<1> QED
  BY <1>4, <1>5, <1>6, <1>7, StepCases

LEMMA NoterStep ==
  ASSUME Types, [Next]_vars
  PROVE  NoterTypes'
<1>0. /\ profile \in [Profiles -> 0..saves] /\ noted \in [Profiles -> 0..saves]
      /\ renoting \subseteq Profiles
      /\ noter \in [Profiles -> Notes \cup {Idle}]
      /\ saves \in Nat /\ saves' \in Nat /\ saves <= saves'
      /\ 0..saves \subseteq 0..saves'
  BY Grows, MeasurementAssumption DEF Types, NoterTypes
<1>1. Notes \subseteq Notes'
  BY <1>0 DEF Notes
<1>2. CASE UNCHANGED <<profile, noterVars>>
  BY <1>0, <1>1, <1>2 DEF NoterTypes, noterVars
<1>3. ASSUME NEW p \in Profiles, Noting(p)
      PROVE  NoterTypes'
  <2>1. profile' = profile
    BY <1>3, NotingLeaves DEF profileVars
  <2>2. noted' \in [Profiles -> 0..saves] /\ renoting' \subseteq Profiles
    <3>1. CASE NoteReports(p)
      <4>1. noter[p] \in Notes
        BY <1>0, <3>1 DEF NoteReports, Idle
      <4>2. noter[p].version \in 0..saves
        BY <4>1 DEF Notes
      <4> QED
        BY <1>0, <3>1, <4>2 DEF NoteReports
    <3>2. CASE ~NoteReports(p)
      BY <1>0, <1>3, <3>2 DEF Noting, NoteBegins, ListMeasurements, PatchMeasurement, NoteFails
    <3> QED
      BY <3>1, <3>2
  <2>3. noter' \in [Profiles -> Notes \cup {Idle}]
    <3>1. CASE NoteBegins(p)
      <4>1. [at |-> "list", version |-> profile[p], todo |-> {}] \in Notes
        BY <1>0 DEF Notes
      <4> QED
        BY <1>0, <3>1, <4>1 DEF NoteBegins
    <3>2. CASE ListMeasurements(p)
      <4> DEFINE naming == {NameOf[m] : m \in {n \in Present : body[n].spec.profileRef = p}}
      <4>1. noter' = [noter EXCEPT ![p].todo = naming,
                                   ![p].at = IF naming = {} THEN "report" ELSE "patch"]
        BY <3>2 DEF ListMeasurements
      <4>2. naming \subseteq Names
        BY DEF Names, Present
      <4>3. noter[p] \in Notes
        BY <1>0, <3>2 DEF ListMeasurements, Idle
      <4> HIDE DEF naming
      <4> QED
        BY <1>0, <4>1, <4>2, <4>3 DEF Notes
    <3>3. CASE PatchMeasurement(p)
      <4>1. noter[p] \in Notes
        BY <1>0, <3>3 DEF PatchMeasurement, Idle
      <4>2. PICK n \in noter[p].todo :
               \/ noter' = [noter EXCEPT ![p] = Idle]
               \/ noter' = [noter EXCEPT ![p].todo = @ \ {n},
                                         ![p].at = IF noter[p].todo = {n} THEN "report" ELSE "patch"]
        BY <3>3, Zenon DEF PatchMeasurement
      <4> QED
        BY <1>0, <4>1, <4>2 DEF Notes
    <3>4. CASE NoteReports(p) \/ NoteFails(p)
      BY <1>0, <3>4 DEF NoteReports, NoteFails
    <3> QED
      BY <1>3, <3>1, <3>2, <3>3, <3>4 DEF Noting
  <2> QED
    BY <1>0, <1>1, <2>1, <2>2, <2>3 DEF NoterTypes
<1>4. ASSUME NEW p \in Profiles, UserSavesProfile(p)
      PROVE  NoterTypes'
  <2>1. profile' = [profile EXCEPT ![p] = saves'] /\ UNCHANGED noterVars
    BY <1>4 DEF UserSavesProfile
  <2> QED
    BY <1>0, <1>1, <2>1 DEF NoterTypes, noterVars
<1>5. ASSUME NEW p \in Profiles, UserRemovesProfile(p)
      PROVE  NoterTypes'
  <2>1. /\ profile' = [profile EXCEPT ![p] = 0] /\ noted' = [noted EXCEPT ![p] = 0]
        /\ renoting' = renoting \ {p} /\ noter' = noter
    BY <1>5 DEF UserRemovesProfile
  <2> QED
    BY <1>0, <1>1, <2>1 DEF NoterTypes
<1>6. ASSUME Restart
      PROVE  NoterTypes'
  <2>1. /\ profile' = profile /\ noted' = noted /\ renoting' \subseteq Profiles
        /\ noter' = [p \in Profiles |-> Idle]
    BY <1>6 DEF Restart, profileVars
  <2> QED
    BY <1>0, <2>1 DEF NoterTypes
<1>7. CASE Outside
  BY <1>2, <1>4, <1>5, <1>6, <1>7 DEF Outside, UserCreates, UserEdits, UserDeletes,
     AddressChanges, SessionGoes, CollectGarbage, profileVars
<1>8. CASE \E m \in Measurements : Mine(m)
  BY <1>2, <1>8, MineLeaves
<1>9. CASE UNCHANGED vars
  BY <1>2, <1>9 DEF vars, profileVars
<1> QED
  BY <1>3, <1>7, <1>8, <1>9, StepCases

-----------------------------------------------------------------------------
(* The sessions.                                                           *)
SessionType(s, k) ==
    /\ DOMAIN s = {"at", "owner", "version", "spec"}
    /\ s.at \in {"live", "leaving"}
    /\ s.owner \in created /\ NameOf[s.owner] = k[1]
    /\ s.version \in 1..saves
    /\ SessionName(k[1], s.spec) = k
    /\ s.spec.execution.mode \in SessionModes

LEMMA SessionTypesAre ==
  SessionTypes <=> /\ DOMAIN sessions = SessionNames
                   /\ \A k \in SessionNames : sessions[k] # Absent => SessionType(sessions[k], k)
BY DEF SessionTypes, SessionType

LEMMA TypedIsThere ==
  ASSUME NEW s, NEW k, SessionType(s, k)
  PROVE  s # Absent
<1>1. s.at \in {"live", "leaving"} /\ Absent.at = "absent"
  BY DEF SessionType, Absent
<1> QED
  BY <1>1

(* What one step of a pass wants next.                                     *)
LEMMA NextWanted ==
  ASSUME Types, NEW m \in Measurements, ApplySession(m)
  PROVE  LET wanted == Wanted(m)[worker[m].done + 1]
             k == SessionName(NameOf[m], wanted)
         IN  /\ Running(m) /\ worker[m].at = "apply" /\ worker[m].body.spec \in Expandable
             /\ worker[m].done + 1 \in 1..Len(Wanted(m)) /\ Len(Wanted(m)) \in Nat
             /\ DOMAIN Wanted(m) = 1..Len(Wanted(m))
             /\ wanted \in Sessions(worker[m].body.spec)
             /\ k \in SessionNames /\ k[1] = NameOf[m]
             /\ sessions' = [sessions EXCEPT ![k] = Applied(m, wanted)]
             /\ disturbed' = IF sessions[k].at = "leaving" \/ m \notin Present
                             THEN disturbed \cup {NameOf[m]} ELSE disturbed
<1> DEFINE wanted == Wanted(m)[worker[m].done + 1]
           k == SessionName(NameOf[m], wanted)
<1>1. Running(m) /\ worker[m].at = "apply"
  BY DEF ApplySession, Running
<1>2. worker[m].body.spec \in Expandable /\ worker[m].done \in Nat /\ worker[m].done < Len(Wanted(m))
  BY <1>1, PassFacts DEF PassTypes, Placing, Expandable
<1>3. Len(Wanted(m)) \in Nat /\ DOMAIN Wanted(m) = 1..Len(Wanted(m))
  BY <1>2, Expanding DEF Wanted
<1>4. worker[m].done + 1 \in 1..Len(Wanted(m))
  BY <1>2, <1>3
<1>5. wanted \in Sessions(worker[m].body.spec)
  BY <1>3, <1>4 DEF Sessions, Range, Wanted
<1>6. k \in SessionNames /\ k[1] = NameOf[m]
  <2>1. NameOf[m] \in Names
    BY DEF Names
  <2> QED
    BY <1>2, <1>5, <2>1, SessionFacts
<1>7. /\ sessions' = [sessions EXCEPT ![k] = Applied(m, wanted)]
      /\ disturbed' = IF sessions[k].at = "leaving" \/ m \notin Present
                      THEN disturbed \cup {NameOf[m]} ELSE disturbed
  BY DEF ApplySession
<1> QED
  BY <1>1, <1>2, <1>3, <1>4, <1>5, <1>6, <1>7

LEMMA AppliedFacts ==
  ASSUME Types, NEW m \in Measurements, ApplySession(m)
  PROVE  LET wanted == Wanted(m)[worker[m].done + 1]
             k == SessionName(NameOf[m], wanted)
             new == Applied(m, wanted)
         IN  /\ SessionType(new, k)
             /\ new.owner = m /\ new.version = worker[m].version
             /\ AsDemanded(new.spec, wanted)
             /\ new.at = IF sessions[k].at = "leaving" THEN "leaving" ELSE "live"
<1> DEFINE wanted == Wanted(m)[worker[m].done + 1]
           k == SessionName(NameOf[m], wanted)
           new == Applied(m, wanted)
<1>1. /\ Running(m) /\ worker[m].at = "apply" /\ worker[m].body.spec \in Expandable
      /\ wanted \in Sessions(worker[m].body.spec) /\ k \in SessionNames /\ k[1] = NameOf[m]
  BY NextWanted
<1>2. worker[m].version \in 1..saves /\ m \in created
  <2>1. worker[m].version \in 0..saves /\ worker[m].version > 0 /\ m \in created
    BY <1>1, PassFacts DEF PassTypes
  <2>2. saves \in Nat
    BY DEF Types, ObjectTypes
  <2> QED
    BY <2>1, <2>2
<1>3. sessions[k] = Absent \/ (sessions[k] # Absent /\ sessions[k].at \in {"live", "leaving"})
  BY <1>1, SessionTypesAre DEF Types, SessionType
<1>4. Absent.at = "absent"
  BY DEF Absent
<1>5. /\ DOMAIN new = {"at", "owner", "version", "spec"}
      /\ new.owner = m /\ new.version = worker[m].version
      /\ new.at = IF sessions[k] = Absent THEN "live" ELSE sessions[k].at
      /\ new.spec = IF sessions[k] = Absent THEN wanted ELSE Merged(sessions[k].spec, wanted)
  BY DEF Applied
<1>6. new.at = IF sessions[k].at = "leaving" THEN "leaving" ELSE "live"
  BY <1>3, <1>4, <1>5
<1>7. wanted.execution.mode \in SessionModes
  <2>1. NameOf[m] \in Names
    BY DEF Names
  <2> QED
    BY <1>1, <2>1, SessionFacts
<1>8. /\ AsDemanded(new.spec, wanted) /\ SessionName(NameOf[m], new.spec) = k
      /\ new.spec.execution.mode \in SessionModes
  <2> HIDE DEF wanted, new
  <2>1. \A old : /\ AsDemanded(wanted, wanted) /\ AsDemanded(Merged(old, wanted), wanted)
                 /\ SessionName(NameOf[m], Merged(old, wanted)) = SessionName(NameOf[m], wanted)
                 /\ Merged(old, wanted).execution.mode = wanted.execution.mode
    BY <1>1, MergedAsDemanded
  <2>2. new.spec = wanted \/ new.spec = Merged(sessions[k].spec, wanted)
    BY <1>5
  <2> QED
    BY <1>7, <2>1, <2>2
<1>9. SessionType(new, k)
  <2> HIDE DEF wanted, new, k
  <2>1. new.at \in {"live", "leaving"}
    BY <1>6
  <2>2. new.owner \in created /\ NameOf[new.owner] = k[1]
    BY <1>1, <1>2, <1>5
  <2>3. new.version \in 1..saves
    BY <1>2, <1>5
  <2>4. SessionName(k[1], new.spec) = k
    BY <1>1, <1>8
  <2> QED
    BY <1>5, <1>8, <2>1, <2>2, <2>3, <2>4 DEF SessionType
<1> QED
  BY <1>5, <1>6, <1>8, <1>9

LEMMA SessionStep ==
  ASSUME Types, [Next]_vars
  PROVE  SessionTypes'
<1>0. /\ DOMAIN sessions = SessionNames
      /\ \A k \in SessionNames : sessions[k] # Absent => SessionType(sessions[k], k)
  BY SessionTypesAre DEF Types
<1>1. \A s, k : SessionType(s, k) => SessionType(s, k)'
  <2>1. created \subseteq created' /\ saves \in Nat /\ saves' \in Nat /\ saves <= saves'
    BY Grows, MeasurementAssumption
  <2> QED
    BY <2>1 DEF SessionType
<1>2. ASSUME DOMAIN sessions' = SessionNames,
             \A k \in SessionNames : sessions'[k] # Absent => SessionType(sessions'[k], k)
      PROVE  SessionTypes'
  <2>1. \A k \in SessionNames : sessions'[k] # Absent => SessionType(sessions[k], k)'
    <3> TAKE k \in SessionNames
    <3> SUFFICES ASSUME sessions'[k] # Absent PROVE SessionType(sessions[k], k)'
      OBVIOUS
    <3>1. SessionType(sessions'[k], k)
      BY <1>2
    <3> QED
      BY <3>1, Grows, MeasurementAssumption DEF SessionType
  <2> QED
    BY <1>2, <2>1 DEF SessionTypes, SessionType
<1>3. CASE UNCHANGED sessions
  BY <1>0, <1>2, <1>3
<1>4. ASSUME NEW k \in SessionNames, sessions' = Leave(k)
      PROVE  SessionTypes'
  <2>1. CASE sessions[k] = Absent
    BY <1>3, <1>4, <2>1 DEF Leave
  <2>2. CASE sessions[k] # Absent
    <3>1. sessions' = [sessions EXCEPT ![k].at = "leaving"]
      BY <1>4, <2>2 DEF Leave
    <3>2. SessionType(sessions[k], k)
      BY <1>0, <2>2
    <3>3. DOMAIN sessions[k] = {"at", "owner", "version", "spec"}
      BY <3>2 DEF SessionType
    <3>4. SessionType([sessions[k] EXCEPT !.at = "leaving"], k)
      BY <3>2, <3>3 DEF SessionType
    <3> QED
      BY <1>0, <1>2, <3>1, <3>4
  <2> QED
    BY <2>1, <2>2
<1>5. ASSUME NEW k \in SessionNames, sessions' = [sessions EXCEPT ![k] = Absent]
      PROVE  SessionTypes'
  BY <1>0, <1>2, <1>5
<1>6. ASSUME NEW m \in Measurements, ApplySession(m)
      PROVE  SessionTypes'
  <2> DEFINE wanted == Wanted(m)[worker[m].done + 1]
             k == SessionName(NameOf[m], wanted)
  <2>1. k \in SessionNames /\ sessions' = [sessions EXCEPT ![k] = Applied(m, wanted)]
    BY <1>6, NextWanted
  <2>2. SessionType(Applied(m, wanted), k)
    BY <1>6, AppliedFacts
  <2> HIDE DEF wanted, k
  <2> QED
    BY <1>0, <1>2, <2>1, <2>2
<1>7. ASSUME NEW m \in Measurements, DeleteSession(m)
      PROVE  SessionTypes'
  <2>1. PICK k \in worker[m].todo : sessions' = Leave(k)
    BY <1>7, Moves
  <2>2. worker[m].todo \subseteq SessionNames
    BY <1>7, PassFacts DEF DeleteSession, Running
  <2> QED
    BY <1>4, <2>1, <2>2
<1>8. CASE \E m \in Measurements : Mine(m)
  BY <1>3, <1>6, <1>7, <1>8 DEF Mine, Begin, LoadProfile, ReadNodes, ListSessions, Report, CallFails
<1>9. CASE \E p \in Profiles : Noting(p)
  BY <1>3, <1>9, NotingLeaves
<1>10. CASE Outside
  BY <1>3, <1>4, <1>5, <1>10 DEF Outside, UserCreates, UserEdits, UserDeletes, UserSavesProfile,
     UserRemovesProfile, AddressChanges, SessionGoes, CollectGarbage, Restart
<1>11. CASE UNCHANGED vars
  BY <1>3, <1>11 DEF vars
<1> QED
  BY <1>8, <1>9, <1>10, <1>11, StepCases

-----------------------------------------------------------------------------
LEMMA TypesInit == Init => Types
<1> SUFFICES ASSUME Init PROVE Types
  OBVIOUS
<1>1. Present = {}
  BY DEF Init, Present
<1>2. ObjectTypes
  BY <1>1, MeasurementAssumption DEF Init, ObjectTypes
<1>3. HandledTypes
  BY DEF Init, HandledTypes, Outcomes
<1>4. WorkerTypes
  BY DEF Init, WorkerTypes, Running, Idle
<1>5. NoterTypes
  BY DEF Init, NoterTypes
<1>6. SessionTypes
  BY DEF Init, SessionTypes
<1> QED
  BY <1>2, <1>3, <1>4, <1>5, <1>6 DEF Types

LEMMA TypesStep == Types /\ [Next]_vars => Types'
BY ObjectStep, HandledStep, WorkerStep, NoterStep, SessionStep DEF Types

LEMMA TypesShown == Types => TypeOK
<1> SUFFICES ASSUME Types PROVE TypeOK
  OBVIOUS
<1>1. saves \in 0..MaxSaves /\ BodiesNow \subseteq Bodies
  <2>1. saves \in 0..MaxSaves
    BY DEF Types, ObjectTypes
  <2> QED
    BY <2>1, MeasurementAssumption DEF BodiesNow, Bodies
<1>2. /\ created \subseteq Measurements /\ Present \subseteq created
      /\ \A m \in Present : body[m] \in Bodies
      /\ \A m, n \in Present : NameOf[m] = NameOf[n] => m = n
  BY <1>1 DEF Types, ObjectTypes, Present
<1>3. ASSUME NEW m \in Measurements
      PROVE  /\ handled[m] \subseteq Bodies /\ Cardinality(handled[m]) <= 1
             /\ Running(m) =>
                   /\ worker[m].at \in Steps /\ worker[m].body \in Bodies
                   /\ worker[m].version \in 0..saves
                   /\ worker[m].at # "load" => worker[m].version > 0
                   /\ worker[m].todo \subseteq SessionNames
  <2>1. handled[m] = {} \/ \E b \in BodiesNow : handled[m] = {b}
    BY DEF Types, HandledTypes
  <2>2. Cardinality({}) = 0
    BY FS_EmptySet
  <2>3. \A b : Cardinality({b}) = 1
    BY FS_Singleton
  <2>4. handled[m] \subseteq Bodies
    BY <1>1, <2>1
  <2>5. Cardinality(handled[m]) \in {0, 1}
    BY <2>1, <2>2, <2>3, Zenon
  <2> QED
    BY <1>1, <2>4, <2>5, PassFacts DEF PassTypes
<1>4. /\ resuming \subseteq Measurements
      /\ outcome \in [Measurements -> {"none", "ready", "noProfile", "unresolved", "raised"}]
  BY DEF Types, HandledTypes, Outcomes
<1>5. /\ profile \in [Profiles -> 0..saves] /\ noted \in [Profiles -> 0..saves]
      /\ renoting \subseteq Profiles
      /\ \A p \in Profiles : noter[p].at \in {"idle", "list", "patch", "report"}
  BY DEF Types, NoterTypes, Notes, Idle
<1>6. /\ resolvable \subseteq Endpoints
      /\ events \in 0..MaxEvents /\ saves \in 0..MaxSaves
      /\ disturbed \subseteq Names /\ reverted \subseteq Measurements
  BY DEF Types, ObjectTypes
<1>7. \A k \in SessionNames : sessions[k] # Absent =>
          /\ sessions[k].at \in {"live", "leaving"}
          /\ sessions[k].owner \in created
          /\ sessions[k].version \in 1..saves
          /\ SessionName(k[1], sessions[k].spec) = k
          /\ sessions[k].spec.execution.mode \in SessionModes
  BY DEF Types, SessionTypes
<1> QED
  BY <1>2, <1>3, <1>4, <1>5, <1>6, <1>7 DEF TypeOK

(* Objects of one name are there one at a time, a pass knows a version of  *)
(* the profile once it loaded it, and every session has the name its spec  *)
(* gives it, an owner that was created and a version there was.            *)
THEOREM TypeCorrect == Spec => []TypeOK
BY TypesInit, TypesStep, TypesShown, PTL DEF Spec

-----------------------------------------------------------------------------
(* A step that is not m's own leaves the sessions of m, unless its name is *)
(* disturbed.                                                              *)
SessionsKept(m) ==
    \A k \in SessionNames : /\ Owns(m, k)' <=> Owns(m, k)
                            /\ Owns(m, k) => sessions'[k] = sessions[k]

LEMMA Undisturbing ==
  ASSUME Types, [Next]_vars, NEW m \in Measurements, Undisturbed(m)'
  PROVE  /\ NameOf[m] \notin disturbed /\ NameOf[m] \notin disturbed'
         /\ m \in Present \/ (m \notin created /\ worker'[m] = worker[m] /\ handled'[m] = handled[m])
<1>1. NameOf[m] \notin disturbed' /\ m \in Present'
  BY DEF Undisturbed
<1>2. disturbed \subseteq disturbed'
  <2>1. CASE Outside
    BY <2>1 DEF Outside, UserCreates, UserEdits, UserDeletes, UserSavesProfile, UserRemovesProfile,
       AddressChanges, SessionGoes, CollectGarbage, Restart
  <2> QED
    BY <2>1, StepCases, MineLeaves, NotingLeaves DEF vars
<1>3. m \in Present \/ UserCreates(m)
  <2>1. CASE \E n \in Measurements : Mine(n)
    <3>1. body' = body
      BY <2>1, MineLeaves
    <3> QED
      BY <1>1, <3>1 DEF Present
  <2>2. CASE \E p \in Profiles : Noting(p)
    <3>1. PICK p \in Profiles : Noting(p)
      BY <2>2
    <3>2. CASE PatchMeasurement(p)
      <4>1. PICK n \in noter[p].todo :
               body' = [i \in Measurements |-> IF i \in {j \in Present : NameOf[j] = n}
                                               THEN [body[i] EXCEPT !.trigger = noter[p].version]
                                               ELSE body[i]]
        BY <3>2, Zenon DEF PatchMeasurement
      <4> QED
        BY <1>1, <4>1 DEF Present
    <3>3. CASE ~PatchMeasurement(p)
      <4>1. body' = body
        BY <3>1, <3>3, NotingLeaves
      <4> QED
        BY <1>1, <4>1 DEF Present
    <3> QED
      BY <3>2, <3>3
  <2>3. CASE Outside
    <3>1. CASE \E n \in Measurements : UserCreates(n)
      <4>1. PICK n \in Measurements : UserCreates(n)
        BY <3>1
      <4>2. PICK s \in UserSpecs : body' = [body EXCEPT ![n] = [spec |-> s, trigger |-> 0]]
        BY <4>1, Zenon DEF UserCreates
      <4> QED
        BY <1>1, <4>1, <4>2 DEF Present
    <3>2. CASE \E n \in Measurements : UserEdits(n) \/ UserDeletes(n)
      <4>1. PICK n \in Measurements : UserEdits(n) \/ UserDeletes(n)
        BY <3>2
      <4>2. n \in Present /\ \A i \in Measurements : i # n => body'[i] = body[i]
        <5>1. body \in [Measurements -> BodiesNow \cup {Absent}]
          BY DEF Types, ObjectTypes
        <5> QED
          BY <4>1, <5>1 DEF UserEdits, UserDeletes
      <4> QED
        BY <1>1, <4>2 DEF Present
    <3>3. CASE body' = body
      BY <1>1, <3>3 DEF Present
    <3> QED
      BY <2>3, <3>1, <3>2, <3>3 DEF Outside, UserSavesProfile, UserRemovesProfile,
         AddressChanges, SessionGoes, CollectGarbage, Restart, objectVars
  <2>4. CASE UNCHANGED vars
    BY <1>1, <2>4 DEF vars, objectVars, Present
  <2> QED
    BY <2>1, <2>2, <2>3, <2>4, StepCases
<1>4. UserCreates(m) => m \notin created /\ worker'[m] = worker[m] /\ handled'[m] = handled[m]
  BY DEF UserCreates, workerVars
<1> QED
  BY <1>1, <1>2, <1>3, <1>4

LEMMA OwnersName ==
  ASSUME Types, NEW m \in Measurements, NEW k \in SessionNames, Owns(m, k)
  PROVE  k[1] = NameOf[m] /\ sessions[k] # Absent
<1>1. sessions[k] # Absent
  BY DEF Owns, Absent
<1> QED
  BY <1>1, SessionTypesAre DEF Types, SessionType, Owns

LEMMA OthersLeave ==
  ASSUME Types, [Next]_vars, NEW m \in Measurements, m \in Present, Undisturbed(m)',
         ~ApplySession(m), ~DeleteSession(m)
  PROVE  SessionsKept(m)
<1>0. DOMAIN sessions = SessionNames
  BY DEF Types, SessionTypes
<1>1. CASE UNCHANGED sessions
  BY <1>1 DEF SessionsKept, Owns
<1>2. ASSUME NEW k \in SessionNames, NEW s, sessions' = [sessions EXCEPT ![k] = s],
             ~Owns(m, k), ~(s.at = "live" /\ s.owner = m)
      PROVE  SessionsKept(m)
  BY <1>0, <1>2 DEF SessionsKept, Owns
<1>3. ASSUME NEW k \in SessionNames, sessions' = Leave(k), ~Owns(m, k)
      PROVE  SessionsKept(m)
  <2>1. CASE sessions[k] = Absent
    BY <1>1, <1>3, <2>1 DEF Leave
  <2>2. CASE sessions[k] # Absent
    <3>1. sessions' = [sessions EXCEPT ![k] = [sessions[k] EXCEPT !.at = "leaving"]]
      BY <1>3, <2>2 DEF Leave
    <3>2. [sessions[k] EXCEPT !.at = "leaving"].at = "leaving"
      <4>1. SessionType(sessions[k], k)
        BY <2>2, SessionTypesAre DEF Types
      <4> QED
        BY <4>1 DEF SessionType
    <3> QED
      BY <1>2, <1>3, <3>1, <3>2
  <2> QED
    BY <2>1, <2>2
<1>4. ASSUME NEW n \in Measurements, n # m, ApplySession(n) \/ DeleteSession(n)
      PROVE  NameOf[n] # NameOf[m]
  <2> SUFFICES ASSUME NameOf[n] = NameOf[m] PROVE FALSE
    OBVIOUS
  <2>1. n \notin Present
    BY <1>4 DEF Types, ObjectTypes
  <2>2. NameOf[n] \in disturbed'
    BY <1>4, <2>1 DEF ApplySession, DeleteSession
  <2> QED
    BY <2>2 DEF Undisturbed
<1>5. ASSUME NEW n \in Measurements, n # m, ApplySession(n)
      PROVE  SessionsKept(m)
  <2> DEFINE wanted == Wanted(n)[worker[n].done + 1]
             k == SessionName(NameOf[n], wanted)
             new == Applied(n, wanted)
  <2>1. k \in SessionNames /\ k[1] = NameOf[n] /\ sessions' = [sessions EXCEPT ![k] = new]
    BY <1>5, NextWanted
  <2>2. new.owner = n
    BY <1>5, AppliedFacts
  <2> HIDE DEF wanted, k, new
  <2>3. ~Owns(m, k)
    BY <1>4, <1>5, <2>1, OwnersName
  <2> QED
    BY <1>2, <1>5, <2>1, <2>2, <2>3
<1>6. ASSUME NEW n \in Measurements, n # m, DeleteSession(n)
      PROVE  SessionsKept(m)
  <2>1. PICK k \in worker[n].todo : sessions' = Leave(k)
    BY <1>6, Moves
  <2>2. k \in SessionNames /\ k[1] = NameOf[n]
    BY <1>6, PassFacts DEF DeleteSession, Running, PassTypes
  <2>3. ~Owns(m, k)
    BY <1>4, <1>6, <2>2, OwnersName
  <2> QED
    BY <1>3, <2>1, <2>2, <2>3
<1>7. CASE \E n \in Measurements : Mine(n)
  BY <1>1, <1>5, <1>6, <1>7 DEF Mine, Begin, LoadProfile, ReadNodes, ListSessions, Report, CallFails
<1>8. CASE \E p \in Profiles : Noting(p)
  BY <1>1, <1>8, NotingLeaves
<1>9. CASE Outside
  <2>1. ASSUME NEW k \in SessionNames, SessionGoes(k)
        PROVE  SessionsKept(m)
    BY <1>2, <2>1 DEF SessionGoes, Owns, Absent
  <2>2. ASSUME NEW k \in SessionNames, CollectGarbage(k)
        PROVE  SessionsKept(m)
    BY <1>3, <2>2 DEF CollectGarbage, Owns
  <2> QED
    BY <1>1, <1>9, <2>1, <2>2 DEF Outside, UserCreates, UserEdits, UserDeletes, UserSavesProfile,
       UserRemovesProfile, AddressChanges, Restart
<1>10. CASE UNCHANGED vars
  BY <1>1, <1>10 DEF vars
<1> QED
  BY <1>7, <1>8, <1>9, <1>10, StepCases

LEMMA RightKept ==
  ASSUME NEW m \in Measurements, SessionsKept(m), NEW w, NEW spec \in Expandable,
         NEW s \in Sessions(spec), Right(m, w, s)
  PROVE  Right(m, w, s)'
<1> DEFINE k == SessionName(NameOf[m], s)
<1>1. k \in SessionNames
  <2>1. NameOf[m] \in Names
    BY DEF Names
  <2> QED
    BY <2>1, SessionFacts
<1>2. Owns(m, k)
  BY DEF Right, Owns
<1>3. sessions'[k] = sessions[k]
  BY <1>1, <1>2 DEF SessionsKept
<1> QED
  BY <1>3 DEF Right

LEMMA PassKept ==
  ASSUME Types, NEW m \in Measurements, SessionsKept(m), Running(m), worker'[m] = worker[m],
         PassInv(m)
  PROVE  PassInv(m)'
<1>1. Wanted(m)' = Wanted(m) /\ WantedNames(m)' = WantedNames(m)
  BY DEF Wanted, WantedNames
<1>2. worker[m].at \in Placing => worker[m].body.spec \in Expandable
  BY PassFacts DEF PassTypes, Expandable
<1>3. ASSUME worker[m].at = "apply", NEW i \in 1..worker[m].done
      PROVE  Right(m, worker[m].version, Wanted(m)[i])'
  <2>1. worker[m].done < Len(Wanted(m)) /\ worker[m].done \in Nat
    BY <1>3, PassFacts DEF PassTypes
  <2>2. worker[m].body.spec \in Expandable
    BY <1>2, <1>3 DEF Placing
  <2>3. DOMAIN Wanted(m) = 1..Len(Wanted(m)) /\ Len(Wanted(m)) \in Nat
    BY <2>2, Expanding DEF Wanted
  <2>4. Wanted(m)[i] \in Sessions(worker[m].body.spec)
    BY <2>1, <2>3 DEF Sessions, Wanted, Range
  <2>5. Right(m, worker[m].version, Wanted(m)[i])
    BY <1>3 DEF PassInv
  <2>6. ASSUME NEW s \in Sessions(worker[m].body.spec), Right(m, worker[m].version, s)
        PROVE  Right(m, worker[m].version, s)'
    <3>1. \A w : Right(m, w, s) => Right(m, w, s)'
      BY <2>2, RightKept
    <3> QED
      BY <2>6, <3>1 DEF Right
  <2> QED
    BY <1>1, <2>4, <2>5, <2>6
<1>4. ASSUME worker[m].at \in {"list", "delete", "report"}, NEW s \in Range(Wanted(m))
      PROVE  Right(m, worker[m].version, s)'
  <2>1. worker[m].body.spec \in Expandable
    BY <1>2, <1>4 DEF Placing
  <2>2. s \in Sessions(worker[m].body.spec)
    BY DEF Sessions, Wanted
  <2>3. Right(m, worker[m].version, s)
    BY <1>4 DEF PassInv
  <2>4. \A w : Right(m, w, s) => Right(m, w, s)'
    BY <2>1, <2>2, RightKept
  <2> QED
    BY <2>3, <2>4 DEF Right
<1>5. \A k \in SessionNames : Owns(m, k)' <=> Owns(m, k)
  BY DEF SessionsKept
<1>6. /\ worker'[m].at = "apply" => \A i \in 1..worker'[m].done : Right(m, worker[m].version, Wanted(m)[i])'
      /\ worker'[m].at \in {"list", "delete", "report"} =>
            \A s \in Range(Wanted(m)') : Right(m, worker[m].version, s)'
  BY <1>1, <1>3, <1>4
<1>7. /\ worker'[m].at = "delete" => worker'[m].todo \cap WantedNames(m)' = {}
      /\ worker'[m].at = "report" => worker'[m].todo = {}
      /\ worker'[m].at \in {"delete", "report"} =>
            \A k \in SessionNames : Owns(m, k)' => k \in WantedNames(m)' \cup worker'[m].todo
  BY <1>1, <1>5 DEF PassInv
<1> QED
  BY <1>6, <1>7 DEF PassInv

LEMMA DoneKept ==
  ASSUME NEW m \in Measurements, SessionsKept(m), NEW b, NEW w, DoneInv(m, b, w)
  PROVE  DoneInv(m, b, w)'
<1>1. b.spec \in Expandable
  BY DEF DoneInv, Expandable
<1>2. ASSUME NEW s \in Range(Expansion[b.spec])
      PROVE  Right(m, w, s)'
  <2>1. s \in Sessions(b.spec) /\ Right(m, w, s)
    BY DEF Sessions, DoneInv
  <2> QED
    BY <1>1, <2>1, RightKept
<1>3. \A k \in SessionNames : Owns(m, k)' => k \in {SessionName(NameOf[m], s) : s \in Range(Expansion[b.spec])}
  BY DEF SessionsKept, DoneInv
<1> QED
  BY <1>2, <1>3 DEF DoneInv

-----------------------------------------------------------------------------
(* A body stays the present one, and none that came back, only if it was.  *)
LEMMA StaysKept ==
  ASSUME Types, [Next]_vars, NEW m \in Measurements, NEW b, Handles(m, b), Kept(m, b)', ~Begin(m)
  PROVE  Kept(m, b)
<1>0. /\ body \in [Measurements -> BodiesNow \cup {Absent}]
      /\ m \in created /\ body'[m] = b /\ b # Absent /\ m \notin reverted'
  <2>1. m \in created
    <3>1. Running(m) => m \in created
      BY PassFacts DEF PassTypes
    <3>2. m \notin created => handled[m] = {}
      BY DEF Types, HandledTypes
    <3> QED
      BY <3>1, <3>2 DEF Handles
  <2> QED
    BY <2>1 DEF Types, ObjectTypes, Kept, Present
<1>1. ASSUME body'[m] = body[m], m \in reverted => m \in reverted'
      PROVE  Kept(m, b)
  BY <1>0, <1>1 DEF Kept, Present
<1>2. BodiesChange => body'[m] = body[m]
  <2>1. BodiesChange /\ body'[m] # body[m] => m \in reverted'
    BY <1>0 DEF BodiesChange
  <2> QED
    BY <1>0, <2>1
<1>3. BodiesChange => (m \in reverted => m \in reverted')
  BY <1>2 DEF BodiesChange
<1>4. CASE BodiesChange
  BY <1>1, <1>2, <1>3, <1>4
<1>5. CASE \E n \in Measurements : Mine(n)
  <2>1. PICK n \in Measurements : Mine(n)
    BY <1>5
  <2>2. body'[m] = body[m]
    BY <2>1, MineLeaves
  <2>3. m \in reverted => m \in reverted'
    <3>1. CASE Begin(n)
      BY <3>1 DEF Begin
    <3>2. CASE ~Begin(n)
      BY <2>1, <3>2 DEF Mine, LoadProfile, ReadNodes, ApplySession, ListSessions, DeleteSession,
         Report, CallFails
    <3> QED
      BY <3>1, <3>2
  <2> QED
    BY <1>1, <2>2, <2>3
<1>6. CASE \E p \in Profiles : Noting(p)
  <2>1. BodiesChange \/ UNCHANGED <<body, reverted>>
    BY <1>6, NotingLeaves DEF PatchMeasurement
  <2> QED
    BY <1>1, <1>4, <2>1
<1>7. CASE Outside
  <2>1. \/ BodiesChange \/ UNCHANGED <<body, reverted>>
        \/ \E n \in Measurements : UserCreates(n) \/ UserDeletes(n)
    BY <1>7 DEF Outside, UserEdits, UserSavesProfile, UserRemovesProfile, AddressChanges,
       SessionGoes, CollectGarbage, Restart, objectVars
  <2>2. ASSUME NEW n \in Measurements, UserCreates(n)
        PROVE  Kept(m, b)
    <3>1. PICK s \in UserSpecs : body' = [body EXCEPT ![n] = [spec |-> s, trigger |-> 0]]
      BY <2>2, Zenon DEF UserCreates
    <3>2. n # m /\ reverted' = reverted
      BY <1>0, <2>2 DEF UserCreates
    <3> QED
      BY <1>0, <1>1, <3>1, <3>2
  <2>3. ASSUME NEW n \in Measurements, UserDeletes(n)
        PROVE  Kept(m, b)
    <3>1. body' = [body EXCEPT ![n] = Absent] /\ reverted' = reverted \ {n}
      BY <2>3 DEF UserDeletes
    <3>2. n # m
      BY <1>0, <3>1
    <3> QED
      BY <1>0, <1>1, <3>1, <3>2
  <2> QED
    BY <1>1, <1>4, <2>1, <2>2, <2>3
<1>8. CASE UNCHANGED vars
  BY <1>1, <1>8 DEF vars, objectVars
<1> QED
  BY <1>5, <1>6, <1>7, <1>8, StepCases

(* While it does, the handler of the profile is still to tell of a newer   *)
(* version, or the version stays the present one.                          *)
LEMMA StaysFresh ==
  ASSUME Types, [Next]_vars, NEW m \in Measurements, NEW b \in BodiesNow, NEW w,
         Kept(m, b), Kept(m, b)', Fresh(m, b, w)
  PROVE  Fresh(m, b, w)'
<1> DEFINE p == b.spec.profileRef
<1>0. /\ p \in Profiles /\ b.trigger \in 0..saves
      /\ body[m] = b /\ body'[m] = b /\ m \in Present
      /\ saves \in Nat
      /\ profile \in [Profiles -> 0..saves] /\ noted \in [Profiles -> 0..saves]
      /\ noter \in [Profiles -> Notes \cup {Idle}]
  <2>1. b.spec \in UserSpecs /\ b.trigger \in 0..saves
    BY DEF BodiesNow
  <2> QED
    BY <2>1, MeasurementAssumption DEF Kept, Types, ObjectTypes, NoterTypes
<1>1. ASSUME profile'[p] = profile[p], noted'[p] = noted[p], noter'[p] = noter[p]
      PROVE  Fresh(m, b, w)'
  BY <1>1 DEF Fresh, Told
<1>2. ASSUME profile'[p] = profile[p], noted'[p] = noted[p],
             noter'[p].at \notin {"patch", "report"}
      PROVE  Fresh(m, b, w)'
  BY <1>2 DEF Fresh, Told
<1>3. CASE UNCHANGED <<profile, noterVars>>
  BY <1>1, <1>3 DEF noterVars
<1>4. ASSUME NEW q \in Profiles, UserSavesProfile(q)
      PROVE  Fresh(m, b, w)'
  <2>1. profile' = [profile EXCEPT ![q] = saves + 1] /\ noted' = noted /\ noter' = noter
    BY <1>4 DEF UserSavesProfile, noterVars
  <2>2. CASE q # p
    BY <1>0, <1>1, <2>1, <2>2
  <2>3. CASE q = p
    <3>1. profile'[p] = saves + 1 /\ noted'[p] \in 0..saves
      BY <1>0, <2>1, <2>3
    <3>2. noter'[p].at \in {"patch", "report"} => noter'[p].version \in 0..saves
      BY <1>0, <2>1 DEF Notes, Idle
    <3> QED
      BY <1>0, <3>1, <3>2 DEF Fresh
  <2> QED
    BY <2>2, <2>3
<1>5. ASSUME NEW q \in Profiles, UserRemovesProfile(q)
      PROVE  Fresh(m, b, w)'
  <2>1. profile' = [profile EXCEPT ![q] = 0] /\ noted' = [noted EXCEPT ![q] = 0] /\ noter' = noter
    BY <1>5 DEF UserRemovesProfile
  <2>2. CASE q # p
    BY <1>0, <1>1, <2>1, <2>2
  <2>3. CASE q = p
    BY <1>0, <2>1, <2>3 DEF Fresh
  <2> QED
    BY <2>2, <2>3
<1>6. CASE Restart
  BY <1>0, <1>2, <1>6 DEF Restart, profileVars, Idle
<1>7. CASE Outside
  BY <1>3, <1>4, <1>5, <1>6, <1>7 DEF Outside, UserCreates, UserEdits, UserDeletes,
     AddressChanges, SessionGoes, CollectGarbage, profileVars
<1>8. CASE \E q \in Profiles : Noting(q)
  <2>1. PICK q \in Profiles : Noting(q)
    BY <1>8
  <2>2. profile' = profile
    BY <2>1, NotingLeaves DEF profileVars
  <2>3. CASE q # p
    BY <1>0, <1>1, <2>1, <2>2, <2>3, NotingLeaves
  <2>4. CASE q = p
    <3>1. CASE NoteBegins(p)
      BY <1>0, <1>2, <2>2, <3>1 DEF NoteBegins
    <3>2. CASE NoteFails(p)
      BY <1>0, <1>2, <2>2, <3>2 DEF NoteFails, Idle
    <3>3. CASE ListMeasurements(p)
      <4> DEFINE naming == {NameOf[n] : n \in {i \in Present : body[i].spec.profileRef = p}}
      <4>1. NameOf[m] \in naming
        BY <1>0
      <4>2. noter' = [noter EXCEPT ![p].todo = naming,
                                   ![p].at = IF naming = {} THEN "report" ELSE "patch"]
            /\ noted' = noted
        BY <3>3 DEF ListMeasurements
      <4>3. noter[p] \in Notes
        BY <1>0, <3>3 DEF ListMeasurements, Idle
      <4> HIDE DEF naming, p
      <4>4. noter'[p].at = "patch" /\ noter'[p].todo = naming /\ noter'[p].version = noter[p].version
        BY <1>0, <4>1, <4>2, <4>3 DEF Notes
      <4> QED
        BY <2>2, <4>1, <4>2, <4>4 DEF Fresh, Told, p
    <3>4. CASE PatchMeasurement(p)
      <4>1. noter[p] \in Notes /\ noter[p].at = "patch" /\ noted' = noted
        BY <1>0, <3>4 DEF PatchMeasurement, Idle
      <4>2. PICK n \in noter[p].todo :
              LET named == {i \in Present : NameOf[i] = n}
              IN  /\ body' = [i \in Measurements |-> IF i \in named
                                 THEN [body[i] EXCEPT !.trigger = noter[p].version]
                                 ELSE body[i]]
                  /\ noter' = IF named = {} THEN [noter EXCEPT ![p] = Idle]
                              ELSE [noter EXCEPT
                                 ![p].todo = @ \ {n},
                                 ![p].at = IF noter[p].todo = {n} THEN "report" ELSE "patch"]
        BY <3>4, Zenon DEF PatchMeasurement
      <4>3. CASE {i \in Present : NameOf[i] = n} = {}
        BY <1>0, <1>2, <2>2, <4>1, <4>2, <4>3 DEF Idle
      <4>4. CASE {i \in Present : NameOf[i] = n} # {}
        <5>1. /\ noter'[p].version = noter[p].version /\ noter'[p].todo = noter[p].todo \ {n}
              /\ noter'[p].at = IF noter[p].todo = {n} THEN "report" ELSE "patch"
          BY <1>0, <4>1, <4>2, <4>4 DEF Notes
        <5>2. NameOf[m] = n => b.trigger = noter[p].version
          <6>1. NameOf[m] = n => body'[m] = [b EXCEPT !.trigger = noter[p].version]
            BY <1>0, <4>2
          <6> QED
            BY <1>0, <6>1 DEF BodiesNow
        <5>3. ASSUME profile[p] > 0, w # profile[p], noter[p].version = profile[p]
              PROVE  NameOf[m] \in noter[p].todo \ {n}
          BY <2>2, <4>1, <5>2, <5>3 DEF Fresh, Told
        <5>4. ASSUME profile[p] > 0, w # profile[p], noter[p].version = profile[p]
              PROVE  noter'[p].at = "patch" /\ NameOf[m] \in noter'[p].todo
          BY <5>1, <5>3, <5>4
        <5> HIDE DEF p
        <5>5. noted'[p] = noted[p] /\ profile'[p] = profile[p]
          BY <2>2, <4>1
        <5> QED
          BY <5>1, <5>4, <5>5 DEF Fresh, Told, p
      <4> QED
        BY <4>3, <4>4
    <3>5. CASE NoteReports(p)
      <4>1. noter[p].at = "report" /\ noter'[p] = Idle
        BY <1>0, <3>5 DEF NoteReports
      <4>2. profile[p] > 0 => noted'[p] = noter[p].version
        BY <1>0, <3>5 DEF NoteReports
      <4>3. profile[p] > 0 /\ w # profile[p] => noter[p].version # profile[p]
        BY <4>1 DEF Fresh, Told
      <4> QED
        BY <2>2, <4>1, <4>2, <4>3 DEF Fresh, Told, Idle
    <3> QED
      BY <2>1, <2>4, <3>1, <3>2, <3>3, <3>4, <3>5 DEF Noting
  <2> QED
    BY <2>3, <2>4
<1>9. CASE \E n \in Measurements : Mine(n)
  BY <1>3, <1>9, MineLeaves
<1>10. CASE UNCHANGED vars
  BY <1>3, <1>10 DEF vars, profileVars
<1> QED
  BY <1>7, <1>8, <1>9, <1>10, StepCases

-----------------------------------------------------------------------------
(* A measurement's own steps.                                              *)
LEMMA ApplyPass ==
  ASSUME Types, NEW m \in Measurements, ApplySession(m), PassInv(m), Undisturbed(m)'
  PROVE  PassInv(m)'
<1> DEFINE w == worker[m]
           wanted == Wanted(m)[w.done + 1]
           k == SessionName(NameOf[m], wanted)
           new == Applied(m, wanted)
<1>1. /\ w.at = "apply" /\ w.body.spec \in Expandable
      /\ w.done + 1 \in 1..Len(Wanted(m)) /\ Len(Wanted(m)) \in Nat
      /\ DOMAIN Wanted(m) = 1..Len(Wanted(m))
      /\ wanted \in Sessions(w.body.spec) /\ k \in SessionNames
      /\ sessions' = [sessions EXCEPT ![k] = new]
      /\ w.done \in Nat
  BY NextWanted, PassFacts
<1>2. sessions[k].at # "leaving" /\ m \in Present
  <2>1. disturbed' = IF sessions[k].at = "leaving" \/ m \notin Present
                     THEN disturbed \cup {NameOf[m]} ELSE disturbed
    BY NextWanted
  <2> QED
    BY <2>1 DEF Undisturbed
<1>3. /\ new.at = "live" /\ new.owner = m /\ new.version = w.version
      /\ AsDemanded(new.spec, wanted)
  BY <1>2, AppliedFacts
<1>4. PICK next \in {"list", "apply"} :
         /\ worker'[m] = Moved(m, next, w.version, w.done + 1, w.todo)
         /\ next = "list" => w.done + 1 = Len(Wanted(m))
  <2>1. worker'[m] = Moved(m, IF w.done + 1 = Len(Wanted(m)) THEN "list" ELSE "apply",
                           w.version, w.done + 1, w.todo)
    BY Moves
  <2> QED
    BY <2>1
<1>5. Wanted(m)' = Wanted(m) /\ worker'[m].version = w.version /\ worker'[m].done = w.done + 1
      /\ worker'[m].at = next
  BY <1>4 DEF Wanted, Moved
<1>6. NameOf[m] \in Names /\ DOMAIN sessions = SessionNames
  BY DEF Names, Types, SessionTypes
<1> HIDE DEF wanted, k, new, w
<1>7. ASSUME NEW i \in 1..(w.done + 1)
      PROVE  Right(m, worker[m].version, Wanted(m)[i])'
  <2> DEFINE s == Wanted(m)[i]
             j == SessionName(NameOf[m], s)
  <2>1. s \in Sessions(w.body.spec)
    BY <1>1 DEF Sessions, Wanted, Range, w
  <2>2. j \in SessionNames
    BY <1>1, <1>6, <2>1, SessionFacts
  <2>3. CASE j = k
    <3>1. s = wanted
      BY <1>1, <1>6, <2>1, <2>3, OneSessionPerName DEF k
    <3>2. sessions'[j] = new
      BY <1>1, <1>6, <2>3
    <3> QED
      BY <1>3, <1>5, <3>1, <3>2 DEF Right
  <2>4. CASE j # k
    <3>1. i # w.done + 1
      BY <2>4 DEF k, wanted, w
    <3>2. i \in 1..w.done
      BY <1>1, <3>1
    <3>3. Right(m, w.version, s)
      BY <1>1, <3>2 DEF PassInv, w
    <3>4. sessions'[j] = sessions[j]
      BY <1>1, <1>6, <2>2, <2>4
    <3> QED
      BY <1>5, <3>3, <3>4 DEF Right
  <2> QED
    BY <2>3, <2>4
<1>8. ASSUME next = "list", NEW s \in Range(Wanted(m))
      PROVE  Right(m, worker[m].version, s)'
  <2>1. PICK i \in 1..(w.done + 1) : s = Wanted(m)[i]
    BY <1>1, <1>4, <1>8 DEF Range
  <2>2. Wanted(m)'[i] = s
    BY <1>5, <2>1
  <2> QED
    BY <1>7, <2>1, <2>2 DEF Right
<1>9. /\ worker'[m].at = "apply" => \A i \in 1..worker'[m].done : Right(m, worker[m].version, Wanted(m)[i])'
      /\ worker'[m].at \in {"list", "delete", "report"} =>
            \A s \in Range(Wanted(m)') : Right(m, worker[m].version, s)'
  BY <1>5, <1>7, <1>8
<1>10. worker'[m].at \notin {"delete", "report"}
  BY <1>5
<1> QED
  BY <1>9, <1>10 DEF PassInv

LEMMA ListPass ==
  ASSUME Types, NEW m \in Measurements, ListSessions(m), PassInv(m)
  PROVE  PassInv(m)'
<1> DEFINE w == worker[m]
           stale == Labelled(m) \ WantedNames(m)
<1>1. w.at = "list" /\ Running(m) /\ sessions' = sessions
  BY DEF ListSessions, Running
<1>2. PICK next \in {"report", "delete"} :
         /\ worker'[m] = Moved(m, next, w.version, w.done, stale)
         /\ next = "report" => stale = {}
  <2>1. worker'[m] = Moved(m, IF stale = {} THEN "report" ELSE "delete", w.version, w.done, stale)
    BY Moves
  <2> QED
    BY <2>1
<1>3. /\ Wanted(m)' = Wanted(m) /\ WantedNames(m)' = WantedNames(m)
      /\ worker'[m].version = w.version /\ worker'[m].todo = stale /\ worker'[m].at = next
  BY <1>2 DEF Wanted, WantedNames, Moved
<1>4. ASSUME NEW s \in Range(Wanted(m)')
      PROVE  Right(m, worker[m].version, s)'
  <2>1. Right(m, w.version, s)
    BY <1>1, <1>3 DEF PassInv
  <2> QED
    BY <1>1, <1>3, <2>1 DEF Right
<1>5. ASSUME NEW k \in SessionNames, Owns(m, k)'
      PROVE  k \in WantedNames(m) \cup stale
  <2>1. Owns(m, k)
    BY <1>1, <1>5 DEF Owns
  <2>2. k \in Labelled(m)
    BY <2>1, OwnersName DEF Labelled
  <2> QED
    BY <2>2
<1> HIDE DEF stale
<1>6. stale \cap WantedNames(m) = {}
  BY DEF stale
<1>7. worker'[m].at # "apply"
  BY <1>3
<1> QED
  BY <1>2, <1>3, <1>4, <1>5, <1>6, <1>7 DEF PassInv

LEMMA DeletePass ==
  ASSUME Types, NEW m \in Measurements, DeleteSession(m), PassInv(m)
  PROVE  PassInv(m)'
<1> DEFINE w == worker[m]
<1>1. /\ w.at = "delete" /\ Running(m) /\ DOMAIN sessions = SessionNames
      /\ w.todo \subseteq SessionNames /\ w.body.spec \in Expandable /\ NameOf[m] \in Names
  <2>1. w.at = "delete" /\ Running(m)
    BY DEF DeleteSession, Running
  <2>2. w.body.spec \in Expandable
    BY <2>1, PassFacts DEF PassTypes, Placing, Expandable
  <2> QED
    BY <2>1, <2>2, PassFacts DEF Types, SessionTypes, Names
<1>2. PICK k \in w.todo :
         /\ worker'[m] = Moved(m, IF w.todo = {k} THEN "report" ELSE "delete",
                               w.version, w.done, w.todo \ {k})
         /\ sessions' = Leave(k)
  BY Moves
<1>3. /\ Wanted(m)' = Wanted(m) /\ WantedNames(m)' = WantedNames(m)
      /\ worker'[m].version = w.version /\ worker'[m].todo = w.todo \ {k}
      /\ worker'[m].at = IF w.todo = {k} THEN "report" ELSE "delete"
  BY <1>2 DEF Wanted, WantedNames, Moved
<1>4. /\ \A j \in SessionNames : j # k => sessions'[j] = sessions[j]
      /\ ~Owns(m, k)'
  <2>1. CASE sessions[k] = Absent
    BY <1>2, <2>1 DEF Leave, Owns, Absent
  <2>2. CASE sessions[k] # Absent
    <3>1. sessions' = [sessions EXCEPT ![k].at = "leaving"]
      BY <1>2, <2>2 DEF Leave
    <3>2. SessionType(sessions[k], k)
      BY <1>1, <2>2, SessionTypesAre DEF Types
    <3>3. sessions'[k].at = "leaving"
      BY <1>1, <3>1, <3>2 DEF SessionType
    <3> QED
      BY <1>1, <3>1, <3>3 DEF Owns
  <2> QED
    BY <2>1, <2>2
<1> HIDE DEF w
<1>5. ASSUME NEW s \in Range(Wanted(m)')
      PROVE  Right(m, worker[m].version, s)'
  <2> DEFINE j == SessionName(NameOf[m], s)
  <2>1. Right(m, w.version, s)
    BY <1>1, <1>3 DEF PassInv, w
  <2>2. j \in WantedNames(m) /\ j \in SessionNames
    <3>1. s \in Sessions(w.body.spec)
      BY <1>3 DEF Sessions, Wanted, w
    <3> QED
      BY <1>1, <1>3, <3>1, SessionFacts DEF WantedNames
  <2>3. j # k
    BY <1>1, <1>2, <2>2 DEF PassInv, w
  <2>4. sessions'[j] = sessions[j]
    BY <1>4, <2>2, <2>3
  <2> QED
    BY <1>3, <2>1, <2>4 DEF Right
<1>6. ASSUME NEW j \in SessionNames, Owns(m, j)'
      PROVE  j \in WantedNames(m) \cup (w.todo \ {k})
  <2>1. j # k
    BY <1>4, <1>6
  <2>2. Owns(m, j)
    BY <1>4, <1>6, <2>1 DEF Owns
  <2> QED
    BY <1>1, <2>1, <2>2 DEF PassInv, w
<1>7. w.todo \cap WantedNames(m) = {}
  BY <1>1 DEF PassInv, w
<1> QED
  BY <1>3, <1>5, <1>6, <1>7 DEF PassInv

-----------------------------------------------------------------------------
(* What is not m's own leaves m's handler, but for three steps.            *)
LEMMA OthersWork ==
  ASSUME Types, [Next]_vars, NEW m \in Measurements, ~Mine(m)
  PROVE  \/ /\ worker'[m] = worker[m] /\ handled'[m] = handled[m] /\ outcome'[m] = outcome[m]
            /\ m \in resuming' <=> m \in resuming
         \/ Restart
         \/ UserDeletes(m)
<1>1. CASE \E n \in Measurements : Mine(n)
  BY <1>1, MineLeaves
<1>2. CASE \E p \in Profiles : Noting(p)
  BY <1>2, NotingLeaves DEF workerVars
<1>3. CASE Outside
  <2>1. ASSUME NEW n \in Measurements, UserDeletes(n), n # m
        PROVE  /\ worker'[m] = worker[m] /\ handled'[m] = handled[m] /\ outcome'[m] = outcome[m]
               /\ m \in resuming' <=> m \in resuming
    BY <2>1 DEF UserDeletes, Types, HandledTypes
  <2>2. \/ UNCHANGED workerVars \/ Restart \/ \E n \in Measurements : UserDeletes(n)
    BY <1>3 DEF Outside, UserCreates, UserEdits, UserSavesProfile, UserRemovesProfile,
       AddressChanges, SessionGoes, CollectGarbage
  <2>3. CASE UNCHANGED workerVars
    BY <2>3 DEF workerVars
  <2> QED
    BY <2>1, <2>2, <2>3
<1>4. CASE UNCHANGED vars
  BY <1>4 DEF vars, workerVars
<1> QED
  BY <1>1, <1>2, <1>3, <1>4, StepCases

(* A pass that goes on with its version.                                   *)
LEMMA PassFresh ==
  ASSUME Types, RunInv, [Next]_vars, NEW m \in Measurements, Running(m), worker[m].at # "load",
         worker'[m].body = worker[m].body, worker'[m].version = worker[m].version,
         Kept(m, worker[m].body)'
  PROVE  Fresh(m, worker[m].body, worker[m].version)'
<1>1. PICK b \in BodiesNow, w \in 0..saves : b = worker[m].body /\ w = worker[m].version
  BY PassFacts
<1>2. Handles(m, b) /\ ~Begin(m) /\ Kept(m, b)'
  BY <1>1 DEF Handles, Begin, Kept
<1>3. Kept(m, b)
  BY <1>2, StaysKept
<1>4. Fresh(m, b, w)
  BY <1>1, <1>3 DEF RunInv
<1>5. Fresh(m, b, w)'
  BY <1>2, <1>3, <1>4, StaysFresh
<1> QED
  BY <1>1, <1>5 DEF Fresh, Told

LEMMA RunStep ==
  ASSUME Types, RunInv, [Next]_vars, NEW m \in Measurements, Running(m)'
  PROVE  /\ Undisturbed(m)' => PassInv(m)'
         /\ worker'[m].at # "load" /\ Kept(m, worker[m].body)' =>
               Fresh(m, worker[m].body, worker[m].version)'
<1>1. Running(m) => m \in created
  BY PassFacts DEF PassTypes
<1>2. Running(m) /\ Undisturbed(m)' => Undisturbed(m) /\ PassInv(m)
  BY <1>1, Undisturbing DEF Undisturbed, RunInv
<1>3. CASE ~Mine(m)
  <2>1. worker'[m] = worker[m] /\ Running(m)
    <3>1. CASE Restart
      BY <3>1 DEF Restart, Running, Idle
    <3>2. CASE UserDeletes(m)
      BY <3>2 DEF UserDeletes, Running
    <3> QED
      BY <1>3, <3>1, <3>2, OthersWork DEF Running
  <2>2. ASSUME Undisturbed(m)' PROVE PassInv(m)'
    <3>1. Undisturbed(m) /\ PassInv(m) /\ m \in Present
      BY <1>2, <2>1, <2>2 DEF Undisturbed
    <3>2. SessionsKept(m)
      BY <1>3, <2>2, <3>1, OthersLeave DEF Mine
    <3> QED
      BY <2>1, <3>1, <3>2, PassKept
  <2> QED
    BY <2>1, <2>2, PassFresh
<1>4. CASE Begin(m)
  <2>1. worker'[m].at = "load"
    <3>1. worker'[m] = [at |-> "load", body |-> body[m], version |-> 0, done |-> 0, todo |-> {}]
      BY <1>4, Moves
    <3> QED
      BY <3>1
  <2> QED
    BY <2>1 DEF PassInv
<1>5. CASE LoadProfile(m)
  <2> DEFINE v == profile[worker[m].body.spec.profileRef]
  <2>1. worker'[m] = Moved(m, "nodes", v, worker[m].done, worker[m].todo)
    <3>1. worker'[m] = IF v = 0 THEN Idle ELSE Moved(m, "nodes", v, worker[m].done, worker[m].todo)
      BY <1>5, Moves
    <3> QED
      BY <3>1 DEF Running, Idle
  <2>2. worker'[m].at = "nodes" /\ worker'[m].body = worker[m].body /\ worker'[m].version = v
    BY <2>1 DEF Moved
  <2>3. profile' = profile
    BY <1>5 DEF LoadProfile, profileVars
  <2> QED
    BY <2>2, <2>3 DEF PassInv, Fresh
<1>6. CASE ReadNodes(m)
  <2>1. worker[m].at = "nodes" /\ Running(m)
    BY <1>6 DEF ReadNodes, Running
  <2>2. worker'[m] = Moved(m, "apply", worker[m].version, worker[m].done, worker[m].todo)
    <3>1. worker'[m] # Idle
      BY DEF Running, Idle
    <3> QED
      BY <1>6, <3>1, Moves
  <2>3. /\ worker'[m].at = "apply" /\ worker'[m].body = worker[m].body
        /\ worker'[m].version = worker[m].version /\ worker'[m].done = 0
    BY <2>1, <2>2, PassFacts DEF Moved, PassTypes
  <2>4. PassInv(m)'
    BY <2>3 DEF PassInv
  <2> QED
    BY <2>1, <2>3, <2>4, PassFresh
<1>7. CASE ApplySession(m)
  <2>1. Running(m) /\ worker[m].at = "apply"
    BY <1>7 DEF ApplySession, Running
  <2>2. \E at \in {"list", "apply"} :
           worker'[m] = Moved(m, at, worker[m].version, worker[m].done + 1, worker[m].todo)
    BY <1>7, Moves
  <2>3. worker'[m].body = worker[m].body /\ worker'[m].version = worker[m].version
    BY <2>2 DEF Moved
  <2> QED
    BY <1>2, <1>7, <2>1, <2>3, ApplyPass, PassFresh
<1>8. CASE ListSessions(m)
  <2>1. Running(m) /\ worker[m].at = "list"
    BY <1>8 DEF ListSessions, Running
  <2>2. \E at \in {"report", "delete"} :
           worker'[m] = Moved(m, at, worker[m].version, worker[m].done, Labelled(m) \ WantedNames(m))
    BY <1>8, Moves
  <2>3. worker'[m].body = worker[m].body /\ worker'[m].version = worker[m].version
    BY <2>2 DEF Moved
  <2> QED
    BY <1>2, <1>8, <2>1, <2>3, ListPass, PassFresh
<1>9. CASE DeleteSession(m)
  <2>1. Running(m) /\ worker[m].at = "delete"
    BY <1>9 DEF DeleteSession, Running
  <2>2. \E at \in {"report", "delete"}, k \in worker[m].todo :
           worker'[m] = Moved(m, at, worker[m].version, worker[m].done, worker[m].todo \ {k})
    BY <1>9, Moves
  <2>3. worker'[m].body = worker[m].body /\ worker'[m].version = worker[m].version
    BY <2>2 DEF Moved
  <2> QED
    BY <1>2, <1>9, <2>1, <2>3, DeletePass, PassFresh
<1>10. CASE Report(m) \/ CallFails(m)
  <2>1. worker'[m] = Idle
    BY <1>10, Moves
  <2> QED
    BY <2>1 DEF Running, Idle
<1> QED
  BY <1>3, <1>4, <1>5, <1>6, <1>7, <1>8, <1>9, <1>10 DEF Mine

LEMMA ReportLeaves ==
  ASSUME Types, RunInv, NEW m \in Measurements, Report(m), Undisturbed(m)'
  PROVE  Left(m)'
<1>1. /\ worker[m].at = "report" /\ Running(m)
      /\ UNCHANGED <<body, profile, saves, noterVars, sessions, disturbed, reverted>>
  BY DEF Report, Running, objectVars, profileVars
<1>2. Undisturbed(m) /\ m \in Present
  BY <1>1 DEF Undisturbed, Present
<1>3. handled'[m] = {worker[m].body}
  BY <1>2 DEF Report, Ends, Types, HandledTypes
<1>4. PassInv(m)
  BY <1>1, <1>2 DEF RunInv
<1>5. PICK b, w : b = worker[m].body /\ w = worker[m].version
  OBVIOUS
<1>6. b.spec \in Expandable /\ w \in 1..saves
  <2>1. worker[m].version \in 0..saves /\ worker[m].version > 0 /\ worker[m].body.spec \in Expandable
    BY <1>1, PassFacts DEF PassTypes, Placing, Expandable
  <2>2. saves \in Nat
    BY DEF Types, ObjectTypes
  <2> QED
    BY <1>5, <2>1, <2>2
<1>7. DoneInv(m, b, w)
  <2>1. Wanted(m) = Expansion[b.spec]
    BY <1>5 DEF Wanted
  <2>2. \A s \in Range(Expansion[b.spec]) : Right(m, w, s)
    BY <1>1, <1>4, <1>5, <2>1 DEF PassInv
  <2>3. \A k \in SessionNames : Owns(m, k) => k \in WantedNames(m)
    BY <1>1, <1>4 DEF PassInv
  <2> QED
    BY <1>6, <2>1, <2>2, <2>3 DEF DoneInv, Expandable, WantedNames
<1>8. Kept(m, b) => Fresh(m, b, w)
  BY <1>1, <1>5 DEF RunInv
<1>9. DoneInv(m, b, w)'
  BY <1>1, <1>7 DEF DoneInv, Right, Owns
<1>10. Kept(m, b)' => Fresh(m, b, w)'
  BY <1>1, <1>8 DEF Kept, Present, Fresh, Told, noterVars
<1>11. b \in handled'[m] /\ w \in 1..saves'
  BY <1>1, <1>3, <1>5, <1>6
<1> QED
  BY <1>9, <1>10, <1>11 DEF Left

LEMMA LeftStays ==
  ASSUME Types, [Next]_vars, NEW m \in Measurements, ~Mine(m), m \in Present, Undisturbed(m)',
         handled'[m] = handled[m], Left(m)
  PROVE  Left(m)'
<1>1. PICK b \in handled[m], w \in 1..saves : DoneInv(m, b, w) /\ (Kept(m, b) => Fresh(m, b, w))
  BY DEF Left
<1>2. b \in BodiesNow /\ handled[m] = {b}
  BY DEF Types, HandledTypes
<1>3. SessionsKept(m)
  BY OthersLeave DEF Mine
<1>4. DoneInv(m, b, w)'
  BY <1>1, <1>3, DoneKept
<1>5. Kept(m, b)' => Fresh(m, b, w)'
  <2> SUFFICES ASSUME Kept(m, b)' PROVE Fresh(m, b, w)'
    OBVIOUS
  <2>1. Handles(m, b) /\ ~Begin(m)
    BY <1>2 DEF Handles, Mine
  <2>2. Kept(m, b)
    BY <2>1, StaysKept
  <2> QED
    BY <1>1, <1>2, <2>2, StaysFresh
<1>6. b \in handled'[m] /\ w \in 1..saves'
  BY Grows, MeasurementAssumption
<1> QED
  BY <1>4, <1>5, <1>6 DEF Left

LEMMA RestStep ==
  ASSUME Types, RunInv, [Next]_vars, NEW m \in Measurements, AtRest(m) /\ Undisturbed(m) => Left(m),
         AtRest(m)', Undisturbed(m)'
  PROVE  Left(m)'
<1>1. CASE Mine(m)
  <2>1. m \in Present
    <3>1. body' = body
      BY <1>1, MineLeaves
    <3> QED
      BY <3>1 DEF Undisturbed, Present
  <2>2. outcome \in [Measurements -> Outcomes]
    BY DEF Types, HandledTypes
  <2>3. ~Raises(m)
    BY <2>1, <2>2 DEF Raises, AtRest
  <2>4. PICK how \in Outcomes : Ends(m, how) /\ (how = "ready" => Report(m))
    BY <1>1, <2>3, Endings DEF AtRest
  <2>5. how = "ready"
    BY <2>1, <2>2, <2>4 DEF Ends, AtRest
  <2> QED
    BY <2>4, <2>5, ReportLeaves
<1>2. CASE ~Mine(m)
  <2>1. ~UserDeletes(m)
    <3>1. body \in [Measurements -> BodiesNow \cup {Absent}]
      BY DEF Types, ObjectTypes
    <3> QED
      BY <3>1 DEF UserDeletes, Undisturbed, Present
  <2>2. ~Restart
    <3>1. Restart => m \in resuming'
      BY DEF Restart, Undisturbed, Present, objectVars
    <3> QED
      BY <3>1 DEF AtRest
  <2>3. /\ worker'[m] = worker[m] /\ handled'[m] = handled[m] /\ outcome'[m] = outcome[m]
        /\ m \in resuming' <=> m \in resuming
    BY <1>2, <2>1, <2>2, OthersWork
  <2>4. AtRest(m)
    BY <2>3 DEF AtRest, Running
  <2>5. m \in created
    BY <2>4 DEF AtRest, Types, HandledTypes
  <2>6. m \in Present /\ Undisturbed(m)
    BY <2>5, Undisturbing DEF Undisturbed
  <2> QED
    BY <1>2, <2>3, <2>4, <2>6, LeftStays
<1> QED
  BY <1>1, <1>2

LEMMA InvariantInit == Init => Invariant
<1> SUFFICES ASSUME Init PROVE Invariant
  OBVIOUS
<1>1. RunInv
  BY DEF Init, RunInv, Running, Idle
<1>2. RestInv
  BY DEF Init, RestInv, AtRest
<1> QED
  BY <1>1, <1>2, TypesInit DEF Invariant

LEMMA InvariantStep == Invariant /\ [Next]_vars => Invariant'
<1> SUFFICES ASSUME Invariant, [Next]_vars PROVE Invariant'
  OBVIOUS
<1>0. Types /\ RunInv /\ RestInv
  BY DEF Invariant
<1>1. Types'
  BY <1>0, TypesStep
<1>2. RunInv'
  BY <1>0, RunStep DEF RunInv
<1>3. RestInv'
  <2>1. ASSUME NEW m \in Measurements, AtRest(m)', Undisturbed(m)' PROVE Left(m)'
    BY <1>0, <2>1, RestStep DEF RestInv, Left
  <2> QED
    BY <2>1 DEF RestInv, Left
<1> QED
  BY <1>1, <1>2, <1>3 DEF Invariant

LEMMA InvariantShows == Invariant => SettledIsExpanded
<1> SUFFICES ASSUME Invariant, NEW m \in Measurements,
                    Settled(m), outcome[m] = "ready", NameOf[m] \notin disturbed
             PROVE  Placed(m) /\ (m \notin reverted => UpToDate(m))
  BY DEF SettledIsExpanded
<1>1. AtRest(m) /\ Undisturbed(m) /\ handled[m] = {body[m]} /\ m \in Present
  BY DEF Settled, Due, AtRest, Undisturbed
<1>2. PICK b \in handled[m], w \in 1..saves : DoneInv(m, b, w) /\ (Kept(m, b) => Fresh(m, b, w))
  BY <1>1 DEF Invariant, RestInv, Left
<1>3. b = body[m]
  BY <1>1
<1>4. \A d \in Demanded(m) : \E s \in Range(Expansion[b.spec]) :
         d[1] = SessionName(NameOf[m], s) /\ d[2] = s
  BY <1>3 DEF Demanded
<1>5. \A s \in Range(Expansion[b.spec]) : <<SessionName(NameOf[m], s), s>> \in Demanded(m)
  BY <1>3 DEF Demanded
<1>6. ASSUME NEW d \in Demanded(m)
      PROVE  LET session == sessions[d[1]]
             IN  /\ session.at = "live" /\ session.owner = m /\ AsDemanded(session.spec, d[2])
                 /\ session.version = w
  BY <1>2, <1>4 DEF DoneInv, Right
<1>7. ASSUME NEW k \in SessionNames, sessions[k].at = "live", sessions[k].owner = m
      PROVE  k \in {d[1] : d \in Demanded(m)}
  <2>1. PICK s \in Range(Expansion[b.spec]) : k = SessionName(NameOf[m], s)
    BY <1>2, <1>7 DEF DoneInv, Owns
  <2>2. <<k, s>> \in Demanded(m)
    BY <1>5, <2>1
  <2> QED
    BY <2>2
<1>8. Placed(m)
  BY <1>6, <1>7 DEF Placed
<1>9. ASSUME m \notin reverted PROVE UpToDate(m)
  <2>1. Fresh(m, b, w)
    BY <1>1, <1>2, <1>3, <1>9 DEF Kept
  <2>2. w = profile[ProfileOf(m)]
    BY <1>3, <2>1 DEF Fresh, Settled, ProfileOf
  <2> QED
    BY <1>6, <2>2 DEF UpToDate
<1> QED
  BY <1>8, <1>9

(* A measurement that was handled with success and for which nothing is    *)
(* left to do has the sessions its spec asks for and no other, whatever    *)
(* users, failures, restarts and the handlers of other objects did between *)
(* its handler's calls, and, but for a body that came back, the settings   *)
(* of the profile as it now is.                                            *)
THEOREM SettledMeasurementsAreExpanded == Spec => []SettledIsExpanded
BY InvariantInit, InvariantStep, InvariantShows, PTL DEF Spec
=============================================================================
