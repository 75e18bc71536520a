------------------------------- MODULE Specs -------------------------------
(***************************************************************************)
(* What a LinkMeasurement asks for (iperf_operator/specs.py): the session  *)
(* specs its spec expands to, one for every network mode and direction.    *)
(*                                                                         *)
(* An optional field is a set of at most one value.  An endpoint is a      *)
(* record of its cluster and its node.  Of an execution the fields that    *)
(* normalize_execution leaves out are 0.                                   *)
(*                                                                         *)
(* Left out: the addresses of the nodes, the runtime image and the         *)
(* exporter's settings (the version of the profile stands for them), and   *)
(* what the schema of the resources already refuses of them.               *)
(***************************************************************************)
EXTENDS Naturals, Sequences, FiniteSets, Functions

CONSTANT Local      \* the operator's own cluster

Directions == {"sourceToDestination", "destinationToSource"}
NetworkModes == {"host", "pod", "service"}
ExecutionModes == {"continuous", "probe", "periodicProbe"}
DefaultDirections == <<"sourceToDestination", "destinationToSource">>
DefaultNetworkModes == <<"pod">>

Given(field, default) == IF field = {} THEN default ELSE CHOOSE v \in field : TRUE

DirectionsOf(spec) == Given(spec.directions, DefaultDirections)
ModesOf(spec) == Given(spec.networkModes, DefaultNetworkModes)

-----------------------------------------------------------------------------
(* normalize_execution: the mode is supported, a periodic probe has a      *)
(* period, and a duration that is given is positive.                       *)
ExecutionMode(execution) == Given(execution.mode, "continuous")

ExecutionValid(execution) ==
    /\ ExecutionMode(execution) \in ExecutionModes
    /\ ExecutionMode(execution) = "periodicProbe" => Given(execution.every, 0) > 0
    /\ \A d \in execution.duration : d > 0

Execution(execution) ==
    [mode     |-> ExecutionMode(execution),
     every    |-> IF ExecutionMode(execution) = "periodicProbe"
                  THEN Given(execution.every, 0) ELSE 0,
     duration |-> Given(execution.duration, 0)]

-----------------------------------------------------------------------------
(* The checks of expand_measurement_sessions; a ValueError otherwise.      *)
Listed(values, supported) ==
    /\ values # <<>>
    /\ IsInjective(values)
    /\ Range(values) \subseteq supported

Valid(spec) ==
    /\ Listed(DirectionsOf(spec), Directions)
    /\ Listed(ModesOf(spec), NetworkModes)
    /\ spec.source.cluster # spec.destination.cluster => Range(ModesOf(spec)) = {"host"}
    /\ ExecutionValid(spec.execution)

(* The spec of one session.  The session's source is where its client      *)
(* runs: the measurement's destination, in the opposite direction.         *)
Session(spec, mode, direction) ==
    LET forth == direction = "sourceToDestination"
    IN  [mode        |-> mode,
         direction   |-> direction,
         source      |-> IF forth THEN spec.source ELSE spec.destination,
         destination |-> IF forth THEN spec.destination ELSE spec.source,
         execution   |-> Execution(spec.execution)]

(* All of them, direction by direction under every mode.                   *)
Expand(spec) ==
    LET modes == ModesOf(spec)
        directions == DirectionsOf(spec)
    IN  [i \in 1..(Len(modes) * Len(directions)) |->
            Session(spec, modes[((i - 1) \div Len(directions)) + 1],
                    directions[((i - 1) % Len(directions)) + 1])]

(* stable_name of the measurement, the mode and the direction.             *)
SessionName(name, session) == <<name, session.mode, session.direction>>

(* A JSON merge patch: a field the new spec does not have stays.           *)
MergedField(old, new) == IF new = 0 THEN old ELSE new

Merged(old, new) ==
    [new EXCEPT !.execution =
        [mode     |-> @.mode,
         every    |-> MergedField(old.execution.every, @.every),
         duration |-> MergedField(old.execution.duration, @.duration)]]

-----------------------------------------------------------------------------
(***************************************************************************)
(* What an expansion is to be, said without its loops.                     *)
(***************************************************************************)
(* The documentation: a session for every direction and network mode that  *)
(* is asked for, under different names, its server on the node the traffic *)
(* goes to; sessions of two clusters use the host network; only a session  *)
(* that is probed periodically has a period.                               *)
ExpandCorrect(spec) ==
    LET sessions == Range(Expand(spec))
        names == {SessionName("m", s) : s \in sessions}
    IN  /\ names = {"m"} \X Range(ModesOf(spec)) \X Range(DirectionsOf(spec))
        /\ Len(Expand(spec)) = Cardinality(names)
        /\ \A s \in sessions :
              /\ {s.source, s.destination} = {spec.source, spec.destination}
              /\ s.source = spec.source \/ s.direction = "destinationToSource"
              /\ s.destination = spec.destination \/ s.direction = "destinationToSource"
              /\ s.source.cluster # s.destination.cluster => s.mode = "host"
              /\ s.execution.every > 0 <=> s.execution.mode = "periodicProbe"
        /\ \A s, t \in sessions :
              s.mode = t.mode /\ s.direction # t.direction =>
                  s.source = t.destination /\ s.destination = t.source
=============================================================================
