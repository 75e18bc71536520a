--------------------------- MODULE MCMeasurement ---------------------------
(***************************************************************************)
(* A measurement and one that is created under its name after it was       *)
(* deleted, and the expansion of every spec over small fields.             *)
(***************************************************************************)
EXTENDS MeasurementOperator

CONSTANTS m1, m2, profile1, remote

MCNameOf == [m \in {m1, m2} |-> "link"]

At(cluster, node) == [cluster |-> cluster, node |-> node]

MCSpec(modes, directions, cluster, execution) ==
    [profileRef   |-> profile1,
     source       |-> At(Local, "a"),
     destination  |-> At(cluster, "b"),
     directions   |-> directions,
     networkModes |-> modes,
     execution    |-> execution]

Continuous == [mode |-> {}, every |-> {}, duration |-> {}]
Bounded == [mode |-> {"probe"}, every |-> {}, duration |-> {5}]
Forth == {<<"sourceToDestination">>}

(* One mode between two clusters; two modes in one cluster, probed.        *)
MCUserSpecs ==
    {MCSpec({<<"host">>}, Forth, remote, Continuous),
     MCSpec({<<"pod", "host">>}, Forth, Local, Bounded)}

-----------------------------------------------------------------------------
Orders(S) == UNION {[1..n -> S] : n \in 0..2}
Optional(S) == {{}} \cup {{v} : v \in S}

MCExecutions ==
    [mode     : Optional({"continuous", "probe", "periodicProbe", "other"}),
     every    : Optional({0, 30}),
     duration : Optional({0, 5})]

ASSUME ExpansionAssumption ==
    \A modes \in Optional(Orders(NetworkModes \cup {"other"})),
       directions \in Optional(Orders(Directions \cup {"other"})),
       cluster \in {Local, remote}, execution \in MCExecutions :
          LET spec == MCSpec(modes, directions, cluster, execution)
          IN  Valid(spec) => ExpandCorrect(spec)
=============================================================================
