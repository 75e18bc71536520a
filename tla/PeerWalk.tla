------------------------------ MODULE PeerWalk ------------------------------
(***************************************************************************)
(* A request that builds a metric family from the table of peers           *)
(* (iperf_exporter/collector.py, the loops over server.output) while other *)
(* requests feed lines to the table and the cleanup thread ages it.        *)
(*                                                                         *)
(* The loop holds no lock.  It walks the dictionary it found in            *)
(* server.output: a connection announced under a new peer id is inserted   *)
(* into that very dictionary, a round of the cleanup installs another one, *)
(* after which the walk goes on over the old one and lines go to the new.  *)
(* CPython's iterator compares the size of the dictionary with the size at *)
(* the beginning, at every step and at the end, and raises RuntimeError    *)
(* when they differ, which fails the request and is counted nowhere.       *)
(***************************************************************************)
EXTENDS PeerTable

VARIABLES
    at,         \* "idle", "walking", "exported"
    dict,       \* the keys of the dictionary being walked
    shared,     \* it still is server.output
    size,       \* its size when the walk began
    seen,       \* the peers visited, in the family that is exported
    began       \* history: the retained peers when the walk began

walkVars == <<at, dict, shared, size, seen, began>>
walkingVars == <<vars, walkVars>>

(* Types; and what is walked contains what was there at the beginning.     *)
WalkTypeOK ==
    /\ at \in {"idle", "walking", "exported"}
    /\ shared \in BOOLEAN
    /\ dict \subseteq Peers
    /\ shared => dict = Retained
    /\ seen \subseteq dict /\ began \subseteq dict
    /\ size = Cardinality(began)
    /\ at = "idle" => seen = {}

NoWalk ==
    /\ at = "idle"
    /\ dict = {} /\ seen = {} /\ began = {}
    /\ shared = FALSE
    /\ size = 0

WalkInit == Init /\ NoWalk

-----------------------------------------------------------------------------
(* A line of another request; the dictionary is changed in place.          *)
LineMeanwhile ==
    /\ Line
    /\ dict' = IF shared THEN DOMAIN output' ELSE dict
    /\ UNCHANGED <<at, shared, size, seen, began>>

(* Mutation: expired entries are deleted from the dictionary in place.     *)
CleanupInPlace ==
    /\ CleanupTick
    /\ dict' = IF shared THEN DOMAIN output' ELSE dict
    /\ UNCHANGED <<at, shared, size, seen, began>>

(* A round of the cleanup installs a dictionary of its own.                *)
CleanupMeanwhile ==
    /\ CleanupTick
    /\ shared' = FALSE
    /\ UNCHANGED <<at, dict, size, seen, began>>

BeginWalk ==
    /\ at = "idle"
    /\ at' = "walking"
    /\ dict' = Retained /\ shared' = TRUE
    /\ size' = Cardinality(Retained)
    /\ began' = Retained
    /\ UNCHANGED <<vars, seen>>

SizeChanged == size # Cardinality(dict)

VisitPeer ==
    /\ at = "walking"
    /\ ~SizeChanged
    /\ \E p \in dict \ seen : seen' = seen \cup {p}
    /\ UNCHANGED <<vars, at, dict, shared, size, began>>

EndWalk ==
    /\ at = "walking"
    /\ ~SizeChanged
    /\ dict \subseteq seen
    /\ at' = "exported"
    /\ UNCHANGED <<vars, dict, shared, size, seen, began>>

(* The walk raises, or its family is on its way: the next walk may begin.  *)
LeaveWalk ==
    /\ at' = "idle"
    /\ dict' = {} /\ seen' = {} /\ began' = {}
    /\ shared' = FALSE
    /\ size' = 0
    /\ UNCHANGED vars

WalkRaises == at = "walking" /\ SizeChanged /\ LeaveWalk
NextFamily == at = "exported" /\ LeaveWalk

WalkNext ==
    \/ LineMeanwhile \/ CleanupMeanwhile
    \/ BeginWalk \/ VisitPeer \/ EndWalk \/ WalkRaises \/ NextFamily

(* The fairness is the table's.                                            *)
WalkSpec == WalkInit /\ [][WalkNext]_walkingVars /\ WF_vars(CleanupTick)

-----------------------------------------------------------------------------
(***************************************************************************)
(* Properties                                                              *)
(***************************************************************************)
(* A family that is exported has the peers retained at one instant, when   *)
(* its walk began, each once and no other: though entries expire, ids are  *)
(* announced and used again while it is built.  The size alone would not   *)
(* notice one entry going and another one coming: that the cleanup never   *)
(* deletes from the dictionary in use is what makes the check sufficient.  *)
FamiliesAreSnapshots == at = "exported" => seen = began
=============================================================================
