---------------------------- MODULE MCPathTrace ----------------------------
(***************************************************************************)
(* Model values for PathTrace.                                             *)
(***************************************************************************)
EXTENDS PathTrace

CONSTANTS p1, p2, s1, s2

MCPairs == {p1, p2}
MCScrapers == {s1, s2}
=============================================================================
