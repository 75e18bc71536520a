--------------------------- MODULE MCIPerfServer ---------------------------
(***************************************************************************)
(* Model values for IPerfServer.                                           *)
(***************************************************************************)
EXTENDS IPerfServer

CONSTANTS p1, p2, s1

MCPeers == {p1, p2}
MCScrapers == {s1}
=============================================================================
