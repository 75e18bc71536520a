---------------------------- MODULE MCPeerTable ----------------------------
(***************************************************************************)
(* Model values for PeerWalk.                                              *)
(***************************************************************************)
EXTENDS PeerWalk

CONSTANTS p1, p2, h1

MCPeers == {p1, p2}
MCNames == {h1}
=============================================================================
