------------------------- MODULE MCSessionOperator -------------------------
(***************************************************************************)
(* Model values for SessionOperator: a probe of a remote client against a  *)
(* local server, and the same client as continuous traffic against the     *)
(* same server, or against a server that moved to the client's cluster.    *)
(***************************************************************************)
EXTENDS SessionOperator

MCClusters == {"local", "remote"}
Session(mode, server, client) == [mode |-> mode, server |-> server, client |-> client]
MCProbe == {Session("probe", "local", "remote")}
MCModes == MCProbe \cup {Session("continuous", "local", "remote")}
MCMoves == MCProbe \cup {Session("continuous", "remote", "remote")}
=============================================================================
