--------------------------- MODULE MCIPerfProcess ---------------------------
(***************************************************************************)
(* Model values for IPerfProcess: one scrape at a time.                    *)
(***************************************************************************)
EXTENDS IPerfProcess

CONSTANT s1

MCScrapers == {s1}
=============================================================================
