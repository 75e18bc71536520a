------------------------------ MODULE MCScrape ------------------------------
(***************************************************************************)
(* Model values for Scrape, outputs of ss that put rows, details and other *)
(* lines next to each other, and the parser on every short output.         *)
(***************************************************************************)
EXTENDS Scrape

CONSTANTS s1, s2, p1

MCScrapers == {s1, s2}
MCPeerIds == {p1}

MCSymmetry == Permutations(MCScrapers)

Address(host, spelling) == [host |-> host, spelling |-> spelling]
Client == Address("client", "plain")
MCConnections ==
    {[local |-> Address("server", "scoped"), peer |-> Client],
     [local |-> Address("other", "plain"), peer |-> Client]}

Row(own, host, spelling) ==
    [kind |-> "row", own |-> own, local |-> Address(host, spelling),
     peer |-> Client]
Text(good) == [kind |-> "text", good |-> good]
Blank == [kind |-> "blank"]

MCOutputs ==
    {<<Row(TRUE, "server", "plain"), Row(TRUE, "*", "plain"), Text(TRUE)>>,
     <<Row(TRUE, "server", "mapped"), Text(TRUE), Row(TRUE, "server", "plain"), Blank>>,
     <<Row(TRUE, "other", "plain"), Text(FALSE)>>}

(* The loop of _parse_output against its reference.                        *)
MCLines ==
    {Row(TRUE, "server", "plain"), Row(TRUE, "server", "mapped"), Row(FALSE, "server", "plain"),
     Row(TRUE, "*", "plain"), Text(TRUE), Text(FALSE), Blank}

ASSUME ParserAssumption ==
    \A n \in 0..4 : \A lines \in [1..n -> MCLines] : \A proto \in {"udp", "tcp"} :
        ParseCorrect(proto, lines)

ASSUME OutputsAssumption == \A lines \in MCOutputs : ParseCorrect(Proto, lines)
=============================================================================
