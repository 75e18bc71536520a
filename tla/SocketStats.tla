---------------------------- MODULE SocketStats ----------------------------
(***************************************************************************)
(* What one run of ss says about the sockets of the exporter's port        *)
(* (iperf_exporter/socket_stats.py, SocketStatsCollector._parse_output),   *)
(* and how a connection iperf announced finds its socket                   *)
(* (iperf_exporter/collector.py, _find_socket_snapshot).                   *)
(*                                                                         *)
(* A line is a row of the table ("row", with its port and addresses), a    *)
(* text that is not a row ("text": the header, or the details ss -i prints *)
(* below a TCP row, "good" if all its values can be converted), or blank.  *)
(* The values of a socket are abstracted to the number of the line they    *)
(* were read from; 0 stands for an absent detail line.                     *)
(***************************************************************************)
EXTENDS Naturals, Sequences, SequencesExt

(* An address as it is printed: the host and how it is written.            *)
Spellings == {"plain", "mapped", "scoped"}

(* _normalize_address drops brackets, the scope and the ::ffff: prefix, so *)
(* all spellings of a host become one.                                     *)
Normalized(address) == [address EXCEPT !.spelling = "plain"]

(* iperf's announcement is matched by a pattern that drops the scope of    *)
(* the local address; nothing else is normalized.                          *)
WithoutScope(address) ==
    IF address.spelling = "scoped" THEN [address EXCEPT !.spelling = "plain"] ELSE address

SocketKey(connection) == <<WithoutScope(connection.local), connection.peer>>

(* The key of a row, without the port, which is the exporter's.            *)
RowKey(line) == <<Normalized(line.local), Normalized(line.peer)>>

IsRow(line) == line.kind = "row"

(* Only ss -tin prints details, and a row or a blank line is never one.    *)
HasDetail(proto, lines, i) ==
    /\ proto = "tcp"
    /\ i < Len(lines)
    /\ lines[i + 1].kind = "text"

Snapshot(proto, lines, i) ==
    [row |-> i, detail |-> IF HasDetail(proto, lines, i) THEN i + 1 ELSE 0]

(* A detail line is parsed only for a row of the exporter's port.          *)
Raises(proto, lines, i) == HasDetail(proto, lines, i) /\ ~lines[i + 1].good

NoSockets == [key \in {} |-> [row |-> 0, detail |-> 0]]

Put(sockets, key, snapshot) ==
    [k \in DOMAIN sockets \cup {key} |-> IF k = key THEN snapshot ELSE sockets[k]]

(* The loop of _parse_output up to line i: the sockets found, the line it  *)
(* looks at next, and whether a conversion raised.                         *)
ParsedTo(proto, lines) ==
    LET Visit(seen, i) ==
            IF seen.raised \/ i < seen.next \/ ~IsRow(lines[i]) THEN seen
            ELSE [sockets |-> IF lines[i].own
                              THEN Put(seen.sockets, RowKey(lines[i]), Snapshot(proto, lines, i))
                              ELSE seen.sockets,
                  next |-> i + (IF HasDetail(proto, lines, i) THEN 2 ELSE 1),
                  raised |-> lines[i].own /\ Raises(proto, lines, i)]
    IN  FoldLeftDomain(Visit, [sockets |-> NoSockets, next |-> 1, raised |-> FALSE], lines)

ParseRaises(proto, lines) == ParsedTo(proto, lines).raised
ParseOutput(proto, lines) == ParsedTo(proto, lines).sockets

(* _find_socket_snapshot: the connection's own key, or that of a socket    *)
(* bound to a wildcard address, in this order.                             *)
Wildcards == <<"0.0.0.0", "::", "*">>
WildcardKey(connection, i) ==
    <<[host |-> Wildcards[i], spelling |-> "plain"], connection.peer>>

CandidateKeys(connection) ==
    <<SocketKey(connection)>> \o [i \in DOMAIN Wildcards |-> WildcardKey(connection, i)]

(* The snapshots a connection finds: none, or one.                         *)
FoundSockets(connection, sockets) ==
    LET keys == CandidateKeys(connection)
        isHit(i) == keys[i] \in DOMAIN sockets
    IN  {sockets[keys[i]] :
            i \in {j \in DOMAIN keys : isHit(j) /\ \A k \in 1..(j - 1) : ~isHit(k)}}

-----------------------------------------------------------------------------
(* The reference: the loop finds exactly the rows of the exporter's port,  *)
(* the last one of every key, each with the text line just below it.       *)
OwnRows(lines) == {i \in DOMAIN lines : IsRow(lines[i]) /\ lines[i].own}

LastRow(lines, i) == \A j \in OwnRows(lines) : RowKey(lines[j]) = RowKey(lines[i]) => j <= i

TextBelow(lines, i) == i + 1 \in DOMAIN lines /\ lines[i + 1].kind = "text"

ParsesAs(proto, lines, sockets) ==
    /\ DOMAIN sockets = {RowKey(lines[i]) : i \in OwnRows(lines)}
    /\ \A key \in DOMAIN sockets : \E i \in OwnRows(lines) :
          /\ RowKey(lines[i]) = key /\ LastRow(lines, i)
          /\ sockets[key] = [row |-> i,
                             detail |-> IF proto = "tcp" /\ TextBelow(lines, i)
                                        THEN i + 1 ELSE 0]

(* It raises exactly when a socket of the port has a bad line below it.    *)
ShouldRaise(proto, lines) ==
    proto = "tcp" /\ \E i \in OwnRows(lines) : TextBelow(lines, i) /\ ~lines[i + 1].good

ParseCorrect(proto, lines) ==
    /\ ParseRaises(proto, lines) <=> ShouldRaise(proto, lines)
    /\ ~ShouldRaise(proto, lines) => ParsesAs(proto, lines, ParseOutput(proto, lines))
=============================================================================
