-------------------------- MODULE ConnectionLedger --------------------------
(***************************************************************************)
(* What test_runs_total promises of the connections iperf announced        *)
(* (iperf_exporter/iperf.py, class IPerfServer): each one waits for its    *)
(* first valid report, and leaves that state once, by succeeding, by       *)
(* timing out with the other entries of a cleanup round, or by being       *)
(* overwritten under its peer id, which no counter shows.  An outcome is   *)
(* never counted for a connection that does not wait, nor taken back.      *)
(***************************************************************************)
EXTENDS Naturals

VARIABLES
    opened,     \* connections_total
    waiting,    \* connections without an outcome
    success,    \* test_runs_total["success"]
    timeout,    \* test_runs_total["timeout"]
    lost        \* connections overwritten before they had an outcome

vars == <<opened, waiting, success, timeout, lost>>

Init == opened = 0 /\ waiting = 0 /\ success = 0 /\ timeout = 0 /\ lost = 0

Open ==
    /\ opened' = opened + 1
    /\ waiting' = waiting + 1
    /\ UNCHANGED <<success, timeout, lost>>

(* The new connection takes the place of one that was waiting.             *)
OpenOver ==
    /\ waiting > 0
    /\ opened' = opened + 1
    /\ lost' = lost + 1
    /\ UNCHANGED <<waiting, success, timeout>>

Succeed ==
    /\ waiting > 0
    /\ waiting' = waiting - 1
    /\ success' = success + 1
    /\ UNCHANGED <<opened, timeout, lost>>

TimeOut ==
    /\ \E k \in 1..waiting :
          /\ waiting' = waiting - k
          /\ timeout' = timeout + k
    /\ UNCHANGED <<opened, success, lost>>

Next == Open \/ OpenOver \/ Succeed \/ TimeOut

Spec == Init /\ [][Next]_vars
=============================================================================
