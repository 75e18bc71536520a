----------------------------- MODULE Supervisor -----------------------------
(***************************************************************************)
(* What the exporter promises of its iperf child, whoever supervises it    *)
(* (iperf_exporter/iperf.py, class IPerf): there is one child at a time, a *)
(* new one is started only after the last one has ended, every end is      *)
(* counted as a restart at most once, and the exporter lets go of a child  *)
(* only when it does not run any more.                                     *)
(*                                                                         *)
(* IPerfProcess implements this with its threads and its lock.             *)
(***************************************************************************)
EXTENDS Naturals

CONSTANT NoChild

VARIABLES
    current,    \* the child the exporter knows, or NoChild
    up,         \* the children that run and were not sent SIGKILL
    restarts    \* restart_count

vars == <<current, up, restarts>>

Init ==
    /\ current = NoChild
    /\ up = {}
    /\ restarts = 0

(* A child is started, and nothing competes with it.                       *)
Start ==
    /\ current = NoChild
    /\ up = {}
    /\ current' # NoChild
    /\ up' = {current'}
    /\ UNCHANGED restarts

(* The child ends by itself, or is killed.                                 *)
End ==
    /\ up' = {}
    /\ UNCHANGED <<current, restarts>>

(* Its end is noticed and counted, and the exporter forgets it.            *)
Notice ==
    /\ current # NoChild
    /\ up = {}
    /\ current' = NoChild
    /\ restarts' = restarts + 1
    /\ UNCHANGED up

(* The exporter stops its child and lets go of it.                         *)
LetGo ==
    /\ current' = NoChild
    /\ up' = {}
    /\ UNCHANGED restarts

Next == Start \/ End \/ Notice \/ LetGo

Spec == Init /\ [][Next]_vars
=============================================================================
