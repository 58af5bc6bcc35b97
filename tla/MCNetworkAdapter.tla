-------------------------- MODULE MCNetworkAdapter --------------------------
(***************************************************************************)
(* NetworkAdapter for TLC: two netif tasks, a card reset and the Bluetooth *)
(* controller, of which the first and the last may be out of memory; or    *)
(* two card resets at once beside Bluetooth.                               *)
(***************************************************************************)
EXTENDS NetworkAdapter

CONSTANTS n1, n2, r1, r2, b1

MCNetTasks    == {n1, n2}
MCResetTasks  == {r1, r2}
MCBtTasks     == {b1}
MCMallocFails == {n1, b1}

Callers == {t \in Task : calls[t] = 0}

MCInit == Init /\ Callers \in {{n1, r1, b1}, {n2, r1, r2}}
MCSpec == MCInit /\ [][Next]_vars /\ Fairness
=============================================================================
