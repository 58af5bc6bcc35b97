---------------------------- MODULE MCWifiSetup ----------------------------
(***************************************************************************)
(* WifiSetup for TLC: two access points, of which one resembles the phone  *)
(* and the other has a virtual address.  The web server alone takes two    *)
(* forms while the station is on one of them, or two updates with a        *)
(* restart; beside provisioning, one form.                                 *)
(***************************************************************************)
EXTENDS WifiSetup

CONSTANTS a1, a2

MCAP == {a1, a2}
MCMatch == {a1}
MCVirtual == {a2}
MCForms == [x \in SUBSET {"web", "prov"} |-> IF x = {"web"} THEN {a1, NoAP} ELSE {a1}]

Use(p, o, r) == posts = p /\ otas = o /\ restarts = r
MCInit ==
    /\ Init /\ conf # a1
    /\ CASE app = {"web"} -> (Use(2, 0, 0) /\ conf = a2) \/ Use(0, 2, 1)
         [] app = {"web", "prov"} -> Use(1, 0, 0)
         [] OTHER -> Use(0, 0, 1)
MCSpec == MCInit /\ [][Next]_vars /\ Fairness
=============================================================================
