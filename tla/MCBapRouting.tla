----------------------------- MODULE MCBapRouting ------------------------------
(* Instance of BapRouting for TLC: out-of-band backhaul with two donors,   *)
(* where n1 relays from f1 to f2 and only n2 listens to f2.  All others    *)
(* use f1, so they build the trees of in-band backhaul as well.            *)
EXTENDS BapRouting

CONSTANTS d1, d2, n1, n2, n3, n4, f1, f2

TwoDonors == {d1, d2}
FourNodes == {n1, n2, n3, n4}
RelayDu == [dev \in TwoDonors \cup FourNodes |-> IF dev = n1 THEN f2 ELSE f1]
RelayMt == [n \in FourNodes |-> IF n = n2 THEN f2 ELSE f1]
================================================================================
