--------------------------- MODULE MCRrcConnection ---------------------------
(***************************************************************************)
(* Small instances of the connection of UEs.  A tick is 15 ms, the default *)
(* of ConnectionRequestTimeoutDuration; the other timers are the defaults  *)
(* of LteUeRrc and LteEnbRrc: T300 100 ms, ConnectionSetupTimeoutDuration  *)
(* 150 ms, ConnectionRejectedTimeoutDuration 30 ms, rounded up.            *)
(***************************************************************************)
EXTENDS RrcConnection

OneImsi == {1}
TwoImsis == {1, 2}

NoFault == [f \in FaultKind |-> 0]
Rejection == [NoFault EXCEPT !["rejects"] = 1]
LostResponse == [NoFault EXCEPT !["losses"] = 1, !["rars"] = 1]
Releases == [NoFault EXCEPT !["releases"] = 1, !["activations"] = 1]

(* Two UEs, in each way a run may go wrong.                                *)
EachFault == {Rejection, LostResponse, Releases}

(* One UE, with more of them.                                              *)
ManyFaults == {[NoFault EXCEPT !["losses"] = 2, !["rejects"] = 1, !["rars"] = 1]}

LostResponseOnly == {[NoFault EXCEPT !["rars"] = 1]}
OneRelease == {[NoFault EXCEPT !["releases"] = 1]}
NoFaults == {NoFault}
===============================================================================
