---------------------------- MODULE MCBapForwarding ----------------------------
(* Instances of BapForwarding for TLC.  One frequency, so that every tree  *)
(* is built.  The nodes are interchangeable and only the equality of       *)
(* addresses matters, so the scenarios that differ in the order of the     *)
(* installations, or in the names of the nodes, are left out: the devices  *)
(* are installed, and the nodes attached, in the order below.              *)
EXTENDS BapFlows

CONSTANTS d1, n1, n2, n3, f1

OneDonor == {d1}
ThreeNodes == {n1, n2, n3}
OneCarrier == [dev \in OneDonor \cup IabNodes |-> f1]
MtOneCarrier == [n \in IabNodes |-> f1]

(* RLC AM and applications that wait for the backhaul; RLC UM and ones that *)
(* do not wait.                                                            *)
PatientAndHasty == {[bearer |-> "am", start |-> "backhaul"],
                    [bearer |-> "um", start |-> "any_time"]}

ScriptOrder == <<d1, n1, n2, n3>>

ScriptedInOrder ==
  \A i, j \in DOMAIN ScriptOrder :
    LET before == ScriptOrder[i]
        after == ScriptOrder[j]
    IN  i < j /\ after \in Device =>
          /\ Installed(after) => Installed(before)
          /\ before \in IabNodes /\ Attached(after) => Attached(before)
================================================================================
