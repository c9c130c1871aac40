---------------------------- MODULE OrderedChannel -----------------------------
(***************************************************************************)
(* An ordered channel: an SDU that was accepted is delivered once, after   *)
(* those accepted before it; several may be delivered in one step.  It is  *)
(* what an RLC AM bearer promises: RlcAm implements it.                    *)
(***************************************************************************)
EXTENDS Naturals, Sequences

CONSTANT
  MaxSdus     \* bound: the SDUs that are handed over in all

VARIABLES
  sdus,       \* the number of SDUs handed over so far
  inFlight,   \* accepted and not yet delivered, oldest first
  received    \* delivered, in the order of delivery

channelVars == <<sdus, inFlight, received>>

Init ==
  /\ sdus = 0
  /\ inFlight = <<>>
  /\ received = <<>>

Accept ==
  /\ sdus < MaxSdus
  /\ sdus' = sdus + 1
  /\ inFlight' = Append(inFlight, sdus + 1)
  /\ UNCHANGED received

Deliver ==
  \E n \in 1..Len(inFlight) :
    /\ inFlight' = SubSeq(inFlight, n + 1, Len(inFlight))
    /\ received' = received \o SubSeq(inFlight, 1, n)
    /\ UNCHANGED sdus

Next == Accept \/ Deliver

Spec == Init /\ [][Next]_channelVars
================================================================================
