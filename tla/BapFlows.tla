------------------------------- MODULE BapFlows --------------------------------
(***************************************************************************)
(* What the backhaul promises to each flow: BapForwarding implements       *)
(* OrderedChannels, with a channel for every source, destination and kind  *)
(* of traffic.                                                             *)
(***************************************************************************)
EXTENDS BapForwarding

(* The packets in the queues between the devices, and the numbers of those *)
(* of one flow.                                                            *)
PacketsIn(queues) == UNION {{queues[link][i] : i \in DOMAIN queues[link]} : link \in DOMAIN queues}

IdsIn(queues, flow) ==
  {packet.sdu.id : packet \in {p \in PacketsIn(queues) : p.sdu.flow = flow}}

InFlight == [flow \in Flow |-> IdsIn(air, flow)]

SdusOf(handed) == [i \in DOMAIN handed |-> handed[i].sdu]

Received == [dev \in Device |-> SdusOf(delivered[dev])]

Channels == INSTANCE OrderedChannels WITH
  Channel <- Flow,
  lossy <- scenario.bearer = "um",
  inFlight <- InFlight,
  received <- Received,
  failed <- crash # "none"

(* Wherever its packets are among the hops of its route, a flow is an      *)
(* ordered channel: what its source hands over is delivered at its         *)
(* destination once and in order, only RLC UM loses packets, and only a    *)
(* check of the BAP code that fails takes an SDU that was handed over.     *)
(* (Bap::DoTransmitBapSdu, Bap::DoReceiveBapPdu, Bap::DoTransmitBapPdu.)   *)
FlowsAreOrderedChannels == Channels!Spec
================================================================================
