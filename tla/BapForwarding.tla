----------------------------- MODULE BapForwarding -----------------------------
(***************************************************************************)
(* Packets on the backhaul.  The scenario builds the topology and starts   *)
(* the simulation; then each IAB node's MT connects to its parent, which   *)
(* gives the two ends of the backhaul link their entries in the RLC maps   *)
(* of the BAP entities, and the BAP entities send packets from hop to hop  *)
(* by the donor's routing tables.                                          *)
(*                                                                         *)
(* The simulator runs one event at a time, so each action below is one     *)
(* event with every call it makes.  The radio between two RLC entities     *)
(* (RLC, MAC and PHY) is an ordered queue; RLC UM may lose what is in it.  *)
(***************************************************************************)
EXTENDS BapRouting, BapHeader

CONSTANTS
  MaxSdus,        \* bound: the SDUs the devices hand over in all
  Scenarios       \* the RLC of the bearers (UM is the default of MmWaveHelper),
                  \* and what the applications of a node wait for

ASSUME ForwardingAssumption ==
  /\ MaxSdus \in Nat
  /\ Scenarios \subseteq [bearer : {"um", "am"},
                         start : {"any_time", "own_link", "backhaul"}]

VARIABLES
  scenario,     \* one of Scenarios
  simulating,   \* Simulator::Run has been called
  sgwDonor,     \* the donor the SGW has for the session of a node's MT
  rlcMap,       \* Bap::m_bapAddressRlcMap: the device each RLC entity leads to
  innerPdcp,    \* Bap::m_innerPdcp of a donor: the node whose bearer has it
  air,          \* the packets between the RLC entities of two devices
  sdus,         \* the number of SDUs handed over so far
  delivered,    \* what each device handed to its upper interfaces
  crash         \* "none", or the check of the BAP code that ended the program

linkVars == <<sgwDonor, rlcMap, innerPdcp>>
packetVars == <<air, sdus, delivered>>
scenarioVars == <<scenario, simulating>>
forwardingVars == <<topologyVars, scenarioVars, linkVars, packetVars, crash>>

(* Traffic of no PDU session from a node to the donor and back, and the    *)
(* PDU sessions of the UEs of a node, uplink.                              *)
Flow == [src : IabNodes, dst : Donors, pdu : BOOLEAN]
        \cup [src : Donors, dst : IabNodes, pdu : {FALSE}]
Sdu == [flow : Flow, id : 1..MaxSdus]
Packet == [wire : Wire, sdu : Sdu]

(* Where an SDU leaves the backhaul: the inner PDCP of one of the donor's  *)
(* bearers, the S1-U tunnel of a node, or the RRC of a node's MT.          *)
Interface == {"innerPdcp", "s1u", "mtRrc"}
Delivery == [sdu : Sdu, via : Interface, bearerOf : IabNodes]

Crashes == {"none", "no_path", "no_next_hop", "no_rlc_entry", "no_inner_pdcp"}

ForwardingTypeOK ==
  /\ scenario \in Scenarios
  /\ simulating \in BOOLEAN
  /\ sgwDonor \in [IabNodes -> Donors \cup {NoDevice}]
  /\ DOMAIN rlcMap = Device
  /\ \A dev \in Device : /\ DOMAIN rlcMap[dev] \subseteq Address
                         /\ \A a \in DOMAIN rlcMap[dev] : rlcMap[dev][a] \in Device
  /\ innerPdcp \in [Donors -> IabNodes \cup {NoDevice}]
  /\ air \in [Device \X Device -> Seq(Packet)]
  /\ sdus \in 0..MaxSdus
  /\ delivered \in [Device -> Seq(Delivery)]
  /\ crash \in Crashes

ForwardingInit ==
  /\ Init
  /\ scenario \in Scenarios
  /\ simulating = FALSE
  /\ sgwDonor = [n \in IabNodes |-> NoDevice]
  /\ rlcMap = [dev \in Device |-> <<>>]
  /\ innerPdcp = [d \in Donors |-> NoDevice]
  /\ air = [link \in Device \X Device |-> <<>>]
  /\ sdus = 0
  /\ delivered = [dev \in Device |-> <<>>]
  /\ crash = "none"

Simulating == simulating /\ Running /\ crash = "none"

(* The scenario script: everything MmWaveHelper does comes before          *)
(* Simulator::Run.                                                         *)
BuildTopology ==
  /\ ~simulating
  /\ TopologyNext
  /\ UNCHANGED <<scenarioVars, linkVars, packetVars, crash>>

StartSimulation ==
  /\ ~simulating
  /\ Running
  /\ \A n \in IabNodes : Attached(n)
  /\ simulating' = TRUE
  /\ UNCHANGED <<topologyVars, scenario, linkVars, packetVars, crash>>

--------------------------------------------------------------------------------
(***************************************************************************)
(* The backhaul links come up.                                             *)
(***************************************************************************)

(* Mutant: every callback leads to the RLC entity added last.              *)
AddPairSharedCallback(map, address, peer) ==
  [a \in DOMAIN map \cup {address} |-> peer]

(* Bap::AddPairRlcMap, which overwrites an entry that is there.            *)
AddPairRlcMap(map, address, peer) ==
  [a \in DOMAIN map \cup {address} |-> IF a = address THEN peer ELSE map[a]]

(* Mutant: the serving cell taken for the donor at every depth.            *)
CreateSessionAtServingCell(n) ==
  /\ Simulating
  /\ sgwDonor[n] = NoDevice
  /\ sgwDonor' = [sgwDonor EXCEPT ![n] = mtParent[n]]
  /\ UNCHANGED <<topologyVars, scenarioVars, rlcMap, innerPdcp, packetVars, crash>>

(* EpcSgwPgwApplication::DoCreateSessionRequest for a node's MT: the donor *)
(* is the serving cell, or the donor the helper recorded for that cell.    *)
CreateSession(n) ==
  /\ Simulating
  /\ sgwDonor[n] = NoDevice
  /\ sgwDonor' = [sgwDonor EXCEPT ![n] =
       IF mtParent[n] \in Donors THEN mtParent[n] ELSE servingDonor[mtParent[n]]]
  /\ UNCHANGED <<topologyVars, scenarioVars, rlcMap, innerPdcp, packetVars, crash>>

(* UeManager::SetupDataRadioBearer at the parent, for the MT's bearer.     *)
SetupDataRadioBearer(n) ==
  LET p == mtParent[n]
      d == IF p \in Donors THEN p ELSE servingDonor[p]
  IN
  /\ Simulating
  /\ sgwDonor[n] # NoDevice
  /\ HasBapAddress(d, n)
  /\ GetBapAddress(d, n) \notin DOMAIN rlcMap[p]
  /\ rlcMap' = [rlcMap EXCEPT ![p] = AddPairRlcMap(@, GetBapAddress(d, n), n)]
  /\ innerPdcp' = IF p \in Donors THEN [innerPdcp EXCEPT ![p] = n] ELSE innerPdcp
  /\ UNCHANGED <<topologyVars, scenarioVars, sgwDonor, packetVars, crash>>

(* The RRC connection reconfiguration reaches the MT: the part of          *)
(* LteUeRrc::ApplyRadioResourceConfigDedicated that adds the bearer.       *)
AddDataRadioBearerAtMt(n) ==
  LET p == mtParent[n]
      address == GetBapAddress(servingDonor[n], p)
  IN
  /\ Simulating
  /\ \E a \in DOMAIN rlcMap[p] : rlcMap[p][a] = n
  /\ address \notin DOMAIN rlcMap[n]
  /\ rlcMap' = [rlcMap EXCEPT ![n] = AddPairRlcMap(@, address, p)]
  /\ UNCHANGED <<topologyVars, scenarioVars, sgwDonor, innerPdcp, packetVars, crash>>

--------------------------------------------------------------------------------
(***************************************************************************)
(* Bap.  The operators say what one event does to the radio queues and to  *)
(* the upper interfaces; queues is the state of the radio after the event  *)
(* took its packet.                                                        *)
(***************************************************************************)
DonorOf(dev) == IF dev \in Donors THEN dev ELSE servingDonor[dev]

Crash(reason) ==
  /\ crash' = reason
  /\ UNCHANGED <<air, delivered>>

(* Mutant: the newest packet goes first.                                   *)
TransmitBapPduInFront(dev, packet, dest, path, queues) ==
  LET next == GetNextBapPathHop(DonorOf(dev), bapAddress[dev], dest, path) IN
  /\ HasNextHop(DonorOf(dev), bapAddress[dev], dest, path)
  /\ next \in DOMAIN rlcMap[dev]
  /\ air' = [queues EXCEPT ![<<dev, rlcMap[dev][next]>>] = <<packet>> \o @]
  /\ UNCHANGED <<delivered, crash>>

(* Bap::DoTransmitBapPdu.  The abort "The specified BAP PATH ID can not be *)
(* found" and its neighbours are "no_next_hop"; the assertion that the     *)
(* next hop has an RLC entity is "no_rlc_entry".                           *)
DoTransmitBapPdu(dev, packet, dest, path, queues) ==
  LET d == DonorOf(dev)
      local == bapAddress[dev]
      next == GetNextBapPathHop(d, local, dest, path)
  IN
  \/ /\ ~HasNextHop(d, local, dest, path)
     /\ Crash("no_next_hop")
  \/ /\ HasNextHop(d, local, dest, path)
     /\ next \notin DOMAIN rlcMap[dev]
     /\ Crash("no_rlc_entry")
  \/ /\ HasNextHop(d, local, dest, path)
     /\ next \in DOMAIN rlcMap[dev]
     /\ air' = [queues EXCEPT ![<<dev, rlcMap[dev][next]>>] = Append(@, packet)]
     /\ UNCHANGED <<delivered, crash>>

(* Bap::DoTransmitBapSdu for a PDU session and                             *)
(* Bap::TransmitBapSduViaNonPduInterface for other traffic.                *)
TransmitBapSdu(dev, sdu, dest) ==
  LET d == DonorOf(dev)
      local == bapAddress[dev]
      path == GetPathId(d, local, dest)
      header == [dest |-> dest, path |-> path, data |-> TRUE,
                 reserved |-> IF sdu.flow.pdu THEN 0 ELSE ReservedBits(TRUE, FALSE, FALSE)]
  IN
  \/ /\ PathsBetween(d, local, dest) = {}
     /\ Crash("no_path")
  \/ /\ PathsBetween(d, local, dest) # {}
     /\ DoTransmitBapPdu(dev, [wire |-> Serialize(header), sdu |-> sdu],
                         dest, path, air)

HandUp(dev, sdu, via, bearerOf) ==
  delivered' = [delivered EXCEPT
    ![dev] = Append(@, [sdu |-> sdu, via |-> via, bearerOf |-> bearerOf])]

(* Bap::DoReceiveBapSdu.  The donor makes the TEID of the S1-U tunnel from *)
(* the IMSI of the node at the other end of the path.                      *)
DoReceiveBapSdu(dev, sdu, header, queues) ==
  \/ /\ ~IsNonPdu(header)
     /\ dev \in Donors
     /\ innerPdcp[dev] # NoDevice
     /\ HandUp(dev, sdu, "innerPdcp", innerPdcp[dev])
     /\ air' = queues
     /\ UNCHANGED crash
  \/ /\ ~IsNonPdu(header)
     /\ dev \in Donors => innerPdcp[dev] = NoDevice
     /\ Crash("no_inner_pdcp")
  \/ /\ IsNonPdu(header)
     /\ dev \in Donors
     /\ header.path \in DOMAIN bapPaths[dev]
     /\ HandUp(dev, sdu, "s1u",
               GetImsiOfOtherEndpoint(dev, bapAddress[dev], header.path))
     /\ air' = queues
     /\ UNCHANGED crash
  \/ /\ IsNonPdu(header)
     /\ dev \in Donors
     /\ header.path \notin DOMAIN bapPaths[dev]
     /\ Crash("no_path")
  \/ /\ IsNonPdu(header)
     /\ dev \in IabNodes
     /\ HandUp(dev, sdu, "mtRrc", dev)
     /\ air' = queues
     /\ UNCHANGED crash

(* Bap::DoReceiveBapPdu: the header is taken off and, unless the packet is *)
(* at its destination, put on again.                                       *)
DoReceiveBapPdu(dev, packet, queues) ==
  LET header == Deserialize(packet.wire) IN
  \/ /\ header.dest # bapAddress[dev]
     /\ DoTransmitBapPdu(dev, [packet EXCEPT !.wire = Serialize(header)],
                         header.dest, header.path, queues)
  \/ /\ header.dest = bapAddress[dev]
     /\ DoReceiveBapSdu(dev, packet.sdu, header, queues)

--------------------------------------------------------------------------------
(***************************************************************************)
(* The events that move packets.                                           *)
(***************************************************************************)
LinkUp(a, b) == /\ bapAddress[b] \in DOMAIN rlcMap[a]
                /\ bapAddress[a] \in DOMAIN rlcMap[b]

BackhaulUp(n) ==
  LET chain == Backhaul(n)
  IN  \A i \in 1..Len(chain) - 1 : LinkUp(chain[i], chain[i + 1])

(* The applications of the scenarios start when the nodes have had time to *)
(* connect; nothing in the code makes them wait.                           *)
MaySend(n) ==
  /\ Simulating
  /\ sdus < MaxSdus
  /\ scenario.start = "own_link" => LinkUp(n, mtParent[n])
  /\ scenario.start = "backhaul" => BackhaulUp(n)

(* A node's IP stack (MmWaveIabNetDevice::DoSend), or a UE of the node     *)
(* (InnerPdcp::DoReceiveInnerPdcpSdu), sends a packet.  The destination is *)
(* what EpcSgwPgwApplication::GetDonorBapAddress returns: before the       *)
(* session exists that is an uninitialised member, so any address; all but *)
(* the donor's are alike.                                                  *)
SendUplink(n, pdu) ==
  /\ MaySend(n)
  /\ \E dest \in IF sgwDonor[n] # NoDevice THEN {bapAddress[sgwDonor[n]]}
                  ELSE {bapAddress[servingDonor[n]], 0} :
       TransmitBapSdu(n, [flow |-> [src |-> n, dst |-> servingDonor[n], pdu |-> pdu],
                          id |-> sdus + 1], dest)
  /\ sdus' = sdus + 1
  /\ UNCHANGED <<topologyVars, scenarioVars, linkVars>>

(* A packet for a node comes out of the S1-U tunnel of its donor           *)
(* (EpcEnbApplication::RecvFromS1uSocket): the SGW knows the bearer by the *)
(* node's address, and the donor where the bearer terminates.  Packets for *)
(* a node without a session stop at the SGW, and those for a UE of a node  *)
(* at the donor; neither reaches the backhaul.                             *)
SendDownlink(n) ==
  /\ MaySend(n)
  /\ sgwDonor[n] # NoDevice
  /\ TransmitBapSdu(sgwDonor[n],
                    [flow |-> [src |-> sgwDonor[n], dst |-> n, pdu |-> FALSE],
                     id |-> sdus + 1],
                    bapAddress[n])
  /\ sdus' = sdus + 1
  /\ UNCHANGED <<topologyVars, scenarioVars, linkVars>>

(* The RLC entity at the other end of a link hands a packet to its BAP.    *)
Receive(from, to) ==
  LET queue == air[<<from, to>>] IN
  /\ Simulating
  /\ queue # <<>>
  /\ bapAddress[from] \in DOMAIN rlcMap[to]
  /\ DoReceiveBapPdu(to, Head(queue), [air EXCEPT ![<<from, to>>] = Tail(queue)])
  /\ UNCHANGED <<topologyVars, scenarioVars, linkVars, sdus>>

(* RLC UM gives a packet up.                                               *)
LosePacket(from, to) ==
  /\ Simulating
  /\ scenario.bearer = "um"
  /\ \E i \in DOMAIN air[<<from, to>>] :
       air' = [air EXCEPT ![<<from, to>>] = RemoveAt(@, i)]
  /\ UNCHANGED <<topologyVars, scenarioVars, linkVars, sdus, delivered, crash>>

Connect(n) == CreateSession(n) \/ SetupDataRadioBearer(n) \/ AddDataRadioBearerAtMt(n)

Send(n) == SendDownlink(n) \/ \E pdu \in BOOLEAN : SendUplink(n, pdu)

ForwardingNext ==
  \/ BuildTopology
  \/ StartSimulation
  \/ \E n \in IabNodes : Connect(n)
  \/ \E n \in IabNodes : Send(n)
  \/ \E from, to \in Device : Receive(from, to) \/ LosePacket(from, to)

(* The MAC scheduler serves every bearer with something to send, and RLC   *)
(* AM repeats what the radio loses: a packet at the head of a link is      *)
(* received in the end.                                                    *)
ForwardingFairness ==
  \A from, to \in Device : WF_forwardingVars(Receive(from, to))

ForwardingSafeSpec == ForwardingInit /\ [][ForwardingNext]_forwardingVars
ForwardingSpec == ForwardingSafeSpec /\ ForwardingFairness

--------------------------------------------------------------------------------
(***************************************************************************)
(* Properties.                                                             *)
(***************************************************************************)

(* An SDU leaves the backhaul at the device it is meant for, through the   *)
(* interface for its kind of traffic, and the S1-U tunnel the donor picks  *)
(* is the tunnel of the node that sent it.  (Bap::DoReceiveBapPdu,         *)
(* Bap::DoReceiveBapSdu, GetIabNodeImsiFromPathIdAndOtherEndpoint.)        *)
NoMisdelivery ==
  \A dev \in Device : \A i \in DOMAIN delivered[dev] :
    LET handed == delivered[dev][i]
        flow == handed.sdu.flow
    IN  /\ flow.dst = dev
        /\ handed.via = IF flow.pdu THEN "innerPdcp"
                        ELSE IF dev \in Donors THEN "s1u" ELSE "mtRrc"
        /\ handed.via = "s1u" => handed.bearerOf = flow.src

(* The chain of devices a flow takes, from its source to its destination.  *)
Route(flow) ==
  IF flow.src \in IabNodes THEN Backhaul(flow.src) ELSE Reverse(Backhaul(flow.dst))

(* A packet is only ever on a link of its own route, going towards its     *)
(* destination: it never turns back and never visits a device twice.       *)
(* (Bap::DoTransmitBapPdu with the RLC maps both ends have filled.)        *)
PacketsStayOnRoute ==
  \A from, to \in Device : \A i \in DOMAIN air[<<from, to>>] :
    LET route == Route(air[<<from, to>>][i].sdu.flow)
    IN  \E k \in 1..Len(route) - 1 : route[k] = from /\ route[k + 1] = to

(* An RLC map only names neighbours, by their own BAP address.             *)
(* (UeManager::SetupDataRadioBearer finds the address by IMSI, LteUeRrc by *)
(* cell identity.)                                                         *)
RlcMapNamesNeighbours ==
  \A dev \in Device : \A a \in DOMAIN rlcMap[dev] :
    LET peer == rlcMap[dev][a]
    IN  /\ bapAddress[peer] = a
        /\ \/ peer \in IabNodes /\ mtParent[peer] = dev
           \/ dev \in IabNodes /\ mtParent[dev] = peer

(* With the backhaul up before the applications start, no packet runs into *)
(* a check of the BAP code.  When they start early, what can go wrong is a *)
(* missing bearer or session: a donor that receives PDU traffic has an     *)
(* inner PDCP, and every device is on the path it looks up.                *)
OnlyEarlyCrashes ==
  /\ crash \in {"none", "no_path", "no_rlc_entry"}
  /\ scenario.start = "backhaul" => crash = "none"

(* Every SDU that was handed over leaves the backhaul, if no bearer loses  *)
(* packets and the applications waited for the backhaul.                   *)
EverySduArrives ==
  \A id \in 1..MaxSdus :
    sdus >= id /\ scenario = [bearer |-> "am", start |-> "backhaul"] ~>
      \E dev \in Device : \E i \in DOMAIN delivered[dev] :
        delivered[dev][i].sdu.id = id
================================================================================
