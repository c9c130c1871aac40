-------------------------- MODULE BapForwardingProofs --------------------------
(***************************************************************************)
(* Proofs about the packets on the backhaul, for any set of devices, any   *)
(* trees, any number of packets and whatever the RLC of the bearers loses. *)
(*                                                                         *)
(* The invariant says what a packet on the air carries.  Its destination   *)
(* and the mark of its kind survive every conversion of the header; its    *)
(* path identity does as long as the helper's counter has not left one     *)
(* octet, and with it the donor finds the node that sent the packet.  Each *)
(* flow is then an ordered channel of OrderedChannels.                     *)
(***************************************************************************)
EXTENDS BapFlows, BapRoutingProofs, BapHeaderLemmas

OneOctetPaths == bapPathIdCounter <= 256

(* The two ends of a flow are a node and the donor that serves it, and     *)
(* both directions take the path of the node.                              *)
FlowNode(flow) == IF flow.src \in IabNodes THEN flow.src ELSE flow.dst
FlowDonor(flow) == servingDonor[FlowNode(flow)]
FlowPath(flow) ==
  GetPathId(FlowDonor(flow), bapAddress[FlowNode(flow)], bapAddress[FlowDonor(flow)])

JoinsNodeAndDonor(flow) ==
  IF flow.src \in IabNodes THEN flow.dst = servingDonor[flow.src]
  ELSE flow.src = servingDonor[flow.dst]

GoodPacket ==
  {packet \in Packet :
     LET header == Deserialize(packet.wire)
         flow == packet.sdu.flow
     IN  /\ header.dest = bapAddress[flow.dst]
         /\ IsNonPdu(header) <=> ~flow.pdu
         /\ JoinsNodeAndDonor(flow)
         /\ OneOctetPaths => header.path = FlowPath(flow)}

GoodDelivery(dev) ==
  {handed \in Delivery :
     /\ handed.sdu.flow.dst = dev
     /\ handed.via = IF handed.sdu.flow.pdu THEN "innerPdcp"
                     ELSE IF dev \in Donors THEN "s1u" ELSE "mtRrc"
     /\ OneOctetPaths /\ handed.via = "s1u" => handed.bearerOf = handed.sdu.flow.src}

LinkOfDevices == Device \X Device

(* Before the simulation there is neither a session nor a link nor a       *)
(* packet; afterwards the topology does not change.                        *)
Quiet ==
  /\ sgwDonor = [n \in IabNodes |-> NoDevice]
  /\ rlcMap = [dev \in Device |-> <<>>]
  /\ air = [link \in LinkOfDevices |-> <<>>]
  /\ delivered = [dev \in Device |-> <<>>]

SessionsAgree == \A n \in IabNodes : sgwDonor[n] \in {NoDevice, servingDonor[n]}

PacketsAreGood == air \in [LinkOfDevices -> Seq(GoodPacket)]

DeliveriesAreGood ==
  /\ DOMAIN delivered = Device
  /\ delivered = [dev \in Device |-> delivered[dev]]
  /\ \A dev \in Device : delivered[dev] \in Seq(GoodDelivery(dev))

ForwardingInv ==
  /\ TreeInv
  /\ ForwardingTypeOK
  /\ simulating \/ Quiet
  /\ simulating => \A n \in IabNodes : Attached(n)
  /\ SessionsAgree
  /\ RlcMapNamesNeighbours
  /\ PacketsAreGood
  /\ DeliveriesAreGood

--------------------------------------------------------------------------------
(* Facts on sequences: a sequence of members of a set stays one when a     *)
(* member is appended, the first is taken off, or one is removed.          *)
LEMMA SeqFacts ==
  ASSUME NEW S
  PROVE  /\ <<>> \in Seq(S)
         /\ \A s \in Seq(S) : \A x \in S : Append(s, x) \in Seq(S)
         /\ \A s \in Seq(S) : s # <<>> => Head(s) \in S /\ Tail(s) \in Seq(S)
OBVIOUS

LEMMA SeqSubset ==
  ASSUME NEW S, NEW T, S \subseteq T
  PROVE  Seq(S) \subseteq Seq(T)
OBVIOUS

(* While the topology stands, so does what a good packet is.               *)
LEMMA TopologyStands ==
  ASSUME TreeInv, UNCHANGED topologyVars
  PROVE  /\ TreeInv'
         /\ GoodPacket' = GoodPacket
         /\ \A dev \in Device : GoodDelivery(dev)' = GoodDelivery(dev)
         /\ \A n \in IabNodes : Attached(n)' <=> Attached(n)
<1>1. TreeInv'
  BY NextTreeInv
<1>2. GoodPacket' = GoodPacket
  BY DEF GoodPacket, OneOctetPaths, FlowPath, FlowDonor, JoinsNodeAndDonor, GetPathId, PathsBetween,
         topologyVars
<1>3. \A dev \in Device : GoodDelivery(dev)' = GoodDelivery(dev)
  BY DEF GoodDelivery, OneOctetPaths, topologyVars
<1>4. \A n \in IabNodes : Attached(n)' <=> Attached(n)
  BY DEF Attached, topologyVars
<1> QED
  BY <1>1, <1>2, <1>3, <1>4

(* The look-up of an address finds the device.                             *)
LEMMA AddressFound ==
  ASSUME TreeInv, NEW d \in Donors, NEW dev, Registered(d, dev)
  PROVE  GetBapAddress(d, dev) = bapAddress[dev]
<1>1. EntriesOf(d, dev) # {} /\ EntriesOf(d, dev) \subseteq Nat
  BY TopologyEntries DEF TreeInv, RoutingInv, Registered, EntriesOf
<1>2. FirstOf(EntriesOf(d, dev)) \in EntriesOf(d, dev)
  BY <1>1, FirstOfIsLeast
<1> QED
  BY <1>2 DEF GetBapAddress, EntriesOf

(* What holds of a node during the simulation.                             *)
LEMMA AttachedFacts ==
  ASSUME TreeInv, NEW n \in IabNodes, Attached(n)
  PROVE  /\ servingDonor[n] \in Donors
         /\ Installed(n) /\ Installed(servingDonor[n])
         /\ Registered(servingDonor[n], n)
         /\ Registered(servingDonor[n], servingDonor[n])
         /\ mtParent[n] \in Device
         /\ mtParent[n] \in Donors => mtParent[n] = servingDonor[n]
         /\ mtParent[n] \notin Donors =>
              /\ mtParent[n] \in IabNodes
              /\ servingDonor[mtParent[n]] = servingDonor[n]
         /\ Registered(servingDonor[n], mtParent[n])
<1>1. /\ servingDonor[n] \in Donors
      /\ Installed(n) /\ Installed(servingDonor[n])
  BY DEF TreeInv, RoutingInv, AttachedHaveRoute
<1>2. mtParent[n] \in Device
  BY DEF TreeInv, RoutingInv, TypeOK, Attached
<1>3. Registered(servingDonor[n], n)
  BY <1>1 DEF TreeInv, OneDonorPerTree
<1>4. Registered(servingDonor[n], servingDonor[n])
  BY <1>1 DEF TreeInv, RoutingInv, DonorIsFirst, Registered, EntriesOf
<1>5. IF mtParent[n] \in Donors THEN mtParent[n] = servingDonor[n]
      ELSE mtParent[n] \in IabNodes /\ servingDonor[mtParent[n]] = servingDonor[n]
  BY <1>2 DEF TreeInv, OneDonorPerTree, Device
<1>6. Registered(servingDonor[n], mtParent[n])
  BY <1>1, <1>4, <1>5 DEF TreeInv, OneDonorPerTree
<1> QED
  BY <1>1, <1>2, <1>3, <1>4, <1>5, <1>6

(* The two ends of a flow during the simulation, and the path it takes.    *)
LEMMA EndsOfFlow ==
  ASSUME ForwardingInv, simulating, NEW flow \in Flow, JoinsNodeAndDonor(flow)
  PROVE  LET n == FlowNode(flow)
             d == FlowDonor(flow)
         IN  /\ n \in IabNodes /\ Attached(n)
             /\ d \in Donors /\ d = servingDonor[n] /\ d \notin IabNodes
             /\ \/ flow.src = n /\ flow.dst = d /\ DonorOf(flow.src) = d
                \/ flow.src = d /\ flow.dst = n /\ DonorOf(flow.src) = d /\ ~flow.pdu
<1>1. TreeInv /\ \A n \in IabNodes : Attached(n)
  BY DEF ForwardingInv
<1>2. CASE flow.src \in IabNodes
  <2>1. FlowNode(flow) = flow.src /\ FlowDonor(flow) = flow.dst /\ flow.src \notin Donors
    BY <1>2, TopologyAssumption DEF FlowNode, FlowDonor, JoinsNodeAndDonor
  <2>2. servingDonor[flow.src] \in Donors
    BY <1>1, <1>2, AttachedFacts
  <2> QED
    BY <1>1, <1>2, <2>1, <2>2, TopologyAssumption DEF FlowDonor, DonorOf
<1>3. CASE flow.src \notin IabNodes
  <2>1. /\ flow.dst \in IabNodes /\ flow.src \in Donors /\ ~flow.pdu
    BY <1>3 DEF Flow
  <2>2. FlowNode(flow) = flow.dst /\ FlowDonor(flow) = flow.src
    BY <1>3 DEF FlowNode, FlowDonor, JoinsNodeAndDonor
  <2> QED
    BY <1>1, <1>3, <2>1, <2>2 DEF FlowDonor, DonorOf
<1> QED
  BY <1>2, <1>3

LEMMA PathOfFlow ==
  ASSUME ForwardingInv, simulating, NEW flow \in Flow, JoinsNodeAndDonor(flow)
  PROVE  /\ FlowPath(flow) \in Nat /\ FlowPath(flow) < bapPathIdCounter
         /\ FlowPath(flow) \in DOMAIN bapPaths[FlowDonor(flow)]
<1> DEFINE n == FlowNode(flow)
           d == FlowDonor(flow)
<1>1. n \in IabNodes /\ Attached(n) /\ d \in Donors /\ d = servingDonor[n] /\ TreeInv
  BY EndsOfFlow DEF ForwardingInv
<1>2. FlowPath(flow) = GetPathId(d, bapAddress[n], bapAddress[d])
  BY DEF FlowPath
<1> HIDE DEF n, d
<1> QED
  BY <1>1, <1>2, PathFound DEF d

--------------------------------------------------------------------------------
(***************************************************************************)
(* What one event of a BAP entity keeps.                                   *)
(***************************************************************************)
LEMMA TransmitKeeps ==
  ASSUME ForwardingInv, NEW dev \in Device, NEW packet \in GoodPacket, NEW dest, NEW path,
         NEW queues \in [LinkOfDevices -> Seq(GoodPacket)],
         DoTransmitBapPdu(dev, packet, dest, path, queues)
  PROVE  /\ air' \in [LinkOfDevices -> Seq(GoodPacket)]
         /\ delivered' = delivered
         /\ crash' \in Crashes
<1>1. air \in [LinkOfDevices -> Seq(GoodPacket)] /\ crash \in Crashes
  BY DEF ForwardingInv, PacketsAreGood, ForwardingTypeOK
<1> DEFINE next == GetNextBapPathHop(DonorOf(dev), bapAddress[dev], dest, path)
<1>2. next \in DOMAIN rlcMap[dev] => rlcMap[dev][next] \in Device
  BY DEF ForwardingInv, ForwardingTypeOK
<1>3. CASE Crash("no_next_hop") \/ Crash("no_rlc_entry")
  BY <1>1, <1>3 DEF Crash, Crashes
<1>4. CASE /\ next \in DOMAIN rlcMap[dev]
           /\ air' = [queues EXCEPT ![<<dev, rlcMap[dev][next]>>] = Append(@, packet)]
           /\ UNCHANGED <<delivered, crash>>
  <2> DEFINE link == <<dev, rlcMap[dev][next]>>
  <2>1. link \in LinkOfDevices
    BY <1>2, <1>4 DEF LinkOfDevices
  <2>2. air' = [queues EXCEPT ![link] = Append(queues[link], packet)]
    BY <1>4
  <2> HIDE DEF link
  <2>3. queues[link] \in Seq(GoodPacket)
    BY <2>1
  <2>4. Append(queues[link], packet) \in Seq(GoodPacket)
    BY <2>3, SeqFacts
  <2>5. air' \in [LinkOfDevices -> Seq(GoodPacket)]
    BY <2>2, <2>4
  <2> QED
    BY <1>1, <1>4, <2>5
<1> QED
  BY <1>3, <1>4 DEF DoTransmitBapPdu

(* A packet that has reached the address it carries is at the device it is *)
(* meant for.                                                              *)
LEMMA AtItsDestination ==
  ASSUME ForwardingInv, simulating, NEW dev \in Device, NEW packet \in GoodPacket,
         Deserialize(packet.wire).dest = bapAddress[dev]
  PROVE  packet.sdu.flow.dst = dev
<1> DEFINE flow == packet.sdu.flow
<1>1. TreeInv /\ \A n \in IabNodes : Attached(n)
  BY DEF ForwardingInv
<1>2. /\ bapAddress[flow.dst] = bapAddress[dev]
      /\ flow.src \in IabNodes => flow.dst = servingDonor[flow.src]
      /\ flow \in Flow
  BY DEF GoodPacket, JoinsNodeAndDonor, Packet, Sdu
<1> HIDE DEF flow
<1>3. \/ flow.src \in IabNodes /\ flow.dst \in Donors
      \/ flow.dst \in IabNodes
  BY <1>2 DEF Flow
<1>4. flow.dst \in Device /\ Installed(flow.dst)
  BY <1>1, <1>2, <1>3, AttachedFacts DEF Device
<1>5. flow.dst = dev
  BY <1>1, <1>2, <1>4 DEF TreeInv, AddressesDiffer
<1> QED
  BY <1>5 DEF flow

LEMMA HandUpKeeps ==
  ASSUME ForwardingInv, NEW dev \in Device, NEW sdu, NEW via, NEW bearerOf,
         [sdu |-> sdu, via |-> via, bearerOf |-> bearerOf] \in GoodDelivery(dev),
         HandUp(dev, sdu, via, bearerOf)
  PROVE  /\ DOMAIN delivered' = Device
         /\ delivered' = [e \in Device |-> delivered'[e]]
         /\ \A e \in Device : delivered'[e] \in Seq(GoodDelivery(e))
<1> DEFINE handed == [sdu |-> sdu, via |-> via, bearerOf |-> bearerOf]
<1>1. delivered' = [delivered EXCEPT ![dev] = Append(delivered[dev], handed)]
  BY DEF HandUp
<1> HIDE DEF handed
<1>2. /\ DOMAIN delivered = Device
      /\ \A e \in Device : delivered[e] \in Seq(GoodDelivery(e))
  BY DEF ForwardingInv, DeliveriesAreGood
<1>3. handed \in GoodDelivery(dev)
  BY DEF handed
<1>4. Append(delivered[dev], handed) \in Seq(GoodDelivery(dev))
  BY <1>2, <1>3, SeqFacts
<1>5. DOMAIN delivered' = Device
  BY <1>1, <1>2
<1>6. delivered' = [e \in Device |-> delivered'[e]]
  BY <1>1, <1>2
<1>7. \A e \in Device : delivered'[e] = IF e = dev THEN Append(delivered[dev], handed)
                                        ELSE delivered[e]
  BY <1>1, <1>2
<1> QED
  BY <1>2, <1>4, <1>5, <1>6, <1>7

(* The node the donor finds at the other end of any path in its map.       *)
LEMMA SomeNodeFound ==
  ASSUME TreeInv, NEW d \in Donors, NEW id \in DOMAIN bapPaths[d]
  PROVE  GetImsiOfOtherEndpoint(d, bapAddress[d], id) \in IabNodes
<1> DEFINE path == bapPaths[d][id]
<1>1. PICK n \in IabNodes : Registered(d, n) /\ path[1] = bapAddress[n]
  BY DEF TreeInv, PathsJoin
<1>2. Installed(d)
  BY DEF TreeInv, PathsJoin
<1>3. bapAddress[n] # bapAddress[d]
  BY <1>2, TopologyAssumption DEF TreeInv, AddressesDiffer, Device
<1>4. (IF path[1] = bapAddress[d] THEN path[Len(path)] ELSE path[1]) = bapAddress[n]
  BY <1>1, <1>3
<1>5. GetImsiOfOtherEndpoint(d, bapAddress[d], id) =
        iabTopology[d][FirstOf({i \in Entries(d) :
          /\ iabTopology[d][i].dev \in IabNodes
          /\ bapAddress[iabTopology[d][i].dev] = bapAddress[n]})].dev
  BY <1>4 DEF GetImsiOfOtherEndpoint
<1> QED
  BY <1>1, <1>5, NodeOfAddress

LEMMA ReceiveSduKeeps ==
  ASSUME ForwardingInv, simulating, NEW dev \in Device, NEW packet \in GoodPacket,
         Deserialize(packet.wire).dest = bapAddress[dev],
         NEW queues \in [LinkOfDevices -> Seq(GoodPacket)],
         DoReceiveBapSdu(dev, packet.sdu, Deserialize(packet.wire), queues)
  PROVE  /\ air' \in [LinkOfDevices -> Seq(GoodPacket)]
         /\ DOMAIN delivered' = Device
         /\ delivered' = [e \in Device |-> delivered'[e]]
         /\ \A e \in Device : delivered'[e] \in Seq(GoodDelivery(e))
         /\ crash' \in Crashes
<1> DEFINE header == Deserialize(packet.wire)
           flow == packet.sdu.flow
<1>1. /\ air \in [LinkOfDevices -> Seq(GoodPacket)] /\ crash \in Crashes
      /\ TreeInv
      /\ innerPdcp \in [Donors -> IabNodes \cup {NoDevice}]
      /\ DOMAIN delivered = Device
      /\ delivered = [e \in Device |-> delivered[e]]
      /\ \A e \in Device : delivered[e] \in Seq(GoodDelivery(e))
  BY DEF ForwardingInv, PacketsAreGood, ForwardingTypeOK, DeliveriesAreGood
<1>2. /\ packet.sdu \in Sdu /\ flow \in Flow
      /\ IsNonPdu(header) <=> ~flow.pdu
      /\ flow.src \in IabNodes => flow.dst = servingDonor[flow.src]
      /\ flow.src \in IabNodes /\ OneOctetPaths =>
           header.path = GetPathId(flow.dst, bapAddress[flow.src], bapAddress[flow.dst])
  BY DEF GoodPacket, JoinsNodeAndDonor, FlowPath, FlowDonor, FlowNode, Packet, Sdu
<1>3. flow.dst = dev
  BY AtItsDestination
<1>4. dev \in Donors => flow.src \in IabNodes /\ Attached(flow.src)
  BY <1>2, <1>3, TopologyAssumption DEF Flow, ForwardingInv
<1>5. ASSUME Crash("no_inner_pdcp") \/ Crash("no_path")
      PROVE  air' = air /\ delivered' = delivered /\ crash' \in Crashes
  BY <1>5 DEF Crash, Crashes
<1>6. CASE /\ ~IsNonPdu(header) /\ dev \in Donors /\ innerPdcp[dev] # NoDevice
           /\ HandUp(dev, packet.sdu, "innerPdcp", innerPdcp[dev])
           /\ air' = queues /\ UNCHANGED crash
  <2> DEFINE handed == [sdu |-> packet.sdu, via |-> "innerPdcp", bearerOf |-> innerPdcp[dev]]
  <2>1. handed \in Delivery
    BY <1>1, <1>2, <1>6 DEF Delivery, Interface
  <2>2. handed \in GoodDelivery(dev)
    BY <1>2, <1>3, <1>6, <2>1 DEF GoodDelivery
  <2> QED
    BY <1>1, <1>6, <2>2, HandUpKeeps
<1>7. CASE /\ IsNonPdu(header) /\ dev \in Donors /\ header.path \in DOMAIN bapPaths[dev]
           /\ HandUp(dev, packet.sdu, "s1u",
                     GetImsiOfOtherEndpoint(dev, bapAddress[dev], header.path))
           /\ air' = queues /\ UNCHANGED crash
  <2> DEFINE imsi == GetImsiOfOtherEndpoint(dev, bapAddress[dev], header.path)
             handed == [sdu |-> packet.sdu, via |-> "s1u", bearerOf |-> imsi]
  <2>1. imsi \in IabNodes
    BY <1>1, <1>7, SomeNodeFound
  <2>2. OneOctetPaths => imsi = flow.src
    BY <1>1, <1>2, <1>3, <1>4, <1>7, SenderFound
  <2> HIDE DEF imsi
  <2>3. handed \in Delivery
    BY <1>2, <2>1 DEF Delivery, Interface
  <2>4. handed \in GoodDelivery(dev)
    BY <1>2, <1>3, <1>7, <2>2, <2>3 DEF GoodDelivery
  <2>5. HandUp(dev, packet.sdu, "s1u", imsi)
    BY <1>7 DEF imsi
  <2> QED
    BY <1>1, <1>7, <2>4, <2>5, HandUpKeeps
<1>8. CASE /\ IsNonPdu(header) /\ dev \in IabNodes
           /\ HandUp(dev, packet.sdu, "mtRrc", dev)
           /\ air' = queues /\ UNCHANGED crash
  <2> DEFINE handed == [sdu |-> packet.sdu, via |-> "mtRrc", bearerOf |-> dev]
  <2>1. handed \in Delivery
    BY <1>2, <1>8 DEF Delivery, Interface
  <2>2. handed \in GoodDelivery(dev)
    BY <1>2, <1>3, <1>8, <2>1, TopologyAssumption DEF GoodDelivery
  <2> QED
    BY <1>1, <1>8, <2>2, HandUpKeeps
<1> QED
  BY <1>1, <1>5, <1>6, <1>7, <1>8 DEF DoReceiveBapSdu

(* A relay writes the header again: what it names survives.                *)
LEMMA RelayedIsGood ==
  ASSUME ForwardingInv, simulating, NEW packet \in GoodPacket
  PROVE  [packet EXCEPT !.wire = Serialize(Deserialize(packet.wire))] \in GoodPacket
<1> DEFINE header == Deserialize(packet.wire)
           again == Serialize(header)
           flow == packet.sdu.flow
           route == FlowPath(flow)
<1>1. packet \in Packet /\ packet.wire \in Wire /\ flow \in Flow
  BY DEF GoodPacket, Packet, Sdu
<1>2. header \in AnyHeader /\ header.dest \in Address
  BY <1>1, DeserializeType, HeaderIsAnyHeader
<1>3. /\ header.dest = bapAddress[flow.dst]
      /\ IsNonPdu(header) <=> ~flow.pdu
      /\ JoinsNodeAndDonor(flow)
      /\ OneOctetPaths => header.path = route
  BY DEF GoodPacket
<1>4. OneOctetPaths => route <= 255
  <2> SUFFICES ASSUME OneOctetPaths PROVE route <= 255
    OBVIOUS
  <2>1. bapPathIdCounter \in Nat
    BY DEF ForwardingInv, TreeInv, RoutingInv, TypeOK
  <2>2. route \in Nat /\ route < bapPathIdCounter
    BY <1>1, <1>3, PathOfFlow
  <2> HIDE DEF route
  <2> QED
    BY <2>1, <2>2 DEF OneOctetPaths
<1> HIDE DEF header, route
<1>5. again \in Wire
  BY <1>2, SerializeType
<1>6. /\ Deserialize(again).dest = header.dest
      /\ Deserialize(again).reserved = header.reserved
      /\ OneOctetPaths => Deserialize(again).path = header.path
  BY <1>2, <1>3, <1>4, RoundTrip, PathRoundTrip
<1>7. IsNonPdu(Deserialize(again)) <=> IsNonPdu(header)
  BY <1>6 DEF IsNonPdu
<1> DEFINE relayed == [packet EXCEPT !.wire = again]
<1> HIDE DEF again
<1>8. relayed \in Packet /\ relayed.wire = again /\ relayed.sdu = packet.sdu
  BY <1>1, <1>5 DEF Packet
<1>9. relayed \in GoodPacket
  BY <1>3, <1>6, <1>7, <1>8 DEF GoodPacket, route
<1> QED
  BY <1>9 DEF again, header

(* The packets a device sends are good.                                    *)
LEMMA SentIsGood ==
  ASSUME ForwardingInv, simulating, NEW sdu \in Sdu, JoinsNodeAndDonor(sdu.flow),
         NEW path, path = FlowPath(sdu.flow)
  PROVE  LET header == [dest |-> bapAddress[sdu.flow.dst], path |-> path, data |-> TRUE,
                        reserved |-> IF sdu.flow.pdu THEN 0
                                     ELSE ReservedBits(TRUE, FALSE, FALSE)]
         IN  [wire |-> Serialize(header), sdu |-> sdu] \in GoodPacket
<1> DEFINE flow == sdu.flow
           reserved == IF flow.pdu THEN 0 ELSE ReservedBits(TRUE, FALSE, FALSE)
           header == [dest |-> bapAddress[flow.dst], path |-> path, data |-> TRUE,
                      reserved |-> reserved]
           wire == Serialize(header)
<1>1. flow \in Flow /\ flow.dst \in Device /\ flow.pdu \in BOOLEAN
  BY DEF Sdu, Flow, Device
<1>2. /\ bapAddress[flow.dst] \in Address /\ bapPathIdCounter \in Nat
      /\ path \in Nat /\ path < bapPathIdCounter
  <2>1. path \in Nat /\ path < bapPathIdCounter
    BY <1>1, PathOfFlow
  <2>2. TypeOK
    BY DEF ForwardingInv, TreeInv, RoutingInv
  <2>3. bapPathIdCounter \in Nat /\ bapAddress[flow.dst] \in 0..MaxBapAddress
    BY <1>1, <2>2 DEF TypeOK
  <2>4. 0..MaxBapAddress = Address
    BY DEF MaxBapAddress, Address
  <2> QED
    BY <2>1, <2>3, <2>4
<1>3. reserved = IF flow.pdu THEN 0 ELSE 4
  BY DEF ReservedBits
<1>4. reserved \in ThreeBits /\ (((reserved \div 4) % 2 = 1) <=> ~flow.pdu)
  <2>1. 0 \in ThreeBits /\ 4 \in ThreeBits /\ (0 \div 4) % 2 = 0 /\ (4 \div 4) % 2 = 1
    BY DEF ThreeBits
  <2> HIDE DEF reserved
  <2> QED
    BY <1>3, <2>1
<1> HIDE DEF reserved
<1>5. bapAddress[flow.dst] \in UInt16
  BY <1>2, Widths
<1>6. header \in AnyHeader
  BY <1>2, <1>4, <1>5 DEF AnyHeader
<1>7. header.dest = bapAddress[flow.dst] /\ header.path = path /\ header.reserved = reserved
  OBVIOUS
<1> HIDE DEF header
<1>8. wire \in Wire
  BY <1>6, SerializeType
<1>9. /\ Deserialize(wire).dest = bapAddress[flow.dst]
      /\ Deserialize(wire).reserved = reserved
      /\ path <= 255 => Deserialize(wire).path = path
  BY <1>2, <1>6, <1>7, RoundTrip, PathRoundTrip
<1>10. IsNonPdu(Deserialize(wire)) <=> ~flow.pdu
  BY <1>4, <1>9 DEF IsNonPdu
<1>11. OneOctetPaths => path <= 255
  BY <1>2 DEF OneOctetPaths
<1> HIDE DEF wire
<1> DEFINE packet == [wire |-> wire, sdu |-> sdu]
<1>12. packet \in Packet /\ packet.wire = wire /\ packet.sdu = sdu
  BY <1>8 DEF Packet
<1> HIDE DEF packet
<1>13. packet \in GoodPacket
  BY <1>9, <1>10, <1>11, <1>12 DEF GoodPacket
<1> QED
  BY <1>13 DEF packet, wire, header, reserved

(* The look-up of a sender finds the path of its flow.                     *)
LEMMA SenderFindsPath ==
  ASSUME ForwardingInv, simulating, NEW flow \in Flow, JoinsNodeAndDonor(flow)
  PROVE  LET d == DonorOf(flow.src) IN
           /\ d = FlowDonor(flow)
           /\ PathsBetween(d, bapAddress[flow.src], bapAddress[flow.dst]) # {}
           /\ GetPathId(d, bapAddress[flow.src], bapAddress[flow.dst]) = FlowPath(flow)
<1> DEFINE n == FlowNode(flow)
           d == FlowDonor(flow)
<1>1. /\ n \in IabNodes /\ d \in Donors /\ Attached(n) /\ RoutingInv
      /\ {flow.src, flow.dst} = {n, d}
      /\ \/ flow.src = n /\ flow.dst = d /\ DonorOf(flow.src) = d
         \/ flow.src = d /\ flow.dst = n /\ DonorOf(flow.src) = d
  BY EndsOfFlow DEF ForwardingInv, TreeInv
<1>2. d = servingDonor[n]
  BY DEF FlowDonor
<1>3. PathsBetween(d, bapAddress[n], bapAddress[d]) # {}
  BY <1>1, <1>2 DEF RoutingInv, AttachedHaveRoute, HasRoute
<1> HIDE DEF n, d
<1>4. PathsBetween(d, bapAddress[d], bapAddress[n]) = PathsBetween(d, bapAddress[n], bapAddress[d])
  BY DEF PathsBetween
<1>5. GetPathId(d, bapAddress[d], bapAddress[n]) = GetPathId(d, bapAddress[n], bapAddress[d])
  BY <1>4 DEF GetPathId
<1>6. FlowPath(flow) = GetPathId(d, bapAddress[n], bapAddress[d])
  BY DEF FlowPath, n, d
<1> QED
  BY <1>1, <1>3, <1>4, <1>5, <1>6 DEF d

(* What TransmitBapSdu keeps.                                              *)
LEMMA SendKeeps ==
  ASSUME ForwardingInv, simulating, NEW sdu \in Sdu, JoinsNodeAndDonor(sdu.flow),
         TransmitBapSdu(sdu.flow.src, sdu, bapAddress[sdu.flow.dst])
  PROVE  /\ air' \in [LinkOfDevices -> Seq(GoodPacket)]
         /\ delivered' = delivered
         /\ crash' \in Crashes
<1> DEFINE flow == sdu.flow
           d == DonorOf(flow.src)
           path == GetPathId(d, bapAddress[flow.src], bapAddress[flow.dst])
           header == [dest |-> bapAddress[flow.dst], path |-> path, data |-> TRUE,
                      reserved |-> IF flow.pdu THEN 0 ELSE ReservedBits(TRUE, FALSE, FALSE)]
           packet == [wire |-> Serialize(header), sdu |-> sdu]
<1>1. air \in [LinkOfDevices -> Seq(GoodPacket)]
  BY DEF ForwardingInv, PacketsAreGood
<1>2. flow \in Flow /\ flow.src \in Device
  BY DEF Sdu, Flow, Device
<1>3. /\ PathsBetween(d, bapAddress[flow.src], bapAddress[flow.dst]) # {}
      /\ path = FlowPath(flow)
  <2> HIDE DEF flow
  <2> QED
    BY <1>2, SenderFindsPath DEF flow
<1>4. packet \in GoodPacket
  <2> HIDE DEF path
  <2> QED
    BY <1>3, SentIsGood
<1>5. DoTransmitBapPdu(flow.src, packet, bapAddress[flow.dst], path, air)
  BY <1>3 DEF TransmitBapSdu
<1> HIDE DEF path, packet
<1> QED
  BY <1>1, <1>2, <1>4, <1>5, TransmitKeeps

(* No path ends at address 0: what is sent to it goes nowhere.             *)
LEMMA NothingAtZero ==
  ASSUME ForwardingInv, NEW d \in Donors, NEW local
  PROVE  PathsBetween(d, local, 0) = {}
<1>1. ASSUME NEW id \in DOMAIN bapPaths[d]
      PROVE  bapPaths[d][id][1] # 0 /\ bapPaths[d][id][Len(bapPaths[d][id])] # 0
  <2>1. PICK n \in IabNodes : Registered(d, n) /\ bapPaths[d][id][1] = bapAddress[n]
    BY DEF ForwardingInv, TreeInv, PathsJoin
  <2>2. Installed(d) /\ bapPaths[d][id][Len(bapPaths[d][id])] = bapAddress[d]
    BY DEF ForwardingInv, TreeInv, PathsJoin
  <2>3. Installed(n)
    BY <2>1 DEF ForwardingInv, TreeInv, RoutingInv, EntriesInstalled, Registered, EntriesOf
  <2> QED
    BY <2>1, <2>2, <2>3 DEF Installed
<1> QED
  BY <1>1 DEF PathsBetween

--------------------------------------------------------------------------------
(***************************************************************************)
(* What each action keeps.                                                 *)
(***************************************************************************)

(* An event that moves packets and leaves the links alone.                 *)
LEMMA PacketStepKeeps ==
  ASSUME ForwardingInv, Simulating, UNCHANGED <<topologyVars, scenarioVars, linkVars>>,
         PacketsAreGood', DeliveriesAreGood', crash' \in Crashes, sdus' \in 0..MaxSdus
  PROVE  ForwardingInv'
<1>1. /\ TreeInv' /\ \A n \in IabNodes : Attached(n)' <=> Attached(n)
      /\ simulating /\ ForwardingTypeOK
  BY TopologyStands DEF ForwardingInv, Simulating
<1>2. GoodPacket' \subseteq Packet /\ \A dev \in Device : GoodDelivery(dev)' \subseteq Delivery
  BY DEF GoodPacket, GoodDelivery
<1>3. air' \in [Device \X Device -> Seq(Packet)]
  BY <1>2, SeqSubset DEF PacketsAreGood, LinkOfDevices
<1>4. delivered' \in [Device -> Seq(Delivery)]
  <2>1. \A dev \in Device : delivered'[dev] \in Seq(Delivery)
    BY <1>2, SeqSubset DEF DeliveriesAreGood
  <2> QED
    BY <2>1 DEF DeliveriesAreGood
<1>5. ForwardingTypeOK'
  BY <1>1, <1>3, <1>4 DEF ForwardingTypeOK, scenarioVars, linkVars
<1>6. SessionsAgree' /\ RlcMapNamesNeighbours'
  BY DEF ForwardingInv, SessionsAgree, RlcMapNamesNeighbours, topologyVars, linkVars
<1>7. simulating' /\ (simulating => \A n \in IabNodes : Attached(n))'
  BY <1>1 DEF ForwardingInv, scenarioVars
<1> QED
  BY <1>1, <1>5, <1>6, <1>7 DEF ForwardingInv

(* An event that changes the links and moves no packet.                    *)
LEMMA LinkStepKeeps ==
  ASSUME ForwardingInv, Simulating,
         UNCHANGED <<topologyVars, scenarioVars, packetVars, crash>>,
         ForwardingTypeOK', SessionsAgree', RlcMapNamesNeighbours'
  PROVE  ForwardingInv'
<1>1. /\ TreeInv' /\ \A n \in IabNodes : Attached(n)' <=> Attached(n)
      /\ GoodPacket' = GoodPacket
      /\ \A dev \in Device : GoodDelivery(dev)' = GoodDelivery(dev)
      /\ simulating
  BY TopologyStands DEF ForwardingInv, Simulating
<1>2. PacketsAreGood' /\ DeliveriesAreGood'
  BY <1>1 DEF ForwardingInv, PacketsAreGood, DeliveriesAreGood, packetVars
<1>3. simulating' /\ (simulating => \A n \in IabNodes : Attached(n))'
  BY <1>1 DEF ForwardingInv, scenarioVars
<1> QED
  BY <1>1, <1>2, <1>3 DEF ForwardingInv

LEMMA CreateSessionKeeps ==
  ASSUME ForwardingInv, NEW n \in IabNodes, CreateSession(n)
  PROVE  ForwardingInv'
<1> DEFINE donor == IF mtParent[n] \in Donors THEN mtParent[n] ELSE servingDonor[mtParent[n]]
<1>1. TreeInv /\ Attached(n) /\ ForwardingTypeOK /\ SessionsAgree /\ RlcMapNamesNeighbours
  BY DEF ForwardingInv, CreateSession, Simulating
<1>2. donor = servingDonor[n] /\ servingDonor[n] \in Donors
  BY <1>1, AttachedFacts
<1> HIDE DEF donor
<1>3. sgwDonor' = [sgwDonor EXCEPT ![n] = donor]
  BY DEF CreateSession, donor
<1>4. ForwardingTypeOK'
  BY <1>1, <1>2, <1>3 DEF ForwardingTypeOK, CreateSession, scenarioVars, packetVars
<1>5. SessionsAgree'
  BY <1>1, <1>2, <1>3 DEF ForwardingTypeOK, SessionsAgree, CreateSession, topologyVars
<1>6. RlcMapNamesNeighbours'
  BY <1>1 DEF RlcMapNamesNeighbours, CreateSession, topologyVars
<1> QED
  BY <1>4, <1>5, <1>6, LinkStepKeeps DEF CreateSession

(* An entry for a neighbour, under its own address.                        *)
LEMMA EntryKeeps ==
  ASSUME ForwardingInv, Simulating, NEW dev \in Device, NEW peer \in Device,
         \/ peer \in IabNodes /\ mtParent[peer] = dev
         \/ dev \in IabNodes /\ mtParent[dev] = peer,
         rlcMap' = [rlcMap EXCEPT
                      ![dev] = AddPairRlcMap(rlcMap[dev], bapAddress[peer], peer)],
         innerPdcp' \in [Donors -> IabNodes \cup {NoDevice}],
         UNCHANGED <<topologyVars, scenarioVars, sgwDonor, packetVars, crash>>
  PROVE  ForwardingInv'
<1>1. ForwardingTypeOK /\ SessionsAgree /\ RlcMapNamesNeighbours
  BY DEF ForwardingInv
<1>2. bapAddress[peer] \in Address
  <2>1. bapAddress \in [Device -> 0..MaxBapAddress]
    BY DEF ForwardingInv, TreeInv, RoutingInv, TypeOK
  <2> QED
    BY <2>1 DEF MaxBapAddress, Address
<1> DEFINE map == AddPairRlcMap(rlcMap[dev], bapAddress[peer], peer)
<1>3. /\ DOMAIN map = DOMAIN rlcMap[dev] \cup {bapAddress[peer]}
      /\ \A a \in DOMAIN map : IF a = bapAddress[peer] THEN map[a] = peer
                               ELSE a \in DOMAIN rlcMap[dev] /\ map[a] = rlcMap[dev][a]
  BY DEF AddPairRlcMap
<1> HIDE DEF map
<1>4. rlcMap' = [rlcMap EXCEPT ![dev] = map] /\ DOMAIN rlcMap = Device
  BY <1>1 DEF map, ForwardingTypeOK
<1>5. /\ DOMAIN rlcMap' = Device
      /\ \A e \in Device : rlcMap'[e] = IF e = dev THEN map ELSE rlcMap[e]
  BY <1>4
<1>6. \A e \in Device : /\ DOMAIN rlcMap'[e] \subseteq Address
                        /\ \A a \in DOMAIN rlcMap'[e] : rlcMap'[e][a] \in Device
  BY <1>1, <1>2, <1>3, <1>5 DEF ForwardingTypeOK
<1>7. ForwardingTypeOK'
  BY <1>1, <1>5, <1>6 DEF ForwardingTypeOK, scenarioVars, packetVars
<1>8. SessionsAgree'
  BY <1>1 DEF SessionsAgree, topologyVars
<1>9. RlcMapNamesNeighbours'
  <2> SUFFICES ASSUME NEW e \in Device, NEW a \in DOMAIN rlcMap'[e]
               PROVE  /\ bapAddress[rlcMap'[e][a]] = a
                      /\ \/ rlcMap'[e][a] \in IabNodes /\ mtParent[rlcMap'[e][a]] = e
                         \/ e \in IabNodes /\ mtParent[e] = rlcMap'[e][a]
    BY DEF RlcMapNamesNeighbours, topologyVars
  <2>1. CASE e = dev /\ a = bapAddress[peer]
    BY <1>3, <1>5, <2>1
  <2>2. CASE ~(e = dev /\ a = bapAddress[peer])
    <3>1. a \in DOMAIN rlcMap[e] /\ rlcMap'[e][a] = rlcMap[e][a]
      BY <1>3, <1>5, <2>2
    <3> QED
      BY <1>1, <3>1 DEF RlcMapNamesNeighbours
  <2> QED
    BY <2>1, <2>2
<1> QED
  BY <1>7, <1>8, <1>9, LinkStepKeeps

LEMMA SetupDataRadioBearerKeeps ==
  ASSUME ForwardingInv, NEW n \in IabNodes, SetupDataRadioBearer(n)
  PROVE  ForwardingInv'
<1> DEFINE p == mtParent[n]
           d == IF p \in Donors THEN p ELSE servingDonor[p]
<1>1. TreeInv /\ Attached(n) /\ Simulating
  BY DEF ForwardingInv, SetupDataRadioBearer, Simulating
<1>2. p \in Device /\ d = servingDonor[n] /\ d \in Donors /\ Registered(d, n)
  BY <1>1, AttachedFacts
<1>3. GetBapAddress(d, n) = bapAddress[n]
  BY <1>1, <1>2, AddressFound
<1>4. innerPdcp' \in [Donors -> IabNodes \cup {NoDevice}]
  BY DEF SetupDataRadioBearer, ForwardingInv, ForwardingTypeOK
<1>5. /\ rlcMap' = [rlcMap EXCEPT ![p] = AddPairRlcMap(rlcMap[p], bapAddress[n], n)]
      /\ UNCHANGED <<topologyVars, scenarioVars, sgwDonor, packetVars, crash>>
  BY <1>3 DEF SetupDataRadioBearer
<1> QED
  BY <1>1, <1>2, <1>4, <1>5, EntryKeeps DEF Device

LEMMA AddDataRadioBearerKeeps ==
  ASSUME ForwardingInv, NEW n \in IabNodes, AddDataRadioBearerAtMt(n)
  PROVE  ForwardingInv'
<1> DEFINE p == mtParent[n]
<1>1. TreeInv /\ Attached(n) /\ Simulating
  BY DEF ForwardingInv, AddDataRadioBearerAtMt, Simulating
<1>2. p \in Device /\ servingDonor[n] \in Donors /\ Registered(servingDonor[n], p)
  BY <1>1, AttachedFacts
<1>3. GetBapAddress(servingDonor[n], p) = bapAddress[p]
  BY <1>1, <1>2, AddressFound
<1>4. /\ rlcMap' = [rlcMap EXCEPT ![n] = AddPairRlcMap(rlcMap[n], bapAddress[p], p)]
      /\ UNCHANGED <<topologyVars, scenarioVars, sgwDonor, innerPdcp, packetVars, crash>>
  BY <1>3 DEF AddDataRadioBearerAtMt
<1>5. innerPdcp' \in [Donors -> IabNodes \cup {NoDevice}]
  BY <1>4 DEF ForwardingInv, ForwardingTypeOK
<1> QED
  BY <1>1, <1>2, <1>4, <1>5, EntryKeeps DEF Device

(* The queues and deliveries after an event, as the invariant has them.    *)
LEMMA MovedIsGood ==
  ASSUME ForwardingInv, UNCHANGED topologyVars,
         air' \in [LinkOfDevices -> Seq(GoodPacket)],
         DOMAIN delivered' = Device,
         delivered' = [e \in Device |-> delivered'[e]],
         \A e \in Device : delivered'[e] \in Seq(GoodDelivery(e))
  PROVE  PacketsAreGood' /\ DeliveriesAreGood'
<1>1. GoodPacket' = GoodPacket /\ \A e \in Device : GoodDelivery(e)' = GoodDelivery(e)
  BY TopologyStands DEF ForwardingInv
<1>2. PacketsAreGood'
  BY <1>1 DEF PacketsAreGood
<1>3. \A e \in Device : (delivered[e] \in Seq(GoodDelivery(e)))'
  BY <1>1
<1>4. DeliveriesAreGood'
  BY <1>3 DEF DeliveriesAreGood
<1> QED
  BY <1>2, <1>4

LEMMA NotHandedUp ==
  ASSUME ForwardingInv, delivered' = delivered
  PROVE  /\ DOMAIN delivered' = Device
         /\ delivered' = [e \in Device |-> delivered'[e]]
         /\ \A e \in Device : delivered'[e] \in Seq(GoodDelivery(e))
BY DEF ForwardingInv, DeliveriesAreGood

LEMMA SendUplinkKeeps ==
  ASSUME ForwardingInv, NEW n \in IabNodes, NEW pdu \in BOOLEAN, SendUplink(n, pdu)
  PROVE  ForwardingInv'
<1> DEFINE d == servingDonor[n]
           sdu == [flow |-> [src |-> n, dst |-> d, pdu |-> pdu], id |-> sdus + 1]
<1>1. /\ TreeInv /\ Attached(n) /\ Simulating /\ simulating
      /\ ForwardingTypeOK /\ SessionsAgree /\ sdus < MaxSdus
  BY DEF ForwardingInv, SendUplink, MaySend, Simulating
<1>2. d \in Donors
  BY <1>1, AttachedFacts
<1>3. sdus + 1 \in 1..MaxSdus /\ sdus' = sdus + 1 /\ sdus' \in 0..MaxSdus
  BY <1>1, ForwardingAssumption DEF ForwardingTypeOK, SendUplink
<1>4. /\ sdu \in Sdu /\ sdu.flow.src = n /\ sdu.flow.dst = d
  BY <1>2, <1>3 DEF Sdu, Flow
<1>5. UNCHANGED <<topologyVars, scenarioVars, linkVars>>
  BY DEF SendUplink
<1>6. PICK dest \in {bapAddress[d], 0} : TransmitBapSdu(n, sdu, dest)
  BY <1>1 DEF SendUplink, SessionsAgree
<1> HIDE DEF sdu
<1>7. /\ air' \in [LinkOfDevices -> Seq(GoodPacket)]
      /\ delivered' = delivered
      /\ crash' \in Crashes
  <2>1. CASE dest = 0
    <3>1. DonorOf(n) = d
      BY TopologyAssumption DEF DonorOf
    <3>2. PathsBetween(DonorOf(n), bapAddress[n], 0) = {}
      BY <1>2, <3>1, NothingAtZero
    <3>3. Crash("no_path")
      BY <1>6, <2>1, <3>2 DEF TransmitBapSdu
    <3> QED
      BY <3>3 DEF Crash, Crashes, ForwardingInv, PacketsAreGood
  <2>2. CASE dest = bapAddress[d]
    <3>1. n \notin Donors
      BY TopologyAssumption
    <3> QED
      BY <1>1, <1>2, <1>4, <1>6, <2>2, <3>1, SendKeeps DEF JoinsNodeAndDonor
  <2> QED
    BY <1>6, <2>1, <2>2
<1>8. PacketsAreGood' /\ DeliveriesAreGood'
  BY <1>5, <1>7, NotHandedUp, MovedIsGood
<1> QED
  BY <1>1, <1>3, <1>5, <1>7, <1>8, PacketStepKeeps

LEMMA SendDownlinkKeeps ==
  ASSUME ForwardingInv, NEW n \in IabNodes, SendDownlink(n)
  PROVE  ForwardingInv'
<1> DEFINE d == sgwDonor[n]
           sdu == [flow |-> [src |-> d, dst |-> n, pdu |-> FALSE], id |-> sdus + 1]
<1>1. /\ TreeInv /\ Attached(n) /\ Simulating /\ simulating
      /\ ForwardingTypeOK /\ SessionsAgree /\ sdus < MaxSdus
      /\ d # NoDevice
  BY DEF ForwardingInv, SendDownlink, MaySend, Simulating
<1>2. d \in Donors /\ d = servingDonor[n]
  BY <1>1, AttachedFacts DEF SessionsAgree
<1>3. sdus + 1 \in 1..MaxSdus /\ sdus' = sdus + 1 /\ sdus' \in 0..MaxSdus
  BY <1>1, ForwardingAssumption DEF ForwardingTypeOK, SendDownlink
<1>4. /\ sdu \in Sdu /\ sdu.flow.src = d /\ sdu.flow.dst = n
  BY <1>2, <1>3 DEF Sdu, Flow
<1>5. /\ UNCHANGED <<topologyVars, scenarioVars, linkVars>>
      /\ TransmitBapSdu(d, sdu, bapAddress[n])
  BY DEF SendDownlink
<1> HIDE DEF sdu
<1>6. d \notin IabNodes
  BY <1>2, TopologyAssumption
<1>7. /\ air' \in [LinkOfDevices -> Seq(GoodPacket)]
      /\ delivered' = delivered
      /\ crash' \in Crashes
  BY <1>1, <1>2, <1>4, <1>5, <1>6, SendKeeps DEF JoinsNodeAndDonor
<1>8. PacketsAreGood' /\ DeliveriesAreGood'
  BY <1>5, <1>7, NotHandedUp, MovedIsGood
<1> QED
  BY <1>1, <1>3, <1>5, <1>7, <1>8, PacketStepKeeps

LEMMA ReceiveKeeps ==
  ASSUME ForwardingInv, NEW from \in Device, NEW to \in Device, Receive(from, to)
  PROVE  ForwardingInv'
<1> DEFINE link == <<from, to>>
           packet == Head(air[link])
           queues == [air EXCEPT ![link] = Tail(air[link])]
           header == Deserialize(packet.wire)
<1>1. /\ Simulating /\ simulating /\ ForwardingTypeOK
      /\ air \in [LinkOfDevices -> Seq(GoodPacket)]
      /\ UNCHANGED <<topologyVars, scenarioVars, linkVars, sdus>>
      /\ air[link] # <<>>
      /\ DoReceiveBapPdu(to, packet, queues)
  BY DEF ForwardingInv, PacketsAreGood, Receive, Simulating
<1>2. link \in LinkOfDevices
  BY DEF LinkOfDevices
<1> HIDE DEF link
<1>3. air[link] \in Seq(GoodPacket)
  BY <1>1, <1>2
<1>4. packet \in GoodPacket /\ Tail(air[link]) \in Seq(GoodPacket)
  BY <1>1, <1>3, SeqFacts
<1>5. queues \in [LinkOfDevices -> Seq(GoodPacket)]
  BY <1>1, <1>4
<1> HIDE DEF packet, queues
<1>6. /\ air' \in [LinkOfDevices -> Seq(GoodPacket)]
      /\ DOMAIN delivered' = Device
      /\ delivered' = [e \in Device |-> delivered'[e]]
      /\ \A e \in Device : delivered'[e] \in Seq(GoodDelivery(e))
      /\ crash' \in Crashes
  <2>1. CASE DoTransmitBapPdu(to, [packet EXCEPT !.wire = Serialize(header)],
                              header.dest, header.path, queues)
    <3>1. [packet EXCEPT !.wire = Serialize(header)] \in GoodPacket
      BY <1>1, <1>4, RelayedIsGood
    <3>2. /\ air' \in [LinkOfDevices -> Seq(GoodPacket)]
          /\ delivered' = delivered
          /\ crash' \in Crashes
      BY <1>5, <2>1, <3>1, TransmitKeeps
    <3> QED
      BY <3>2, NotHandedUp
  <2>2. CASE header.dest = bapAddress[to] /\ DoReceiveBapSdu(to, packet.sdu, header, queues)
    BY <1>1, <1>4, <1>5, <2>2, ReceiveSduKeeps
  <2> QED
    BY <1>1, <2>1, <2>2 DEF DoReceiveBapPdu
<1>7. PacketsAreGood' /\ DeliveriesAreGood'
  BY <1>1, <1>6, MovedIsGood
<1>8. sdus' \in 0..MaxSdus
  BY <1>1 DEF ForwardingTypeOK
<1> QED
  BY <1>1, <1>6, <1>7, <1>8, PacketStepKeeps

LEMMA LosePacketKeeps ==
  ASSUME ForwardingInv, NEW from \in Device, NEW to \in Device, LosePacket(from, to)
  PROVE  ForwardingInv'
<1> DEFINE link == <<from, to>>
<1>1. /\ Simulating /\ ForwardingTypeOK
      /\ air \in [LinkOfDevices -> Seq(GoodPacket)]
      /\ UNCHANGED <<topologyVars, scenarioVars, linkVars, sdus, delivered, crash>>
  BY DEF ForwardingInv, PacketsAreGood, LosePacket
<1>2. PICK i \in DOMAIN air[link] : air' = [air EXCEPT ![link] = RemoveAt(air[link], i)]
  BY DEF LosePacket
<1>3. link \in LinkOfDevices
  BY DEF LinkOfDevices
<1> HIDE DEF link
<1>4. RemoveAt(air[link], i) \in Seq(GoodPacket)
  BY <1>1, <1>3, RemovedFromSeq
<1>5. air' \in [LinkOfDevices -> Seq(GoodPacket)]
  BY <1>1, <1>2, <1>4
<1>6. PacketsAreGood' /\ DeliveriesAreGood'
  BY <1>1, <1>5, NotHandedUp, MovedIsGood
<1>7. sdus' \in 0..MaxSdus /\ crash' \in Crashes
  BY <1>1 DEF ForwardingTypeOK
<1> QED
  BY <1>1, <1>6, <1>7, PacketStepKeeps

(* Before the simulation nothing of the packets has begun.                 *)
LEMMA QuietIsGood ==
  ASSUME TypeOK, Quiet
  PROVE  SessionsAgree /\ RlcMapNamesNeighbours /\ PacketsAreGood /\ DeliveriesAreGood
<1>1. SessionsAgree /\ RlcMapNamesNeighbours
  BY DEF Quiet, SessionsAgree, RlcMapNamesNeighbours
<1>2. <<>> \in Seq(GoodPacket) /\ \A dev \in Device : <<>> \in Seq(GoodDelivery(dev))
  BY SeqFacts
<1>3. PacketsAreGood
  BY <1>2 DEF Quiet, PacketsAreGood
<1>4. DeliveriesAreGood
  BY <1>2 DEF Quiet, DeliveriesAreGood
<1> QED
  BY <1>1, <1>3, <1>4

LEMMA InitForwardingInv ==
  ForwardingInit => ForwardingInv
<1> SUFFICES ASSUME ForwardingInit PROVE ForwardingInv
  OBVIOUS
<1>1. TreeInv /\ TypeOK
  BY InitTreeInv DEF ForwardingInit, TreeInv, RoutingInv
<1>2. Quiet /\ ~simulating
  BY DEF ForwardingInit, Quiet, LinkOfDevices
<1>3. /\ <<>> \in Seq(Packet) /\ <<>> \in Seq(Delivery)
      /\ sdus \in 0..MaxSdus
  BY SeqFacts, ForwardingAssumption DEF ForwardingInit
<1>4. ForwardingTypeOK
  <2>1. air \in [Device \X Device -> Seq(Packet)] /\ delivered \in [Device -> Seq(Delivery)]
    BY <1>3 DEF ForwardingInit
  <2>2. /\ DOMAIN rlcMap = Device
        /\ \A dev \in Device : /\ DOMAIN rlcMap[dev] \subseteq Address
                               /\ \A a \in DOMAIN rlcMap[dev] : rlcMap[dev][a] \in Device
    BY DEF ForwardingInit
  <2>3. /\ sgwDonor \in [IabNodes -> Donors \cup {NoDevice}]
        /\ innerPdcp \in [Donors -> IabNodes \cup {NoDevice}]
        /\ scenario \in Scenarios /\ simulating \in BOOLEAN /\ crash \in Crashes
    BY DEF ForwardingInit, Crashes
  <2> QED
    BY <1>3, <2>1, <2>2, <2>3 DEF ForwardingTypeOK
<1>5. SessionsAgree /\ RlcMapNamesNeighbours /\ PacketsAreGood /\ DeliveriesAreGood
  BY <1>1, <1>2, QuietIsGood
<1> QED
  BY <1>1, <1>2, <1>4, <1>5 DEF ForwardingInv

LEMMA BuildTopologyKeeps ==
  ASSUME ForwardingInv, BuildTopology
  PROVE  ForwardingInv'
<1>1. TreeInv'
  BY NextTreeInv DEF ForwardingInv, BuildTopology
<1>2. Quiet' /\ ~simulating'
  BY DEF ForwardingInv, BuildTopology, Quiet, scenarioVars, linkVars, packetVars
<1>3. ForwardingTypeOK'
  BY DEF ForwardingInv, BuildTopology, ForwardingTypeOK, scenarioVars, linkVars, packetVars
<1>4. SessionsAgree' /\ RlcMapNamesNeighbours'
  BY <1>2 DEF Quiet, SessionsAgree, RlcMapNamesNeighbours
<1>5. <<>> \in Seq(GoodPacket') /\ \A dev \in Device : <<>> \in Seq(GoodDelivery(dev)')
  BY SeqFacts
<1>6. PacketsAreGood'
  BY <1>2, <1>5 DEF Quiet, PacketsAreGood
<1>7. DeliveriesAreGood'
  BY <1>2, <1>5 DEF Quiet, DeliveriesAreGood
<1> QED
  BY <1>1, <1>2, <1>3, <1>4, <1>6, <1>7 DEF ForwardingInv

(* A step that leaves everything but the flag of the simulation alone.     *)
LEMMA StartKeeps ==
  ASSUME ForwardingInv,
         UNCHANGED <<topologyVars, scenario, linkVars, packetVars, crash>>,
         simulating => simulating',
         simulating' => simulating \/ \A n \in IabNodes : Attached(n),
         simulating' \in BOOLEAN
  PROVE  ForwardingInv'
<1>1. /\ TreeInv' /\ \A n \in IabNodes : Attached(n)' <=> Attached(n)
      /\ GoodPacket' = GoodPacket
      /\ \A dev \in Device : GoodDelivery(dev)' = GoodDelivery(dev)
  BY TopologyStands DEF ForwardingInv
<1>2. PacketsAreGood' /\ DeliveriesAreGood'
  BY <1>1 DEF ForwardingInv, PacketsAreGood, DeliveriesAreGood, packetVars
<1>3. ForwardingTypeOK'
  BY DEF ForwardingInv, ForwardingTypeOK, linkVars, packetVars
<1>4. SessionsAgree' /\ RlcMapNamesNeighbours'
  BY DEF ForwardingInv, SessionsAgree, RlcMapNamesNeighbours, topologyVars, linkVars
<1>5. /\ (simulating \/ Quiet)'
      /\ (simulating => \A n \in IabNodes : Attached(n))'
  BY <1>1 DEF ForwardingInv, Quiet, linkVars, packetVars
<1> QED
  BY <1>1, <1>2, <1>3, <1>4, <1>5 DEF ForwardingInv

LEMMA NextForwardingInv ==
  ForwardingInv /\ [ForwardingNext]_forwardingVars => ForwardingInv'
<1> SUFFICES ASSUME ForwardingInv, [ForwardingNext]_forwardingVars PROVE ForwardingInv'
  OBVIOUS
<1>1. CASE BuildTopology
  BY <1>1, BuildTopologyKeeps
<1>2. CASE StartSimulation
  BY <1>2, StartKeeps DEF StartSimulation
<1>3. ASSUME NEW n \in IabNodes, Connect(n) PROVE ForwardingInv'
  BY <1>3, CreateSessionKeeps, SetupDataRadioBearerKeeps, AddDataRadioBearerKeeps DEF Connect
<1>4. ASSUME NEW n \in IabNodes, Send(n) PROVE ForwardingInv'
  BY <1>4, SendDownlinkKeeps, SendUplinkKeeps DEF Send
<1>5. ASSUME NEW from \in Device, NEW to \in Device, Receive(from, to) \/ LosePacket(from, to)
      PROVE  ForwardingInv'
  BY <1>5, ReceiveKeeps, LosePacketKeeps
<1>6. CASE UNCHANGED forwardingVars
  <2>1. simulating \in BOOLEAN
    BY DEF ForwardingInv, ForwardingTypeOK
  <2>2. /\ UNCHANGED <<topologyVars, scenario, linkVars, packetVars, crash>>
        /\ simulating => simulating'
        /\ simulating' => simulating
        /\ simulating' \in BOOLEAN
    BY <1>6, <2>1 DEF forwardingVars, scenarioVars
  <2> QED
    BY <2>2, StartKeeps
<1>7. \/ BuildTopology \/ StartSimulation
      \/ \E n \in IabNodes : Connect(n) \/ Send(n)
      \/ \E from, to \in Device : Receive(from, to) \/ LosePacket(from, to)
      \/ UNCHANGED forwardingVars
  BY DEF ForwardingNext
<1>8. CASE \E n \in IabNodes : Connect(n) \/ Send(n)
  BY <1>3, <1>4, <1>8
<1>9. CASE \E from, to \in Device : Receive(from, to) \/ LosePacket(from, to)
  <2>1. PICK from \in Device, to \in Device : Receive(from, to) \/ LosePacket(from, to)
    BY <1>9
  <2> QED
    BY <1>5, <2>1
<1> QED
  BY <1>1, <1>2, <1>6, <1>7, <1>8, <1>9

LEMMA ForwardingInvHolds ==
  ForwardingSafeSpec => []ForwardingInv
BY InitForwardingInv, NextForwardingInv, PTL DEF ForwardingSafeSpec

--------------------------------------------------------------------------------
(***************************************************************************)
(* Packets stay on the route of their flow, and once the backhaul is up no *)
(* check of the BAP code fails.  The invariant adds where a packet is, and *)
(* that links come up after the session of the node they are for.          *)
(***************************************************************************)
RoutedPacket(from, to) ==
  {packet \in GoodPacket :
     LET flow == packet.sdu.flow
         route == Route(flow)
     IN  /\ scenario.start = "backhaul" => BackhaulUp(FlowNode(flow))
         /\ \E k \in 1..(Len(route) - 1) : route[k] = from /\ route[k + 1] = to}

PacketsAreRouted ==
  \A from, to \in Device : air[<<from, to>>] \in Seq(RoutedPacket(from, to))

(* The parent of a node has an RLC entity that leads to the node only when *)
(* the node has a session.                                                 *)
SessionsFirst ==
  \A n \in IabNodes : Attached(n) =>
    \A a \in DOMAIN rlcMap[mtParent[n]] :
      rlcMap[mtParent[n]][a] = n => sgwDonor[n] # NoDevice

(* With its first link a donor gets an inner PDCP.                         *)
DonorsHavePdcp ==
  \A d \in Donors : DOMAIN rlcMap[d] # {} => innerPdcp[d] # NoDevice

RoutesInv ==
  /\ PlacesInv
  /\ ForwardingInv
  /\ SessionsFirst
  /\ DonorsHavePdcp
  /\ simulating \/ crash = "none"
  /\ OneOctetPaths => PacketsAreRouted /\ OnlyEarlyCrashes

(* What the devices of a route look up.                                    *)
Leads(flow, route) ==
  LET d == FlowDonor(flow) IN
    /\ route \in Seq(Device) /\ Len(route) \in Nat /\ Len(route) >= 2
    /\ route[1] = flow.src /\ route[Len(route)] = flow.dst
    /\ \A k \in 1..Len(route) :
         /\ route[k] \in Device
         /\ DonorOf(route[k]) = d
         /\ Installed(route[k])
    /\ \A k \in 1..(Len(route) - 1) :
         /\ bapAddress[route[k]] # bapAddress[flow.dst]
         /\ HasNextHop(d, bapAddress[route[k]], bapAddress[flow.dst], FlowPath(flow))
         /\ GetNextBapPathHop(d, bapAddress[route[k]], bapAddress[flow.dst], FlowPath(flow))
              = bapAddress[route[k + 1]]
         /\ BackhaulUp(FlowNode(flow)) => LinkUp(route[k], route[k + 1])

LEMMA RouteLeadsThrough ==
  ASSUME PlacesInv, ForwardingInv, simulating, NEW flow \in Flow, JoinsNodeAndDonor(flow)
  PROVE  Leads(flow, Route(flow))
<1> DEFINE n == FlowNode(flow)
           d == FlowDonor(flow)
           id == FlowPath(flow)
           c == Backhaul(n)
           path == AddressesOf(c)
           back == Reverse(path)
           len == Len(c)
<1>1. /\ n \in IabNodes /\ Attached(n)
      /\ d \in Donors /\ d = servingDonor[n] /\ d \notin IabNodes
      /\ \/ flow.src = n /\ flow.dst = d
         \/ flow.src = d /\ flow.dst = n
  BY EndsOfFlow
<1>2. id = GetPathId(d, bapAddress[n], bapAddress[d])
  BY DEF FlowPath
<1> HIDE DEF n, d, id
<1>3. /\ Chain(d, n, c)
      /\ \A k \in 1..Len(c) : Registered(d, c[k]) /\ path[k] = bapAddress[c[k]]
      /\ path \in Seq(Nat) /\ Len(path) = Len(c)
      /\ LeadsAlong(d, id, path)
      /\ back \in Seq(Nat) /\ Len(back) = Len(c)
      /\ \A k \in 1..Len(c) : back[k] = path[(Len(c) - k) + 1]
      /\ LeadsAlong(d, id, back)
  BY <1>1, <1>2, RouteLeads
<1>4. BackhaulUp(n) => \A k \in 1..(len - 1) : LinkUp(c[k], c[k + 1])
  BY DEF BackhaulUp
<1> DEFINE reversed == Reverse(c)
<1>5. Route(flow) = IF flow.src = n THEN c ELSE reversed
  BY <1>1 DEF Route, n, FlowNode
<1>6. reversed = [k \in 1..len |-> c[(len - k) + 1]]
  BY DEF Reverse
<1> HIDE DEF c, path, back
<1>7. /\ c \in Seq(Device) /\ len \in Nat /\ len >= 2 /\ c[1] = n /\ c[len] = d
      /\ \A k \in 1..(len - 1) : c[k] \in IabNodes
  BY <1>3 DEF Chain
<1>8. ASSUME NEW k \in 1..len
      PROVE  c[k] \in Device /\ DonorOf(c[k]) = d /\ Installed(c[k])
  <2>1. c[k] \in Device /\ Registered(d, c[k])
    BY <1>3, <1>7
  <2>2. Installed(c[k])
    BY <1>1, <2>1 DEF PlacesInv, TreeInv, RoutingInv, EntriesInstalled, Registered, EntriesOf
  <2>3. CASE k = len
    BY <1>1, <1>7, <2>1, <2>2, <2>3 DEF DonorOf
  <2>4. CASE k # len
    <3>1. c[k] \in IabNodes /\ c[k] \notin Donors
      BY <1>7, <2>4, TopologyAssumption
    <3> QED
      BY <1>1, <2>1, <2>2, <3>1 DEF DonorOf, PlacesInv, TreeInv, OneDonorPerTree
  <2> QED
    BY <2>3, <2>4
<1> HIDE DEF len
<1>9. len = Len(c)
  BY DEF len
<1>10. CASE flow.src = n
  <2>1. flow.dst = d
    BY <1>1, <1>10
  <2>2. ASSUME NEW k \in 1..(len - 1)
        PROVE  /\ bapAddress[c[k]] # bapAddress[d]
               /\ HasNextHop(d, bapAddress[c[k]], bapAddress[d], id)
               /\ GetNextBapPathHop(d, bapAddress[c[k]], bapAddress[d], id) = bapAddress[c[k + 1]]
               /\ BackhaulUp(n) => LinkUp(c[k], c[k + 1])
    <3>1. k \in 1..len /\ k + 1 \in 1..len /\ len \in 1..len
      BY <1>7
    <3>2. path[k] = bapAddress[c[k]] /\ path[k + 1] = bapAddress[c[k + 1]]
          /\ path[len] = bapAddress[d] /\ Len(path) = len
      BY <1>3, <1>7, <1>9, <3>1
    <3>3. /\ path[k] # path[len]
          /\ HasNextHop(d, path[k], path[len], id)
          /\ GetNextBapPathHop(d, path[k], path[len], id) = path[k + 1]
      BY <1>3, <3>2 DEF LeadsAlong
    <3> QED
      BY <1>4, <3>2, <3>3
  <2> QED
    BY <1>5, <1>7, <1>8, <1>9, <1>10, <2>1, <2>2 DEF Leads, d, n, id
<1>11. CASE flow.src # n
  <2>1. flow.src = d /\ flow.dst = n /\ Route(flow) = reversed
    BY <1>1, <1>5, <1>11
  <2>2. \A k \in 1..len : (len - k) + 1 \in 1..len
    BY <1>7
  <2> HIDE DEF reversed
  <2>3. /\ reversed \in [1..len -> Device]
        /\ \A k \in 1..len : reversed[k] = c[(len - k) + 1]
    BY <1>6, <1>8, <2>2
  <2>4. reversed \in Seq(Device) /\ Len(reversed) = len
    BY <1>7, <2>3, FunctionIsSequence, LengthOfFunction
  <2>5. /\ 1 \in 1..len /\ len \in 1..len /\ (len - 1) + 1 = len /\ (len - len) + 1 = 1
    BY <1>7
  <2>6. reversed[1] = d /\ reversed[len] = n
    BY <1>7, <2>3, <2>5
  <2>7. \A k \in 1..len : /\ reversed[k] \in Device
                          /\ DonorOf(reversed[k]) = d
                          /\ Installed(reversed[k])
    BY <1>8, <2>2, <2>3
  <2>8. ASSUME NEW k \in 1..(len - 1)
        PROVE  /\ bapAddress[reversed[k]] # bapAddress[n]
               /\ HasNextHop(d, bapAddress[reversed[k]], bapAddress[n], id)
               /\ GetNextBapPathHop(d, bapAddress[reversed[k]], bapAddress[n], id)
                    = bapAddress[reversed[k + 1]]
               /\ BackhaulUp(n) => LinkUp(reversed[k], reversed[k + 1])
    <3> DEFINE j == len - k
    <3>1. /\ k \in 1..len /\ k + 1 \in 1..len /\ len \in 1..len
          /\ j \in 1..(len - 1) /\ j \in 1..len /\ j + 1 \in 1..len
          /\ (len - k) + 1 = j + 1 /\ (len - (k + 1)) + 1 = j
      BY <1>7
    <3>2. reversed[k] = c[j + 1] /\ reversed[k + 1] = c[j]
      BY <2>3, <3>1
    <3> HIDE DEF j
    <3>3. back[k] = path[j + 1] /\ back[k + 1] = path[j] /\ back[len] = path[1]
      BY <1>3, <1>9, <2>5, <3>1
    <3>4. /\ back[k] = bapAddress[reversed[k]] /\ back[k + 1] = bapAddress[reversed[k + 1]]
          /\ back[len] = bapAddress[n] /\ Len(back) = len
      BY <1>3, <1>7, <1>9, <2>5, <3>1, <3>2, <3>3
    <3>5. /\ back[k] # back[len]
          /\ HasNextHop(d, back[k], back[len], id)
          /\ GetNextBapPathHop(d, back[k], back[len], id) = back[k + 1]
      BY <1>3, <3>4 DEF LeadsAlong
    <3>6. BackhaulUp(n) => LinkUp(c[j + 1], c[j])
      BY <1>4, <3>1 DEF LinkUp
    <3> QED
      BY <3>2, <3>4, <3>5, <3>6
  <2> QED
    BY <1>7, <2>1, <2>4, <2>6, <2>7, <2>8 DEF Leads, d, n, id
<1> QED
  BY <1>10, <1>11

(* While the topology stands and links only come up, a packet stays routed. *)
LEMMA BackhaulStands ==
  ASSUME NEW n, UNCHANGED topologyVars
  PROVE  Backhaul(n)' = Backhaul(n)
<1> DEFINE B(parent) ==
      LET bound == Cardinality(IabNodes)
          chain[k \in 0..bound] ==
            IF k = 0 THEN <<n>>
            ELSE LET lower == chain[k - 1]
                 IN  IF Last(lower) \in Donors THEN lower
                     ELSE Append(lower, parent[Last(lower)])
      IN  chain[bound]
<1>1. Backhaul(n) = B(mtParent)
  BY DEF Backhaul
<1>2. Backhaul(n)' = B(mtParent')
  BY DEF Backhaul
<1> HIDE DEF B
<1>3. mtParent' = mtParent
  BY DEF topologyVars
<1> QED
  BY <1>1, <1>2, <1>3

LEMMA RoutedStands ==
  ASSUME PlacesInv, ForwardingInv, simulating, UNCHANGED <<topologyVars, scenarioVars>>,
         \A dev \in Device : DOMAIN rlcMap[dev] \subseteq DOMAIN rlcMap'[dev],
         NEW from \in Device, NEW to \in Device
  PROVE  RoutedPacket(from, to) \subseteq RoutedPacket(from, to)'
<1>1. GoodPacket' = GoodPacket
  BY TopologyStands DEF ForwardingInv
<1>2. \A flow \in Flow : Route(flow)' = Route(flow)
  BY BackhaulStands DEF Route
<1>3. ASSUME NEW n \in IabNodes, BackhaulUp(n) PROVE BackhaulUp(n)'
  <2> DEFINE c == Backhaul(n)
             d == servingDonor[n]
  <2>1. Attached(n) /\ d \in Donors
    BY AttachedFacts DEF ForwardingInv
  <2>2. Chain(d, n, c)
    BY <2>1, RouteLeads
  <2>3. c' = c
    BY BackhaulStands
  <2>4. \A i \in 1..Len(c) - 1 : LinkUp(c[i], c[i + 1])
    BY <1>3 DEF BackhaulUp
  <2> HIDE DEF c
  <2>5. ASSUME NEW i \in 1..Len(c) - 1
        PROVE  /\ bapAddress'[c[i + 1]] \in DOMAIN rlcMap'[c[i]]
               /\ bapAddress'[c[i]] \in DOMAIN rlcMap'[c[i + 1]]
    <3>1. c[i] \in Device /\ c[i + 1] \in Device
      BY <2>2 DEF Chain
    <3>2. /\ bapAddress[c[i + 1]] \in DOMAIN rlcMap[c[i]]
          /\ bapAddress[c[i]] \in DOMAIN rlcMap[c[i + 1]]
      BY <2>4 DEF LinkUp
    <3>3. bapAddress' = bapAddress
      BY DEF topologyVars
    <3> QED
      BY <3>1, <3>2, <3>3
  <2> QED
    BY <2>3, <2>5 DEF BackhaulUp, LinkUp, c
<1>4. SUFFICES ASSUME NEW packet \in RoutedPacket(from, to)
               PROVE  packet \in RoutedPacket(from, to)'
  OBVIOUS
<1> DEFINE flow == packet.sdu.flow
<1>5. /\ packet \in GoodPacket /\ flow \in Flow
      /\ scenario.start = "backhaul" => BackhaulUp(FlowNode(flow))
      /\ \E k \in 1..(Len(Route(flow)) - 1) : Route(flow)[k] = from /\ Route(flow)[k + 1] = to
  BY DEF RoutedPacket, GoodPacket, Packet, Sdu
<1>6. FlowNode(flow) \in IabNodes
  BY <1>5 DEF FlowNode, Flow
<1>7. scenario' = scenario
  BY DEF scenarioVars
<1>8. /\ packet \in GoodPacket'
      /\ scenario'.start = "backhaul" => BackhaulUp(FlowNode(flow))'
      /\ \E k \in 1..(Len(Route(flow)') - 1) :
           Route(flow)'[k] = from /\ Route(flow)'[k + 1] = to
  BY <1>1, <1>2, <1>3, <1>5, <1>6, <1>7
<1> QED
  BY <1>8 DEF RoutedPacket

(* A device of a route sends the packet on to the next one.                *)
Harmless(reason) ==
  /\ reason \in {"none", "no_path", "no_rlc_entry"}
  /\ scenario.start = "backhaul" => reason = "none"

LEMMA TransmitGoesOn ==
  ASSUME RoutesInv, Simulating, NEW packet \in GoodPacket,
         NEW k \in 1..(Len(Route(packet.sdu.flow)) - 1),
         NEW dev, dev = Route(packet.sdu.flow)[k],
         NEW dest, dest = bapAddress[packet.sdu.flow.dst],
         NEW path, path = FlowPath(packet.sdu.flow),
         NEW queues,
         DoTransmitBapPdu(dev, packet, dest, path, queues)
  PROVE  LET peer == Route(packet.sdu.flow)[k + 1] IN
         /\ dev \in Device /\ peer \in Device
         /\ \/ Crash("no_rlc_entry") /\ ~BackhaulUp(FlowNode(packet.sdu.flow))
            \/ /\ air' = [queues EXCEPT ![<<dev, peer>>] = Append(queues[<<dev, peer>>], packet)]
               /\ UNCHANGED <<delivered, crash>>
<1> DEFINE flow == packet.sdu.flow
           route == Route(flow)
           peer == route[k + 1]
           d == FlowDonor(flow)
           next == GetNextBapPathHop(DonorOf(dev), bapAddress[dev], dest, path)
<1>1. PlacesInv /\ ForwardingInv /\ simulating
  BY DEF RoutesInv, Simulating
<1>2. flow \in Flow /\ JoinsNodeAndDonor(flow)
  BY DEF GoodPacket, Packet, Sdu
<1>3. Leads(flow, route)
  <2> HIDE DEF flow
  <2> QED
    BY <1>1, <1>2, RouteLeadsThrough
<1> HIDE DEF route
<1>4. k \in 1..(Len(route) - 1) /\ dev = route[k]
  BY DEF route
<1>5. /\ dev \in Device /\ peer \in Device /\ Installed(peer) /\ DonorOf(dev) = d
      /\ HasNextHop(DonorOf(dev), bapAddress[dev], dest, path)
      /\ next = bapAddress[peer]
      /\ BackhaulUp(FlowNode(flow)) => LinkUp(dev, peer)
  <2>1. Len(route) \in Nat /\ k \in 1..Len(route) /\ k + 1 \in 1..Len(route)
    BY <1>3, <1>4 DEF Leads
  <2> QED
    BY <1>3, <1>4, <2>1 DEF Leads
<1>6. RlcMapNamesNeighbours /\ AddressesDiffer /\ ForwardingTypeOK
  BY <1>1 DEF ForwardingInv, TreeInv
<1>7. next \in DOMAIN rlcMap[dev] => rlcMap[dev][next] = peer
  <2> HIDE DEF next, peer
  <2> SUFFICES ASSUME next \in DOMAIN rlcMap[dev] PROVE rlcMap[dev][next] = peer
    OBVIOUS
  <2>1. rlcMap[dev][next] \in Device /\ bapAddress[rlcMap[dev][next]] = next
    BY <1>5, <1>6 DEF ForwardingTypeOK, RlcMapNamesNeighbours
  <2> QED
    BY <1>5, <1>6, <2>1 DEF AddressesDiffer
<1>8. CASE Crash("no_rlc_entry") /\ next \notin DOMAIN rlcMap[dev]
  <2>1. ~BackhaulUp(FlowNode(flow))
    BY <1>5, <1>8 DEF LinkUp
  <2> QED
    BY <1>5, <1>8, <2>1 DEF route
<1>9. CASE /\ next \in DOMAIN rlcMap[dev]
           /\ air' = [queues EXCEPT ![<<dev, rlcMap[dev][next]>>] = Append(@, packet)]
           /\ UNCHANGED <<delivered, crash>>
  <2> HIDE DEF next, peer
  <2>1. air' = [queues EXCEPT ![<<dev, peer>>] = Append(queues[<<dev, peer>>], packet)]
    BY <1>7, <1>9
  <2> QED
    BY <1>5, <1>9, <2>1 DEF route, peer
<1> QED
  BY <1>5, <1>8, <1>9 DEF DoTransmitBapPdu

LEMMA TransmitOnRoute ==
  ASSUME RoutesInv, Simulating, NEW packet \in GoodPacket,
         scenario.start = "backhaul" => BackhaulUp(FlowNode(packet.sdu.flow)),
         NEW k \in 1..(Len(Route(packet.sdu.flow)) - 1),
         NEW dev, dev = Route(packet.sdu.flow)[k],
         NEW dest, dest = bapAddress[packet.sdu.flow.dst],
         NEW path, path = FlowPath(packet.sdu.flow),
         NEW queues \in [LinkOfDevices -> Seq(GoodPacket)],
         \A a, b \in Device : queues[<<a, b>>] \in Seq(RoutedPacket(a, b)),
         \A a, b \in Device : air[<<a, b>>] \in Seq(RoutedPacket(a, b)),
         DoTransmitBapPdu(dev, packet, dest, path, queues)
  PROVE  /\ \A a, b \in Device : air'[<<a, b>>] \in Seq(RoutedPacket(a, b))
         /\ Harmless(crash')
<1> DEFINE peer == Route(packet.sdu.flow)[k + 1]
<1>1. crash = "none"
  BY DEF Simulating
<1>2. /\ dev \in Device /\ peer \in Device
      /\ \/ Crash("no_rlc_entry") /\ ~BackhaulUp(FlowNode(packet.sdu.flow))
         \/ /\ air' = [queues EXCEPT ![<<dev, peer>>] = Append(queues[<<dev, peer>>], packet)]
            /\ UNCHANGED <<delivered, crash>>
  BY TransmitGoesOn
<1>3. packet \in RoutedPacket(dev, peer)
  BY DEF RoutedPacket
<1> HIDE DEF peer
<1>4. CASE Crash("no_rlc_entry") /\ ~BackhaulUp(FlowNode(packet.sdu.flow))
  BY <1>4 DEF Crash, Harmless
<1>5. CASE /\ air' = [queues EXCEPT ![<<dev, peer>>] = Append(queues[<<dev, peer>>], packet)]
           /\ UNCHANGED <<delivered, crash>>
  <2>1. Harmless(crash')
    BY <1>1, <1>5 DEF Harmless
  <2>2. ASSUME NEW a \in Device, NEW b \in Device
        PROVE  air'[<<a, b>>] \in Seq(RoutedPacket(a, b))
    <3>1. <<a, b>> \in LinkOfDevices
      BY DEF LinkOfDevices
    <3>2. CASE a = dev /\ b = peer
      <4>1. air'[<<a, b>>] = Append(queues[<<a, b>>], packet)
        BY <1>5, <3>1, <3>2
      <4>2. queues[<<a, b>>] \in Seq(RoutedPacket(a, b)) /\ packet \in RoutedPacket(a, b)
        BY <1>3, <3>2
      <4> QED
        BY ONLY <4>1, <4>2, SeqFacts
    <3>3. CASE ~(a = dev /\ b = peer)
      <4>1. <<a, b>> # <<dev, peer>>
        BY <3>3
      <4>2. air'[<<a, b>>] = queues[<<a, b>>]
        BY <1>5, <3>1, <4>1
      <4> QED
        BY <4>2
    <3> QED
      BY <3>2, <3>3
  <2> QED
    BY <2>1, <2>2
<1> QED
  BY <1>2, <1>4, <1>5

(* The source of a flow knows the path and sends the packet along it.      *)
LEMMA SendGoesOn ==
  ASSUME RoutesInv, Simulating, NEW sdu \in Sdu, JoinsNodeAndDonor(sdu.flow),
         TransmitBapSdu(sdu.flow.src, sdu, bapAddress[sdu.flow.dst])
  PROVE  /\ 1 \in 1..(Len(Route(sdu.flow)) - 1) /\ sdu.flow.src = Route(sdu.flow)[1]
         /\ \E packet \in GoodPacket :
              /\ packet.sdu = sdu
              /\ DoTransmitBapPdu(sdu.flow.src, packet, bapAddress[sdu.flow.dst],
                                  FlowPath(sdu.flow), air)
<1> DEFINE flow == sdu.flow
           d == DonorOf(flow.src)
           path == GetPathId(d, bapAddress[flow.src], bapAddress[flow.dst])
           header == [dest |-> bapAddress[flow.dst], path |-> path, data |-> TRUE,
                      reserved |-> IF flow.pdu THEN 0 ELSE ReservedBits(TRUE, FALSE, FALSE)]
           packet == [wire |-> Serialize(header), sdu |-> sdu]
<1>1. PlacesInv /\ ForwardingInv /\ simulating
  BY DEF RoutesInv, Simulating
<1>2. flow \in Flow
  BY DEF Sdu
<1>3. /\ PathsBetween(d, bapAddress[flow.src], bapAddress[flow.dst]) # {}
      /\ path = FlowPath(flow)
  <2> HIDE DEF flow
  <2> QED
    BY <1>1, <1>2, SenderFindsPath DEF flow
<1>4. packet \in GoodPacket
  <2> HIDE DEF path
  <2> QED
    BY <1>1, <1>3, SentIsGood
<1>5. DoTransmitBapPdu(flow.src, packet, bapAddress[flow.dst], path, air)
  BY <1>3 DEF TransmitBapSdu
<1>6. packet.sdu = sdu
  OBVIOUS
<1> HIDE DEF path, packet
<1>7. Leads(flow, Route(flow))
  BY <1>1, <1>2, RouteLeadsThrough
<1>8. 1 \in 1..(Len(Route(flow)) - 1) /\ flow.src = Route(flow)[1]
  BY <1>7 DEF Leads
<1> QED
  BY <1>3, <1>4, <1>5, <1>6, <1>8

LEMMA SendOnRoute ==
  ASSUME RoutesInv, Simulating, NEW sdu \in Sdu, JoinsNodeAndDonor(sdu.flow),
         scenario.start = "backhaul" => BackhaulUp(FlowNode(sdu.flow)),
         PacketsAreRouted,
         TransmitBapSdu(sdu.flow.src, sdu, bapAddress[sdu.flow.dst])
  PROVE  /\ \A a, b \in Device : air'[<<a, b>>] \in Seq(RoutedPacket(a, b))
         /\ Harmless(crash')
<1>1. /\ air \in [LinkOfDevices -> Seq(GoodPacket)]
      /\ \A a, b \in Device : air[<<a, b>>] \in Seq(RoutedPacket(a, b))
  BY DEF RoutesInv, ForwardingInv, PacketsAreGood, PacketsAreRouted
<1>2. PICK packet \in GoodPacket :
        /\ packet.sdu = sdu
        /\ DoTransmitBapPdu(sdu.flow.src, packet, bapAddress[sdu.flow.dst],
                            FlowPath(sdu.flow), air)
  BY SendGoesOn
<1>3. 1 \in 1..(Len(Route(sdu.flow)) - 1) /\ sdu.flow.src = Route(sdu.flow)[1]
  BY SendGoesOn
<1> QED
  BY <1>1, <1>2, <1>3, TransmitOnRoute

(* A packet that is received goes on along its route, or leaves it at its  *)
(* end, where the donor has an inner PDCP and knows the path.              *)
Relays(to, packet, queues) ==
  \E relayed \in GoodPacket :
    /\ relayed.sdu = packet.sdu
    /\ DoTransmitBapPdu(to, relayed, bapAddress[packet.sdu.flow.dst],
                        FlowPath(packet.sdu.flow), queues)

HandsUp(to, packet, queues) ==
  /\ packet.sdu.flow.dst = to
  /\ air' = queues
  /\ crash' = crash
  /\ \E via, bearerOf : HandUp(to, packet.sdu, via, bearerOf)

LEMMA ReceiveGoesOn ==
  ASSUME RoutesInv, OneOctetPaths, PacketsAreRouted,
         NEW from \in Device, NEW to \in Device, Receive(from, to)
  PROVE  LET packet == Head(air[<<from, to>>])
             queues == [air EXCEPT ![<<from, to>>] = Tail(air[<<from, to>>])]
             route == Route(packet.sdu.flow)
         IN  /\ air[<<from, to>>] # <<>>
             /\ packet \in RoutedPacket(from, to)
             /\ \E k \in 1..(Len(route) - 1) :
                  /\ route[k] = from /\ route[k + 1] = to
                  /\ \/ k + 1 \in 1..(Len(route) - 1) /\ Relays(to, packet, queues)
                     \/ k + 1 = Len(route) /\ HandsUp(to, packet, queues)
<1> DEFINE link == <<from, to>>
           packet == Head(air[link])
           queues == [air EXCEPT ![link] = Tail(air[link])]
           header == Deserialize(packet.wire)
           flow == packet.sdu.flow
           route == Route(flow)
<1>1. /\ Simulating /\ simulating
      /\ PlacesInv /\ ForwardingInv /\ DonorsHavePdcp
      /\ air[link] \in Seq(RoutedPacket(from, to))
      /\ air[link] # <<>>
      /\ bapAddress[from] \in DOMAIN rlcMap[to]
      /\ DoReceiveBapPdu(to, packet, queues)
  BY DEF RoutesInv, PacketsAreRouted, Receive, Simulating
<1> HIDE DEF link
<1>2. packet \in RoutedPacket(from, to)
  BY <1>1, SeqFacts
<1> HIDE DEF packet, queues
<1>3. /\ packet \in GoodPacket /\ flow \in Flow /\ JoinsNodeAndDonor(flow)
      /\ header.dest = bapAddress[flow.dst] /\ header.path = FlowPath(flow)
      /\ IsNonPdu(header) <=> ~flow.pdu
      /\ \E k \in 1..(Len(route) - 1) : route[k] = from /\ route[k + 1] = to
  BY <1>2 DEF RoutedPacket, GoodPacket, Packet, Sdu
<1>4. Leads(flow, route)
  <2> HIDE DEF flow
  <2> QED
    BY <1>1, <1>3, RouteLeadsThrough
<1>5. PICK k \in 1..(Len(route) - 1) : route[k] = from /\ route[k + 1] = to
  BY <1>3
<1>6. CASE /\ header.dest # bapAddress[to]
           /\ DoTransmitBapPdu(to, [packet EXCEPT !.wire = Serialize(header)],
                               header.dest, header.path, queues)
  <2> DEFINE relayed == [packet EXCEPT !.wire = Serialize(header)]
  <2>1. relayed \in GoodPacket
    BY <1>1, <1>3, RelayedIsGood
  <2>2. relayed.sdu = packet.sdu
    BY <1>3 DEF GoodPacket, Packet
  <2>3. k + 1 # Len(route)
    BY <1>3, <1>4, <1>5, <1>6 DEF Leads
  <2>4. k + 1 \in 1..(Len(route) - 1)
    BY <1>4, <2>3 DEF Leads
  <2> HIDE DEF relayed
  <2>5. DoTransmitBapPdu(to, relayed, header.dest, header.path, queues)
    BY <1>6 DEF relayed
  <2> HIDE DEF header
  <2>6. Relays(to, packet, queues)
    BY <1>3, <2>1, <2>2, <2>5 DEF Relays
  <2> QED
    BY <1>1, <1>2, <1>5, <2>4, <2>6 DEF packet, queues, link
<1>7. CASE header.dest = bapAddress[to] /\ DoReceiveBapSdu(to, packet.sdu, header, queues)
  <2>1. flow.dst = to
    BY <1>1, <1>3, <1>7, AtItsDestination
  <2>2. /\ flow.pdu => to \in Donors
        /\ to \in Donors => header.path \in DOMAIN bapPaths[to] /\ innerPdcp[to] # NoDevice
    <3>1. /\ flow.pdu => flow.dst \in Donors
          /\ to \in Donors => to = FlowDonor(flow)
      <4> HIDE DEF flow
      <4> QED
        BY <1>1, <1>3, <2>1, EndsOfFlow, TopologyAssumption
    <3>2. FlowPath(flow) \in DOMAIN bapPaths[FlowDonor(flow)]
      <4> HIDE DEF flow
      <4> QED
        BY <1>1, <1>3, PathOfFlow
    <3> QED
      BY <1>1, <1>3, <2>1, <3>1, <3>2 DEF DonorsHavePdcp
  <2>3. k + 1 = Len(route)
    <3>1. k \in 1..Len(route) /\ k + 1 \in 1..Len(route) /\ Len(route) \in Nat
      BY <1>4 DEF Leads
    <3> SUFFICES ASSUME k + 1 # Len(route) PROVE FALSE
      OBVIOUS
    <3>2. k + 1 \in 1..(Len(route) - 1)
      BY <3>1
    <3>3. bapAddress[route[k + 1]] # bapAddress[flow.dst]
      BY <1>4, <3>2 DEF Leads
    <3> QED
      BY <1>5, <2>1, <3>3
  <2> HIDE DEF header, flow
  <2>4. /\ air' = queues /\ crash' = crash
        /\ \E via, bearerOf : HandUp(to, packet.sdu, via, bearerOf)
    BY <1>3, <1>7, <2>2 DEF DoReceiveBapSdu
  <2>5. HandsUp(to, packet, queues)
    BY <2>1, <2>4 DEF HandsUp, flow
  <2> QED
    BY <1>1, <1>2, <1>5, <2>3, <2>5 DEF packet, queues, link, flow
<1> QED
  BY <1>1, <1>6, <1>7 DEF DoReceiveBapPdu

LEMMA ReceiveOnRoute ==
  ASSUME RoutesInv, OneOctetPaths, PacketsAreRouted,
         NEW from \in Device, NEW to \in Device, Receive(from, to)
  PROVE  /\ \A a, b \in Device : air'[<<a, b>>] \in Seq(RoutedPacket(a, b))
         /\ Harmless(crash')
<1> DEFINE link == <<from, to>>
           packet == Head(air[link])
           queues == [air EXCEPT ![link] = Tail(air[link])]
           flow == packet.sdu.flow
           route == Route(flow)
<1>1. /\ Simulating /\ crash = "none"
      /\ air \in [LinkOfDevices -> Seq(GoodPacket)]
      /\ \A a, b \in Device : air[<<a, b>>] \in Seq(RoutedPacket(a, b))
  BY DEF RoutesInv, ForwardingInv, PacketsAreGood, PacketsAreRouted, Receive, Simulating
<1>2. /\ air[link] # <<>>
      /\ packet \in RoutedPacket(from, to)
      /\ \E k \in 1..(Len(route) - 1) :
           /\ route[k] = from /\ route[k + 1] = to
           /\ \/ k + 1 \in 1..(Len(route) - 1) /\ Relays(to, packet, queues)
              \/ k + 1 = Len(route) /\ HandsUp(to, packet, queues)
  BY ReceiveGoesOn
<1>3. link \in LinkOfDevices
  BY DEF LinkOfDevices
<1>4. \A a, b \in Device : <<a, b>> = link <=> a = from /\ b = to
  OBVIOUS
<1>5. air[link] \in Seq(GoodPacket) /\ air[link] \in Seq(RoutedPacket(from, to))
  BY <1>1, <1>3
<1> HIDE DEF link
<1>6. Tail(air[link]) \in Seq(GoodPacket) /\ Tail(air[link]) \in Seq(RoutedPacket(from, to))
  BY <1>2, <1>5, SeqFacts
<1>7. queues \in [LinkOfDevices -> Seq(GoodPacket)]
  BY <1>1, <1>6
<1>8. \A a, b \in Device : queues[<<a, b>>] \in Seq(RoutedPacket(a, b))
  <2> SUFFICES ASSUME NEW a \in Device, NEW b \in Device
               PROVE  queues[<<a, b>>] \in Seq(RoutedPacket(a, b))
    OBVIOUS
  <2>1. <<a, b>> \in LinkOfDevices
    BY DEF LinkOfDevices
  <2>2. CASE a = from /\ b = to
    BY <1>1, <1>4, <1>6, <2>1, <2>2
  <2>3. CASE ~(a = from /\ b = to)
    <3>1. queues[<<a, b>>] = air[<<a, b>>]
      BY <1>1, <1>4, <2>1, <2>3
    <3> QED
      BY <1>1, <3>1
  <2> QED
    BY <2>2, <2>3
<1> HIDE DEF packet, queues
<1>9. scenario.start = "backhaul" => BackhaulUp(FlowNode(flow))
  BY <1>2 DEF RoutedPacket
<1>10. PICK k \in 1..(Len(route) - 1) :
         /\ route[k] = from /\ route[k + 1] = to
         /\ \/ k + 1 \in 1..(Len(route) - 1) /\ Relays(to, packet, queues)
            \/ HandsUp(to, packet, queues)
  BY <1>2
<1>11. CASE k + 1 \in 1..(Len(route) - 1) /\ Relays(to, packet, queues)
  <2>1. PICK relayed \in GoodPacket :
          /\ relayed.sdu = packet.sdu
          /\ DoTransmitBapPdu(to, relayed, bapAddress[flow.dst], FlowPath(flow), queues)
    BY <1>11 DEF Relays
  <2> QED
    BY <1>1, <1>7, <1>8, <1>9, <1>10, <1>11, <2>1, TransmitOnRoute
<1>12. CASE HandsUp(to, packet, queues)
  BY <1>1, <1>8, <1>12 DEF HandsUp, Harmless
<1> QED
  BY <1>10, <1>11, <1>12

(* What is left to show of an event that moves packets.                    *)
LEMMA PacketStepRoutes ==
  ASSUME RoutesInv, ForwardingInv', Simulating, UNCHANGED <<topologyVars, scenarioVars, linkVars>>,
         OneOctetPaths => /\ \A a, b \in Device : air'[<<a, b>>] \in Seq(RoutedPacket(a, b))
                          /\ Harmless(crash')
  PROVE  RoutesInv'
<1>1. PlacesInv /\ ForwardingInv /\ SessionsFirst /\ DonorsHavePdcp /\ simulating
  BY DEF RoutesInv, Simulating
<1>2. PlacesInv'
  BY <1>1, NextPlacesInv
<1>3. SessionsFirst' /\ DonorsHavePdcp'
  BY <1>1 DEF SessionsFirst, DonorsHavePdcp, Attached, topologyVars, linkVars
<1>4. simulating' /\ scenario' = scenario
  BY <1>1 DEF scenarioVars
<1>5. ASSUME OneOctetPaths' PROVE PacketsAreRouted' /\ OnlyEarlyCrashes'
  <2>1. OneOctetPaths
    BY <1>5 DEF OneOctetPaths, topologyVars
  <2>2. \A a, b \in Device : RoutedPacket(a, b) \subseteq RoutedPacket(a, b)'
    <3>1. \A dev \in Device : DOMAIN rlcMap[dev] \subseteq DOMAIN rlcMap'[dev]
      BY DEF linkVars
    <3>2. UNCHANGED <<topologyVars, scenarioVars>>
      OBVIOUS
    <3> QED
      BY <1>1, <3>1, <3>2, RoutedStands
  <2>3. \A a, b \in Device : air'[<<a, b>>] \in Seq(RoutedPacket(a, b)')
    BY <2>1, <2>2, SeqSubset
  <2>4. PacketsAreRouted'
    BY <2>3 DEF PacketsAreRouted
  <2> QED
    BY <1>4, <2>1, <2>4 DEF OnlyEarlyCrashes, Harmless
<1> QED
  BY <1>2, <1>3, <1>4, <1>5 DEF RoutesInv

(* Links that come up leave the packets where they are.                    *)
LEMMA LinkStepRoutes ==
  ASSUME RoutesInv, ForwardingInv', Simulating,
         UNCHANGED <<topologyVars, scenarioVars, packetVars, crash>>,
         \A dev \in Device : DOMAIN rlcMap[dev] \subseteq DOMAIN rlcMap'[dev],
         SessionsFirst', DonorsHavePdcp'
  PROVE  RoutesInv'
<1>1. /\ PlacesInv /\ ForwardingInv /\ simulating
      /\ OneOctetPaths => PacketsAreRouted /\ OnlyEarlyCrashes
  BY DEF RoutesInv, Simulating
<1>2. PlacesInv'
  BY <1>1, NextPlacesInv
<1>3. simulating' /\ scenario' = scenario
  BY <1>1 DEF scenarioVars
<1>4. ASSUME OneOctetPaths' PROVE PacketsAreRouted' /\ OnlyEarlyCrashes'
  <2>1. OneOctetPaths
    BY <1>4 DEF OneOctetPaths, topologyVars
  <2>2. UNCHANGED <<topologyVars, scenarioVars>>
    OBVIOUS
  <2>3. \A a, b \in Device : RoutedPacket(a, b) \subseteq RoutedPacket(a, b)'
    BY <1>1, <2>2, RoutedStands
  <2>4. \A a, b \in Device : air'[<<a, b>>] \in Seq(RoutedPacket(a, b)')
    BY <1>1, <2>1, <2>3, SeqSubset DEF PacketsAreRouted, packetVars
  <2>5. PacketsAreRouted'
    BY <2>4 DEF PacketsAreRouted
  <2> QED
    BY <1>1, <1>3, <2>1, <2>5 DEF OnlyEarlyCrashes
<1> QED
  BY <1>2, <1>3, <1>4 DEF RoutesInv

LEMMA EntryRoutes ==
  ASSUME RoutesInv, ForwardingInv', Simulating,
         UNCHANGED <<topologyVars, scenarioVars, sgwDonor, packetVars, crash>>,
         NEW dev \in Device, NEW peer \in Device, NEW address,
         rlcMap' = [rlcMap EXCEPT ![dev] = AddPairRlcMap(rlcMap[dev], address, peer)],
         peer \in IabNodes /\ mtParent[peer] = dev => sgwDonor[peer] # NoDevice,
         \A d \in Donors : d = dev \/ innerPdcp[d] # NoDevice => innerPdcp'[d] # NoDevice
  PROVE  RoutesInv'
<1>1. SessionsFirst /\ DonorsHavePdcp /\ TypeOK /\ DOMAIN rlcMap = Device
  BY DEF RoutesInv, PlacesInv, TreeInv, RoutingInv, ForwardingInv, ForwardingTypeOK
<1> DEFINE map == AddPairRlcMap(rlcMap[dev], address, peer)
<1>2. /\ DOMAIN map = DOMAIN rlcMap[dev] \cup {address}
      /\ \A a \in DOMAIN map : \/ map[a] = peer
                               \/ a \in DOMAIN rlcMap[dev] /\ map[a] = rlcMap[dev][a]
  BY DEF AddPairRlcMap
<1> HIDE DEF map
<1>3. \A e \in Device : rlcMap'[e] = IF e = dev THEN map ELSE rlcMap[e]
  BY <1>1 DEF map
<1>4. \A e \in Device : DOMAIN rlcMap[e] \subseteq DOMAIN rlcMap'[e]
  BY <1>2, <1>3
<1>5. SessionsFirst'
  <2> SUFFICES ASSUME NEW n \in IabNodes, Attached(n)', NEW a \in DOMAIN rlcMap'[mtParent'[n]],
                      rlcMap'[mtParent'[n]][a] = n
               PROVE  sgwDonor'[n] # NoDevice
    BY DEF SessionsFirst
  <2>1. mtParent' = mtParent /\ sgwDonor' = sgwDonor /\ Attached(n)
    BY DEF topologyVars, Attached
  <2>2. mtParent[n] \in Device
    BY <1>1, <2>1 DEF TypeOK, Attached
  <2>3. CASE mtParent[n] = dev /\ rlcMap'[mtParent'[n]][a] = peer
    BY <2>1, <2>3
  <2>4. CASE ~(mtParent[n] = dev /\ rlcMap'[mtParent'[n]][a] = peer)
    <3>1. a \in DOMAIN rlcMap[mtParent[n]] /\ rlcMap[mtParent[n]][a] = n
      BY <1>2, <1>3, <2>1, <2>2, <2>4
    <3> QED
      BY <1>1, <2>1, <3>1 DEF SessionsFirst
  <2> QED
    BY <2>3, <2>4
<1>6. DonorsHavePdcp'
  <2> SUFFICES ASSUME NEW d \in Donors, DOMAIN rlcMap'[d] # {} PROVE innerPdcp'[d] # NoDevice
    BY DEF DonorsHavePdcp
  <2>1. d # dev => rlcMap'[d] = rlcMap[d]
    BY <1>3 DEF Device
  <2> QED
    BY <1>1, <2>1 DEF DonorsHavePdcp
<1> QED
  BY <1>4, <1>5, <1>6, LinkStepRoutes

(* The first link of the backhaul is the node's own.                       *)
LEMMA ParentIsNext ==
  ASSUME PlacesInv, NEW n \in IabNodes, Attached(n)
  PROVE  /\ BackhaulUp(n) => LinkUp(n, mtParent[n])
         /\ mtParent[n] \in IabNodes => mtParent[mtParent[n]] # n
<1> DEFINE d == servingDonor[n]
           c == Backhaul(n)
<1>1. d \in Donors
  BY AttachedFacts DEF PlacesInv
<1>2. Chain(d, n, c)
  BY <1>1, RouteLeads
<1>3. BackhaulUp(n) => \A i \in 1..(Len(c) - 1) : LinkUp(c[i], c[i + 1])
  BY DEF BackhaulUp
<1> HIDE DEF c, d
<1>4. /\ Len(c) \in Nat /\ Len(c) >= 2 /\ c[1] = n /\ mtParent[n] = c[2] /\ 1 + 1 = 2
      /\ c[Len(c)] = d
      /\ \A i \in 1..(Len(c) - 1) : mtParent[c[i]] = c[i + 1]
      /\ \A i, j \in 1..Len(c) : c[i] = c[j] => i = j
  BY <1>2 DEF Chain
<1>5. BackhaulUp(n) => LinkUp(n, mtParent[n])
  BY <1>3, <1>4
<1>6. ASSUME mtParent[n] \in IabNodes, mtParent[mtParent[n]] = n PROVE FALSE
  <2>1. Len(c) # 2
    BY <1>1, <1>4, <1>6, TopologyAssumption
  <2>2. 2 \in 1..(Len(c) - 1) /\ 3 \in 1..Len(c) /\ 1 \in 1..Len(c) /\ 2 + 1 = 3
    <3>1. PICK len : len = Len(c)
      OBVIOUS
    <3>2. len \in Nat /\ len >= 2 /\ len # 2
      BY <1>4, <2>1, <3>1
    <3> QED
      BY <3>1, <3>2
  <2>3. mtParent[c[2]] = c[3]
    BY <1>4, <2>2
  <2> QED
    BY <1>4, <1>6, <2>2, <2>3
<1> QED
  BY <1>5, <1>6

LEMMA ConnectRoutes ==
  ASSUME RoutesInv, ForwardingInv', NEW n \in IabNodes, Connect(n)
  PROVE  RoutesInv'
<1> DEFINE p == mtParent[n]
<1>1. /\ PlacesInv /\ TreeInv /\ TypeOK /\ ForwardingInv /\ ForwardingTypeOK
      /\ SessionsFirst /\ DonorsHavePdcp
  BY DEF RoutesInv, PlacesInv, TreeInv, RoutingInv, ForwardingInv
<1>2. Simulating /\ Attached(n)
  BY <1>1 DEF Connect, CreateSession, SetupDataRadioBearer, AddDataRadioBearerAtMt, Simulating,
              ForwardingInv
<1>3. p \in Device /\ n \in Device /\ n \notin Donors
  BY <1>1, <1>2, AttachedFacts, TopologyAssumption DEF Device
<1>4. CASE CreateSession(n)
  <2> DEFINE donor == IF mtParent[n] \in Donors THEN mtParent[n] ELSE servingDonor[mtParent[n]]
  <2>1. donor \in Donors /\ donor # NoDevice
    BY <1>1, <1>2, AttachedFacts, TopologyAssumption DEF Device
  <2> HIDE DEF donor
  <2>2. /\ sgwDonor' = [sgwDonor EXCEPT ![n] = donor]
        /\ UNCHANGED <<topologyVars, scenarioVars, rlcMap, innerPdcp, packetVars, crash>>
    BY <1>4 DEF CreateSession, donor
  <2>3. \A m \in IabNodes : sgwDonor[m] # NoDevice => sgwDonor'[m] # NoDevice
    BY <1>1, <2>1, <2>2 DEF ForwardingTypeOK
  <2>4. SessionsFirst' /\ DonorsHavePdcp'
    BY <1>1, <2>2, <2>3 DEF SessionsFirst, DonorsHavePdcp, Attached, topologyVars
  <2> QED
    BY <1>2, <2>2, <2>4, LinkStepRoutes
<1>5. CASE SetupDataRadioBearer(n)
  <2>1. PICK address :
          /\ rlcMap' = [rlcMap EXCEPT ![p] = AddPairRlcMap(rlcMap[p], address, n)]
          /\ sgwDonor[n] # NoDevice
          /\ innerPdcp' = IF p \in Donors THEN [innerPdcp EXCEPT ![p] = n] ELSE innerPdcp
          /\ UNCHANGED <<topologyVars, scenarioVars, sgwDonor, packetVars, crash>>
    BY <1>5 DEF SetupDataRadioBearer
  <2>2. \A d \in Donors : d = p \/ innerPdcp[d] # NoDevice => innerPdcp'[d] # NoDevice
    BY <1>1, <1>3, <2>1, TopologyAssumption DEF ForwardingTypeOK
  <2> HIDE DEF p
  <2> QED
    BY <1>2, <1>3, <2>1, <2>2, EntryRoutes
<1>6. CASE AddDataRadioBearerAtMt(n)
  <2>1. PICK address :
          /\ rlcMap' = [rlcMap EXCEPT ![n] = AddPairRlcMap(rlcMap[n], address, p)]
          /\ UNCHANGED <<topologyVars, scenarioVars, sgwDonor, innerPdcp, packetVars, crash>>
    BY <1>6 DEF AddDataRadioBearerAtMt
  <2>2. ~(p \in IabNodes /\ mtParent[p] = n)
    BY <1>1, <1>2, ParentIsNext
  <2>3. \A d \in Donors : d = n \/ innerPdcp[d] # NoDevice => innerPdcp'[d] # NoDevice
    BY <1>3, <2>1
  <2> HIDE DEF p
  <2> QED
    BY <1>2, <1>3, <2>1, <2>2, <2>3, EntryRoutes
<1> QED
  BY <1>4, <1>5, <1>6 DEF Connect

(* A node whose own link is up has a session.                              *)
LEMMA LinkedHaveSession ==
  ASSUME RoutesInv, NEW n \in IabNodes, Attached(n), BackhaulUp(n)
  PROVE  sgwDonor[n] # NoDevice
<1> DEFINE p == mtParent[n]
<1>1. /\ PlacesInv /\ TreeInv /\ AddressesDiffer /\ ForwardingTypeOK /\ RlcMapNamesNeighbours
      /\ SessionsFirst
  BY DEF RoutesInv, PlacesInv, TreeInv, ForwardingInv
<1>2. p \in Device /\ n \in Device /\ Installed(n)
  BY <1>1, AttachedFacts DEF Device
<1>3. bapAddress[n] \in DOMAIN rlcMap[p]
  BY <1>1, ParentIsNext DEF LinkUp
<1> DEFINE peer == rlcMap[p][bapAddress[n]]
<1>4. peer \in Device /\ bapAddress[peer] = bapAddress[n]
  BY <1>1, <1>2, <1>3 DEF ForwardingTypeOK, RlcMapNamesNeighbours
<1>5. peer = n
  BY <1>1, <1>2, <1>4 DEF AddressesDiffer
<1> QED
  BY <1>1, <1>3, <1>5 DEF SessionsFirst

LEMMA SendRoutes ==
  ASSUME RoutesInv, ForwardingInv', NEW n \in IabNodes, Send(n)
  PROVE  RoutesInv'
<1>1. /\ ForwardingInv /\ TreeInv /\ SessionsAgree
      /\ OneOctetPaths => PacketsAreRouted
  BY DEF RoutesInv, ForwardingInv
<1>2. /\ Simulating /\ simulating /\ crash = "none" /\ Attached(n) /\ sdus < MaxSdus
      /\ scenario.start = "backhaul" => BackhaulUp(n)
      /\ UNCHANGED <<topologyVars, scenarioVars, linkVars>>
  BY <1>1 DEF Send, SendUplink, SendDownlink, MaySend, Simulating, ForwardingInv
<1>3. servingDonor[n] \in Donors /\ n \notin Donors
  BY <1>1, <1>2, AttachedFacts, TopologyAssumption
<1>4. sdus + 1 \in 1..MaxSdus
  BY <1>1, <1>2, ForwardingAssumption DEF ForwardingInv, ForwardingTypeOK
<1>5. ASSUME NEW sdu \in Sdu, JoinsNodeAndDonor(sdu.flow), FlowNode(sdu.flow) = n, OneOctetPaths,
             TransmitBapSdu(sdu.flow.src, sdu, bapAddress[sdu.flow.dst])
      PROVE  /\ \A a, b \in Device : air'[<<a, b>>] \in Seq(RoutedPacket(a, b))
             /\ Harmless(crash')
  BY <1>1, <1>2, <1>5, SendOnRoute
<1>6. ASSUME SendDownlink(n), OneOctetPaths
      PROVE  /\ \A a, b \in Device : air'[<<a, b>>] \in Seq(RoutedPacket(a, b))
             /\ Harmless(crash')
  <2> DEFINE d == sgwDonor[n]
             sdu == [flow |-> [src |-> d, dst |-> n, pdu |-> FALSE], id |-> sdus + 1]
  <2>1. d = servingDonor[n] /\ d \in Donors /\ d \notin IabNodes
    BY <1>1, <1>3, <1>6, TopologyAssumption DEF SessionsAgree, SendDownlink
  <2>2. sdu \in Sdu /\ sdu.flow.src = d /\ sdu.flow.dst = n
    BY <1>4, <2>1 DEF Sdu, Flow
  <2>3. TransmitBapSdu(d, sdu, bapAddress[n])
    BY <1>6 DEF SendDownlink
  <2> HIDE DEF sdu, d
  <2>4. JoinsNodeAndDonor(sdu.flow) /\ FlowNode(sdu.flow) = n
    BY <2>1, <2>2 DEF JoinsNodeAndDonor, FlowNode
  <2> QED
    BY <1>5, <1>6, <2>2, <2>3, <2>4
<1>7. ASSUME NEW pdu \in BOOLEAN, SendUplink(n, pdu), OneOctetPaths
      PROVE  /\ \A a, b \in Device : air'[<<a, b>>] \in Seq(RoutedPacket(a, b))
             /\ Harmless(crash')
  <2> DEFINE d == servingDonor[n]
             sdu == [flow |-> [src |-> n, dst |-> d, pdu |-> pdu], id |-> sdus + 1]
  <2>1. sdu \in Sdu /\ sdu.flow.src = n /\ sdu.flow.dst = d
    BY <1>3, <1>4 DEF Sdu, Flow
  <2>2. PICK dest : /\ dest = bapAddress[d] \/ (dest = 0 /\ sgwDonor[n] = NoDevice)
                    /\ TransmitBapSdu(n, sdu, dest)
    BY <1>1, <1>7 DEF SendUplink, SessionsAgree
  <2> HIDE DEF sdu
  <2>3. CASE dest = bapAddress[d]
    <3>1. JoinsNodeAndDonor(sdu.flow) /\ FlowNode(sdu.flow) = n
      BY <2>1 DEF JoinsNodeAndDonor, FlowNode
    <3> QED
      BY <1>5, <1>7, <2>1, <2>2, <2>3, <3>1
  <2>4. CASE dest = 0 /\ sgwDonor[n] = NoDevice
    <3>1. DonorOf(n) = d
      BY <1>3 DEF DonorOf
    <3>2. PathsBetween(DonorOf(n), bapAddress[n], 0) = {}
      BY <1>1, <1>3, <3>1, NothingAtZero
    <3>3. Crash("no_path")
      BY <2>2, <2>4, <3>2 DEF TransmitBapSdu
    <3>4. scenario.start # "backhaul"
      BY <1>2, <2>4, LinkedHaveSession
    <3> QED
      BY <1>1, <1>7, <3>3, <3>4 DEF Crash, Harmless, PacketsAreRouted
  <2> QED
    BY <2>2, <2>3, <2>4
<1>8. CASE SendDownlink(n)
  BY <1>2, <1>6, <1>8, PacketStepRoutes
<1>9. ASSUME NEW pdu \in BOOLEAN, SendUplink(n, pdu) PROVE RoutesInv'
  BY <1>2, <1>7, <1>9, PacketStepRoutes
<1> QED
  BY <1>8, <1>9 DEF Send

LEMMA ReceiveRoutes ==
  ASSUME RoutesInv, ForwardingInv', NEW from \in Device, NEW to \in Device, Receive(from, to)
  PROVE  RoutesInv'
<1>1. Simulating /\ UNCHANGED <<topologyVars, scenarioVars, linkVars>>
  BY DEF Receive
<1>2. OneOctetPaths => PacketsAreRouted
  BY DEF RoutesInv
<1> QED
  BY <1>1, <1>2, ReceiveOnRoute, PacketStepRoutes

LEMMA LosePacketRoutes ==
  ASSUME RoutesInv, ForwardingInv', NEW from \in Device, NEW to \in Device, LosePacket(from, to)
  PROVE  RoutesInv'
<1> DEFINE link == <<from, to>>
<1>1. /\ Simulating /\ crash = "none" /\ crash' = crash
      /\ UNCHANGED <<topologyVars, scenarioVars, linkVars>>
      /\ DOMAIN air = LinkOfDevices
  BY DEF LosePacket, Simulating, RoutesInv, ForwardingInv, PacketsAreGood
<1>2. PICK i \in DOMAIN air[link] : air' = [air EXCEPT ![link] = RemoveAt(air[link], i)]
  BY DEF LosePacket
<1>3. link \in LinkOfDevices /\ \A a, b \in Device : <<a, b>> = link <=> a = from /\ b = to
  BY DEF LinkOfDevices
<1> HIDE DEF link
<1>4. ASSUME OneOctetPaths, NEW a \in Device, NEW b \in Device
      PROVE  air'[<<a, b>>] \in Seq(RoutedPacket(a, b))
  <2>1. <<a, b>> \in LinkOfDevices /\ air[<<a, b>>] \in Seq(RoutedPacket(a, b))
    BY <1>4 DEF LinkOfDevices, RoutesInv, PacketsAreRouted
  <2>2. CASE <<a, b>> = link
    <3>1. RemoveAt(air[link], i) \in Seq(RoutedPacket(a, b))
      BY <2>1, <2>2, RemovedFromSeq
    <3> QED
      BY <1>1, <1>2, <2>1, <2>2, <3>1
  <2>3. CASE <<a, b>> # link
    <3>1. air'[<<a, b>>] = air[<<a, b>>]
      BY <1>1, <1>2, <2>1, <2>3
    <3> QED
      BY <2>1, <3>1
  <2> QED
    BY <2>2, <2>3
<1>5. Harmless(crash')
  BY <1>1 DEF Harmless
<1> QED
  BY <1>1, <1>4, <1>5, PacketStepRoutes

(* Before the simulation there is nothing to route.                        *)
LEMMA QuietStepRoutes ==
  ASSUME RoutesInv, ~simulating, ForwardingInv', PlacesInv',
         UNCHANGED <<scenario, linkVars, packetVars, crash>>
  PROVE  RoutesInv'
<1>1. /\ rlcMap' = [dev \in Device |-> <<>>]
      /\ air' = [link \in LinkOfDevices |-> <<>>]
      /\ crash' = "none"
  BY DEF RoutesInv, ForwardingInv, Quiet, linkVars, packetVars
<1>2. \A dev \in Device : DOMAIN rlcMap'[dev] = {}
  BY <1>1
<1>3. \A n \in IabNodes : Attached(n)' => mtParent'[n] \in Device
  BY DEF PlacesInv, TreeInv, RoutingInv, TypeOK, Attached
<1>4. SessionsFirst' /\ DonorsHavePdcp'
  BY <1>2, <1>3 DEF SessionsFirst, DonorsHavePdcp, Device
<1>5. \A a, b \in Device : air'[<<a, b>>] \in Seq(RoutedPacket(a, b)')
  <2>1. \A a, b \in Device : air'[<<a, b>>] = <<>>
    BY <1>1 DEF LinkOfDevices
  <2> QED
    BY <2>1, SeqFacts
<1>6. PacketsAreRouted' /\ OnlyEarlyCrashes'
  BY <1>1, <1>5 DEF PacketsAreRouted, OnlyEarlyCrashes
<1> QED
  BY <1>1, <1>4, <1>6 DEF RoutesInv

LEMMA InitRoutesInv == ForwardingInit => RoutesInv
<1> SUFFICES ASSUME ForwardingInit PROVE RoutesInv
  OBVIOUS
<1>1. ForwardingInv /\ PlacesInv
  BY InitForwardingInv, InitPlacesInv DEF ForwardingInit
<1>2. /\ \A dev \in Device : DOMAIN rlcMap[dev] = {}
      /\ \A a, b \in Device : air[<<a, b>>] = <<>>
      /\ crash = "none"
  BY DEF ForwardingInit
<1>3. \A n \in IabNodes : Attached(n) => mtParent[n] \in Device
  BY <1>1 DEF PlacesInv, TreeInv, RoutingInv, TypeOK, Attached
<1>4. SessionsFirst /\ DonorsHavePdcp
  BY <1>2, <1>3 DEF SessionsFirst, DonorsHavePdcp, Device
<1>5. \A a, b \in Device : air[<<a, b>>] \in Seq(RoutedPacket(a, b))
  BY <1>2, SeqFacts
<1> QED
  BY <1>1, <1>2, <1>4, <1>5 DEF RoutesInv, PacketsAreRouted, OnlyEarlyCrashes

LEMMA NextRoutesInv ==
  RoutesInv /\ [ForwardingNext]_forwardingVars => RoutesInv'
<1> SUFFICES ASSUME RoutesInv, [ForwardingNext]_forwardingVars PROVE RoutesInv'
  OBVIOUS
<1>1. /\ PlacesInv /\ ForwardingInv
      /\ OneOctetPaths => PacketsAreRouted /\ OnlyEarlyCrashes
  BY DEF RoutesInv
<1>2. ForwardingInv'
  BY <1>1, NextForwardingInv
<1>3. CASE BuildTopology
  <2>1. ~simulating /\ [TopologyNext]_topologyVars
        /\ UNCHANGED <<scenario, linkVars, packetVars, crash>>
    BY <1>3 DEF BuildTopology, scenarioVars
  <2> QED
    BY <1>1, <1>2, <2>1, NextPlacesInv, QuietStepRoutes
<1>4. CASE StartSimulation
  <2>1. ~simulating /\ [TopologyNext]_topologyVars
        /\ UNCHANGED <<scenario, linkVars, packetVars, crash>>
    BY <1>4 DEF StartSimulation
  <2> QED
    BY <1>1, <1>2, <2>1, NextPlacesInv, QuietStepRoutes
<1>5. ASSUME NEW n \in IabNodes, Connect(n) \/ Send(n) PROVE RoutesInv'
  BY <1>2, <1>5, ConnectRoutes, SendRoutes
<1>6. ASSUME NEW from \in Device, NEW to \in Device, Receive(from, to) \/ LosePacket(from, to)
      PROVE  RoutesInv'
  BY <1>2, <1>6, ReceiveRoutes, LosePacketRoutes
<1>7. CASE UNCHANGED forwardingVars
  <2>1. PlacesInv'
    BY <1>1, <1>7, NextPlacesInv DEF forwardingVars
  <2>2. CASE ~simulating
    BY <1>2, <1>7, <2>1, <2>2, QuietStepRoutes DEF forwardingVars, scenarioVars
  <2>3. CASE simulating
    <3>1. SessionsFirst' /\ DonorsHavePdcp' /\ simulating'
      BY <1>7, <2>3 DEF RoutesInv, SessionsFirst, DonorsHavePdcp, Attached, forwardingVars,
                        topologyVars, linkVars, scenarioVars
    <3>2. UNCHANGED <<topologyVars, scenarioVars>>
      BY <1>7 DEF forwardingVars
    <3>3. \A dev \in Device : DOMAIN rlcMap[dev] \subseteq DOMAIN rlcMap'[dev]
      BY <1>7 DEF forwardingVars, linkVars
    <3>4. \A a, b \in Device : RoutedPacket(a, b) \subseteq RoutedPacket(a, b)'
      BY <1>1, <2>3, <3>2, <3>3, RoutedStands
    <3>5. OneOctetPaths' => PacketsAreRouted' /\ OnlyEarlyCrashes'
      <4> SUFFICES ASSUME OneOctetPaths' PROVE PacketsAreRouted' /\ OnlyEarlyCrashes'
        OBVIOUS
      <4>1. OneOctetPaths /\ air' = air /\ crash' = crash /\ scenario' = scenario
        BY <1>7 DEF OneOctetPaths, forwardingVars, topologyVars, packetVars, scenarioVars
      <4>2. \A a, b \in Device : air'[<<a, b>>] \in Seq(RoutedPacket(a, b)')
        BY <1>1, <3>4, <4>1, SeqSubset DEF PacketsAreRouted
      <4> QED
        BY <1>1, <4>1, <4>2 DEF PacketsAreRouted, OnlyEarlyCrashes
    <3> QED
      BY <1>2, <2>1, <3>1, <3>5 DEF RoutesInv
  <2> QED
    BY <2>2, <2>3
<1>8. \/ BuildTopology \/ StartSimulation
      \/ \E n \in IabNodes : Connect(n) \/ Send(n)
      \/ \E from, to \in Device : Receive(from, to) \/ LosePacket(from, to)
      \/ UNCHANGED forwardingVars
  BY DEF ForwardingNext
<1>9. CASE \E n \in IabNodes : Connect(n) \/ Send(n)
  BY <1>5, <1>9
<1>10. CASE \E from, to \in Device : Receive(from, to) \/ LosePacket(from, to)
  <2>1. PICK from \in Device, to \in Device : Receive(from, to) \/ LosePacket(from, to)
    BY <1>10
  <2> QED
    BY <1>6, <2>1
<1> QED
  BY <1>3, <1>4, <1>7, <1>8, <1>9, <1>10

LEMMA RoutesInvHolds ==
  ForwardingSafeSpec => []RoutesInv
BY InitRoutesInv, NextRoutesInv, PTL DEF ForwardingSafeSpec

--------------------------------------------------------------------------------
(***************************************************************************)
(* Flows are ordered channels.  On the way to the destination the numbers  *)
(* of a flow's packets fall from hop to hop, and on each hop they rise     *)
(* from the head of the queue: no number is in flight twice, and the least *)
(* is the next to reach the destination.                                   *)
(***************************************************************************)
NumbersOf(queue, flow) ==
  {queue[i].sdu.id : i \in {j \in DOMAIN queue : queue[j].sdu.flow = flow}}

QueueRises(queue) ==
  \A i, j \in DOMAIN queue :
    i < j /\ queue[i].sdu.flow = queue[j].sdu.flow => queue[i].sdu.id < queue[j].sdu.id

LinkAt(flow, k) == <<Route(flow)[k], Route(flow)[k + 1]>>
HopsOf(flow) == {k \in 1..(Len(Route(flow)) - 1) : LinkAt(flow, k) \in LinkOfDevices}

HopsFall(queues, flow) ==
  \A k, m \in HopsOf(flow) : k < m =>
    \A behind \in NumbersOf(queues[LinkAt(flow, k)], flow),
       ahead \in NumbersOf(queues[LinkAt(flow, m)], flow) : ahead < behind

InOrder(queues, last) ==
  /\ \A link \in LinkOfDevices : QueueRises(queues[link])
  /\ \A link \in LinkOfDevices : \A flow \in Flow :
       \A id \in NumbersOf(queues[link], flow) : id <= last
  /\ \A flow \in Flow : HopsFall(queues, flow)

PacketsInOrder == simulating => InOrder(air, sdus)

FlowsInv ==
  /\ RoutesInv
  /\ OneOctetPaths => PacketsInOrder

Is(sdu, flow, id) == sdu.flow = flow /\ sdu.id = id

(* What a queue carries after a packet was appended, or taken out.         *)
LEMMA AppendedRises ==
  ASSUME NEW queue \in Seq(Packet), NEW packet \in Packet
  PROVE  /\ \A flow, id : id \in NumbersOf(Append(queue, packet), flow)
                            <=> id \in NumbersOf(queue, flow) \/ Is(packet.sdu, flow, id)
         /\ /\ QueueRises(queue)
            /\ \A id \in NumbersOf(queue, packet.sdu.flow) : id < packet.sdu.id
            => QueueRises(Append(queue, packet))
<1> DEFINE longer == Append(queue, packet)
<1>1. PICK n \in Nat : n = Len(queue)
  OBVIOUS
<1>2. /\ DOMAIN queue = 1..n /\ DOMAIN longer = 1..(n + 1)
      /\ \A i \in 1..n : longer[i] = queue[i]
      /\ longer[n + 1] = packet
  BY <1>1
<1>3. /\ \A i \in 1..n : i \in 1..(n + 1) /\ i < n + 1
      /\ \A i \in 1..(n + 1) : i \in 1..n \/ i = n + 1
      /\ n + 1 \in 1..(n + 1)
  BY <1>1
<1> HIDE DEF longer
<1>4. ASSUME NEW flow, NEW id
      PROVE  id \in NumbersOf(longer, flow)
               <=> id \in NumbersOf(queue, flow) \/ Is(packet.sdu, flow, id)
  BY <1>2, <1>3 DEF NumbersOf, Is
<1>5. ASSUME QueueRises(queue), \A id \in NumbersOf(queue, packet.sdu.flow) : id < packet.sdu.id
      PROVE  QueueRises(longer)
  <2> SUFFICES ASSUME NEW i \in 1..(n + 1), NEW j \in 1..(n + 1), i < j,
                      longer[i].sdu.flow = longer[j].sdu.flow
               PROVE  longer[i].sdu.id < longer[j].sdu.id
    BY <1>2 DEF QueueRises
  <2>1. i \in 1..n
    BY <1>1
  <2>2. CASE j \in 1..n
    BY <1>2, <1>5, <2>1, <2>2 DEF QueueRises
  <2>3. CASE j = n + 1
    <3>1. queue[i].sdu.id \in NumbersOf(queue, packet.sdu.flow)
      BY <1>2, <2>1, <2>3 DEF NumbersOf
    <3> QED
      BY <1>2, <1>5, <2>1, <2>3, <3>1
  <2> QED
    BY <1>3, <2>2, <2>3
<1> QED
  BY <1>4, <1>5 DEF longer

Without(queue, i, rest) ==
  /\ rest \in Seq(Packet)
  /\ Len(rest) = Len(queue) - 1
  /\ \A j \in 1..(Len(queue) - 1) : rest[j] = queue[IF j < i THEN j ELSE j + 1]

LEMMA RemovedRises ==
  ASSUME NEW queue \in Seq(Packet), NEW i \in DOMAIN queue, NEW rest, Without(queue, i, rest),
         QueueRises(queue)
  PROVE  /\ QueueRises(rest)
         /\ \A flow, id : id \in NumbersOf(rest, flow)
                            <=> id \in NumbersOf(queue, flow) /\ ~Is(queue[i].sdu, flow, id)
<1>1. PICK n \in Nat : n = Len(queue)
  OBVIOUS
<1> DEFINE from(j) == IF j < i THEN j ELSE j + 1
           back(j) == IF j < i THEN j ELSE j - 1
<1>2. /\ DOMAIN queue = 1..n /\ DOMAIN rest = 1..(n - 1) /\ i \in 1..n /\ n - 1 \in Nat
      /\ \A j \in 1..(n - 1) : rest[j] = queue[from(j)]
  BY <1>1 DEF Without
<1>3. /\ \A j \in 1..(n - 1) : from(j) \in 1..n /\ from(j) # i
      /\ \A j \in 1..n : j # i => back(j) \in 1..(n - 1) /\ from(back(j)) = j
      /\ \A j, k \in 1..(n - 1) : j < k => from(j) < from(k)
  BY <1>2
<1> HIDE DEF from, back
<1>4. QueueRises(rest)
  <2> SUFFICES ASSUME NEW j \in 1..(n - 1), NEW k \in 1..(n - 1), j < k,
                      rest[j].sdu.flow = rest[k].sdu.flow
               PROVE  rest[j].sdu.id < rest[k].sdu.id
    BY <1>2 DEF QueueRises
  <2>1. PICK a, b : a = from(j) /\ b = from(k)
    OBVIOUS
  <2>2. a \in 1..n /\ b \in 1..n /\ a < b /\ rest[j] = queue[a] /\ rest[k] = queue[b]
    BY <1>2, <1>3, <2>1
  <2> QED
    BY <1>2, <2>2 DEF QueueRises
<1>5. ASSUME NEW j \in 1..n, j # i, queue[j].sdu.flow = queue[i].sdu.flow
      PROVE  queue[j].sdu.id # queue[i].sdu.id
  <2>1. queue[j] \in Packet /\ queue[i] \in Packet
    BY <1>2, <1>5
  <2>2. queue[j].sdu.id \in Nat /\ queue[i].sdu.id \in Nat
    BY <2>1 DEF Packet, Sdu
  <2>3. j < i \/ i < j
    BY <1>2, <1>5
  <2>4. queue[j].sdu.id < queue[i].sdu.id \/ queue[i].sdu.id < queue[j].sdu.id
    BY <1>2, <1>5, <2>3 DEF QueueRises
  <2> QED
    BY <2>2, <2>4
<1>6. ASSUME NEW flow, NEW id, id \in NumbersOf(rest, flow)
      PROVE  id \in NumbersOf(queue, flow) /\ ~Is(queue[i].sdu, flow, id)
  <2>1. PICK j \in 1..(n - 1) : rest[j].sdu.flow = flow /\ id = rest[j].sdu.id
    BY <1>2, <1>6 DEF NumbersOf
  <2>2. from(j) \in 1..n /\ from(j) # i /\ queue[from(j)] = rest[j]
    BY <1>2, <1>3
  <2>3. queue[i].sdu.flow = flow => id # queue[i].sdu.id
    BY <1>5, <2>1, <2>2
  <2> QED
    BY <1>2, <2>1, <2>2, <2>3 DEF NumbersOf, Is
<1>7. ASSUME NEW flow, NEW id, id \in NumbersOf(queue, flow), ~Is(queue[i].sdu, flow, id)
      PROVE  id \in NumbersOf(rest, flow)
  <2>1. PICK j \in 1..n : queue[j].sdu.flow = flow /\ id = queue[j].sdu.id
    BY <1>2, <1>7 DEF NumbersOf
  <2>2. j # i
    BY <1>7, <2>1 DEF Is
  <2>3. back(j) \in 1..(n - 1) /\ rest[back(j)] = queue[j]
    BY <1>2, <1>3, <2>2
  <2> QED
    BY <1>2, <2>1, <2>3 DEF NumbersOf
<1> QED
  BY <1>4, <1>6, <1>7

LEMMA TailIsWithout ==
  ASSUME NEW queue \in Seq(Packet), queue # <<>>
  PROVE  1 \in DOMAIN queue /\ queue[1] = Head(queue) /\ Without(queue, 1, Tail(queue))
<1>1. 1 \in DOMAIN queue /\ queue[1] = Head(queue)
  OBVIOUS
<1>2. Tail(queue) \in Seq(Packet) /\ Len(Tail(queue)) = Len(queue) - 1
  OBVIOUS
<1>3. \A j \in 1..(Len(queue) - 1) : Tail(queue)[j] = queue[j + 1] /\ ~(j < 1)
  OBVIOUS
<1> QED
  BY <1>1, <1>2, <1>3 DEF Without

LEMMA RemoveAtIsWithout ==
  ASSUME NEW queue \in Seq(Packet), NEW i \in DOMAIN queue
  PROVE  Without(queue, i, RemoveAt(queue, i))
BY RemovedFromSeq DEF Without

(* The head of a queue that rises is older than the rest of its flow.      *)
LEMMA HeadIsOldest ==
  ASSUME NEW queue \in Seq(Packet), queue # <<>>, QueueRises(queue),
         NEW id \in NumbersOf(queue, Head(queue).sdu.flow)
  PROVE  Head(queue).sdu.id <= id /\ Head(queue).sdu.id \in NumbersOf(queue, Head(queue).sdu.flow)
<1>1. PICK j \in DOMAIN queue : queue[j].sdu.flow = Head(queue).sdu.flow /\ id = queue[j].sdu.id
  BY DEF NumbersOf
<1>2. 1 \in DOMAIN queue /\ queue[1] = Head(queue) /\ (j = 1 \/ 1 < j)
  OBVIOUS
<1>3. queue[1] \in Packet /\ queue[j] \in Packet
  BY <1>2
<1>4. queue[1].sdu.id \in Nat /\ queue[j].sdu.id \in Nat
  BY <1>3 DEF Packet, Sdu
<1>5. j = 1 \/ queue[1].sdu.id < queue[j].sdu.id
  BY <1>1, <1>2 DEF QueueRises
<1>6. Head(queue).sdu.id <= id
  BY <1>1, <1>2, <1>4, <1>5
<1> QED
  BY <1>2, <1>6 DEF NumbersOf

(* The numbers in all queues are those in some queue.                      *)
LEMMA IdsAreInQueues ==
  ASSUME NEW queues, DOMAIN queues = LinkOfDevices, NEW flow
  PROVE  \A id : id \in IdsIn(queues, flow)
                   <=> \E link \in LinkOfDevices : id \in NumbersOf(queues[link], flow)
<1>1. ASSUME NEW id, id \in IdsIn(queues, flow)
      PROVE  \E link \in LinkOfDevices : id \in NumbersOf(queues[link], flow)
  <2>1. PICK packet \in PacketsIn(queues) : packet.sdu.flow = flow /\ id = packet.sdu.id
    BY <1>1 DEF IdsIn
  <2>2. PICK link \in LinkOfDevices : \E i \in DOMAIN queues[link] : packet = queues[link][i]
    BY <2>1 DEF PacketsIn
  <2> QED
    BY <2>1, <2>2 DEF NumbersOf
<1>2. ASSUME NEW id, NEW link \in LinkOfDevices, id \in NumbersOf(queues[link], flow)
      PROVE  id \in IdsIn(queues, flow)
  <2>1. PICK i \in DOMAIN queues[link] :
          queues[link][i].sdu.flow = flow /\ id = queues[link][i].sdu.id
    BY <1>2 DEF NumbersOf
  <2>2. queues[link][i] \in PacketsIn(queues)
    BY DEF PacketsIn
  <2> QED
    BY <2>1, <2>2 DEF IdsIn
<1> QED
  BY <1>1, <1>2

(* A flow takes each link once.                                            *)
LinksOnce(flow) ==
  /\ HopsOf(flow) \subseteq Nat
  /\ \A k \in HopsOf(flow) : LinkAt(flow, k) \in LinkOfDevices
  /\ \A k, m \in HopsOf(flow) : LinkAt(flow, k) = LinkAt(flow, m) => k = m

LEMMA RouteIsSimple ==
  ASSUME PlacesInv, ForwardingInv, simulating, NEW flow \in Flow, JoinsNodeAndDonor(flow)
  PROVE  /\ LinksOnce(flow)
         /\ HopsOf(flow) = 1..(Len(Route(flow)) - 1)
<1> DEFINE n == FlowNode(flow)
           d == FlowDonor(flow)
           c == Backhaul(n)
           len == Len(c)
           reversed == Reverse(c)
           route == Route(flow)
<1>1. /\ n \in IabNodes /\ Attached(n) /\ d \in Donors /\ d = servingDonor[n]
      /\ d \notin IabNodes
      /\ flow.src = n \/ flow.src = d
  BY EndsOfFlow
<1>2. Chain(d, n, c)
  BY <1>1, RouteLeads
<1>3. /\ len \in Nat /\ Len(route) = len
      /\ \A k \in 1..len : route[k] \in Device
      /\ \A k, m \in 1..len : route[k] = route[m] => k = m
  <2>1. CASE flow.src = n
    <3>1. route = c
      BY <1>1, <2>1 DEF Route, FlowNode
    <3> QED
      BY <1>2, <3>1 DEF Chain
  <2>2. CASE flow.src # n
    <3>1. route = reversed /\ reversed = [k \in 1..len |-> c[(len - k) + 1]]
      BY <1>1, <2>2 DEF Route, FlowNode, Reverse
    <3> HIDE DEF c, reversed, route
    <3>2. /\ len \in Nat
          /\ \A k \in 1..len : c[k] \in Device
          /\ \A j, k \in 1..len : c[j] = c[k] => j = k
      BY <1>2 DEF Chain
    <3>3. /\ \A k \in 1..len : (len - k) + 1 \in 1..len
          /\ \A j, k \in 1..len : (len - j) + 1 = (len - k) + 1 => j = k
      BY <3>2
    <3> HIDE DEF len
    <3>4. reversed \in [1..len -> Device] /\ \A k \in 1..len : reversed[k] = c[(len - k) + 1]
      BY <3>1, <3>2, <3>3
    <3>5. Len(reversed) = len
      BY <3>2, <3>4, LengthOfFunction
    <3> QED
      BY <3>1, <3>2, <3>3, <3>4, <3>5
  <2> QED
    BY <2>1, <2>2
<1> HIDE DEF route, len
<1>4. \A k \in 1..(len - 1) : k \in 1..len /\ k + 1 \in 1..len
  BY <1>3
<1>5. \A k : LinkAt(flow, k) = <<route[k], route[k + 1]>>
  BY DEF LinkAt, route
<1>6. HopsOf(flow) = 1..(len - 1)
  <2>1. \A k \in 1..(len - 1) : LinkAt(flow, k) \in LinkOfDevices
    BY <1>3, <1>4, <1>5 DEF LinkOfDevices
  <2> QED
    BY <1>3, <2>1 DEF HopsOf, route
<1>7. HopsOf(flow) = 1..(Len(Route(flow)) - 1)
  BY <1>3, <1>6 DEF route
<1>8. ASSUME NEW k \in 1..(len - 1), NEW m \in 1..(len - 1), LinkAt(flow, k) = LinkAt(flow, m)
      PROVE  k = m
  <2>1. route[k] = route[m]
    BY <1>5, <1>8
  <2> QED
    BY <1>3, <1>4, <2>1
<1>9. HopsOf(flow) \subseteq Nat
  BY <1>3, <1>6
<1>10. \A k \in HopsOf(flow) : LinkAt(flow, k) \in LinkOfDevices
  BY DEF HopsOf
<1> QED
  BY <1>6, <1>7, <1>8, <1>9, <1>10 DEF LinksOnce

(* A number in a queue is that of a packet at one hop of its flow.         *)
LEMMA NumbersAreAtHops ==
  ASSUME NEW queues, \A a, b \in Device : queues[<<a, b>>] \in Seq(RoutedPacket(a, b)),
         NEW flow, NEW link \in LinkOfDevices, NEW id \in NumbersOf(queues[link], flow)
  PROVE  /\ flow \in Flow /\ JoinsNodeAndDonor(flow) /\ id \in 1..MaxSdus
         /\ \E k \in HopsOf(flow) : link = LinkAt(flow, k)
<1>1. PICK a \in Device, b \in Device : link = <<a, b>>
  BY DEF LinkOfDevices
<1>2. PICK i \in DOMAIN queues[link] :
        queues[link][i].sdu.flow = flow /\ id = queues[link][i].sdu.id
  BY DEF NumbersOf
<1>3. queues[link][i] \in RoutedPacket(a, b)
  BY <1>1
<1>4. /\ flow \in Flow /\ JoinsNodeAndDonor(flow) /\ id \in 1..MaxSdus
      /\ \E k \in 1..(Len(Route(flow)) - 1) : Route(flow)[k] = a /\ Route(flow)[k + 1] = b
  BY <1>2, <1>3 DEF RoutedPacket, GoodPacket, Packet, Sdu
<1>5. PICK k \in 1..(Len(Route(flow)) - 1) : Route(flow)[k] = a /\ Route(flow)[k + 1] = b
  BY <1>4
<1>6. link = LinkAt(flow, k)
  BY <1>1, <1>5 DEF LinkAt
<1> QED
  BY <1>4, <1>6 DEF HopsOf

OnTheirRoutes(queues) ==
  /\ queues \in [LinkOfDevices -> Seq(Packet)]
  /\ \A link \in LinkOfDevices : \A flow \in Flow : \A id \in NumbersOf(queues[link], flow) :
       /\ id \in Nat
       /\ \E k \in HopsOf(flow) : link = LinkAt(flow, k)

Left(queues, link, rest) == [queues EXCEPT ![link] = rest]

(* A packet that leaves its queue takes its number out of flight.          *)
LEMMA LeavesInOrder ==
  ASSUME NEW queues, OnTheirRoutes(queues), NEW last \in Nat, InOrder(queues, last),
         NEW link \in LinkOfDevices, NEW i \in DOMAIN queues[link],
         NEW sdu, sdu = queues[link][i].sdu, sdu \in Sdu, LinksOnce(sdu.flow),
         NEW rest, Without(queues[link], i, rest)
  PROVE  LET left == Left(queues, link, rest) IN
         /\ left \in [LinkOfDevices -> Seq(Packet)]
         /\ InOrder(left, last)
         /\ \A l \in LinkOfDevices : \A flow :
              NumbersOf(left[l], flow) \subseteq NumbersOf(queues[l], flow)
         /\ \A flow, id : id \in IdsIn(left, flow)
                            <=> id \in IdsIn(queues, flow) /\ ~Is(sdu, flow, id)
         /\ sdu.id \in IdsIn(queues, sdu.flow)
<1> DEFINE left == Left(queues, link, rest)
<1>1. queues \in [LinkOfDevices -> Seq(Packet)] /\ queues[link] \in Seq(Packet)
  BY DEF OnTheirRoutes
<1>2. /\ QueueRises(rest) /\ rest \in Seq(Packet)
      /\ \A flow, id : id \in NumbersOf(rest, flow)
                         <=> id \in NumbersOf(queues[link], flow) /\ ~Is(sdu, flow, id)
  <2>1. PICK queue \in Seq(Packet) : queue = queues[link]
    BY <1>1
  <2>2. QueueRises(queue) /\ i \in DOMAIN queue /\ Without(queue, i, rest)
    BY <2>1 DEF InOrder
  <2>3. /\ QueueRises(rest)
        /\ \A flow, id : id \in NumbersOf(rest, flow)
                           <=> id \in NumbersOf(queue, flow) /\ ~Is(queue[i].sdu, flow, id)
    BY <2>2, RemovedRises
  <2> QED
    BY <2>1, <2>2, <2>3 DEF Without
<1>3. /\ left \in [LinkOfDevices -> Seq(Packet)]
      /\ left[link] = rest
      /\ \A l : l # link => left[l] = queues[l]
  BY <1>1, <1>2 DEF Left
<1> HIDE DEF left
<1>4. \A l \in LinkOfDevices : \A flow :
        NumbersOf(left[l], flow) \subseteq NumbersOf(queues[l], flow)
  BY <1>2, <1>3
<1>5. InOrder(left, last)
  <2>1. \A l \in LinkOfDevices : QueueRises(left[l])
    BY <1>2, <1>3 DEF InOrder
  <2>2. \A l \in LinkOfDevices : \A flow \in Flow : \A id \in NumbersOf(left[l], flow) : id <= last
    BY <1>4 DEF InOrder
  <2>3. ASSUME NEW flow \in Flow PROVE HopsFall(left, flow)
    <3>1. ASSUME NEW k \in HopsOf(flow), NEW id \in NumbersOf(left[LinkAt(flow, k)], flow)
          PROVE  id \in NumbersOf(queues[LinkAt(flow, k)], flow)
      <4>1. CASE LinkAt(flow, k) = link
        BY <1>2, <1>3, <3>1, <4>1
      <4>2. CASE LinkAt(flow, k) # link
        <5>1. left[LinkAt(flow, k)] = queues[LinkAt(flow, k)]
          BY <1>3, <4>2
        <5> QED
          BY <3>1, <5>1
      <4> QED
        BY <4>1, <4>2
    <3>2. HopsFall(queues, flow)
      BY DEF InOrder
    <3> QED
      BY <3>1, <3>2 DEF HopsFall
  <2> QED
    BY <2>1, <2>2, <2>3 DEF InOrder
<1>6. sdu.id \in NumbersOf(queues[link], sdu.flow)
  BY DEF NumbersOf
<1>7. sdu.flow \in Flow /\ sdu.id \in Nat
  BY DEF Sdu
<1>8. ASSUME NEW l \in LinkOfDevices, l # link
      PROVE  sdu.id \notin NumbersOf(queues[l], sdu.flow)
  <2> SUFFICES ASSUME sdu.id \in NumbersOf(queues[l], sdu.flow) PROVE FALSE
    OBVIOUS
  <2>1. PICK k \in HopsOf(sdu.flow) : link = LinkAt(sdu.flow, k)
    BY <1>6, <1>7 DEF OnTheirRoutes
  <2>2. PICK m \in HopsOf(sdu.flow) : l = LinkAt(sdu.flow, m)
    BY <1>7 DEF OnTheirRoutes
  <2>3. k \in Nat /\ m \in Nat /\ k # m
    BY <1>8, <2>1, <2>2 DEF LinksOnce
  <2>4. k < m \/ m < k
    BY <2>3
  <2>5. HopsFall(queues, sdu.flow)
    BY <1>7 DEF InOrder
  <2>6. sdu.id < sdu.id
    BY <1>6, <2>1, <2>2, <2>4, <2>5 DEF HopsFall
  <2> QED
    BY <1>7, <2>6
<1>9. ASSUME NEW flow, NEW id
      PROVE  id \in IdsIn(left, flow) <=> id \in IdsIn(queues, flow) /\ ~Is(sdu, flow, id)
  <2>1. DOMAIN queues = LinkOfDevices /\ DOMAIN left = LinkOfDevices
    BY <1>1, <1>3
  <2>2. id \in IdsIn(left, flow) <=> \E l \in LinkOfDevices : id \in NumbersOf(left[l], flow)
    BY <2>1, IdsAreInQueues
  <2>3. id \in IdsIn(queues, flow) <=> \E l \in LinkOfDevices : id \in NumbersOf(queues[l], flow)
    BY <2>1, IdsAreInQueues
  <2>4. ASSUME NEW l \in LinkOfDevices
        PROVE  id \in NumbersOf(left[l], flow)
                 <=> id \in NumbersOf(queues[l], flow) /\ ~Is(sdu, flow, id)
    <3>1. CASE l = link
      BY <1>2, <1>3, <3>1
    <3>2. CASE l # link
      <4>1. left[l] = queues[l]
        BY <1>3, <3>2
      <4>2. Is(sdu, flow, id) => id \notin NumbersOf(queues[l], flow)
        BY <1>8, <3>2 DEF Is
      <4> QED
        BY <4>1, <4>2
    <3> QED
      BY <3>1, <3>2
  <2> QED
    BY <2>2, <2>3, <2>4
<1>10. sdu.id \in IdsIn(queues, sdu.flow)
  BY <1>1, <1>6, IdsAreInQueues
<1> QED
  BY <1>3, <1>4, <1>5, <1>9, <1>10 DEF left

(* A packet that joins the queue of a hop, with a number between those     *)
(* behind it and those ahead of it.                                        *)
Joined(queues, link, packet) == [queues EXCEPT ![link] = Append(queues[link], packet)]

Fits(queues, flow, k, number) ==
  \A m \in HopsOf(flow) : \A id \in NumbersOf(queues[LinkAt(flow, m)], flow) :
    IF m < k THEN number < id ELSE id < number

LEMMA JoinsInOrder ==
  ASSUME NEW queues \in [LinkOfDevices -> Seq(Packet)], NEW last \in Nat, InOrder(queues, last),
         NEW packet \in Packet, packet.sdu.id <= last,
         NEW flow \in Flow, packet.sdu.flow = flow, LinksOnce(flow),
         NEW k \in HopsOf(flow), Fits(queues, flow, k, packet.sdu.id)
  PROVE  LET joined == Joined(queues, LinkAt(flow, k), packet) IN
         /\ joined \in [LinkOfDevices -> Seq(Packet)]
         /\ InOrder(joined, last)
         /\ \A f, id : id \in IdsIn(joined, f)
                         <=> id \in IdsIn(queues, f) \/ Is(packet.sdu, f, id)
<1> DEFINE link == LinkAt(flow, k)
           queue == queues[link]
           x == packet.sdu.id
           joined == Joined(queues, link, packet)
<1>1. link \in LinkOfDevices /\ k \in Nat /\ queue \in Seq(Packet)
  BY DEF LinksOnce
<1>2. joined = [queues EXCEPT ![link] = Append(queue, packet)]
  BY DEF Joined
<1>3. \A id \in NumbersOf(queue, flow) : id < x
  <2>1. ~(k < k)
    BY <1>1
  <2> QED
    BY <2>1 DEF Fits
<1> HIDE DEF link, queue, joined
<1>4. /\ QueueRises(Append(queue, packet)) /\ Append(queue, packet) \in Seq(Packet)
      /\ \A f, id : id \in NumbersOf(Append(queue, packet), f)
                      <=> id \in NumbersOf(queue, f) \/ Is(packet.sdu, f, id)
  <2>1. QueueRises(queue)
    BY <1>1 DEF InOrder, queue
  <2> QED
    BY <1>1, <1>3, <2>1, AppendedRises, SeqFacts
<1>5. /\ joined \in [LinkOfDevices -> Seq(Packet)]
      /\ joined[link] = Append(queue, packet)
      /\ \A l \in LinkOfDevices : l # link => joined[l] = queues[l]
  <2>1. PICK longer \in Seq(Packet) : longer = Append(queue, packet)
    BY <1>4
  <2>2. joined = [queues EXCEPT ![link] = longer]
    BY <1>2, <2>1
  <2> QED
    BY <1>1, <2>1, <2>2
<1>6. ASSUME NEW l \in LinkOfDevices, NEW f, NEW id
      PROVE  id \in NumbersOf(joined[l], f)
               <=> id \in NumbersOf(queues[l], f) \/ (l = link /\ Is(packet.sdu, f, id))
  <2>1. CASE l = link
    BY <1>4, <1>5, <2>1 DEF queue
  <2>2. CASE l # link
    BY <1>5, <2>2
  <2> QED
    BY <2>1, <2>2
<1>7. InOrder(joined, last)
  <2>1. \A l \in LinkOfDevices : QueueRises(joined[l])
    BY <1>4, <1>5 DEF InOrder
  <2>2. \A l \in LinkOfDevices : \A f \in Flow : \A id \in NumbersOf(joined[l], f) : id <= last
    BY <1>6 DEF InOrder, Is
  <2>3. ASSUME NEW f \in Flow, f # flow PROVE HopsFall(joined, f)
    <3>1. ASSUME NEW m \in HopsOf(f), NEW id \in NumbersOf(joined[LinkAt(f, m)], f)
          PROVE  id \in NumbersOf(queues[LinkAt(f, m)], f)
      <4>1. CASE LinkAt(f, m) = link
        <5>1. ~Is(packet.sdu, f, id)
          BY <2>3 DEF Is
        <5>2. id \in NumbersOf(joined[link], f)
          BY <3>1, <4>1
        <5>3. id \in NumbersOf(queues[link], f)
          BY <1>1, <1>6, <5>1, <5>2
        <5> QED
          BY <4>1, <5>3
      <4>2. CASE LinkAt(f, m) # link
        <5>1. joined[LinkAt(f, m)] = queues[LinkAt(f, m)]
          BY <1>2, <4>2
        <5> QED
          BY <3>1, <5>1
      <4> QED
        BY <4>1, <4>2
    <3>2. HopsFall(queues, f)
      BY DEF InOrder
    <3> QED
      BY <3>1, <3>2 DEF HopsFall
  <2>4. HopsFall(joined, flow)
    <3>1. ASSUME NEW m \in HopsOf(flow), NEW id \in NumbersOf(joined[LinkAt(flow, m)], flow)
          PROVE  id \in NumbersOf(queues[LinkAt(flow, m)], flow) \/ (m = k /\ id = x)
      <4>1. LinkAt(flow, m) \in LinkOfDevices /\ (LinkAt(flow, m) = link => m = k)
        BY DEF LinksOnce, link
      <4> QED
        BY <1>6, <3>1, <4>1 DEF Is
    <3>2. HopsFall(queues, flow) /\ HopsOf(flow) \subseteq Nat
      BY DEF InOrder, LinksOnce
    <3> SUFFICES ASSUME NEW j \in HopsOf(flow), NEW m \in HopsOf(flow), j < m,
                        NEW behind \in NumbersOf(joined[LinkAt(flow, j)], flow),
                        NEW ahead \in NumbersOf(joined[LinkAt(flow, m)], flow)
                 PROVE  ahead < behind
      BY DEF HopsFall
    <3>3. /\ j \in Nat /\ m \in Nat /\ ~(j = k /\ m = k)
          /\ j = k => ~(m < k)
          /\ m = k => j < k
      BY <1>1, <3>2
    <3>4. behind \in NumbersOf(queues[LinkAt(flow, j)], flow) \/ (j = k /\ behind = x)
      BY <3>1
    <3>5. ahead \in NumbersOf(queues[LinkAt(flow, m)], flow) \/ (m = k /\ ahead = x)
      BY <3>1
    <3>6. CASE /\ behind \in NumbersOf(queues[LinkAt(flow, j)], flow)
               /\ ahead \in NumbersOf(queues[LinkAt(flow, m)], flow)
      BY <3>2, <3>6 DEF HopsFall
    <3>7. CASE j = k /\ behind = x
      BY <3>3, <3>5, <3>7 DEF Fits
    <3>8. CASE m = k /\ ahead = x
      BY <3>3, <3>4, <3>8 DEF Fits
    <3> QED
      BY <3>4, <3>5, <3>6, <3>7, <3>8
  <2> QED
    BY <2>1, <2>2, <2>3, <2>4 DEF InOrder
<1>8. ASSUME NEW f, NEW id
      PROVE  id \in IdsIn(joined, f) <=> id \in IdsIn(queues, f) \/ Is(packet.sdu, f, id)
  <2>1. DOMAIN queues = LinkOfDevices /\ DOMAIN joined = LinkOfDevices
    BY <1>5
  <2>2. id \in IdsIn(joined, f) <=> \E l \in LinkOfDevices : id \in NumbersOf(joined[l], f)
    BY <2>1, IdsAreInQueues
  <2>3. id \in IdsIn(queues, f) <=> \E l \in LinkOfDevices : id \in NumbersOf(queues[l], f)
    BY <2>1, IdsAreInQueues
  <2> QED
    BY <1>1, <1>6, <2>2, <2>3
<1> QED
  BY <1>5, <1>7, <1>8 DEF joined, link

(* What holds of the queues during the simulation.                         *)
LEMMA AirInOrder ==
  ASSUME FlowsInv, OneOctetPaths, Simulating
  PROVE  /\ RoutesInv /\ PacketsAreRouted /\ InOrder(air, sdus) /\ sdus \in Nat
         /\ OnTheirRoutes(air)
         /\ \A flow \in Flow : JoinsNodeAndDonor(flow) =>
              LinksOnce(flow) /\ HopsOf(flow) = 1..(Len(Route(flow)) - 1)
<1>1. /\ RoutesInv /\ PlacesInv /\ ForwardingInv /\ simulating /\ PacketsAreRouted
      /\ InOrder(air, sdus)
  BY DEF FlowsInv, RoutesInv, PacketsInOrder, Simulating
<1>2. sdus \in Nat /\ air \in [LinkOfDevices -> Seq(Packet)]
  BY <1>1, ForwardingAssumption DEF ForwardingInv, ForwardingTypeOK, LinkOfDevices
<1>3. \A link \in LinkOfDevices : \A flow \in Flow : \A id \in NumbersOf(air[link], flow) :
        /\ id \in Nat
        /\ \E k \in HopsOf(flow) : link = LinkAt(flow, k)
  <2> SUFFICES ASSUME NEW link \in LinkOfDevices, NEW flow \in Flow,
                      NEW id \in NumbersOf(air[link], flow)
               PROVE  /\ id \in Nat
                      /\ \E k \in HopsOf(flow) : link = LinkAt(flow, k)
    OBVIOUS
  <2>1. id \in 1..MaxSdus /\ \E k \in HopsOf(flow) : link = LinkAt(flow, k)
    <3>1. \A a, b \in Device : air[<<a, b>>] \in Seq(RoutedPacket(a, b))
      BY <1>1 DEF PacketsAreRouted
    <3>2. id \in 1..MaxSdus
      BY <3>1, NumbersAreAtHops
    <3>3. \E k \in HopsOf(flow) : link = LinkAt(flow, k)
      BY ZenonT(60), <3>1, NumbersAreAtHops
    <3> QED
      BY <3>2, <3>3
  <2> QED
    BY <2>1, ForwardingAssumption
<1> QED
  BY <1>1, <1>2, <1>3, RouteIsSimple DEF OnTheirRoutes

LEMMA LaterInOrder ==
  ASSUME NEW queues, OnTheirRoutes(queues), NEW last \in Nat, InOrder(queues, last)
  PROVE  InOrder(queues, last + 1)
<1>1. \A link \in LinkOfDevices : \A flow \in Flow : \A id \in NumbersOf(queues[link], flow) :
        id <= last + 1
  BY DEF InOrder, OnTheirRoutes
<1> QED
  BY <1>1 DEF InOrder

(* The steps of the channels, as what happens to the numbers in flight.    *)
LEMMA StaysInFlight ==
  ASSUME \A flow \in Flow : \A id : id \in IdsIn(air', flow) <=> id \in IdsIn(air, flow)
  PROVE  InFlight' = InFlight
<1>1. \A flow \in Flow : IdsIn(air', flow) = IdsIn(air, flow)
  OBVIOUS
<1> QED
  BY <1>1 DEF InFlight

LEMMA GoesInFlight ==
  ASSUME NEW flow \in Flow, NEW number,
         \A f \in Flow : \A id :
           id \in IdsIn(air', f) <=> id \in IdsIn(air, f) \/ (f = flow /\ id = number)
  PROVE  InFlight' = [InFlight EXCEPT ![flow] = InFlight[flow] \cup {number}]
<1>1. \A f \in Flow : IdsIn(air', f) = IF f = flow THEN IdsIn(air, f) \cup {number}
                                       ELSE IdsIn(air, f)
  OBVIOUS
<1> QED
  BY <1>1 DEF InFlight

LEMMA LeavesFlight ==
  ASSUME NEW flow \in Flow, NEW number,
         \A f \in Flow : \A id :
           id \in IdsIn(air', f) <=> id \in IdsIn(air, f) /\ ~(f = flow /\ id = number)
  PROVE  InFlight' = [InFlight EXCEPT ![flow] = InFlight[flow] \ {number}]
<1>1. \A f \in Flow : IdsIn(air', f) = IF f = flow THEN IdsIn(air, f) \ {number}
                                       ELSE IdsIn(air, f)
  OBVIOUS
<1> QED
  BY <1>1 DEF InFlight

LEMMA SdusOfAppend ==
  ASSUME NEW S, NEW handed \in Seq(S), NEW one \in S
  PROVE  SdusOf(Append(handed, one)) = Append(SdusOf(handed), one.sdu)
<1>1. PICK n \in Nat : n = Len(handed)
  OBVIOUS
<1>2. /\ DOMAIN Append(handed, one) = 1..(n + 1) /\ DOMAIN handed = 1..n
      /\ \A i \in 1..n : Append(handed, one)[i] = handed[i]
      /\ Append(handed, one)[n + 1] = one
  BY <1>1
<1> DEFINE few == [i \in 1..n |-> handed[i].sdu]
           many == [i \in 1..(n + 1) |-> IF i = n + 1 THEN one.sdu ELSE handed[i].sdu]
           Items == {handed[i].sdu : i \in 1..n} \cup {one.sdu}
<1>3. SdusOf(handed) = few
  BY <1>2 DEF SdusOf
<1>4. SdusOf(Append(handed, one)) = many
  <2>1. \A i \in 1..(n + 1) : i = n + 1 \/ i \in 1..n
    BY <1>1
  <2>2. \A i \in 1..(n + 1) :
          Append(handed, one)[i].sdu = IF i = n + 1 THEN one.sdu ELSE handed[i].sdu
    BY <1>2, <2>1
  <2> QED
    BY <1>2, <2>2 DEF SdusOf
<1>5. few \in [1..n -> Items] /\ many \in [1..(n + 1) -> Items]
  OBVIOUS
<1>6. few \in Seq(Items) /\ Len(few) = n /\ one.sdu \in Items
  BY <1>5, FunctionIsSequence, LengthOfFunction
<1>7. /\ Append(few, one.sdu) \in Seq(Items) /\ Len(Append(few, one.sdu)) = n + 1
      /\ \A i \in 1..n : Append(few, one.sdu)[i] = few[i]
      /\ Append(few, one.sdu)[n + 1] = one.sdu
  <2> HIDE DEF few, Items
  <2> QED
    BY <1>1, <1>6
<1>8. many \in Seq(Items) /\ Len(many) = n + 1
  <2>1. n + 1 \in Nat
    BY <1>1
  <2> HIDE DEF many, Items
  <2> QED
    BY <1>5, <2>1, FunctionIsSequence, LengthOfFunction
<1>9. \A i \in 1..(n + 1) : many[i] = Append(few, one.sdu)[i]
  <2>1. \A i \in 1..(n + 1) : i = n + 1 \/ (i \in 1..n /\ i # n + 1)
    BY <1>1
  <2>2. \A i \in 1..n : few[i] = handed[i].sdu
    OBVIOUS
  <2>3. \A i \in 1..(n + 1) : many[i] = IF i = n + 1 THEN one.sdu ELSE handed[i].sdu
    OBVIOUS
  <2> HIDE DEF few, many
  <2> QED
    BY <1>7, <2>1, <2>2, <2>3
<1> HIDE DEF few, many, Items
<1> QED
  BY <1>3, <1>4, <1>7, <1>8, <1>9

(* A check of the BAP code that fails ends the program.                    *)
LEMMA FailStep ==
  ASSUME crash = "none", crash' # "none", UNCHANGED <<scenario, air, delivered>>,
         sdus' = sdus \/ (sdus < MaxSdus /\ sdus' = sdus + 1)
  PROVE  Channels!Fail
<1>1. InFlight' = InFlight /\ Received' = Received
  BY DEF InFlight, Received
<1>2. ~(crash # "none") /\ (crash' # "none") = TRUE
  OBVIOUS
<1> QED
  BY <1>1, <1>2 DEF Channels!Fail

LEMMA TransmitFlows ==
  ASSUME FlowsInv, OneOctetPaths, Simulating, NEW sdu \in Sdu, JoinsNodeAndDonor(sdu.flow),
         sdu.id = sdus + 1, sdus < MaxSdus, sdus' = sdus + 1, UNCHANGED scenario,
         TransmitBapSdu(sdu.flow.src, sdu, bapAddress[sdu.flow.dst])
  PROVE  InOrder(air', sdus') /\ Channels!Next
<1> DEFINE flow == sdu.flow
           route == Route(flow)
<1>1. /\ RoutesInv /\ PacketsAreRouted /\ InOrder(air, sdus) /\ sdus \in Nat
      /\ OnTheirRoutes(air) /\ LinksOnce(flow) /\ HopsOf(flow) = 1..(Len(route) - 1)
      /\ flow \in Flow /\ crash = "none"
  BY AirInOrder DEF Sdu, Simulating
<1>2. 1 \in HopsOf(flow) /\ 1 \in 1..(Len(route) - 1) /\ flow.src = route[1]
  BY <1>1, SendGoesOn
<1>3. PICK packet \in GoodPacket :
        /\ packet.sdu = sdu
        /\ DoTransmitBapPdu(flow.src, packet, bapAddress[flow.dst], FlowPath(flow), air)
  BY <1>1, SendGoesOn
<1> DEFINE link == <<flow.src, route[1 + 1]>>
<1>4. \/ Crash("no_rlc_entry")
      \/ /\ air' = [air EXCEPT ![link] = Append(air[link], packet)]
         /\ UNCHANGED <<delivered, crash>>
  <2> DEFINE carried == packet.sdu.flow
  <2>1. /\ 1 \in 1..(Len(Route(carried)) - 1) /\ flow.src = Route(carried)[1]
        /\ DoTransmitBapPdu(flow.src, packet, bapAddress[carried.dst], FlowPath(carried), air)
        /\ link = <<flow.src, Route(carried)[1 + 1]>>
    BY <1>2, <1>3
  <2> HIDE DEF link, flow, route
  <2> QED
    BY ZenonT(60), <1>1, <2>1, TransmitGoesOn
<1>5. link = LinkAt(flow, 1)
  BY <1>2 DEF LinkAt
<1> HIDE DEF link
<1>6. InOrder(air, sdus')
  BY <1>1, LaterInOrder
<1>7. CASE Crash("no_rlc_entry")
  <2>1. crash' # "none" /\ UNCHANGED <<air, delivered>>
    BY <1>7 DEF Crash
  <2>2. Channels!Fail
    BY <1>1, <2>1, FailStep
  <2> QED
    BY <1>6, <2>1, <2>2 DEF Channels!Next
<1>8. CASE /\ air' = [air EXCEPT ![link] = Append(air[link], packet)]
           /\ UNCHANGED <<delivered, crash>>
  <2>1. packet \in Packet /\ packet.sdu.id <= sdus' /\ sdus' \in Nat
    BY <1>1, <1>3 DEF GoodPacket
  <2>2. Fits(air, flow, 1, packet.sdu.id)
    <3> SUFFICES ASSUME NEW m \in HopsOf(flow), NEW id \in NumbersOf(air[LinkAt(flow, m)], flow)
                 PROVE  ~(m < 1) /\ id < packet.sdu.id
      BY DEF Fits
    <3>1. m \in 1..(Len(route) - 1) /\ LinkAt(flow, m) \in LinkOfDevices
      BY <1>1 DEF LinksOnce
    <3>2. id \in Nat /\ id <= sdus
      BY <1>1, <3>1 DEF OnTheirRoutes, InOrder
    <3> QED
      BY <1>1, <1>3, <3>1, <3>2
  <2>3. /\ InOrder(air', sdus')
        /\ \A f, id : id \in IdsIn(air', f) <=> id \in IdsIn(air, f) \/ Is(packet.sdu, f, id)
    <3>1. air' = Joined(air, LinkAt(flow, 1), packet)
      BY <1>5, <1>8 DEF Joined
    <3>2. air \in [LinkOfDevices -> Seq(Packet)]
      BY <1>1 DEF OnTheirRoutes
    <3> HIDE DEF flow
    <3> QED
      BY <1>1, <1>2, <1>3, <1>6, <2>1, <2>2, <3>1, <3>2, JoinsInOrder DEF flow
  <2>4. InFlight' = [InFlight EXCEPT ![flow] = InFlight[flow] \cup {sdus + 1}]
    <3>1. \A f \in Flow : \A id :
            id \in IdsIn(air', f) <=> id \in IdsIn(air, f) \/ (f = flow /\ id = sdus + 1)
      BY <1>3, <2>3 DEF Is
    <3> HIDE DEF flow
    <3> QED
      BY <1>1, <3>1, GoesInFlight
  <2>5. Received' = Received
    BY <1>8 DEF Received
  <2>6. Channels!Accept(flow)
    BY <1>1, <1>8, <2>4, <2>5 DEF Channels!Accept
  <2> QED
    BY <1>1, <2>3, <2>6 DEF Channels!Next
<1> QED
  BY <1>4, <1>7, <1>8

(* What a source hands over is accepted, unless it has no session yet or   *)
(* no bearer, which ends the program.                                      *)
LEMMA SendFlows ==
  ASSUME FlowsInv, OneOctetPaths, NEW n \in IabNodes, Send(n)
  PROVE  InOrder(air', sdus') /\ Channels!Next
<1>1. /\ RoutesInv /\ ForwardingInv /\ TreeInv /\ SessionsAgree
  BY DEF FlowsInv, RoutesInv, ForwardingInv
<1>2. /\ Simulating /\ simulating /\ crash = "none" /\ Attached(n) /\ sdus < MaxSdus
      /\ sdus' = sdus + 1 /\ UNCHANGED scenario
  BY <1>1 DEF Send, SendUplink, SendDownlink, MaySend, Simulating, ForwardingInv, scenarioVars
<1>3. servingDonor[n] \in Donors /\ n \notin Donors
  BY <1>1, <1>2, AttachedFacts, TopologyAssumption
<1>4. sdus + 1 \in 1..MaxSdus
  BY <1>1, <1>2, ForwardingAssumption DEF ForwardingInv, ForwardingTypeOK
<1>5. CASE SendDownlink(n)
  <2> DEFINE d == sgwDonor[n]
             sdu == [flow |-> [src |-> d, dst |-> n, pdu |-> FALSE], id |-> sdus + 1]
  <2>1. d = servingDonor[n] /\ d \in Donors /\ d \notin IabNodes
    BY <1>1, <1>3, <1>5, TopologyAssumption DEF SessionsAgree, SendDownlink
  <2>2. sdu \in Sdu /\ sdu.flow.src = d /\ sdu.flow.dst = n /\ sdu.id = sdus + 1
    BY <1>4, <2>1 DEF Sdu, Flow
  <2>3. TransmitBapSdu(d, sdu, bapAddress[n])
    BY <1>5 DEF SendDownlink
  <2> HIDE DEF sdu, d
  <2>4. JoinsNodeAndDonor(sdu.flow)
    BY <2>1, <2>2 DEF JoinsNodeAndDonor
  <2> QED
    BY <1>2, <2>2, <2>3, <2>4, TransmitFlows
<1>6. ASSUME NEW pdu \in BOOLEAN, SendUplink(n, pdu)
      PROVE  InOrder(air', sdus') /\ Channels!Next
  <2> DEFINE d == servingDonor[n]
             sdu == [flow |-> [src |-> n, dst |-> d, pdu |-> pdu], id |-> sdus + 1]
  <2>1. sdu \in Sdu /\ sdu.flow.src = n /\ sdu.flow.dst = d /\ sdu.id = sdus + 1
    BY <1>3, <1>4 DEF Sdu, Flow
  <2>2. PICK dest : /\ dest = bapAddress[d] \/ (dest = 0 /\ sgwDonor[n] = NoDevice)
                    /\ TransmitBapSdu(n, sdu, dest)
    BY <1>1, <1>6 DEF SendUplink, SessionsAgree
  <2> HIDE DEF sdu
  <2>3. CASE dest = bapAddress[d]
    <3>1. JoinsNodeAndDonor(sdu.flow)
      BY <2>1 DEF JoinsNodeAndDonor
    <3> QED
      BY <1>2, <2>1, <2>2, <2>3, <3>1, TransmitFlows
  <2>4. CASE dest = 0
    <3>1. DonorOf(n) = d
      BY <1>3 DEF DonorOf
    <3>2. PathsBetween(DonorOf(n), bapAddress[n], 0) = {}
      BY <1>1, <1>3, <3>1, NothingAtZero
    <3>3. crash' # "none" /\ UNCHANGED <<air, delivered>>
      BY <2>2, <2>4, <3>2 DEF TransmitBapSdu, Crash
    <3>4. Channels!Fail
      BY <1>2, <3>3, FailStep
    <3>5. InOrder(air, sdus + 1)
      BY <1>2, AirInOrder, LaterInOrder
    <3> QED
      BY <1>2, <3>3, <3>4, <3>5 DEF Channels!Next
  <2> QED
    BY <2>2, <2>3, <2>4
<1> QED
  BY <1>5, <1>6 DEF Send

(* A relayed packet stays in flight, in its place; at the end of its route *)
(* the oldest packet of its flow is delivered.                             *)
LEMMA ReceiveFlows ==
  ASSUME FlowsInv, OneOctetPaths, NEW from \in Device, NEW to \in Device, Receive(from, to)
  PROVE  InOrder(air', sdus') /\ [Channels!Next]_Channels!channelsVars
<1> DEFINE link == <<from, to>>
           queue == air[link]
           packet == Head(queue)
           queues == [air EXCEPT ![link] = Tail(queue)]
           sdu == packet.sdu
           flow == sdu.flow
           route == Route(flow)
<1>1. /\ Simulating /\ simulating /\ crash = "none" /\ UNCHANGED <<scenario, sdus>>
  BY DEF Receive, Simulating, scenarioVars
<1>2. /\ RoutesInv /\ ForwardingInv /\ PacketsAreRouted /\ InOrder(air, sdus) /\ sdus \in Nat
      /\ OnTheirRoutes(air)
      /\ air \in [LinkOfDevices -> Seq(Packet)]
  BY <1>1, AirInOrder DEF OnTheirRoutes, RoutesInv
<1>3. /\ queue # <<>>
      /\ packet \in RoutedPacket(from, to)
      /\ \E k \in 1..(Len(route) - 1) :
           /\ route[k] = from /\ route[k + 1] = to
           /\ \/ k + 1 \in 1..(Len(route) - 1) /\ Relays(to, packet, queues)
              \/ k + 1 = Len(route) /\ HandsUp(to, packet, queues)
  BY <1>2, ReceiveGoesOn
<1>4. link \in LinkOfDevices
  BY DEF LinkOfDevices
<1>5. queue \in Seq(Packet) /\ QueueRises(queue)
  BY <1>2, <1>4 DEF InOrder
<1> HIDE DEF link
<1>6. 1 \in DOMAIN queue /\ queue[1] = packet /\ Without(queue, 1, Tail(queue))
  BY <1>3, <1>5, TailIsWithout
<1>7. \A id \in NumbersOf(queue, flow) : sdu.id <= id
  <2> HIDE DEF queue
  <2> QED
    BY <1>3, <1>5, HeadIsOldest
<1>8. /\ packet \in Packet /\ sdu \in Sdu /\ flow \in Flow /\ JoinsNodeAndDonor(flow)
      /\ sdu.id \in Nat
  BY <1>3 DEF RoutedPacket, GoodPacket, Packet, Sdu
<1>9. LinksOnce(flow) /\ HopsOf(flow) = 1..(Len(route) - 1) /\ HopsFall(air, flow)
  BY <1>1, <1>8, AirInOrder DEF InOrder
<1> HIDE DEF packet
<1>10. PICK k \in HopsOf(flow) :
         /\ link = LinkAt(flow, k) /\ route[k] = from /\ route[k + 1] = to
         /\ \/ k + 1 \in HopsOf(flow) /\ Relays(to, packet, queues)
            \/ k + 1 = Len(route) /\ HandsUp(to, packet, queues)
  BY <1>3, <1>9 DEF LinkAt, link
<1> HIDE DEF queue
<1>11. /\ queues \in [LinkOfDevices -> Seq(Packet)]
       /\ InOrder(queues, sdus)
       /\ \A l \in LinkOfDevices : \A f : NumbersOf(queues[l], f) \subseteq NumbersOf(air[l], f)
       /\ \A f, id : id \in IdsIn(queues, f) <=> id \in IdsIn(air, f) /\ ~Is(sdu, f, id)
       /\ sdu.id \in IdsIn(air, flow)
  <2>1. PICK rest : rest = Tail(queue)
    OBVIOUS
  <2>2. PICK i : i = 1
    OBVIOUS
  <2>3. queues = Left(air, link, rest)
    BY <2>1 DEF Left
  <2>4. /\ i \in DOMAIN air[link] /\ sdu = air[link][i].sdu
        /\ Without(air[link], i, rest)
    BY <1>6, <2>1, <2>2 DEF queue
  <2> HIDE DEF queues, sdu
  <2>5. PICK s : s = sdu
    OBVIOUS
  <2>6. /\ OnTheirRoutes(air) /\ sdus \in Nat /\ InOrder(air, sdus) /\ link \in LinkOfDevices
        /\ i \in DOMAIN air[link] /\ s = air[link][i].sdu /\ s \in Sdu /\ LinksOnce(s.flow)
        /\ Without(air[link], i, rest)
    BY <1>2, <1>4, <1>8, <1>9, <2>4, <2>5
  <2> DEFINE left == Left(air, link, rest)
  <2>7. left \in [LinkOfDevices -> Seq(Packet)] /\ InOrder(left, sdus)
    BY <2>6, LeavesInOrder
  <2>8. \A l \in LinkOfDevices : \A f : NumbersOf(left[l], f) \subseteq NumbersOf(air[l], f)
    BY <2>6, LeavesInOrder
  <2>9. \A f, id : id \in IdsIn(left, f) <=> id \in IdsIn(air, f) /\ ~Is(s, f, id)
    BY <2>6, LeavesInOrder
  <2>10. s.id \in IdsIn(air, s.flow)
    BY <2>6, LeavesInOrder
  <2> HIDE DEF left
  <2> QED
    BY <2>3, <2>5, <2>7, <2>8, <2>9, <2>10 DEF left
<1>12. sdu.id <= sdus
  <2>1. sdu.id \in NumbersOf(queue, flow)
    BY <1>6 DEF NumbersOf
  <2> QED
    BY <1>2, <1>4, <1>8, <2>1 DEF InOrder, queue
<1> HIDE DEF queues
<1>14. CASE k + 1 \in HopsOf(flow) /\ Relays(to, packet, queues)
  <2>1. PICK relayed \in GoodPacket :
          /\ relayed.sdu = sdu
          /\ DoTransmitBapPdu(to, relayed, bapAddress[flow.dst], FlowPath(flow), queues)
    BY <1>14 DEF Relays
  <2> DEFINE j == k + 1
             next == <<to, route[j + 1]>>
  <2>2. \/ Crash("no_rlc_entry")
        \/ /\ air' = [queues EXCEPT ![next] = Append(queues[next], relayed)]
           /\ UNCHANGED <<delivered, crash>>
    <3>1. j \in 1..(Len(Route(relayed.sdu.flow)) - 1) /\ to = Route(relayed.sdu.flow)[j]
      BY <1>9, <1>10, <1>14, <2>1
    <3>2. DoTransmitBapPdu(to, relayed, bapAddress[relayed.sdu.flow.dst],
                           FlowPath(relayed.sdu.flow), queues)
      BY <2>1
    <3>3. next = <<to, Route(relayed.sdu.flow)[j + 1]>>
      BY <2>1
    <3> HIDE DEF j, next
    <3> QED
      BY ZenonT(60), <1>1, <1>2, <3>1, <3>2, <3>3, TransmitGoesOn
  <2>3. next = LinkAt(flow, j) /\ j \in HopsOf(flow)
    BY <1>10, <1>14 DEF LinkAt
  <2> HIDE DEF next
  <2>4. CASE Crash("no_rlc_entry")
    <3>1. crash' # "none" /\ UNCHANGED <<air, delivered>>
      BY <2>4 DEF Crash
    <3>2. Channels!Fail
      BY <1>1, <3>1, FailStep
    <3> QED
      BY <1>1, <1>2, <3>1, <3>2 DEF Channels!Next
  <2>5. CASE /\ air' = [queues EXCEPT ![next] = Append(queues[next], relayed)]
             /\ UNCHANGED <<delivered, crash>>
    <3>1. Fits(queues, flow, j, sdu.id)
      <4> SUFFICES ASSUME NEW m \in HopsOf(flow),
                          NEW id \in NumbersOf(queues[LinkAt(flow, m)], flow)
                   PROVE  IF m < k + 1 THEN sdu.id < id ELSE id < sdu.id
        BY DEF Fits
      <4>1. k \in Nat /\ m \in Nat /\ LinkAt(flow, m) \in LinkOfDevices
        BY <1>9 DEF LinksOnce
      <4>2. id \in NumbersOf(air[LinkAt(flow, m)], flow) /\ id \in Nat
        BY <1>2, <1>8, <1>11, <4>1 DEF OnTheirRoutes
      <4>3. sdu.id \in NumbersOf(air[LinkAt(flow, k)], flow)
        BY <1>6, <1>10 DEF NumbersOf, queue
      <4>4. CASE m < k
        <5>1. sdu.id < id
          BY <1>9, <4>2, <4>3, <4>4 DEF HopsFall
        <5>2. m < k + 1
          BY <4>1, <4>4
        <5> QED
          BY <5>1, <5>2
      <4>5. CASE k < m
        <5>1. id < sdu.id
          BY <1>9, <4>2, <4>3, <4>5 DEF HopsFall
        <5>2. ~(m < k + 1)
          BY <4>1, <4>5
        <5> QED
          BY <5>1, <5>2
      <4>6. CASE m = k
        <5>1. ~Is(sdu, flow, id)
          <6>1. id \in IdsIn(queues, flow)
            <7>1. DOMAIN queues = LinkOfDevices
              BY <1>11
            <7> HIDE DEF flow
            <7> QED
              BY <4>1, <7>1, IdsAreInQueues
          <6> QED
            BY <1>11, <6>1
        <5>2. sdu.id <= id
          BY <1>7, <1>10, <4>2, <4>6 DEF queue
        <5> QED
          BY <1>8, <4>1, <4>2, <4>6, <5>1, <5>2 DEF Is
      <4> QED
        BY <4>1, <4>4, <4>5, <4>6
    <3>2. /\ InOrder(air', sdus)
          /\ \A f, id : id \in IdsIn(air', f) <=> id \in IdsIn(queues, f) \/ Is(relayed.sdu, f, id)
      <4>1. air' = Joined(queues, LinkAt(flow, j), relayed)
        BY <2>3, <2>5 DEF Joined
      <4>2. PICK f : f = flow
        OBVIOUS
      <4>3. /\ relayed \in Packet /\ relayed.sdu.id <= sdus /\ relayed.sdu.flow = f
            /\ f \in Flow /\ LinksOnce(f) /\ j \in HopsOf(f)
        BY <1>8, <1>9, <1>12, <2>1, <2>3, <4>2 DEF GoodPacket
      <4>4. Fits(queues, f, j, relayed.sdu.id)
        BY <2>1, <3>1, <4>2
      <4>5. air' = Joined(queues, LinkAt(f, j), relayed)
        BY <4>1, <4>2
      <4> HIDE DEF flow, j
      <4> DEFINE joined == Joined(queues, LinkAt(f, j), relayed)
      <4>6. InOrder(joined, sdus)
        BY ZenonT(60), <1>2, <1>11, <4>3, <4>4, JoinsInOrder
      <4>7. \A g, id : id \in IdsIn(joined, g) <=> id \in IdsIn(queues, g) \/ Is(relayed.sdu, g, id)
        BY ZenonT(60), <1>2, <1>11, <4>3, <4>4, JoinsInOrder
      <4> HIDE DEF joined
      <4> QED
        BY <4>5, <4>6, <4>7 DEF joined
    <3>3. InFlight' = InFlight
      <4>1. \A f \in Flow : \A id : id \in IdsIn(air', f) <=> id \in IdsIn(air, f)
        BY <1>11, <2>1, <3>2 DEF Is
      <4> QED
        BY <4>1, StaysInFlight
    <3>4. Received' = Received
      BY <2>5 DEF Received
    <3>5. UNCHANGED Channels!channelsVars
      BY <1>1, <2>5, <3>3, <3>4 DEF Channels!channelsVars
    <3> QED
      BY <1>1, <3>2, <3>5
  <2> QED
    BY <2>2, <2>4, <2>5
<1>15. CASE k + 1 = Len(route) /\ HandsUp(to, packet, queues)
  <2>1. PICK via, bearerOf :
          /\ flow.dst = to /\ air' = queues /\ crash' = crash
          /\ HandUp(to, sdu, via, bearerOf)
    BY <1>15 DEF HandsUp
  <2>2. sdu.id \in InFlight[flow] /\ InFlight[flow] = IdsIn(air, flow)
    BY <1>8, <1>11 DEF InFlight
  <2>3. ASSUME NEW other \in InFlight[flow] PROVE sdu.id <= other
    <3>1. PICK l \in LinkOfDevices : other \in NumbersOf(air[l], flow)
      <4>1. DOMAIN air = LinkOfDevices
        BY <1>2
      <4> HIDE DEF flow
      <4> QED
        BY <2>2, <2>3, <4>1, IdsAreInQueues
    <3>2. other \in Nat /\ \E m \in HopsOf(flow) : l = LinkAt(flow, m)
      BY <1>2, <1>8, <3>1 DEF OnTheirRoutes
    <3>3. PICK m \in HopsOf(flow) : l = LinkAt(flow, m)
      BY <3>2
    <3>4. m \in Nat /\ k \in Nat /\ (m < k \/ m = k)
      BY <1>9, <1>15 DEF LinksOnce
    <3>5. /\ sdu.id \in NumbersOf(air[LinkAt(flow, k)], flow)
          /\ other \in NumbersOf(air[LinkAt(flow, m)], flow)
      BY <1>6, <1>10, <3>1, <3>3 DEF NumbersOf, queue
    <3>6. CASE m < k
      <4>1. sdu.id < other
        BY <1>9, <3>5, <3>6 DEF HopsFall
      <4> QED
        BY <1>8, <3>2, <4>1
    <3>7. CASE m = k
      BY <1>7, <1>10, <3>1, <3>3, <3>7 DEF queue
    <3> QED
      BY <3>4, <3>6, <3>7
  <2>4. InFlight' = [InFlight EXCEPT ![flow] = InFlight[flow] \ {sdu.id}]
    <3>1. \A f \in Flow : \A id :
            id \in IdsIn(air', f) <=> id \in IdsIn(air, f) /\ ~(f = flow /\ id = sdu.id)
      BY <1>11, <2>1 DEF Is
    <3>2. PICK number : number = sdu.id
      OBVIOUS
    <3> HIDE DEF flow
    <3> QED
      BY <1>8, <3>1, <3>2, LeavesFlight
  <2>5. Received' = [Received EXCEPT ![flow.dst] =
                       Append(Received[flow.dst], [flow |-> flow, id |-> sdu.id])]
    <3> DEFINE handed == [sdu |-> sdu, via |-> via, bearerOf |-> bearerOf]
    <3>1. handed.sdu = sdu /\ sdu = [flow |-> flow, id |-> sdu.id]
      BY <1>8 DEF Sdu
    <3>2. delivered' = [delivered EXCEPT ![to] = Append(delivered[to], handed)]
      BY <2>1 DEF HandUp
    <3> HIDE DEF handed
    <3>3. DOMAIN delivered = Device /\ delivered[to] \in Seq(GoodDelivery(to))
      BY <1>2 DEF ForwardingInv, DeliveriesAreGood
    <3>4. delivered[to] \in Seq(GoodDelivery(to) \cup {handed})
      BY <3>3, SeqSubset
    <3>5. SdusOf(Append(delivered[to], handed)) = Append(SdusOf(delivered[to]), handed.sdu)
      BY <3>4, SdusOfAppend
    <3>6. \A dev \in Device :
            delivered'[dev] = IF dev = to THEN Append(delivered[to], handed) ELSE delivered[dev]
      BY <3>2, <3>3
    <3>7. \A dev \in Device :
            SdusOf(delivered'[dev]) = IF dev = to THEN Append(SdusOf(delivered[to]), handed.sdu)
                                      ELSE SdusOf(delivered[dev])
      BY <3>5, <3>6
    <3>8. Received' = [Received EXCEPT ![to] = Append(Received[to], handed.sdu)]
      BY <3>7 DEF Received
    <3> QED
      BY <2>1, <3>1, <3>8
  <2>6. Channels!Deliver(flow)
    BY <1>1, <2>1, <2>2, <2>3, <2>4, <2>5 DEF Channels!Deliver
  <2> QED
    BY <1>1, <1>8, <1>11, <2>1, <2>6 DEF Channels!Next
<1> QED
  BY <1>10, <1>14, <1>15

(* RLC UM takes a packet out of flight.                                    *)
LEMMA LosePacketFlows ==
  ASSUME FlowsInv, OneOctetPaths, NEW from \in Device, NEW to \in Device, LosePacket(from, to)
  PROVE  InOrder(air', sdus') /\ Channels!Next
<1> DEFINE link == <<from, to>>
           queue == air[link]
<1>1. /\ Simulating /\ simulating /\ crash = "none" /\ scenario.bearer = "um"
      /\ UNCHANGED <<scenario, sdus, delivered, crash>>
  BY DEF LosePacket, Simulating, scenarioVars
<1>2. /\ RoutesInv /\ PacketsAreRouted /\ InOrder(air, sdus) /\ sdus \in Nat
      /\ OnTheirRoutes(air)
      /\ air \in [LinkOfDevices -> Seq(Packet)]
  BY <1>1, AirInOrder DEF OnTheirRoutes
<1>3. PICK i \in DOMAIN queue : air' = [air EXCEPT ![link] = RemoveAt(queue, i)]
  BY DEF LosePacket
<1>4. link \in LinkOfDevices
  BY DEF LinkOfDevices
<1>5. queue \in Seq(Packet) /\ queue \in Seq(RoutedPacket(from, to))
  BY <1>2, <1>4 DEF PacketsAreRouted
<1> DEFINE packet == queue[i]
           sdu == packet.sdu
           flow == sdu.flow
<1>6. packet \in RoutedPacket(from, to)
  BY <1>5
<1>7. /\ packet \in Packet /\ sdu \in Sdu /\ flow \in Flow /\ JoinsNodeAndDonor(flow)
  BY <1>6 DEF RoutedPacket, GoodPacket, Packet, Sdu
<1>8. LinksOnce(flow)
  BY <1>1, <1>7, AirInOrder
<1>9. Without(queue, i, RemoveAt(queue, i))
  BY <1>5, RemoveAtIsWithout
<1>10. /\ InOrder(air', sdus)
       /\ \A f, id : id \in IdsIn(air', f) <=> id \in IdsIn(air, f) /\ ~Is(sdu, f, id)
       /\ sdu.id \in IdsIn(air, flow)
  <2>1. air' = Left(air, link, RemoveAt(queue, i))
    BY <1>3 DEF Left
  <2>2. /\ i \in DOMAIN air[link] /\ sdu = air[link][i].sdu
        /\ Without(air[link], i, RemoveAt(queue, i))
    BY <1>9
  <2> HIDE DEF link, queue, sdu
  <2> QED
    BY <1>2, <1>4, <1>7, <1>8, <2>1, <2>2, LeavesInOrder
<1> HIDE DEF packet
<1>11. sdu.id \in InFlight[flow]
  BY <1>7, <1>10 DEF InFlight
<1>12. InFlight' = [InFlight EXCEPT ![flow] = InFlight[flow] \ {sdu.id}]
  <2>1. \A f \in Flow : \A id :
          id \in IdsIn(air', f) <=> id \in IdsIn(air, f) /\ ~(f = flow /\ id = sdu.id)
    BY <1>10 DEF Is
  <2>2. PICK number : number = sdu.id
    OBVIOUS
  <2> HIDE DEF flow
  <2> QED
    BY <1>7, <2>1, <2>2, LeavesFlight
<1>13. Received' = Received
  BY <1>1 DEF Received
<1>14. Channels!Lose(flow)
  BY <1>1, <1>11, <1>12, <1>13 DEF Channels!Lose
<1> QED
  BY <1>1, <1>7, <1>10, <1>14 DEF Channels!Next

(* What is in order stays so while the topology stands.                    *)
LEMMA OrderStands ==
  ASSUME UNCHANGED topologyVars, InOrder(air', sdus')
  PROVE  PacketsInOrder'
<1>1. \A flow \in Flow : Route(flow)' = Route(flow)
  BY BackhaulStands DEF Route
<1>2. \A flow \in Flow : /\ HopsOf(flow)' = HopsOf(flow)
                         /\ \A k : LinkAt(flow, k)' = LinkAt(flow, k)
  BY <1>1 DEF HopsOf, LinkAt
<1>3. \A flow \in Flow : HopsFall(air, flow)'
  <2> SUFFICES ASSUME NEW flow \in Flow PROVE HopsFall(air, flow)'
    OBVIOUS
  <2>1. HopsFall(air', flow)
    BY DEF InOrder
  <2> QED
    BY <1>2, <2>1 DEF HopsFall
<1>4. InOrder(air, sdus)'
  BY <1>3 DEF InOrder
<1> QED
  BY <1>4 DEF PacketsInOrder

(* Before the simulation nothing is in flight.                             *)
LEMMA NothingInFlight ==
  ASSUME \A link \in LinkOfDevices : air[link] = <<>>
  PROVE  InOrder(air, sdus)
<1>1. \A link \in LinkOfDevices :
        QueueRises(air[link]) /\ \A flow : NumbersOf(air[link], flow) = {}
  BY DEF QueueRises, NumbersOf
<1>2. \A flow \in Flow : HopsFall(air, flow)
  BY <1>1 DEF HopsFall, HopsOf
<1> QED
  BY <1>1, <1>2 DEF InOrder

LEMMA InitFlows ==
  ForwardingInit => FlowsInv /\ Channels!Init
<1> SUFFICES ASSUME ForwardingInit PROVE FlowsInv /\ Channels!Init
  OBVIOUS
<1>1. /\ simulating = FALSE /\ crash = "none" /\ sdus = 0
      /\ air = [link \in LinkOfDevices |-> <<>>]
      /\ delivered = [dev \in Device |-> <<>>]
  BY DEF ForwardingInit, LinkOfDevices
<1>2. FlowsInv
  BY <1>1, InitRoutesInv DEF FlowsInv, PacketsInOrder
<1>3. InFlight = [flow \in Flow |-> {}]
  <2>1. PacketsIn(air) = {}
    BY <1>1 DEF PacketsIn
  <2> QED
    BY <2>1 DEF InFlight, IdsIn
<1>4. Received = [dev \in Device |-> <<>>]
  BY <1>1 DEF Received, SdusOf
<1> QED
  BY <1>1, <1>2, <1>3, <1>4 DEF Channels!Init

(* A step that moves no packet.                                            *)
LEMMA QuietStep ==
  ASSUME UNCHANGED <<scenario, packetVars, crash>>
  PROVE  UNCHANGED Channels!channelsVars
<1>1. InFlight' = InFlight /\ Received' = Received
  BY DEF packetVars, InFlight, Received
<1> QED
  BY <1>1 DEF Channels!channelsVars, packetVars

LEMMA PacketStepFlows ==
  ASSUME FlowsInv, simulating, RoutesInv', UNCHANGED topologyVars,
         OneOctetPaths => InOrder(air', sdus') /\ [Channels!Next]_Channels!channelsVars
  PROVE  FlowsInv' /\ (OneOctetPaths => [Channels!Next]_Channels!channelsVars)
<1>1. OneOctetPaths' = OneOctetPaths
  BY DEF OneOctetPaths, topologyVars
<1> QED
  BY <1>1, OrderStands DEF FlowsInv

LEMMA FlowsStep ==
  FlowsInv /\ [ForwardingNext]_forwardingVars
    => FlowsInv' /\ (OneOctetPaths => [Channels!Next]_Channels!channelsVars)
<1> SUFFICES ASSUME FlowsInv, [ForwardingNext]_forwardingVars
             PROVE  FlowsInv' /\ (OneOctetPaths => [Channels!Next]_Channels!channelsVars)
  OBVIOUS
<1>1. RoutesInv /\ ForwardingInv /\ RoutesInv'
  BY NextRoutesInv DEF FlowsInv, RoutesInv
<1>2. CASE BuildTopology
  <2>1. UNCHANGED <<scenario, packetVars, crash>> /\ ~simulating'
    BY <1>2 DEF BuildTopology, scenarioVars
  <2> QED
    BY <1>1, <2>1, QuietStep DEF FlowsInv, PacketsInOrder
<1>3. CASE StartSimulation
  <2>1. /\ UNCHANGED <<topologyVars, scenario, packetVars, crash>> /\ ~simulating
        /\ UNCHANGED <<air, sdus>>
    BY <1>3 DEF StartSimulation, packetVars
  <2>2. \A link \in LinkOfDevices : air[link] = <<>>
    BY <1>1, <2>1 DEF ForwardingInv, Quiet
  <2>3. InOrder(air', sdus')
    BY <2>1, <2>2, NothingInFlight
  <2> QED
    BY <1>1, <2>1, <2>3, QuietStep, OrderStands DEF FlowsInv
<1>4. ASSUME NEW n \in IabNodes, Connect(n)
      PROVE  FlowsInv' /\ (OneOctetPaths => [Channels!Next]_Channels!channelsVars)
  <2>1. /\ simulating
        /\ UNCHANGED <<topologyVars, scenario, packetVars, crash>> /\ UNCHANGED <<air, sdus>>
    BY <1>4 DEF Connect, CreateSession, SetupDataRadioBearer, AddDataRadioBearerAtMt,
                Simulating, scenarioVars, packetVars
  <2>2. OneOctetPaths => InOrder(air', sdus')
    BY <2>1 DEF FlowsInv, PacketsInOrder
  <2> QED
    BY <1>1, <2>1, <2>2, QuietStep, PacketStepFlows
<1>5. ASSUME NEW n \in IabNodes, Send(n)
      PROVE  FlowsInv' /\ (OneOctetPaths => [Channels!Next]_Channels!channelsVars)
  <2>1. simulating /\ UNCHANGED topologyVars
    BY <1>5 DEF Send, SendUplink, SendDownlink, MaySend, Simulating
  <2> QED
    BY <1>1, <1>5, <2>1, SendFlows, PacketStepFlows
<1>6. ASSUME NEW from \in Device, NEW to \in Device, Receive(from, to) \/ LosePacket(from, to)
      PROVE  FlowsInv' /\ (OneOctetPaths => [Channels!Next]_Channels!channelsVars)
  <2>1. simulating /\ UNCHANGED topologyVars
    BY <1>6 DEF Receive, LosePacket, Simulating
  <2> QED
    BY <1>1, <1>6, <2>1, ReceiveFlows, LosePacketFlows, PacketStepFlows
<1>7. CASE UNCHANGED forwardingVars
  <2>1. /\ UNCHANGED <<topologyVars, scenario, packetVars, crash>>
        /\ UNCHANGED <<air, sdus, simulating>>
    BY <1>7 DEF forwardingVars, scenarioVars, packetVars
  <2>2. OneOctetPaths' = OneOctetPaths
    BY <2>1 DEF OneOctetPaths, topologyVars
  <2>3. simulating /\ OneOctetPaths => InOrder(air', sdus')
    BY <2>1 DEF FlowsInv, PacketsInOrder
  <2>4. OneOctetPaths' => PacketsInOrder'
    BY <2>1, <2>2, <2>3, OrderStands DEF PacketsInOrder
  <2> QED
    BY <1>1, <2>1, <2>4, QuietStep DEF FlowsInv
<1>8. \/ BuildTopology \/ StartSimulation
      \/ \E n \in IabNodes : Connect(n) \/ Send(n)
      \/ \E from, to \in Device : Receive(from, to) \/ LosePacket(from, to)
      \/ UNCHANGED forwardingVars
  BY DEF ForwardingNext
<1>9. CASE \E n \in IabNodes : Connect(n) \/ Send(n)
  BY <1>4, <1>5, <1>9
<1>10. CASE \E from, to \in Device : Receive(from, to) \/ LosePacket(from, to)
  <2>1. PICK from \in Device, to \in Device : Receive(from, to) \/ LosePacket(from, to)
    BY <1>10
  <2> QED
    BY <1>6, <2>1
<1> QED
  BY <1>2, <1>3, <1>7, <1>8, <1>9, <1>10

--------------------------------------------------------------------------------
(***************************************************************************)
(* The theorems.                                                           *)
(***************************************************************************)

(* The RLC maps, queues and deliveries keep their types, whatever packet   *)
(* arrives where: in particular every header that is written fits its      *)
(* three octets and every delivery is to a node's bearer.                  *)
THEOREM ForwardingTypeCorrect ==
  ForwardingSafeSpec => []ForwardingTypeOK
<1>1. ForwardingInv => ForwardingTypeOK
  BY DEF ForwardingInv
<1> QED
  BY ForwardingInvHolds, <1>1, PTL

(* Whatever the order in which the links of any trees come up, a BAP       *)
(* entity only ever has RLC entities to its parent and its children, each  *)
(* under the address packets for it are routed to: the parent looks the    *)
(* address up at the donor by the child's IMSI, the child by cell identity. *)
THEOREM LinksNameNeighbours ==
  ForwardingSafeSpec => []RlcMapNamesNeighbours
<1>1. ForwardingInv => RlcMapNamesNeighbours
  BY DEF ForwardingInv
<1> QED
  BY ForwardingInvHolds, <1>1, PTL

(* As long as the counter of path identities stays in one octet, an SDU    *)
(* only ever leaves the backhaul at the device it is meant for, through    *)
(* the interface for its kind of traffic, and in the uplink the donor      *)
(* finds the node that sent it, over any number of hops at each of which   *)
(* the header is read and written again.                                   *)
THEOREM NothingIsMisdelivered ==
  ForwardingSafeSpec => [](OneOctetPaths => NoMisdelivery)
<1>1. ForwardingInv => (OneOctetPaths => NoMisdelivery)
  <2> SUFFICES ASSUME ForwardingInv, OneOctetPaths,
                      NEW dev \in Device, NEW i \in DOMAIN delivered[dev]
               PROVE  LET handed == delivered[dev][i]
                          flow == handed.sdu.flow
                      IN  /\ flow.dst = dev
                          /\ handed.via = IF flow.pdu THEN "innerPdcp"
                                          ELSE IF dev \in Donors THEN "s1u" ELSE "mtRrc"
                          /\ handed.via = "s1u" => handed.bearerOf = flow.src
    BY DEF NoMisdelivery
  <2>1. delivered[dev] \in Seq(GoodDelivery(dev))
    BY DEF ForwardingInv, DeliveriesAreGood
  <2>2. delivered[dev][i] \in GoodDelivery(dev)
    BY <2>1
  <2> QED
    BY <2>2 DEF GoodDelivery
<1> QED
  BY ForwardingInvHolds, <1>1, PTL

(* While path identities fit one octet, a packet is only ever on a link of *)
(* the backhaul between its node and the donor, going towards its          *)
(* destination, however the links came up and whatever RLC UM loses: the   *)
(* next hop of every device on the route is the next device, and its RLC   *)
(* map leads there or nowhere.                                             *)
THEOREM PacketsAlwaysOnRoute ==
  ForwardingSafeSpec => [](OneOctetPaths => PacketsStayOnRoute)
<1>1. RoutesInv => (OneOctetPaths => PacketsStayOnRoute)
  <2> SUFFICES ASSUME RoutesInv, OneOctetPaths, NEW from \in Device, NEW to \in Device,
                      NEW i \in DOMAIN air[<<from, to>>]
               PROVE  LET route == Route(air[<<from, to>>][i].sdu.flow)
                      IN  \E k \in 1..Len(route) - 1 : route[k] = from /\ route[k + 1] = to
    BY DEF PacketsStayOnRoute
  <2>1. air[<<from, to>>] \in Seq(RoutedPacket(from, to))
    BY DEF RoutesInv, PacketsAreRouted
  <2>2. air[<<from, to>>][i] \in RoutedPacket(from, to)
    BY <2>1
  <2> QED
    BY <2>2 DEF RoutedPacket
<1> QED
  BY RoutesInvHolds, <1>1, PTL

(* While path identities fit one octet, no packet of an application that   *)
(* waited for the backhaul runs into a check of the BAP code, and one of   *)
(* an early application only into those for a missing session or bearer.   *)
THEOREM OnlyEarlyTrafficCrashes ==
  ForwardingSafeSpec => [](OneOctetPaths => OnlyEarlyCrashes)
<1>1. RoutesInv => (OneOctetPaths => OnlyEarlyCrashes)
  BY DEF RoutesInv
<1> QED
  BY RoutesInvHolds, <1>1, PTL

(* While path identities fit one octet, every flow is an ordered channel,  *)
(* over any number of hops: what its source hands over is delivered at its *)
(* destination once and in the order in which it was handed over, RLC UM   *)
(* alone loses packets, and only a check of the BAP code that fails takes  *)
(* the SDU being handed over (Bap::DoTransmitBapSdu, Bap::DoReceiveBapPdu, *)
(* Bap::DoTransmitBapPdu).                                                 *)
THEOREM FlowsAlwaysOrderedChannels ==
  ForwardingSafeSpec /\ []OneOctetPaths => FlowsAreOrderedChannels
<1>1. ForwardingInit => FlowsInv /\ Channels!Init
  BY InitFlows
<1>2. /\ FlowsInv /\ [ForwardingNext]_forwardingVars => FlowsInv'
      /\ FlowsInv /\ OneOctetPaths /\ [ForwardingNext]_forwardingVars
           => [Channels!Next]_Channels!channelsVars
  BY FlowsStep
<1> QED
  BY <1>1, <1>2, PTL DEF ForwardingSafeSpec, FlowsAreOrderedChannels, Channels!Spec
================================================================================
