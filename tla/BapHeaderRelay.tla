---------------------------- MODULE BapHeaderRelay -----------------------------
(***************************************************************************)
(* One BAP header on its way: the sender builds it, and every BAP entity   *)
(* that relays the packet reads it from the octets and writes it back      *)
(* (Packet::RemoveHeader, then Packet::AddHeader, in Bap::DoReceiveBapPdu).*)
(***************************************************************************)
EXTENDS BapHeader, BapHeaderLemmas

CONSTANTS
  Addresses,    \* the destinations the sender uses
  PathIds,      \* the path identities the donors have given out
  MaxHops       \* bound: the relays a packet passes

ASSUME RelayAssumption ==
  /\ Addresses \subseteq Address
  /\ PathIds \subseteq PathId
  /\ MaxHops \in Nat

VARIABLES
  sent,    \* the header the sender built
  wire,    \* the octets in front of the packet
  hops     \* the number of relays passed

vars == <<sent, wire, hops>>

(* DoTransmitBapSdu leaves the reserved bits alone (zero), and             *)
(* TransmitBapSduViaNonPduInterface sets the leftmost one; both set the    *)
(* D/C field to Data.                                                      *)
Init ==
  /\ \E dest \in Addresses, path \in PathIds, nonPdu \in BOOLEAN :
       sent = [dest |-> dest, path |-> path, data |-> TRUE,
               reserved |-> IF nonPdu THEN ReservedBits(TRUE, FALSE, FALSE) ELSE 0]
  /\ wire = Serialize(sent)
  /\ hops = 0

Relay ==
  /\ hops < MaxHops
  /\ wire' = Serialize(Deserialize(wire))
  /\ hops' = hops + 1
  /\ UNCHANGED sent

Next == Relay

Spec == Init /\ [][Next]_vars

--------------------------------------------------------------------------------
TypeOK ==
  /\ sent \in Header
  /\ wire \in Wire
  /\ hops \in 0..MaxHops

(* What a BAP entity reads is what the sender wrote, however many relays   *)
(* the packet has passed.  Routing looks the path identity up at every     *)
(* hop, so a header that changes on the way sends the packet elsewhere.    *)
HeaderSurvives == Deserialize(wire) = sent

(* So it is as long as a path identity has one octet: with fewer than 256  *)
(* attachments the shift by nine in Serialize is out of reach.             *)
OneOctetHeaderSurvives == sent.path <= 255 => HeaderSurvives

(* The destination and the reserved bits survive even when the path        *)
(* identity does not: a packet is never handed to the wrong upper          *)
(* interface because of its header.                                        *)
DestinationSurvives ==
  /\ Deserialize(wire).dest = sent.dest
  /\ IsNonPdu(Deserialize(wire)) = IsNonPdu(sent)

--------------------------------------------------------------------------------
(***************************************************************************)
(* The same over any number of relays, and for any addresses and path      *)
(* identities.                                                             *)
(***************************************************************************)
(* The inductive invariant: the octets are octets, and everything but the  *)
(* path identity reads as it was sent.                                     *)
RelayInv ==
  /\ TypeOK
  /\ sent.dest \in Address
  /\ Deserialize(wire).dest = sent.dest
  /\ Deserialize(wire).reserved = sent.reserved
  /\ Deserialize(wire).data = sent.data

LEMMA InitRelayInv == Init => RelayInv
<1> SUFFICES ASSUME Init PROVE RelayInv
  OBVIOUS
<1>1. PICK dest \in Addresses, path \in PathIds, nonPdu \in BOOLEAN :
        sent = [dest |-> dest, path |-> path, data |-> TRUE,
                reserved |-> IF nonPdu THEN ReservedBits(TRUE, FALSE, FALSE) ELSE 0]
  BY DEF Init
<1>2. dest \in Address /\ dest \in UInt16 /\ path \in UInt16
  <2>1. dest \in Address /\ path \in Address
    BY RelayAssumption DEF RelayAssumption, PathId, Address
  <2> QED
    BY <2>1, Widths
<1>3. (IF nonPdu THEN ReservedBits(TRUE, FALSE, FALSE) ELSE 0) \in ThreeBits
  BY DEF ReservedBits, ThreeBits
<1>4. sent \in Header /\ sent.dest \in Address
  BY <1>1, <1>2, <1>3 DEF Header
<1>5. wire = Serialize(sent) /\ wire \in Wire
  BY <1>4, SerializeType, HeaderIsAnyHeader DEF Init
<1>6. hops \in 0..MaxHops
  BY RelayAssumption DEF Init, RelayAssumption
<1> QED
  BY <1>4, <1>5, <1>6, RoundTrip, HeaderIsAnyHeader DEF RelayInv, TypeOK

LEMMA NextRelayInv == RelayInv /\ [Next]_vars => RelayInv'
<1> SUFFICES ASSUME RelayInv, [Next]_vars PROVE RelayInv'
  OBVIOUS
<1>1. CASE Relay
  <2> DEFINE h == Deserialize(wire)
  <2>1. wire' = Serialize(h) /\ sent' = sent
    BY <1>1 DEF Relay
  <2>2. h \in Header /\ h.dest \in Address
    BY DeserializeType DEF RelayInv, TypeOK
  <2>3. wire' \in Wire
    BY <2>1, <2>2, SerializeType, HeaderIsAnyHeader
  <2>4. hops' \in 0..MaxHops
    BY <1>1, RelayAssumption DEF Relay, RelayInv, TypeOK, RelayAssumption
  <2>5. /\ Deserialize(wire').dest = h.dest
        /\ Deserialize(wire').reserved = h.reserved
        /\ Deserialize(wire').data = h.data
    BY <2>1, <2>2, RoundTrip, HeaderIsAnyHeader
  <2>6. TypeOK'
    BY <2>1, <2>3, <2>4 DEF RelayInv, TypeOK
  <2> QED
    BY <2>1, <2>5, <2>6 DEF RelayInv
<1>2. CASE UNCHANGED vars
  BY <1>2 DEF RelayInv, TypeOK, vars
<1> QED
  BY <1>1, <1>2 DEF Next

(* The sender's header is a header, the octets are octets.                 *)
THEOREM RelayTypeCorrect == Spec => []TypeOK
<1>1. RelayInv => TypeOK
  BY DEF RelayInv
<1> QED
  BY <1>1, InitRelayInv, NextRelayInv, PTL DEF Spec

(* Whatever the path identities given out, over any number of relays, a    *)
(* packet keeps its destination and the bit that tells the upper interface *)
(* it is for.  (BapHeader::Serialize and Deserialize, Bap::DoReceiveBapPdu)*)
THEOREM DestinationAlwaysSurvives == Spec => []DestinationSurvives
<1>1. RelayInv => DestinationSurvives
  BY DEF RelayInv, DestinationSurvives, IsNonPdu
<1> QED
  BY <1>1, InitRelayInv, NextRelayInv, PTL DEF Spec

(* With fewer than 256 paths the whole header survives over any number of  *)
(* relays: the shift by nine instead of eight in Serialize is out of reach *)
(* of the scenarios of that size, and of no others.                        *)
THEOREM HeaderAlwaysSurvives == Spec => []OneOctetHeaderSurvives
<1> DEFINE Inv == RelayInv /\ (sent.path <= 255 => Deserialize(wire).path = sent.path)
<1>1. Init => Inv
  <2> SUFFICES ASSUME Init, sent.path <= 255
               PROVE  RelayInv /\ Deserialize(wire).path = sent.path
    BY InitRelayInv
  <2>1. RelayInv
    BY InitRelayInv
  <2>2. wire = Serialize(sent) /\ sent \in Header
    BY <2>1 DEF Init, RelayInv, TypeOK
  <2> QED
    BY <2>1, <2>2, PathRoundTrip, HeaderIsAnyHeader
<1>2. Inv /\ [Next]_vars => Inv'
  <2> SUFFICES ASSUME Inv, [Next]_vars PROVE Inv'
    OBVIOUS
  <2>1. RelayInv'
    BY NextRelayInv
  <2>2. CASE Relay
    <3>1. Deserialize(wire) \in Header /\ UNCHANGED sent
      BY <2>2, DeserializeType DEF RelayInv, TypeOK, Relay
    <3>2. CASE sent.path <= 255
      BY <2>1, <2>2, <3>1, <3>2, PathRoundTrip, HeaderIsAnyHeader DEF Relay
    <3>3. CASE ~(sent.path <= 255)
      BY <2>1, <3>1, <3>3
    <3> QED
      BY <3>2, <3>3
  <2>3. CASE UNCHANGED vars
    BY <2>1, <2>3 DEF vars
  <2> QED
    BY <2>2, <2>3 DEF Next
<1>3. Inv => OneOctetHeaderSurvives
  <2> SUFFICES ASSUME Inv, sent.path <= 255 PROVE Deserialize(wire) = sent
    BY DEF OneOctetHeaderSurvives, HeaderSurvives
  <2>1. sent \in Header /\ Deserialize(wire) \in Header
    BY DeserializeType DEF RelayInv, TypeOK
  <2> QED
    BY <2>1 DEF RelayInv, Header
<1> QED
  BY <1>1, <1>2, <1>3, PTL DEF Spec
================================================================================
