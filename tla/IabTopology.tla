------------------------------ MODULE IabTopology ------------------------------
(***************************************************************************)
(* The backhaul topology of ns3-IAB and its routing tables.                *)
(*                                                                         *)
(* MmWaveHelper installs donors (every MmWaveEnbNetDevice is one) and IAB  *)
(* nodes and attaches the nodes one by one; the EpcEnbApplication of each  *)
(* donor keeps the topology vector (m_iabTopology) and one path per        *)
(* attached node (m_bapPathIdPathMap), which the BAP entities of the       *)
(* donor's tree consult for every packet.  The counters of BAP addresses   *)
(* and of path identities are the helper's and serve all the donors.       *)
(*                                                                         *)
(* A device stands for its cell identity and its IMSI too: the code only   *)
(* compares them.  Indices into m_iabTopology are those of the code plus   *)
(* one: the donor is entry 1, and is its own parent.                       *)
(***************************************************************************)
EXTENDS Integers, Sequences

CONSTANTS
  Donors,            \* the MmWaveEnbNetDevices
  IabNodes,          \* the MmWaveIabNetDevices
  NoDevice,          \* no device
  Carriers,          \* centre frequencies
  DuCarrier,         \* the frequency of a device's (first) access carrier
  MtCarrier,         \* the frequency of an IAB node's (first) backhaul carrier
  FirstBapAddress,   \* m_bapAddressCounter when the modelled part begins
  FirstPathId        \* m_bapPathIdCounter when the modelled part begins

Device == Donors \cup IabNodes

(* Both counters start at 1 and are 16 bits wide; the program has other    *)
(* devices behind it when the modelled part begins later.                  *)
ASSUME TopologyAssumption ==
  /\ Donors \cap IabNodes = {}
  /\ NoDevice \notin Device
  /\ DuCarrier \in [Device -> Carriers]
  /\ MtCarrier \in [IabNodes -> Carriers]
  /\ FirstBapAddress \in Nat \ {0}
  /\ FirstPathId \in Nat \ {0}

MaxBapAddress == 1023        \* 0x3FF

VARIABLES
  bapAddress,         \* Bap::m_localAddress of each device, 0 before it is installed
  bapAddressCounter,  \* MmWaveHelper::m_bapAddressCounter
  iabTopology,        \* EpcEnbApplication::m_iabTopology of each donor
  bapPaths,           \* EpcEnbApplication::m_bapPathIdPathMap of each donor
  bapPathIdCounter,   \* MmWaveHelper::m_bapPathIdCounter
  servingDonor,       \* the donor whose application a node's callbacks are bound to
  mtParent,           \* the device a node's MT is told to connect to
  failure             \* "none", or the check that ended the program

topologyVars == <<bapAddress, bapAddressCounter, iabTopology, bapPaths,
                  bapPathIdCounter, servingDonor, mtParent, failure>>

Entry == [dev : Device, parent : Nat \ {0}]

Failures == {"none", "bap_address_space", "carrier", "unknown_parent"}

TypeOK ==
  /\ bapAddress \in [Device -> 0..MaxBapAddress]
  /\ bapAddressCounter \in Nat
  /\ iabTopology \in [Donors -> Seq(Entry)]
  /\ DOMAIN bapPaths = Donors
  /\ \A d \in Donors : /\ DOMAIN bapPaths[d] \subseteq Nat
                       /\ \A id \in DOMAIN bapPaths[d] :
                            bapPaths[d][id] \in Seq(1..MaxBapAddress)
  /\ bapPathIdCounter \in Nat
  /\ servingDonor \in [IabNodes -> Donors \cup {NoDevice}]
  /\ mtParent \in [IabNodes -> Device \cup {NoDevice}]
  /\ failure \in Failures

Running == failure = "none"
Installed(dev) == bapAddress[dev] # 0
Attached(n) == mtParent[n] # NoDevice

(* An NS_ABORT, or an NS_ASSERT of a debug build, ends the program; what   *)
(* the call had already written no longer matters.                         *)
Fail(reason) ==
  /\ failure' = reason
  /\ UNCHANGED <<bapAddress, bapAddressCounter, iabTopology, bapPaths,
                 bapPathIdCounter, servingDonor, mtParent>>

--------------------------------------------------------------------------------
(***************************************************************************)
(* Installation.                                                           *)
(***************************************************************************)
Init ==
  /\ bapAddress = [dev \in Device |-> 0]
  /\ bapAddressCounter = FirstBapAddress
  /\ iabTopology = [d \in Donors |-> <<>>]
  /\ bapPaths = [d \in Donors |-> <<>>]
  /\ bapPathIdCounter = FirstPathId
  /\ servingDonor = [n \in IabNodes |-> NoDevice]
  /\ mtParent = [n \in IabNodes |-> NoDevice]
  /\ failure = "none"

(* Mutant: the assertion lets an eleventh bit pass.                        *)
SetLocalAddressUnchecked(dev) ==
  /\ bapAddressCounter <= MaxBapAddress + 1
  /\ bapAddress' = [bapAddress EXCEPT ![dev] = bapAddressCounter]
  /\ bapAddressCounter' = bapAddressCounter + 1

(* bap->SetLocalAddress (m_bapAddressCounter++), with its assertion.       *)
SetLocalAddress(dev) ==
  /\ bapAddressCounter <= MaxBapAddress
  /\ bapAddress' = [bapAddress EXCEPT ![dev] = bapAddressCounter]
  /\ bapAddressCounter' = bapAddressCounter + 1

AddressSpaceExhausted ==
  /\ bapAddressCounter > MaxBapAddress
  /\ Fail("bap_address_space")

(* InstallSingleEnbDevice, and the EpcEnbApplication::SetDonor that        *)
(* MmWavePointToPointEpcHelper::AddDu calls for the new device.            *)
InstallEnb(d) ==
  /\ Running
  /\ ~Installed(d)
  /\ \/ AddressSpaceExhausted
     \/ /\ SetLocalAddress(d)
        /\ iabTopology' = [iabTopology EXCEPT
             ![d] = Append(@, [dev |-> d, parent |-> 1])]
        /\ UNCHANGED <<bapPaths, bapPathIdCounter, servingDonor, mtParent, failure>>

(* InstallSingleIabDevice.                                                 *)
InstallIab(n) ==
  /\ Running
  /\ ~Installed(n)
  /\ \/ AddressSpaceExhausted
     \/ /\ SetLocalAddress(n)
        /\ UNCHANGED <<iabTopology, bapPaths, bapPathIdCounter, servingDonor,
                       mtParent, failure>>

--------------------------------------------------------------------------------
(***************************************************************************)
(* Attachment.                                                             *)
(***************************************************************************)

(* Mutant: a parent that is not found is taken for the donor.              *)
ParentIndicesOrDonor(d, p) ==
  LET found == {i \in 1..Len(iabTopology[d]) : iabTopology[d][i].dev = p}
  IN  IF found = {} THEN {1} ELSE found

(* The entries RegisterNewIabAttachment may find the parent at.  A parent  *)
(* that is an MmWaveEnbNetDevice is taken for this donor without a look.   *)
ParentIndices(d, p) ==
  IF p \in Donors THEN {1}
  ELSE {i \in 1..Len(iabTopology[d]) : iabTopology[d][i].dev = p}

(* The entries the while loop of RegisterNewIabAttachment visits from the  *)
(* last entry of a topology up to the donor.                               *)
IsWalkToDonor(top, walk) ==
  /\ Len(walk) >= 2
  /\ walk[1] = Len(top)
  /\ walk[Len(walk)] = 1
  /\ \A i \in 1..Len(walk) - 1 :
       walk[i] # 1 /\ walk[i + 1] = top[walk[i]].parent

Walks(top) == UNION {[1..len -> 1..Len(top)] : len \in 2..Len(top)}

PathAlong(top, walk) == [i \in 1..Len(walk) |-> bapAddress[top[walk[i]].dev]]

(* Mutant: a registration that reports no path added.                      *)
KeepPathId == UNCHANGED bapPathIdCounter

(* numAddedPaths, which both callers add to the counter.                   *)
TakePathId == bapPathIdCounter' = bapPathIdCounter + 1

(* EpcEnbApplication::RegisterNewIabAttachment.  The path leads from the node to the   *)
(* donor.  The abort for an identity that is taken is left out: invariant  *)
(* NextPathIdIsFree says that it cannot happen.                            *)
RegisterNewIabAttachment(d, n, p) ==
  /\ \E index \in ParentIndices(d, p) :
       /\ \A i \in ParentIndices(d, p) : index <= i
       /\ LET top == Append(iabTopology[d], [dev |-> n, parent |-> index]) IN
          /\ iabTopology' = [iabTopology EXCEPT ![d] = top]
          /\ \E walk \in Walks(top) :
               /\ IsWalkToDonor(top, walk)
               /\ bapPaths' = [bapPaths EXCEPT
                    ![d] = [id \in DOMAIN @ \cup {bapPathIdCounter} |->
                              IF id = bapPathIdCounter
                              THEN PathAlong(top, walk) ELSE @[id]]]
  /\ TakePathId

(* What AttachIabTotDonorWithIndex and AttachIabTotIabWithIndex share: the *)
(* checks, the registration at the donor, the callbacks of the child's     *)
(* BAP, schedulers and RRCs (all bound to the donor's application; the SGW *)
(* is told the same donor), and the MT sent to connect to the parent.      *)
Attach(n, p, d) ==
  \/ /\ MtCarrier[n] # DuCarrier[p]
     /\ Fail("carrier")
  \/ /\ MtCarrier[n] = DuCarrier[p]
     /\ ParentIndices(d, p) = {}
     /\ Fail("unknown_parent")
  \/ /\ MtCarrier[n] = DuCarrier[p]
     /\ RegisterNewIabAttachment(d, n, p)
     /\ servingDonor' = [servingDonor EXCEPT ![n] = d]
     /\ mtParent' = [mtParent EXCEPT ![n] = p]
     /\ UNCHANGED <<bapAddress, bapAddressCounter, failure>>

(* The scenario attaches installed devices, each node once: every program  *)
(* of mmwave/examples does so, and the code does not look.                 *)
MayAttach(n) ==
  /\ Running
  /\ Installed(n)
  /\ ~Attached(n)

AttachIabToDonor(n, d) ==
  /\ MayAttach(n)
  /\ Installed(d)
  /\ Attach(n, d, d)

AttachIabToIab(n, p, d) ==
  /\ MayAttach(n)
  /\ Installed(p)
  /\ Installed(d)
  /\ Attach(n, p, d)

TopologyNext ==
  \/ \E d \in Donors : InstallEnb(d)
  \/ \E n \in IabNodes : InstallIab(n)
  \/ \E n \in IabNodes, d \in Donors : AttachIabToDonor(n, d)
  \/ \E n, p \in IabNodes, d \in Donors : AttachIabToIab(n, p, d)

TopologySpec == Init /\ [][TopologyNext]_topologyVars
================================================================================
