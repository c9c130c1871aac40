# Verification of the ns3-IAB backhaul

TLA+ models, model-checking runs and machine-checked proofs for the integrated
access and backhaul (IAB) extension of ns-3 in this repository: the Backhaul
Adaptation Protocol (BAP), the topology and routing tables behind it, the RRC
connection and core network bearers it rides on, the RLC links it relays over, and
the scheduler that keeps the two radios of a node apart. Paths below are relative to
the repository's root.

## The system

The repository is ns-3 (upstream modules under `src/`) with an IAB extension in
`src/mmwave` and `src/lte`. A *donor* is a base station with a wired core
network; an *IAB node* has a DU, which serves other nodes and UEs, and an MT,
with which it connects to a donor or to another node's DU. The nodes of a donor
form a tree. Packets cross the tree through BAP entities, one per device.

| Component | State | Operations | Talks to |
|---|---|---|---|
| BAP header (`bap-header.cc`) | destination, path identity, D/C, reserved bits | setters, `Serialize`, `Deserialize` | BAP entity |
| BAP entity (`bap.cc`) | local address, map from next hop to RLC entity, inner PDCP | `DoTransmitBapSdu`, `TransmitBapSduViaNonPduInterface`, `DoTransmitBapPdu`, `DoReceiveBapPdu`, `DoReceiveBapSdu`, `AddPairRlcMap`, `SetInnerPdcp` | routing tables (callbacks), RLC, inner PDCP, S1-U, MT's RRC |
| Topology and routing (`epc-enb-application.cc`) | topology vector, map of paths | `SetDonor`, `RegisterNewIabAttachment`, `GetPathId`, `GetNexBapPathHop`, `GetIabNodeDepth`, `GetBapAddressFrom...`, `RecvFromS1uSocket` | BAP, schedulers, RRC, SGW |
| S1 application of a cell (`epc-enb-application.cc`) | RNTI of each IMSI, tunnels of each RNTI | `DoInitialUeMessage`, `DoInitialContextSetupRequest`, `DoUeContextRelease`, `SetupS1Bearer`, `DoReleaseIndication` | RRC, MME, SGW |
| Installation and attachment (`mmwave-helper.cc`) | counters of BAP addresses and path identities | `InstallSingle{Enb,Iab}Device`, `AttachIabTot{Donor,Iab}WithIndex` | all of the above |
| RRC of the UE or MT, its NAS and MAC (`lte-ue-rrc.cc`, `epc-ue-nas.cc`, `mmwave-ue-mac.cc`) | state, RNTI, T300, bearers | camping, random access, connection, reconfiguration, retry | RRC of the cell |
| RRC of the cell (`lte-enb-rrc.cc`) | a `UeManager` per RNTI, maps between IMSI and RNTI, four timers | random access, request, set-up, rejection, reconfiguration, time-outs, `RemoveUe` | RRC of the UE, S1 application, MAC |
| MME, SGW/PGW (`epc-mme-application.cc`, `epc-sgw-pgw-application.cc`) | bearers of each IMSI, TEIDs, traffic filters, donors of sessions | `AddBearer`, initial UE message, session creation, bearer release | S1-AP, S11, cells |
| RLC AM (`lte-rlc-am.cc`) | four buffers, eight state variables, four timers | SDU in, transmission opportunity, data and STATUS PDU in, time-outs | PDCP or BAP, MAC |
| Scheduler, MAC HARQ (`mmwave-flex-tti-mac-scheduler.cc`, `mmwave-enb-mac.cc`) | HARQ processes and timers, feedback lists, round robin, slots format | `DoSchedTriggerReq`, HARQ feedback, `SetSlotFormat`, UE release | PHY, RLC, topology (depth) |
| Inner PDCP (`inner-pdcp.cc`) | donor address | SDU and PDU reception | BAP, PDCP |
| PHY, channel, other upstream ns-3 | - | simulator core, IP stack, channel | - |

How they interact: the scenario installs the devices and attaches the nodes,
which fills the donors' tables by direct calls; then the simulator runs, one
event at a time. Each MT connects to its parent by RRC; the core network creates
a session; both ends of the new bearer register their RLC entity with their BAP.
From then on packets go up and down by RLC reception events, each of which asks
the donor's tables (through callbacks bound at attachment) for the next hop. The
schedulers ask the same tables for the depth of their cell, and take the symbols of
even or odd layers by it.

What is hard: the backhaul comes up link by link while traffic may already flow;
packets of many flows are relayed through shared queues; routes are looked up
again at every hop while the tables are shared by all; addresses and identities
come from counters that are wider than the header's fields; several donors share
the counters; the topology depends on the order of the attachments. RRC set-up is
guarded by timers at both ends which know nothing of each other, and contexts are
replaced while tunnels, messages and timers still name them. RLC numbers wrap
while windows, polls and time-outs run against each other. HARQ answers come slots
later, twice, or not at all. Several calls assume what earlier calls of others have
done. There is no crash recovery and nothing persists: a failed check ends the
program.

What makes each component correct:

- header: what a BAP entity reads is what the sender wrote, at every relay;
- tables: routes follow the attachments in both directions, in every order of
  attachment; trees do not mix; a later attachment never moves a route;
- BAP: an SDU leaves the backhaul where it should, through the right interface
  and tunnel, in order, once and in the end; no check of the code is run into;
- RRC: a UE has one context, whatever was lost or timed out; what one end counts
  as connected the other serves; no message finds a state a check does not expect;
  an attached UE is served in the end and no context stays half way;
- core network: tunnels lead to the live context of their UE, TEIDs are unique;
- RLC AM: an ordered channel without loss; what is acknowledged has been received;
- scheduler: no symbol twice and none of the neighbour layers; fair shares; HARQ
  processes that stop and wait and agree with the blocks they carry.

`PROJECT.json` lists the components with what is and is not modelled, and the
hazards at their source lines with the properties aimed at them.

## Modules

| Module | What it is |
|---|---|
| `BapHeader` | the header record, its three octets and both conversions, as pure operators |
| `BapHeaderRelay`, `MCBapHeaderRelay` | one header sent and relayed, with the theorems about it, and its instances |
| `IabTopology` | installation and attachment; the tables as variables |
| `BapRouting`, `MCBapRouting` | the look-ups over the tables, with the properties of routing; instances |
| `OrderedChannels` | the abstract specification of a backhaul: a channel per flow, on each of which accepted SDUs are delivered once and in order or, when `lossy`, vanish, until a failure ends everything |
| `BapForwarding`, `MCBapForwarding` | BAP entities, backhaul bearers and packets over the topology; composes `BapRouting` and `BapHeader` |
| `BapFlows` | the flows of `BapForwarding`, which implement `OrderedChannels` |
| `EpcBearers` | MME and SGW/PGW: bearer identities, sessions, TEIDs, filters |
| `RrcConnection`, `MCRrcConnection` | one cell and its UEs from cell search to the last bearer, with the S1 application; composes `EpcBearers` |
| `OrderedChannel` | the abstract specification of a bearer: accepted SDUs are delivered once and in order |
| `RlcAm`, `MCRlcAm` | one direction of an RLC AM bearer; implements `OrderedChannel` |
| `TddSlot` | the symbols of a slot: layers by depth, slots formats, control symbols; pure operators |
| `FlexTtiMacScheduler`, `MCFlexTtiMacScheduler` | the scheduler of a cell with the HARQ buffers of its MAC, over `TddSlot` |
| `BapHeaderLemmas` | what the conversions of the header do to its fields, for every header |
| `DataLemmas` | facts the proofs share: induction over the numbers stated with a set, least numbers, sequences, folds, sums over finite sets |
| `BapRoutingProofs`, `BapForwardingProofs`, `RrcConnectionProofs`, `RlcAmProofs`, `FlexTtiMacSchedulerProofs` | theorems about the modules they are named after (`RrcConnectionProofs` about `EpcBearers` too) |

### Correspondence

*BapHeader.* Masks and shifts become remainders and quotients; the 16-bit
members keep their width. The shift by nine of `bap-header.cc:135` is kept.

*IabTopology.* One action per call of the scenario: `InstallEnb`, `InstallIab`,
`AttachIabToDonor`, `AttachIabToIab`. Each contains everything the call does to
the tables: the address, the topology entry, the walk to the donor, the path and
the counters, the binding of the callbacks (`servingDonor`) and the parent the
MT is sent to (`mtParent`). A failed `NS_ABORT` or `NS_ASSERT` sets `failure` and
nothing happens afterwards. `NS_ABORT_MSG_IF` on a path identity that is taken is
absent from the action and is instead shown unreachable (`NextPathIdIsFree`).
Indices are those of the code plus one. Device, cell identity and IMSI are one
value: the code only compares them.

*BapRouting.* Loops of the code become folds and recursive functions. Where the
code aborts or leaves a list, the model has a precondition (`HasNextHop`,
`PathsBetween` not empty), which the properties show to hold for the callers.

*BapForwarding.* An action is one simulator event with all its calls.
`SetupDataRadioBearer`, `AddDataRadioBearerAtMt` and `CreateSession` are the
three events by which a link comes up, as far as the BAP can tell; the messages
between them are those of `RrcConnection`, abstracted to their order. RLC, MAC
and PHY are one FIFO queue per direction of a link (`air`), which is what `RlcAm`
is shown to implement; with RLC UM, the helper's default, any packet of it may
vanish. `Receive` runs the whole of `Bap::DoReceiveBapPdu`, relaying included. An
upper interface is the record of what was handed to it (`delivered`). A check of the
code that fails sets `crash` and stops the system. The donor address of a node
without a session is an uninitialised member, hence any value: the donor's, or
another. Traffic is of two kinds, that of PDU sessions (uplink only: the donor drops
downlink PDU traffic for UEs behind nodes) and that of none (both directions). The
`start` of a scenario says what applications wait for: nothing (`any_time`), the
node's own link, or the backhaul up to the donor. Nothing in the code makes them
wait; the scenario programs start them late enough, and both are checked.

*EpcBearers.* The MME and the SGW call each other through their S11 SAPs within one
event, so what one S1-AP message sets off is one operator. The list of a UE's bearers
and the counter that names them are kept apart, as in the code, with the decrement of
the counter when a bearer goes.

*RrcConnection.* `ue[i]` is the `LteUeRrc` of an IMSI with the RNTI of its MAC and the
counters of its NAS; `ueMap[r]` the `UeManager` of an RNTI. An action is one simulator
event: a message or a timer, with all the calls it makes, those across SAPs included
(`RemoveUe` takes the context, its messages, the entries of both identity maps and the
tunnels). Timers (`timers`) and messages carry the ticks left until they are due, and
`Elapse` lets a tick pass when nothing is due. Which of two events can come first
follows from the durations, and nowhere from the order in which actions are written; events
due at the same tick come in any order, and a radio message at any time up to its
delay. SRB0 is RLC TM: each message may be lost (`budget` bounds how many). SRB1 is RLC
AM, delayed but not lost. A random access response can be lost in the PHY. The RNTI of a
context is never used again (`AllocateTemporaryCellRnti` searches upward; `MaxRnti`
bounds it). `Reject` is the other branch of that handler, which an
attribute of the cell chooses (`AdmitRrcConnectionRequest`, `lte-enb-rrc.cc:3141`) and any
program may change. Checks that fail set `failure`.

*RlcAm.* The transmitting side of one `LteRlcAm` and the receiving side of its peer.
SDUs are cut and packed by the size of each opportunity; data fields are sequences of
pieces of SDUs, sizes are in units without headers. `buffer` says for each sequence number
whether the PDU is in the buffer of transmitted PDUs or in that of retransmissions. The MAC is
external: it reorders data PDUs, loses a bounded number of PDUs, and grants
opportunities of any size. A timer may expire whenever it runs. Assertions and
`NS_FATAL_ERROR`s are `failure`.

*TddSlot, FlexTtiMacScheduler.* `DoSchedTriggerReq` is one call; its loops are the
steps of the model (`phase`), so that the properties hold in the middle of it as well:
one step per HARQ feedback, per turn of a UE in the division of the symbols, per DCI.
The PHY is external: what a slot sends is answered `FeedbackDelay` slots later by ACK,
NACK or nothing, and the downlink's answers are doubled as `MmWaveSpectrumPhy` doubles
them. How many symbols a flow asks for (RLC queue, buffer report, MCS) is any choice from
the scenario's set.

## Runs

| Run | Instance | Checks |
|---|---|---|
| `bap_header` | 9 addresses at the octets' seams, path identities 1..255 and seams up to 1023, 3 relays | `TypeOK`, `OneOctetHeaderSurvives`, `DestinationSurvives` |
| `bap_header_path_id` | path identities up to 1023 | `HeaderSurvives`, violated |
| `bap_routing` | 2 donors, 4 nodes, 2 frequencies, addresses from 1019, identities from 255 | `TypeOK`, `RoutesFollowBackhaul`, `PlaceIsReported`, `SenderIsIdentified`, `OneDonorPerTree`, `NextPathIdIsFree`, `RoutesAreStable` |
| `bap_forwarding` | 1 donor, 3 nodes, 2 SDUs; RLC AM and applications that wait, RLC UM and applications that do not | `ForwardingTypeOK`, `NoMisdelivery`, `PacketsStayOnRoute`, `RlcMapNamesNeighbours`, `OnlyEarlyCrashes`, `FlowsAreOrderedChannels`, `EverySduArrives` |
| `rrc_connection` | 2 UEs, 4 RNTIs, 2 bearers each; a rejection, or a lost message and a lost response, or a release and a late activation | `RrcTypeOK`, `OnlyReleasesFail`, `OneContextPerImsi`, `IdentityMapsAgree`, `DownlinkReachesItsUe`, `UplinkHasTunnel`, `ConnectedMeansServed`, `TeidsAreUnique` |
| `rrc_served` | 1 UE, 5 RNTIs; two losses, a rejection and a lost response | `AttachedGetsServedOrWaits`, `NoContextStaysHalfWay` |
| `rlc_am` | window 2 of 8 numbers from 6, 2 SDUs, 2 losses, retransmissions whole or in segments | `RlcAmTypeOK`, `NoFailure`, `AcknowledgedWasReceived`, `ReceiverWindowIsOrdered`, `UnacknowledgedIsPursued`, `IsOrderedChannel` |
| `rlc_am_delivers` | window 4 of 8 numbers from 6, 3 SDUs of size 1, 1 loss, whole retransmissions, fair | `DeliveredUnlessStalled` |
| `rlc_am_segments` | 1 SDU, 2 losses, retransmissions in segments, fair | `EveryAcceptedSduIsDelivered`, violated |
| `mac_scheduler` | 10 symbols, 5 processes, timeout 4, up to 3 UEs | `SchedulerTypeOK`, `RvFollowsStatus`, `SymbolsAreExclusive`, `SharesAddUp`, `OnlyReleasesFail`, `UplinkStopsAndWaits` |
| `harq_stop_and_wait` | the same | `StopAndWait`, violated |
| `uplink_sharing` | three UEs in one slot | `UplinkIsSharedEvenly`, violated |

### Bounds

*Topology.* Four nodes give every shape of tree up to depth four, and every order of
attachment that builds it; two donors are enough for tables to be mixed up. With two
frequencies, of which only one node listens to the second, a node can be out of reach
of a parent while the others build every in-band tree. `FirstBapAddress` and
`FirstPathId` start the helper's counters where something happens: at 1019 the address
space ends during the run, and from 253 or 255 on path identities come to both sides of
255. Larger starts only rename addresses: nothing else looks at their values.

*Forwarding.* Three nodes give chains of three hops (a node that relays for a relay),
branches, and shared links; two SDUs are what a reordering, a swap or an interference
needs. The constraint `ScriptedInOrder` fixes the order of installation and attachment,
because the nodes are interchangeable and `bap_routing` covers every order. It cuts
behaviours only before the simulation starts, where no SDU has been handed over, so it
does not hide a liveness violation.

*RRC.* A tick is 15 ms, the default of `ConnectionRequestTimeoutDuration`. The other
timers are the defaults of the code, rounded up: T300 = 7 (100 ms), set-up timeout 10
(150 ms), rejected timeout 2 (30 ms), S1-AP delay at most 1. Four and five RNTIs allow
every attempt that the faults of a run can bring about; two bearers distinguish the
default from a dedicated one. `RrcAssumption` states that T300 is at least a tick: a
request is handled within a tick of being sent, so T300 cannot be over before.

*RLC.* Window 2 of modulus 8, from 6: the numbers wrap during the run, and a full window
is reached. Sizes 2 and 1 with opportunities of 1 and 2 give SDUs cut over PDUs, packed
PDUs, and segments. Two losses hit a PDU and its repetition, or a PDU and its STATUS.
`rlc_am_delivers` has a window that is never full, in which the last of three PDUs can be
lost while an earlier one waits to be repeated.

*Scheduler.* 10 symbols with 3 for the odd layers give blocks that fit exactly, that do
not fit any more after a retransmission, and shares that do not divide. Five processes
for a timeout of four slots is the first configuration that never runs out of processes
(`OnlyReleasesFail` says why); control symbols (`dl` 9, `ul` 7 in a period of 6 slots)
make `AdditionalCtrl` and `CtrlSlotIndex` both positive. The scenarios without end
(`Harq`) reach every combination of process states of one UE.

Deadlock is not checked: a scenario ends, a failed check ends the program, and bounded
inputs run out.

### Fairness

`ForwardingSpec` has weak fairness of `Receive` on each link and nothing else. The MAC
schedulers serve every bearer that reports data, slot after slot, and RLC AM repeats
what is lost, so a packet at the head of a queue is received in the end. Nothing is
assumed of the scenario, of the links coming up or of new traffic. `EverySduArrives` is
about RLC AM: with RLC UM it is false by design.

`RrcSpec` has weak fairness of `Progress`, the whole of what happens by itself: the
simulator executes the events it has, and time passes when none is due. It is not
assumed that a scenario attaches anybody, and losses are limited by `Faults`.

`RlcAm!Spec` has weak fairness of each timer, of the arrival of the oldest data PDU and of the
oldest STATUS PDU, of opportunities for an entity the scheduler knows to have data, and of
STATUS PDUs that are reported. The size of an opportunity is never promised, and losses
are bounded.

## Findings

Four runs check what the repository says of its program and find it violated:

- *`bap_header_path_id`.* `BapHeader::Serialize` shifts the upper bits of the path
  identity by nine instead of eight (`bap-header.cc:135`). From the 256th attachment
  on a header is not read as it was written, which `bap-header-test.cc` expects.
  The other theorems and runs of the backhaul hold for smaller identities.
- *`rlc_am_segments`.* The design document says that retransmissions are not
  segmented; `lte-rlc-am.cc:583` segments them. When the last segment is lost the
  receiver keeps an incomplete entry and drops every whole copy as a duplicate: the SDU,
  and with it the bearer, never gets through.
- *`harq_stop_and_wait`.* The PHY of a UE reports each downlink block twice
  (`mmwave-spectrum-phy.cc:799` and `835`), so one NACK leads to two retransmissions. The
  uplink is reported once, and does stop and wait (`UplinkStopsAndWaits`).
- *`uplink_sharing`.* Two loops of the scheduler share an iterator
  (`mmwave-flex-tti-mac-scheduler.cc:1505`), so an uplink flow may get no symbol in a
  slot that has symbols left, although they are to be divided evenly.

Other disagreements were met with other values of the constants. The runs stay clear of
them, and the definitions named here are in the modules for whoever wants to see them:

| Instance | Violates | What happens |
|---|---|---|
| `RrcConnection`, `S1Delay = 4` | `IdentitiesAreAllocatedAlike` | a session that is created twice gets further identities from the MME, while the RRC of the new context counts from the first |
| `RadioDelay = 11` | `ConnectedMeansServed` | a UE connects to a context whose set-up timeout has passed |
| `MaxBearers = 11`, no delays | `BearersFitLogicalChannels` | the MME allows eleven bearers, and the eleventh gets a logical channel of signalling (`lte-enb-rrc.cc:2579`) |
| `Faults <- OneRelease` | `BearersAreKnown` | a bearer is released between its recording and its start, and the assertion of `lte-enb-rrc.cc:650` fails; `OnlyReleasesFail` says that nothing else fails |
| the same, `MaxBearers = 1` | `DefaultBearerIsKept` | `DeActivateDedicatedEpsBearer` of the helper refuses bearer 1 only (`lte-helper.cc:1309`), while the MME's identities start at eleven times the IMSI (`epc-mme-application.cc:124`), so no default bearer is kept |
| `Faults <- LostResponseOnly` | `AttachedGetsServed` | no timer guards the random access (T300 starts later, `lte-ue-rrc.cc:771`), so a UE whose response is dropped waits for ever; `AttachedGetsServedOrWaits` says that this is the only way |
| `BapForwarding`, applications that wait for their own link only | `crash = "none"` | a relay has no RLC entity for the next hop yet (`bap.cc:216`); `OnlyEarlyCrashes` says that only traffic before the backhaul is up ends there |
| `RlcAm`, `StatusInOrder = {FALSE}` | `AcknowledgedWasReceived` | a STATUS PDU that is overtaken by a later one is taken for one far ahead (`lte-rlc-am.cc:2164`) |
| `RlcAm`, `Modulus = 16`, the rest as in `rlc_am_delivers` | `EveryAcceptedSduIsDelivered` | a poll timer expires while a PDU waits to be repeated, so nothing more is taken for repetition (`lte-rlc-am.cc:2897`); a late copy of it is acknowledged first, and the last PDU, which was lost, is left with no timer and nothing to send: the bearer stands still until a new SDU comes, although `lte-testing.rst:1029` expects all of them. TS 36.322 has the same gap; `DeliveredUnlessStalled` says that this is the only way |
| `FlexTtiMacScheduler`, `NumHarqProcess = HarqTimeout` | a free process always | the defaults, 20 and 20, run out of processes one slot before the first timeout (`mmwave-flex-tti-mac-scheduler.cc:1619`) |

## Proofs

All proofs are checked by TLAPS (tlapm 1.4.5, with Z3, Zenon and LS4). None assumes more
than the `ASSUME`s of the modules, which say of the constants what the code's types and
attributes say; what a theorem supposes beyond that stands in its statement and is named below.

**The header** (`BapHeaderLemmas`, `BapHeaderRelay`), for any addresses and path
identities of ten bits and any number of relays: `RelayTypeCorrect`,
`DestinationAlwaysSurvives`, and `HeaderAlwaysSurvives`, for path identities below 256
only. The arithmetic of the fields shows that `Deserialize(Serialize(h))` keeps
destination, D/C and reserved bits, and small path identities. The inductive invariant
says that what the octets on the wire decode to agrees with the header that was sent, so
that a relay, which encodes what it decoded, is the round trip again.

**The tables** (`BapRoutingProofs`), for any donors, nodes, frequencies and first values of
the counters, and finitely many nodes: `RoutingTypeCorrect`, `PathIdsAlwaysFree`,
`RoutesNeverMove`, `TreesNeverMix`, `SenderAlwaysIdentified`, `RoutesAlwaysFollowBackhaul`,
`PlacesAlwaysReported`. None is inductive alone. `RoutingInv` adds that a
donor is the first entry of its own vector and that the vector's devices are installed (so
that a new path ends in real addresses, at the donor), that every path identity is below the
counter, and that every attached node has a route. `Grows` collects what no step undoes. A
route then stays put because the look-up takes the least identity and a new one is larger
(`FirstOfStable`). `TreeInv` adds that addresses differ between devices (`AddressesDiffer`),
that each path joins a donor and a node of its vector (`PathsJoin`), and that a node that is
attached is in the vector of its donor and in no other; what `RegisterNewIabAttachment` does
to all of them is one lemma, `RegistrationAdds`, for both attachments. `PlacesInv` adds where
things are: a donor's vector names no device twice (`NodesOnce`), each entry stands behind the
entry of the device its MT was sent to (`EntriesHang`), and every path is made of the
addresses along such a climb to the donor (`PathsClimb`). A climb goes to ever earlier
entries (`WalksDescend`), so it is the chain of parents without a repetition
(`WalkIsChain`), which is also what `Backhaul` computes from the attachments alone
(`BackhaulIsChain`); `HopsAlong`, `DepthIs` and `ParentIs` show that the loops over the
paths and the vector compute it too. Each of these is an induction over the steps of a loop,
made with `SetInduction` on the set of the step numbers for which the claim holds.

**Forwarding** (`BapForwardingProofs`), for any trees, any number of SDUs, losses, and
applications that wait or do not: `ForwardingTypeCorrect`, `LinksNameNeighbours`, and, of the
form `ForwardingSafeSpec => [](OneOctetPaths => ...)`, `NothingIsMisdelivered`,
`PacketsAlwaysOnRoute` and `OnlyEarlyTrafficCrashes`; and
`ForwardingSafeSpec /\ []OneOctetPaths => FlowsAreOrderedChannels`. The hypothesis
`OneOctetPaths` says that no path identity above 255 was given out: beyond, the
shift of `bap-header.cc:135` sends packets elsewhere. `ForwardingInv` says of every packet on
every link what makes it deliverable (`GoodPacket`: its header names the destination and the kind of its SDU and, going up, the
path of its flow), and of every
delivery that it was the right one (`GoodDelivery`). A relay preserves the first
(`RelayedIsGood`, by the lemmas on the header), a reception turns the first into the second.
That topology and routes stand still once traffic flows is part of the invariant: before the
run the links are quiet, and during it every node is attached. `RoutesInv` adds where a packet
is, on a link of the route of its flow (`RoutedPacket`), that a parent has a link to a node
only when the node has a session (`SessionsFirst`), and that a donor with a link has an inner
PDCP (`DonorsHavePdcp`). By `RouteLeads` each device of a route looks up the next one, and its
RLC map names that neighbour or has no entry (`TransmitOnRoute`); with the backhaul up it has
one.

The refinement (`FlowsAlwaysOrderedChannels`) maps a channel to the numbers of the flow's SDUs
that are in some queue of the backhaul, wherever they are on the route: a relay is a stutter, the first
hop accepts, the last one delivers. That the SDU delivered is the oldest of its channel needs
`InOrder`: in each queue the numbers of a flow rise from the head, and along its route they
fall from hop to hop. With `RoutedPacket` every packet of a flow is at some hop of its route,
and a route takes a link once (`RouteIsSimple`), so a packet that is moved from the head of one hop to
the end of the next keeps both (`LeavesInOrder`, `JoinsInOrder`), and one that is sent has
the greatest number. It is also why nothing is delivered twice. `RoutesInv` is used for
where a packet goes (`TransmitGoesOn`, `ReceiveGoesOn`); a check that fails is the step `Fail`.

**Connections** (`RrcConnectionProofs`), for any UEs, durations, losses,
rejections, activations and releases: `ContextsAreUnique`, `IdentityMapsAlwaysAgree`,
`DownlinkAlwaysReachesItsUe`, `UplinkAlwaysHasTunnel`, `TeidsStayUnique`. `RrcInv` ties
together what the code keeps in many places: timers belong to contexts in the state they
guard (`TimersAgree`), an RNTI in a message or a timer is its UE's (`HandlesAreOwn`), the UE
and its context (`UesAgree`, `ManagersAgree`, `Srb0Agrees`), the RNTI the S1 application has
for an IMSI (`EpcRntiAgrees`), and bearers and tunnels (`DrbsHaveTunnels`). The heart is
`StaleContexts`: while a request is under way under a new RNTI, every context of its IMSI is
in the set-up phase and is the one the handler removes, so that its removal takes nothing
anyone uses. Actions
that leave a UE, the core network or the admitted contexts alone are dealt with together
(`QuietUeKeeps`, `LinksKeep`, `AdmittedStepKeeps`, `GiveUpKeeps`).

**Connections in time** (second half of `RrcConnectionProofs`), for any UEs and faults: `RrcTypesHold`,
`ConnectedIsServed`, `OnlyReleasesEverFail`, from `DurationInvariantHolds`. `RrcInv` says
nothing of when a timer expires; `DurationInv` does, and each of its parts names the one
relation of the durations that it needs:

| Hypothesis | Why the code meets it | What it is for | Without it |
|---|---|---|---|
| `InTimeForRequest`: `RequestTimeout > 0` | the default is 15 ms, one tick, and a request takes less than a tick | a request finds its UeManager (`RequestsInTime`) | `no_ue_manager` |
| `InTimeForS1`: both ways of the S1 link take less than `T300` and less than `SetupTimeout` | by default 15 ms each way (`MmWavePointToPointEpcHelper`), against 100 ms and 150 ms | the answer of the MME finds the context that asked for it, without bearers (`ContextSetupInTime`), so both count them alike, and what is released is what the UE has (`ReleasesInTime`) | `bearer_id_mismatch` if `T300` is too short, `no_ue_manager` if `SetupTimeout` is |
| `InTimeForSetup`: twice `RadioDelay` is less than `SetupTimeout` | the default of 150 ms | a context does not end between the set-up and its completion (`SetupInTime`) | `ConnectedMeansServed` is violated |
| `MaxBearers < MaxBearersOfUe` | the scenarios activate a few bearers for a UE; nothing in the code refuses the eleventh | every bearer has a logical channel of its own (`LcidsFit`) | `reserved_lcid` |

`RrcTypesHold` needs none of them, `ConnectedIsServed` the third, `OnlyReleasesEverFail` the
other three. That none is too strong TLC shows: with any one of them dropped it finds what
the last column names. `ManagerPhases` says what may be on SRB1 in each state of a
UeManager, `CellTimersAgree` which timer may run in it, and `UePhases` where in its random
access a UE may be. The step that decides most is `AdmitInTime`: the context that is admitted
is new, so it has no bearer, while the contexts it replaces await nothing, because their UE
has given up the RNTI that they were admitted for, and that it only does when T300 expires,
which is after the MME's answer.

**RLC AM** (`RlcAmProofs`), for any modulus and window, any SDUs, grants and losses, and
retransmissions whole or in segments: `RlcAmInvariant`, `RlcAmTypes`, `NothingFails`,
`AcknowledgedThenReceived`, `ReceiverWindowOrder`, `UnacknowledgedPursued`, and
`BearerIsOrderedChannel`, which shows every step of the bearer to be a step of
`OrderedChannel` or a stutter. They have two hypotheses, stated in the theorems: STATUS PDUs
arrive in the order they were sent (`statusInOrder`; otherwise the code is wrong, see the
table above), and no copy of a PDU outlives its sequence number in the MAC (`NoStaleCopies`,
which TS 36.322 leaves to the lower layers and TLC finds to hold in the instance of
`rlc_am`). All is said in distances on the circle of sequence numbers, from VT(A) or VR(R), which
move with the windows (`FromMoves`). The parts of the invariant say: the state
variables of both ends follow one another (`WindowsInv`); the receiver holds nothing outside
its window, and the sender still has what the receiver has not (`EntriesInv`, `BuffersInv`);
what a STATUS PDU says was true when it was sent, and stays true of what it acknowledges
(`StatusInv`); while a PDU is not acknowledged a timer runs, or a poll is due, or something
that will poll waits to be sent (`TimersInv`, `PursuitInv`); and there is a division of the
stream of SDUs such that every copy of a PDU, wherever it is, is the stretch of its number
(`StreamInv`). None is inductive without the others: with a wrong window an old report
would name a new PDU. What reassembly makes of a list of pieces is a fold over it,
and proved by following its steps (`FoldLeftSteps`, `StepsAgree`).

**The scheduler** (`FlexTtiMacSchedulerProofs`), for any UEs, traffic, slots format, layer,
answers, and UEs that leave: `SchedulerInvariantHolds`, `RvAlwaysFollowsStatus`,
`ProcessAlwaysFree` (which assumes `NumHarqProcess > HarqTimeout`),
`UplinkAlwaysStopsAndWaits`, `SlotInvariantHolds`, `SymbolsAlwaysExclusive`,
`OnlyDeparturesFail`, `SharesStayFair`, `SharesAlwaysAddUp`, and `SchedulerIsTyped`. The last
assumes of a cell that does not share the slot between DU and MT what `SetSlotFormat`
asserts of those that do, that the control symbols of the slots format leave a slot something
(`FormatsLeaveSymbols`): otherwise `m_resvDl` is set to a negative number. Nothing else needs
that, because the next line of the code takes the greater of the number and zero.

*The processes.* The timers of the busy
processes of a UE and direction differ, because two never start in one slot; so there are at
most as many of them as a timer has values, and with one process more, one is free
(`SomeProcessIsFree`, a pigeonhole). That two never start in one slot is what the code's walk
over the UEs shows: `Pending` says which UEs have not had their turn in this slot, and the
round from the first UE back to it visits nobody twice (`NextUeGoesRound`,
`AssignmentPasses`).

*Stop and wait.* What a property counts, the transmissions in the air, is not inductive: an
answer may wait in three lists, and a new transmission follows from there. `UplinkOnce` says
of each uplink process that, until a timer overtakes an answer, it has one entry, which is in
one place (the slot, the air, what the MAC received, the list of the scheduler or what it
deferred), of its present block, and none when it is idle. `Queues` says which of these
places are empty in which phase. The downlink has two copies of each answer, and so no
such invariant (`harq_stop_and_wait`).

*The symbols.* `SymbolsApart` says that the two directions have parts of the slot to
themselves (`PartsApart`) and what was given is in its part, below what is given next
(`InItsPart`), so that a TTI that is added meets no other. That new blocks fit into their
part is about sums: `GrantsFit` bounds the symbols of the UEs that still await a block
(`Owed`) by what is left of the part, which each block reduces by the same number.
`LoopAgrees` shows that the loops of the division leave it so: what was given and what
remains add up to what there was. `SumFunction` is a recursion over the subsets of
its domain; `DataLemmas` shows that any member may be taken off first (`SumFunctionSums`,
by `SubsetInduction` on the set of subsets for which it holds), and from there what a
change of one value (`SumUpdate`), or a smaller function (`SumMonotone`), does to the sum.

*The shares.* That a flow gets its even share is decided in the first pass over the UEs, in
which what each flow may get (`slot.loop.each`) only grows. `FirstPass` says that who had its
turn has its share, who had not was given nothing, and that what each may get, times the
number of flows that wait for their turn, is at most what remains (`ShareFits`); what a
served flow leaves of its share is divided among the others, and an integer division
rounds down, which keeps this (`LoopStands`). `slot.loop.flows` is only a bound on the flows that
are not done, which the code lowers when it serves one (`SomeFlowIsLeft`); that is
also why no division is by zero. All this is for the downlink, and for the uplink when there is no downlink
data, since then the loop starts where its pass ends; otherwise it does not
(`uplink_sharing`).

Every invariant, action property and refinement of the passing runs is stated by a theorem;
liveness under fairness is out of the prover's reach and is only model-checked.

## Not modelled

In the modelled components:

- a second attachment of a node: the code does not refuse it, and no program of the
  repository does it;
- of the connection, `EpcUeNas::Disconnect`, which nothing calls, handover, dual connectivity, measurements, carrier aggregation;
- of RLC AM, the buffers for a handover, the queue discipline (AQM) of the SDU buffer, and
  the branches of the reassembly for PDUs that were given up: AM gives none up;
- of the scheduler, fixed TTIs, `HarqEnabled = false`, the choice of an MCS and the size of a
  block, and the estimate of queues in `UpdateDlRlcBufferInfo`. The layers of `FDM` have no
  assertion on control symbols, and `m_indexDlSlot` counts on after its use;
- RLC UM, RLC TM, GTP, UDP and IP headers are links that lose or do not.

Not at all:

- the PHY, channels, beamforming, interference and error models: numerical, with real
  values and random draws, which a model checker cannot explore and this project could only
  replace by a free choice, as it does;
- X2 and handover, PDCP and dual connectivity: IAB nodes are not handed over
  (`epc-sgw-pgw-application.cc` says so) and the IAB scenarios do not use dual connectivity;
- traces and statistics, configuration, scenarios, bindings and the build;
- everything of ns-3 that is not `src/mmwave` or `src/lte`, and is unchanged here: nine
  tenths of the repository. The lines the modules map are a small share of the whole tree for
  this reason; they are the control of the backhaul, not its environment.

Where documents and code differ without a property to show it: `lte-design.rst` gives the
set-up timeout as 100 ms, the code as 150 ms.

## Plan

Done: the backhaul from header to flows; the connection of UEs and nodes with their core
network; RLC AM; the scheduler with its HARQ; inductive proofs of every
invariant that the runs check, but for those that are violated.

Left, in this order:

1. the composition of `RrcConnection` with `BapForwarding`: a node whose connection is
   retried while its parent already relays;
2. X2 and dual connectivity, with the path switch of the MME and SGW;
3. the sibling schedulers (round robin is the one modelled), and `UpdateDlRlcBufferInfo`.
