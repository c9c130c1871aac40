------------------------------- MODULE BapRouting ------------------------------
(***************************************************************************)
(* What the backhaul asks the donor's EpcEnbApplication for: the path and  *)
(* the next hop of a packet, the depth of a node (the schedulers divide    *)
(* the slot by it), a node's parent, and the device behind an address.     *)
(* A lookup that would abort, loop or run off a list has a precondition    *)
(* next to it; the properties say that the callers stay inside.            *)
(***************************************************************************)
EXTENDS IabTopology, FiniteSets, SequencesExt

(* A program installs a finite number of nodes, so that every walk up the  *)
(* tree ends.                                                              *)
ASSUME NodesAreFinite == IsFiniteSet(IabNodes)

(* The entry of a node in the topology vector of a donor, and the sets the *)
(* scans over the vector collect.                                          *)
Entries(d) == DOMAIN iabTopology[d]
EntriesOf(d, dev) == {i \in Entries(d) : iabTopology[d][i].dev = dev}
Registered(d, dev) == EntriesOf(d, dev) # {}

FirstOf(indices) == CHOOSE i \in indices : \A j \in indices : i <= j

(* Mutant: an || between the two ends.                                     *)
PathsWithEitherEnd(d, local, dest) ==
  {id \in DOMAIN bapPaths[d] :
     LET path == bapPaths[d][id] IN
       \/ path[1] = local \/ path[Len(path)] = dest
       \/ path[1] = dest \/ path[Len(path)] = local}

(* GetPathId scans the path map in the order of the identities, and takes  *)
(* the first path that joins the two addresses in either direction.        *)
PathsBetween(d, local, dest) ==
  {id \in DOMAIN bapPaths[d] :
     LET path == bapPaths[d][id] IN
       \/ path[1] = local /\ path[Len(path)] = dest
       \/ path[1] = dest /\ path[Len(path)] = local}

GetPathId(d, local, dest) == FirstOf(PathsBetween(d, local, dest))

(* GetNexBapPathHop and its three aborts.  Where the local address is not  *)
(* on the path the code steps past the end of a list.                      *)
HasNextHop(d, local, dest, id) ==
  /\ id \in DOMAIN bapPaths[d]
  /\ local # dest
  /\ LET path == bapPaths[d][id] IN
       /\ dest \in {path[1], path[Len(path)]}
       /\ \E i \in DOMAIN path : path[i] = local

GetNextBapPathHop(d, local, dest, id) ==
  LET path == bapPaths[d][id]
      here == FirstOf({i \in DOMAIN path : path[i] = local})
  IN  IF path[Len(path)] = dest THEN path[here + 1] ELSE path[here - 1]

(* GetIabNodeDepth.  One pass of its for loop goes over the whole vector:  *)
(* each entry of the cell it looks for counts one hop, and the cell it     *)
(* looks for becomes the parent's.                                         *)
DepthPass(top, seen) ==
  FoldLeft(LAMBDA s, entry :
             IF entry.dev # s.cell THEN s
             ELSE [cell  |-> IF entry.parent = 1 THEN s.cell
                             ELSE top[entry.parent].dev,
                   atDonor |-> entry.parent = 1,
                   depth |-> s.depth + 1],
           seen, top)

(* Mutant: without the while loop.                                         *)
DepthOfOnePass(d, cell) ==
  IF cell = d THEN 0
  ELSE DepthPass(iabTopology[d], [cell |-> cell, atDonor |-> FALSE, depth |-> 0]).depth

(* The while loop: passes until the donor is reached.  For a cell that has *)
(* no entry in the vector the code never leaves it.                        *)
GetIabNodeDepth(d, cell) ==
  LET top == iabTopology[d]
      afterPasses[k \in 0..Len(top)] ==
        IF k = 0 THEN [cell |-> cell, atDonor |-> cell = d, depth |-> 0]
        ELSE LET seen == afterPasses[k - 1]
             IN  IF seen.atDonor THEN seen ELSE DepthPass(top, seen)
  IN  afterPasses[Len(top)].depth

(* GetParentInfoFromChildCellId: the donor, unless the child's last entry  *)
(* names another parent.                                                   *)
GetParentOfChild(d, child) ==
  FoldLeft(LAMBDA p, entry :
             IF entry.dev = child /\ entry.parent # 1
             THEN iabTopology[d][entry.parent].dev ELSE p,
           d, iabTopology[d])

(* GetBapAddressFromImsi and GetBapAddressFromCellId, which scan the same  *)
(* vector; the first has no answer for the donor and for a UE.             *)
HasBapAddress(d, imsi) == imsi \in IabNodes /\ Registered(d, imsi)
GetBapAddress(d, dev) == bapAddress[iabTopology[d][FirstOf(EntriesOf(d, dev))].dev]

(* Mutant: the neighbour on the path, not its other end.                   *)
GetImsiOfNeighbour(d, endpoint, id) ==
  LET path  == bapPaths[d][id]
      other == IF path[1] = endpoint THEN path[2] ELSE path[Len(path) - 1]
  IN  iabTopology[d][FirstOf({i \in Entries(d) :
        /\ iabTopology[d][i].dev \in IabNodes
        /\ bapAddress[iabTopology[d][i].dev] = other})].dev

(* GetIabNodeImsiFromPathIdAndOtherEndpoint: the first registered node     *)
(* with the address at the other end of the path.                          *)
GetImsiOfOtherEndpoint(d, endpoint, id) ==
  LET path  == bapPaths[d][id]
      other == IF path[1] = endpoint THEN path[Len(path)] ELSE path[1]
  IN  iabTopology[d][FirstOf({i \in Entries(d) :
        /\ iabTopology[d][i].dev \in IabNodes
        /\ bapAddress[iabTopology[d][i].dev] = other})].dev

--------------------------------------------------------------------------------
(***************************************************************************)
(* Properties.                                                             *)
(***************************************************************************)

(* The addresses GetNexBapPathHop sends a packet through, one hop after    *)
(* the other; a bounded number of hops is enough, for a tree has no longer *)
(* path than it has nodes.                                                 *)
Hops(d, local, dest, id) ==
  LET bound == Len(iabTopology[d])
      at[k \in 0..bound] ==
        IF k = 0 THEN <<local>>
        ELSE LET passed == at[k - 1]
                 here == Last(passed)
             IN  IF here = dest \/ ~HasNextHop(d, here, dest, id) THEN passed
                 ELSE Append(passed, GetNextBapPathHop(d, here, dest, id))
  IN  at[bound]

(* The devices a node's MT hangs from, up to the donor, as the attachments *)
(* were made: this does not look at the topology vectors.                  *)
Backhaul(n) ==
  LET bound == Cardinality(IabNodes)
      chain[k \in 0..bound] ==
        IF k = 0 THEN <<n>>
        ELSE LET lower == chain[k - 1]
             IN  IF Last(lower) \in Donors THEN lower
                 ELSE Append(lower, mtParent[Last(lower)])
  IN  chain[bound]

AddressesOf(devices) == [i \in DOMAIN devices |-> bapAddress[devices[i]]]

(* Every attached node and its donor reach each other: the path looked up  *)
(* exists, and following the next hop it gives at each device leads over   *)
(* the backhaul the attachments made, hop by hop, in both directions.      *)
(* (GetPathId, GetNexBapPathHop, RegisterNewIabAttachment.)                *)
RoutesFollowBackhaul ==
  \A n \in IabNodes : Attached(n) =>
    LET d  == servingDonor[n]
        up == bapAddress[d]
        id == GetPathId(d, bapAddress[n], up)
    IN  /\ PathsBetween(d, bapAddress[n], up) # {}
        /\ Hops(d, bapAddress[n], up, id) = AddressesOf(Backhaul(n))
        /\ Hops(d, up, bapAddress[n], id) = Reverse(AddressesOf(Backhaul(n)))

(* What the donor reports of a node's place in the tree: the depth, by     *)
(* which the schedulers divide the slot, is the number of backhaul hops to *)
(* the donor, and the parent is the one the MT was sent to, whatever the   *)
(* order in which the nodes were attached.                                 *)
(* (GetIabNodeDepth, GetParentInfoFromChildCellId.)                        *)
PlaceIsReported ==
  \A n \in IabNodes : Attached(n) =>
    /\ GetIabNodeDepth(servingDonor[n], n) = Len(Backhaul(n)) - 1
    /\ GetParentOfChild(servingDonor[n], n) = mtParent[n]

(* A tree has one donor: no donor but the serving one knows a node, and a  *)
(* node's parent is served by the donor that serves the node.              *)
OneDonorPerTree ==
  \A n \in IabNodes :
    /\ \A d \in Donors : Registered(d, n) <=> servingDonor[n] = d
    /\ Attached(n) =>
         LET p == mtParent[n]
         IN  IF p \in Donors THEN p = servingDonor[n]
             ELSE servingDonor[p] = servingDonor[n]

(* The identity the next attachment will get is in no donor's path map:    *)
(* the abort "The BAT PATH IDs must be unique" does not happen, although   *)
(* each donor checks its own map only.                                     *)
NextPathIdIsFree ==
  \A d \in Donors : bapPathIdCounter \notin DOMAIN bapPaths[d]

(* The donor tells from the path identity of a packet which node sent it   *)
(* (the TEID of the packet is made from that node's IMSI).                 *)
SenderIsIdentified ==
  \A n \in IabNodes : Attached(n) =>
    LET d == servingDonor[n] IN
      GetImsiOfOtherEndpoint(d, bapAddress[d],
                             GetPathId(d, bapAddress[n], bapAddress[d])) = n

(* Attachments never move a route that is in use: packets under way carry  *)
(* the path identity and look the path up at every hop.                    *)
RoutesAreStable ==
  [][\A n \in IabNodes : Attached(n) =>
       LET d  == servingDonor[n]
           id == GetPathId(d, bapAddress[n], bapAddress[d])
       IN  /\ bapPaths'[d][id] = bapPaths[d][id]
           /\ GetPathId(d, bapAddress[n], bapAddress[d])' = id]_topologyVars
================================================================================
