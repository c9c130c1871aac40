--------------------------- MODULE BapRoutingProofs ----------------------------
(***************************************************************************)
(* Proofs about the routing tables, for any donors, nodes, frequencies and *)
(* first values of the two counters.                                       *)
(***************************************************************************)
EXTENDS BapRouting, DataLemmas

(* The parts of the inductive invariant.                                   *)

(* A device that is in a topology vector has been installed.               *)
EntriesInstalled ==
  \A d \in Donors : \A i \in Entries(d) : Installed(iabTopology[d][i].dev)

(* The first entry of a donor's vector is the donor.                       *)
DonorIsFirst ==
  \A d \in Donors :
    IF Installed(d) THEN 1 \in Entries(d) /\ iabTopology[d][1].dev = d
    ELSE iabTopology[d] = <<>>

(* Path identities are given out in increasing order.                      *)
IdsBelowCounter ==
  \A d \in Donors : \A id \in DOMAIN bapPaths[d] : id < bapPathIdCounter

(* A path of the donor that joins the node and the donor.                  *)
HasRoute(d, n) == PathsBetween(d, bapAddress[n], bapAddress[d]) # {}

AttachedHaveRoute ==
  \A n \in IabNodes : Attached(n) =>
    /\ servingDonor[n] \in Donors
    /\ Installed(n)
    /\ Installed(servingDonor[n])
    /\ HasRoute(servingDonor[n], n)

RoutingInv ==
  /\ TypeOK
  /\ bapAddressCounter # 0
  /\ EntriesInstalled
  /\ DonorIsFirst
  /\ IdsBelowCounter
  /\ AttachedHaveRoute

--------------------------------------------------------------------------------
(* The least element that FirstOf picks exists and is the only one.        *)
LEMMA FirstOfIsLeast ==
  ASSUME NEW S, S \subseteq Nat, S # {}
  PROVE  FirstOf(S) \in S /\ \A j \in S : FirstOf(S) <= j
BY LeastNat DEF FirstOf

(* Larger elements do not change it.                                       *)
LEMMA FirstOfStable ==
  ASSUME NEW S, S \subseteq Nat, S # {},
         NEW T, T \subseteq Nat, S \subseteq T,
         \A t \in T \ S : \A s \in S : s < t
  PROVE  FirstOf(T) = FirstOf(S)
<1>1. FirstOf(S) \in S /\ \A j \in S : FirstOf(S) <= j
  BY FirstOfIsLeast
<1>2. FirstOf(T) \in T /\ \A j \in T : FirstOf(T) <= j
  BY FirstOfIsLeast
<1>3. FirstOf(T) <= FirstOf(S)
  BY <1>1, <1>2
<1>4. FirstOf(S) \in Nat /\ FirstOf(T) \in Nat
  BY <1>1, <1>2
<1>5. FirstOf(T) \in S
  BY <1>1, <1>2, <1>3, <1>4
<1> QED
  BY <1>1, <1>3, <1>4, <1>5
--------------------------------------------------------------------------------
(* A registration appends the node to the vector and adds one path, under  *)
(* the identity of the counter, that leads from the node to the donor.     *)
Registers(d, n, index, path) ==
  /\ iabTopology' = [iabTopology EXCEPT
                       ![d] = Append(iabTopology[d], [dev |-> n, parent |-> index])]
  /\ bapPaths' = [bapPaths EXCEPT
       ![d] = [id \in DOMAIN bapPaths[d] \cup {bapPathIdCounter} |->
                 IF id = bapPathIdCounter THEN path ELSE bapPaths[d][id]]]
  /\ bapPathIdCounter' = bapPathIdCounter + 1
  /\ Len(path) >= 2
  /\ path[1] = bapAddress[n]
  /\ path[Len(path)] = bapAddress[d]

LEMMA TopologyEntries ==
  ASSUME TypeOK, NEW d \in Donors
  PROVE  /\ iabTopology[d] \in Seq(Entry)
         /\ Entries(d) = 1..Len(iabTopology[d])
         /\ Len(iabTopology[d]) \in Nat
         /\ \A i \in Entries(d) : iabTopology[d][i] \in Entry
<1>1. iabTopology[d] \in Seq(Entry)
  BY DEF TypeOK
<1> QED
  BY <1>1 DEF Entries

(* A function on 1..n is a sequence of length n.                           *)
LEMMA FunctionIsSequence ==
  ASSUME NEW S, NEW n \in Nat, NEW f \in [1..n -> S]
  PROVE  f \in Seq(S)
OBVIOUS

LEMMA LengthOfFunction ==
  ASSUME NEW S, NEW n \in Nat, NEW f \in [1..n -> S]
  PROVE  Len(f) = n
OBVIOUS

LEMMA RegistrationFacts ==
  ASSUME RoutingInv, NEW d \in Donors, NEW n \in IabNodes, NEW p \in Device,
         Installed(n), Installed(d), RegisterNewIabAttachment(d, n, p)
  PROVE  \E index \in Nat \ {0} : \E path \in Seq(1..MaxBapAddress) :
           Registers(d, n, index, path)
<1>1. TypeOK /\ EntriesInstalled /\ DonorIsFirst
  BY DEF RoutingInv
<1>2. PICK index \in ParentIndices(d, p) :
        LET top == Append(iabTopology[d], [dev |-> n, parent |-> index]) IN
          /\ iabTopology' = [iabTopology EXCEPT ![d] = top]
          /\ \E walk \in Walks(top) :
               /\ IsWalkToDonor(top, walk)
               /\ bapPaths' = [bapPaths EXCEPT
                    ![d] = [id \in DOMAIN bapPaths[d] \cup {bapPathIdCounter} |->
                              IF id = bapPathIdCounter
                              THEN PathAlong(top, walk) ELSE bapPaths[d][id]]]
  BY DEF RegisterNewIabAttachment
<1> DEFINE old == iabTopology[d]
           new == [dev |-> n, parent |-> index]
           top == Append(old, new)
<1>3. index \in Nat \ {0}
  BY <1>1, TopologyEntries DEF ParentIndices
<1>4. old \in Seq(Entry) /\ new \in Entry
  BY <1>1, <1>3, TopologyEntries DEF Entry, Device
<1>5. /\ top \in Seq(Entry)
      /\ Len(top) = Len(old) + 1
      /\ top[Len(top)] = new
      /\ \A i \in 1..Len(old) : top[i] = old[i]
  BY <1>4
<1>6. 1 \in 1..Len(old) /\ old[1].dev = d
  BY <1>1, TopologyEntries DEF DonorIsFirst
<1> HIDE DEF top
<1>7. PICK walk \in Walks(top) :
        /\ IsWalkToDonor(top, walk)
        /\ bapPaths' = [bapPaths EXCEPT
             ![d] = [id \in DOMAIN bapPaths[d] \cup {bapPathIdCounter} |->
                       IF id = bapPathIdCounter
                       THEN PathAlong(top, walk) ELSE bapPaths[d][id]]]
  BY <1>2 DEF top
<1>8. PICK len \in 2..Len(top) : walk \in [1..len -> 1..Len(top)]
  BY DEF Walks
<1> DEFINE path == PathAlong(top, walk)
<1>9. Len(old) \in Nat /\ Len(top) \in Nat /\ len \in Nat /\ len >= 2
  BY <1>4, <1>5, <1>8
<1>10. Len(walk) = len
  BY <1>8, <1>9
<1>11. \A i \in 1..Len(top) :
         top[i].dev \in Device /\ bapAddress[top[i].dev] \in 1..MaxBapAddress
  <2> SUFFICES ASSUME NEW i \in 1..Len(top)
               PROVE  top[i].dev \in Device /\ bapAddress[top[i].dev] \in 1..MaxBapAddress
    OBVIOUS
  <2>1. top[i] \in Entry
    BY <1>5, <1>9
  <2>2. top[i].dev \in Device
    BY <2>1 DEF Entry
  <2>3. bapAddress[top[i].dev] # 0
    <3>1. CASE i \in 1..Len(old)
      BY <3>1, <1>1, <1>5, TopologyEntries DEF EntriesInstalled, Installed
    <3>2. CASE i = Len(top)
      BY <3>2, <1>5 DEF Installed
    <3> QED
      BY <3>1, <3>2, <1>5, <1>9
  <2>4. bapAddress[top[i].dev] \in 0..MaxBapAddress
    BY <2>2, <1>1 DEF TypeOK
  <2>5. \A a \in 0..MaxBapAddress : a # 0 => a \in 1..MaxBapAddress
    BY DEF MaxBapAddress
  <2> QED
    BY <2>2, <2>3, <2>4, <2>5
<1>12. path \in [1..len -> 1..MaxBapAddress]
  BY <1>8, <1>10, <1>11 DEF PathAlong
<1>13. path \in Seq(1..MaxBapAddress) /\ Len(path) = len
  <2> HIDE DEF path
  <2>1. path \in Seq(1..MaxBapAddress)
    BY <1>9, <1>12, FunctionIsSequence
  <2>2. Len(path) = len
    BY <1>9, <1>12, LengthOfFunction
  <2> QED
    BY <2>1, <2>2
<1>14. path[1] = bapAddress[n]
  BY <1>5, <1>7, <1>9, <1>10 DEF PathAlong, IsWalkToDonor
<1>15. path[Len(path)] = bapAddress[d]
  BY <1>5, <1>6, <1>7, <1>9, <1>10, <1>13 DEF PathAlong, IsWalkToDonor
<1>16. Registers(d, n, index, path)
  BY <1>2, <1>7, <1>9, <1>13, <1>14, <1>15
     DEF Registers, RegisterNewIabAttachment, TakePathId, top
<1> QED
  BY <1>3, <1>13, <1>16
--------------------------------------------------------------------------------
(* What no step undoes: addresses, attachments and paths stay, and a new   *)
(* path gets the identity of the counter.                                  *)
Grows ==
  /\ \A dev \in Device : Installed(dev) => bapAddress'[dev] = bapAddress[dev]
  /\ \A n \in IabNodes : Attached(n) => /\ servingDonor'[n] = servingDonor[n]
                                       /\ mtParent'[n] = mtParent[n]
  /\ \A d \in Donors :
       /\ \A id \in DOMAIN bapPaths[d] : /\ id \in DOMAIN bapPaths'[d]
                                        /\ bapPaths'[d][id] = bapPaths[d][id]
       /\ \A id \in DOMAIN bapPaths'[d] :
            id \in DOMAIN bapPaths[d] \/ id = bapPathIdCounter

(* The ends of a route keep their addresses.                               *)
LEMMA EndsKept ==
  ASSUME RoutingInv, Grows, NEW n \in IabNodes, Attached(n)
  PROVE  LET d == servingDonor[n] IN
           /\ d \in Donors
           /\ servingDonor'[n] = d
           /\ bapAddress'[n] = bapAddress[n]
           /\ bapAddress'[d] = bapAddress[d]
BY DEF RoutingInv, AttachedHaveRoute, Grows, Device

(* Paths that are found stay found, and any other has a larger identity.   *)
LEMMA PathsKept ==
  ASSUME RoutingInv, Grows, NEW d \in Donors, NEW a, NEW b
  PROVE  /\ PathsBetween(d, a, b) \subseteq PathsBetween(d, a, b)'
         /\ PathsBetween(d, a, b) \subseteq Nat
         /\ PathsBetween(d, a, b)' \subseteq Nat
         /\ \A t \in PathsBetween(d, a, b)' \ PathsBetween(d, a, b) :
              \A s \in PathsBetween(d, a, b) : s < t
<1>1. TypeOK /\ IdsBelowCounter
  BY DEF RoutingInv
<1>2. DOMAIN bapPaths[d] \subseteq Nat /\ bapPathIdCounter \in Nat
  BY <1>1 DEF TypeOK
<1>3. \A id \in DOMAIN bapPaths[d] : id < bapPathIdCounter
  BY <1>1 DEF IdsBelowCounter
<1>4. /\ \A id \in DOMAIN bapPaths[d] : /\ id \in DOMAIN bapPaths'[d]
                                       /\ bapPaths'[d][id] = bapPaths[d][id]
      /\ \A id \in DOMAIN bapPaths'[d] :
           id \in DOMAIN bapPaths[d] \/ id = bapPathIdCounter
  BY DEF Grows
<1>5. PathsBetween(d, a, b) \subseteq PathsBetween(d, a, b)'
  BY <1>4 DEF PathsBetween
<1>6. ASSUME NEW t \in PathsBetween(d, a, b)', t \notin PathsBetween(d, a, b)
      PROVE  t = bapPathIdCounter
  BY <1>4, <1>6 DEF PathsBetween
<1>7. PathsBetween(d, a, b) \subseteq DOMAIN bapPaths[d]
  BY DEF PathsBetween
<1> QED
  BY <1>2, <1>3, <1>5, <1>6, <1>7

(* A node that is attached keeps its route, the first one found.           *)
LEMMA RouteKept ==
  ASSUME RoutingInv, Grows, NEW n \in IabNodes, Attached(n)
  PROVE  LET d  == servingDonor[n]
             id == GetPathId(d, bapAddress[n], bapAddress[d])
         IN  /\ HasRoute(d, n)'
             /\ id \in DOMAIN bapPaths[d]
             /\ GetPathId(d, bapAddress[n], bapAddress[d])' = id
             /\ bapPaths'[d][id] = bapPaths[d][id]
<1>1. PICK d \in Donors : d = servingDonor[n] /\ HasRoute(d, n)
  BY DEF RoutingInv, AttachedHaveRoute
<1>2. /\ servingDonor'[n] = d
      /\ bapAddress'[n] = bapAddress[n]
      /\ bapAddress'[d] = bapAddress[d]
  BY <1>1, EndsKept
<1>3. PICK a, b : a = bapAddress[n] /\ b = bapAddress[d]
  OBVIOUS
<1>4. /\ PathsBetween(d, a, b) \subseteq PathsBetween(d, a, b)'
      /\ PathsBetween(d, a, b) \subseteq Nat
      /\ PathsBetween(d, a, b)' \subseteq Nat
      /\ \A t \in PathsBetween(d, a, b)' \ PathsBetween(d, a, b) :
           \A s \in PathsBetween(d, a, b) : s < t
  BY PathsKept
<1>5. PathsBetween(d, a, b) # {}
  BY <1>1, <1>3 DEF HasRoute
<1>6. FirstOf(PathsBetween(d, a, b)') = FirstOf(PathsBetween(d, a, b))
  BY <1>4, <1>5, FirstOfStable
<1>7. GetPathId(d, a, b)' = GetPathId(d, a, b)
  BY <1>6 DEF GetPathId
<1>8. GetPathId(d, a, b) \in DOMAIN bapPaths[d]
  <2>1. FirstOf(PathsBetween(d, a, b)) \in PathsBetween(d, a, b)
    BY <1>4, <1>5, FirstOfIsLeast
  <2> QED
    BY <2>1 DEF GetPathId, PathsBetween
<1>9. bapPaths'[d][GetPathId(d, a, b)] = bapPaths[d][GetPathId(d, a, b)]
  BY <1>8 DEF Grows
<1>10. PathsBetween(d, a, b)' # {}
  BY <1>4, <1>5
<1>11. HasRoute(d, n)'
  BY <1>2, <1>3, <1>10 DEF HasRoute, PathsBetween
<1>12. GetPathId(d, bapAddress[n], bapAddress[d])' = GetPathId(d, a, b)
  BY <1>2, <1>3, <1>7 DEF GetPathId, PathsBetween
<1> QED
  BY <1>1, <1>2, <1>3, <1>8, <1>9, <1>11, <1>12
--------------------------------------------------------------------------------
(* Each action keeps the invariant.                                        *)

LEMMA InitRoutingInv ==
  Init => RoutingInv
<1> SUFFICES ASSUME Init PROVE RoutingInv
  OBVIOUS
<1>1. TypeOK
  <2>1. bapAddress \in [Device -> 0..MaxBapAddress]
    BY DEF Init, MaxBapAddress
  <2>2. DOMAIN bapPaths = Donors
    BY DEF Init
  <2>3. \A d \in Donors : \A id : id \notin DOMAIN bapPaths[d]
    BY DEF Init
  <2>4. iabTopology \in [Donors -> Seq(Entry)]
    BY DEF Init
  <2> QED
    BY <2>1, <2>2, <2>3, <2>4, TopologyAssumption DEF Init, TypeOK, Failures
<1>2. bapAddressCounter # 0
  BY TopologyAssumption DEF Init
<1>3. EntriesInstalled
  BY DEF Init, EntriesInstalled, Entries
<1>4. DonorIsFirst
  BY DEF Init, DonorIsFirst, Installed, Device
<1>5. IdsBelowCounter
  BY DEF Init, IdsBelowCounter
<1>6. AttachedHaveRoute
  BY DEF Init, AttachedHaveRoute, Attached
<1> QED
  BY <1>1, <1>2, <1>3, <1>4, <1>5, <1>6 DEF RoutingInv

(* The attachments that a step leaves alone keep their routes.             *)
LEMMA OldRoutesKept ==
  ASSUME RoutingInv, Grows, NEW n \in IabNodes, Attached(n)
  PROVE  /\ servingDonor'[n] \in Donors
         /\ Installed(n)'
         /\ Installed(servingDonor[n])'
         /\ HasRoute(servingDonor[n], n)'
<1>1. HasRoute(servingDonor[n], n)'
  BY RouteKept
<1>2. /\ servingDonor[n] \in Donors /\ servingDonor'[n] = servingDonor[n]
      /\ bapAddress'[n] = bapAddress[n]
      /\ bapAddress'[servingDonor[n]] = bapAddress[servingDonor[n]]
  BY EndsKept
<1>3. Installed(n) /\ Installed(servingDonor[n])
  BY DEF RoutingInv, AttachedHaveRoute
<1> QED
  BY <1>1, <1>2, <1>3 DEF Installed

LEMMA FailKeeps ==
  ASSUME RoutingInv, NEW reason \in Failures, Fail(reason)
  PROVE  RoutingInv' /\ Grows
<1> USE DEF Fail
<1>1. TypeOK'
  BY DEF RoutingInv, TypeOK
<1>2. bapAddressCounter' # 0
  BY DEF RoutingInv
<1>3. EntriesInstalled'
  BY DEF RoutingInv, EntriesInstalled, Entries, Installed
<1>4. DonorIsFirst'
  BY DEF RoutingInv, DonorIsFirst, Entries, Installed
<1>5. IdsBelowCounter'
  BY DEF RoutingInv, IdsBelowCounter
<1>6. AttachedHaveRoute'
  BY DEF RoutingInv, AttachedHaveRoute, Attached, Installed, HasRoute, PathsBetween
<1>7. Grows
  BY DEF Grows
<1> QED
  BY <1>1, <1>2, <1>3, <1>4, <1>5, <1>6, <1>7 DEF RoutingInv

(* Giving an address to a device that has none.                            *)
LEMMA AddressGiven ==
  ASSUME RoutingInv, NEW dev \in Device, ~Installed(dev), SetLocalAddress(dev)
  PROVE  /\ bapAddress' \in [Device -> 0..MaxBapAddress]
         /\ bapAddressCounter' \in Nat \ {0}
         /\ bapAddress'[dev] # 0
         /\ \A other \in Device \ {dev} : bapAddress'[other] = bapAddress[other]
<1>1. /\ bapAddress \in [Device -> 0..MaxBapAddress]
      /\ bapAddressCounter \in Nat /\ bapAddressCounter # 0
  BY DEF RoutingInv, TypeOK
<1>2. bapAddressCounter \in 0..MaxBapAddress
  BY <1>1 DEF SetLocalAddress, MaxBapAddress
<1>3. bapAddress' = [bapAddress EXCEPT ![dev] = bapAddressCounter]
  BY DEF SetLocalAddress
<1>4. bapAddressCounter' \in Nat \ {0}
  BY <1>1 DEF SetLocalAddress
<1> HIDE DEF MaxBapAddress
<1> QED
  BY <1>1, <1>2, <1>3, <1>4

LEMMA InstallIabKeeps ==
  ASSUME RoutingInv, NEW n \in IabNodes, InstallIab(n)
  PROVE  RoutingInv' /\ Grows
<1>1. CASE AddressSpaceExhausted
  BY <1>1, FailKeeps DEF AddressSpaceExhausted, Failures
<1>2. CASE /\ SetLocalAddress(n)
           /\ UNCHANGED <<iabTopology, bapPaths, bapPathIdCounter, servingDonor,
                          mtParent, failure>>
  <2>1. n \in Device /\ n \notin Donors
    BY TopologyAssumption DEF Device
  <2>2. ~Installed(n)
    BY DEF InstallIab
  <2>3. /\ bapAddress' \in [Device -> 0..MaxBapAddress]
        /\ bapAddressCounter' \in Nat \ {0}
        /\ bapAddress'[n] # 0
        /\ \A other \in Device \ {n} : bapAddress'[other] = bapAddress[other]
    BY <1>2, <2>1, <2>2, AddressGiven
  <2>4. TypeOK'
    BY <1>2, <2>3 DEF RoutingInv, TypeOK
  <2>5. Grows
    BY <1>2, <2>2, <2>3 DEF Grows, Installed
  <2>6. EntriesInstalled'
    <3> SUFFICES ASSUME NEW d \in Donors, NEW i \in Entries(d)
                 PROVE  Installed(iabTopology[d][i].dev)'
      BY <1>2 DEF EntriesInstalled, Entries
    <3>1. iabTopology[d][i].dev \in Device
      BY TopologyEntries DEF RoutingInv, Entry
    <3>2. Installed(iabTopology[d][i].dev)
      BY DEF RoutingInv, EntriesInstalled
    <3> QED
      BY <1>2, <2>3, <3>1, <3>2 DEF Installed
  <2>7. DonorIsFirst'
    BY <1>2, <2>1, <2>3 DEF RoutingInv, DonorIsFirst, Entries, Installed, Device
  <2>8. IdsBelowCounter'
    BY <1>2 DEF RoutingInv, IdsBelowCounter
  <2>9. AttachedHaveRoute'
    BY <1>2, <2>5, OldRoutesKept DEF AttachedHaveRoute, Attached, Installed, HasRoute
  <2> QED
    BY <2>3, <2>4, <2>5, <2>6, <2>7, <2>8, <2>9 DEF RoutingInv
<1> QED
  BY <1>1, <1>2 DEF InstallIab

LEMMA InstallEnbKeeps ==
  ASSUME RoutingInv, NEW d \in Donors, InstallEnb(d)
  PROVE  RoutingInv' /\ Grows
<1>1. CASE AddressSpaceExhausted
  BY <1>1, FailKeeps DEF AddressSpaceExhausted, Failures
<1>2. CASE /\ SetLocalAddress(d)
           /\ iabTopology' = [iabTopology EXCEPT
                ![d] = Append(@, [dev |-> d, parent |-> 1])]
           /\ UNCHANGED <<bapPaths, bapPathIdCounter, servingDonor, mtParent, failure>>
  <2>1. d \in Device
    BY DEF Device
  <2>2. ~Installed(d)
    BY DEF InstallEnb
  <2>3. /\ bapAddress' \in [Device -> 0..MaxBapAddress]
        /\ bapAddressCounter' \in Nat \ {0}
        /\ bapAddress'[d] # 0
        /\ \A other \in Device \ {d} : bapAddress'[other] = bapAddress[other]
    BY <1>2, <2>1, <2>2, AddressGiven
  <2> DEFINE first == [dev |-> d, parent |-> 1]
  <2>4. iabTopology[d] = <<>>
    BY <2>2 DEF RoutingInv, DonorIsFirst
  <2>5. first \in Entry
    BY <2>1 DEF Entry
  <2>6. iabTopology \in [Donors -> Seq(Entry)]
    BY DEF RoutingInv, TypeOK
  <2>7. /\ Append(iabTopology[d], first) = <<first>>
        /\ <<first>> \in Seq(Entry)
        /\ DOMAIN <<first>> = {1}
        /\ <<first>>[1] = first
    BY <2>4, <2>5
  <2>8. /\ iabTopology' \in [Donors -> Seq(Entry)]
        /\ iabTopology'[d] = <<first>>
        /\ \A e \in Donors \ {d} : iabTopology'[e] = iabTopology[e]
    BY <1>2, <2>6, <2>7
  <2>9. TypeOK'
    BY <1>2, <2>3, <2>8 DEF RoutingInv, TypeOK
  <2>10. Grows
    BY <1>2, <2>2, <2>3 DEF Grows, Installed
  <2>11. EntriesInstalled'
    <3> SUFFICES ASSUME NEW e \in Donors, NEW i \in Entries(e)'
                 PROVE  Installed(iabTopology[e][i].dev)'
      BY DEF EntriesInstalled
    <3>1. CASE e = d
      BY <2>3, <2>7, <2>8, <3>1 DEF Entries, Installed
    <3>2. CASE e # d
      <4>1. i \in Entries(e) /\ iabTopology'[e] = iabTopology[e]
        BY <2>8, <3>2 DEF Entries
      <4>2. Installed(iabTopology[e][i].dev)
        BY <4>1 DEF RoutingInv, EntriesInstalled
      <4>3. iabTopology[e][i].dev \in Device
        BY <4>1, TopologyEntries DEF RoutingInv, Entry
      <4> QED
        BY <2>3, <4>1, <4>2, <4>3 DEF Installed
    <3> QED
      BY <3>1, <3>2
  <2>12. DonorIsFirst'
    <3> SUFFICES ASSUME NEW e \in Donors
                 PROVE  (IF Installed(e)
                         THEN 1 \in Entries(e) /\ iabTopology[e][1].dev = e
                         ELSE iabTopology[e] = <<>>)'
      BY DEF DonorIsFirst
    <3>1. CASE e = d
      BY <2>3, <2>7, <2>8, <3>1 DEF Entries, Installed
    <3>2. CASE e # d
      BY <2>3, <2>8, <3>2 DEF RoutingInv, DonorIsFirst, Entries, Installed, Device
    <3> QED
      BY <3>1, <3>2
  <2>13. IdsBelowCounter'
    BY <1>2 DEF RoutingInv, IdsBelowCounter
  <2>14. AttachedHaveRoute'
    BY <1>2, <2>10, OldRoutesKept DEF AttachedHaveRoute, Attached, Installed, HasRoute
  <2> QED
    BY <2>3, <2>9, <2>10, <2>11, <2>12, <2>13, <2>14 DEF RoutingInv
<1> QED
  BY <1>1, <1>2 DEF InstallEnb

(* The same for a registration, whichever parent it names.                 *)
LEMMA RegistrationKeeps ==
  ASSUME RoutingInv, NEW d \in Donors, NEW n \in IabNodes, NEW p \in Device,
         ~Attached(n), Installed(n), Installed(d),
         RegisterNewIabAttachment(d, n, p),
         servingDonor' = [servingDonor EXCEPT ![n] = d],
         mtParent' = [mtParent EXCEPT ![n] = p],
         UNCHANGED <<bapAddress, bapAddressCounter, failure>>
  PROVE  RoutingInv' /\ Grows
<1>1. TypeOK /\ EntriesInstalled /\ DonorIsFirst /\ IdsBelowCounter
  BY DEF RoutingInv
<1>2. PICK index \in Nat \ {0}, path \in Seq(1..MaxBapAddress) :
        Registers(d, n, index, path)
  BY RegistrationFacts
<1> DEFINE new == [dev |-> n, parent |-> index]
<1>3. n \in Device /\ d \in Device /\ new \in Entry
  BY <1>2 DEF Device, Entry
<1>4. iabTopology \in [Donors -> Seq(Entry)]
  BY <1>1 DEF TypeOK
<1> HIDE DEF new
<1>5. /\ iabTopology' \in [Donors -> Seq(Entry)]
      /\ iabTopology'[d] = Append(iabTopology[d], new)
      /\ \A e \in Donors \ {d} : iabTopology'[e] = iabTopology[e]
  <2>1. Append(iabTopology[d], new) \in Seq(Entry)
    BY <1>3, <1>4
  <2>2. iabTopology' = [iabTopology EXCEPT ![d] = Append(iabTopology[d], new)]
    BY <1>2 DEF Registers, new
  <2> HIDE DEF Entry
  <2> QED
    BY <1>4, <2>1, <2>2
<1>6. /\ DOMAIN bapPaths'[d] = DOMAIN bapPaths[d] \cup {bapPathIdCounter}
      /\ bapPaths'[d][bapPathIdCounter] = path
      /\ \A id \in DOMAIN bapPaths[d] :
           id # bapPathIdCounter /\ bapPaths'[d][id] = bapPaths[d][id]
      /\ \A e \in Donors \ {d} : bapPaths'[e] = bapPaths[e]
      /\ DOMAIN bapPaths' = Donors
  <2>1. DOMAIN bapPaths = Donors /\ bapPathIdCounter \in Nat
    BY <1>1 DEF TypeOK
  <2>2. \A id \in DOMAIN bapPaths[d] : id \in Nat /\ id < bapPathIdCounter
    BY <1>1 DEF TypeOK, IdsBelowCounter
  <2>3. \A id \in DOMAIN bapPaths[d] : id # bapPathIdCounter
    BY <2>1, <2>2
  <2> QED
    BY <1>2, <2>1, <2>3 DEF Registers
<1>7. bapPathIdCounter \in Nat /\ bapPathIdCounter' = bapPathIdCounter + 1
  BY <1>1, <1>2 DEF TypeOK, Registers
<1>8. TypeOK'
  <2>1. \A e \in Donors : /\ DOMAIN bapPaths'[e] \subseteq Nat
                           /\ \A id \in DOMAIN bapPaths'[e] :
                                bapPaths'[e][id] \in Seq(1..MaxBapAddress)
    <3> SUFFICES ASSUME NEW e \in Donors, NEW id \in DOMAIN bapPaths'[e]
                 PROVE  id \in Nat /\ bapPaths'[e][id] \in Seq(1..MaxBapAddress)
      OBVIOUS
    <3>1. \A old \in DOMAIN bapPaths[e] :
            old \in Nat /\ bapPaths[e][old] \in Seq(1..MaxBapAddress)
      BY <1>1 DEF TypeOK
    <3>2. \/ id \in DOMAIN bapPaths[e] /\ bapPaths'[e][id] = bapPaths[e][id]
          \/ id = bapPathIdCounter /\ bapPaths'[e][id] = path
      BY <1>6
    <3> QED
      BY <1>2, <1>7, <3>1, <3>2
  <2>2. servingDonor' \in [IabNodes -> Donors \cup {NoDevice}]
    BY <1>1 DEF TypeOK
  <2>3. mtParent' \in [IabNodes -> Device \cup {NoDevice}]
    BY <1>1 DEF TypeOK
  <2> QED
    BY <1>1, <1>5, <1>6, <1>7, <2>1, <2>2, <2>3 DEF TypeOK
<1>9. Grows
  <2>1. \A m \in IabNodes : Attached(m) => /\ servingDonor'[m] = servingDonor[m]
                                          /\ mtParent'[m] = mtParent[m]
    BY <1>1 DEF TypeOK
  <2> QED
    BY <1>6, <2>1 DEF Grows
<1>10. iabTopology[d] \in Seq(Entry) /\ 1 \in DOMAIN iabTopology[d] /\ iabTopology[d][1].dev = d
  BY <1>1 DEF TypeOK, DonorIsFirst, Entries
<1>11. \A i \in DOMAIN Append(iabTopology[d], new) :
         \/ i \in DOMAIN iabTopology[d] /\ Append(iabTopology[d], new)[i] = iabTopology[d][i]
         \/ Append(iabTopology[d], new)[i] = new
  BY <1>3, <1>10
<1>12. EntriesInstalled'
  <2> SUFFICES ASSUME NEW e \in Donors, NEW i \in DOMAIN iabTopology'[e]
               PROVE  bapAddress[iabTopology'[e][i].dev] # 0
    BY DEF EntriesInstalled, Entries, Installed
  <2>1. \A j \in DOMAIN iabTopology[e] : bapAddress[iabTopology[e][j].dev] # 0
    BY <1>1 DEF EntriesInstalled, Entries, Installed
  <2>2. bapAddress[new.dev] # 0
    BY DEF Installed, new
  <2>3. \/ i \in DOMAIN iabTopology[e] /\ iabTopology'[e][i] = iabTopology[e][i]
        \/ iabTopology'[e][i] = new
    BY <1>5, <1>11
  <2> QED
    BY <2>1, <2>2, <2>3
<1>13. /\ 1 \in DOMAIN Append(iabTopology[d], new)
       /\ Append(iabTopology[d], new)[1] = iabTopology[d][1]
  BY <1>3, <1>10
<1>14. DonorIsFirst'
  BY <1>1, <1>5, <1>10, <1>13 DEF DonorIsFirst, Entries, Installed
<1>15. IdsBelowCounter'
  <2> SUFFICES ASSUME NEW e \in Donors, NEW id \in DOMAIN bapPaths'[e]
               PROVE  id < bapPathIdCounter + 1
    BY <1>7 DEF IdsBelowCounter
  <2>1. id \in Nat /\ (id < bapPathIdCounter \/ id = bapPathIdCounter)
    BY <1>1, <1>6, <1>7 DEF IdsBelowCounter, TypeOK
  <2> QED
    BY <1>7, <2>1
<1>16. AttachedHaveRoute'
  <2> SUFFICES ASSUME NEW m \in IabNodes, Attached(m)'
               PROVE  /\ servingDonor'[m] \in Donors
                      /\ Installed(m)'
                      /\ Installed(servingDonor[m])'
                      /\ HasRoute(servingDonor[m], m)'
    BY DEF AttachedHaveRoute
  <2>1. CASE m = n
    <3>1. servingDonor'[n] = d
      BY <1>1 DEF TypeOK
    <3>2. path[1] = bapAddress[n] /\ path[Len(path)] = bapAddress[d]
      BY <1>2 DEF Registers
    <3>3. HasRoute(d, n)'
      BY <1>6, <3>2 DEF HasRoute, PathsBetween
    <3>4. HasRoute(servingDonor[n], n)'
      BY <3>1, <3>3 DEF HasRoute, PathsBetween
    <3> QED
      BY <2>1, <3>1, <3>4 DEF Installed
  <2>2. CASE m # n
    <3>1. Attached(m) /\ servingDonor'[m] = servingDonor[m]
      BY <1>1, <2>2 DEF TypeOK, Attached
    <3>2. /\ servingDonor'[m] \in Donors
          /\ Installed(m)'
          /\ Installed(servingDonor[m])'
          /\ HasRoute(servingDonor[m], m)'
      BY <1>9, <3>1, OldRoutesKept
    <3> QED
      BY <3>2
  <2> QED
    BY <2>1, <2>2
<1>17. bapAddressCounter' # 0
  BY DEF RoutingInv
<1> QED
  BY <1>8, <1>9, <1>12, <1>14, <1>15, <1>16, <1>17 DEF RoutingInv

LEMMA AttachKeeps ==
  ASSUME RoutingInv, NEW n \in IabNodes, NEW p \in Device, NEW d \in Donors,
         MayAttach(n), Installed(d), Attach(n, p, d)
  PROVE  RoutingInv' /\ Grows
BY FailKeeps, RegistrationKeeps DEF Attach, MayAttach, Failures

LEMMA NextRoutingInv ==
  RoutingInv /\ [TopologyNext]_topologyVars => RoutingInv' /\ Grows
<1> SUFFICES ASSUME RoutingInv, [TopologyNext]_topologyVars
             PROVE  RoutingInv' /\ Grows
  OBVIOUS
<1>1. ASSUME NEW d \in Donors, InstallEnb(d) PROVE RoutingInv' /\ Grows
  BY <1>1, InstallEnbKeeps
<1>2. ASSUME NEW n \in IabNodes, InstallIab(n) PROVE RoutingInv' /\ Grows
  BY <1>2, InstallIabKeeps
<1>3. ASSUME NEW n \in IabNodes, NEW d \in Donors, AttachIabToDonor(n, d)
      PROVE  RoutingInv' /\ Grows
  BY <1>3, AttachKeeps DEF AttachIabToDonor, Device
<1>4. ASSUME NEW n \in IabNodes, NEW p \in IabNodes, NEW d \in Donors,
             AttachIabToIab(n, p, d)
      PROVE  RoutingInv' /\ Grows
  BY <1>4, AttachKeeps DEF AttachIabToIab, Device
<1>5. CASE UNCHANGED topologyVars
  <2> USE <1>5 DEF topologyVars
  <2>1. TypeOK'
    BY DEF RoutingInv, TypeOK
  <2>2. EntriesInstalled' /\ DonorIsFirst' /\ IdsBelowCounter'
    BY DEF RoutingInv, EntriesInstalled, DonorIsFirst, IdsBelowCounter, Entries, Installed
  <2>3. AttachedHaveRoute'
    BY DEF RoutingInv, AttachedHaveRoute, Attached, Installed, HasRoute, PathsBetween
  <2>4. Grows
    BY DEF Grows
  <2> QED
    BY <2>1, <2>2, <2>3, <2>4 DEF RoutingInv
<1> QED
  BY <1>1, <1>2, <1>3, <1>4, <1>5 DEF TopologyNext

LEMMA RoutingInvHolds ==
  TopologySpec => []RoutingInv
<1>1. RoutingInv /\ [TopologyNext]_topologyVars => RoutingInv'
  BY NextRoutingInv
<1> QED
  BY InitRoutingInv, <1>1, PTL DEF TopologySpec

(* The topology vectors, path maps, counters and addresses keep their      *)
(* types in every installation and attachment: no address over 10 bits is  *)
(* handed out and every stored path is a list of addresses in use.         *)
THEOREM RoutingTypeCorrect ==
  TopologySpec => []TypeOK
<1>1. RoutingInv => TypeOK
  BY DEF RoutingInv
<1> QED
  BY RoutingInvHolds, <1>1, PTL

(* The identity the next attachment gets is free in every donor's map, for *)
(* any number of donors that share the helper's counter: the abort in      *)
(* RegisterNewIabAttachment is unreachable.                                *)
THEOREM PathIdsAlwaysFree ==
  TopologySpec => []NextPathIdIsFree
<1>1. RoutingInv => NextPathIdIsFree
  <2> SUFFICES ASSUME RoutingInv, NEW d \in Donors,
                      bapPathIdCounter \in DOMAIN bapPaths[d]
               PROVE  FALSE
    BY DEF NextPathIdIsFree
  <2>1. bapPathIdCounter \in Nat /\ bapPathIdCounter < bapPathIdCounter
    BY DEF RoutingInv, TypeOK, IdsBelowCounter
  <2> QED
    BY <2>1
<1> QED
  BY RoutingInvHolds, <1>1, PTL

(* No later installation or attachment changes the path an attached node's *)
(* packets are routed by, so packets under way do not lose their route.    *)
THEOREM RoutesNeverMove ==
  TopologySpec => RoutesAreStable
<1>1. ASSUME RoutingInv, [TopologyNext]_topologyVars
      PROVE  [\A n \in IabNodes : Attached(n) =>
                LET d  == servingDonor[n]
                    id == GetPathId(d, bapAddress[n], bapAddress[d])
                IN  /\ bapPaths'[d][id] = bapPaths[d][id]
                    /\ GetPathId(d, bapAddress[n], bapAddress[d])' = id]_topologyVars
  <2>1. Grows
    BY <1>1, NextRoutingInv
  <2> QED
    BY <1>1, <2>1, RouteKept
<1> QED
  BY RoutingInvHolds, <1>1, PTL DEF TopologySpec, RoutesAreStable

--------------------------------------------------------------------------------
(***************************************************************************)
(* The trees: who is registered where, and whose addresses a path joins.   *)
(***************************************************************************)
(* No two devices have one address; those to come are larger.              *)
AddressesDiffer ==
  \A a \in Device :
    /\ bapAddress[a] < bapAddressCounter
    /\ \A b \in Device : Installed(a) /\ bapAddress[a] = bapAddress[b] => a = b

(* A donor's paths lead from its nodes to itself.                          *)
PathsJoin ==
  \A d \in Donors : \A id \in DOMAIN bapPaths[d] :
    LET path == bapPaths[d][id] IN
      /\ Len(path) >= 2
      /\ Installed(d)
      /\ path[Len(path)] = bapAddress[d]
      /\ \E n \in IabNodes : Registered(d, n) /\ path[1] = bapAddress[n]

AttachedIsServed ==
  \A n \in IabNodes : Attached(n) <=> servingDonor[n] # NoDevice

TreeInv ==
  /\ RoutingInv
  /\ AddressesDiffer
  /\ PathsJoin
  /\ AttachedIsServed
  /\ OneDonorPerTree

(* What a registration adds: one node to one donor, and its path.          *)
LEMMA RegistrationAdds ==
  ASSUME RoutingInv, NEW d \in Donors, NEW n \in IabNodes, NEW p \in Device,
         Installed(n), Installed(d), RegisterNewIabAttachment(d, n, p)
  PROVE  /\ p \in Donors \/ Registered(d, p)
         /\ \A e \in Donors : \A dev :
              Registered(e, dev)' <=> Registered(e, dev) \/ (e = d /\ dev = n)
         /\ \A e \in Donors : \A id \in DOMAIN bapPaths'[e] :
              \/ id \in DOMAIN bapPaths[e] /\ bapPaths'[e][id] = bapPaths[e][id]
              \/ /\ e = d
                 /\ Len(bapPaths'[e][id]) >= 2
                 /\ bapPaths'[e][id][1] = bapAddress[n]
                 /\ bapPaths'[e][id][Len(bapPaths'[e][id])] = bapAddress[d]
<1>1. TypeOK
  BY DEF RoutingInv
<1>2. PICK index \in Nat \ {0}, path \in Seq(1..MaxBapAddress) :
        Registers(d, n, index, path)
  BY RegistrationFacts
<1>3. p \in Donors \/ Registered(d, p)
  <2>1. ParentIndices(d, p) # {}
    BY DEF RegisterNewIabAttachment
  <2>2. DOMAIN iabTopology[d] = 1..Len(iabTopology[d])
    BY <1>1, TopologyEntries DEF Entries
  <2> QED
    BY <2>1, <2>2 DEF ParentIndices, Registered, EntriesOf, Entries
<1> DEFINE new == [dev |-> n, parent |-> index]
<1>4. iabTopology[d] \in Seq(Entry) /\ new \in Entry /\ new.dev = n
  BY <1>1, TopologyEntries DEF Entry, Device
<1>5. DOMAIN iabTopology = Donors
  BY <1>1 DEF TypeOK
<1> HIDE DEF new
<1>6. /\ iabTopology'[d] = Append(iabTopology[d], new)
      /\ \A e \in Donors \ {d} : iabTopology'[e] = iabTopology[e]
  BY <1>2, <1>5 DEF Registers, new
<1>7. /\ \A i \in DOMAIN Append(iabTopology[d], new) :
           \/ i \in DOMAIN iabTopology[d] /\ Append(iabTopology[d], new)[i] = iabTopology[d][i]
           \/ Append(iabTopology[d], new)[i] = new
      /\ \A i \in DOMAIN iabTopology[d] :
           /\ i \in DOMAIN Append(iabTopology[d], new)
           /\ Append(iabTopology[d], new)[i] = iabTopology[d][i]
      /\ \E i \in DOMAIN Append(iabTopology[d], new) : Append(iabTopology[d], new)[i] = new
  <2> DEFINE top == iabTopology[d]
  <2>1. top \in Seq(Entry) /\ new \in Entry
    BY <1>4
  <2> HIDE DEF top
  <2>2. Len(top) \in Nat /\ DOMAIN top = 1..Len(top)
    BY <2>1
  <2>3. DOMAIN Append(top, new) = 1..(Len(top) + 1)
    BY <2>1
  <2>4. \A i \in 1..Len(top) : Append(top, new)[i] = top[i]
    BY <2>1
  <2>5. Append(top, new)[Len(top) + 1] = new
    BY <2>1
  <2>6. \A i \in 1..(Len(top) + 1) : i \in 1..Len(top) \/ i = Len(top) + 1
    BY <2>2
  <2>7. 1..Len(top) \subseteq 1..(Len(top) + 1) /\ Len(top) + 1 \in 1..(Len(top) + 1)
    BY <2>2
  <2> QED
    BY <2>2, <2>3, <2>4, <2>5, <2>6, <2>7 DEF top
<1>8. \A e \in Donors : \A dev : Registered(e, dev) <=>
        \E i \in DOMAIN iabTopology[e] : iabTopology[e][i].dev = dev
  BY DEF Registered, EntriesOf, Entries
<1>9. \A e \in Donors : \A dev : Registered(e, dev)' <=>
        \E i \in DOMAIN iabTopology'[e] : iabTopology'[e][i].dev = dev
  BY DEF Registered, EntriesOf, Entries
<1>10. ASSUME NEW e \in Donors, NEW dev
       PROVE  Registered(e, dev)' <=> Registered(e, dev) \/ (e = d /\ dev = n)
  <2>1. CASE e = d
    <3> DEFINE longer == Append(iabTopology[d], new)
    <3>1. Registered(e, dev)' <=> \E i \in DOMAIN longer : longer[i].dev = dev
      BY <1>6, <1>9, <2>1
    <3>2. Registered(e, dev) <=>
            \E i \in DOMAIN iabTopology[d] : iabTopology[d][i].dev = dev
      BY <1>8, <2>1
    <3>3. (\E i \in DOMAIN longer : longer[i].dev = dev) <=>
            \/ \E i \in DOMAIN iabTopology[d] : iabTopology[d][i].dev = dev
            \/ dev = n
      BY <1>4, <1>7, ZenonT(60)
    <3> QED
      BY <3>1, <3>2, <3>3, <2>1
  <2>2. CASE e # d
    BY <1>6, <1>8, <1>9, <2>2
  <2> QED
    BY <2>1, <2>2
<1>11. ASSUME NEW e \in Donors, NEW id \in DOMAIN bapPaths'[e]
       PROVE  \/ id \in DOMAIN bapPaths[e] /\ bapPaths'[e][id] = bapPaths[e][id]
              \/ e = d /\ bapPaths'[e][id] = path
  <2>1. DOMAIN bapPaths = Donors
    BY <1>1 DEF TypeOK
  <2>2. \A i \in DOMAIN bapPaths[d] : i # bapPathIdCounter
    BY DEF RoutingInv, TypeOK, IdsBelowCounter
  <2> QED
    BY <1>2, <2>1, <2>2 DEF Registers
<1>12. /\ Len(path) >= 2
       /\ path[1] = bapAddress[n]
       /\ path[Len(path)] = bapAddress[d]
  BY <1>2 DEF Registers
<1> QED
  BY <1>3, <1>10, <1>11, <1>12

LEMMA InitTreeInv == Init => TreeInv
<1> SUFFICES ASSUME Init PROVE TreeInv
  OBVIOUS
<1>1. RoutingInv
  BY InitRoutingInv
<1>2. AddressesDiffer
  BY TopologyAssumption DEF Init, AddressesDiffer, Installed
<1>3. PathsJoin
  BY DEF Init, PathsJoin
<1>4. AttachedIsServed
  BY DEF Init, AttachedIsServed, Attached
<1>5. OneDonorPerTree
  BY TopologyAssumption
     DEF Init, OneDonorPerTree, Attached, Registered, EntriesOf, Entries, Device
<1> QED
  BY <1>1, <1>2, <1>3, <1>4, <1>5 DEF TreeInv

(* What a step that attaches nobody keeps.                                 *)
LEMMA SameTreesKeep ==
  ASSUME TreeInv, RoutingInv', Grows,
         UNCHANGED <<bapPaths, servingDonor, mtParent>>,
         \A d \in Donors : \A n \in IabNodes : Registered(d, n)' <=> Registered(d, n)
  PROVE  PathsJoin' /\ AttachedIsServed' /\ OneDonorPerTree'
<1>1. AttachedIsServed'
  BY DEF TreeInv, AttachedIsServed, Attached
<1>2. OneDonorPerTree'
  BY DEF TreeInv, OneDonorPerTree, Attached
<1>3. PathsJoin'
  <2> SUFFICES ASSUME NEW d \in Donors, NEW id \in DOMAIN bapPaths[d]
               PROVE  /\ Len(bapPaths[d][id]) >= 2
                      /\ bapAddress'[d] # 0
                      /\ bapPaths[d][id][Len(bapPaths[d][id])] = bapAddress'[d]
                      /\ \E n \in IabNodes :
                           Registered(d, n)' /\ bapPaths[d][id][1] = bapAddress'[n]
    BY DEF PathsJoin, Installed
  <2>1. PICK n \in IabNodes : Registered(d, n) /\ bapPaths[d][id][1] = bapAddress[n]
    BY DEF TreeInv, PathsJoin
  <2>2. Installed(d) /\ d \in Device /\ n \in Device
    BY DEF TreeInv, PathsJoin, Device
  <2>3. Installed(n)
    BY <2>1 DEF TreeInv, RoutingInv, EntriesInstalled, Registered, EntriesOf
  <2>4. bapAddress'[d] = bapAddress[d] /\ bapAddress'[n] = bapAddress[n]
    BY <2>2, <2>3 DEF Grows
  <2> QED
    BY <2>1, <2>2, <2>4 DEF TreeInv, PathsJoin, Installed
<1> QED
  BY <1>1, <1>2, <1>3

(* A new address is larger than those given before.                        *)
LEMMA NewAddressDiffers ==
  ASSUME TreeInv, NEW dev \in Device, ~Installed(dev), SetLocalAddress(dev)
  PROVE  AddressesDiffer'
<1>1. /\ bapAddress \in [Device -> 0..MaxBapAddress]
      /\ bapAddressCounter \in Nat /\ bapAddressCounter # 0
  BY DEF TreeInv, RoutingInv, TypeOK
<1>2. /\ bapAddress'[dev] = bapAddressCounter
      /\ \A other \in Device \ {dev} : bapAddress'[other] = bapAddress[other]
      /\ bapAddressCounter' = bapAddressCounter + 1
  BY <1>1 DEF SetLocalAddress
<1>3. \A a \in Device : /\ bapAddress[a] \in Nat /\ bapAddress[a] < bapAddressCounter
                        /\ \A b \in Device :
                             bapAddress[a] # 0 /\ bapAddress[a] = bapAddress[b] => a = b
  BY <1>1 DEF TreeInv, AddressesDiffer, Installed, MaxBapAddress
<1> QED
  BY <1>1, <1>2, <1>3 DEF AddressesDiffer, Installed

LEMMA FailKeepsTrees ==
  ASSUME TreeInv, NEW reason \in Failures, Fail(reason)
  PROVE  TreeInv'
<1>1. RoutingInv' /\ Grows
  BY FailKeeps DEF TreeInv
<1>2. AddressesDiffer'
  BY DEF Fail, TreeInv, AddressesDiffer, Installed
<1>3. \A d \in Donors : \A n \in IabNodes : Registered(d, n)' <=> Registered(d, n)
  BY DEF Fail, Registered, EntriesOf, Entries
<1>4. UNCHANGED <<bapPaths, servingDonor, mtParent>>
  BY DEF Fail
<1> QED
  BY <1>1, <1>2, <1>3, <1>4, SameTreesKeep DEF TreeInv

LEMMA InstallKeepsTrees ==
  ASSUME TreeInv, NEW dev \in Device,
         \/ dev \in IabNodes /\ InstallIab(dev)
         \/ dev \in Donors /\ InstallEnb(dev)
  PROVE  TreeInv'
<1>1. RoutingInv' /\ Grows
  BY InstallIabKeeps, InstallEnbKeeps DEF TreeInv
<1>2. CASE AddressSpaceExhausted
  BY <1>2, FailKeepsTrees DEF AddressSpaceExhausted, Failures
<1>3. CASE dev \in IabNodes /\ InstallIab(dev) /\ ~AddressSpaceExhausted
  <2>1. /\ ~Installed(dev) /\ SetLocalAddress(dev)
        /\ UNCHANGED <<iabTopology, bapPaths, servingDonor, mtParent>>
    BY <1>3 DEF InstallIab
  <2>2. AddressesDiffer'
    BY <2>1, NewAddressDiffers
  <2>3. \A d \in Donors : \A n \in IabNodes : Registered(d, n)' <=> Registered(d, n)
    BY <2>1 DEF Registered, EntriesOf, Entries
  <2> QED
    BY <1>1, <2>1, <2>2, <2>3, SameTreesKeep DEF TreeInv
<1>4. CASE dev \in Donors /\ InstallEnb(dev) /\ ~AddressSpaceExhausted
  <2>1. /\ ~Installed(dev) /\ SetLocalAddress(dev)
        /\ iabTopology' = [iabTopology EXCEPT
             ![dev] = Append(@, [dev |-> dev, parent |-> 1])]
        /\ UNCHANGED <<bapPaths, servingDonor, mtParent>>
    BY <1>4 DEF InstallEnb
  <2>2. AddressesDiffer'
    BY <2>1, NewAddressDiffers
  <2>3. iabTopology[dev] = <<>> /\ DOMAIN iabTopology = Donors
    BY <1>4, <2>1 DEF TreeInv, RoutingInv, DonorIsFirst, TypeOK
  <2>4. /\ iabTopology'[dev] = <<[dev |-> dev, parent |-> 1]>>
        /\ \A e \in Donors \ {dev} : iabTopology'[e] = iabTopology[e]
    BY <1>4, <2>1, <2>3
  <2>5. \A n \in IabNodes : n # dev
    BY <1>4, TopologyAssumption
  <2>6. ASSUME NEW d \in Donors, NEW n \in IabNodes
        PROVE  Registered(d, n)' <=> Registered(d, n)
    <3>1. CASE d = dev
      BY <2>3, <2>4, <2>5, <3>1 DEF Registered, EntriesOf, Entries
    <3>2. CASE d # dev
      BY <2>4, <3>2 DEF Registered, EntriesOf, Entries
    <3> QED
      BY <3>1, <3>2
  <2> QED
    BY <1>1, <2>1, <2>2, <2>6, SameTreesKeep DEF TreeInv
<1> QED
  BY <1>2, <1>3, <1>4

LEMMA AttachKeepsTrees ==
  ASSUME TreeInv, NEW n \in IabNodes, NEW p \in Device, NEW d \in Donors,
         p \in Donors => p = d,
         MayAttach(n), Installed(d), Attach(n, p, d)
  PROVE  TreeInv'
<1>1. RoutingInv' /\ Grows
  BY AttachKeeps DEF TreeInv
<1>2. ASSUME NEW reason \in Failures, Fail(reason) PROVE TreeInv'
  BY <1>2, FailKeepsTrees
<1>3. CASE /\ RegisterNewIabAttachment(d, n, p)
           /\ servingDonor' = [servingDonor EXCEPT ![n] = d]
           /\ mtParent' = [mtParent EXCEPT ![n] = p]
           /\ UNCHANGED <<bapAddress, bapAddressCounter, failure>>
  <2>1. ~Attached(n) /\ Installed(n)
    BY DEF MayAttach
  <2>2. /\ p \in Donors \/ Registered(d, p)
        /\ \A e \in Donors : \A dev :
             Registered(e, dev)' <=> Registered(e, dev) \/ (e = d /\ dev = n)
        /\ \A e \in Donors : \A id \in DOMAIN bapPaths'[e] :
             \/ id \in DOMAIN bapPaths[e] /\ bapPaths'[e][id] = bapPaths[e][id]
             \/ /\ e = d
                /\ Len(bapPaths'[e][id]) >= 2
                /\ bapPaths'[e][id][1] = bapAddress[n]
                /\ bapPaths'[e][id][Len(bapPaths'[e][id])] = bapAddress[d]
    BY <1>3, <2>1, RegistrationAdds DEF TreeInv
  <2>3. /\ servingDonor \in [IabNodes -> Donors \cup {NoDevice}]
        /\ mtParent \in [IabNodes -> Device \cup {NoDevice}]
    BY DEF TreeInv, RoutingInv, TypeOK
  <2>4. /\ servingDonor'[n] = d /\ mtParent'[n] = p
        /\ \A m \in IabNodes \ {n} : servingDonor'[m] = servingDonor[m] /\ mtParent'[m] = mtParent[m]
    BY <1>3, <2>3
  <2>5. NoDevice \notin Device /\ NoDevice \notin Donors
    BY TopologyAssumption DEF Device
  <2>6. servingDonor[n] = NoDevice
    BY <2>1 DEF TreeInv, AttachedIsServed
  <2>7. AddressesDiffer'
    BY <1>3 DEF TreeInv, AddressesDiffer, Installed
  <2>8. AttachedIsServed'
    BY <2>4, <2>5 DEF TreeInv, AttachedIsServed, Attached
  <2>9. PathsJoin'
    <3> SUFFICES ASSUME NEW e \in Donors, NEW id \in DOMAIN bapPaths'[e]
                 PROVE  /\ Len(bapPaths'[e][id]) >= 2
                        /\ bapAddress[e] # 0
                        /\ bapPaths'[e][id][Len(bapPaths'[e][id])] = bapAddress[e]
                        /\ \E m \in IabNodes :
                             Registered(e, m)' /\ bapPaths'[e][id][1] = bapAddress[m]
      BY <1>3 DEF PathsJoin, Installed
    <3>1. CASE id \in DOMAIN bapPaths[e] /\ bapPaths'[e][id] = bapPaths[e][id]
      BY <2>2, <3>1 DEF TreeInv, PathsJoin, Installed
    <3>2. CASE /\ e = d
               /\ Len(bapPaths'[e][id]) >= 2
               /\ bapPaths'[e][id][1] = bapAddress[n]
               /\ bapPaths'[e][id][Len(bapPaths'[e][id])] = bapAddress[d]
      BY <2>2, <3>2 DEF Installed
    <3> QED
      BY <2>2, <3>1, <3>2
  <2>10. OneDonorPerTree'
    <3>1. ASSUME NEW m \in IabNodes, NEW e \in Donors
          PROVE  Registered(e, m)' <=> servingDonor'[m] = e
      BY <2>2, <2>4, <2>5, <2>6 DEF TreeInv, OneDonorPerTree
    <3>2. ASSUME NEW m \in IabNodes, Attached(m)'
          PROVE  IF mtParent'[m] \in Donors THEN mtParent'[m] = servingDonor'[m]
                 ELSE servingDonor'[mtParent'[m]] = servingDonor'[m]
      <4>1. CASE m = n
        <5>1. p \in Donors \/ (p \in IabNodes /\ servingDonor[p] = d)
          BY <2>2 DEF TreeInv, OneDonorPerTree, Device
        <5> QED
          BY <2>4, <2>5, <2>6, <4>1, <5>1
      <4>2. CASE m # n
        <5>1. Attached(m) /\ mtParent'[m] = mtParent[m] /\ mtParent[m] \in Device
          BY <2>3, <2>4, <3>2, <4>2 DEF Attached
        <5>2. servingDonor[m] \in Donors
          BY <5>1 DEF TreeInv, RoutingInv, AttachedHaveRoute
        <5>3. CASE mtParent[m] \in Donors
          BY <2>4, <4>2, <5>1, <5>3 DEF TreeInv, OneDonorPerTree
        <5>4. CASE mtParent[m] \in IabNodes /\ mtParent[m] \notin Donors
          <6>1. servingDonor[mtParent[m]] = servingDonor[m]
            BY <5>1, <5>4 DEF TreeInv, OneDonorPerTree
          <6>2. mtParent[m] # n
            BY <2>5, <2>6, <5>2, <6>1
          <6> QED
            BY <2>4, <4>2, <5>1, <5>4, <6>1, <6>2
        <5> QED
          BY <5>1, <5>3, <5>4 DEF Device
      <4> QED
        BY <4>1, <4>2
    <3> QED
      BY <3>1, <3>2 DEF OneDonorPerTree
  <2> QED
    BY <1>1, <2>7, <2>8, <2>9, <2>10 DEF TreeInv
<1> QED
  BY <1>2, <1>3 DEF Attach, Failures

LEMMA NextTreeInv ==
  TreeInv /\ [TopologyNext]_topologyVars => TreeInv'
<1> SUFFICES ASSUME TreeInv, [TopologyNext]_topologyVars PROVE TreeInv'
  OBVIOUS
<1>1. ASSUME NEW d \in Donors, InstallEnb(d) PROVE TreeInv'
  BY <1>1, InstallKeepsTrees DEF Device
<1>2. ASSUME NEW n \in IabNodes, InstallIab(n) PROVE TreeInv'
  BY <1>2, InstallKeepsTrees DEF Device
<1>3. ASSUME NEW n \in IabNodes, NEW d \in Donors, AttachIabToDonor(n, d) PROVE TreeInv'
  BY <1>3, AttachKeepsTrees DEF AttachIabToDonor, Device
<1>4. ASSUME NEW n \in IabNodes, NEW p \in IabNodes, NEW d \in Donors, AttachIabToIab(n, p, d)
      PROVE  TreeInv'
  BY <1>4, AttachKeepsTrees, TopologyAssumption DEF AttachIabToIab, Device
<1>5. CASE UNCHANGED topologyVars
  <2> USE <1>5 DEF topologyVars
  <2>1. RoutingInv'
    BY NextRoutingInv DEF TreeInv
  <2>2. AddressesDiffer' /\ AttachedIsServed'
    BY DEF TreeInv, AddressesDiffer, AttachedIsServed, Installed, Attached
  <2>3. PathsJoin'
    BY DEF TreeInv, PathsJoin, Installed, Registered, EntriesOf, Entries
  <2>4. OneDonorPerTree'
    BY DEF TreeInv, OneDonorPerTree, Attached, Registered, EntriesOf, Entries
  <2> QED
    BY <2>1, <2>2, <2>3, <2>4 DEF TreeInv
<1> QED
  BY <1>1, <1>2, <1>3, <1>4, <1>5 DEF TopologyNext

LEMMA TreeInvHolds ==
  TopologySpec => []TreeInv
BY InitTreeInv, NextTreeInv, PTL DEF TopologySpec

(* The trees of several donors never mix, in whatever order the nodes are  *)
(* attached: a node is known to one donor, the one its parent is served by *)
(* too, so the bearer of a link finds both ends' addresses in one table.   *)
THEOREM TreesNeverMix ==
  TopologySpec => []OneDonorPerTree
<1>1. TreeInv => OneDonorPerTree
  BY DEF TreeInv
<1> QED
  BY TreeInvHolds, <1>1, PTL

(* The path between a node and its donor names both, whichever path the    *)
(* look-up takes.                                                          *)
LEMMA PathFound ==
  ASSUME TreeInv, NEW n \in IabNodes, Attached(n), NEW d \in Donors, d = servingDonor[n]
  PROVE  LET id == GetPathId(d, bapAddress[n], bapAddress[d])
             path == bapPaths[d][id]
         IN  /\ id \in DOMAIN bapPaths[d]
             /\ id \in Nat /\ id < bapPathIdCounter
             /\ Installed(n) /\ Installed(d) /\ n # d
             /\ \/ path[1] = bapAddress[n] /\ path[Len(path)] = bapAddress[d]
                \/ path[1] = bapAddress[d] /\ path[Len(path)] = bapAddress[n]
<1> DEFINE S == PathsBetween(d, bapAddress[n], bapAddress[d])
<1>1. S # {} /\ S \subseteq DOMAIN bapPaths[d] /\ DOMAIN bapPaths[d] \subseteq Nat
  BY DEF TreeInv, RoutingInv, TypeOK, AttachedHaveRoute, HasRoute, PathsBetween
<1>2. FirstOf(S) \in S
  <2> HIDE DEF S
  <2> QED
    BY <1>1, FirstOfIsLeast
<1>3. GetPathId(d, bapAddress[n], bapAddress[d]) \in S
  BY <1>2 DEF GetPathId
<1>4. Installed(n) /\ Installed(d) /\ n # d
  BY TopologyAssumption DEF TreeInv, RoutingInv, AttachedHaveRoute
<1>5. \A id \in DOMAIN bapPaths[d] : id < bapPathIdCounter
  BY DEF TreeInv, RoutingInv, IdsBelowCounter
<1> QED
  BY <1>1, <1>3, <1>4, <1>5 DEF PathsBetween

LEMMA NodeOfAddress ==
  ASSUME TreeInv, NEW d \in Donors, NEW n \in IabNodes, Registered(d, n)
  PROVE  iabTopology[d][FirstOf({i \in Entries(d) :
           /\ iabTopology[d][i].dev \in IabNodes
           /\ bapAddress[iabTopology[d][i].dev] = bapAddress[n]})].dev = n
<1> DEFINE S == {i \in Entries(d) : /\ iabTopology[d][i].dev \in IabNodes
                                    /\ bapAddress[iabTopology[d][i].dev] = bapAddress[n]}
<1>1. PICK i \in Entries(d) : iabTopology[d][i].dev = n
  BY DEF Registered, EntriesOf
<1>2. i \in S
  BY <1>1
<1>3. Entries(d) \subseteq Nat
  BY TopologyEntries DEF TreeInv, RoutingInv
<1>4. FirstOf(S) \in S
  <2> HIDE DEF S
  <2>1. S \subseteq Nat
    BY <1>3 DEF S
  <2> QED
    BY <1>2, <2>1, FirstOfIsLeast
<1>5. Installed(n)
  BY <1>1 DEF TreeInv, RoutingInv, EntriesInstalled
<1> QED
  BY <1>4, <1>5 DEF TreeInv, AddressesDiffer, Device

LEMMA SenderFound ==
  ASSUME TreeInv, NEW n \in IabNodes, Attached(n), NEW d \in Donors, d = servingDonor[n]
  PROVE  GetImsiOfOtherEndpoint(d, bapAddress[d],
                                GetPathId(d, bapAddress[n], bapAddress[d])) = n
<1> DEFINE path == bapPaths[d][GetPathId(d, bapAddress[n], bapAddress[d])]
<1>1. /\ Installed(n) /\ Installed(d) /\ n # d
      /\ \/ path[1] = bapAddress[n] /\ path[Len(path)] = bapAddress[d]
         \/ path[1] = bapAddress[d] /\ path[Len(path)] = bapAddress[n]
  BY PathFound
<1>2. bapAddress[n] # bapAddress[d]
  BY <1>1 DEF TreeInv, AddressesDiffer, Device
<1>3. (IF path[1] = bapAddress[d] THEN path[Len(path)] ELSE path[1]) = bapAddress[n]
  BY <1>1, <1>2
<1>4. Registered(d, n)
  BY DEF TreeInv, OneDonorPerTree
<1>5. GetImsiOfOtherEndpoint(d, bapAddress[d], GetPathId(d, bapAddress[n], bapAddress[d])) =
        iabTopology[d][FirstOf({i \in Entries(d) :
          /\ iabTopology[d][i].dev \in IabNodes
          /\ bapAddress[iabTopology[d][i].dev] = bapAddress[n]})].dev
  BY <1>3 DEF GetImsiOfOtherEndpoint
<1> QED
  BY <1>4, <1>5, NodeOfAddress

(* From the path identity of a packet the donor always makes the TEID of   *)
(* the node that sent it, for any trees and any order of attachments.      *)
THEOREM SenderAlwaysIdentified ==
  TopologySpec => []SenderIsIdentified
<1>1. TreeInv => SenderIsIdentified
  BY SenderFound DEF SenderIsIdentified, TreeInv, RoutingInv, AttachedHaveRoute
<1> QED
  BY TreeInvHolds, <1>1, PTL

--------------------------------------------------------------------------------
(***************************************************************************)
(* The places in the trees: the vector of a donor is the backhaul, and     *)
(* every path climbs it.                                                   *)
(***************************************************************************)
(* No device is twice in the vector of a donor.                            *)
NodesOnce ==
  \A d \in Donors : \A i, j \in Entries(d) :
    iabTopology[d][i].dev = iabTopology[d][j].dev => i = j

(* Behind the donor, the entries are nodes, each behind the entry of the   *)
(* device its MT was sent to.                                              *)
EntriesHang ==
  \A d \in Donors : \A i \in Entries(d) : i # 1 =>
    LET entry == iabTopology[d][i] IN
      /\ entry.dev \in IabNodes
      /\ entry.parent \in 1..(i - 1)
      /\ mtParent[entry.dev] = iabTopology[d][entry.parent].dev

(* From an entry to its parent's, up to the donor.                         *)
Climbs(top, walk) ==
  /\ walk \in Seq(DOMAIN top)
  /\ Len(walk) >= 2
  /\ walk[Len(walk)] = 1
  /\ \A i \in 1..(Len(walk) - 1) : walk[i] # 1 /\ walk[i + 1] = top[walk[i]].parent

(* Every path is made of the addresses along such a walk.                  *)
PathsClimb ==
  \A d \in Donors : \A id \in DOMAIN bapPaths[d] :
    \E walk : /\ Climbs(iabTopology[d], walk)
              /\ bapPaths[d][id] = PathAlong(iabTopology[d], walk)

PlacesInv ==
  /\ TreeInv
  /\ NodesOnce
  /\ EntriesHang
  /\ PathsClimb

(* A registration puts the node behind the entry of its parent, and the    *)
(* path along the walk from there to the donor under the next identity.    *)
Writes(d, n, p, index, walk) ==
  LET top == Append(iabTopology[d], [dev |-> n, parent |-> index]) IN
    /\ iabTopology[d][index].dev = p
    /\ iabTopology' = [iabTopology EXCEPT ![d] = top]
    /\ Climbs(top, walk)
    /\ bapPaths' = [bapPaths EXCEPT
         ![d] = [id \in DOMAIN bapPaths[d] \cup {bapPathIdCounter} |->
                   IF id = bapPathIdCounter
                   THEN PathAlong(top, walk) ELSE bapPaths[d][id]]]

LEMMA RegistrationWrites ==
  ASSUME TreeInv, NEW d \in Donors, NEW n \in IabNodes, NEW p \in Device,
         p \in Donors => p = d, Installed(n), Installed(d),
         RegisterNewIabAttachment(d, n, p)
  PROVE  \E index \in Entries(d) : \E walk : Writes(d, n, p, index, walk)
<1>1. TypeOK /\ DonorIsFirst
  BY DEF TreeInv, RoutingInv
<1>2. PICK index \in ParentIndices(d, p) :
        LET top == Append(iabTopology[d], [dev |-> n, parent |-> index]) IN
          /\ iabTopology' = [iabTopology EXCEPT ![d] = top]
          /\ \E walk \in Walks(top) :
               /\ IsWalkToDonor(top, walk)
               /\ bapPaths' = [bapPaths EXCEPT
                    ![d] = [id \in DOMAIN bapPaths[d] \cup {bapPathIdCounter} |->
                              IF id = bapPathIdCounter
                              THEN PathAlong(top, walk) ELSE bapPaths[d][id]]]
  BY DEF RegisterNewIabAttachment
<1>3. index \in Entries(d) /\ iabTopology[d][index].dev = p
  <2>1. CASE p \in Donors
    BY <1>1, <1>2, <2>1 DEF ParentIndices, DonorIsFirst
  <2>2. CASE p \notin Donors
    BY <1>1, <1>2, <2>2, TopologyEntries DEF ParentIndices
  <2> QED
    BY <2>1, <2>2
<1> DEFINE new == [dev |-> n, parent |-> index]
           top == Append(iabTopology[d], new)
<1>4. iabTopology[d] \in Seq(Entry) /\ new \in Entry
  <2>1. index \in Nat \ {0}
    BY <1>1, <1>3, TopologyEntries
  <2> QED
    BY <1>1, <2>1, TopologyEntries DEF Entry, Device
<1>5. top \in Seq(Entry) /\ Len(top) \in Nat /\ DOMAIN top = 1..Len(top)
  BY <1>4
<1>6. PICK walk \in Walks(top) :
        /\ IsWalkToDonor(top, walk)
        /\ bapPaths' = [bapPaths EXCEPT
             ![d] = [id \in DOMAIN bapPaths[d] \cup {bapPathIdCounter} |->
                       IF id = bapPathIdCounter
                       THEN PathAlong(top, walk) ELSE bapPaths[d][id]]]
  BY <1>2
<1> HIDE DEF top
<1>7. PICK len \in 2..Len(top) : walk \in [1..len -> 1..Len(top)]
  BY DEF Walks
<1>8. len \in Nat
  BY <1>5, <1>7
<1>9. walk \in Seq(DOMAIN top)
  BY <1>5, <1>7, <1>8, FunctionIsSequence
<1>10. Climbs(top, walk)
  BY <1>6, <1>9 DEF IsWalkToDonor, Climbs
<1>11. iabTopology' = [iabTopology EXCEPT ![d] = top]
  BY <1>2 DEF top
<1>12. Writes(d, n, p, index, walk)
  BY <1>3, <1>6, <1>10, <1>11 DEF Writes, top
<1> QED
  BY <1>3, <1>12

(* It holds at the start, and every action keeps it.                       *)
LEMMA InitPlacesInv == Init => PlacesInv
<1> SUFFICES ASSUME Init PROVE PlacesInv
  OBVIOUS
<1>1. NodesOnce /\ EntriesHang
  BY DEF Init, NodesOnce, EntriesHang, Entries
<1>2. PathsClimb
  BY DEF Init, PathsClimb
<1> QED
  BY <1>1, <1>2, InitTreeInv DEF PlacesInv

(* The addresses along a walk stay those of the same entries.              *)
LEMMA PathStays ==
  ASSUME RoutingInv, Grows, NEW d \in Donors, NEW walk, Climbs(iabTopology[d], walk),
         NEW top, \A i \in Entries(d) : i \in DOMAIN top /\ top[i] = iabTopology[d][i]
  PROVE  /\ Climbs(top, walk)
         /\ [i \in 1..Len(walk) |-> bapAddress'[top[walk[i]].dev]] =
              PathAlong(iabTopology[d], walk)
<1>1. walk \in Seq(Entries(d)) /\ Len(walk) \in Nat
  BY DEF Climbs, Entries
<1>2. walk \in Seq(DOMAIN top)
  BY <1>1
<1>3. \A i \in 1..Len(walk) :
        /\ walk[i] \in Entries(d)
        /\ top[walk[i]] = iabTopology[d][walk[i]]
  BY <1>1
<1>4. \A i \in 1..(Len(walk) - 1) : i \in 1..Len(walk)
  BY <1>1
<1>5. Climbs(top, walk)
  BY <1>2, <1>3, <1>4 DEF Climbs
<1>6. ASSUME NEW i \in 1..Len(walk)
      PROVE  bapAddress'[top[walk[i]].dev] = bapAddress[iabTopology[d][walk[i]].dev]
  <2>1. iabTopology[d][walk[i]].dev \in Device
    BY <1>3, TopologyEntries DEF RoutingInv, Entry
  <2>2. Installed(iabTopology[d][walk[i]].dev)
    BY <1>3 DEF RoutingInv, EntriesInstalled
  <2> QED
    BY <1>3, <2>1, <2>2 DEF Grows
<1> QED
  BY <1>5, <1>6 DEF PathAlong

(* A step that attaches nobody moves no entry of a donor that has any.     *)
LEMMA SamePlacesKeep ==
  ASSUME PlacesInv, TreeInv', Grows, UNCHANGED <<bapPaths, mtParent>>,
         \A d \in Donors :
           \/ iabTopology'[d] = iabTopology[d]
           \/ iabTopology[d] = <<>> /\ Len(iabTopology'[d]) = 1
  PROVE  PlacesInv'
<1>1. \A d \in Donors : /\ iabTopology[d] = <<>> => Entries(d) = {}
                        /\ Entries(d)' = DOMAIN iabTopology'[d]
  BY DEF Entries
<1>2. ASSUME NEW d \in Donors, iabTopology'[d] # iabTopology[d]
      PROVE  DOMAIN iabTopology'[d] = {1}
  <2>1. iabTopology'[d] \in Seq(Entry) /\ Len(iabTopology'[d]) = 1
    BY <1>2 DEF TreeInv, RoutingInv, TypeOK
  <2> QED
    BY <2>1
<1>3. NodesOnce'
  BY <1>2 DEF PlacesInv, NodesOnce, Entries
<1>4. EntriesHang'
  BY <1>2 DEF PlacesInv, EntriesHang, Entries
<1>5. PathsClimb'
  <2> SUFFICES ASSUME NEW d \in Donors, NEW id \in DOMAIN bapPaths[d]
               PROVE  \E walk : /\ Climbs(iabTopology[d], walk)'
                                /\ bapPaths[d][id] = PathAlong(iabTopology[d], walk)'
    BY DEF PathsClimb
  <2>1. PICK walk : /\ Climbs(iabTopology[d], walk)
                    /\ bapPaths[d][id] = PathAlong(iabTopology[d], walk)
    BY DEF PlacesInv, PathsClimb
  <2>2. iabTopology[d] # <<>>
    <3>1. Len(walk) \in Nat /\ Len(walk) >= 2 /\ walk \in Seq(DOMAIN iabTopology[d])
      BY <2>1 DEF Climbs
    <3>2. walk[1] \in DOMAIN iabTopology[d]
      BY <3>1
    <3> QED
      BY <3>2
  <2>3. iabTopology'[d] = iabTopology[d]
    BY <2>2
  <2>4. RoutingInv
    BY DEF PlacesInv, TreeInv
  <2>5. [i \in 1..Len(walk) |-> bapAddress'[iabTopology'[d][walk[i]].dev]] =
          PathAlong(iabTopology[d], walk)
    BY <2>1, <2>3, <2>4, PathStays DEF Entries
  <2>6. PathAlong(iabTopology[d], walk)' = bapPaths[d][id]
    BY <2>1, <2>5 DEF PathAlong
  <2>7. Climbs(iabTopology[d], walk)'
    BY <2>1, <2>3
  <2> QED
    BY <2>6, <2>7
<1> QED
  BY <1>3, <1>4, <1>5 DEF PlacesInv

(* An attachment adds one entry, behind its parent's, and one path.        *)
LEMMA AttachKeepsPlaces ==
  ASSUME PlacesInv, TreeInv', Grows,
         NEW n \in IabNodes, NEW p \in Device, NEW d \in Donors,
         p \in Donors => p = d,
         MayAttach(n), Installed(d), Attach(n, p, d)
  PROVE  PlacesInv'
<1>1. ASSUME NEW reason \in Failures, Fail(reason) PROVE PlacesInv'
  BY <1>1, SamePlacesKeep DEF Fail
<1>2. CASE /\ RegisterNewIabAttachment(d, n, p)
           /\ mtParent' = [mtParent EXCEPT ![n] = p]
           /\ UNCHANGED bapAddress
  <2>1. TreeInv /\ RoutingInv /\ TypeOK
    BY DEF PlacesInv, TreeInv, RoutingInv
  <2>2. Installed(n) /\ ~Attached(n)
    BY DEF MayAttach
  <2>3. PICK index \in Entries(d) : \E walk : Writes(d, n, p, index, walk)
    BY <1>2, <2>1, <2>2, RegistrationWrites
  <2>a. PICK walk : Writes(d, n, p, index, walk)
    BY <2>3
  <2>4. /\ iabTopology[d] \in Seq(Entry) /\ Len(iabTopology[d]) \in Nat
        /\ Entries(d) = 1..Len(iabTopology[d])
        /\ DOMAIN iabTopology = Donors /\ DOMAIN bapPaths = Donors
    BY <2>1, TopologyEntries DEF TypeOK
  <2> DEFINE len == Len(iabTopology[d])
             new == [dev |-> n, parent |-> index]
             top == Append(iabTopology[d], new)
  <2>5. new \in Entry
    BY <2>4 DEF Entry, Device
  <2>6. /\ DOMAIN top = 1..(len + 1) /\ top[len + 1] = new
        /\ \A i \in 1..len : top[i] = iabTopology[d][i]
    BY <2>4, <2>5
  <2>7. new.dev = n /\ new.parent = index /\ index \in 1..len
    BY <2>4
  <2>8. /\ iabTopology'[d] = top
        /\ \A e \in Donors \ {d} : iabTopology'[e] = iabTopology[e]
    BY <2>a, <2>4 DEF Writes
  <2> HIDE DEF new, top
  <2>9. \A e \in Donors : \A i \in Entries(e) : iabTopology[e][i].dev # n
    <3>1. servingDonor[n] = NoDevice /\ NoDevice \notin Donors
      BY <2>1, <2>2, TopologyAssumption DEF TreeInv, AttachedIsServed, Device
    <3>2. \A e \in Donors : ~Registered(e, n)
      BY <2>1, <3>1 DEF TreeInv, OneDonorPerTree
    <3> QED
      BY <3>2 DEF Registered, EntriesOf
  <2>10. \A i \in 1..(len + 1) : i \in 1..len \/ i = len + 1
    BY <2>4
  <2>11. NodesOnce'
    <3> SUFFICES ASSUME NEW e \in Donors, NEW i \in DOMAIN iabTopology'[e],
                        NEW j \in DOMAIN iabTopology'[e],
                        iabTopology'[e][i].dev = iabTopology'[e][j].dev
                 PROVE  i = j
      BY DEF NodesOnce, Entries
    <3>1. CASE e # d
      BY <2>8, <3>1 DEF PlacesInv, NodesOnce, Entries
    <3>2. CASE e = d
      <4>1. i \in 1..(len + 1) /\ j \in 1..(len + 1) /\ top[i].dev = top[j].dev
        BY <2>6, <2>8, <3>2
      <4>2. \A k \in 1..len : top[k].dev # n
        BY <2>4, <2>6, <2>9
      <4>3. i \in 1..len <=> j \in 1..len
        BY <2>6, <2>7, <2>10, <4>1, <4>2
      <4>4. CASE i \in 1..len
        BY <2>4, <2>6, <4>1, <4>3, <4>4 DEF PlacesInv, NodesOnce
      <4> QED
        BY <2>10, <4>1, <4>3, <4>4
    <3> QED
      BY <3>1, <3>2
  <2>12. /\ mtParent'[n] = p
         /\ \A m \in IabNodes \ {n} : mtParent'[m] = mtParent[m]
    BY <1>2, <2>1 DEF TypeOK
  <2>13. EntriesHang'
    <3> SUFFICES ASSUME NEW e \in Donors, NEW i \in DOMAIN iabTopology'[e], i # 1
                 PROVE  LET entry == iabTopology'[e][i] IN
                          /\ entry.dev \in IabNodes
                          /\ entry.parent \in 1..(i - 1)
                          /\ mtParent'[entry.dev] = iabTopology'[e][entry.parent].dev
      BY DEF EntriesHang, Entries
    <3>1. CASE i \in Entries(e) /\ iabTopology'[e][i] = iabTopology[e][i]
      <4>1. LET entry == iabTopology[e][i] IN
              /\ entry.dev \in IabNodes
              /\ entry.parent \in 1..(i - 1)
              /\ mtParent[entry.dev] = iabTopology[e][entry.parent].dev
        BY <3>1 DEF PlacesInv, EntriesHang
      <4>2. mtParent'[iabTopology[e][i].dev] = mtParent[iabTopology[e][i].dev]
        BY <2>9, <2>12, <3>1, <4>1
      <4>3. Entries(e) = 1..Len(iabTopology[e]) /\ Len(iabTopology[e]) \in Nat
        BY <2>1, TopologyEntries
      <4>4. iabTopology[e][i].parent \in Entries(e)
        BY <3>1, <4>1, <4>3
      <4>5. iabTopology'[e][iabTopology[e][i].parent] = iabTopology[e][iabTopology[e][i].parent]
        BY <2>4, <2>6, <2>8, <4>4
      <4> QED
        BY <3>1, <4>1, <4>2, <4>5
    <3>2. CASE e = d /\ i = len + 1
      <4>1. iabTopology'[e][i] = new
        BY <2>6, <2>8, <3>2
      <4>2. iabTopology'[e][index].dev = p
        BY <2>a, <2>6, <2>7, <2>8, <3>2 DEF Writes
      <4>3. (len + 1) - 1 = len
        BY <2>4
      <4> QED
        BY <2>7, <2>12, <3>2, <4>1, <4>2, <4>3
    <3>3. \/ i \in Entries(e) /\ iabTopology'[e][i] = iabTopology[e][i]
          \/ e = d /\ i = len + 1
      <4>1. CASE e = d
        BY <2>4, <2>6, <2>8, <2>10, <4>1
      <4>2. CASE e # d
        BY <2>8, <4>2 DEF Entries
      <4> QED
        BY <4>1, <4>2
    <3> QED
      BY <3>1, <3>2, <3>3
  <2>14. PathsClimb'
    <3> SUFFICES ASSUME NEW e \in Donors, NEW id \in DOMAIN bapPaths'[e]
                 PROVE  \E w : /\ Climbs(iabTopology[e], w)'
                               /\ bapPaths'[e][id] = PathAlong(iabTopology[e], w)'
      BY DEF PathsClimb
    <3>1. bapPaths' = [bapPaths EXCEPT
            ![d] = [x \in DOMAIN bapPaths[d] \cup {bapPathIdCounter} |->
                      IF x = bapPathIdCounter THEN PathAlong(top, walk) ELSE bapPaths[d][x]]]
      BY <2>a DEF top, new, Writes
    <3>2. CASE e = d /\ id = bapPathIdCounter
      <4>1. bapPaths'[e][id] = PathAlong(top, walk)
        BY <2>4, <3>1, <3>2
      <4>2. Climbs(iabTopology[e], walk)'
        BY <2>a, <2>8, <3>2 DEF top, new, Writes
      <4>3. PathAlong(top, walk) = PathAlong(iabTopology[e], walk)'
        BY <1>2, <2>8, <3>2 DEF PathAlong
      <4> QED
        BY <4>1, <4>2, <4>3
    <3>3. CASE id \in DOMAIN bapPaths[e] /\ bapPaths'[e][id] = bapPaths[e][id]
      <4>1. PICK w : /\ Climbs(iabTopology[e], w)
                     /\ bapPaths[e][id] = PathAlong(iabTopology[e], w)
        BY <3>3 DEF PlacesInv, PathsClimb
      <4>2. \A i \in Entries(e) : i \in DOMAIN iabTopology'[e]
                                  /\ iabTopology'[e][i] = iabTopology[e][i]
        <5>1. CASE e = d
          BY <2>4, <2>6, <2>8, <5>1
        <5>2. CASE e # d
          BY <2>8, <5>2 DEF Entries
        <5> QED
          BY <5>1, <5>2
      <4>3. /\ Climbs(iabTopology'[e], w)
            /\ [i \in 1..Len(w) |-> bapAddress'[iabTopology'[e][w[i]].dev]] =
                 PathAlong(iabTopology[e], w)
        BY <2>1, <4>1, <4>2, PathStays
      <4>4. Climbs(iabTopology[e], w)' /\ PathAlong(iabTopology[e], w)' = PathAlong(iabTopology[e], w)
        BY <4>3 DEF PathAlong
      <4> QED
        BY <3>3, <4>1, <4>4
    <3>4. \/ e = d /\ id = bapPathIdCounter
          \/ id \in DOMAIN bapPaths[e] /\ bapPaths'[e][id] = bapPaths[e][id]
      BY <2>4, <3>1
    <3> QED
      BY <3>2, <3>3, <3>4
  <2> QED
    BY <2>11, <2>13, <2>14 DEF PlacesInv
<1> QED
  BY <1>1, <1>2 DEF Attach, Failures

LEMMA NextPlacesInv ==
  PlacesInv /\ [TopologyNext]_topologyVars => PlacesInv'
<1> SUFFICES ASSUME PlacesInv, [TopologyNext]_topologyVars PROVE PlacesInv'
  OBVIOUS
<1>1. TreeInv /\ RoutingInv
  BY DEF PlacesInv, TreeInv
<1>2. TreeInv' /\ Grows
  BY <1>1, NextTreeInv, NextRoutingInv
<1>3. ASSUME NEW d \in Donors, InstallEnb(d) PROVE PlacesInv'
  <2>1. CASE AddressSpaceExhausted
    BY <1>2, <2>1, SamePlacesKeep DEF AddressSpaceExhausted, Fail
  <2>2. CASE ~AddressSpaceExhausted
    <3>1. /\ iabTopology' = [iabTopology EXCEPT
              ![d] = Append(@, [dev |-> d, parent |-> 1])]
          /\ UNCHANGED <<bapPaths, mtParent>>
          /\ ~Installed(d)
      BY <1>3, <2>2 DEF InstallEnb
    <3>2. iabTopology[d] = <<>> /\ DOMAIN iabTopology = Donors
      BY <1>1, <3>1 DEF RoutingInv, DonorIsFirst, TypeOK
    <3>3. /\ iabTopology'[d] = <<[dev |-> d, parent |-> 1]>>
          /\ \A e \in Donors \ {d} : iabTopology'[e] = iabTopology[e]
      BY <3>1, <3>2
    <3>4. Len(iabTopology'[d]) = 1
      BY <3>3
    <3> QED
      BY <1>2, <3>1, <3>2, <3>3, <3>4, SamePlacesKeep
  <2> QED
    BY <2>1, <2>2
<1>4. ASSUME NEW n \in IabNodes, InstallIab(n) PROVE PlacesInv'
  BY <1>2, <1>4, SamePlacesKeep DEF InstallIab, AddressSpaceExhausted, Fail
<1>5. ASSUME NEW n \in IabNodes, NEW d \in Donors, AttachIabToDonor(n, d) PROVE PlacesInv'
  BY <1>2, <1>5, AttachKeepsPlaces DEF AttachIabToDonor, Device
<1>6. ASSUME NEW n \in IabNodes, NEW p \in IabNodes, NEW d \in Donors, AttachIabToIab(n, p, d)
      PROVE  PlacesInv'
  BY <1>2, <1>6, AttachKeepsPlaces, TopologyAssumption DEF AttachIabToIab, Device
<1>7. CASE UNCHANGED topologyVars
  BY <1>2, <1>7, SamePlacesKeep DEF topologyVars
<1> QED
  BY <1>3, <1>4, <1>5, <1>6, <1>7 DEF TopologyNext

LEMMA PlacesInvHolds ==
  TopologySpec => []PlacesInv
BY InitPlacesInv, NextPlacesInv, PTL DEF TopologySpec

--------------------------------------------------------------------------------
(***************************************************************************)
(* What the look-ups compute from them.                                    *)
(***************************************************************************)
(* The devices along a walk.                                               *)
Along(d, walk) == [i \in 1..Len(walk) |-> iabTopology[d][walk[i]].dev]

(* The entries along a walk come ever earlier in the vector.               *)
LEMMA WalksDescend ==
  ASSUME PlacesInv, NEW d \in Donors, NEW walk, Climbs(iabTopology[d], walk)
  PROVE  /\ Len(walk) \in Nat
         /\ \A i \in 1..Len(walk) : walk[i] \in Entries(d) /\ walk[i] \in Nat
         /\ \A i, j \in 1..Len(walk) : i <= j => walk[j] + (j - i) <= walk[i]
<1>1. TypeOK /\ EntriesHang
  BY DEF PlacesInv, TreeInv, RoutingInv
<1>2. Entries(d) = 1..Len(iabTopology[d]) /\ Len(iabTopology[d]) \in Nat
  BY <1>1, TopologyEntries
<1>3. walk \in Seq(Entries(d)) /\ Len(walk) \in Nat
  BY DEF Climbs, Entries
<1>4. \A i \in 1..Len(walk) : walk[i] \in Entries(d)
  BY <1>3
<1>5. \A i \in 1..Len(walk) : walk[i] \in Nat
  BY <1>2, <1>4
<1>6. ASSUME NEW i \in 1..(Len(walk) - 1) PROVE walk[i + 1] + 1 <= walk[i]
  <2>1. i \in 1..Len(walk) /\ i + 1 \in 1..Len(walk)
    BY <1>3
  <2>2. walk[i] # 1 /\ walk[i + 1] = iabTopology[d][walk[i]].parent
    BY DEF Climbs
  <2>3. walk[i + 1] \in 1..(walk[i] - 1)
    BY <1>1, <1>4, <2>1, <2>2 DEF EntriesHang
  <2> QED
    BY <1>5, <2>1, <2>3
<1> DEFINE N == {m \in Nat : \A i \in 1..Len(walk) :
                   i + m <= Len(walk) => walk[i + m] + m <= walk[i]}
<1>7. 0 \in N
  <2>1. \A i \in 1..Len(walk) : i + 0 = i /\ walk[i] + 0 = walk[i]
    BY <1>5
  <2> QED
    BY <1>5, <2>1
<1>8. ASSUME NEW m \in Nat, m \in N PROVE m + 1 \in N
  <2> SUFFICES ASSUME NEW i \in 1..Len(walk), i + (m + 1) <= Len(walk)
               PROVE  walk[i + (m + 1)] + (m + 1) <= walk[i]
    OBVIOUS
  <2>1. i + m \in 1..(Len(walk) - 1) /\ (i + m) + 1 = i + (m + 1)
    BY <1>3
  <2>2. walk[i + (m + 1)] + 1 <= walk[i + m]
    BY <1>6, <2>1
  <2>3. walk[i + m] + m <= walk[i]
    BY <1>3, <1>8, <2>1
  <2>4. i + (m + 1) \in 1..Len(walk) /\ i + m \in 1..Len(walk)
    BY <1>3, <2>1
  <2>5. PICK a, b, c : a = walk[i] /\ b = walk[i + m] /\ c = walk[i + (m + 1)]
    OBVIOUS
  <2>6. a \in Nat /\ b \in Nat /\ c \in Nat
    BY <1>5, <2>4, <2>5
  <2>7. c + 1 <= b /\ b + m <= a
    BY <2>2, <2>3, <2>5
  <2>8. c + (m + 1) <= a
    BY <2>6, <2>7
  <2> QED
    BY <2>5, <2>8
<1>9. Nat \subseteq N
  <2> HIDE DEF N
  <2> QED
    BY <1>7, <1>8, SetInduction
<1>10. ASSUME NEW i \in 1..Len(walk), NEW j \in 1..Len(walk), i <= j
       PROVE  walk[j] + (j - i) <= walk[i]
  <2>1. j - i \in Nat /\ i + (j - i) = j
    BY <1>3, <1>10
  <2>2. j - i \in N
    BY <1>9, <2>1
  <2>3. i + (j - i) <= Len(walk)
    BY <2>1, <1>3
  <2>4. walk[i + (j - i)] + (j - i) <= walk[i]
    BY <2>2, <2>3
  <2> QED
    BY <2>1, <2>4
<1> QED
  BY <1>3, <1>4, <1>5, <1>10

(* From a node its donor is reached over the parents of the MTs, past no   *)
(* device twice.                                                           *)
Chain(d, n, c) ==
  /\ c \in Seq(Device)
  /\ Len(c) >= 2
  /\ c[1] = n
  /\ c[Len(c)] = d
  /\ \A i \in 1..(Len(c) - 1) : c[i] \in IabNodes /\ mtParent[c[i]] = c[i + 1]
  /\ \A i, j \in 1..Len(c) : c[i] = c[j] => i = j
  /\ Len(c) <= Len(iabTopology[d])
  /\ Len(c) - 1 <= Cardinality(IabNodes)

LEMMA WalkIsChain ==
  ASSUME PlacesInv, NEW d \in Donors, NEW walk, Climbs(iabTopology[d], walk),
         NEW n, iabTopology[d][walk[1]].dev = n
  PROVE  Chain(d, n, Along(d, walk)) /\ Len(Along(d, walk)) = Len(walk)
<1>1. TypeOK /\ EntriesHang /\ NodesOnce /\ DonorIsFirst
  BY DEF PlacesInv, TreeInv, RoutingInv
<1>2. /\ Len(walk) \in Nat
      /\ \A i \in 1..Len(walk) : walk[i] \in Entries(d) /\ walk[i] \in Nat
      /\ \A i, j \in 1..Len(walk) : i <= j => walk[j] + (j - i) <= walk[i]
  BY WalksDescend
<1>3. /\ Len(walk) >= 2 /\ walk[Len(walk)] = 1
      /\ \A i \in 1..(Len(walk) - 1) : walk[i] # 1 /\ walk[i + 1] = iabTopology[d][walk[i]].parent
  BY DEF Climbs
<1> DEFINE c == Along(d, walk)
           len == Len(walk)
<1>4. Entries(d) = 1..Len(iabTopology[d]) /\ Len(iabTopology[d]) \in Nat
  BY <1>1, TopologyEntries
<1>5. \A i \in Entries(d) : iabTopology[d][i].dev \in Device
  BY <1>1, TopologyEntries DEF Entry
<1>6. \A i \in 1..len : c[i] = iabTopology[d][walk[i]].dev /\ c[i] \in Device
  BY <1>2, <1>5 DEF Along
<1>7. c \in [1..len -> Device]
  BY <1>6 DEF Along
<1>8. c \in Seq(Device) /\ Len(c) = len
  <2> HIDE DEF c
  <2> QED
    BY <1>2, <1>7, FunctionIsSequence, LengthOfFunction
<1> HIDE DEF c
<1>9. 1 \in 1..len /\ len \in 1..len /\ \A i \in 1..(len - 1) : i \in 1..len /\ i + 1 \in 1..len
  BY <1>2, <1>3
<1>10. c[1] = n
  BY <1>6, <1>9
<1>11. c[len] = d
  <2>1. 1 \in Entries(d)
    BY <1>2, <1>3, <1>9
  <2>2. iabTopology[d][1].dev = d
    BY <1>1, <2>1 DEF DonorIsFirst, Entries
  <2> QED
    BY <1>3, <1>6, <1>9, <2>2
<1>12. ASSUME NEW i \in 1..(len - 1) PROVE c[i] \in IabNodes /\ mtParent[c[i]] = c[i + 1]
  <2>1. walk[i] \in Entries(d) /\ walk[i] # 1 /\ walk[i + 1] = iabTopology[d][walk[i]].parent
    BY <1>2, <1>3, <1>9
  <2>2. /\ iabTopology[d][walk[i]].dev \in IabNodes
        /\ mtParent[iabTopology[d][walk[i]].dev] = iabTopology[d][walk[i + 1]].dev
    BY <1>1, <2>1 DEF EntriesHang
  <2> QED
    BY <1>6, <1>9, <2>2
<1>13. ASSUME NEW i \in 1..len, NEW j \in 1..len, c[i] = c[j] PROVE i = j
  <2>1. walk[i] = walk[j]
    BY <1>1, <1>2, <1>6, <1>13 DEF NodesOnce
  <2>2. walk[i] \in Nat
    BY <1>2
  <2>3. CASE i <= j
    BY <1>2, <2>1, <2>2, <2>3
  <2>4. CASE j <= i
    BY <1>2, <2>1, <2>2, <2>4
  <2> QED
    BY <1>2, <2>3, <2>4
<1>14. len <= Len(iabTopology[d])
  <2>0. 1 <= len
    BY <1>2, <1>3
  <2> HIDE DEF len
  <2>a. \A i, j \in 1..len : i <= j => walk[j] + (j - i) <= walk[i]
    BY <1>2 DEF len
  <2>1. walk[len] + (len - 1) <= walk[1]
    BY <1>9, <2>0, <2>a
  <2>2. walk[1] \in 1..Len(iabTopology[d])
    BY <1>2, <1>4, <2>0 DEF len
  <2>3. walk[len] = 1 /\ len \in Nat
    BY <1>2, <1>3 DEF len
  <2> QED
    BY <1>4, <2>1, <2>2, <2>3
<1>15. len - 1 <= Cardinality(IabNodes)
  <2> DEFINE f == [i \in 1..(len - 1) |-> c[i]]
  <2>1. f \in [1..(len - 1) -> IabNodes]
    BY <1>12
  <2>2. \A i, j \in 1..(len - 1) : f[i] = f[j] => i = j
    BY <1>9, <1>13
  <2> HIDE DEF f
  <2>3. f \in Injection(1..(len - 1), IabNodes)
    BY <2>1, <2>2 DEF Injection, IsInjective
  <2>4. Cardinality(1..(len - 1)) <= Cardinality(IabNodes)
    BY <2>3, NodesAreFinite, FS_Injection
  <2>5. Cardinality(1..(len - 1)) = len - 1
    BY <1>2, <1>3, FS_Interval
  <2> QED
    BY <2>4, <2>5
<1> QED
  BY <1>3, <1>8, <1>10, <1>11, <1>12, <1>13, <1>14, <1>15 DEF Chain, c

(* Backhaul goes over the same devices.                                    *)
LEMMA BackhaulIsChain ==
  ASSUME NEW d \in Donors, NEW n \in IabNodes, NEW c, Chain(d, n, c)
  PROVE  Backhaul(n) = c
<1> DEFINE bound == Cardinality(IabNodes)
           Step(g) == [k \in 0..bound |->
                         IF k = 0 THEN <<n>>
                         ELSE IF Last(g[k - 1]) \in Donors THEN g[k - 1]
                              ELSE Append(g[k - 1], mtParent[Last(g[k - 1])])]
           I == CHOOSE g : g = Step(g)
           Reached(k) == IF k + 1 <= Len(c) THEN k + 1 ELSE Len(c)
           h == [k \in 0..bound |-> SubSeq(c, 1, Reached(k))]
<1>1. bound \in Nat
  BY NodesAreFinite, FS_CardinalityType
<1>2. /\ c \in Seq(Device) /\ Len(c) \in Nat /\ Len(c) >= 2
      /\ c[1] = n /\ c[Len(c)] = d /\ Len(c) - 1 <= bound
      /\ \A i \in 1..(Len(c) - 1) : c[i] \in IabNodes /\ mtParent[c[i]] = c[i + 1]
  BY DEF Chain
<1>3. Backhaul(n) = I[bound]
  BY DEF Backhaul
<1> HIDE DEF bound, I
<1>4. ASSUME NEW k \in 1..Len(c)
      PROVE  /\ SubSeq(c, 1, k) \in Seq(Device)
             /\ Len(SubSeq(c, 1, k)) = k
             /\ Last(SubSeq(c, 1, k)) = c[k]
  <2>1. /\ SubSeq(c, 1, k) \in Seq(Device) /\ Len(SubSeq(c, 1, k)) = k
        /\ SubSeq(c, 1, k)[k] = c[k]
    BY <1>2
  <2> QED
    BY <2>1 DEF Last
<1>5. ASSUME NEW k \in 1..(Len(c) - 1)
      PROVE  Append(SubSeq(c, 1, k), c[k + 1]) = SubSeq(c, 1, k + 1)
  BY <1>2
<1>6. h[0] = <<n>>
  <2>1. Reached(0) = 1 /\ 0 \in 0..bound
    BY <1>1, <1>2
  <2>2. SubSeq(c, 1, 1) = <<n>>
    <3>1. /\ SubSeq(c, 1, 1) \in Seq(Device) /\ Len(SubSeq(c, 1, 1)) = 1
          /\ SubSeq(c, 1, 1)[1] = n
      BY <1>2
    <3>2. n \in Device
      BY DEF Device
    <3>3. <<n>> \in Seq(Device) /\ Len(<<n>>) = 1 /\ <<n>>[1] = n
      BY <3>2
    <3>4. \A i \in 1..1 : SubSeq(c, 1, 1)[i] = <<n>>[i]
      BY <3>1, <3>3
    <3> QED
      BY <3>1, <3>3, <3>4, SeqEqual
  <2> QED
    BY <2>1, <2>2
<1>7. ASSUME NEW k \in 0..bound, k # 0
      PROVE  h[k] = IF Last(h[k - 1]) \in Donors THEN h[k - 1]
                    ELSE Append(h[k - 1], mtParent[Last(h[k - 1])])
  <2>1. k - 1 \in 0..bound /\ k \in Nat
    BY <1>1, <1>7
  <2>2. CASE k < Len(c)
    <3>1. Reached(k - 1) = k /\ Reached(k) = k + 1 /\ k \in 1..(Len(c) - 1) /\ k \in 1..Len(c)
      BY <1>2, <1>7, <2>1, <2>2
    <3>2. h[k - 1] = SubSeq(c, 1, k) /\ h[k] = SubSeq(c, 1, k + 1)
      BY <2>1, <3>1
    <3> HIDE DEF h
    <3>3. Last(h[k - 1]) = c[k]
      BY <1>4, <3>1, <3>2
    <3>4. c[k] \notin Donors /\ mtParent[c[k]] = c[k + 1]
      BY <1>2, <3>1, TopologyAssumption
    <3> QED
      BY <1>5, <3>1, <3>2, <3>3, <3>4
  <2>3. CASE ~(k < Len(c))
    <3>1. Reached(k - 1) = Len(c) /\ Reached(k) = Len(c) /\ Len(c) \in 1..Len(c)
      BY <1>2, <2>1, <2>3
    <3>2. h[k - 1] = SubSeq(c, 1, Len(c)) /\ h[k] = h[k - 1]
      BY <2>1, <3>1
    <3> HIDE DEF h
    <3>3. Last(h[k - 1]) = d
      BY <1>2, <1>4, <3>1, <3>2
    <3> QED
      BY <3>2, <3>3
  <2> QED
    BY <2>2, <2>3
<1>8. h[bound] = c
  <2>1. Reached(bound) = Len(c) /\ bound \in 0..bound
    BY <1>1, <1>2
  <2>2. SubSeq(c, 1, Len(c)) = c
    BY <1>2
  <2> QED
    BY <2>1, <2>2
<1>9. h = Step(h)
  <2>1. h = [k \in 0..bound |-> h[k]]
    OBVIOUS
  <2> HIDE DEF h
  <2> QED
    BY <1>6, <1>7, <2>1
<1> HIDE DEF h
<1>10. I = Step(I)
  BY <1>9 DEF I
<1>11. I[0] = h[0]
  BY <1>1, <1>6, <1>10
<1>12. ASSUME NEW k \in 0..(bound - 1), I[k] = h[k] PROVE I[k + 1] = h[k + 1]
  <2>1. k + 1 \in 0..bound /\ k + 1 # 0 /\ (k + 1) - 1 = k
    BY <1>1
  <2>2. I[k + 1] = IF Last(I[k]) \in Donors THEN I[k]
                   ELSE Append(I[k], mtParent[Last(I[k])])
    BY <1>10, <2>1
  <2>3. h[k + 1] = IF Last(h[k]) \in Donors THEN h[k]
                   ELSE Append(h[k], mtParent[Last(h[k])])
    BY <1>7, <2>1
  <2> QED
    BY <1>12, <2>2, <2>3
<1>13. \A k \in 0..bound : I[k] = h[k]
  BY <1>1, <1>11, <1>12, StepsAgree
<1>14. I[bound] = h[bound]
  BY <1>1, <1>13
<1> QED
  BY <1>3, <1>8, <1>14

(* Each hop that is looked up is the next on a list of addresses.          *)
LeadsAlong(d, id, Q) ==
  \A i \in 1..(Len(Q) - 1) :
    /\ Q[i] # Q[Len(Q)]
    /\ HasNextHop(d, Q[i], Q[Len(Q)], id)
    /\ GetNextBapPathHop(d, Q[i], Q[Len(Q)], id) = Q[i + 1]

(* Packets that are led along a list are sent along all of it.             *)
LEMMA HopsAlong ==
  ASSUME NEW d \in Donors, NEW id, NEW Q \in Seq(Nat), Len(Q) >= 1,
         Len(iabTopology[d]) \in Nat, Len(Q) <= Len(iabTopology[d]),
         NEW local, local = Q[1], NEW dest, dest = Q[Len(Q)],
         LeadsAlong(d, id, Q)
  PROVE  Hops(d, local, dest, id) = Q
<1> DEFINE most == Len(iabTopology[d])
           Step(g) == [k \in 0..most |->
                         IF k = 0 THEN <<local>>
                         ELSE IF Last(g[k - 1]) = dest \/ ~HasNextHop(d, Last(g[k - 1]), dest, id)
                              THEN g[k - 1]
                              ELSE Append(g[k - 1],
                                          GetNextBapPathHop(d, Last(g[k - 1]), dest, id))]
           I == CHOOSE g : g = Step(g)
           Reached(k) == IF k + 1 <= Len(Q) THEN k + 1 ELSE Len(Q)
           h == [k \in 0..most |-> SubSeq(Q, 1, Reached(k))]
<1>1. Len(Q) \in Nat /\ most \in Nat /\ Len(Q) <= most
  OBVIOUS
<1>2. Hops(d, local, dest, id) = I[most]
  BY DEF Hops
<1> HIDE DEF I, most
<1>3. ASSUME NEW k \in 1..Len(Q)
      PROVE  /\ SubSeq(Q, 1, k) \in Seq(Nat)
             /\ Len(SubSeq(Q, 1, k)) = k
             /\ Last(SubSeq(Q, 1, k)) = Q[k]
  <2>1. /\ SubSeq(Q, 1, k) \in Seq(Nat) /\ Len(SubSeq(Q, 1, k)) = k
        /\ SubSeq(Q, 1, k)[k] = Q[k]
    BY <1>1
  <2> QED
    BY <2>1 DEF Last
<1>4. ASSUME NEW k \in 1..(Len(Q) - 1)
      PROVE  Append(SubSeq(Q, 1, k), Q[k + 1]) = SubSeq(Q, 1, k + 1)
  BY <1>1
<1>5. h[0] = <<local>>
  <2>1. Reached(0) = 1 /\ 0 \in 0..most
    BY <1>1
  <2>2. SubSeq(Q, 1, 1) = <<Q[1]>>
    <3>1. /\ SubSeq(Q, 1, 1) \in Seq(Nat) /\ Len(SubSeq(Q, 1, 1)) = 1
          /\ SubSeq(Q, 1, 1)[1] = Q[1] /\ Q[1] \in Nat
      BY <1>1
    <3>2. <<Q[1]>> \in Seq(Nat) /\ Len(<<Q[1]>>) = 1 /\ <<Q[1]>>[1] = Q[1]
      BY <3>1
    <3>3. \A i \in 1..1 : SubSeq(Q, 1, 1)[i] = <<Q[1]>>[i]
      BY <3>1, <3>2
    <3> QED
      BY <3>1, <3>2, <3>3, SeqEqual
  <2> QED
    BY <2>1, <2>2
<1>6. ASSUME NEW k \in 0..most, k # 0
      PROVE  h[k] = IF Last(h[k - 1]) = dest \/ ~HasNextHop(d, Last(h[k - 1]), dest, id)
                    THEN h[k - 1]
                    ELSE Append(h[k - 1], GetNextBapPathHop(d, Last(h[k - 1]), dest, id))
  <2>1. k - 1 \in 0..most /\ k \in Nat
    BY <1>1, <1>6
  <2>2. CASE k < Len(Q)
    <3>1. Reached(k - 1) = k /\ Reached(k) = k + 1 /\ k \in 1..(Len(Q) - 1) /\ k \in 1..Len(Q)
      BY <1>1, <1>6, <2>1, <2>2
    <3>2. h[k - 1] = SubSeq(Q, 1, k) /\ h[k] = SubSeq(Q, 1, k + 1)
      BY <2>1, <3>1
    <3> HIDE DEF h
    <3>3. Last(h[k - 1]) = Q[k]
      BY <1>3, <3>1, <3>2
    <3>4. /\ Q[k] # dest /\ HasNextHop(d, Q[k], dest, id)
          /\ GetNextBapPathHop(d, Q[k], dest, id) = Q[k + 1]
      BY <3>1 DEF LeadsAlong
    <3> QED
      BY <1>4, <3>1, <3>2, <3>3, <3>4
  <2>3. CASE ~(k < Len(Q))
    <3>1. Reached(k - 1) = Len(Q) /\ Reached(k) = Len(Q) /\ Len(Q) \in 1..Len(Q)
      BY <1>1, <2>1, <2>3
    <3>2. h[k - 1] = SubSeq(Q, 1, Len(Q)) /\ h[k] = h[k - 1]
      BY <2>1, <3>1
    <3> HIDE DEF h
    <3>3. Last(h[k - 1]) = dest
      BY <1>3, <3>1, <3>2
    <3> QED
      BY <3>2, <3>3
  <2> QED
    BY <2>2, <2>3
<1>7. h[most] = Q
  <2>1. Reached(most) = Len(Q) /\ most \in 0..most
    BY <1>1
  <2>2. SubSeq(Q, 1, Len(Q)) = Q
    BY <1>1
  <2> QED
    BY <2>1, <2>2
<1>8. h = Step(h)
  <2>1. h = [k \in 0..most |-> h[k]]
    OBVIOUS
  <2> HIDE DEF h
  <2> QED
    BY <1>5, <1>6, <2>1
<1> HIDE DEF h
<1>9. I = Step(I)
  BY <1>8 DEF I
<1>10. I[0] = h[0]
  BY <1>1, <1>5, <1>9
<1>11. ASSUME NEW k \in 0..(most - 1), I[k] = h[k] PROVE I[k + 1] = h[k + 1]
  <2>1. k + 1 \in 0..most /\ k + 1 # 0 /\ (k + 1) - 1 = k
    BY <1>1
  <2>2. I[k + 1] = IF Last(I[k]) = dest \/ ~HasNextHop(d, Last(I[k]), dest, id)
                   THEN I[k]
                   ELSE Append(I[k], GetNextBapPathHop(d, Last(I[k]), dest, id))
    BY <1>9, <2>1
  <2>3. h[k + 1] = IF Last(h[k]) = dest \/ ~HasNextHop(d, Last(h[k]), dest, id)
                   THEN h[k]
                   ELSE Append(h[k], GetNextBapPathHop(d, Last(h[k]), dest, id))
    BY <1>6, <2>1
  <2> QED
    BY <1>11, <2>2, <2>3
<1>12. \A k \in 0..most : I[k] = h[k]
  BY ZenonT(60), <1>1, <1>10, <1>11, StepsAgree
<1>13. I[most] = h[most]
  BY <1>1, <1>12
<1> QED
  BY <1>2, <1>7, <1>13

(* The path of a node that is looked up, and the devices along it.         *)
LEMMA RouteIsChain ==
  ASSUME PlacesInv, NEW n \in IabNodes, Attached(n), NEW d \in Donors, d = servingDonor[n]
  PROVE  LET id == GetPathId(d, bapAddress[n], bapAddress[d]) IN
           \E walk : LET c == Along(d, walk) IN
             /\ Climbs(iabTopology[d], walk)
             /\ iabTopology[d][walk[1]].dev = n
             /\ Chain(d, n, c)
             /\ Len(c) = Len(walk)
             /\ id \in DOMAIN bapPaths[d]
             /\ bapPaths[d][id] = AddressesOf(c)
             /\ bapPaths[d][id] \in Seq(Nat)
             /\ Len(bapPaths[d][id]) = Len(c)
             /\ \A i, j \in 1..Len(c) : bapPaths[d][id][i] = bapPaths[d][id][j] => i = j
<1>1. TreeInv /\ TypeOK /\ DonorIsFirst /\ EntriesInstalled /\ AddressesDiffer /\ PathsClimb
  BY DEF PlacesInv, TreeInv, RoutingInv
<1> DEFINE id == GetPathId(d, bapAddress[n], bapAddress[d])
           path == bapPaths[d][id]
<1>2. /\ id \in DOMAIN bapPaths[d]
      /\ Installed(n) /\ Installed(d) /\ n # d
      /\ \/ path[1] = bapAddress[n] /\ path[Len(path)] = bapAddress[d]
         \/ path[1] = bapAddress[d] /\ path[Len(path)] = bapAddress[n]
  BY <1>1, PathFound
<1> HIDE DEF id
<1>3. PICK walk : Climbs(iabTopology[d], walk) /\ path = PathAlong(iabTopology[d], walk)
  BY <1>1, <1>2 DEF PathsClimb
<1> DEFINE c == Along(d, walk)
           first == iabTopology[d][walk[1]].dev
<1>4. Chain(d, first, c) /\ Len(c) = Len(walk)
  BY <1>3, WalkIsChain, PlacesInv
<1>5. /\ Len(walk) \in Nat /\ Len(walk) >= 2 /\ walk[Len(walk)] = 1
      /\ \A i \in 1..Len(walk) : walk[i] \in Entries(d)
  BY <1>3, WalksDescend, PlacesInv DEF Climbs
<1>6. \A i \in 1..Len(walk) :
        /\ iabTopology[d][walk[i]].dev \in Device
        /\ bapAddress[iabTopology[d][walk[i]].dev] \in Nat \ {0}
  <2> SUFFICES ASSUME NEW i \in 1..Len(walk)
               PROVE  /\ iabTopology[d][walk[i]].dev \in Device
                      /\ bapAddress[iabTopology[d][walk[i]].dev] \in Nat \ {0}
    OBVIOUS
  <2>1. iabTopology[d][walk[i]].dev \in Device
    BY <1>1, <1>5, TopologyEntries DEF Entry
  <2>2. bapAddress[iabTopology[d][walk[i]].dev] # 0
    BY <1>1, <1>5 DEF EntriesInstalled, Installed
  <2>3. bapAddress[iabTopology[d][walk[i]].dev] \in 0..MaxBapAddress
    BY <1>1, <2>1 DEF TypeOK
  <2>4. 0..MaxBapAddress \subseteq Nat
    BY DEF MaxBapAddress
  <2> QED
    BY <2>1, <2>2, <2>3, <2>4
<1>7. /\ path \in [1..Len(walk) -> Nat]
      /\ \A i \in 1..Len(walk) : path[i] = bapAddress[iabTopology[d][walk[i]].dev]
  <2>1. path = [i \in 1..Len(walk) |-> bapAddress[iabTopology[d][walk[i]].dev]]
    BY <1>3 DEF PathAlong
  <2> HIDE DEF path
  <2> QED
    BY <1>6, <2>1
<1>8. path \in Seq(Nat) /\ Len(path) = Len(walk)
  <2> HIDE DEF path
  <2> QED
    BY ONLY <1>5, <1>7, FunctionIsSequence, LengthOfFunction
<1>9. \A i \in 1..Len(walk) : c[i] = iabTopology[d][walk[i]].dev
  BY DEF Along
<1>10. DOMAIN c = 1..Len(walk)
  BY DEF Along
<1>11. path = AddressesOf(c)
  BY <1>3, <1>9, <1>10 DEF PathAlong, AddressesOf
<1>12. ASSUME NEW i \in 1..Len(c), NEW j \in 1..Len(c), path[i] = path[j] PROVE i = j
  <2>1. c[i] \in Device /\ c[j] \in Device /\ bapAddress[c[i]] = bapAddress[c[j]]
        /\ bapAddress[c[i]] # 0
    <3>1. ASSUME NEW k \in 1..Len(c)
          PROVE  c[k] \in Device /\ path[k] = bapAddress[c[k]] /\ bapAddress[c[k]] # 0
      <4>1. k \in 1..Len(walk)
        BY <1>4
      <4>2. c[k] = iabTopology[d][walk[k]].dev
        BY ONLY <1>9, <4>1
      <4>3. path[k] = bapAddress[iabTopology[d][walk[k]].dev]
        BY ONLY <1>7, <4>1
      <4>4. /\ iabTopology[d][walk[k]].dev \in Device
            /\ bapAddress[iabTopology[d][walk[k]].dev] \in Nat \ {0}
        BY ONLY <1>6, <4>1
      <4> QED
        BY ONLY <4>2, <4>3, <4>4
    <3> QED
      BY ONLY <1>12, <3>1
  <2>2. c[i] = c[j]
    BY <1>1, <2>1 DEF AddressesDiffer, Installed
  <2> QED
    BY <1>4, <2>2 DEF Chain
<1>13. path[Len(path)] = bapAddress[d]
  <2>1. iabTopology[d][1].dev = d
    BY <1>1, <1>2 DEF DonorIsFirst
  <2> QED
    BY ONLY <1>5, <1>7, <1>8, <2>1
<1>14. first = n
  <2>1. n \in Device /\ d \in Device
    BY DEF Device
  <2>2. bapAddress[n] # bapAddress[d]
    BY <1>1, <1>2, <2>1 DEF AddressesDiffer
  <2>3. path[1] = bapAddress[n] /\ path[1] = bapAddress[first] /\ first \in Device
    <3>1. 1 \in 1..Len(walk)
      BY <1>5
    <3>2. path[1] = bapAddress[first] /\ first \in Device
      BY <1>6, <1>7, <3>1
    <3>3. path[1] = bapAddress[n]
      BY ONLY <1>2, <1>13, <2>2
    <3> QED
      BY ONLY <3>2, <3>3
  <2> QED
    BY <1>1, <1>2, <2>1, <2>3 DEF AddressesDiffer
<1> HIDE DEF c, path
<1>15. Chain(d, n, c) /\ iabTopology[d][walk[1]].dev = n
  BY <1>4, <1>14
<1> QED
  BY <1>2, <1>3, <1>4, <1>8, <1>11, <1>12, <1>15 DEF id, path, c

(* The only place of an address on a path is the one the look-up finds.    *)
LEMMA PlaceOnPath ==
  ASSUME NEW path \in Seq(Nat), NEW k \in 1..Len(path),
         \A i, j \in 1..Len(path) : path[i] = path[j] => i = j
  PROVE  FirstOf({i \in DOMAIN path : path[i] = path[k]}) = k
<1>1. DOMAIN path = 1..Len(path) /\ Len(path) \in Nat
  OBVIOUS
<1>2. {i \in DOMAIN path : path[i] = path[k]} = {k}
  BY <1>1
<1> QED
  BY <1>2 DEF FirstOf

(* The packets between a node and its donor are led along the backhaul, in *)
(* either direction.                                                       *)
LEMMA RouteLeads ==
  ASSUME PlacesInv, NEW n \in IabNodes, Attached(n), NEW d \in Donors, d = servingDonor[n]
  PROVE  LET id == GetPathId(d, bapAddress[n], bapAddress[d])
             c == Backhaul(n)
             path == AddressesOf(c)
         IN  /\ Chain(d, n, c)
             /\ \A k \in 1..Len(c) : Registered(d, c[k]) /\ path[k] = bapAddress[c[k]]
             /\ id \in DOMAIN bapPaths[d]
             /\ path \in Seq(Nat) /\ Len(path) = Len(c)
             /\ LeadsAlong(d, id, path)
             /\ Reverse(path) \in Seq(Nat) /\ Len(Reverse(path)) = Len(c)
             /\ \A k \in 1..Len(c) : Reverse(path)[k] = path[(Len(c) - k) + 1]
             /\ LeadsAlong(d, id, Reverse(path))
<1> DEFINE id == GetPathId(d, bapAddress[n], bapAddress[d])
           path == bapPaths[d][id]
<1>1. PICK walk : LET c == Along(d, walk) IN
        /\ Climbs(iabTopology[d], walk)
        /\ Chain(d, n, c)
        /\ Len(c) = Len(walk)
        /\ id \in DOMAIN bapPaths[d]
        /\ path = AddressesOf(c)
        /\ path \in Seq(Nat)
        /\ Len(path) = Len(c)
        /\ \A i, j \in 1..Len(c) : path[i] = path[j] => i = j
  BY RouteIsChain
<1> DEFINE c == Along(d, walk)
<1>2. \A k \in 1..Len(c) : Registered(d, c[k])
  <2> SUFFICES ASSUME NEW k \in 1..Len(c) PROVE Registered(d, c[k])
    OBVIOUS
  <2>1. k \in 1..Len(walk) /\ walk[k] \in Entries(d)
    BY <1>1, WalksDescend
  <2>2. c[k] = iabTopology[d][walk[k]].dev
    BY <2>1 DEF Along
  <2> QED
    BY <2>1, <2>2 DEF Registered, EntriesOf
<1>3. Backhaul(n) = c
  BY <1>1, BackhaulIsChain
<1> HIDE DEF id, c
<1>4. /\ c \in Seq(Device) /\ Len(c) \in Nat /\ Len(c) >= 2 /\ c[1] = n /\ c[Len(c)] = d
      /\ Len(c) <= Len(iabTopology[d])
  BY <1>1 DEF Chain, c
<1>5. /\ path = AddressesOf(c) /\ path \in Seq(Nat) /\ Len(path) = Len(c)
      /\ id \in DOMAIN bapPaths[d]
      /\ \A i, j \in 1..Len(c) : path[i] = path[j] => i = j
  BY <1>1 DEF c
<1>6. path[1] = bapAddress[n] /\ path[Len(path)] = bapAddress[d]
  BY <1>4, <1>5 DEF AddressesOf
<1> DEFINE len == Len(path)
<1>7. len \in Nat /\ len >= 2 /\ len <= Len(iabTopology[d]) /\ DOMAIN path = 1..len
      /\ 1 \in 1..len /\ len \in 1..len
  BY <1>4, <1>5
<1>8. \A k \in 1..len : FirstOf({i \in DOMAIN path : path[i] = path[k]}) = k
  <2> HIDE DEF path
  <2> QED
    BY <1>5, PlaceOnPath
<1>9. ASSUME NEW k \in 1..(len - 1)
      PROVE  /\ path[k] # path[len]
             /\ HasNextHop(d, path[k], path[len], id)
             /\ GetNextBapPathHop(d, path[k], path[len], id) = path[k + 1]
  <2>1. k \in 1..len /\ k # len
    BY <1>7
  <2>2. path[k] # path[len]
    BY <1>5, <1>7, <2>1
  <2>3. HasNextHop(d, path[k], path[len], id)
    BY <1>5, <1>7, <2>1, <2>2 DEF HasNextHop
  <2>4. GetNextBapPathHop(d, path[k], path[len], id) = path[k + 1]
    BY <1>8, <2>1 DEF GetNextBapPathHop
  <2> QED
    BY <2>2, <2>3, <2>4
<1>10. LeadsAlong(d, id, path)
  BY <1>9 DEF LeadsAlong
<1> DEFINE back == Reverse(path)
<1>12. /\ back \in Seq(Nat) /\ Len(back) = len
       /\ \A k \in 1..len : back[k] = path[(len - k) + 1]
  <2>1. back = [k \in 1..len |-> path[(len - k) + 1]]
    BY DEF Reverse
  <2> HIDE DEF path, back
  <2>2. \A k \in 1..len : (len - k) + 1 \in 1..len
    BY <1>7
  <2>3. back \in [1..len -> Nat]
    BY <1>5, <2>1, <2>2
  <2>4. \A k \in 1..len : back[k] = path[(len - k) + 1]
    BY <2>1
  <2> QED
    BY <1>7, <2>3, <2>4, FunctionIsSequence, LengthOfFunction
<1> HIDE DEF back
<1>13. back[1] = path[len] /\ back[len] = path[1]
  BY <1>7, <1>12
<1>14. ASSUME NEW k \in 1..(len - 1)
       PROVE  /\ back[k] # back[len]
              /\ HasNextHop(d, back[k], back[len], id)
              /\ GetNextBapPathHop(d, back[k], back[len], id) = back[k + 1]
  <2> DEFINE j == (len - k) + 1
  <2>1. /\ k \in 1..len /\ k + 1 \in 1..len /\ j \in 1..len /\ j # 1
        /\ (len - (k + 1)) + 1 = j - 1
    BY <1>7
  <2>2. back[k] = path[j] /\ back[k + 1] = path[j - 1]
    BY <1>12, <2>1
  <2> HIDE DEF j
  <2>3. path[j] # path[1] /\ path[len] # path[1]
    BY <1>5, <1>7, <2>1
  <2>4. HasNextHop(d, path[j], path[1], id)
    BY <1>5, <1>7, <2>1, <2>3 DEF HasNextHop
  <2>5. GetNextBapPathHop(d, path[j], path[1], id) = path[j - 1]
    BY <1>8, <2>1, <2>3 DEF GetNextBapPathHop
  <2> QED
    BY <1>13, <2>2, <2>3, <2>4, <2>5
<1>15. LeadsAlong(d, id, back)
  <2>1. Len(back) = len
    BY <1>12
  <2> QED
    BY <1>14, <2>1 DEF LeadsAlong
<1>16. \A k \in 1..Len(c) : path[k] = bapAddress[c[k]]
  BY <1>4, <1>5 DEF AddressesOf
<1>17. Chain(d, n, c)
  BY <1>1 DEF c
<1> QED
  BY <1>2, <1>3, <1>5, <1>10, <1>12, <1>15, <1>16, <1>17 DEF back, id

(* So the hops that are looked up are the backhaul.                        *)
LEMMA RoutesFollow ==
  ASSUME PlacesInv, NEW n \in IabNodes, Attached(n), NEW d \in Donors, d = servingDonor[n]
  PROVE  LET up == bapAddress[d]
             id == GetPathId(d, bapAddress[n], up)
         IN  /\ PathsBetween(d, bapAddress[n], up) # {}
             /\ Hops(d, bapAddress[n], up, id) = AddressesOf(Backhaul(n))
             /\ Hops(d, up, bapAddress[n], id) = Reverse(AddressesOf(Backhaul(n)))
<1> DEFINE id == GetPathId(d, bapAddress[n], bapAddress[d])
           c == Backhaul(n)
           path == AddressesOf(c)
           back == Reverse(path)
<1>1. /\ Chain(d, n, c)
      /\ \A k \in 1..Len(c) : path[k] = bapAddress[c[k]]
      /\ path \in Seq(Nat) /\ Len(path) = Len(c)
      /\ LeadsAlong(d, id, path)
      /\ back \in Seq(Nat) /\ Len(back) = Len(c)
      /\ \A k \in 1..Len(c) : back[k] = path[(Len(c) - k) + 1]
      /\ LeadsAlong(d, id, back)
  BY RouteLeads
<1>2. PathsBetween(d, bapAddress[n], bapAddress[d]) # {}
  BY DEF PlacesInv, TreeInv, RoutingInv, AttachedHaveRoute, HasRoute
<1> HIDE DEF id, c, path, back
<1>3. /\ Len(c) \in Nat /\ Len(c) >= 2 /\ c[1] = n /\ c[Len(c)] = d
      /\ Len(c) <= Len(iabTopology[d])
  BY <1>1 DEF Chain
<1>4. Len(iabTopology[d]) \in Nat
  BY TopologyEntries DEF PlacesInv, TreeInv, RoutingInv
<1>5. 1 \in 1..Len(c) /\ Len(c) \in 1..Len(c)
      /\ (Len(c) - 1) + 1 = Len(c) /\ (Len(c) - Len(c)) + 1 = 1
  BY <1>3
<1>6. /\ path[1] = bapAddress[n] /\ path[Len(path)] = bapAddress[d]
      /\ back[1] = bapAddress[d] /\ back[Len(back)] = bapAddress[n]
  BY <1>1, <1>3, <1>5
<1>7. Hops(d, bapAddress[n], bapAddress[d], id) = path
  BY <1>1, <1>3, <1>4, <1>6, HopsAlong
<1>8. Hops(d, bapAddress[d], bapAddress[n], id) = back
  BY <1>1, <1>3, <1>4, <1>6, HopsAlong
<1> QED
  BY <1>2, <1>7, <1>8 DEF id, path, back, c

(* One pass of the depth loop over the vector finds the entry of the cell, *)
(* and nothing after it: the cell it goes on to look for came earlier.     *)
LEMMA DepthPassIs ==
  ASSUME PlacesInv, NEW d \in Donors, NEW e \in Entries(d), e # 1, NEW k \in Nat
  PROVE  LET top == iabTopology[d] IN
           DepthPass(top, [cell |-> top[e].dev, atDonor |-> FALSE, depth |-> k]) =
             [cell |-> IF top[e].parent = 1 THEN top[e].dev ELSE top[top[e].parent].dev,
              atDonor |-> top[e].parent = 1, depth |-> k + 1]
<1> DEFINE top == iabTopology[d]
           len == Len(top)
           seen == [cell |-> top[e].dev, atDonor |-> FALSE, depth |-> k]
           V == [cell : IabNodes, atDonor : BOOLEAN, depth : Nat]
           Pass(s, x) == IF top[x].dev # s.cell THEN s
                         ELSE [cell |-> IF top[x].parent = 1 THEN s.cell
                                        ELSE top[top[x].parent].dev,
                               atDonor |-> top[x].parent = 1,
                               depth |-> s.depth + 1]
           Step(g) == [t \in SUBSET DOMAIN top |->
                         IF t = {} THEN seen ELSE Pass(g[t \ {Max(t)}], Max(t))]
           I == CHOOSE g : g = Step(g)
           h == [x \in (1..len) \X V |-> Pass(x[2], x[1])]
           found == [cell |-> IF top[e].parent = 1 THEN top[e].dev
                              ELSE top[top[e].parent].dev,
                     atDonor |-> top[e].parent = 1, depth |-> k + 1]
<1>1. TypeOK /\ NodesOnce /\ EntriesHang
  BY DEF PlacesInv, TreeInv, RoutingInv
<1>2. /\ DOMAIN top = 1..len /\ Entries(d) = 1..len /\ len \in Nat
      /\ \A x \in 1..len : top[x] \in Entry
  BY <1>1, TopologyEntries DEF Entries
<1>3. \A x \in 1..len : top[x].dev \in Device /\ top[x].parent \in Nat \ {0}
  BY <1>2 DEF Entry
<1>4. ASSUME NEW x \in 1..len, x # 1
      PROVE  top[x].parent \in 1..(x - 1) /\ top[x].parent \in 1..len
  <2>1. top[x].parent \in 1..(x - 1)
    BY <1>1, <1>2, <1>4 DEF EntriesHang
  <2> QED
    BY <1>2, <2>1
<1>5. DepthPass(top, seen) = I[1..len]
  BY <1>2 DEF DepthPass, FoldLeft, MapThenFoldSet
<1> HIDE DEF I, top, len
<1>6. top[1].dev = d /\ d \notin IabNodes
  <2>1. e \in 1..len /\ 1 \in 1..len
    BY <1>2
  <2>2. top # <<>>
    BY <1>2, <2>1
  <2>3. DonorIsFirst
    BY DEF PlacesInv, TreeInv, RoutingInv
  <2> QED
    BY <2>2, <2>3, TopologyAssumption DEF DonorIsFirst, top
<1>7. \A x \in 1..len : x # 1 => top[x].dev \in IabNodes
  BY <1>1, <1>2 DEF EntriesHang, top
<1>8. e \in 1..len
  BY <1>2
<1>9. seen \in V
  BY <1>7, <1>8
<1>10. ASSUME NEW x \in 1..len, NEW v \in V PROVE Pass(v, x) \in V
  <2>1. CASE top[x].dev # v.cell
    BY <2>1
  <2>2. CASE top[x].dev = v.cell
    <3>1. x # 1
      BY <1>6, <2>2
    <3>2. top[x].parent # 1 => top[top[x].parent].dev \in IabNodes
      BY <1>4, <1>7, <3>1
    <3> QED
      BY <2>2, <3>2
  <2> QED
    BY <2>1, <2>2
<1>11. \A x \in 1..len : \A v \in V : h[<<x, v>>] = Pass(v, x)
  OBVIOUS
<1>12. StepIn(1..len, V, h)
  BY ZenonT(60), <1>10, <1>11 DEF StepIn
<1>13. \A t \in SUBSET (1..len) : t # {} => Max(t) \in 1..len
  BY <1>2, MaxOfSub
<1> HIDE DEF h, V, Pass, seen
<1>14. \E g : g = Step(g)
  <2>1. PICK g : FoldLeftOf(len, V, seen, h, g)
    BY <1>2, <1>9, <1>12, FoldLeftExists
  <2>2. ASSUME NEW t \in SUBSET (1..len), t # {}
        PROVE  g[t] = Pass(g[t \ {Max(t)}], Max(t))
    <3>1. g[t \ {Max(t)}] \in V /\ g[t] = h[<<Max(t), g[t \ {Max(t)}]>>]
      BY <2>1, <2>2 DEF FoldLeftOf
    <3> QED
      BY <1>11, <1>13, <2>2, <3>1
  <2>3. g = Step(g)
    BY <1>2, <2>1, <2>2 DEF FoldLeftOf
  <2> QED
    BY <2>3
<1>15. I = Step(I)
  BY <1>14 DEF I
<1>16. I[{}] = seen
  BY <1>15
<1>17. ASSUME NEW t \in SUBSET (1..len), t # {}, I[t \ {Max(t)}] \in V
       PROVE  I[t] = h[<<Max(t), I[t \ {Max(t)}]>>]
  <2>1. I[t] = Pass(I[t \ {Max(t)}], Max(t))
    BY <1>2, <1>15, <1>17
  <2> QED
    BY <1>11, <1>13, <1>17, <2>1
<1>18. Unfolds(len, V, seen, h, I)
  BY <1>16, <1>17 DEF Unfolds
<1>19. PICK r : Reaches(len, V, seen, h, I, r)
  BY <1>2, <1>9, <1>12, <1>18, FoldLeftSteps
<1>20. ASSUME NEW x \in 1..len PROVE r[x - 1] \in V /\ r[x] = Pass(r[x - 1], x)
  <2>1. x - 1 \in 0..len
    BY <1>2
  <2> QED
    BY <1>11, <1>19, <2>1 DEF Reaches
<1>21. \A x, y \in 1..len : top[x].dev = top[y].dev => x = y
  BY <1>1, <1>2 DEF NodesOnce, top
<1> DEFINE N == {m \in Nat : m <= len => r[m] = IF m < e THEN seen ELSE found}
<1>22. 0 \in N
  BY <1>8, <1>19 DEF Reaches
<1>23. ASSUME NEW m \in Nat, m \in N PROVE m + 1 \in N
  <2> SUFFICES ASSUME m + 1 <= len
               PROVE  r[m + 1] = IF m + 1 < e THEN seen ELSE found
    OBVIOUS
  <2>1. m + 1 \in 1..len /\ (m + 1) - 1 = m /\ m <= len
    BY <1>2
  <2>2. r[m + 1] = Pass(r[m], m + 1)
    BY <1>20, <2>1
  <2>3. r[m] = IF m < e THEN seen ELSE found
    BY <1>23, <2>1
  <2>4. CASE m + 1 < e
    <3>1. top[m + 1].dev # seen.cell
      BY <1>8, <1>21, <2>1, <2>4 DEF seen
    <3>2. r[m] = seen
      BY <2>3, <2>4, <1>8
    <3> QED
      BY <2>2, <2>4, <3>1, <3>2 DEF Pass
  <2>5. CASE m + 1 = e
    <3>1. r[m] = seen
      BY <2>3, <2>5
    <3>2. Pass(seen, e) = found
      BY DEF Pass, seen
    <3> QED
      BY <2>2, <2>5, <3>1, <3>2
  <2>6. CASE m + 1 > e
    <3>1. r[m] = found
      BY <1>8, <2>3, <2>6
    <3>2. top[m + 1].dev # found.cell
      <4>1. CASE top[e].parent = 1
        BY <1>8, <1>21, <2>1, <2>6, <4>1
      <4>2. CASE top[e].parent # 1
        <5>1. top[e].parent \in 1..len /\ top[e].parent < e /\ top[e].parent \in Nat
          BY <1>4, <1>8
        <5>2. top[e].parent # m + 1
          BY <1>8, <2>6, <5>1
        <5>3. top[m + 1].dev # top[top[e].parent].dev
          BY <1>21, <2>1, <5>1, <5>2
        <5> QED
          BY <4>2, <5>3
      <4> QED
        BY <4>1, <4>2
    <3>3. r[m + 1] = found
      BY <2>2, <3>1, <3>2 DEF Pass
    <3> QED
      BY <1>8, <2>6, <3>3
  <2> QED
    BY <1>2, <1>8, <2>4, <2>5, <2>6
<1>24. len \in N
  <2> HIDE DEF N
  <2>1. Nat \subseteq N
    BY <1>22, <1>23, SetInduction
  <2> QED
    BY <1>2, <2>1
<1>25. r[len] = found
  BY <1>2, <1>8, <1>24
<1>26. I[1..len] = found
  BY <1>19, <1>25 DEF Reaches
<1> QED
  BY <1>5, <1>26 DEF seen, top

(* The passes count the devices of the chain, one after the other.         *)
LEMMA DepthIs ==
  ASSUME PlacesInv, NEW d \in Donors, NEW n \in IabNodes, NEW walk,
         Climbs(iabTopology[d], walk), iabTopology[d][walk[1]].dev = n
  PROVE  GetIabNodeDepth(d, n) = Len(walk) - 1
<1> DEFINE top == iabTopology[d]
           most == Len(top)
           c == Along(d, walk)
           len == Len(walk)
           Step(g) == [k \in 0..most |->
                         IF k = 0 THEN [cell |-> n, atDonor |-> n = d, depth |-> 0]
                         ELSE IF g[k - 1].atDonor THEN g[k - 1] ELSE DepthPass(top, g[k - 1])]
           I == CHOOSE g : g = Step(g)
           h == [k \in 0..most |->
                   IF k + 1 < len THEN [cell |-> c[k + 1], atDonor |-> FALSE, depth |-> k]
                   ELSE [cell |-> c[len - 1], atDonor |-> TRUE, depth |-> len - 1]]
<1>1. /\ Chain(d, n, c) /\ Len(c) = len
      /\ len \in Nat /\ \A i \in 1..len : walk[i] \in Entries(d) /\ walk[i] \in Nat
  BY WalkIsChain, WalksDescend
<1>2. most \in Nat
  BY TopologyEntries DEF PlacesInv, TreeInv, RoutingInv
<1>3. /\ len >= 2 /\ len <= most /\ c[1] = n
      /\ \A i \in 1..len : c[i] = top[walk[i]].dev
      /\ walk[len] = 1
      /\ \A i \in 1..(len - 1) : walk[i] # 1 /\ walk[i + 1] = top[walk[i]].parent
  BY <1>1 DEF Chain, Climbs, Along
<1>4. GetIabNodeDepth(d, n) = I[most].depth
  BY DEF GetIabNodeDepth
<1> HIDE DEF I, c
<1>5. h[0] = [cell |-> n, atDonor |-> n = d, depth |-> 0]
  <2>1. n # d
    BY TopologyAssumption
  <2>2. 0 \in 0..most /\ 0 + 1 < len /\ 0 + 1 = 1
    BY <1>1, <1>2, <1>3
  <2>3. h[0] = [cell |-> c[1], atDonor |-> FALSE, depth |-> 0]
    BY <2>2
  <2> QED
    BY <1>3, <2>1, <2>3
<1>6. ASSUME NEW k \in 0..most, k # 0
      PROVE  h[k] = IF h[k - 1].atDonor THEN h[k - 1] ELSE DepthPass(top, h[k - 1])
  <2>1. k - 1 \in 0..most /\ k \in Nat /\ (k - 1) + 1 = k
    BY <1>2, <1>6
  <2>2. CASE k < len
    <3>1. h[k - 1] = [cell |-> c[k], atDonor |-> FALSE, depth |-> k - 1]
      BY <2>1, <2>2
    <3>2. k \in 1..(len - 1) /\ k \in 1..len /\ k + 1 \in 1..len /\ k - 1 \in Nat
      BY <1>1, <1>6, <2>1, <2>2
    <3>3. walk[k] \in Entries(d) /\ walk[k] # 1 /\ c[k] = top[walk[k]].dev
      BY <1>1, <1>3, <3>2
    <3>4. DepthPass(top, h[k - 1]) =
            [cell |-> IF walk[k + 1] = 1 THEN c[k] ELSE c[k + 1],
             atDonor |-> walk[k + 1] = 1, depth |-> k]
      <4>1. walk[k + 1] = top[walk[k]].parent /\ c[k + 1] = top[walk[k + 1]].dev
        BY <1>3, <3>2
      <4>2. DepthPass(top, [cell |-> top[walk[k]].dev, atDonor |-> FALSE, depth |-> k - 1]) =
              [cell |-> IF top[walk[k]].parent = 1 THEN top[walk[k]].dev
                        ELSE top[top[walk[k]].parent].dev,
               atDonor |-> top[walk[k]].parent = 1, depth |-> (k - 1) + 1]
        BY <3>2, <3>3, DepthPassIs
      <4> QED
        BY <2>1, <3>1, <3>3, <4>1, <4>2
    <3>5. CASE k + 1 = len
      <4>1. len - 1 = k /\ ~(k + 1 < len)
        BY <1>1, <2>1, <3>5
      <4>2. h[k] = [cell |-> c[k], atDonor |-> TRUE, depth |-> k]
        BY <4>1
      <4>3. walk[k + 1] = 1 /\ ~h[k - 1].atDonor
        <5>1. walk[k + 1] = 1
          BY <1>3, <3>5
        <5>2. ~h[k - 1].atDonor
          BY <3>1
        <5> QED
          BY <5>1, <5>2
      <4>4. DepthPass(top, h[k - 1]) = [cell |-> c[k], atDonor |-> TRUE, depth |-> k]
        BY <3>4, <4>3
      <4> HIDE DEF h
      <4> QED
        BY <4>2, <4>3, <4>4
    <3>6. CASE k + 1 < len
      <4>1. h[k] = [cell |-> c[k + 1], atDonor |-> FALSE, depth |-> k]
        BY <3>6
      <4>2. walk[k + 1] # 1 /\ ~h[k - 1].atDonor
        <5>1. k + 1 \in 1..(len - 1)
          BY <1>1, <2>1, <3>6
        <5> QED
          BY <1>3, <3>1, <5>1
      <4>3. DepthPass(top, h[k - 1]) = [cell |-> c[k + 1], atDonor |-> FALSE, depth |-> k]
        BY <3>4, <4>2
      <4> HIDE DEF h
      <4> QED
        BY <4>1, <4>2, <4>3
    <3> QED
      BY <1>1, <2>1, <2>2, <3>5, <3>6
  <2>3. CASE ~(k < len)
    <3>1. h[k - 1] = [cell |-> c[len - 1], atDonor |-> TRUE, depth |-> len - 1]
      BY <2>1, <2>3
    <3>2. ~(k + 1 < len)
      BY <1>1, <2>1, <2>3
    <3>3. h[k] = [cell |-> c[len - 1], atDonor |-> TRUE, depth |-> len - 1]
      BY <3>2
    <3> QED
      BY <3>1, <3>3
  <2> QED
    BY <2>2, <2>3
<1>7. h[most].depth = len - 1
  <2>1. most \in 0..most /\ ~(most + 1 < len)
    BY <1>1, <1>2, <1>3
  <2> QED
    BY <2>1
<1>8. h = Step(h)
  <2>1. h = [k \in 0..most |-> h[k]]
    OBVIOUS
  <2> HIDE DEF h
  <2> QED
    BY <1>5, <1>6, <2>1
<1> HIDE DEF h
<1>9. I = Step(I)
  BY <1>8 DEF I
<1> HIDE DEF most, len, top
<1>10. I[0] = h[0]
  BY <1>2, <1>5, <1>9
<1>11. ASSUME NEW k \in 0..(most - 1), I[k] = h[k] PROVE I[k + 1] = h[k + 1]
  <2>1. k + 1 \in 0..most /\ k + 1 # 0 /\ (k + 1) - 1 = k
    BY <1>2
  <2>2. I[k + 1] = IF I[k].atDonor THEN I[k] ELSE DepthPass(top, I[k])
    BY <1>9, <2>1
  <2>3. h[k + 1] = IF h[k].atDonor THEN h[k] ELSE DepthPass(top, h[k])
    BY <1>6, <2>1
  <2> QED
    BY <1>11, <2>2, <2>3
<1>12. \A k \in 0..most : I[k] = h[k]
  BY <1>2, <1>10, <1>11, StepsAgree
<1>13. I[most] = h[most]
  BY <1>2, <1>12
<1> QED
  BY <1>4, <1>7, <1>13 DEF most, len, top

(* The parent that is reported is the one of the node's only entry.        *)
LEMMA ParentIs ==
  ASSUME PlacesInv, NEW d \in Donors, NEW e \in Entries(d), e # 1
  PROVE  GetParentOfChild(d, iabTopology[d][e].dev) =
           iabTopology[d][iabTopology[d][e].parent].dev
<1> DEFINE top == iabTopology[d]
           len == Len(top)
           n == top[e].dev
           V == Device
           Look(p, x) == IF top[x].dev = n /\ top[x].parent # 1
                         THEN top[top[x].parent].dev ELSE p
           Step(g) == [t \in SUBSET DOMAIN top |->
                         IF t = {} THEN d ELSE Look(g[t \ {Max(t)}], Max(t))]
           I == CHOOSE g : g = Step(g)
           h == [x \in (1..len) \X V |-> Look(x[2], x[1])]
           found == top[top[e].parent].dev
<1>1. TypeOK /\ NodesOnce /\ EntriesHang /\ DonorIsFirst
  BY DEF PlacesInv, TreeInv, RoutingInv
<1>2. /\ DOMAIN top = 1..len /\ Entries(d) = 1..len /\ len \in Nat
      /\ \A x \in 1..len : top[x] \in Entry
  BY <1>1, TopologyEntries DEF Entries
<1>3. GetParentOfChild(d, n) = I[1..len]
  BY <1>2 DEF GetParentOfChild, FoldLeft, MapThenFoldSet
<1> HIDE DEF I, top, len
<1>4. \A x \in 1..len : top[x].dev \in Device
  BY <1>2 DEF Entry
<1>5. e \in 1..len /\ top[e].parent \in 1..len
  <2>1. top[e].parent \in 1..(e - 1)
    BY <1>1 DEF EntriesHang, top
  <2> QED
    BY <1>2, <2>1
<1>6. \A x, y \in 1..len : top[x].dev = top[y].dev => x = y
  BY <1>1, <1>2 DEF NodesOnce, top
<1>7. top[1].dev = d
  <2>1. top # <<>>
    BY <1>2, <1>5
  <2> QED
    BY <1>1, <2>1 DEF DonorIsFirst, top
<1>8. d \in V /\ found \in V
  BY <1>4, <1>5 DEF Device
<1>9. \A x \in 1..len : \A v \in V : Look(v, x) = IF x = e /\ top[e].parent # 1 THEN found ELSE v
  BY <1>5, <1>6
<1>10. \A x \in 1..len : \A v \in V : h[<<x, v>>] = Look(v, x)
  OBVIOUS
<1> HIDE DEF h, V, Look, n
<1>11. StepIn(1..len, V, h)
  BY <1>8, <1>9, <1>10 DEF StepIn
<1>12. \A t \in SUBSET (1..len) : t # {} => Max(t) \in 1..len
  BY <1>2, MaxOfSub
<1>13. \E g : g = Step(g)
  <2>1. PICK g : FoldLeftOf(len, V, d, h, g)
    BY <1>2, <1>8, <1>11, FoldLeftExists
  <2>2. ASSUME NEW t \in SUBSET (1..len), t # {}
        PROVE  g[t] = Look(g[t \ {Max(t)}], Max(t))
    <3>1. g[t \ {Max(t)}] \in V /\ g[t] = h[<<Max(t), g[t \ {Max(t)}]>>]
      BY <2>1, <2>2 DEF FoldLeftOf
    <3> QED
      BY <1>10, <1>12, <2>2, <3>1
  <2>3. g = Step(g)
    BY <1>2, <2>1, <2>2 DEF FoldLeftOf
  <2> QED
    BY <2>3
<1>14. I = Step(I)
  BY <1>13 DEF I
<1>15. I[{}] = d
  BY <1>14
<1>16. ASSUME NEW t \in SUBSET (1..len), t # {}, I[t \ {Max(t)}] \in V
       PROVE  I[t] = h[<<Max(t), I[t \ {Max(t)}]>>]
  <2>1. I[t] = Look(I[t \ {Max(t)}], Max(t))
    BY <1>2, <1>14, <1>16
  <2> QED
    BY <1>10, <1>12, <1>16, <2>1
<1>17. Unfolds(len, V, d, h, I)
  BY <1>15, <1>16 DEF Unfolds
<1>18. PICK r : Reaches(len, V, d, h, I, r)
  BY <1>2, <1>8, <1>11, <1>17, FoldLeftSteps
<1>19. ASSUME NEW x \in 1..len PROVE r[x - 1] \in V /\ r[x] = Look(r[x - 1], x)
  <2>1. x - 1 \in 0..len
    BY <1>2
  <2> QED
    BY <1>10, <1>18, <2>1 DEF Reaches
<1> DEFINE N == {m \in Nat : m <= len => r[m] = IF m < e THEN d ELSE found}
<1>20. 0 \in N
  BY <1>2, <1>5, <1>18 DEF Reaches
<1>21. ASSUME NEW m \in Nat, m \in N PROVE m + 1 \in N
  <2> SUFFICES ASSUME m + 1 <= len
               PROVE  r[m + 1] = IF m + 1 < e THEN d ELSE found
    OBVIOUS
  <2>1. m + 1 \in 1..len /\ (m + 1) - 1 = m /\ m <= len
    BY <1>2
  <2>2. r[m] \in V /\ r[m + 1] = IF m + 1 = e /\ top[e].parent # 1 THEN found ELSE r[m]
    BY <1>9, <1>19, <2>1
  <2>3. r[m] = IF m < e THEN d ELSE found
    BY <1>21, <2>1
  <2>4. top[e].parent = 1 => found = d
    BY <1>7
  <2> QED
    BY <1>2, <1>5, <2>2, <2>3, <2>4
<1>22. len \in N
  <2> HIDE DEF N
  <2>1. Nat \subseteq N
    BY <1>20, <1>21, SetInduction
  <2> QED
    BY <1>2, <2>1
<1>23. I[1..len] = found
  BY <1>2, <1>5, <1>18, <1>22 DEF Reaches
<1> QED
  BY <1>3, <1>23 DEF n, top

(* Whatever the order of the attachments and the shape of the trees, the   *)
(* hops that GetNexBapPathHop gives lead over the backhaul as it was       *)
(* attached, up to the donor and back down.                                *)
THEOREM RoutesAlwaysFollowBackhaul ==
  TopologySpec => []RoutesFollowBackhaul
<1>1. PlacesInv => RoutesFollowBackhaul
  BY RoutesFollow DEF RoutesFollowBackhaul, PlacesInv, TreeInv, RoutingInv, AttachedHaveRoute
<1> QED
  BY PlacesInvHolds, <1>1, PTL

(* The depth of a node, by which the schedulers divide the slot, and its   *)
(* parent are always reported as they are in the backhaul.                 *)
THEOREM PlacesAlwaysReported ==
  TopologySpec => []PlaceIsReported
<1>1. ASSUME PlacesInv, NEW n \in IabNodes, Attached(n)
      PROVE  /\ GetIabNodeDepth(servingDonor[n], n) = Len(Backhaul(n)) - 1
             /\ GetParentOfChild(servingDonor[n], n) = mtParent[n]
  <2>1. PICK d \in Donors : d = servingDonor[n]
    BY <1>1 DEF PlacesInv, TreeInv, RoutingInv, AttachedHaveRoute
  <2>2. PICK walk : LET c == Along(d, walk) IN
          /\ Climbs(iabTopology[d], walk)
          /\ iabTopology[d][walk[1]].dev = n
          /\ Chain(d, n, c)
          /\ Len(c) = Len(walk)
    BY <1>1, <2>1, RouteIsChain
  <2>3. Backhaul(n) = Along(d, walk)
    BY <2>2, BackhaulIsChain
  <2>4. GetIabNodeDepth(d, n) = Len(Backhaul(n)) - 1
    BY <1>1, <2>2, <2>3, DepthIs
  <2>5. walk[1] \in Entries(d) /\ walk[1] # 1
    <3>1. 1 \in 1..(Len(walk) - 1) /\ 1 \in 1..Len(walk)
      BY <1>1, <2>2, WalksDescend DEF Climbs
    <3> QED
      BY <1>1, <2>2, <3>1, WalksDescend DEF Climbs
  <2>6. GetParentOfChild(d, n) = iabTopology[d][iabTopology[d][walk[1]].parent].dev
    BY <1>1, <2>2, <2>5, ParentIs
  <2>7. mtParent[n] = iabTopology[d][iabTopology[d][walk[1]].parent].dev
    BY <1>1, <2>2, <2>5 DEF PlacesInv, EntriesHang
  <2> QED
    BY <2>1, <2>4, <2>6, <2>7
<1>2. PlacesInv => PlaceIsReported
  BY <1>1 DEF PlaceIsReported
<1> QED
  BY PlacesInvHolds, <1>2, PTL
================================================================================
