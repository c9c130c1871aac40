-------------------------- MODULE RrcConnectionProofs --------------------------
(***************************************************************************)
(* Theorems about RrcConnection, for any number of UEs, RNTIs and bearers, *)
(* and any number of faults.  The contexts of a cell, its maps and its     *)
(* tunnels stay consistent whatever retries and timeouts do, for any       *)
(* durations (RrcInv); what a message or a timeout finds when it comes     *)
(* depends on the timers and delays (DurationInv, the second half).        *)
(***************************************************************************)
EXTENDS RrcConnection, DataLemmas

--------------------------------------------------------------------------------
(***************************************************************************)
(* What each operation of EpcBearers keeps, for any IMSIs: the types, the  *)
(* MME's count of its bearers, the IMSI a bearer belongs to, and the       *)
(* uniqueness of TEIDs.                                                    *)
(***************************************************************************)
(* Identities.                                                             *)

(* The identities of two IMSIs are disjoint.                               *)
LEMMA BearersAreOfOneImsi ==
  ASSUME NEW i \in Nat, NEW j \in Nat, NEW b \in BearersOf(i), b \in BearersOf(j)
  PROVE  i = j
<1>1. PICK k \in 1..MaxBearersOfUe : b = BearerId(i, k)
  BY DEF BearersOf
<1>2. PICK l \in 1..MaxBearersOfUe : b = BearerId(j, l)
  BY DEF BearersOf
<1> QED
  BY <1>1, <1>2 DEF BearerId, MaxBearersOfUe

LEMMA ImsiIsNat ==
  ASSUME NEW i \in Imsis
  PROVE  i \in Nat /\ i # 0
  BY ImsiAssumption

LEMMA BearersOfAreBearers ==
  ASSUME NEW i \in Imsis
  PROVE  BearersOf(i) \subseteq Bearers
  BY DEF Bearers

(* No bearer is of IMSI 0, which stands for none.                          *)
LEMMA NoBearerOf0 ==
  Bearers \cap BearersOf(0) = {}
<1> SUFFICES ASSUME NEW b \in Bearers, b \in BearersOf(0) PROVE FALSE
  OBVIOUS
<1>1. PICK i \in Imsis : b \in BearersOf(i)
  BY DEF Bearers
<1> QED
  BY <1>1, ImsiIsNat, BearersAreOfOneImsi

--------------------------------------------------------------------------------
(* Positions in a sequence.                                                *)

(* The greatest of some positions.                                         *)
LEMMA GreatestOf ==
  ASSUME NEW L \in Nat, NEW S, S \subseteq 1..L, S # {}
  PROVE  \E n \in S : \A m \in S : m <= n
<1> DEFINE T == {L - n : n \in S}
<1>1. T \subseteq Nat
  <2>1. ASSUME NEW n \in S PROVE L - n \in Nat
    <3>1. n \in 1..L
      OBVIOUS
    <3> QED
      BY <3>1
  <2> QED
    BY <2>1
<1>1a. T # {}
  OBVIOUS
<1>2. PICK t \in T : \A u \in T : t <= u
  BY <1>1, <1>1a, LeastNat
<1>3. PICK n \in S : t = L - n
  BY <1>2
<1>4. ASSUME NEW m \in S PROVE m <= n
  <2>1. L - m \in T
    OBVIOUS
  <2> QED
    BY <2>1, <1>2, <1>3
<1> QED
  BY <1>3, <1>4

(* A sequence without its n-th element.                                    *)
LEMMA RemovalFromSeq ==
  ASSUME NEW S, NEW s \in Seq(S), NEW n \in 1..Len(s)
  PROVE  LET t == SubSeq(s, 1, n - 1) \o SubSeq(s, n + 1, Len(s))
         IN  t \in Seq(S) /\ Len(t) = Len(s) - 1
<1> DEFINE front == SubSeq(s, 1, n - 1)
           back == SubSeq(s, n + 1, Len(s))
<1>1. Len(s) \in Nat /\ \A m \in 1..Len(s) : s[m] \in S
  BY LenProperties, ElementOfSeq
<1>2. front \in Seq(S) /\ Len(front) = n - 1
  <2>1. \A m \in 1..(n - 1) : s[m] \in S
    BY <1>1
  <2> QED
    BY <2>1, <1>1, SubSeqProperties
<1>3. back \in Seq(S) /\ Len(back) = Len(s) - n
  <2>1. \A m \in (n + 1)..Len(s) : s[m] \in S
    BY <1>1
  <2> QED
    BY <2>1, <1>1, SubSeqProperties
<1> HIDE DEF front, back
<1>4. front \o back \in Seq(S) /\ Len(front \o back) = Len(front) + Len(back)
  BY <1>2, <1>3, ConcatProperties
<1>5. Len(front \o back) = Len(s) - 1
  BY <1>1, <1>2, <1>3, <1>4
<1> QED
  BY <1>4, <1>5 DEF front, back

--------------------------------------------------------------------------------
(* The invariant.  TeidsAreUnique is not inductive by itself: a fresh TEID *)
(* is one above the count, and none in use is.                             *)

BearersCounted ==
  /\ bearerCounter \in [Imsis -> 0..MaxBearersOfUe]
  /\ DOMAIN bearersToBeActivated = Imsis
  /\ bearersToBeActivated = [i \in Imsis |-> bearersToBeActivated[i]]
  /\ \A i \in Imsis :
       /\ bearersToBeActivated[i] \in Seq(BearersOf(i))
       /\ bearerCounter[i] = Len(bearersToBeActivated[i])

TeidsCounted ==
  /\ teidByBearerId \in [Bearers -> Nat]
  /\ teidCount \in Nat
  /\ \A b \in Bearers : teidByBearerId[b] <= teidCount
  /\ \A b, c \in Bearers :
       teidByBearerId[b] = teidByBearerId[c] /\ b # c => teidByBearerId[b] = NoTeid

EpcInv == BearersCounted /\ TeidsCounted /\ tftClassifier \subseteq Bearers

LEMMA EpcInvInit ==
  EpcInit => EpcInv
<1> SUFFICES ASSUME EpcInit PROVE EpcInv
  OBVIOUS
<1>1. BearersCounted
  BY DEF EpcInit, BearersCounted, MaxBearersOfUe
<1>2. TeidsCounted
  BY DEF EpcInit, TeidsCounted, NoTeid
<1> QED
  BY <1>1, <1>2 DEF EpcInv, EpcInit

LEMMA EpcInvUnchanged ==
  EpcInv /\ UNCHANGED epcVars => EpcInv'
  BY DEF EpcInv, BearersCounted, TeidsCounted, epcVars

(* The MME's bearers of an IMSI are bearers of that IMSI.                  *)
LEMMA ActiveAreBearers ==
  ASSUME BearersCounted, NEW i \in Imsis
  PROVE  Active(i) \subseteq Bearers
<1>1. bearersToBeActivated[i] \in Seq(BearersOf(i))
  BY DEF BearersCounted
<1>2. \A n \in DOMAIN bearersToBeActivated[i] : bearersToBeActivated[i][n] \in BearersOf(i)
  BY <1>1, LenProperties, ElementOfSeq
<1> QED
  BY <1>2, BearersOfAreBearers DEF Active

LEMMA AddBearerKeeps ==
  ASSUME EpcInv, NEW i \in Imsis, AddBearer(i)
  PROVE  EpcInv'
<1>1. bearerCounter[i] + 1 \in 1..MaxBearersOfUe
  BY DEF EpcInv, BearersCounted, AddBearer, CanAddBearer, MaxBearersOfUe
<1>2. bearerCounter' = [bearerCounter EXCEPT ![i] = bearerCounter[i] + 1]
  BY DEF AddBearer
<1>3. bearerCounter'[i] = bearerCounter[i] + 1
  BY <1>2 DEF EpcInv, BearersCounted
<1>4. BearerId(i, bearerCounter'[i]) \in BearersOf(i)
  BY <1>1, <1>3 DEF BearersOf
<1> DEFINE b == BearerId(i, bearerCounter'[i])
           s == bearersToBeActivated[i]
<1>5. b \in BearersOf(i)
  BY <1>4
<1>6. s \in Seq(BearersOf(i)) /\ bearerCounter[i] = Len(s)
  BY DEF EpcInv, BearersCounted
<1>7. bearersToBeActivated' = [bearersToBeActivated EXCEPT ![i] = Append(s, b)]
  BY DEF AddBearer
<1> HIDE DEF b, s
<1>8. Append(s, b) \in Seq(BearersOf(i)) /\ Len(Append(s, b)) = Len(s) + 1
  BY <1>5, <1>6, AppendProperties
<1>9. BearersCounted'
  <2>1. ASSUME NEW j \in Imsis
        PROVE  /\ bearersToBeActivated'[j] \in Seq(BearersOf(j))
               /\ bearerCounter'[j] = Len(bearersToBeActivated'[j])
               /\ bearerCounter'[j] \in 0..MaxBearersOfUe
    <3>1. CASE j = i
      <4>1. bearersToBeActivated'[i] = Append(s, b)
        BY <1>7 DEF EpcInv, BearersCounted
      <4>2. bearerCounter'[i] \in 0..MaxBearersOfUe
        BY <1>1, <1>3 DEF MaxBearersOfUe
      <4> QED
        BY <1>3, <1>6, <1>8, <3>1, <4>1, <4>2
    <3>2. CASE j # i
      BY <1>2, <1>7, <3>2 DEF EpcInv, BearersCounted
    <3> QED
      BY <3>1, <3>2
  <2>2. DOMAIN bearersToBeActivated' = Imsis /\ DOMAIN bearerCounter' = Imsis
    BY <1>2, <1>7 DEF EpcInv, BearersCounted
  <2>3. /\ bearersToBeActivated' = [j \in Imsis |-> bearersToBeActivated'[j]]
        /\ bearerCounter' = [j \in Imsis |-> bearerCounter'[j]]
    BY <1>2, <1>7 DEF EpcInv, BearersCounted
  <2>4. bearerCounter' \in [Imsis -> 0..MaxBearersOfUe]
    BY <2>1, <2>3
  <2> QED
    BY <2>1, <2>2, <2>3, <2>4 DEF BearersCounted
<1> QED
  BY <1>9 DEF AddBearer, EpcInv, TeidsCounted

(* Every TEID a session takes is above the count before, and at most the   *)
(* count after it.                                                         *)
LEMMA CreateSessionKeeps ==
  ASSUME EpcInv, NEW i \in Imsis, CreateSession(i)
  PROVE  EpcInv'
<1> DEFINE s == bearersToBeActivated[i]
           At(b) == {n \in DOMAIN s : s[n] = b}
           LastAt(b) == CHOOSE n \in DOMAIN s :
                          s[n] = b /\ \A m \in DOMAIN s : s[m] = b => m <= n
<1>1. s \in Seq(BearersOf(i)) /\ Len(s) \in Nat /\ DOMAIN s = 1..Len(s)
  BY LenProperties DEF EpcInv, BearersCounted
<1>2. Active(i) = {s[n] : n \in DOMAIN s} /\ Active(i) \subseteq Bearers
  BY ActiveAreBearers DEF Active, EpcInv
<1>3. \A b \in Bearers :
        /\ b \in Active(i) => teidByBearerId'[b] = teidCount + LastAt(b)
        /\ b \notin Active(i) => teidByBearerId'[b] = teidByBearerId[b]
  BY DEF CreateSession
<1>3a. teidByBearerId' = [b \in Bearers |-> teidByBearerId'[b]]
  BY DEF CreateSession
<1>4. teidCount' = teidCount + Len(s)
  BY DEF CreateSession
<1>5. ASSUME NEW b \in Active(i)
      PROVE  LastAt(b) \in 1..Len(s) /\ s[LastAt(b)] = b
  <2> HIDE DEF s
  <2>1. At(b) # {} /\ At(b) \subseteq 1..Len(s)
    BY <1>1, <1>2
  <2>2. \E n \in At(b) : \A m \in At(b) : m <= n
    BY <1>1, <2>1, GreatestOf
  <2>3. \E n \in DOMAIN s : s[n] = b /\ \A m \in DOMAIN s : s[m] = b => m <= n
    BY <2>2
  <2>4. LastAt(b) \in DOMAIN s /\ s[LastAt(b)] = b
    BY <2>3
  <2> QED
    BY <2>4, <1>1
<1> HIDE DEF s, LastAt
<1>6. teidCount \in Nat /\ teidByBearerId \in [Bearers -> Nat]
      /\ \A b \in Bearers : teidByBearerId[b] <= teidCount
  BY DEF EpcInv, TeidsCounted
<1>7. ASSUME NEW b \in Bearers, b \in Active(i)
      PROVE  /\ teidByBearerId'[b] = teidCount + LastAt(b)
             /\ teidByBearerId'[b] \in (teidCount + 1)..teidCount'
             /\ teidByBearerId'[b] \in Nat
  <2>1. teidByBearerId'[b] = teidCount + LastAt(b)
    BY <1>3, <1>7
  <2>2. LastAt(b) \in 1..Len(s)
    BY <1>5, <1>7
  <2> QED
    BY <2>1, <2>2, <1>1, <1>4, <1>6
<1>8. ASSUME NEW b \in Bearers, b \notin Active(i)
      PROVE  teidByBearerId'[b] = teidByBearerId[b]
  BY <1>3, <1>8
<1>9. teidCount' \in Nat /\ teidCount <= teidCount'
  BY <1>1, <1>4, <1>6
<1>10. teidByBearerId' \in [Bearers -> Nat]
  BY <1>3a, <1>6, <1>7, <1>8
<1>11. \A b \in Bearers : teidByBearerId'[b] <= teidCount'
  BY <1>6, <1>7, <1>8, <1>9
<1>12. ASSUME NEW b \in Bearers, NEW c \in Bearers,
              teidByBearerId'[b] = teidByBearerId'[c], b # c
       PROVE  teidByBearerId'[b] = NoTeid
  <2>1. CASE b \in Active(i) /\ c \in Active(i)
    <3>1. LastAt(b) = LastAt(c)
      BY <1>5, <1>6, <1>7, <1>12, <2>1
    <3> QED
      BY <3>1, <1>5, <1>12, <2>1
  <2>2. CASE b \in Active(i) /\ c \notin Active(i)
    BY <1>6, <1>7, <1>8, <1>9, <1>12, <2>2
  <2>3. CASE b \notin Active(i) /\ c \in Active(i)
    BY <1>6, <1>7, <1>8, <1>9, <1>12, <2>3
  <2>4. CASE b \notin Active(i) /\ c \notin Active(i)
    BY <1>8, <1>12, <2>4 DEF EpcInv, TeidsCounted
  <2> QED
    BY <2>1, <2>2, <2>3, <2>4
<1>13. TeidsCounted'
  BY <1>9, <1>10, <1>11, <1>12 DEF TeidsCounted
<1>14. BearersCounted'
  BY DEF CreateSession, EpcInv, BearersCounted
<1>15. tftClassifier' \subseteq Bearers
  BY <1>2 DEF CreateSession, EpcInv
<1> QED
  BY <1>13, <1>14, <1>15 DEF EpcInv

LEMMA DeleteBearerKeeps ==
  ASSUME EpcInv, NEW i \in Imsis, NEW b, DeleteBearer(i, b)
  PROVE  EpcInv'
<1> DEFINE s == bearersToBeActivated[i]
           first == CHOOSE n \in DOMAIN s : s[n] = b /\ \A m \in DOMAIN s : s[m] = b => n <= m
           rest == SubSeq(s, 1, first - 1) \o SubSeq(s, first + 1, Len(s))
<1>1. s \in Seq(BearersOf(i)) /\ bearerCounter[i] = Len(s) /\ Len(s) \in Nat /\ DOMAIN s = 1..Len(s)
  BY LenProperties DEF EpcInv, BearersCounted
<1>2. BearersCounted'
  <2>1. CASE b \in Active(i)
    <3>1. /\ bearerCounter' = [bearerCounter EXCEPT ![i] = bearerCounter[i] - 1]
          /\ bearersToBeActivated' = [bearersToBeActivated EXCEPT ![i] = rest]
      BY <2>1 DEF DeleteBearer
    <3>2. first \in 1..Len(s)
      <4> DEFINE At == {n \in DOMAIN s : s[n] = b}
      <4>1. At # {} /\ At \subseteq Nat
        BY <1>1, <2>1 DEF Active
      <4>2. \E n \in At : \A m \in At : n <= m
        BY <4>1, LeastNat
      <4>3. \E n \in DOMAIN s : s[n] = b /\ \A m \in DOMAIN s : s[m] = b => n <= m
        BY <4>2
      <4> QED
        BY <4>3, <1>1
    <3> HIDE DEF s, first
    <3>3. rest \in Seq(BearersOf(i)) /\ Len(rest) = Len(s) - 1
      BY <1>1, <3>2, RemovalFromSeq
    <3> HIDE DEF rest
    <3>4. bearerCounter[i] - 1 \in 0..MaxBearersOfUe
      <4>1. bearerCounter[i] \in 0..MaxBearersOfUe
        BY DEF EpcInv, BearersCounted
      <4>2. Len(s) >= 1
        BY <1>1, <3>2
      <4>3. bearerCounter[i] >= 1
        BY <4>2, <1>1
      <4> QED
        BY <4>1, <4>3 DEF MaxBearersOfUe
    <3> QED
      BY <1>1, <3>1, <3>3, <3>4 DEF EpcInv, BearersCounted
  <2>2. CASE b \notin Active(i)
    BY <2>2 DEF DeleteBearer, EpcInv, BearersCounted
  <2> QED
    BY <2>1, <2>2
<1>3. TeidsCounted'
  <2>1. /\ teidByBearerId' = [teidByBearerId EXCEPT ![b] = NoTeid]
        /\ teidCount' = teidCount
    BY DEF DeleteBearer
  <2>2. \A c \in Bearers : teidByBearerId'[c] = IF c = b THEN 0 ELSE teidByBearerId[c]
    BY <2>1 DEF EpcInv, TeidsCounted, NoTeid
  <2>3. teidByBearerId' \in [Bearers -> Nat]
    BY <2>1 DEF EpcInv, TeidsCounted, NoTeid
  <2> QED
    BY <2>1, <2>2, <2>3 DEF EpcInv, TeidsCounted, NoTeid
<1> QED
  BY <1>2, <1>3 DEF EpcInv, DeleteBearer

--------------------------------------------------------------------------------
(***************************************************************************)
(* The inductive invariant.                                                *)
(***************************************************************************)
(* The types, without the bounds of the counters that only identities and  *)
(* their checks are about.                                                 *)
AnyUe == [state : UeState, rnti : Rntis \cup {0}, macRnti : Rntis \cup {0},
          connectionPending : BOOLEAN, hasReceivedSib2 : BOOLEAN,
          preamble : BOOLEAN, rar : Rntis \cup {0}, drbs : SUBSET Bearers,
          active : BOOLEAN, toActivate : Nat, bidCounter : Nat]

AnyManager == [state : ManagerState, imsi : Imsis \cup {0}, drbs : SUBSET Bearers,
               lastDrbid : Nat, pending : BOOLEAN, toStart : SUBSET Bearers]

(* What the MME sends the S1 application: bearers of the UE it names.      *)
SetupRequest == {m \in S1DownMessage : m.bearers \in Seq(BearersOf(m.imsi))}

RrcShape ==
  /\ ue \in [Imsis -> AnyUe]
  /\ ueMap \in [Rntis -> AnyManager]
  /\ lastRnti \in Rntis \cup {0}
  /\ imsiRnti \in [Imsis -> Rntis \cup {0}]
  /\ rntiImsi \in [Rntis -> Imsis \cup {0}]
  /\ epcRnti \in [Imsis -> Rntis \cup {0}]
  /\ rbidTeid \in [Rntis -> SUBSET Bearers]
  /\ teidRbid \in [Bearers -> Rntis \cup {0}]

QueueShape ==
  /\ timers \subseteq Timer
  /\ srb0 \subseteq Srb0Message
  /\ srb1Down \in [Rntis -> Seq(DownMessage)]
  /\ srb1Up \in [Rntis -> Seq(UpMessage)]
  /\ s1Up \in Seq(S1UpMessage)
  /\ s1Down \in Seq(SetupRequest)

Admitted == {"CONNECTION_SETUP", "CONNECTED_NORMALLY", "CONNECTION_RECONFIGURATION"}
Unadmitted == {"NONE", "INITIAL_RANDOM_ACCESS"}
WithMacRnti == {"IDLE_CONNECTING", "CONNECTED_NORMALLY"}

(* A request is handled before the T300 of its UE can expire, and the cell *)
(* has not heard of the UE before.                                         *)
TimersAgree ==
  /\ \A t \in timers : t.kind \in {"Connect", "T300", "Request"} => t.imsi \in Imsis
  /\ \A t \in timers : t.kind = "T300" => ue[t.imsi].state = "IDLE_CONNECTING"
  /\ \A t \in timers :
       t.kind = "Request" =>
         /\ t.rnti \in Rntis
         /\ t.left = 0
         /\ ue[t.imsi].state = "IDLE_CONNECTING"
         /\ ue[t.imsi].macRnti = t.rnti
         /\ ueMap[t.rnti].state \in Unadmitted
  /\ \A s, t \in timers :
       s.kind = "T300" /\ t.kind = "Request" /\ s.imsi = t.imsi => s.left > 0
  /\ \A s, t \in timers : s.kind = "T300" /\ t.kind = "T300" /\ s.imsi = t.imsi => s = t

(* An RNTI is on its way to one UE, or is in the MAC of one UE.            *)
HandlesAreOwn ==
  /\ \A i \in Imsis : ue[i].macRnti <= lastRnti /\ ue[i].rar <= lastRnti
  /\ \A i, j \in Imsis : ue[i].macRnti = ue[j].macRnti /\ i # j => ue[i].macRnti = 0
  /\ \A i, j \in Imsis : ue[i].rar = ue[j].rar /\ i # j => ue[i].rar = 0
  /\ \A i, j \in Imsis : ue[i].rar = ue[j].macRnti => ue[i].rar = 0

(* What a UE and the cell know of each other by the RNTI.                  *)
UesAgree ==
  \A i \in Imsis :
    /\ ue[i].rar # 0 => ueMap[ue[i].rar].state \in Unadmitted
    /\ ue[i].state \in WithMacRnti => ue[i].macRnti # 0 /\ ue[i].rnti = ue[i].macRnti
    /\ ue[i].macRnti # 0 => ueMap[ue[i].macRnti].imsi \in {0, i}
    /\ ue[i].state = "CONNECTED_NORMALLY" /\ HasUeManager(ue[i].macRnti)
         => ueMap[ue[i].macRnti].imsi = i

ManagerAgrees(r) ==
  /\ r > lastRnti => ueMap[r].state = "NONE"
  /\ ueMap[r].state = "NONE" => ueMap[r] = NoManager
  /\ ueMap[r].state \in Admitted <=> ueMap[r].imsi # 0
  /\ ueMap[r].state \notin Admitted => srb1Up[r] = << >> /\ srb1Down[r] = << >>
  /\ ueMap[r].state \in Admitted /\ (ueMap[r].state # "CONNECTION_SETUP" \/ srb1Up[r] # << >>)
       => /\ ue[ueMap[r].imsi].state = "CONNECTED_NORMALLY"
          /\ ue[ueMap[r].imsi].macRnti = r

ManagersAgree == \A r \in Rntis : ManagerAgrees(r)

Srb0Agrees ==
  \A m \in srb0 :
    /\ m.msg = "Setup" => ueMap[m.rnti].state \in Admitted
    /\ m.msg = "Reject" => ueMap[m.rnti].state = "CONNECTION_REJECTED"

EpcRntiAgrees ==
  \A i \in Imsis :
    epcRnti[i] # 0 =>
      /\ epcRnti[i] <= lastRnti
      /\ HasUeManager(epcRnti[i]) => ueMap[epcRnti[i]].imsi = i

(* A bearer that either end has, or is told of, has a tunnel.              *)
DrbsHaveTunnels ==
  /\ \A r \in Rntis : ueMap[r].drbs \subseteq rbidTeid[r]
  /\ \A r \in Rntis : \A n \in DOMAIN srb1Down[r] : srb1Down[r][n].add \subseteq rbidTeid[r]
  /\ \A i \in Imsis : ue[i].drbs # {} => ue[i].state = "CONNECTED_NORMALLY"

RrcInv ==
  /\ EpcInv /\ RrcShape /\ QueueShape
  /\ TimersAgree /\ HandlesAreOwn /\ UesAgree /\ ManagersAgree
  /\ Srb0Agrees /\ EpcRntiAgrees
  /\ IdentityMapsAgree /\ DownlinkReachesItsUe /\ DrbsHaveTunnels /\ UplinkHasTunnel

--------------------------------------------------------------------------------
(* What a step leaves alone, by the names of the single variables.         *)
LEMMA InitRrcInv ==
  RrcInit => RrcInv
<1> SUFFICES ASSUME RrcInit PROVE RrcInv
  OBVIOUS
<1> USE DEF RrcInit
<1>1. EpcInv
  BY EpcInvInit
<1>2. RrcShape
  BY RrcAssumption DEF RrcShape, AnyUe, UeState, AnyManager, ManagerState, NoManager, Rntis
<1>3. QueueShape
  BY EmptySeq DEF QueueShape
<1>4. TimersAgree /\ Srb0Agrees
  BY DEF TimersAgree, Srb0Agrees
<1>5. HandlesAreOwn /\ UesAgree
  BY DEF HandlesAreOwn, UesAgree, WithMacRnti
<1>6. ManagersAgree
  BY ImsiIsNat DEF ManagersAgree, ManagerAgrees, Admitted, NoManager
<1>7. EpcRntiAgrees /\ IdentityMapsAgree /\ DownlinkReachesItsUe
  BY ImsiIsNat DEF EpcRntiAgrees, IdentityMapsAgree, DownlinkReachesItsUe, Live, HasUeManager, NoManager, Rntis
<1>8. DrbsHaveTunnels /\ UplinkHasTunnel
  BY DEF DrbsHaveTunnels, UplinkHasTunnel, NoManager
<1> QED
  BY <1>1, <1>2, <1>3, <1>4, <1>5, <1>6, <1>7, <1>8 DEF RrcInv

--------------------------------------------------------------------------------
(* A step of one UE that changes neither its RNTI nor its bearers, nor     *)
(* whether it has the RNTI of a connection.                                *)
LEMMA QuietUeKeeps ==
  ASSUME RrcInv, EpcInv', NEW i \in Imsis, NEW u \in AnyUe,
         ue' = [ue EXCEPT ![i] = u],
         u.macRnti = ue[i].macRnti, u.rnti = ue[i].rnti, u.drbs = ue[i].drbs,
         u.rar \in {0, ue[i].rar},
         u.state = ue[i].state \/ (u.state \notin WithMacRnti /\ ue[i].state \notin WithMacRnti),
         timers' \subseteq timers,
         UNCHANGED <<enbVars, lastRnti, s1AppVars, radioVars, s1Vars>>
  PROVE  RrcInv'
<1>1. UNCHANGED <<ueMap, imsiRnti, rntiImsi, lastRnti, epcRnti, rbidTeid, teidRbid,
                  srb0, srb1Down, srb1Up, s1Up, s1Down>>
  BY DEF enbVars, s1AppVars, radioVars, s1Vars
<1>2. ue \in [Imsis -> AnyUe]
  BY DEF RrcInv, RrcShape
<1>3. \A j \in Imsis :
        /\ ue'[j].macRnti = ue[j].macRnti
        /\ ue'[j].rnti = ue[j].rnti
        /\ ue'[j].drbs = ue[j].drbs
        /\ ue'[j].rar = ue[j].rar \/ ue'[j].rar = 0
        /\ ue'[j].state = ue[j].state
           \/ (ue'[j].state \notin WithMacRnti /\ ue[j].state \notin WithMacRnti)
  BY <1>2
<1>4. ue' \in [Imsis -> AnyUe]
  BY <1>2
<1>5. RrcShape'
  BY <1>1, <1>4 DEF RrcInv, RrcShape
<1>6. QueueShape'
  BY <1>1 DEF RrcInv, QueueShape
<1>7. TimersAgree'
  BY <1>1, <1>3 DEF RrcInv, TimersAgree, WithMacRnti
<1>8. HandlesAreOwn'
  <2>1. 0 <= lastRnti
    BY RrcAssumption DEF RrcInv, RrcShape, Rntis
  <2> QED
    BY <1>1, <1>3, <2>1 DEF RrcInv, HandlesAreOwn
<1>9. UesAgree'
  BY <1>1, <1>3 DEF RrcInv, UesAgree, WithMacRnti, HasUeManager
<1>10. ManagersAgree'
  <2>1. \A r \in Rntis : ueMap[r].imsi # 0 => ueMap[r].imsi \in Imsis
    BY DEF RrcInv, RrcShape, AnyManager
  <2> QED
    BY <1>1, <1>3, <2>1 DEF RrcInv, ManagersAgree, ManagerAgrees, WithMacRnti
<1>11. Srb0Agrees' /\ EpcRntiAgrees' /\ IdentityMapsAgree' /\ DownlinkReachesItsUe'
  BY <1>1 DEF RrcInv, Srb0Agrees, EpcRntiAgrees, IdentityMapsAgree, DownlinkReachesItsUe,
              Live, HasUeManager
<1>12. DrbsHaveTunnels' /\ UplinkHasTunnel'
  BY <1>1, <1>3 DEF RrcInv, DrbsHaveTunnels, UplinkHasTunnel, HasUeManager, WithMacRnti
<1> QED
  BY <1>5, <1>6, <1>7, <1>8, <1>9, <1>10, <1>11, <1>12 DEF RrcInv

--------------------------------------------------------------------------------
(* A UE that is not connected gives up, and no request of it is left.      *)
LEMMA GiveUpKeeps ==
  ASSUME RrcInv, EpcInv', NEW i \in Imsis, NEW rest,
         GiveUp(i, ue[i], rest),
         ue[i].state # "CONNECTED_NORMALLY",
         rest \subseteq timers,
         \A t \in rest : t.imsi = i => t.kind # "T300" /\ t.kind # "Request",
         srb0' \subseteq srb0,
         UNCHANGED <<enbVars, lastRnti, s1AppVars, srb1Down, srb1Up, s1Vars>>
  PROVE  RrcInv'
<1>1. UNCHANGED <<ueMap, imsiRnti, rntiImsi, lastRnti, epcRnti, rbidTeid, teidRbid,
                  srb1Down, srb1Up, s1Up, s1Down>>
  BY DEF enbVars, s1AppVars, s1Vars
<1>2. ue \in [Imsis -> AnyUe]
  BY DEF RrcInv, RrcShape
<1> DEFINE u == Camped([ue[i] EXCEPT !.macRnti = 0, !.hasReceivedSib2 = FALSE])
<1>3. ue' = [ue EXCEPT ![i] = u]
  BY DEF GiveUp
<1>4. u \in AnyUe /\ u.macRnti = 0 /\ u.rar = ue[i].rar /\ u.drbs = ue[i].drbs
      /\ u.state \notin WithMacRnti
  BY <1>2 DEF Camped, WaitingForSib2, AnyUe, UeState, WithMacRnti
<1> HIDE DEF u
<1>5. \A j \in Imsis : j # i => ue'[j] = ue[j]
  BY <1>2, <1>3
<1>6. ue'[i] = u /\ ue' \in [Imsis -> AnyUe]
  BY <1>2, <1>3, <1>4
<1>7. RrcShape'
  BY <1>1, <1>6 DEF RrcInv, RrcShape
<1> DEFINE e == Event("Connect", 0, i, 0)
<1>8. timers' = rest \cup {e}
  BY DEF GiveUp
<1>9. e \in Timer /\ e.kind = "Connect" /\ e.imsi = i
  BY DEF Event, Timer, TimerKind
<1> HIDE DEF e
<1>10. QueueShape'
  BY <1>1, <1>8, <1>9 DEF RrcInv, QueueShape
<1>11. TimersAgree'
  BY <1>1, <1>5, <1>8, <1>9 DEF RrcInv, TimersAgree
<1>12. HandlesAreOwn'
  <2>1. 0 <= lastRnti
    BY RrcAssumption DEF RrcInv, RrcShape, Rntis
  <2> QED
    BY <1>1, <1>4, <1>5, <1>6, <2>1 DEF RrcInv, HandlesAreOwn
<1>13. UesAgree'
  BY <1>1, <1>4, <1>5, <1>6 DEF RrcInv, UesAgree, HasUeManager, WithMacRnti
<1>14. ManagersAgree'
  <2>1. \A r \in Rntis : ueMap[r].imsi # 0 => ueMap[r].imsi \in Imsis
    BY DEF RrcInv, RrcShape, AnyManager
  <2> QED
    BY <1>1, <1>5, <2>1 DEF RrcInv, ManagersAgree, ManagerAgrees
<1>15. Srb0Agrees' /\ EpcRntiAgrees' /\ IdentityMapsAgree' /\ DownlinkReachesItsUe'
  BY <1>1 DEF RrcInv, Srb0Agrees, EpcRntiAgrees, IdentityMapsAgree, DownlinkReachesItsUe,
              Live, HasUeManager
<1>16. DrbsHaveTunnels' /\ UplinkHasTunnel'
  <2>1. u.drbs = {}
    BY <1>4 DEF RrcInv, DrbsHaveTunnels
  <2> QED
    BY <1>1, <1>5, <1>6, <2>1 DEF RrcInv, DrbsHaveTunnels, UplinkHasTunnel, HasUeManager
<1> QED
  BY <1>7, <1>10, <1>11, <1>12, <1>13, <1>14, <1>15, <1>16 DEF RrcInv

(* Messages of SRB0 that go, and what only the links to the MME see.       *)
LEMMA LinksKeep ==
  ASSUME RrcInv, EpcInv', srb0' \subseteq srb0, timers' \subseteq timers,
         s1Up' \in Seq(S1UpMessage), s1Down' \in Seq(SetupRequest),
         UNCHANGED <<ue, enbVars, lastRnti, s1AppVars, srb1Down, srb1Up>>
  PROVE  RrcInv'
<1>1. UNCHANGED <<ue, ueMap, imsiRnti, rntiImsi, lastRnti, epcRnti, rbidTeid, teidRbid,
                  srb1Down, srb1Up>>
  BY DEF enbVars, s1AppVars
<1>2. RrcShape' /\ QueueShape'
  BY <1>1 DEF RrcInv, RrcShape, QueueShape
<1>3. TimersAgree' /\ HandlesAreOwn' /\ UesAgree' /\ ManagersAgree'
  BY <1>1 DEF RrcInv, TimersAgree, HandlesAreOwn, UesAgree, ManagersAgree, ManagerAgrees, HasUeManager
<1>4. Srb0Agrees' /\ EpcRntiAgrees' /\ IdentityMapsAgree' /\ DownlinkReachesItsUe'
  BY <1>1 DEF RrcInv, Srb0Agrees, EpcRntiAgrees, IdentityMapsAgree, DownlinkReachesItsUe,
              Live, HasUeManager
<1>5. DrbsHaveTunnels' /\ UplinkHasTunnel'
  BY <1>1 DEF RrcInv, DrbsHaveTunnels, UplinkHasTunnel, HasUeManager
<1> QED
  BY <1>2, <1>3, <1>4, <1>5 DEF RrcInv

(* A step of the cell with a UE it has admitted and goes on to serve.      *)
LEMMA AdmittedStepKeeps ==
  ASSUME RrcInv, EpcInv', NEW r \in Rntis, NEW m \in AnyManager,
         ueMap' = [ueMap EXCEPT ![r] = m],
         ueMap[r].state \in Admitted, m.state \in Admitted, m.imsi = ueMap[r].imsi,
         m.state # "CONNECTION_SETUP" \/ srb1Up'[r] # << >>
           => ueMap[r].state # "CONNECTION_SETUP" \/ srb1Up[r] # << >>,
         rbidTeid' \in [Rntis -> SUBSET Bearers], teidRbid' \in [Bearers -> Rntis \cup {0}],
         \A q \in Rntis : rbidTeid[q] \subseteq rbidTeid'[q],
         m.drbs \subseteq rbidTeid'[r],
         DownlinkReachesItsUe',
         srb1Down' \in [Rntis -> Seq(DownMessage)], srb1Up' \in [Rntis -> Seq(UpMessage)],
         \A q \in Rntis : q # r => srb1Down'[q] = srb1Down[q] /\ srb1Up'[q] = srb1Up[q],
         \A n \in DOMAIN srb1Down'[r] : srb1Down'[r][n].add \subseteq rbidTeid'[r],
         timers' \subseteq timers,
         s1Up' \in Seq(S1UpMessage), s1Down' \in Seq(SetupRequest),
         UNCHANGED <<ue, imsiRnti, rntiImsi, lastRnti, epcRnti, srb0>>
  PROVE  RrcInv'
<1>1. ueMap \in [Rntis -> AnyManager] /\ ueMap' \in [Rntis -> AnyManager]
  BY DEF RrcInv, RrcShape
<1>2. /\ ueMap'[r] = m
      /\ \A q \in Rntis : q # r => ueMap'[q] = ueMap[q]
      /\ \A q \in Rntis : ueMap'[q].imsi = ueMap[q].imsi
      /\ \A q \in Rntis : ueMap'[q].state = "NONE" <=> ueMap[q].state = "NONE"
      /\ \A q \in Rntis : ueMap'[q].state \in Unadmitted <=> ueMap[q].state \in Unadmitted
      /\ \A q \in Rntis : ueMap'[q].state \in Admitted <=> ueMap[q].state \in Admitted
      /\ \A q \in Rntis : ueMap'[q].state = "CONNECTION_REJECTED"
                            <=> ueMap[q].state = "CONNECTION_REJECTED"
  BY <1>1 DEF Admitted, Unadmitted
<1>3. RrcShape' /\ QueueShape'
  BY <1>1 DEF RrcInv, RrcShape, QueueShape
<1>4. TimersAgree' /\ HandlesAreOwn'
  BY <1>2 DEF RrcInv, TimersAgree, HandlesAreOwn
<1>5. UesAgree'
  <2>1. \A i \in Imsis : ue[i].rar \in Rntis \cup {0} /\ ue[i].macRnti \in Rntis \cup {0}
    BY DEF RrcInv, RrcShape, AnyUe
  <2> QED
    BY <1>2, <2>1 DEF RrcInv, UesAgree, HasUeManager
<1>6. ManagersAgree'
  <2>1. ASSUME NEW q \in Rntis, q # r
        PROVE  ueMap'[q] = ueMap[q] /\ srb1Down'[q] = srb1Down[q] /\ srb1Up'[q] = srb1Up[q]
    BY <1>2, <2>1
  <2>2. ASSUME NEW q \in Rntis, q # r PROVE ManagerAgrees(q)'
    <3>1. ManagerAgrees(q) /\ lastRnti' = lastRnti /\ ue' = ue
      BY DEF RrcInv, ManagersAgree
    <3> QED
      BY <2>1, <2>2, <3>1 DEF ManagerAgrees
  <2>3. ManagerAgrees(r) /\ lastRnti' = lastRnti /\ ue' = ue
    BY DEF RrcInv, ManagersAgree
  <2>4. m.state # "NONE" /\ ueMap[r].state # "NONE"
    BY DEF Admitted
  <2>5. ManagerAgrees(r)'
    BY <1>2, <2>3, <2>4 DEF ManagerAgrees
  <2> QED
    BY <2>2, <2>5 DEF ManagersAgree
<1>7. Srb0Agrees'
  <2>1. \A n \in srb0 : n.rnti \in Rntis
    BY DEF RrcInv, QueueShape, Srb0Message
  <2> QED
    BY <1>2, <2>1 DEF RrcInv, Srb0Agrees
<1>8. EpcRntiAgrees' /\ IdentityMapsAgree'
  <2>1. \A q : HasUeManager(q)' <=> HasUeManager(q)
    BY <1>2 DEF HasUeManager
  <2>2. \A q : HasUeManager(q) => q \in Rntis
    BY DEF HasUeManager
  <2> QED
    BY <1>2, <2>1, <2>2 DEF RrcInv, EpcRntiAgrees, IdentityMapsAgree, Live
<1>9. DrbsHaveTunnels'
  BY <1>2 DEF RrcInv, DrbsHaveTunnels
<1>10. UplinkHasTunnel'
  BY <1>2 DEF RrcInv, UplinkHasTunnel, HasUeManager
<1> QED
  BY <1>3, <1>4, <1>5, <1>6, <1>7, <1>8, <1>9, <1>10 DEF RrcInv

--------------------------------------------------------------------------------
(* Time.                                                                   *)
LEMMA AllSoonerKeeps ==
  ASSUME NEW S, NEW s \in Seq(S), \A n \in DOMAIN s : Sooner(s[n]) \in S
  PROVE  /\ AllSooner(s) \in Seq(S)
         /\ DOMAIN AllSooner(s) = DOMAIN s
         /\ \A n \in DOMAIN s : AllSooner(s)[n] = Sooner(s[n])
         /\ AllSooner(s) = << >> <=> s = << >>
<1>1. Len(s) \in Nat /\ DOMAIN s = 1..Len(s)
  BY LenProperties
<1>2. AllSooner(s) = [n \in 1..Len(s) |-> Sooner(s[n])]
  BY <1>1 DEF AllSooner
<1>3. AllSooner(s) \in [1..Len(s) -> S]
  BY <1>1, <1>2
<1>4. AllSooner(s) \in Seq(S)
  BY <1>1, <1>3, SeqDef
<1>5. Len(AllSooner(s)) = Len(s)
  BY <1>1, <1>2, <1>4, LenProperties
<1>6. AllSooner(s) = << >> <=> s = << >>
  BY <1>4, <1>5, EmptySeq
<1> QED
  BY <1>1, <1>2, <1>4, <1>6

LEMMA ElapseKeeps ==
  ASSUME RrcInv, EpcInv', Elapse
  PROVE  RrcInv'
<1>1. UNCHANGED <<ue, ueMap, imsiRnti, rntiImsi, lastRnti, epcRnti, rbidTeid, teidRbid>>
  BY DEF Elapse, enbVars, s1AppVars
<1>2. RrcShape'
  BY <1>1 DEF RrcInv, RrcShape
<1>3. ASSUME NEW t \in timers
      PROVE  /\ Sooner(t) \in Timer
             /\ Sooner(t).kind = t.kind /\ Sooner(t).rnti = t.rnti /\ Sooner(t).imsi = t.imsi
             /\ t.left > 0
  <2>1. t \in Timer /\ t.left > 0
    BY DEF RrcInv, QueueShape, Elapse, Waiting
  <2>2. t.left \in Nat /\ t.left - 1 \in Nat
    BY <2>1 DEF Timer
  <2> QED
    BY <2>1, <2>2 DEF Timer, Sooner
<1>4. ASSUME NEW m \in srb0
      PROVE  Sooner(m) \in Srb0Message /\ Sooner(m).msg = m.msg /\ Sooner(m).rnti = m.rnti
  <2>1. m \in Srb0Message /\ m.left > 0
    BY DEF RrcInv, QueueShape, Elapse, Waiting
  <2>2. m.left \in Nat /\ m.left - 1 \in Nat
    BY <2>1 DEF Srb0Message
  <2> QED
    BY <2>1, <2>2 DEF Srb0Message, Sooner
<1>5. ASSUME NEW r \in Rntis
      PROVE  /\ srb1Down'[r] \in Seq(DownMessage)
             /\ DOMAIN srb1Down'[r] = DOMAIN srb1Down[r]
             /\ \A n \in DOMAIN srb1Down[r] : srb1Down'[r][n].add = srb1Down[r][n].add
             /\ srb1Down'[r] = << >> <=> srb1Down[r] = << >>
  <2>1. srb1Down'[r] = AllSooner(srb1Down[r]) /\ AllWaiting(srb1Down[r])
    BY DEF Elapse
  <2>2. srb1Down[r] \in Seq(DownMessage)
    BY DEF RrcInv, QueueShape
  <2>3. \A n \in DOMAIN srb1Down[r] : srb1Down[r][n] \in DownMessage
    BY <2>2, LenProperties, ElementOfSeq
  <2>4. \A n \in DOMAIN srb1Down[r] : /\ Sooner(srb1Down[r][n]) \in DownMessage
                                      /\ Sooner(srb1Down[r][n]).add = srb1Down[r][n].add
    BY <2>1, <2>3 DEF AllWaiting, Waiting, Sooner, DownMessage
  <2> QED
    BY <2>1, <2>2, <2>4, AllSoonerKeeps
<1>6. ASSUME NEW r \in Rntis
      PROVE  srb1Up'[r] \in Seq(UpMessage) /\ (srb1Up'[r] = << >> <=> srb1Up[r] = << >>)
  <2>1. srb1Up'[r] = AllSooner(srb1Up[r]) /\ AllWaiting(srb1Up[r])
    BY DEF Elapse
  <2>2. srb1Up[r] \in Seq(UpMessage)
    BY DEF RrcInv, QueueShape
  <2>3. \A n \in DOMAIN srb1Up[r] : srb1Up[r][n] \in UpMessage
    BY <2>2, LenProperties, ElementOfSeq
  <2>4. \A n \in DOMAIN srb1Up[r] : Sooner(srb1Up[r][n]) \in UpMessage
    BY <2>1, <2>3 DEF AllWaiting, Waiting, Sooner, UpMessage
  <2> QED
    BY <2>1, <2>2, <2>4, AllSoonerKeeps
<1>7. s1Up' \in Seq(S1UpMessage)
  <2>1. s1Up' = AllSooner(s1Up) /\ AllWaiting(s1Up)
    BY DEF Elapse
  <2>2. s1Up \in Seq(S1UpMessage)
    BY DEF RrcInv, QueueShape
  <2>3. \A n \in DOMAIN s1Up : s1Up[n] \in S1UpMessage
    BY <2>2, LenProperties, ElementOfSeq
  <2>4. \A n \in DOMAIN s1Up : Sooner(s1Up[n]) \in S1UpMessage
    BY <2>1, <2>3 DEF AllWaiting, Waiting, Sooner, S1UpMessage
  <2> QED
    BY <2>1, <2>2, <2>4, AllSoonerKeeps
<1>8. s1Down' \in Seq(SetupRequest)
  <2>1. s1Down' = AllSooner(s1Down) /\ AllWaiting(s1Down)
    BY DEF Elapse
  <2>2. s1Down \in Seq(SetupRequest)
    BY DEF RrcInv, QueueShape
  <2>3. \A n \in DOMAIN s1Down : s1Down[n] \in SetupRequest
    BY <2>2, LenProperties, ElementOfSeq
  <2>4. \A n \in DOMAIN s1Down : Sooner(s1Down[n]) \in SetupRequest
    BY <2>1, <2>3 DEF AllWaiting, Waiting, Sooner, SetupRequest, S1DownMessage
  <2> QED
    BY <2>1, <2>2, <2>4, AllSoonerKeeps
<1>9. timers' = {Sooner(t) : t \in timers} /\ srb0' = {Sooner(m) : m \in srb0}
      /\ srb1Down' = [r \in Rntis |-> srb1Down'[r]] /\ srb1Up' = [r \in Rntis |-> srb1Up'[r]]
  BY DEF Elapse
<1>10. QueueShape'
  BY <1>3, <1>4, <1>5, <1>6, <1>7, <1>8, <1>9 DEF QueueShape
(* A request is due at once, so that none is there when time goes on.      *)
<1>11. \A t \in timers : t.kind # "Request"
  BY <1>3 DEF RrcInv, TimersAgree
<1>12. TimersAgree'
  BY <1>1, <1>3, <1>9, <1>11 DEF RrcInv, TimersAgree
<1>13. HandlesAreOwn' /\ UesAgree'
  BY <1>1 DEF RrcInv, HandlesAreOwn, UesAgree, HasUeManager
<1>14. ManagersAgree'
  BY <1>1, <1>5, <1>6 DEF RrcInv, ManagersAgree, ManagerAgrees
<1>15. Srb0Agrees'
  BY <1>1, <1>4, <1>9 DEF RrcInv, Srb0Agrees
<1>16. EpcRntiAgrees' /\ IdentityMapsAgree' /\ DownlinkReachesItsUe'
  BY <1>1 DEF RrcInv, EpcRntiAgrees, IdentityMapsAgree, DownlinkReachesItsUe, Live, HasUeManager
<1>17. DrbsHaveTunnels' /\ UplinkHasTunnel'
  BY <1>1, <1>5 DEF RrcInv, DrbsHaveTunnels, UplinkHasTunnel, HasUeManager
<1> QED
  BY <1>2, <1>10, <1>12, <1>13, <1>14, <1>15, <1>16, <1>17 DEF RrcInv

--------------------------------------------------------------------------------
(* Contexts that are removed.                                              *)

(* The release takes the tunnels of the RNTIs in gone out of both maps, so *)
(* that what is left leads to the contexts that are left.                  *)
LEMMA ReleaseKeepsTunnels ==
  ASSUME DownlinkReachesItsUe, RrcShape, NEW gone, gone \subseteq Rntis, UeContextRelease(gone),
         \A r \in Rntis : r \notin gone /\ HasUeManager(r) /\ ueMap[r].imsi # 0
                            => HasUeManager(r)' /\ ueMap'[r].imsi = ueMap[r].imsi
  PROVE  /\ DownlinkReachesItsUe'
         /\ rbidTeid' \in [Rntis -> SUBSET Bearers]
         /\ teidRbid' \in [Bearers -> Rntis \cup {0}]
         /\ \A r \in Rntis : rbidTeid'[r] = IF r \in gone THEN {} ELSE rbidTeid[r]
<1>1. rbidTeid \in [Rntis -> SUBSET Bearers] /\ teidRbid \in [Bearers -> Rntis \cup {0}]
  BY DEF RrcShape
<1>2. rbidTeid' \in [Rntis -> SUBSET Bearers]
      /\ \A r \in Rntis : rbidTeid'[r] = IF r \in gone THEN {} ELSE rbidTeid[r]
  BY <1>1 DEF UeContextRelease
<1>3. /\ teidRbid' \in [Bearers -> Rntis \cup {0}]
      /\ \A b \in Bearers : teidRbid'[b] = IF \E r \in gone : b \in rbidTeid[r] THEN 0
                                           ELSE teidRbid[b]
  BY <1>1 DEF UeContextRelease
<1>4. ASSUME NEW r \in Rntis, NEW b \in rbidTeid'[r]
      PROVE  teidRbid'[b] = r
  <2>1. r \notin gone /\ b \in rbidTeid[r] /\ b \in Bearers
    BY <1>1, <1>2, <1>4
  <2>2. teidRbid[b] = r
    BY <2>1 DEF DownlinkReachesItsUe
  <2>3. ~ \E q \in gone : b \in rbidTeid[q]
    <3> SUFFICES ASSUME NEW q \in gone, b \in rbidTeid[q] PROVE FALSE
      OBVIOUS
    <3> QED
      BY <2>1, <2>2 DEF DownlinkReachesItsUe
  <2> QED
    BY <1>3, <2>1, <2>2, <2>3
<1>5. ASSUME NEW b \in Bearers, teidRbid'[b] # 0
      PROVE  (/\ b \in rbidTeid[teidRbid[b]]
              /\ HasUeManager(teidRbid[b])
              /\ b \in BearersOf(ueMap[teidRbid[b]].imsi))'
  <2>1. PICK r \in Rntis : r = teidRbid'[b] /\ r = teidRbid[b]
    BY <1>1, <1>3, <1>5
  <2>2. b \in rbidTeid[r] /\ HasUeManager(r) /\ b \in BearersOf(ueMap[r].imsi)
    BY <1>3, <1>5, <2>1 DEF DownlinkReachesItsUe
  <2>3. r \notin gone
    BY <1>3, <1>5, <2>2
  <2>4. ueMap[r].imsi # 0
    BY <2>2, NoBearerOf0
  <2>5. HasUeManager(r)' /\ ueMap'[r].imsi = ueMap[r].imsi
    BY <2>2, <2>3, <2>4
  <2>6. b \in rbidTeid'[r]
    BY <1>2, <2>2, <2>3
  <2> QED
    BY <2>1, <2>2, <2>5, <2>6 DEF HasUeManager
<1>6. DownlinkReachesItsUe'
  BY <1>4, <1>5 DEF DownlinkReachesItsUe
<1> QED
  BY <1>2, <1>3, <1>6

(* A timer of the cell removes the context of r.                           *)
LEMMA RemoveUeKeeps ==
  ASSUME RrcInv, EpcInv', NEW r \in Rntis, RemoveUe(r), timers' \subseteq timers
  PROVE  RrcInv'
<1>1. UNCHANGED <<ue, lastRnti, epcRnti, s1Up, s1Down>>
  BY DEF RemoveUe, s1Vars
<1>2. RrcShape /\ QueueShape
  BY DEF RrcInv
<1>3. \A q \in Rntis : ueMap'[q] = IF q = r THEN NoManager ELSE ueMap[q]
  BY DEF RemoveUe, RemoveUes
<1>4. \A q \in Rntis : srb1Down'[q] = (IF q = r THEN << >> ELSE srb1Down[q])
                       /\ srb1Up'[q] = (IF q = r THEN << >> ELSE srb1Up[q])
  BY DEF RemoveUe, RemoveUes
<1>5. NoManager \in AnyManager
  BY DEF NoManager, AnyManager, ManagerState
<1>6. ueMap' \in [Rntis -> AnyManager]
  BY <1>2, <1>5 DEF RrcShape, RemoveUe, RemoveUes
<1>7. /\ DownlinkReachesItsUe'
      /\ rbidTeid' \in [Rntis -> SUBSET Bearers]
      /\ teidRbid' \in [Bearers -> Rntis \cup {0}]
      /\ \A q \in Rntis : rbidTeid'[q] = IF q = r THEN {} ELSE rbidTeid[q]
  <2>1. UeContextRelease({r}) /\ DownlinkReachesItsUe
    BY DEF RemoveUe, RemoveUes, RrcInv
  <2>2. \A q \in Rntis : q \notin {r} /\ HasUeManager(q) /\ ueMap[q].imsi # 0
                           => HasUeManager(q)' /\ ueMap'[q].imsi = ueMap[q].imsi
    BY <1>3 DEF HasUeManager
  <2> QED
    BY <1>2, <2>1, <2>2, ReleaseKeepsTunnels
<1>8. \A i \in Imsis :
        imsiRnti'[i] = IF imsiRnti[i] = r /\ rntiImsi[imsiRnti[i]] = i THEN 0 ELSE imsiRnti[i]
  BY DEF RemoveUe, ImsiRntiWithout
<1>9. \A q \in Rntis : rntiImsi'[q] = IF q = r THEN 0 ELSE rntiImsi[q]
  BY DEF RemoveUe, RntiImsiWithout
<1>10. imsiRnti' \in [Imsis -> Rntis \cup {0}] /\ rntiImsi' \in [Rntis -> Imsis \cup {0}]
  BY <1>2 DEF RrcShape, RemoveUe, ImsiRntiWithout, RntiImsiWithout
<1>11. srb0' \subseteq srb0 /\ \A m \in srb0' : m.rnti # r
  BY DEF RemoveUe, Srb0Without
<1>12. RrcShape'
  BY <1>1, <1>2, <1>6, <1>7, <1>10 DEF RrcShape
<1>13. QueueShape'
  <2>1. srb1Down' \in [Rntis -> Seq(DownMessage)] /\ srb1Up' \in [Rntis -> Seq(UpMessage)]
    BY <1>2, EmptySeq DEF QueueShape, RemoveUe, RemoveUes
  <2> QED
    BY <1>1, <1>2, <1>11, <2>1 DEF QueueShape
<1>14. TimersAgree'
  BY <1>1, <1>3 DEF RrcInv, TimersAgree, NoManager, Unadmitted
<1>15. HandlesAreOwn'
  BY <1>1 DEF RrcInv, HandlesAreOwn
<1>16. UesAgree'
  <2>1. \A i \in Imsis : ue[i].rar \in Rntis \cup {0} /\ ue[i].macRnti \in Rntis \cup {0}
    BY <1>2 DEF RrcShape, AnyUe
  <2> QED
    BY <1>1, <1>3, <2>1 DEF RrcInv, UesAgree, HasUeManager, NoManager, Unadmitted
<1>17. ManagersAgree'
  <2>1. ASSUME NEW q \in Rntis PROVE ManagerAgrees(q)'
    <3>1. ManagerAgrees(q)
      BY DEF RrcInv, ManagersAgree
    <3> QED
      BY <1>1, <1>3, <1>4, <3>1 DEF ManagerAgrees, NoManager, Admitted
  <2> QED
    BY <2>1 DEF ManagersAgree
<1>18. Srb0Agrees'
  <2>1. \A m \in srb0 : m.rnti \in Rntis
    BY <1>2 DEF QueueShape, Srb0Message
  <2> QED
    BY <1>3, <1>11, <2>1 DEF RrcInv, Srb0Agrees
<1>19. EpcRntiAgrees'
  BY <1>1, <1>3 DEF RrcInv, EpcRntiAgrees, HasUeManager, NoManager
<1>20. IdentityMapsAgree'
  <2>1. \A q \in Rntis : q # r => (HasUeManager(q)' <=> HasUeManager(q)) /\ ueMap'[q] = ueMap[q]
    BY <1>3 DEF HasUeManager
  <2>2. ~HasUeManager(r)'
    BY <1>3 DEF HasUeManager, NoManager
  <2>3. ASSUME NEW i \in Imsis, NEW q \in Rntis PROVE imsiRnti'[i] = q <=> rntiImsi'[q] = i
    BY <1>8, <1>9, ImsiIsNat DEF RrcInv, IdentityMapsAgree, Rntis
  <2>4. \A q \in Rntis : rntiImsi'[q] # 0 => HasUeManager(q)' /\ ueMap'[q].imsi = rntiImsi'[q]
    BY <1>9, <2>1 DEF RrcInv, IdentityMapsAgree
  <2>5. \A q \in Live' : ueMap'[q].imsi = rntiImsi'[q]
    BY <1>9, <2>1, <2>2 DEF RrcInv, IdentityMapsAgree, Live
  <2> QED
    BY <2>3, <2>4, <2>5 DEF IdentityMapsAgree
<1>21. DrbsHaveTunnels'
  BY <1>1, <1>3, <1>4, <1>7 DEF RrcInv, DrbsHaveTunnels, NoManager
<1>22. UplinkHasTunnel'
  BY <1>1, <1>3, <1>7 DEF RrcInv, UplinkHasTunnel, HasUeManager, NoManager
<1> QED
  BY <1>7, <1>12, <1>13, <1>14, <1>15, <1>16, <1>17, <1>18, <1>19, <1>20, <1>21, <1>22 DEF RrcInv

--------------------------------------------------------------------------------
(* Requests.                                                               *)

(* While the request of UE i under RNTI r is under way, every context of   *)
(* the IMSI waits for its UE, and is the stale one.                        *)
LEMMA StaleContexts ==
  ASSUME RrcInv, NEW t \in timers, t.kind = "Request",
         HasUeManager(t.rnti), ueMap[t.rnti].state = "INITIAL_RANDOM_ACCESS"
  PROVE  /\ t.imsi \in Imsis /\ t.rnti \in Rntis
         /\ ue[t.imsi].state = "IDLE_CONNECTING" /\ ue[t.imsi].macRnti = t.rnti
         /\ ueMap[t.rnti].imsi = 0
         /\ t.rnti \notin StaleContext(t.rnti, t.imsi)
         /\ StaleContext(t.rnti, t.imsi) \subseteq Rntis
         /\ \A q \in Rntis : q \in StaleContext(t.rnti, t.imsi) <=> ueMap[q].imsi = t.imsi
         /\ \A q \in Rntis : q \in StaleContext(t.rnti, t.imsi) <=> rntiImsi[q] = t.imsi
<1> DEFINE r == t.rnti
           i == t.imsi
<1>1. i \in Imsis /\ r \in Rntis /\ ue[i].state = "IDLE_CONNECTING" /\ ue[i].macRnti = r
  BY DEF RrcInv, TimersAgree
<1>2. ManagersAgree /\ IdentityMapsAgree
  BY DEF RrcInv
<1>3. ueMap[r].imsi = 0
  BY <1>1, <1>2 DEF ManagersAgree, ManagerAgrees, Admitted
<1>4. r \notin StaleContext(r, i) /\ StaleContext(r, i) \subseteq Rntis
  BY DEF StaleContext
<1>5. i # 0
  BY <1>1, ImsiIsNat
<1> HIDE DEF r, i
<1>6. ASSUME NEW q \in Rntis, q \in StaleContext(r, i)
      PROVE  ueMap[q].imsi = i /\ rntiImsi[q] = i
  <2>1. imsiRnti[i] = q /\ ueMap[q].state = "CONNECTION_SETUP"
    BY <1>6 DEF StaleContext
  <2>2. rntiImsi[q] = i
    BY <1>1, <1>2, <2>1 DEF IdentityMapsAgree
  <2> QED
    BY <1>2, <1>5, <2>2 DEF IdentityMapsAgree
<1>7. ASSUME NEW q \in Rntis, ueMap[q].imsi = i
      PROVE  q \in StaleContext(r, i)
  <2>1. ManagerAgrees(q)
    BY <1>2 DEF ManagersAgree
  <2>2. ueMap[q].state \in Admitted
    BY <1>5, <1>7, <2>1 DEF ManagerAgrees
  <2>3. ueMap[q].state = "CONNECTION_SETUP"
    BY <1>1, <1>7, <2>1, <2>2 DEF ManagerAgrees
  <2>4. q \in Live
    BY <2>3 DEF Live, HasUeManager
  <2>5. rntiImsi[q] = i
    BY <1>2, <1>7, <2>4 DEF IdentityMapsAgree
  <2>6. imsiRnti[i] = q
    BY <1>1, <1>2, <2>5 DEF IdentityMapsAgree
  <2>7. q # r
    BY <1>3, <1>5, <1>7
  <2> QED
    BY <2>3, <2>6, <2>7 DEF StaleContext
<1>8. ASSUME NEW q \in Rntis, rntiImsi[q] = i
      PROVE  ueMap[q].imsi = i
  BY <1>2, <1>5, <1>8 DEF IdentityMapsAgree
<1>9. \A q \in Rntis : q \in StaleContext(r, i) <=> ueMap[q].imsi = i
  BY <1>6, <1>7
<1>10. \A q \in Rntis : q \in StaleContext(r, i) <=> rntiImsi[q] = i
  BY <1>6, <1>7, <1>8
<1> QED
  BY <1>1, <1>3, <1>4, <1>9, <1>10 DEF r, i

LEMMA AdmitKeeps ==
  ASSUME RrcInv, EpcInv', NEW t \in timers, t.kind = "Request",
         HasUeManager(t.rnti), ueMap[t.rnti].state = "INITIAL_RANDOM_ACCESS",
         AdmitRrcConnection(t)
  PROVE  RrcInv'
<1> DEFINE r == t.rnti
           i == t.imsi
           stale == StaleContext(r, i)
           m == [ueMap[r] EXCEPT !.state = "CONNECTION_SETUP", !.imsi = i, !.toStart = ueMap[r].drbs]
           managers == [ueMap EXCEPT ![r].state = "CONNECTION_SETUP", ![r].imsi = i,
                                     ![r].toStart = ueMap[r].drbs]
           setup == [msg |-> "Setup", rnti |-> r, left |-> RadioDelay]
           initial == [msg |-> "InitialUeMessage", imsi |-> i, bearer |-> 0, left |-> S1Delay]
           guard == Event("SetupTimeout", r, 0, SetupTimeout)
<1>1. UNCHANGED <<ue, lastRnti, s1Down>>
  BY DEF AdmitRrcConnection
<1>2. RrcShape /\ QueueShape
  BY DEF RrcInv
<1>3. /\ i \in Imsis /\ r \in Rntis /\ i # 0 /\ r # 0
      /\ ue[i].state = "IDLE_CONNECTING" /\ ue[i].macRnti = r
      /\ ueMap[r].imsi = 0 /\ r \notin stale /\ stale \subseteq Rntis
      /\ \A q \in Rntis : q \in stale <=> ueMap[q].imsi = i
      /\ \A q \in Rntis : q \in stale <=> rntiImsi[q] = i
  BY StaleContexts, ImsiIsNat DEF Rntis
<1>4. /\ RemoveUes(stale, managers)
      /\ imsiRnti' = [ImsiRntiWithout(stale) EXCEPT ![i] = r]
      /\ rntiImsi' = [RntiImsiWithout(stale) EXCEPT ![r] = i]
      /\ epcRnti' = [epcRnti EXCEPT ![i] = r]
      /\ s1Up' = Append(s1Up, initial)
      /\ srb0' = Srb0Without(stale) \cup {setup}
      /\ timers' = (timers \ ({t} \cup OfRnti("RequestTimeout", r))) \cup {guard}
  BY DEF AdmitRrcConnection
<1>5. /\ m \in AnyManager /\ m.state = "CONNECTION_SETUP" /\ m.imsi = i
      /\ m.drbs = ueMap[r].drbs
  <2>1. ueMap[r] \in AnyManager
    BY <1>2, <1>3 DEF RrcShape
  <2> HIDE DEF r, i
  <2> QED
    BY <1>3, <2>1 DEF AnyManager, ManagerState
<1>6. \A q \in Rntis : ueMap'[q] = IF q \in stale THEN NoManager ELSE IF q = r THEN m ELSE ueMap[q]
  BY <1>2, <1>3, <1>4 DEF RemoveUes, RrcShape, AnyManager
<1>6a. ueMap' = [q \in Rntis |-> ueMap'[q]]
  BY <1>4 DEF RemoveUes
<1>7. \A q \in Rntis : srb1Down'[q] = (IF q \in stale THEN << >> ELSE srb1Down[q])
                       /\ srb1Up'[q] = (IF q \in stale THEN << >> ELSE srb1Up[q])
  BY <1>4 DEF RemoveUes
<1>8. srb1Down' \in [Rntis -> Seq(DownMessage)] /\ srb1Up' \in [Rntis -> Seq(UpMessage)]
  BY <1>2, <1>4, EmptySeq DEF RemoveUes, QueueShape
<1>9. setup \in Srb0Message /\ setup.rnti = r /\ setup.msg = "Setup"
  BY <1>3, RrcAssumption DEF Srb0Message
<1>10. initial \in S1UpMessage
  BY <1>3, RrcAssumption DEF S1UpMessage
<1>11. guard \in Timer /\ guard.kind = "SetupTimeout"
  BY <1>3, RrcAssumption DEF Event, Timer, TimerKind
<1>12. NoManager \in AnyManager
  BY DEF NoManager, AnyManager, ManagerState
<1> HIDE DEF r, i, stale, m, managers, setup, initial, guard
<1>13. ueMap' \in [Rntis -> AnyManager]
  <2>1. \A q \in Rntis : ueMap'[q] \in AnyManager
    BY <1>2, <1>5, <1>6, <1>12 DEF RrcShape
  <2> QED
    BY <1>6a, <2>1
<1>14. \A q \in Rntis : q \notin stale /\ q # r => ueMap'[q] = ueMap[q]
  BY <1>6
<1>15. ueMap'[r] = m /\ \A q \in stale : ueMap'[q] = NoManager
  BY <1>3, <1>6
<1>16. /\ DownlinkReachesItsUe'
       /\ rbidTeid' \in [Rntis -> SUBSET Bearers]
       /\ teidRbid' \in [Bearers -> Rntis \cup {0}]
       /\ \A q \in Rntis : rbidTeid'[q] = IF q \in stale THEN {} ELSE rbidTeid[q]
  <2>1. UeContextRelease(stale) /\ DownlinkReachesItsUe
    BY <1>4 DEF RemoveUes, RrcInv
  <2>2. \A q \in Rntis : q \notin stale /\ HasUeManager(q) /\ ueMap[q].imsi # 0
                           => HasUeManager(q)' /\ ueMap'[q].imsi = ueMap[q].imsi
    BY <1>3, <1>14 DEF HasUeManager
  <2> QED
    BY <1>2, <1>3, <2>1, <2>2, ReleaseKeepsTunnels
(* Only the entry of IMSI i is changed in the map by IMSI, since no other  *)
(* IMSI has a stale context.                                               *)
<1>17. imsiRnti' \in [Imsis -> Rntis \cup {0}]
       /\ \A j \in Imsis : imsiRnti'[j] = IF j = i THEN r ELSE imsiRnti[j]
  <2>1. ImsiRntiWithout(stale) \in [Imsis -> Rntis \cup {0}]
    BY <1>2 DEF ImsiRntiWithout, RrcShape
  <2>2. \A j \in Imsis : j # i => ~(imsiRnti[j] \in stale /\ rntiImsi[imsiRnti[j]] = j)
    BY <1>3
  <2>3. \A j \in Imsis : j # i => ImsiRntiWithout(stale)[j] = imsiRnti[j]
    BY <2>2 DEF ImsiRntiWithout
  <2> QED
    BY <1>3, <1>4, <2>1, <2>3
<1>18. rntiImsi' \in [Rntis -> Imsis \cup {0}]
       /\ \A q \in Rntis : rntiImsi'[q] = IF q = r THEN i ELSE IF q \in stale THEN 0 ELSE rntiImsi[q]
  BY <1>2, <1>3, <1>4 DEF RntiImsiWithout, RrcShape
<1>19. epcRnti' \in [Imsis -> Rntis \cup {0}]
       /\ \A j \in Imsis : epcRnti'[j] = IF j = i THEN r ELSE epcRnti[j]
  BY <1>2, <1>3, <1>4 DEF RrcShape
<1>20. RrcShape'
  BY <1>1, <1>2, <1>13, <1>16, <1>17, <1>18, <1>19 DEF RrcShape
<1>21. QueueShape'
  <2>1. s1Up' \in Seq(S1UpMessage)
    BY <1>2, <1>4, <1>10, AppendProperties DEF QueueShape
  <2> QED
    BY <1>1, <1>2, <1>4, <1>8, <1>9, <1>11, <2>1 DEF QueueShape, Srb0Without
<1>22. TimersAgree'
  <2>1. ASSUME NEW s \in timers', s.kind = "Request"
        PROVE  s \in timers /\ s.rnti \in Rntis /\ s.rnti # r /\ ueMap'[s.rnti].state \in Unadmitted
    <3>1. s \in timers /\ s # t
      BY <1>4, <1>11, <2>1
    <3>2. /\ s.rnti \in Rntis /\ s.imsi \in Imsis /\ s.left = 0 /\ ue[s.imsi].macRnti = s.rnti
          /\ ueMap[s.rnti].state \in Unadmitted
          /\ t.left = 0
      BY <2>1, <3>1 DEF RrcInv, TimersAgree
    <3>3. s.rnti # r
      <4> SUFFICES ASSUME s.rnti = r PROVE FALSE
        OBVIOUS
      <4>1. s.imsi = i
        BY <1>3, <3>2 DEF RrcInv, HandlesAreOwn
      <4>2. s \in Timer /\ t \in Timer
        BY <1>2, <3>1 DEF QueueShape
      <4>3. s = t
        BY <2>1, <3>2, <4>1, <4>2 DEF Timer, r, i
      <4> QED
        BY <3>1, <4>3
    <3> QED
      BY <1>6, <3>1, <3>2, <3>3 DEF NoManager, Unadmitted
  <2>2. \A s \in timers' : s.kind \in {"Connect", "T300", "Request"} => s \in timers
    BY <1>4, <1>11
  <2> QED
    BY <1>1, <2>1, <2>2 DEF RrcInv, TimersAgree
<1>23. HandlesAreOwn'
  BY <1>1 DEF RrcInv, HandlesAreOwn
<1>24. UesAgree'
  <2>1. \A j \in Imsis : ue[j].rar \in Rntis \cup {0} /\ ue[j].macRnti \in Rntis \cup {0}
    BY <1>2 DEF RrcShape, AnyUe
  <2>2. \A j \in Imsis : ue[j].rar # r /\ (ue[j].macRnti = r => j = i)
    BY <1>3 DEF RrcInv, HandlesAreOwn
  <2>3. NoManager.imsi = 0 /\ NoManager.state = "NONE"
    BY DEF NoManager
  <2>4. ASSUME NEW j \in Imsis
        PROVE  /\ ue[j].rar # 0 => ueMap'[ue[j].rar].state \in Unadmitted
               /\ ue[j].macRnti # 0 => ueMap'[ue[j].macRnti].imsi \in {0, j}
               /\ ue[j].state = "CONNECTED_NORMALLY" /\ HasUeManager(ue[j].macRnti)'
                    => ueMap'[ue[j].macRnti].imsi = j
    <3>1. ue[j].rar # 0 => ueMap'[ue[j].rar].state \in Unadmitted
      BY <1>6, <2>1, <2>2, <2>3 DEF RrcInv, UesAgree, Unadmitted
    <3>2. ue[j].macRnti # 0 => ueMap'[ue[j].macRnti].imsi \in {0, j}
      BY <1>5, <1>6, <2>1, <2>2, <2>3 DEF RrcInv, UesAgree
    <3>3. ASSUME ue[j].state = "CONNECTED_NORMALLY", HasUeManager(ue[j].macRnti)'
          PROVE  ueMap'[ue[j].macRnti].imsi = j
      <4>1. ue[j].macRnti \in Rntis /\ ue[j].macRnti # r /\ ueMap'[ue[j].macRnti].state # "NONE"
        BY <1>1, <1>3, <2>1, <2>2, <3>3 DEF HasUeManager, Rntis
      <4>2. ueMap'[ue[j].macRnti] = ueMap[ue[j].macRnti] /\ HasUeManager(ue[j].macRnti)
        BY <1>6, <2>3, <4>1 DEF HasUeManager
      <4> QED
        BY <3>3, <4>2 DEF RrcInv, UesAgree
    <3> QED
      BY <3>1, <3>2, <3>3
  <2> QED
    BY <1>1, <2>4 DEF RrcInv, UesAgree
<1>25. ManagersAgree'
  <2>1. ASSUME NEW q \in Rntis PROVE ManagerAgrees(q)'
    <3>1. ManagerAgrees(q) /\ ManagerAgrees(r)
      BY <1>3 DEF RrcInv, ManagersAgree
    <3>2. CASE q \in stale
      BY <1>7, <1>15, <3>2 DEF ManagerAgrees, NoManager, Admitted
    <3>3. CASE q = r
      BY <1>1, <1>3, <1>5, <1>7, <1>15, <3>1, <3>3 DEF ManagerAgrees, Admitted, r
    <3>4. CASE q \notin stale /\ q # r
      BY <1>1, <1>7, <1>14, <3>1, <3>4 DEF ManagerAgrees
    <3> QED
      BY <3>2, <3>3, <3>4
  <2> QED
    BY <2>1 DEF ManagersAgree
<1>26. Srb0Agrees'
  <2>1. ASSUME NEW n \in srb0', n # setup
        PROVE  n \in srb0 /\ ueMap'[n.rnti] = ueMap[n.rnti]
    <3>1. n \in srb0 /\ n.rnti \notin stale /\ n \in Srb0Message
      BY <1>2, <1>4, <2>1 DEF Srb0Without, QueueShape
    <3>2. n.rnti # r
      BY <3>1 DEF RrcInv, Srb0Agrees, Srb0Message, Admitted, r
    <3> QED
      BY <1>14, <3>1, <3>2 DEF Srb0Message
  <2> QED
    BY <1>5, <1>9, <1>15, <2>1 DEF RrcInv, Srb0Agrees, Admitted
<1>27. EpcRntiAgrees'
  <2>1. r <= lastRnti
    BY <1>3 DEF RrcInv, HandlesAreOwn
  <2>2. ASSUME NEW j \in Imsis, j # i, epcRnti[j] # 0
        PROVE  epcRnti[j] <= lastRnti /\ (HasUeManager(epcRnti[j])' => ueMap'[epcRnti[j]].imsi = j)
    <3>1. epcRnti[j] \in Rntis /\ epcRnti[j] <= lastRnti
          /\ (HasUeManager(epcRnti[j]) => ueMap[epcRnti[j]].imsi = j)
      BY <1>2, <2>2 DEF RrcShape, RrcInv, EpcRntiAgrees
    <3>2. epcRnti[j] # r
      BY <1>3, <2>2, <3>1, ImsiIsNat DEF r
    <3> QED
      BY <1>1, <1>6, <1>19, <2>2, <3>1, <3>2 DEF HasUeManager, NoManager
  <2>3. epcRnti'[i] = r /\ ueMap'[r].imsi = i
    BY <1>3, <1>5, <1>15, <1>19
  <2>4. \A j \in Imsis : j # i => epcRnti'[j] = epcRnti[j]
    BY <1>19
  <2>5. \A q \in Rntis : HasUeManager(q)' <=> ueMap'[q].state # "NONE"
    BY DEF HasUeManager
  <2>6. ASSUME NEW j \in Imsis, epcRnti'[j] # 0
        PROVE  (epcRnti[j] <= lastRnti /\ (HasUeManager(epcRnti[j]) => ueMap[epcRnti[j]].imsi = j))'
    BY <1>1, <2>1, <2>2, <2>3, <2>4, <2>6 DEF HasUeManager
  <2> QED
    BY <2>6 DEF EpcRntiAgrees
<1>28. IdentityMapsAgree'
  <2>1. \A q \in Rntis : q \notin stale /\ q # r => (HasUeManager(q)' <=> HasUeManager(q))
    BY <1>14 DEF HasUeManager
  <2>2. \A q \in stale : ~HasUeManager(q)'
    BY <1>15 DEF HasUeManager, NoManager
  <2>3. HasUeManager(r)' /\ ueMap'[r].imsi = i
    BY <1>3, <1>5, <1>15 DEF HasUeManager
  <2>4. ASSUME NEW j \in Imsis, NEW q \in Rntis PROVE imsiRnti'[j] = q <=> rntiImsi'[q] = j
    <3>1. j # 0 /\ q # 0
      BY ImsiIsNat DEF Rntis
    <3>2. rntiImsi[r] # j
      <4>1. rntiImsi[r] # 0 => ueMap[r].imsi = rntiImsi[r]
        BY <1>3 DEF RrcInv, IdentityMapsAgree
      <4> QED
        BY <1>3, <3>1, <4>1
    <3>3. imsiRnti[j] = q <=> rntiImsi[q] = j
      BY DEF RrcInv, IdentityMapsAgree
    <3>4. imsiRnti[j] # r
      BY <1>3, <3>2 DEF RrcInv, IdentityMapsAgree
    <3> QED
      BY <1>3, <1>17, <1>18, <3>1, <3>2, <3>3, <3>4
  <2>5. ASSUME NEW q \in Rntis, rntiImsi'[q] # 0
        PROVE  HasUeManager(q)' /\ ueMap'[q].imsi = rntiImsi'[q]
    BY <1>14, <1>18, <2>1, <2>3, <2>5 DEF RrcInv, IdentityMapsAgree
  <2>6. ASSUME NEW q \in Rntis, HasUeManager(q)'
        PROVE  ueMap'[q].imsi = rntiImsi'[q]
    BY <1>14, <1>18, <2>1, <2>2, <2>3, <2>6 DEF RrcInv, IdentityMapsAgree, Live
  <2> QED
    BY <2>4, <2>5, <2>6 DEF IdentityMapsAgree, Live
<1>29. DrbsHaveTunnels'
  <2>1. ASSUME NEW q \in Rntis
        PROVE  /\ ueMap'[q].drbs \subseteq rbidTeid'[q]
               /\ \A n \in DOMAIN srb1Down'[q] : srb1Down'[q][n].add \subseteq rbidTeid'[q]
    BY <1>3, <1>5, <1>6, <1>7, <1>16 DEF RrcInv, DrbsHaveTunnels, NoManager
  <2> QED
    BY <1>1, <2>1 DEF RrcInv, DrbsHaveTunnels
<1>30. UplinkHasTunnel'
  <2>1. ASSUME NEW j \in Imsis, HasUeManager(ue[j].macRnti)'
        PROVE  ue[j].drbs \subseteq rbidTeid'[ue[j].macRnti]
    <3>1. ue[j].macRnti \in Rntis /\ ue[j].macRnti \notin stale
      BY <1>1, <1>15, <2>1 DEF HasUeManager, NoManager
    <3>2. HasUeManager(ue[j].macRnti)
      <4>1. HasUeManager(r)
        BY DEF r
      <4>2. ue[j].macRnti # r => ueMap'[ue[j].macRnti] = ueMap[ue[j].macRnti]
        BY <1>14, <3>1
      <4>3. ueMap'[ue[j].macRnti].state # "NONE"
        BY <1>1, <2>1 DEF HasUeManager
      <4> QED
        BY <3>1, <4>1, <4>2, <4>3 DEF HasUeManager
    <3> QED
      BY <1>16, <3>1, <3>2 DEF RrcInv, UplinkHasTunnel
  <2> QED
    BY <1>1, <2>1 DEF UplinkHasTunnel, HasUeManager
<1> QED
  BY <1>16, <1>20, <1>21, <1>22, <1>23, <1>24, <1>25, <1>26, <1>27, <1>28, <1>29, <1>30 DEF RrcInv

LEMMA RejectKeeps ==
  ASSUME RrcInv, EpcInv', NEW t \in timers, t.kind = "Request",
         HasUeManager(t.rnti), ueMap[t.rnti].state = "INITIAL_RANDOM_ACCESS",
         RejectRrcConnection(t)
  PROVE  RrcInv'
<1> DEFINE r == t.rnti
           m == [ueMap[r] EXCEPT !.state = "CONNECTION_REJECTED"]
           reject == [msg |-> "Reject", rnti |-> r, left |-> RadioDelay]
           guard == Event("RejectedTimeout", r, 0, RejectedTimeout)
<1>1. UNCHANGED <<ue, imsiRnti, rntiImsi, lastRnti, epcRnti, rbidTeid, teidRbid,
                  srb1Down, srb1Up, s1Up, s1Down>>
  BY DEF RejectRrcConnection, s1AppVars, s1Vars
<1>2. RrcShape /\ QueueShape
  BY DEF RrcInv
<1>3. /\ t.imsi \in Imsis /\ r \in Rntis /\ r # 0
      /\ ue[t.imsi].state = "IDLE_CONNECTING" /\ ue[t.imsi].macRnti = r
      /\ ueMap[r].imsi = 0
  BY StaleContexts DEF Rntis
<1>4. /\ ueMap' = [ueMap EXCEPT ![r] = m]
      /\ srb0' = srb0 \cup {reject}
      /\ timers' = (timers \ ({t} \cup OfRnti("RequestTimeout", r))) \cup {guard}
  BY <1>2, <1>3 DEF RejectRrcConnection, RrcShape
<1>5. m \in AnyManager /\ m = [ueMap[r] EXCEPT !.state = "CONNECTION_REJECTED"]
      /\ m.state = "CONNECTION_REJECTED" /\ m.imsi = 0 /\ m.drbs = ueMap[r].drbs
  <2>1. ueMap[r] \in AnyManager
    BY <1>2, <1>3 DEF RrcShape
  <2> HIDE DEF r
  <2> QED
    BY <1>3, <2>1 DEF AnyManager, ManagerState
<1>6. reject \in Srb0Message /\ reject.rnti = r /\ reject.msg = "Reject"
  BY <1>3, RrcAssumption DEF Srb0Message
<1>7. guard \in Timer /\ guard.kind = "RejectedTimeout"
  BY <1>3, RrcAssumption DEF Event, Timer, TimerKind
<1>8. HasUeManager(r) /\ ueMap[r].state = "INITIAL_RANDOM_ACCESS"
  OBVIOUS
<1> HIDE DEF r, m, reject, guard
<1>9. ueMap \in [Rntis -> AnyManager] /\ ueMap' \in [Rntis -> AnyManager]
  BY <1>2, <1>4, <1>5 DEF RrcShape
<1>10. /\ ueMap'[r] = m
       /\ \A q \in Rntis : q # r => ueMap'[q] = ueMap[q]
       /\ \A q \in Rntis : ueMap'[q].imsi = ueMap[q].imsi /\ ueMap'[q].drbs = ueMap[q].drbs
       /\ \A q \in Rntis : ueMap'[q].state = "NONE" <=> ueMap[q].state = "NONE"
  BY <1>3, <1>4, <1>5, <1>8, <1>9
<1>11. RrcShape' /\ QueueShape'
  BY <1>1, <1>2, <1>4, <1>6, <1>7, <1>9 DEF RrcShape, QueueShape
<1>12. TimersAgree'
  <2>1. ASSUME NEW s \in timers', s.kind = "Request"
        PROVE  s \in timers /\ s.rnti \in Rntis /\ s.rnti # r
    <3>1. s \in timers /\ s # t
      BY <1>4, <1>7, <2>1
    <3>2. /\ s.rnti \in Rntis /\ s.imsi \in Imsis /\ s.left = 0 /\ ue[s.imsi].macRnti = s.rnti
          /\ t.left = 0
      BY <2>1, <3>1 DEF RrcInv, TimersAgree
    <3>3. s.rnti # r
      <4> SUFFICES ASSUME s.rnti = r PROVE FALSE
        OBVIOUS
      <4>1. s.imsi = t.imsi
        BY <1>3, <3>2 DEF RrcInv, HandlesAreOwn
      <4>2. s \in Timer /\ t \in Timer
        BY <1>2, <3>1 DEF QueueShape
      <4>3. s = t
        BY <2>1, <3>2, <4>1, <4>2 DEF Timer, r
      <4> QED
        BY <3>1, <4>3
    <3> QED
      BY <3>1, <3>2, <3>3
  <2>2. \A s \in timers' : s.kind \in {"Connect", "T300", "Request"} => s \in timers
    BY <1>4, <1>7
  <2> QED
    BY <1>1, <1>10, <2>1, <2>2 DEF RrcInv, TimersAgree
<1>13. HandlesAreOwn'
  BY <1>1 DEF RrcInv, HandlesAreOwn
<1>14. UesAgree'
  <2>1. \A j \in Imsis : ue[j].rar \in Rntis \cup {0} /\ ue[j].macRnti \in Rntis \cup {0}
    BY <1>2 DEF RrcShape, AnyUe
  <2>2. \A j \in Imsis : ue[j].rar # r
    BY <1>3 DEF RrcInv, HandlesAreOwn
  <2> QED
    BY <1>1, <1>10, <2>1, <2>2 DEF RrcInv, UesAgree, HasUeManager
<1>15. ManagersAgree'
  <2>1. ASSUME NEW q \in Rntis PROVE ManagerAgrees(q)'
    <3>1. ManagerAgrees(q)
      BY DEF RrcInv, ManagersAgree
    <3>2. CASE q = r
      BY <1>1, <1>5, <1>8, <1>10, <3>1, <3>2 DEF ManagerAgrees, Admitted
    <3>3. CASE q # r
      BY <1>1, <1>10, <3>1, <3>3 DEF ManagerAgrees
    <3> QED
      BY <3>2, <3>3
  <2> QED
    BY <2>1 DEF ManagersAgree
<1>16. Srb0Agrees'
  <2>1. ASSUME NEW n \in srb0, n # reject
        PROVE  ueMap'[n.rnti] = ueMap[n.rnti]
    <3>1. n \in Srb0Message
      BY <1>2 DEF QueueShape
    <3>2. n.rnti # r
      BY <1>8, <3>1 DEF RrcInv, Srb0Agrees, Srb0Message, Admitted
    <3> QED
      BY <1>10, <3>1, <3>2 DEF Srb0Message
  <2>2. ASSUME NEW n \in srb0'
        PROVE  /\ n.msg = "Setup" => ueMap'[n.rnti].state \in Admitted
               /\ n.msg = "Reject" => ueMap'[n.rnti].state = "CONNECTION_REJECTED"
    <3>1. CASE n = reject
      BY <1>5, <1>6, <1>10, <3>1
    <3>2. CASE n # reject
      BY <1>4, <2>1, <3>2 DEF RrcInv, Srb0Agrees
    <3> QED
      BY <3>1, <3>2
  <2> QED
    BY <2>2 DEF Srb0Agrees
<1>17. EpcRntiAgrees' /\ IdentityMapsAgree' /\ DownlinkReachesItsUe'
  <2>1. \A q \in Rntis : HasUeManager(q)' <=> HasUeManager(q)
    BY <1>10 DEF HasUeManager
  <2>2. \A j \in Imsis : epcRnti[j] \in Rntis \cup {0}
    BY <1>2 DEF RrcShape
  <2>3. EpcRntiAgrees'
    BY <1>1, <1>10, <2>2 DEF RrcInv, EpcRntiAgrees, HasUeManager, Rntis
  <2>4. IdentityMapsAgree'
    BY <1>1, <1>10, <2>1 DEF RrcInv, IdentityMapsAgree, Live
  <2>5. \A b \in Bearers : teidRbid[b] \in Rntis \cup {0}
    BY <1>2 DEF RrcShape
  <2>6. DownlinkReachesItsUe'
    BY <1>1, <1>10, <2>5 DEF RrcInv, DownlinkReachesItsUe, HasUeManager
  <2> QED
    BY <2>3, <2>4, <2>6
<1>18. DrbsHaveTunnels' /\ UplinkHasTunnel'
  BY <1>1, <1>10 DEF RrcInv, DrbsHaveTunnels, UplinkHasTunnel, HasUeManager
<1> QED
  BY <1>11, <1>12, <1>13, <1>14, <1>15, <1>16, <1>17, <1>18 DEF RrcInv

--------------------------------------------------------------------------------
(* Random access.                                                          *)
LEMMA AllocateKeeps ==
  ASSUME RrcInv, EpcInv', NEW i \in Imsis, AllocateTemporaryCellRnti(i)
  PROVE  RrcInv'
<1> DEFINE r == lastRnti + 1
           m == [NoManager EXCEPT !.state = "INITIAL_RANDOM_ACCESS"]
           guard == Event("RequestTimeout", r, 0, RequestTimeout)
<1>1. UNCHANGED <<imsiRnti, rntiImsi, epcRnti, rbidTeid, teidRbid, srb0, srb1Down, srb1Up,
                  s1Up, s1Down>>
  BY DEF AllocateTemporaryCellRnti, s1AppVars, radioVars, s1Vars
<1>2. RrcShape /\ QueueShape
  BY DEF RrcInv
<1>3. r \in Rntis /\ lastRnti' = r /\ lastRnti \in Nat /\ r = lastRnti + 1 /\ r # 0
  <2>1. lastRnti \in Nat /\ MaxRnti \in Nat
    BY <1>2, RrcAssumption DEF RrcShape, Rntis
  <2>2. lastRnti < MaxRnti /\ lastRnti' = lastRnti + 1
    BY DEF AllocateTemporaryCellRnti
  <2> QED
    BY <2>1, <2>2 DEF Rntis
<1>4. /\ ueMap' = [ueMap EXCEPT ![r] = m]
      /\ ue' = [ue EXCEPT ![i].preamble = FALSE, ![i].rar = r]
      /\ timers' = timers \cup {guard}
  BY <1>3 DEF AllocateTemporaryCellRnti
<1>5. m \in AnyManager /\ m.state = "INITIAL_RANDOM_ACCESS" /\ m.imsi = 0 /\ m.drbs = {}
  BY DEF NoManager, AnyManager, ManagerState
<1>6. guard \in Timer /\ guard.kind = "RequestTimeout"
  BY <1>3, RrcAssumption DEF Event, Timer, TimerKind
<1> HIDE DEF r, m, guard
<1>7. /\ ue' \in [Imsis -> AnyUe]
      /\ \A j \in Imsis : /\ ue'[j].macRnti = ue[j].macRnti
                          /\ ue'[j].rnti = ue[j].rnti
                          /\ ue'[j].state = ue[j].state
                          /\ ue'[j].drbs = ue[j].drbs
                          /\ ue'[j].rar = IF j = i THEN r ELSE ue[j].rar
  <2> DEFINE u == [ue[i] EXCEPT !.preamble = FALSE, !.rar = r]
  <2>1. ue[i] \in AnyUe /\ ue \in [Imsis -> AnyUe]
    BY <1>2 DEF RrcShape
  <2>2. /\ u \in AnyUe /\ u.macRnti = ue[i].macRnti /\ u.rnti = ue[i].rnti
        /\ u.state = ue[i].state /\ u.drbs = ue[i].drbs /\ u.rar = r
    BY <1>3, <2>1 DEF AnyUe
  <2>3. ue' = [ue EXCEPT ![i] = u]
    BY <1>4, <2>1
  <2> HIDE DEF u
  <2> QED
    BY <2>1, <2>2, <2>3
<1>8. /\ ueMap' \in [Rntis -> AnyManager]
      /\ ueMap'[r] = m
      /\ \A q \in Rntis : q # r => ueMap'[q] = ueMap[q]
  BY <1>2, <1>3, <1>4, <1>5 DEF RrcShape
<1>9. /\ \A j \in Imsis : /\ ue[j].macRnti \in Rntis \cup {0} /\ ue[j].rar \in Rntis \cup {0}
                          /\ ue[j].macRnti <= lastRnti /\ ue[j].rar <= lastRnti
      /\ \A j \in Imsis : ue[j].macRnti # r /\ ue[j].rar # r
  <2>1. \A j \in Imsis : /\ ue[j].macRnti \in Rntis \cup {0} /\ ue[j].rar \in Rntis \cup {0}
                         /\ ue[j].macRnti <= lastRnti /\ ue[j].rar <= lastRnti
    BY <1>2 DEF RrcShape, AnyUe, RrcInv, HandlesAreOwn
  <2>2. \A j \in Imsis : ue[j].macRnti \in Nat /\ ue[j].rar \in Nat
    BY <2>1, RrcAssumption DEF Rntis
  <2> QED
    BY <1>3, <2>1, <2>2
(* The RNTI is new: nothing of an earlier context has it.                  *)
<1>10. /\ ueMap[r] = NoManager /\ ueMap[r].state = "NONE" /\ ueMap[r].imsi = 0
       /\ srb1Up[r] = << >> /\ srb1Down[r] = << >>
  <2>1. ManagerAgrees(r) /\ r > lastRnti
    BY <1>3 DEF RrcInv, ManagersAgree
  <2> QED
    BY <2>1 DEF ManagerAgrees, NoManager, Admitted
<1>11. RrcShape' /\ QueueShape'
  BY <1>1, <1>2, <1>3, <1>4, <1>6, <1>7, <1>8 DEF RrcShape, QueueShape
<1>12. TimersAgree'
  <2>1. \A s \in timers' : s.kind \in {"Connect", "T300", "Request"} => s \in timers
    BY <1>4, <1>6
  <2>2. \A s \in timers : s.kind = "Request" => s.imsi \in Imsis /\ s.rnti # r
    BY <1>9 DEF RrcInv, TimersAgree
  <2> QED
    BY <1>7, <1>8, <2>1, <2>2 DEF RrcInv, TimersAgree
<1>13. HandlesAreOwn'
  <2>1. \A j \in Imsis : ue'[j].macRnti <= lastRnti' /\ ue'[j].rar <= lastRnti'
    <3>1. \A j \in Imsis : ue[j].macRnti \in Nat /\ ue[j].rar \in Nat
      BY <1>9, RrcAssumption DEF Rntis
    <3> QED
      BY <1>3, <1>7, <1>9, <3>1
  <2>2. \A j, k \in Imsis : ue'[j].rar = ue'[k].rar /\ j # k => ue'[j].rar = 0
    BY <1>7, <1>9 DEF RrcInv, HandlesAreOwn
  <2>3. \A j, k \in Imsis : ue'[j].rar = ue'[k].macRnti => ue'[j].rar = 0
    BY <1>7, <1>9 DEF RrcInv, HandlesAreOwn
  <2>4. \A j, k \in Imsis : ue'[j].macRnti = ue'[k].macRnti /\ j # k => ue'[j].macRnti = 0
    BY <1>7 DEF RrcInv, HandlesAreOwn
  <2> QED
    BY <2>1, <2>2, <2>3, <2>4 DEF HandlesAreOwn
<1>14. UesAgree'
  <2>1. \A j \in Imsis : ue'[j].rar # 0 => ueMap'[ue'[j].rar].state \in Unadmitted
    BY <1>5, <1>7, <1>8, <1>9 DEF RrcInv, UesAgree, Unadmitted
  <2>2. \A j \in Imsis : ue[j].macRnti # 0 => ueMap'[ue[j].macRnti] = ueMap[ue[j].macRnti]
    BY <1>8, <1>9
  <2>3. \A j \in Imsis : HasUeManager(ue[j].macRnti)' => ue[j].macRnti # 0 /\ HasUeManager(ue[j].macRnti)
    BY <1>7, <2>2 DEF HasUeManager, Rntis
  <2> QED
    BY <1>7, <2>1, <2>2, <2>3 DEF RrcInv, UesAgree
<1>15. ManagersAgree'
  <2>1. ASSUME NEW q \in Rntis PROVE ManagerAgrees(q)'
    <3>1. ManagerAgrees(q) /\ q \in Nat
      BY DEF RrcInv, ManagersAgree, Rntis
    <3>2. CASE q = r
      BY <1>1, <1>3, <1>5, <1>8, <1>10, <3>2 DEF ManagerAgrees, Admitted
    <3>3. CASE q # r
      <4>1. ueMap'[q] = ueMap[q] /\ (q > lastRnti' => q > lastRnti)
        BY <1>3, <1>8, <3>1, <3>3
      <4>2. ueMap[q].imsi \in Imsis \cup {0}
        BY <1>2 DEF RrcShape, AnyManager
      <4> QED
        BY <1>1, <1>7, <3>1, <4>1, <4>2 DEF ManagerAgrees
    <3> QED
      BY <3>2, <3>3
  <2> QED
    BY <2>1 DEF ManagersAgree
<1>16. Srb0Agrees'
  <2>1. ASSUME NEW n \in srb0 PROVE ueMap'[n.rnti] = ueMap[n.rnti]
    <3>1. n \in Srb0Message
      BY <1>2 DEF QueueShape
    <3>2. n.rnti # r
      BY <1>10, <3>1 DEF RrcInv, Srb0Agrees, Srb0Message, Admitted
    <3> QED
      BY <1>8, <3>1, <3>2 DEF Srb0Message
  <2> QED
    BY <1>1, <2>1 DEF RrcInv, Srb0Agrees
<1>17. EpcRntiAgrees'
  <2>1. ASSUME NEW j \in Imsis, epcRnti[j] # 0
        PROVE  epcRnti[j] <= lastRnti' /\ epcRnti[j] # r /\ epcRnti[j] \in Rntis
    <3>1. epcRnti[j] \in Rntis /\ epcRnti[j] <= lastRnti
      BY <1>2, <2>1 DEF RrcShape, RrcInv, EpcRntiAgrees
    <3>2. epcRnti[j] \in Nat
      BY <3>1 DEF Rntis
    <3> QED
      BY <1>3, <3>1, <3>2
  <2>2. \A j \in Imsis : epcRnti[j] # 0 => ueMap'[epcRnti[j]] = ueMap[epcRnti[j]]
    BY <1>8, <2>1
  <2> QED
    BY <1>1, <2>1, <2>2 DEF RrcInv, EpcRntiAgrees, HasUeManager
<1>18. IdentityMapsAgree'
  <2>1. rntiImsi[r] = 0 /\ ~HasUeManager(r)
    BY <1>3, <1>10 DEF RrcInv, IdentityMapsAgree, HasUeManager
  <2>2. \A q \in Rntis : q # r => (HasUeManager(q)' <=> HasUeManager(q))
    BY <1>8 DEF HasUeManager
  <2>3. \A q \in Rntis : rntiImsi[q] # 0 => HasUeManager(q)' /\ ueMap'[q].imsi = rntiImsi[q]
    BY <1>8, <2>1, <2>2 DEF RrcInv, IdentityMapsAgree
  <2>4. \A q \in Rntis : HasUeManager(q)' => ueMap'[q].imsi = rntiImsi[q]
    BY <1>5, <1>8, <2>1, <2>2 DEF RrcInv, IdentityMapsAgree, Live
  <2> QED
    BY <1>1, <2>3, <2>4 DEF RrcInv, IdentityMapsAgree, Live
<1>19. DownlinkReachesItsUe'
  <2>1. \A b \in Bearers : teidRbid[b] # 0 => teidRbid[b] \in Rntis /\ teidRbid[b] # r
    BY <1>2, <1>10 DEF RrcShape, RrcInv, DownlinkReachesItsUe, HasUeManager
  <2>2. \A b \in Bearers : teidRbid[b] # 0 => ueMap'[teidRbid[b]] = ueMap[teidRbid[b]]
    BY <1>8, <2>1
  <2> QED
    BY <1>1, <2>2 DEF RrcInv, DownlinkReachesItsUe, HasUeManager
<1>20. DrbsHaveTunnels' /\ UplinkHasTunnel'
  <2>1. DrbsHaveTunnels'
    BY <1>1, <1>5, <1>7, <1>8 DEF RrcInv, DrbsHaveTunnels
  <2>2. \A j \in Imsis : HasUeManager(ue[j].macRnti)' => HasUeManager(ue[j].macRnti)
    BY <1>7, <1>8, <1>9 DEF HasUeManager
  <2>3. UplinkHasTunnel'
    BY <1>1, <1>7, <2>2 DEF RrcInv, UplinkHasTunnel
  <2> QED
    BY <2>1, <2>3
<1> QED
  BY <1>11, <1>12, <1>13, <1>14, <1>15, <1>16, <1>17, <1>18, <1>19, <1>20 DEF RrcInv

LEMMA RaResponseKeeps ==
  ASSUME RrcInv, EpcInv', NEW i \in Imsis, ue[i].rar # 0, ue[i].state = "IDLE_RANDOM_ACCESS",
         RecvRaResponse(i)
  PROVE  RrcInv'
<1> DEFINE r == ue[i].rar
           u == [ue[i] EXCEPT !.state = "IDLE_CONNECTING", !.rar = 0, !.rnti = r, !.macRnti = r]
           request == Event("Request", r, i, 0)
           t300 == Event("T300", 0, i, T300)
<1>1. UNCHANGED <<ueMap, imsiRnti, rntiImsi, lastRnti, epcRnti, rbidTeid, teidRbid, srb0,
                  srb1Down, srb1Up, s1Up, s1Down>>
  BY DEF RecvRaResponse, OnlyTheUeOf, enbVars, s1AppVars, radioVars, s1Vars
<1>2. RrcShape /\ QueueShape
  BY DEF RrcInv
<1>3. r \in Rntis /\ r # 0 /\ ue[i] \in AnyUe
  BY <1>2 DEF RrcShape, AnyUe
<1>4. ue' = [ue EXCEPT ![i] = u] /\ timers' = timers \cup {request, t300}
  BY DEF RecvRaResponse, OnlyTheUeOf
<1>5. /\ u \in AnyUe /\ u.state = "IDLE_CONNECTING" /\ u.rar = 0 /\ u.rnti = r /\ u.macRnti = r
      /\ u.drbs = ue[i].drbs
  BY <1>3 DEF AnyUe, UeState
<1>6. /\ request \in Timer /\ request.kind = "Request" /\ request.rnti = r /\ request.imsi = i
      /\ request.left = 0
      /\ t300 \in Timer /\ t300.kind = "T300" /\ t300.imsi = i /\ t300.left = T300
  BY <1>3, RrcAssumption DEF Event, Timer, TimerKind
<1>7. ueMap[r].state \in Unadmitted /\ r <= lastRnti
  BY <1>3 DEF RrcInv, UesAgree, HandlesAreOwn
<1>8. ue[i].state = "IDLE_RANDOM_ACCESS"
  OBVIOUS
<1>9. \A j \in Imsis : ue[j].macRnti # r /\ (ue[j].rar = r => j = i)
  BY <1>3 DEF RrcInv, HandlesAreOwn
<1> HIDE DEF r, u, request, t300
<1>10. /\ ue' \in [Imsis -> AnyUe] /\ ue'[i] = u
       /\ \A j \in Imsis : j # i => ue'[j] = ue[j]
  BY <1>2, <1>4, <1>5 DEF RrcShape
<1>11. RrcShape' /\ QueueShape'
  BY <1>1, <1>2, <1>4, <1>6, <1>10 DEF RrcShape, QueueShape
(* The UE was not connecting, so it had neither timer.                     *)
<1>12. \A s \in timers : s.kind \in {"T300", "Request"} => s.imsi \in Imsis /\ s.imsi # i
  BY <1>8 DEF RrcInv, TimersAgree
<1>13. TimersAgree'
  <2>1. \A s \in timers' : s.kind \in {"Connect", "T300", "Request"} => s.imsi \in Imsis
    BY <1>4, <1>6 DEF RrcInv, TimersAgree
  <2>2. \A s \in timers' : s.kind = "T300" => ue'[s.imsi].state = "IDLE_CONNECTING"
    BY <1>4, <1>5, <1>6, <1>10, <1>12 DEF RrcInv, TimersAgree
  <2>3. ASSUME NEW s \in timers', s.kind = "Request"
        PROVE  /\ s.rnti \in Rntis /\ s.left = 0
               /\ ue'[s.imsi].state = "IDLE_CONNECTING" /\ ue'[s.imsi].macRnti = s.rnti
               /\ ueMap'[s.rnti].state \in Unadmitted
    BY <1>1, <1>3, <1>4, <1>5, <1>6, <1>7, <1>10, <1>12, <2>3 DEF RrcInv, TimersAgree
  <2>4. \A s, t \in timers' :
          s.kind = "T300" /\ t.kind = "Request" /\ s.imsi = t.imsi => s.left > 0
    BY <1>4, <1>6, <1>12, RrcAssumption DEF RrcInv, TimersAgree
  <2>5. \A s, t \in timers' : s.kind = "T300" /\ t.kind = "T300" /\ s.imsi = t.imsi => s = t
    BY <1>4, <1>6, <1>12 DEF RrcInv, TimersAgree
  <2> QED
    BY <2>1, <2>2, <2>3, <2>4, <2>5 DEF TimersAgree
<1>14. HandlesAreOwn'
  <2>1. \A j \in Imsis : ue'[j].macRnti <= lastRnti /\ ue'[j].rar <= lastRnti
    <3>1. 0 <= lastRnti
      BY <1>2, RrcAssumption DEF RrcShape, Rntis
    <3> QED
      BY <1>5, <1>7, <1>10, <3>1 DEF RrcInv, HandlesAreOwn
  <2>2. \A j, k \in Imsis : ue'[j].macRnti = ue'[k].macRnti /\ j # k => ue'[j].macRnti = 0
    BY <1>5, <1>9, <1>10 DEF RrcInv, HandlesAreOwn
  <2>3. \A j, k \in Imsis : ue'[j].rar = ue'[k].rar /\ j # k => ue'[j].rar = 0
    BY <1>5, <1>10 DEF RrcInv, HandlesAreOwn
  <2>4. \A j, k \in Imsis : ue'[j].rar = ue'[k].macRnti => ue'[j].rar = 0
    BY <1>5, <1>9, <1>10 DEF RrcInv, HandlesAreOwn
  <2> QED
    BY <1>1, <2>1, <2>2, <2>3, <2>4 DEF HandlesAreOwn
<1>15. UesAgree'
  <2>1. ueMap[r].imsi \in {0, i}
    BY <1>3, <1>7 DEF RrcInv, ManagersAgree, ManagerAgrees, Unadmitted, Admitted
  <2> QED
    BY <1>1, <1>3, <1>5, <1>10, <2>1 DEF RrcInv, UesAgree, HasUeManager, WithMacRnti
<1>16. ManagersAgree'
  <2>1. ASSUME NEW q \in Rntis PROVE ManagerAgrees(q)'
    <3>1. ManagerAgrees(q) /\ ueMap[q].imsi \in Imsis \cup {0}
      BY <1>2 DEF RrcInv, ManagersAgree, RrcShape, AnyManager
    <3> QED
      BY <1>1, <1>8, <1>10, <3>1 DEF ManagerAgrees
  <2> QED
    BY <2>1 DEF ManagersAgree
<1>17. Srb0Agrees' /\ EpcRntiAgrees' /\ IdentityMapsAgree' /\ DownlinkReachesItsUe'
  BY <1>1 DEF RrcInv, Srb0Agrees, EpcRntiAgrees, IdentityMapsAgree, DownlinkReachesItsUe,
              Live, HasUeManager
<1>18. DrbsHaveTunnels' /\ UplinkHasTunnel'
  <2>1. u.drbs = {}
    BY <1>5, <1>8 DEF RrcInv, DrbsHaveTunnels
  <2> QED
    BY <1>1, <1>10, <2>1 DEF RrcInv, DrbsHaveTunnels, UplinkHasTunnel, HasUeManager
<1> QED
  BY <1>11, <1>13, <1>14, <1>15, <1>16, <1>17, <1>18 DEF RrcInv

--------------------------------------------------------------------------------
(* The UE on its signalling radio bearers.                                 *)

(* What a UE sends on SRB1 of a context that has admitted it.              *)
LEMMA SendUpKeeps ==
  ASSUME RrcInv, NEW r \in Rntis, NEW msg \in {"SetupCompleted", "ReconfigurationCompleted"},
         SendUp(r, msg)
  PROVE  /\ srb1Up' \in [Rntis -> Seq(UpMessage)]
         /\ \A q \in Rntis : q # r => srb1Up'[q] = srb1Up[q]
         /\ ~HasUeManager(r) => srb1Up'[r] = srb1Up[r]
<1> DEFINE m == [msg |-> msg, left |-> RadioDelay]
<1>1. m \in UpMessage
  BY RrcAssumption DEF UpMessage
<1>2. srb1Up \in [Rntis -> Seq(UpMessage)]
  BY DEF RrcInv, QueueShape
<1>3. Append(srb1Up[r], m) \in Seq(UpMessage)
  BY <1>1, <1>2, AppendProperties
<1> QED
  BY <1>2, <1>3 DEF SendUp

LEMMA SetupKeeps ==
  ASSUME RrcInv, EpcInv', NEW i \in Imsis, NEW m \in srb0,
         m.msg = "Setup", m.rnti = ue[i].macRnti, ue[i].state = "IDLE_CONNECTING",
         ue' = [ue EXCEPT ![i] = Activated([ue[i] EXCEPT !.state = "CONNECTED_NORMALLY"])],
         timers' = timers \ OfImsi("T300", i),
         SendUp(ue[i].rnti, "SetupCompleted"),
         srb0' \subseteq srb0,
         UNCHANGED <<enbVars, lastRnti, s1AppVars, srb1Down, s1Vars>>
  PROVE  RrcInv'
<1> DEFINE r == ue[i].macRnti
           u == Activated([ue[i] EXCEPT !.state = "CONNECTED_NORMALLY"])
<1>1. UNCHANGED <<ueMap, imsiRnti, rntiImsi, lastRnti, epcRnti, rbidTeid, teidRbid,
                  srb1Down, s1Up, s1Down>>
  BY DEF enbVars, s1AppVars, s1Vars
<1>2. RrcShape /\ QueueShape
  BY DEF RrcInv
<1>3. /\ r \in Rntis /\ r # 0 /\ ue[i].rnti = r /\ ue[i] \in AnyUe
      /\ ueMap[r].state \in Admitted
  BY <1>2 DEF RrcShape, QueueShape, Srb0Message, RrcInv, UesAgree, Srb0Agrees, WithMacRnti, Rntis
<1>4. ueMap[r].imsi = i /\ HasUeManager(r)
  BY <1>3 DEF RrcInv, ManagersAgree, ManagerAgrees, UesAgree, HasUeManager, Admitted
<1>5. /\ u \in AnyUe /\ u.state = "CONNECTED_NORMALLY" /\ u.macRnti = r /\ u.rnti = r
      /\ u.rar = ue[i].rar /\ u.drbs = ue[i].drbs
  <2> DEFINE v == [ue[i] EXCEPT !.state = "CONNECTED_NORMALLY"]
  <2>1. v \in AnyUe /\ v.state = "CONNECTED_NORMALLY" /\ v.macRnti = r /\ v.rnti = r
        /\ v.rar = ue[i].rar /\ v.drbs = ue[i].drbs
    BY <1>3 DEF AnyUe, UeState
  <2> HIDE DEF v
  <2>2. Activated(v) \in AnyUe /\ Activated(v).state = v.state /\ Activated(v).macRnti = v.macRnti
        /\ Activated(v).rnti = v.rnti /\ Activated(v).rar = v.rar /\ Activated(v).drbs = v.drbs
    <3> DEFINE x == IF v.active THEN v.bidCounter ELSE v.bidCounter + v.toActivate
    <3>1. v.bidCounter \in Nat /\ v.toActivate \in Nat
      BY <2>1 DEF AnyUe
    <3>2. x \in Nat
      BY <3>1
    <3>3. Activated(v) = [v EXCEPT !.active = TRUE, !.toActivate = 0, !.bidCounter = x]
      BY <2>1 DEF Activated, AnyUe
    <3> HIDE DEF x
    <3> DEFINE w == [v EXCEPT !.toActivate = 0, !.bidCounter = x]
    <3>4. /\ w \in AnyUe /\ w.state = v.state /\ w.macRnti = v.macRnti /\ w.rnti = v.rnti
          /\ w.rar = v.rar /\ w.drbs = v.drbs
      BY <2>1, <3>2 DEF AnyUe
    <3>5. Activated(v) = [w EXCEPT !.active = TRUE]
      BY <2>1, <3>3 DEF AnyUe
    <3> HIDE DEF w
    <3> QED
      BY <3>4, <3>5 DEF AnyUe
  <2> QED
    BY <2>1, <2>2 DEF v
<1>6. ue' = [ue EXCEPT ![i] = u] /\ ue[i].state = "IDLE_CONNECTING"
  OBVIOUS
<1>7. /\ srb1Up' \in [Rntis -> Seq(UpMessage)]
      /\ \A q \in Rntis : q # r => srb1Up'[q] = srb1Up[q]
  BY <1>3, SendUpKeeps
<1> HIDE DEF r, u
<1>8. /\ ue' \in [Imsis -> AnyUe] /\ ue'[i] = u
      /\ \A j \in Imsis : j # i => ue'[j] = ue[j]
  BY <1>2, <1>5, <1>6 DEF RrcShape
<1>9. timers' \subseteq timers /\ \A s \in timers' : s.kind = "T300" => s.imsi # i
  BY DEF OfImsi
<1>10. RrcShape' /\ QueueShape'
  BY <1>1, <1>2, <1>7, <1>8, <1>9 DEF RrcShape, QueueShape
(* A request of the UE would be for r, which is admitted already.          *)
<1>11. \A s \in timers : s.kind = "Request" => s.imsi # i
  BY <1>3 DEF RrcInv, TimersAgree, Unadmitted, Admitted, r
<1>12. TimersAgree'
  BY <1>1, <1>8, <1>9, <1>11 DEF RrcInv, TimersAgree
<1>13. HandlesAreOwn'
  BY <1>1, <1>5, <1>8 DEF RrcInv, HandlesAreOwn, r
<1>14. UesAgree'
  BY <1>1, <1>3, <1>4, <1>5, <1>8 DEF RrcInv, UesAgree, HasUeManager, WithMacRnti
<1>15. ManagersAgree'
  <2>1. ASSUME NEW q \in Rntis PROVE ManagerAgrees(q)'
    <3>1. ManagerAgrees(q) /\ ueMap[q].imsi \in Imsis \cup {0}
      BY <1>2 DEF RrcInv, ManagersAgree, RrcShape, AnyManager
    <3>2. CASE q = r
      BY <1>1, <1>3, <1>4, <1>5, <1>8, <3>1, <3>2 DEF ManagerAgrees
    <3>3. CASE q # r
      BY <1>1, <1>6, <1>7, <1>8, <3>1, <3>3 DEF ManagerAgrees
    <3> QED
      BY <3>2, <3>3
  <2> QED
    BY <2>1 DEF ManagersAgree
<1>16. Srb0Agrees' /\ EpcRntiAgrees' /\ IdentityMapsAgree' /\ DownlinkReachesItsUe'
  BY <1>1 DEF RrcInv, Srb0Agrees, EpcRntiAgrees, IdentityMapsAgree, DownlinkReachesItsUe,
              Live, HasUeManager
<1>17. DrbsHaveTunnels' /\ UplinkHasTunnel'
  <2>1. u.drbs = {}
    BY <1>5, <1>6 DEF RrcInv, DrbsHaveTunnels
  <2> QED
    BY <1>1, <1>8, <2>1 DEF RrcInv, DrbsHaveTunnels, UplinkHasTunnel, HasUeManager
<1> QED
  BY <1>10, <1>12, <1>13, <1>14, <1>15, <1>16, <1>17 DEF RrcInv

LEMMA ReconfigurationKeeps ==
  ASSUME RrcInv, EpcInv', NEW i \in Imsis, ue[i].macRnti # 0, srb1Down[ue[i].macRnti] # << >>,
         ue[i].state = "CONNECTED_NORMALLY",
         ue' = [ue EXCEPT ![i].drbs = (@ \cup Head(srb1Down[ue[i].macRnti]).add)
                                        \ Head(srb1Down[ue[i].macRnti]).release],
         srb1Down' = [srb1Down EXCEPT ![ue[i].macRnti] = Tail(@)],
         SendUp(ue[i].macRnti, "ReconfigurationCompleted"),
         UNCHANGED <<enbVars, lastRnti, s1AppVars, timers, srb0, s1Vars>>
  PROVE  RrcInv'
<1> DEFINE r == ue[i].macRnti
           d == Head(srb1Down[r])
           u == [ue[i] EXCEPT !.drbs = (ue[i].drbs \cup d.add) \ d.release]
<1>1. UNCHANGED <<ueMap, imsiRnti, rntiImsi, lastRnti, epcRnti, rbidTeid, teidRbid,
                  timers, srb0, s1Up, s1Down>>
  BY DEF enbVars, s1AppVars, s1Vars
<1>2. RrcShape /\ QueueShape
  BY DEF RrcInv
<1>3. r \in Rntis /\ r # 0 /\ ue[i] \in AnyUe /\ srb1Down[r] \in Seq(DownMessage)
      /\ srb1Down[r] # << >> /\ ue[i].state = "CONNECTED_NORMALLY"
  BY <1>2 DEF RrcShape, QueueShape, AnyUe
<1>4. /\ d \in DownMessage /\ d.add \subseteq rbidTeid[r]
      /\ Tail(srb1Down[r]) \in Seq(DownMessage)
      /\ \A n \in DOMAIN Tail(srb1Down[r]) : Tail(srb1Down[r])[n].add \subseteq rbidTeid[r]
  <2> DEFINE s == srb1Down[r]
  <2>1. \A n \in DOMAIN s : s[n].add \subseteq rbidTeid[r]
    BY <1>3 DEF RrcInv, DrbsHaveTunnels
  <2>2. s \in Seq(DownMessage) /\ s # << >>
    BY <1>3
  <2> HIDE DEF s
  <2>3. Head(s) \in DownMessage /\ Tail(s) \in Seq(DownMessage) /\ Len(Tail(s)) = Len(s) - 1
        /\ \A n \in 1..Len(Tail(s)) : Tail(s)[n] = s[n + 1]
    BY <2>2, HeadTailProperties
  <2>4. Len(s) \in Nat /\ Len(s) # 0 /\ DOMAIN s = 1..Len(s)
        /\ DOMAIN Tail(s) = 1..Len(Tail(s))
    BY <2>2, <2>3, LenProperties, EmptySeq
  <2>5. Head(s).add \subseteq rbidTeid[r]
    <3>1. 1 \in DOMAIN s
      BY <2>4
    <3>2. Head(s) = s[1]
      BY <2>2
    <3> QED
      BY <2>1, <3>1, <3>2
  <2>6. ASSUME NEW n \in DOMAIN Tail(s) PROVE Tail(s)[n].add \subseteq rbidTeid[r]
    <3>1. n + 1 \in DOMAIN s
      BY <2>3, <2>4
    <3> QED
      BY <2>1, <2>3, <2>4, <3>1
  <2> QED
    BY <2>3, <2>5, <2>6 DEF s
<1>5. /\ ueMap[r].state \in Admitted /\ ueMap[r].imsi = i /\ HasUeManager(r)
  BY <1>3 DEF RrcInv, ManagersAgree, ManagerAgrees, UesAgree, HasUeManager, Admitted
<1>6. ue' = [ue EXCEPT ![i] = u]
  BY <1>2 DEF RrcShape
<1>7. /\ u \in AnyUe /\ u.state = ue[i].state /\ u.macRnti = r /\ u.rnti = ue[i].rnti
      /\ u.rar = ue[i].rar /\ u.drbs \subseteq ue[i].drbs \cup rbidTeid[r]
  BY <1>3, <1>4 DEF AnyUe, DownMessage
<1>8. /\ srb1Up' \in [Rntis -> Seq(UpMessage)]
      /\ \A q \in Rntis : q # r => srb1Up'[q] = srb1Up[q]
  BY <1>3, SendUpKeeps
<1>9. /\ srb1Down' \in [Rntis -> Seq(DownMessage)]
      /\ \A q \in Rntis : srb1Down'[q] = IF q = r THEN Tail(srb1Down[r]) ELSE srb1Down[q]
  BY <1>2, <1>3, <1>4 DEF QueueShape
<1> HIDE DEF r, d, u
<1>10. /\ ue' \in [Imsis -> AnyUe] /\ ue'[i] = u
       /\ \A j \in Imsis : j # i => ue'[j] = ue[j]
       /\ \A j \in Imsis : /\ ue'[j].state = ue[j].state /\ ue'[j].macRnti = ue[j].macRnti
                           /\ ue'[j].rnti = ue[j].rnti /\ ue'[j].rar = ue[j].rar
  BY <1>2, <1>6, <1>7 DEF RrcShape, r
<1>11. RrcShape' /\ QueueShape'
  BY <1>1, <1>2, <1>8, <1>9, <1>10 DEF RrcShape, QueueShape
<1>12. TimersAgree' /\ HandlesAreOwn' /\ UesAgree'
  <2>1. TimersAgree /\ HandlesAreOwn /\ UesAgree
    BY DEF RrcInv
  <2>2. TimersAgree'
    BY ONLY <1>1, <1>10, <2>1 DEF TimersAgree
  <2>3. HandlesAreOwn'
    BY ONLY <1>1, <1>10, <2>1 DEF HandlesAreOwn
  <2>4. UesAgree'
    BY ONLY <1>1, <1>10, <2>1 DEF UesAgree, HasUeManager
  <2> QED
    BY <2>2, <2>3, <2>4
<1>13. ManagersAgree'
  <2>1. ASSUME NEW q \in Rntis PROVE ManagerAgrees(q)'
    <3>1. ManagerAgrees(q) /\ ueMap[q].imsi \in Imsis \cup {0}
      BY <1>2 DEF RrcInv, ManagersAgree, RrcShape, AnyManager
    <3>2. CASE q = r
      <4>1. /\ ueMap'[q] = ueMap[q] /\ lastRnti' = lastRnti
            /\ ueMap[q].state \in Admitted /\ ueMap[q].imsi = i
        BY <1>1, <1>5, <3>2
      <4>2. ue'[i].state = "CONNECTED_NORMALLY" /\ ue'[i].macRnti = q
        BY <1>3, <1>10, <3>2 DEF r
      <4> QED
        BY ONLY <3>1, <4>1, <4>2 DEF ManagerAgrees
    <3>3. CASE q # r
      <4>1. srb1Up'[q] = srb1Up[q] /\ srb1Down'[q] = srb1Down[q]
        BY <1>8, <1>9, <3>3
      <4> QED
        BY <1>1, <1>10, <3>1, <4>1 DEF ManagerAgrees
    <3> QED
      BY <3>2, <3>3
  <2> QED
    BY <2>1 DEF ManagersAgree
<1>14. Srb0Agrees' /\ EpcRntiAgrees' /\ IdentityMapsAgree' /\ DownlinkReachesItsUe'
  <2>1. Srb0Agrees' /\ EpcRntiAgrees'
    BY <1>1 DEF RrcInv, Srb0Agrees, EpcRntiAgrees, HasUeManager
  <2>2. IdentityMapsAgree' /\ DownlinkReachesItsUe'
    BY <1>1 DEF RrcInv, IdentityMapsAgree, DownlinkReachesItsUe, Live, HasUeManager
  <2> QED
    BY <2>1, <2>2
<1>15. DrbsHaveTunnels'
  <2>1. DrbsHaveTunnels
    BY DEF RrcInv
  <2>2. \A q \in Rntis : ueMap'[q].drbs \subseteq rbidTeid'[q]
    BY ONLY <1>1, <2>1 DEF DrbsHaveTunnels
  <2>3. ASSUME NEW q \in Rntis, NEW n \in DOMAIN srb1Down'[q]
        PROVE  srb1Down'[q][n].add \subseteq rbidTeid'[q]
    <3>1. CASE q = r
      BY ONLY <1>1, <1>3, <1>4, <1>9, <2>3, <3>1
    <3>2. CASE q # r
      BY ONLY <1>1, <1>9, <2>1, <2>3, <3>2 DEF DrbsHaveTunnels
    <3> QED
      BY <3>1, <3>2
  <2>4. \A j \in Imsis : ue'[j].drbs # {} => ue'[j].state = "CONNECTED_NORMALLY"
    BY ONLY <1>3, <1>7, <1>10, <2>1 DEF DrbsHaveTunnels
  <2> QED
    BY ONLY <2>2, <2>3, <2>4 DEF DrbsHaveTunnels
<1>16. UplinkHasTunnel'
  <2>1. ue[i].drbs \subseteq rbidTeid[r]
    BY <1>5 DEF RrcInv, UplinkHasTunnel, r
  <2> QED
    BY <1>1, <1>7, <1>10, <2>1 DEF RrcInv, UplinkHasTunnel, HasUeManager
<1> QED
  BY <1>11, <1>12, <1>13, <1>14, <1>15, <1>16 DEF RrcInv

--------------------------------------------------------------------------------
(* The cell and the UEs it has admitted.                                   *)
LEMMA SendDownKeeps ==
  ASSUME RrcInv, NEW r \in Rntis, NEW add \in SUBSET Bearers, NEW release \in SUBSET Bearers,
         NEW T, add \subseteq T, rbidTeid[r] \subseteq T,
         srb1Down' = [srb1Down EXCEPT ![r] = Append(@, Reconfiguration(add, release))]
  PROVE  /\ srb1Down' \in [Rntis -> Seq(DownMessage)]
         /\ \A q \in Rntis : q # r => srb1Down'[q] = srb1Down[q]
         /\ \A n \in DOMAIN srb1Down'[r] : srb1Down'[r][n].add \subseteq T
<1> DEFINE d == Reconfiguration(add, release)
           s == srb1Down[r]
<1>1. d \in DownMessage /\ d.add = add
  BY RrcAssumption DEF Reconfiguration, DownMessage
<1>2. srb1Down \in [Rntis -> Seq(DownMessage)] /\ s \in Seq(DownMessage)
  BY DEF RrcInv, QueueShape
<1>3. \A n \in DOMAIN s : s[n].add \subseteq T
  BY DEF RrcInv, DrbsHaveTunnels
<1>4. srb1Down' = [srb1Down EXCEPT ![r] = Append(s, d)]
  BY <1>2
<1> HIDE DEF d, s
<1>5. /\ Append(s, d) \in Seq(DownMessage) /\ Len(Append(s, d)) = Len(s) + 1
      /\ \A n \in 1..Len(s) : Append(s, d)[n] = s[n]
      /\ Append(s, d)[Len(s) + 1] = d
  BY <1>1, <1>2, AppendProperties
<1>6. Len(s) \in Nat /\ DOMAIN s = 1..Len(s) /\ DOMAIN Append(s, d) = 1..(Len(s) + 1)
  BY <1>2, <1>5, LenProperties
<1>7. \A n \in DOMAIN Append(s, d) : Append(s, d)[n].add \subseteq T
  BY <1>1, <1>3, <1>5, <1>6
<1> QED
  BY <1>2, <1>4, <1>5, <1>7

LEMMA ToConnectedKeeps ==
  ASSUME RrcInv, EpcInv', NEW r \in Rntis, Received(r), timers' \subseteq timers,
         ToConnectedNormally(r), OnlyTheManager
  PROVE  RrcInv'
<1> DEFINE c == [ueMap[r] EXCEPT !.state = "CONNECTED_NORMALLY", !.toStart = {}]
           m == IF c.pending THEN Reconfigured(c) ELSE c
<1>1. UNCHANGED <<ue, imsiRnti, rntiImsi, lastRnti, epcRnti, rbidTeid, teidRbid, srb0,
                  s1Up, s1Down>>
  BY DEF OnlyTheManager, s1AppVars, s1Vars
<1>2. RrcShape /\ QueueShape
  BY DEF RrcInv
<1>3. srb1Up[r] # << >> /\ srb1Up' = [srb1Up EXCEPT ![r] = Tail(srb1Up[r])]
  BY DEF Received
<1>4. /\ srb1Up' \in [Rntis -> Seq(UpMessage)]
      /\ \A q \in Rntis : q # r => srb1Up'[q] = srb1Up[q]
  <2>1. Tail(srb1Up[r]) \in Seq(UpMessage)
    BY <1>2, <1>3, HeadTailProperties DEF QueueShape
  <2> QED
    BY <1>2, <1>3, <2>1 DEF QueueShape
<1>5. ueMap[r] \in AnyManager /\ ueMap[r].state \in Admitted
  BY <1>2, <1>3 DEF RrcInv, RrcShape, ManagersAgree, ManagerAgrees
<1>6. c \in AnyManager /\ c.state = "CONNECTED_NORMALLY" /\ c.imsi = ueMap[r].imsi
      /\ c.drbs = ueMap[r].drbs
  BY <1>5 DEF AnyManager, ManagerState
<1>7. /\ ueMap' = [ueMap EXCEPT ![r] = m]
      /\ srb1Down' = IF c.pending
                     THEN [srb1Down EXCEPT ![r] = Append(@, Reconfiguration(c.drbs, {}))]
                     ELSE srb1Down
  BY DEF ToConnectedNormally
<1> HIDE DEF c
<1>8. /\ m \in AnyManager /\ m.state \in Admitted /\ m.imsi = ueMap[r].imsi
      /\ m.drbs = ueMap[r].drbs
  BY <1>6 DEF AnyManager, ManagerState, Reconfigured, Admitted
<1> HIDE DEF m
<1>9. ueMap[r].drbs \subseteq rbidTeid[r] /\ ueMap[r].drbs \in SUBSET Bearers
  BY <1>5 DEF RrcInv, DrbsHaveTunnels, AnyManager
<1>10. /\ srb1Down' \in [Rntis -> Seq(DownMessage)]
       /\ \A q \in Rntis : q # r => srb1Down'[q] = srb1Down[q]
       /\ \A n \in DOMAIN srb1Down'[r] : srb1Down'[r][n].add \subseteq rbidTeid[r]
  <2>1. CASE c.pending
    <3> DEFINE A == c.drbs
               T == rbidTeid[r]
    <3>1. srb1Down' = [srb1Down EXCEPT ![r] = Append(@, Reconfiguration(A, {}))]
      BY <1>7, <2>1
    <3>2. A \in SUBSET Bearers /\ A \subseteq T /\ {} \in SUBSET Bearers
      BY <1>6, <1>9
    <3> HIDE DEF A
    <3> QED
      BY <3>1, <3>2, SendDownKeeps
  <2>2. CASE ~c.pending
    BY <1>2, <1>7, <2>2 DEF QueueShape, RrcInv, DrbsHaveTunnels
  <2> QED
    BY <2>1, <2>2
<1>11. DownlinkReachesItsUe'
  <2>1. \A q \in Rntis : HasUeManager(q) => HasUeManager(q)' /\ ueMap'[q].imsi = ueMap[q].imsi
    BY <1>2, <1>5, <1>7, <1>8 DEF RrcShape, HasUeManager, Admitted
  <2> QED
    BY <1>1, <2>1 DEF RrcInv, DownlinkReachesItsUe, HasUeManager
<1>12. \A q \in Rntis : rbidTeid[q] \subseteq rbidTeid'[q]
  BY <1>1
<1>13. rbidTeid' \in [Rntis -> SUBSET Bearers] /\ teidRbid' \in [Bearers -> Rntis \cup {0}]
  BY <1>1, <1>2 DEF RrcShape
<1>14. s1Up' \in Seq(S1UpMessage) /\ s1Down' \in Seq(SetupRequest)
  BY <1>1, <1>2 DEF QueueShape
<1> QED
  BY <1>1, <1>3, <1>4, <1>5, <1>7, <1>8, <1>9, <1>10, <1>11, <1>12, <1>13, <1>14, AdmittedStepKeeps

(* The completion of a reconfiguration that the cell is not waiting for.   *)
LEMMA CompletionKeeps ==
  ASSUME RrcInv, EpcInv', NEW r \in Rntis, Received(r),
         ueMap[r].state = "CONNECTED_NORMALLY", UNCHANGED <<ueMap, srb1Down, timers>>,
         OnlyTheManager
  PROVE  RrcInv'
<1>1. UNCHANGED <<ue, imsiRnti, rntiImsi, lastRnti, epcRnti, rbidTeid, teidRbid, srb0,
                  s1Up, s1Down>>
  BY DEF OnlyTheManager, s1AppVars, s1Vars
<1>2. RrcShape /\ QueueShape
  BY DEF RrcInv
<1>3. srb1Up[r] # << >> /\ srb1Up' = [srb1Up EXCEPT ![r] = Tail(srb1Up[r])]
  BY DEF Received
<1>4. /\ srb1Up' \in [Rntis -> Seq(UpMessage)]
      /\ \A q \in Rntis : q # r => srb1Up'[q] = srb1Up[q]
  <2>1. Tail(srb1Up[r]) \in Seq(UpMessage)
    BY <1>2, <1>3, HeadTailProperties DEF QueueShape
  <2> QED
    BY <1>2, <1>3, <2>1 DEF QueueShape
<1> DEFINE m == ueMap[r]
<1>5. m \in AnyManager /\ m.state \in Admitted /\ ueMap' = [ueMap EXCEPT ![r] = m]
  BY <1>2 DEF RrcShape, Admitted
<1>6. m.drbs \subseteq rbidTeid'[r]
  BY <1>1 DEF RrcInv, DrbsHaveTunnels
<1>7. \A n \in DOMAIN srb1Down'[r] : srb1Down'[r][n].add \subseteq rbidTeid'[r]
  BY <1>1 DEF RrcInv, DrbsHaveTunnels
<1>8. DownlinkReachesItsUe'
  BY <1>1 DEF RrcInv, DownlinkReachesItsUe, HasUeManager
<1>9. \A q \in Rntis : rbidTeid[q] \subseteq rbidTeid'[q]
  BY <1>1
<1>10. rbidTeid' \in [Rntis -> SUBSET Bearers] /\ teidRbid' \in [Bearers -> Rntis \cup {0}]
  BY <1>1, <1>2 DEF RrcShape
<1>11. /\ s1Up' \in Seq(S1UpMessage) /\ s1Down' \in Seq(SetupRequest) /\ timers' \subseteq timers
       /\ srb1Down' \in [Rntis -> Seq(DownMessage)] /\ srb1Down' = srb1Down
       /\ m.imsi = ueMap[r].imsi
  BY <1>1, <1>2 DEF QueueShape
<1> HIDE DEF m
<1> QED
  BY <1>1, <1>3, <1>4, <1>5, <1>6, <1>7, <1>8, <1>9, <1>10, <1>11, AdmittedStepKeeps DEF m

--------------------------------------------------------------------------------
(* The bearers of an IMSI get their tunnels at its only context.           *)
LEMMA OneContextOf ==
  ASSUME RrcInv, NEW q \in Rntis, NEW r \in Rntis, HasUeManager(q), HasUeManager(r),
         ueMap[q].imsi = ueMap[r].imsi, ueMap[r].imsi # 0
  PROVE  q = r
<1>1. q \in Live /\ r \in Live
  BY DEF Live
<1>2. rntiImsi[q] = ueMap[r].imsi /\ rntiImsi[r] = ueMap[r].imsi
  BY <1>1 DEF RrcInv, IdentityMapsAgree
<1>3. ueMap[r].imsi \in Imsis
  BY DEF RrcInv, RrcShape, AnyManager
<1> QED
  BY <1>2, <1>3 DEF RrcInv, IdentityMapsAgree

LEMMA AddTunnelsKeeps ==
  ASSUME RrcInv, NEW i \in Imsis, NEW r \in Rntis, NEW added \in SUBSET BearersOf(i),
         HasUeManager(r), ueMap[r].imsi = i, AddTunnels(r, added),
         \A q \in Rntis : HasUeManager(q) => HasUeManager(q)' /\ ueMap'[q].imsi = ueMap[q].imsi
  PROVE  /\ rbidTeid' \in [Rntis -> SUBSET Bearers]
         /\ teidRbid' \in [Bearers -> Rntis \cup {0}]
         /\ rbidTeid'[r] = rbidTeid[r] \cup added
         /\ \A q \in Rntis : rbidTeid[q] \subseteq rbidTeid'[q]
         /\ DownlinkReachesItsUe'
<1>1. rbidTeid \in [Rntis -> SUBSET Bearers] /\ teidRbid \in [Bearers -> Rntis \cup {0}]
  BY DEF RrcInv, RrcShape
<1>2. added \subseteq Bearers
  BY BearersOfAreBearers
<1>3. \A q \in Rntis : rbidTeid'[q] = IF q = r THEN rbidTeid[r] \cup added ELSE rbidTeid[q]
  BY <1>1 DEF AddTunnels
<1>4. \A b \in Bearers : teidRbid'[b] = IF b \in added THEN r ELSE teidRbid[b]
  BY DEF AddTunnels
<1>5. rbidTeid' \in [Rntis -> SUBSET Bearers]
  BY <1>1, <1>2 DEF AddTunnels
<1>6. teidRbid' \in [Bearers -> Rntis \cup {0}]
  BY <1>1 DEF AddTunnels
<1>7. \A q \in Rntis : \A b \in rbidTeid[q] : teidRbid[b] = q
  BY DEF RrcInv, DownlinkReachesItsUe
<1>8. \A b \in Bearers :
        teidRbid[b] # 0 =>
          b \in rbidTeid[teidRbid[b]] /\ HasUeManager(teidRbid[b])
          /\ b \in BearersOf(ueMap[teidRbid[b]].imsi)
  BY DEF RrcInv, DownlinkReachesItsUe
<1>9. \A q \in Rntis : \A b \in rbidTeid[q] : b \in added => q = r
  <2> SUFFICES ASSUME NEW q \in Rntis, NEW b \in rbidTeid[q], b \in added PROVE q = r
    OBVIOUS
  <2>1. b \in Bearers /\ teidRbid[b] = q /\ q # 0
    BY <1>1, <1>7 DEF Rntis
  <2>2. HasUeManager(q) /\ b \in BearersOf(ueMap[q].imsi)
    BY <1>8, <2>1
  <2>3. ueMap[q].imsi \in Nat
    BY ImsiIsNat DEF RrcInv, RrcShape, AnyManager
  <2>4. i \in Nat /\ i # 0 /\ b \in BearersOf(i)
    BY ImsiIsNat
  <2>5. ueMap[q].imsi = i
    BY <2>2, <2>3, <2>4, BearersAreOfOneImsi
  <2> QED
    BY <2>2, <2>4, <2>5, OneContextOf
<1>10. \A q \in Rntis : \A b \in rbidTeid'[q] : teidRbid'[b] = q
  BY <1>1, <1>2, <1>3, <1>4, <1>7, <1>9
<1>11. ASSUME NEW b \in Bearers, teidRbid'[b] # 0
       PROVE  (/\ b \in rbidTeid[teidRbid[b]]
               /\ HasUeManager(teidRbid[b])
               /\ b \in BearersOf(ueMap[teidRbid[b]].imsi))'
  <2>1. CASE b \in added
    <3>1. teidRbid'[b] = r /\ b \in rbidTeid'[r]
      BY <1>3, <1>4, <2>1
    <3>2. HasUeManager(r)' /\ ueMap'[r].imsi = i
      OBVIOUS
    <3> QED
      BY <2>1, <3>1, <3>2 DEF HasUeManager
  <2>2. CASE b \notin added
    <3>1. teidRbid'[b] = teidRbid[b] /\ teidRbid[b] \in Rntis
      BY <1>1, <1>4, <1>11, <2>2
    <3> DEFINE q == teidRbid[b]
    <3>2. b \in rbidTeid[q] /\ HasUeManager(q) /\ b \in BearersOf(ueMap[q].imsi)
      BY <1>8, <3>1 DEF Rntis
    <3>3. b \in rbidTeid'[q] /\ HasUeManager(q)' /\ ueMap'[q].imsi = ueMap[q].imsi
      BY <1>3, <3>1, <3>2
    <3> QED
      BY <3>1, <3>2, <3>3 DEF HasUeManager
  <2> QED
    BY <2>1, <2>2
<1>12. DownlinkReachesItsUe'
  BY <1>10, <1>11 DEF DownlinkReachesItsUe
<1> QED
  BY <1>3, <1>5, <1>6, <1>12

(* What WithBearers makes of a context.                                    *)
LEMMA WithBearersIs ==
  ASSUME NEW i \in Imsis, NEW w \in AnyManager, NEW b \in Seq(BearersOf(i)), b # << >>,
         NEW m, m = WithBearers(w, b)
  PROVE  /\ m \in AnyManager
         /\ m.drbs = w.drbs \cup {b[n] : n \in DOMAIN b} /\ m.imsi = w.imsi
         /\ m.lastDrbid = w.lastDrbid + Len(b)
         /\ m.state = IF w.state = "CONNECTED_NORMALLY" THEN "CONNECTION_RECONFIGURATION"
                                                        ELSE w.state
<1> DEFINE added == {b[n] : n \in DOMAIN b}
           drbs == w.drbs \cup added
           last == w.lastDrbid + Len(b)
           first == [w EXCEPT !.drbs = @ \cup {b[1]}]
           c == Reconfigured(first)
           more == Len(b) > 1
<1>0. Len(b) \in Nat /\ added \subseteq Bearers /\ b[1] \in added
  BY LenProperties, ElementOfSeq, EmptySeq, BearersOfAreBearers
<1>1. w.drbs \in SUBSET Bearers /\ w.lastDrbid \in Nat
  BY DEF AnyManager
<1>2. drbs \in SUBSET Bearers /\ last \in Nat /\ more \in BOOLEAN
  BY <1>0, <1>1
<1>3. CASE w.state = "CONNECTED_NORMALLY"
  <2>1. first \in AnyManager /\ first.imsi = w.imsi
        /\ first.drbs \cup added = drbs /\ first.lastDrbid = w.lastDrbid
    BY <1>0, <1>1 DEF AnyManager
  <2> HIDE DEF first
  <2>2. c \in AnyManager /\ c.state = "CONNECTION_RECONFIGURATION" /\ c.imsi = w.imsi
        /\ c.drbs = first.drbs /\ c.lastDrbid = first.lastDrbid
    BY <2>1 DEF Reconfigured, AnyManager, ManagerState
  <2>3. m = [c EXCEPT !.drbs = @ \cup added, !.lastDrbid = @ + Len(b), !.pending = more]
    BY <1>0, <1>3 DEF WithBearers, first
  <2> HIDE DEF c
  <2>4. c.drbs \cup added = drbs /\ c.lastDrbid + Len(b) = last
    BY <2>1, <2>2
  <2> HIDE DEF drbs, last, more
  <2>4a. m = [c EXCEPT !.drbs = drbs, !.lastDrbid = last, !.pending = more]
    BY ONLY <2>3, <2>4
  <2>5. m.state = c.state /\ m.imsi = c.imsi /\ m.drbs = drbs /\ m.lastDrbid = last
    BY ONLY <2>2, <2>4a DEF AnyManager
  <2>6. m \in AnyManager
    BY ONLY <1>2, <2>2, <2>4a DEF AnyManager
  <2> QED
    BY <1>3, <2>2, <2>5, <2>6 DEF drbs, last
<1>4. CASE w.state # "CONNECTED_NORMALLY"
  <2>1. m = [w EXCEPT !.drbs = drbs, !.lastDrbid = last, !.pending = TRUE]
    BY <1>0, <1>1, <1>4 DEF WithBearers, AnyManager
  <2> HIDE DEF drbs, last
  <2>2. m.state = w.state /\ m.imsi = w.imsi /\ m.drbs = drbs /\ m.lastDrbid = last
    BY <2>1 DEF AnyManager
  <2>3. m \in AnyManager
    BY <1>2, <2>1 DEF AnyManager
  <2> QED
    BY <1>4, <2>2, <2>3 DEF drbs, last
<1> QED
  BY <1>3, <1>4

LEMMA ContextSetupKeeps ==
  ASSUME RrcInv, EpcInv', s1Down # << >>, NEW i, NEW bearers, NEW added,
         i = Head(s1Down).imsi, bearers = Head(s1Down).bearers, bearers # << >>,
         added = {bearers[n] : n \in DOMAIN bearers},
         HasUeManager(epcRnti[i]),
         ueMap' = [ueMap EXCEPT ![epcRnti[i]] = WithBearers(@, bearers)],
         srb1Down' = IF ueMap[epcRnti[i]].state = "CONNECTED_NORMALLY"
                     THEN [srb1Down EXCEPT ![epcRnti[i]] =
                             Append(@, Reconfiguration(ueMap[epcRnti[i]].drbs \cup {bearers[1]}, {}))]
                     ELSE srb1Down,
         AddTunnels(epcRnti[i], added),
         s1Down' = Tail(s1Down),
         UNCHANGED <<ue, imsiRnti, rntiImsi, lastRnti, epcRnti, timers, srb0, srb1Up, s1Up>>
  PROVE  RrcInv'
<1> DEFINE r == epcRnti[i]
           m == WithBearers(ueMap[r], bearers)
<1>1. RrcShape /\ QueueShape
  BY DEF RrcInv
<1>2. Head(s1Down) \in SetupRequest /\ Tail(s1Down) \in Seq(SetupRequest)
  BY <1>1, HeadTailProperties DEF QueueShape
<1>3. i \in Imsis /\ bearers \in Seq(BearersOf(i))
  BY <1>2 DEF SetupRequest, S1DownMessage
<1>4. r \in Rntis /\ r # 0 /\ ueMap[r].imsi = i /\ i # 0 /\ ueMap[r] \in AnyManager
  <2>1. HasUeManager(r) /\ EpcRntiAgrees /\ ueMap \in [Rntis -> AnyManager]
    BY <1>1 DEF RrcInv, RrcShape
  <2>2. r \in Rntis /\ r # 0
    BY ONLY <2>1 DEF HasUeManager, Rntis
  <2>3. ueMap[r].imsi = i
    BY ONLY <1>3, <2>1, <2>2 DEF EpcRntiAgrees
  <2> QED
    BY ONLY <1>3, <2>1, <2>2, <2>3, ImsiIsNat
<1>5. ueMap[r].state \in Admitted
  BY <1>4 DEF RrcInv, ManagersAgree, ManagerAgrees
<1>6. /\ added \in SUBSET BearersOf(i) /\ added \subseteq Bearers /\ bearers[1] \in added
      /\ Len(bearers) \in Nat
  <2>1. bearers # << >> /\ added = {bearers[n] : n \in DOMAIN bearers}
    OBVIOUS
  <2>2. /\ Len(bearers) \in Nat /\ DOMAIN bearers = 1..Len(bearers) /\ Len(bearers) # 0
        /\ \A n \in DOMAIN bearers : bearers[n] \in BearersOf(i)
    BY ONLY <1>3, <2>1, LenProperties, ElementOfSeq, EmptySeq
  <2> QED
    BY ONLY <1>3, <2>1, <2>2, BearersOfAreBearers
<1>7. ueMap' = [ueMap EXCEPT ![r] = m]
  OBVIOUS
<1>8. /\ m \in AnyManager /\ m.state \in Admitted /\ m.imsi = i
      /\ m.drbs = ueMap[r].drbs \cup added
      /\ m.state = "CONNECTION_SETUP" => ueMap[r].state = "CONNECTION_SETUP"
      /\ m.state # "CONNECTION_SETUP" => ueMap[r].state # "CONNECTION_SETUP"
  <2>1. bearers \in Seq(BearersOf(i)) /\ bearers # << >> /\ ueMap[r] \in AnyManager
    BY <1>3, <1>4
  <2>2. PICK w : w = m
    OBVIOUS
  <2>3. /\ w \in AnyManager
        /\ w.drbs = ueMap[r].drbs \cup {bearers[n] : n \in DOMAIN bearers}
        /\ w.imsi = ueMap[r].imsi
        /\ w.state = IF ueMap[r].state = "CONNECTED_NORMALLY" THEN "CONNECTION_RECONFIGURATION"
                                                              ELSE ueMap[r].state
    BY ONLY <1>3, <2>1, <2>2, WithBearersIs
  <2> QED
    BY ONLY added = {bearers[n] : n \in DOMAIN bearers}, <1>4, <1>5, <2>2, <2>3 DEF Admitted
<1> HIDE DEF m
<1>9. \A q \in Rntis : HasUeManager(q) => HasUeManager(q)' /\ ueMap'[q].imsi = ueMap[q].imsi
  BY <1>1, <1>4, <1>7, <1>8 DEF RrcShape, HasUeManager, Admitted
<1>10. /\ rbidTeid' \in [Rntis -> SUBSET Bearers]
       /\ teidRbid' \in [Bearers -> Rntis \cup {0}]
       /\ rbidTeid'[r] = rbidTeid[r] \cup added
       /\ \A q \in Rntis : rbidTeid[q] \subseteq rbidTeid'[q]
       /\ DownlinkReachesItsUe'
  <2>1. HasUeManager(r) /\ AddTunnels(r, added)
    BY DEF r
  <2> HIDE DEF r
  <2> QED
    BY ONLY RrcInv, <1>3, <1>4, <1>6, <1>9, <2>1, AddTunnelsKeeps
<1>11. ueMap[r].drbs \subseteq rbidTeid[r] /\ ueMap[r].drbs \subseteq Bearers
  BY <1>4 DEF RrcInv, DrbsHaveTunnels, AnyManager
<1>12. /\ srb1Down' \in [Rntis -> Seq(DownMessage)]
       /\ \A q \in Rntis : q # r => srb1Down'[q] = srb1Down[q]
       /\ \A n \in DOMAIN srb1Down'[r] : srb1Down'[r][n].add \subseteq rbidTeid'[r]
  <2>1. CASE ueMap[r].state = "CONNECTED_NORMALLY"
    <3> DEFINE A == ueMap[r].drbs \cup {bearers[1]}
               T == rbidTeid'[r]
    <3>1. srb1Down' = [srb1Down EXCEPT ![r] = Append(@, Reconfiguration(A, {}))]
      BY <2>1
    <3>2. A \in SUBSET Bearers /\ A \subseteq T /\ {} \in SUBSET Bearers /\ rbidTeid[r] \subseteq T
      BY <1>6, <1>10, <1>11
    <3> HIDE DEF A, T, r
    <3>3. r \in Rntis
      BY <1>4
    <3>4. /\ srb1Down' \in [Rntis -> Seq(DownMessage)]
          /\ \A q \in Rntis : q # r => srb1Down'[q] = srb1Down[q]
          /\ \A n \in DOMAIN srb1Down'[r] : srb1Down'[r][n].add \subseteq T
      BY <3>1, <3>2, <3>3, SendDownKeeps
    <3> QED
      BY <3>4 DEF T
  <2>2. CASE ueMap[r].state # "CONNECTED_NORMALLY"
    BY <1>1, <1>4, <1>10, <2>2 DEF QueueShape, RrcInv, DrbsHaveTunnels
  <2> QED
    BY <2>1, <2>2
<1>13. m.drbs \subseteq rbidTeid'[r]
  BY <1>8, <1>10, <1>11
<1>14. /\ srb1Up' \in [Rntis -> Seq(UpMessage)] /\ \A q \in Rntis : srb1Up'[q] = srb1Up[q]
       /\ s1Up' \in Seq(S1UpMessage) /\ s1Down' \in Seq(SetupRequest) /\ timers' \subseteq timers
  BY <1>1, <1>2 DEF QueueShape
<1> HIDE DEF r
<1> QED
  BY <1>4, <1>5, <1>7, <1>8, <1>10, <1>12, <1>13, <1>14, AdmittedStepKeeps

LEMMA DeActivateKeeps ==
  ASSUME RrcInv, EpcInv', NEW i \in Imsis, NEW b \in Bearers, DeActivateDedicatedEpsBearer(i, b)
  PROVE  RrcInv'
<1> DEFINE r == ue[i].rnti
           m == [ueMap[r] EXCEPT !.drbs = @ \ {b}]
<1>1. UNCHANGED <<ue, imsiRnti, rntiImsi, lastRnti, epcRnti, rbidTeid, teidRbid, timers,
                  srb0, srb1Up, s1Down>>
  BY DEF DeActivateDedicatedEpsBearer, s1AppVars
<1>2. RrcShape /\ QueueShape
  BY DEF RrcInv
<1>3. /\ ue[i].state = "CONNECTED_NORMALLY" /\ HasUeManager(r) /\ r \in Rntis
      /\ ueMap' = [ueMap EXCEPT ![r] = m]
      /\ srb1Down' = [srb1Down EXCEPT ![r] = Append(@, Reconfiguration({}, {b}))]
      /\ s1Up' = Append(s1Up, [msg |-> "ErabRelease", imsi |-> i, bearer |-> b, left |-> S1Delay])
  BY <1>2 DEF DeActivateDedicatedEpsBearer, HasUeManager, RrcShape
<1>4. ue[i].macRnti = r /\ ueMap[r].imsi = i /\ i # 0 /\ ueMap[r] \in AnyManager
  BY <1>2, <1>3, ImsiIsNat DEF RrcInv, UesAgree, WithMacRnti, RrcShape
<1>5. ueMap[r].state \in Admitted
  BY <1>3, <1>4 DEF RrcInv, ManagersAgree, ManagerAgrees
<1>6. /\ m \in AnyManager /\ m.state = ueMap[r].state /\ m.imsi = ueMap[r].imsi
      /\ m.drbs \subseteq ueMap[r].drbs
  BY <1>4 DEF AnyManager
<1> HIDE DEF r, m
<1>7. m.drbs \subseteq rbidTeid'[r]
  BY <1>1, <1>3, <1>6 DEF RrcInv, DrbsHaveTunnels
<1>8. /\ srb1Down' \in [Rntis -> Seq(DownMessage)]
      /\ \A q \in Rntis : q # r => srb1Down'[q] = srb1Down[q]
      /\ \A n \in DOMAIN srb1Down'[r] : srb1Down'[r][n].add \subseteq rbidTeid'[r]
  <2> DEFINE T == rbidTeid'[r]
             none == {}
             gone == {b}
  <2>1. none \in SUBSET Bearers /\ gone \in SUBSET Bearers /\ none \subseteq T
        /\ rbidTeid[r] \subseteq T /\ r \in Rntis
        /\ srb1Down' = [srb1Down EXCEPT ![r] = Append(@, Reconfiguration(none, gone))]
    BY <1>1, <1>3
  <2> HIDE DEF T, none, gone
  <2>2. /\ srb1Down' \in [Rntis -> Seq(DownMessage)]
        /\ \A q \in Rntis : q # r => srb1Down'[q] = srb1Down[q]
        /\ \A n \in DOMAIN srb1Down'[r] : srb1Down'[r][n].add \subseteq T
    BY <2>1, SendDownKeeps
  <2> QED
    BY <2>2 DEF T
<1>9. DownlinkReachesItsUe'
  <2>1. \A q \in Rntis : HasUeManager(q) => HasUeManager(q)' /\ ueMap'[q].imsi = ueMap[q].imsi
    BY <1>2, <1>3, <1>5, <1>6 DEF RrcShape, HasUeManager, Admitted
  <2> QED
    BY <1>1, <2>1 DEF RrcInv, DownlinkReachesItsUe, HasUeManager
<1>10. /\ rbidTeid' \in [Rntis -> SUBSET Bearers] /\ teidRbid' \in [Bearers -> Rntis \cup {0}]
       /\ \A q \in Rntis : rbidTeid[q] \subseteq rbidTeid'[q]
  BY <1>1, <1>2 DEF RrcShape
<1>11. s1Up' \in Seq(S1UpMessage)
  <2>1. [msg |-> "ErabRelease", imsi |-> i, bearer |-> b, left |-> S1Delay] \in S1UpMessage
    BY RrcAssumption DEF S1UpMessage
  <2> QED
    BY <1>2, <1>3, <2>1, AppendProperties DEF QueueShape
<1>12. /\ srb1Up' \in [Rntis -> Seq(UpMessage)] /\ \A q \in Rntis : srb1Up'[q] = srb1Up[q]
       /\ s1Down' \in Seq(SetupRequest) /\ timers' \subseteq timers
  BY <1>1, <1>2 DEF QueueShape
<1> QED
  BY <1>1, <1>3, <1>5, <1>6, <1>7, <1>8, <1>9, <1>10, <1>11, <1>12, AdmittedStepKeeps

--------------------------------------------------------------------------------
(* Every step.                                                             *)
LEMMA StutterKeeps ==
  ASSUME RrcInv,
         UNCHANGED <<epcVars, ue, enbVars, lastRnti, s1AppVars, timers, radioVars, s1Vars>>
  PROVE  RrcInv'
<1>1. EpcInv'
  BY EpcInvUnchanged DEF RrcInv
<1>2. UNCHANGED <<timers, srb0, srb1Down, srb1Up, s1Up, s1Down>>
  BY DEF radioVars, s1Vars
<1>3. s1Up' \in Seq(S1UpMessage) /\ s1Down' \in Seq(SetupRequest)
  BY <1>2 DEF RrcInv, QueueShape
<1> QED
  BY <1>1, <1>2, <1>3, LinksKeep

LEMMA FailKeeps ==
  ASSUME RrcInv, NEW what, Fail(what)
  PROVE  RrcInv'
  BY StutterKeeps DEF Fail

LEMMA ScenarioKeeps ==
  ASSUME RrcInv, NEW i \in Imsis, ActivateEpsBearer(i) \/ Attach(i) \/ LoseRaResponse(i)
  PROVE  RrcInv'
<1>1. ue \in [Imsis -> AnyUe] /\ ue[i] \in AnyUe
  BY DEF RrcInv, RrcShape
<1>2. CASE ActivateEpsBearer(i)
  <2> DEFINE u == [ue[i] EXCEPT !.toActivate = ue[i].toActivate + 1]
  <2>1. AddBearer(i) /\ ue' = [ue EXCEPT ![i] = u]
        /\ UNCHANGED <<enbVars, lastRnti, s1AppVars, timers, radioVars, s1Vars>>
    BY <1>1, <1>2 DEF ActivateEpsBearer
  <2>2. /\ u \in AnyUe /\ u.macRnti = ue[i].macRnti /\ u.rnti = ue[i].rnti
        /\ u.drbs = ue[i].drbs /\ u.rar = ue[i].rar /\ u.state = ue[i].state
    BY <1>1 DEF AnyUe
  <2>3. EpcInv'
    BY <2>1, AddBearerKeeps DEF RrcInv
  <2> HIDE DEF u
  <2> QED
    BY <2>1, <2>2, <2>3, QuietUeKeeps
<1>3. CASE Attach(i)
  <2> DEFINE u == [ue[i] EXCEPT !.state = "IDLE_WAIT_MIB", !.connectionPending = TRUE]
  <2>1. ue' = [ue EXCEPT ![i] = u] /\ ue[i].state = "IDLE_START"
        /\ UNCHANGED <<epcVars, enbVars, lastRnti, s1AppVars, timers, radioVars, s1Vars>>
    BY <1>1, <1>3 DEF Attach
  <2>2. /\ u \in AnyUe /\ u.macRnti = ue[i].macRnti /\ u.rnti = ue[i].rnti
        /\ u.drbs = ue[i].drbs /\ u.rar = ue[i].rar /\ u.state = "IDLE_WAIT_MIB"
    BY <1>1 DEF AnyUe, UeState
  <2>3. EpcInv'
    BY <2>1, EpcInvUnchanged DEF RrcInv
  <2>4. u.state \notin WithMacRnti /\ ue[i].state \notin WithMacRnti
    BY <2>1, <2>2 DEF WithMacRnti
  <2> HIDE DEF u
  <2> QED
    BY <2>1, <2>2, <2>3, <2>4, QuietUeKeeps
<1>4. CASE LoseRaResponse(i)
  <2> DEFINE u == [ue[i] EXCEPT !.rar = 0]
  <2>1. ue' = [ue EXCEPT ![i] = u]
        /\ UNCHANGED <<epcVars, enbVars, lastRnti, s1AppVars, timers, radioVars, s1Vars>>
    BY <1>1, <1>4 DEF LoseRaResponse
  <2>2. /\ u \in AnyUe /\ u.macRnti = ue[i].macRnti /\ u.rnti = ue[i].rnti
        /\ u.drbs = ue[i].drbs /\ u.rar = 0 /\ u.state = ue[i].state
    BY <1>1 DEF AnyUe
  <2>3. EpcInv'
    BY <2>1, EpcInvUnchanged DEF RrcInv
  <2> HIDE DEF u
  <2> QED
    BY <2>1, <2>2, <2>3, QuietUeKeeps
<1> QED
  BY <1>2, <1>3, <1>4

(* A UE that is not connected looks for the cell again.                    *)
LEMMA IdleStepKeeps ==
  ASSUME RrcInv, NEW i \in Imsis, NEW u \in AnyUe, OnlyTheUeOf(i, u), timers' \subseteq timers,
         u.macRnti = ue[i].macRnti, u.rnti = ue[i].rnti, u.drbs = ue[i].drbs,
         u.rar = ue[i].rar,
         u.state = ue[i].state \/ (u.state \notin WithMacRnti /\ ue[i].state \notin WithMacRnti)
  PROVE  RrcInv'
<1>1. EpcInv'
  BY EpcInvUnchanged DEF OnlyTheUeOf, RrcInv
<1>2. ue' = [ue EXCEPT ![i] = u]
      /\ UNCHANGED <<enbVars, lastRnti, s1AppVars, radioVars, s1Vars>>
  BY DEF OnlyTheUeOf
<1> QED
  BY <1>1, <1>2, QuietUeKeeps

LEMMA WaitingForSib2Is ==
  ASSUME NEW u \in AnyUe
  PROVE  /\ WaitingForSib2(u) \in AnyUe /\ WaitingForSib2(u).macRnti = u.macRnti
         /\ WaitingForSib2(u).rnti = u.rnti /\ WaitingForSib2(u).drbs = u.drbs
         /\ WaitingForSib2(u).rar = u.rar /\ WaitingForSib2(u).state \notin WithMacRnti
  BY DEF WaitingForSib2, AnyUe, UeState, WithMacRnti

LEMMA RejectedKeeps ==
  ASSUME RrcInv, NEW i \in Imsis, RecvRrcConnectionReject(i)
  PROVE  RrcInv'
<1>1. PICK m \in srb0 :
        /\ m.msg = "Reject" /\ m.rnti = ue[i].macRnti
        /\ GiveUp(i, ue[i], timers \ OfImsi("T300", i))
        /\ srb0' = srb0 \ {m}
        /\ UNCHANGED <<epcVars, enbVars, lastRnti, s1AppVars, srb1Down, srb1Up, s1Vars>>
  BY DEF RecvRrcConnectionReject
<1>2. m.rnti \in Rntis /\ ueMap[m.rnti].state = "CONNECTION_REJECTED"
  BY <1>1 DEF RrcInv, QueueShape, Srb0Message, Srb0Agrees
<1>3. ueMap[m.rnti].imsi = 0 /\ HasUeManager(m.rnti)
  BY <1>2 DEF RrcInv, ManagersAgree, ManagerAgrees, Admitted, HasUeManager
<1>4. ue[i].state # "CONNECTED_NORMALLY"
  BY <1>1, <1>3, ImsiIsNat DEF RrcInv, UesAgree
<1>5. \A t \in timers \ OfImsi("T300", i) : t.imsi = i => t.kind # "T300" /\ t.kind # "Request"
  BY <1>1, <1>2 DEF OfImsi, RrcInv, TimersAgree, Unadmitted
<1>6. EpcInv'
  BY <1>1, EpcInvUnchanged DEF RrcInv
<1>7. srb0' \subseteq srb0 /\ timers \ OfImsi("T300", i) \subseteq timers
  BY <1>1
<1> DEFINE rest == timers \ OfImsi("T300", i)
<1>8. GiveUp(i, ue[i], rest)
  BY <1>1
<1> HIDE DEF rest
<1> QED
  BY <1>1, <1>4, <1>5, <1>6, <1>7, <1>8, GiveUpKeeps DEF rest

LEMMA UeStepKeeps ==
  ASSUME RrcInv, NEW i \in Imsis, UeStep(i)
  PROVE  RrcInv'
<1>1. ue \in [Imsis -> AnyUe] /\ ue[i] \in AnyUe
  BY DEF RrcInv, RrcShape
<1>2. CASE RecvMasterInformationBlock(i)
  <2> DEFINE u == Camped(ue[i])
  <2>1. OnlyTheUeOf(i, u) /\ timers' \subseteq timers /\ ue[i].state = "IDLE_WAIT_MIB"
    BY <1>2 DEF RecvMasterInformationBlock
  <2>2. /\ u \in AnyUe /\ u.macRnti = ue[i].macRnti /\ u.rnti = ue[i].rnti
        /\ u.drbs = ue[i].drbs /\ u.rar = ue[i].rar /\ u.state \notin WithMacRnti
    <3>1. CASE ue[i].connectionPending
      BY <1>1, <3>1, WaitingForSib2Is DEF Camped
    <3>2. CASE ~ue[i].connectionPending
      BY <1>1, <3>2 DEF Camped, AnyUe, UeState, WithMacRnti
    <3> QED
      BY <3>1, <3>2
  <2>3. ue[i].state \notin WithMacRnti
    BY <2>1 DEF WithMacRnti
  <2> HIDE DEF u
  <2> QED
    BY <2>1, <2>2, <2>3, IdleStepKeeps
<1>3. CASE RecvSystemInformation(i)
  <2> DEFINE v == [ue[i] EXCEPT !.hasReceivedSib2 = TRUE]
             u == IF v.state = "IDLE_WAIT_SIB2" THEN WaitingForSib2(v) ELSE v
  <2>1. OnlyTheUeOf(i, u) /\ timers' \subseteq timers
    BY <1>3 DEF RecvSystemInformation
  <2>2. /\ v \in AnyUe /\ v.macRnti = ue[i].macRnti /\ v.rnti = ue[i].rnti
        /\ v.drbs = ue[i].drbs /\ v.rar = ue[i].rar /\ v.state = ue[i].state
    BY <1>1 DEF AnyUe
  <2> HIDE DEF v
  <2>3. CASE v.state = "IDLE_WAIT_SIB2"
    <3>1. u = WaitingForSib2(v) /\ ue[i].state \notin WithMacRnti
      BY <2>2, <2>3 DEF WithMacRnti
    <3>2. /\ u \in AnyUe /\ u.macRnti = ue[i].macRnti /\ u.rnti = ue[i].rnti
          /\ u.drbs = ue[i].drbs /\ u.rar = ue[i].rar /\ u.state \notin WithMacRnti
      BY <2>2, <3>1, WaitingForSib2Is
    <3> HIDE DEF u
    <3> QED
      BY <2>1, <3>1, <3>2, IdleStepKeeps
  <2>4. CASE v.state # "IDLE_WAIT_SIB2"
    <3>1. u = v
      BY <2>4
    <3> HIDE DEF u
    <3> QED
      BY <2>1, <2>2, <3>1, IdleStepKeeps
  <2> QED
    BY <2>3, <2>4
<1>4. CASE AllocateTemporaryCellRnti(i)
  <2>1. EpcInv'
    BY <1>4, EpcInvUnchanged DEF AllocateTemporaryCellRnti, RrcInv
  <2> QED
    BY <1>4, <2>1, AllocateKeeps
<1>5. CASE RecvRaResponse(i)
  <2>1. CASE ue[i].state = "IDLE_RANDOM_ACCESS"
    <3>1. EpcInv' /\ ue[i].rar # 0
      BY <1>5, <2>1, EpcInvUnchanged DEF RecvRaResponse, OnlyTheUeOf, RrcInv
    <3> QED
      BY <1>5, <2>1, <3>1, RaResponseKeeps
  <2>2. CASE ue[i].state # "IDLE_RANDOM_ACCESS"
    BY <1>5, <2>2, FailKeeps DEF RecvRaResponse
  <2> QED
    BY <2>1, <2>2
<1>6. CASE RecvRrcConnectionSetup(i)
  <2>1. PICK m \in srb0, again \in BOOLEAN :
          /\ m.msg = "Setup" /\ m.rnti = ue[i].macRnti
          /\ CASE ue[i].state = "IDLE_CONNECTING" ->
                    /\ ue' = [ue EXCEPT ![i] = Activated([ue[i] EXCEPT !.state = "CONNECTED_NORMALLY"])]
                    /\ timers' = timers \ OfImsi("T300", i)
                    /\ SendUp(ue[i].rnti, "SetupCompleted")
                    /\ srb0' = IF again THEN srb0 ELSE srb0 \ {m}
                    /\ UNCHANGED <<epcVars, enbVars, lastRnti, s1AppVars, srb1Down, s1Vars, budget, failure>>
               [] ue[i].state = "CONNECTED_NORMALLY" ->
                    /\ srb0' = srb0 \ {m}
                    /\ UNCHANGED <<epcVars, ue, enbVars, lastRnti, s1AppVars, timers, srb1Down, srb1Up,
                                   s1Vars, budget, failure>>
               [] OTHER -> Fail("unexpected_state")
    BY <1>6 DEF RecvRrcConnectionSetup
  <2>2. CASE ue[i].state = "IDLE_CONNECTING"
    <3>1. /\ ue' = [ue EXCEPT ![i] = Activated([ue[i] EXCEPT !.state = "CONNECTED_NORMALLY"])]
          /\ timers' = timers \ OfImsi("T300", i)
          /\ SendUp(ue[i].rnti, "SetupCompleted")
          /\ srb0' \subseteq srb0
          /\ UNCHANGED <<epcVars, enbVars, lastRnti, s1AppVars, srb1Down, s1Vars>>
      BY <2>1, <2>2
    <3>2. EpcInv'
      BY <3>1, EpcInvUnchanged DEF RrcInv
    <3> QED
      BY <2>1, <2>2, <3>1, <3>2, SetupKeeps
  <2>3. CASE ue[i].state = "CONNECTED_NORMALLY"
    <3>1. /\ srb0' \subseteq srb0
          /\ UNCHANGED <<epcVars, ue, enbVars, lastRnti, s1AppVars, timers, srb1Down, srb1Up, s1Vars>>
      BY <2>1, <2>3
    <3>2. EpcInv'
      BY <3>1, EpcInvUnchanged DEF RrcInv
    <3>3. s1Up' \in Seq(S1UpMessage) /\ s1Down' \in Seq(SetupRequest) /\ timers' \subseteq timers
      BY <3>1 DEF s1Vars, RrcInv, QueueShape
    <3> QED
      BY <3>1, <3>2, <3>3, LinksKeep
  <2>4. CASE ue[i].state \notin {"IDLE_CONNECTING", "CONNECTED_NORMALLY"}
    <3>1. Fail("unexpected_state")
      BY <2>1, <2>4
    <3> QED
      BY <3>1, FailKeeps
  <2> QED
    BY <2>2, <2>3, <2>4
<1>7. CASE RecvRrcConnectionReject(i)
  BY <1>7, RejectedKeeps
<1>8. CASE RecvRrcConnectionReconfiguration(i)
  <2> DEFINE r == ue[i].macRnti
             m == Head(srb1Down[r])
  <2>1. CASE \E what : Fail(what)
    BY <2>1, FailKeeps
  <2>2. CASE ~ \E what : Fail(what)
    <3>1. /\ r # 0 /\ srb1Down[r] # << >> /\ ue[i].state = "CONNECTED_NORMALLY"
          /\ ue' = [ue EXCEPT ![i].drbs = (@ \cup m.add) \ m.release]
          /\ srb1Down' = [srb1Down EXCEPT ![r] = Tail(@)]
          /\ SendUp(r, "ReconfigurationCompleted")
          /\ UNCHANGED <<epcVars, enbVars, lastRnti, s1AppVars, timers, srb0, s1Vars>>
      BY <1>8, <2>2 DEF RecvRrcConnectionReconfiguration
    <3>2. EpcInv'
      BY <3>1, EpcInvUnchanged DEF RrcInv
    <3> QED
      BY <3>1, <3>2, ReconfigurationKeeps
  <2> QED
    BY <2>1, <2>2
<1> QED
  BY <1>2, <1>3, <1>4, <1>5, <1>6, <1>7, <1>8 DEF UeStep

LEMMA TimeoutKeeps ==
  ASSUME RrcInv, NEW t \in timers, NEW state, TimeoutIn(t, state)
  PROVE  RrcInv'
<1>1. CASE \E what : Fail(what)
  BY <1>1, FailKeeps
<1>2. CASE ~ \E what : Fail(what)
  <2>1. HasUeManager(t.rnti) /\ RemoveUe(t.rnti) /\ timers' \subseteq timers
    BY <1>2 DEF TimeoutIn
  <2>2. t.rnti \in Rntis /\ EpcInv'
    BY <2>1, EpcInvUnchanged DEF HasUeManager, RemoveUe, RrcInv
  <2> QED
    BY <2>1, <2>2, RemoveUeKeeps
<1> QED
  BY <1>1, <1>2

LEMMA TimerStepKeeps ==
  ASSUME RrcInv, TimerStep
  PROVE  RrcInv'
<1>1. ASSUME NEW t \in Due("Connect"), Connect(t) PROVE RrcInv'
  <2>1. t \in timers /\ t.imsi \in Imsis
    BY DEF Due, RrcInv, TimersAgree
  <2> DEFINE i == t.imsi
             v == [ue[i] EXCEPT !.connectionPending = TRUE]
             u == IF ue[i].state = "IDLE_CAMPED_NORMALLY" THEN WaitingForSib2(v) ELSE ue[i]
  <2>2. i \in Imsis /\ ue[i] \in AnyUe
    BY <2>1 DEF RrcInv, RrcShape
  <2>3. OnlyTheUeOf(i, u) /\ timers' \subseteq timers
    BY <1>1 DEF Connect
  <2>4. /\ v \in AnyUe /\ v.macRnti = ue[i].macRnti /\ v.rnti = ue[i].rnti
        /\ v.drbs = ue[i].drbs /\ v.rar = ue[i].rar
    BY <2>2 DEF AnyUe
  <2> HIDE DEF v, i
  <2>5. CASE ue[i].state = "IDLE_CAMPED_NORMALLY"
    <3>1. u = WaitingForSib2(v) /\ ue[i].state \notin WithMacRnti
      BY <2>5 DEF WithMacRnti
    <3>2. /\ u \in AnyUe /\ u.macRnti = ue[i].macRnti /\ u.rnti = ue[i].rnti
          /\ u.drbs = ue[i].drbs /\ u.rar = ue[i].rar /\ u.state \notin WithMacRnti
      BY <2>4, <3>1, WaitingForSib2Is
    <3> HIDE DEF u
    <3> QED
      BY <2>2, <2>3, <3>1, <3>2, IdleStepKeeps
  <2>6. CASE ue[i].state # "IDLE_CAMPED_NORMALLY"
    <3>1. u = ue[i]
      BY <2>6
    <3> HIDE DEF u
    <3> QED
      BY <2>2, <2>3, <3>1, IdleStepKeeps
  <2> QED
    BY <2>5, <2>6
<1>2. ASSUME NEW t \in Due("T300"), ConnectionTimeout(t) PROVE RrcInv'
  <2> DEFINE i == t.imsi
             rest == timers \ {t}
  <2>1. t \in timers /\ t.kind = "T300" /\ t.left = 0
    BY DEF Due
  <2>2. i \in Imsis /\ ue[i].state # "CONNECTED_NORMALLY"
    BY <2>1 DEF RrcInv, TimersAgree
  <2>3. \A s \in rest : s.imsi = i => s.kind # "T300" /\ s.kind # "Request"
    BY <2>1 DEF RrcInv, TimersAgree
  <2>4. /\ GiveUp(i, ue[i], rest) /\ rest \subseteq timers
        /\ UNCHANGED <<epcVars, enbVars, lastRnti, s1AppVars, radioVars, s1Vars>>
    BY <1>2 DEF ConnectionTimeout
  <2>5. EpcInv' /\ srb0' \subseteq srb0 /\ UNCHANGED <<srb1Down, srb1Up>>
    BY <2>4, EpcInvUnchanged DEF RrcInv, radioVars
  <2> HIDE DEF i, rest
  <2> QED
    BY <2>2, <2>3, <2>4, <2>5, GiveUpKeeps
<1>3. ASSUME NEW t \in Due("Request"), RecvRrcConnectionRequest(t) PROVE RrcInv'
  <2>1. t \in timers /\ t.kind = "Request"
    BY DEF Due
  <2>2. CASE \E what : Fail(what)
    BY <2>2, FailKeeps
  <2>3. CASE ~ \E what : Fail(what)
    <3>1. /\ HasUeManager(t.rnti) /\ ueMap[t.rnti].state = "INITIAL_RANDOM_ACCESS"
          /\ AdmitRrcConnection(t) \/ RejectRrcConnection(t)
      BY <1>3, <2>3 DEF RecvRrcConnectionRequest
    <3>2. EpcInv'
      BY <3>1, EpcInvUnchanged DEF AdmitRrcConnection, RejectRrcConnection, RrcInv
    <3> QED
      BY <2>1, <3>1, <3>2, AdmitKeeps, RejectKeeps
  <2> QED
    BY <2>2, <2>3
<1>4. ASSUME NEW t \in Due("RequestTimeout"), ConnectionRequestTimeout(t) PROVE RrcInv'
  BY <1>4, TimeoutKeeps DEF Due, ConnectionRequestTimeout
<1>5. ASSUME NEW t \in Due("SetupTimeout"), ConnectionSetupTimeout(t) PROVE RrcInv'
  <2>1. t \in timers
    BY DEF Due
  <2>2. CASE HasUeManager(t.rnti)
    BY <1>5, <2>1, <2>2, TimeoutKeeps DEF ConnectionSetupTimeout
  <2>3. CASE ~HasUeManager(t.rnti)
    <3>1. /\ timers' \subseteq timers
          /\ UNCHANGED <<epcVars, ue, enbVars, lastRnti, s1AppVars, radioVars, s1Vars>>
      BY <1>5, <2>3 DEF ConnectionSetupTimeout
    <3>2. UNCHANGED <<srb0, srb1Down, srb1Up, s1Up, s1Down>> /\ EpcInv'
      BY <3>1, EpcInvUnchanged DEF radioVars, s1Vars, RrcInv
    <3>3. s1Up' \in Seq(S1UpMessage) /\ s1Down' \in Seq(SetupRequest)
      BY <3>2 DEF RrcInv, QueueShape
    <3> QED
      BY <3>1, <3>2, <3>3, LinksKeep
  <2> QED
    BY <2>2, <2>3
<1>6. ASSUME NEW t \in Due("RejectedTimeout"), ConnectionRejectedTimeout(t) PROVE RrcInv'
  BY <1>6, TimeoutKeeps DEF Due, ConnectionRejectedTimeout
<1> QED
  BY <1>1, <1>2, <1>3, <1>4, <1>5, <1>6 DEF TimerStep

LEMMA EnbStepKeeps ==
  ASSUME RrcInv, NEW r \in Rntis, EnbStep(r)
  PROVE  RrcInv'
<1>1. CASE \E what : Fail(what)
  BY <1>1, FailKeeps
<1>2. CASE ~ \E what : Fail(what)
  <2>1. Received(r) /\ OnlyTheManager /\ timers' \subseteq timers
        /\ \/ ToConnectedNormally(r)
           \/ ueMap[r].state = "CONNECTED_NORMALLY" /\ UNCHANGED <<ueMap, srb1Down, timers>>
    <3>1. CASE RecvRrcConnectionSetupCompleted(r)
      BY <1>2, <3>1 DEF RecvRrcConnectionSetupCompleted
    <3>2. CASE RecvRrcConnectionReconfigurationCompleted(r)
      BY <1>2, <3>2 DEF RecvRrcConnectionReconfigurationCompleted
    <3> QED
      BY <3>1, <3>2 DEF EnbStep
  <2>2. EpcInv'
    BY <2>1, EpcInvUnchanged DEF OnlyTheManager, RrcInv
  <2> QED
    BY <2>1, <2>2, ToConnectedKeeps, CompletionKeeps
<1> QED
  BY <1>1, <1>2

LEMMA S1StepKeeps ==
  ASSUME RrcInv, S1Step
  PROVE  RrcInv'
<1>1. RrcShape /\ QueueShape
  BY DEF RrcInv
<1>2. s1Up # << >> => Head(s1Up) \in S1UpMessage /\ Tail(s1Up) \in Seq(S1UpMessage)
  BY <1>1, HeadTailProperties DEF QueueShape
<1>3. s1Down # << >> => Tail(s1Down) \in Seq(SetupRequest)
  BY <1>1, HeadTailProperties DEF QueueShape
<1>4. CASE MmeRecvInitialUeMessage
  <2> DEFINE i == Head(s1Up).imsi
             m == [imsi |-> i, bearers |-> bearersToBeActivated[i], left |-> S1Delay]
  <2>1. /\ s1Up # << >> /\ CreateSession(i) /\ s1Up' = Tail(s1Up) /\ s1Down' = Append(s1Down, m)
        /\ UNCHANGED <<ue, enbVars, lastRnti, s1AppVars, timers, radioVars>>
    BY <1>4 DEF MmeRecvInitialUeMessage
  <2>2. i \in Imsis
    BY <1>2, <2>1 DEF S1UpMessage
  <2>3. EpcInv'
    BY <2>1, <2>2, CreateSessionKeeps DEF RrcInv
  <2>4. m \in SetupRequest
    <3>1. bearersToBeActivated[i] \in Seq(BearersOf(i))
      BY <2>2 DEF RrcInv, EpcInv, BearersCounted
    <3>2. bearersToBeActivated[i] \in Seq(Bearers)
      <4>1. \A n \in 1..Len(bearersToBeActivated[i]) : bearersToBeActivated[i][n] \in Bearers
        BY <2>2, <3>1, BearersOfAreBearers, ElementOfSeq
      <4> QED
        BY <3>1, <4>1, SeqDef, LenProperties
    <3> QED
      BY <2>2, <3>1, <3>2, RrcAssumption DEF SetupRequest, S1DownMessage
  <2> HIDE DEF m
  <2>5. s1Down' \in Seq(SetupRequest) /\ s1Up' \in Seq(S1UpMessage)
    BY <1>1, <1>2, <2>1, <2>4, AppendProperties DEF QueueShape
  <2> QED
    BY <2>1, <2>3, <2>5, LinksKeep DEF radioVars
<1>5. CASE MmeRecvErabReleaseIndication
  <2>1. /\ s1Up # << >> /\ DeleteBearer(Head(s1Up).imsi, Head(s1Up).bearer) /\ s1Up' = Tail(s1Up)
        /\ UNCHANGED <<s1Down, ue, enbVars, lastRnti, s1AppVars, timers, radioVars>>
    BY <1>5 DEF MmeRecvErabReleaseIndication
  <2>2. EpcInv'
    BY <1>2, <2>1, DeleteBearerKeeps DEF RrcInv, S1UpMessage
  <2>3. s1Down' \in Seq(SetupRequest) /\ s1Up' \in Seq(S1UpMessage)
    BY <1>1, <1>2, <2>1 DEF QueueShape
  <2> QED
    BY <2>1, <2>2, <2>3, LinksKeep DEF radioVars
<1>6. CASE RecvInitialContextSetupRequest
  <2> DEFINE i == Head(s1Down).imsi
             bearers == Head(s1Down).bearers
             added == {bearers[n] : n \in DOMAIN bearers}
             r == epcRnti[i]
  <2>1. CASE \E what : Fail(what)
    BY <2>1, FailKeeps
  <2>2. CASE bearers = << >>
    <3>1. /\ s1Down # << >> /\ s1Down' = Tail(s1Down)
          /\ UNCHANGED <<epcVars, ue, enbVars, lastRnti, s1AppVars, timers, radioVars, s1Up>>
      BY <1>6, <2>2 DEF RecvInitialContextSetupRequest
    <3>2. EpcInv' /\ UNCHANGED <<srb0, srb1Down, srb1Up>>
      BY <3>1, EpcInvUnchanged DEF RrcInv, radioVars
    <3>3. s1Down' \in Seq(SetupRequest) /\ s1Up' \in Seq(S1UpMessage)
      BY <1>1, <1>3, <3>1 DEF QueueShape
    <3> QED
      BY <3>1, <3>2, <3>3, LinksKeep
  <2>3. CASE bearers # << >> /\ ~ \E what : Fail(what)
    <3>1. /\ s1Down # << >> /\ HasUeManager(r)
          /\ s1Down' = Tail(s1Down)
          /\ ueMap' = [ueMap EXCEPT ![r] = WithBearers(@, bearers)]
          /\ srb1Down' = IF ueMap[r].state = "CONNECTED_NORMALLY"
                         THEN [srb1Down EXCEPT ![r] =
                                 Append(@, Reconfiguration(ueMap[r].drbs \cup {bearers[1]}, {}))]
                         ELSE srb1Down
          /\ AddTunnels(r, added)
          /\ UNCHANGED <<epcVars, ue, imsiRnti, rntiImsi, lastRnti, epcRnti, timers, srb0,
                         srb1Up, s1Up>>
      BY <1>6, <2>3 DEF RecvInitialContextSetupRequest
    <3>2. EpcInv'
      BY <3>1, EpcInvUnchanged DEF RrcInv
    <3> QED
      BY <2>3, <3>1, <3>2, ContextSetupKeeps
  <2> QED
    BY <2>1, <2>2, <2>3
<1> QED
  BY <1>4, <1>5, <1>6 DEF S1Step

LEMMA Srb0StepKeeps ==
  ASSUME RrcInv, NEW m, OnlySrb0(m)
  PROVE  RrcInv'
<1>1. EpcInv' /\ srb0' \subseteq srb0 /\ timers' \subseteq timers
  BY EpcInvUnchanged DEF RrcInv, OnlySrb0
<1>2. s1Up' \in Seq(S1UpMessage) /\ s1Down' \in Seq(SetupRequest)
  BY DEF OnlySrb0, s1Vars, RrcInv, QueueShape
<1>3. UNCHANGED <<ue, enbVars, lastRnti, s1AppVars, srb1Down, srb1Up>>
  BY DEF OnlySrb0
<1> QED
  BY <1>1, <1>2, <1>3, LinksKeep

LEMMA NextRrcInv ==
  RrcInv /\ [RrcNext]_rrcVars => RrcInv'
<1> SUFFICES ASSUME RrcInv, [RrcNext]_rrcVars PROVE RrcInv'
  OBVIOUS
<1>1. ASSUME Progress PROVE RrcInv'
  <2>1. CASE \E i \in Imsis : UeStep(i)
    BY <2>1, UeStepKeeps
  <2>2. CASE TimerStep
    BY <2>2, TimerStepKeeps
  <2>3. CASE \E r \in Rntis : EnbStep(r)
    BY <2>3, EnbStepKeeps
  <2>4. CASE S1Step
    BY <2>4, S1StepKeeps
  <2>5. CASE \E m \in srb0 : DiscardSrb0(m)
    BY <2>5, Srb0StepKeeps DEF DiscardSrb0
  <2>6. CASE Elapse
    <3>1. EpcInv'
      BY <2>6, EpcInvUnchanged DEF Elapse, RrcInv
    <3> QED
      BY <2>6, <3>1, ElapseKeeps
  <2> QED
    BY <1>1, <2>1, <2>2, <2>3, <2>4, <2>5, <2>6 DEF Progress
<1>2. ASSUME NEW i \in Imsis, ActivateEpsBearer(i) \/ Attach(i) \/ LoseRaResponse(i) PROVE RrcInv'
  BY <1>2, ScenarioKeeps
<1>3. ASSUME NEW m \in srb0, LoseSrb0(m) PROVE RrcInv'
  BY <1>3, Srb0StepKeeps DEF LoseSrb0
<1>4. ASSUME NEW i \in Imsis, NEW b \in Bearers, DeActivateDedicatedEpsBearer(i, b) PROVE RrcInv'
  <2>1. EpcInv'
    BY <1>4, EpcInvUnchanged DEF DeActivateDedicatedEpsBearer, RrcInv
  <2> QED
    BY <1>4, <2>1, DeActivateKeeps
<1>5. CASE UNCHANGED rrcVars
  BY <1>5, StutterKeeps DEF rrcVars
<1> QED
  BY <1>1, <1>2, <1>3, <1>4, <1>5 DEF RrcNext

--------------------------------------------------------------------------------
(***************************************************************************)
(* The theorems.                                                           *)
(***************************************************************************)
(* LteEnbRrc, its UeManagers, the S1 application and the UEs stay          *)
(* consistent in every run of RrcConnection, whatever is lost, rejected,   *)
(* retried or released.                                                    *)
THEOREM RrcInvariantHolds ==
  RrcSafeSpec => []RrcInv
<1> QED
  BY InitRrcInv, NextRrcInv, PTL DEF RrcSafeSpec

(* The removal of the earlier attempt in RecvRrcConnectionRequest suffices:*)
(* an IMSI never has two contexts that were admitted.                      *)
THEOREM ContextsAreUnique ==
  RrcSafeSpec => []OneContextPerImsi
<1>1. RrcInv => OneContextPerImsi
  BY OneContextOf DEF OneContextPerImsi, Live
<1> QED
  BY <1>1, RrcInvariantHolds, PTL

(* RemoveUe leaves no entry behind in m_imsiRntiMap and m_rntiImsiMap, and *)
(* takes no entry of another context with it.                              *)
THEOREM IdentityMapsAlwaysAgree ==
  RrcSafeSpec => []IdentityMapsAgree
<1>1. RrcInv => IdentityMapsAgree
  BY DEF RrcInv
<1> QED
  BY <1>1, RrcInvariantHolds, PTL

(* The tunnels of the S1 application lead to the live context of their own *)
(* IMSI after any sequence of setups and releases of contexts.             *)
THEOREM DownlinkAlwaysReachesItsUe ==
  RrcSafeSpec => []DownlinkReachesItsUe
<1>1. RrcInv => DownlinkReachesItsUe
  BY DEF RrcInv
<1> QED
  BY <1>1, RrcInvariantHolds, PTL

(* A UE never has a bearer that RecvFromLteSocket would not find in the    *)
(* map of the context it sends under.                                      *)
THEOREM UplinkAlwaysHasTunnel ==
  RrcSafeSpec => []UplinkHasTunnel
<1>1. RrcInv => UplinkHasTunnel
  BY DEF RrcInv
<1> QED
  BY <1>1, RrcInvariantHolds, PTL

(* The SGW never gives one TEID to two bearers, however often the retry of *)
(* a random access creates the session again.                              *)
THEOREM TeidsStayUnique ==
  RrcSafeSpec => []TeidsAreUnique
<1>1. RrcInv => TeidsAreUnique
  BY DEF RrcInv, EpcInv, TeidsCounted, TeidsAreUnique
<1> QED
  BY <1>1, RrcInvariantHolds, PTL

--------------------------------------------------------------------------------
(***************************************************************************)
(* What the durations decide.  RrcInv says nothing of when a timer expires;*)
(* what follows does.  Each part that needs an order of durations says     *)
(* which one, so that each theorem asks for no more than it needs:         *)
(* InTimeForRequest, InTimeForS1 and InTimeForSetup.                       *)
(***************************************************************************)
InTimeForRequest == RequestTimeout > 0
InTimeForS1 == S1Delay + S1Delay < T300 /\ S1Delay + S1Delay < SetupTimeout
InTimeForSetup == RadioDelay + RadioDelay < SetupTimeout

(* Where a UE is in its random access, and how the NAS counts its bearers. *)
UePhase(i) ==
  /\ ue[i].preamble \/ ue[i].rar # 0 => ue[i].state = "IDLE_RANDOM_ACCESS"
  /\ ue[i].preamble => ue[i].rar = 0
  /\ ue[i].macRnti # 0 => ue[i].state \in WithMacRnti
  /\ ue[i].state = "CONNECTED_NORMALLY" => ue[i].active
  /\ ue[i].active => ue[i].toActivate = 0
  /\ ~ue[i].active => ue[i].toActivate = bearerCounter[i] /\ ue[i].bidCounter = 0
  /\ ue[i].bidCounter <= MaxBearersOfUe

UePhases == \A i \in Imsis : UePhase(i)

(* A timer of a UeManager runs in the state that it guards, and only once. *)
CellTimer(t) ==
  /\ t.kind = "RequestTimeout" => ueMap[t.rnti].state = "INITIAL_RANDOM_ACCESS"
  /\ t.kind = "RejectedTimeout" => ueMap[t.rnti].state = "CONNECTION_REJECTED"
  /\ t.kind = "SetupTimeout" =>
       t.rnti <= lastRnti /\ ueMap[t.rnti].state \in {"NONE", "CONNECTION_SETUP"}

GuardKind == {"RequestTimeout", "RejectedTimeout", "SetupTimeout"}

CellTimersAgree ==
  /\ \A t \in timers : t.kind \in GuardKind => t.rnti \in Rntis /\ CellTimer(t)
  /\ \A s, t \in timers :
       s.kind \in GuardKind \ {"SetupTimeout"} /\ t.kind = s.kind /\ t.rnti = s.rnti => s = t
  /\ \A s, t \in timers :
       s.kind = "T300" /\ t.kind = "Request" /\ s.imsi = t.imsi => s.left >= T300

(* A UE with a response or a request under way has its UeManager, whose    *)
(* timer is not due.                                                       *)
AwaitsRequest(r) ==
  /\ ueMap[r].state = "INITIAL_RANDOM_ACCESS"
  /\ \A t \in timers : t.kind = "RequestTimeout" /\ t.rnti = r => t.left > 0

RequestsInTime ==
  InTimeForRequest =>
    /\ \A i \in Imsis : ue[i].rar # 0 => AwaitsRequest(ue[i].rar)
    /\ \A s \in timers : s.kind = "Request" => AwaitsRequest(s.rnti)

NoBearersYet(m) == m.drbs = {} /\ m.lastDrbid = 0 /\ m.pending = FALSE /\ m.toStart = {}

(* What is on SRB1 in each state of a UeManager.                           *)
SetupPhase(r) ==
  /\ srb1Down[r] = << >>
  /\ srb1Up[r] # << >> => Len(srb1Up[r]) = 1 /\ srb1Up[r][1].msg = "SetupCompleted"
  /\ ue[ueMap[r].imsi].macRnti = r => ue[ueMap[r].imsi].drbs = {}
  /\ ue[ueMap[r].imsi].macRnti = r /\ ue[ueMap[r].imsi].state = "CONNECTED_NORMALLY"
       => srb1Up[r] # << >>

OnlyCompletions(s) == \A n \in DOMAIN s : s[n].msg = "ReconfigurationCompleted"

ManagerPhase(r) ==
  /\ ueMap[r].lastDrbid <= MaxBearersOfUe
  /\ ueMap[r].state = "INITIAL_RANDOM_ACCESS" => NoBearersYet(ueMap[r])
  /\ ueMap[r].state = "CONNECTION_SETUP" => SetupPhase(r)
  /\ ueMap[r].state \in Admitted \ {"CONNECTION_SETUP"} => OnlyCompletions(srb1Up[r])

ManagerPhases == \A r \in Rntis : ManagerPhase(r)

(* The connection setup and its completion arrive before the timer of the  *)
(* UeManager expires.                                                      *)
GuardsSetup(t) ==
  /\ \A m \in srb0 : m.msg = "Setup" /\ m.rnti = t.rnti => t.left > m.left + RadioDelay
  /\ ueMap[t.rnti].state = "CONNECTION_SETUP" /\ srb1Up[t.rnti] # << >>
       => t.left > srb1Up[t.rnti][1].left

SetupInTime ==
  InTimeForSetup =>
    /\ \A t \in timers : t.kind = "SetupTimeout" => GuardsSetup(t)
    /\ \A i \in Imsis : ue[i].state = "CONNECTED_NORMALLY" => HasUeManager(ue[i].macRnti)

(* The MME numbers the bearers of an IMSI from 1, until one is released.   *)
Intact(i) ==
  \A n \in DOMAIN bearersToBeActivated[i] : bearersToBeActivated[i][n] = BearerId(i, n)

Releases(i) == {n \in DOMAIN s1Up : s1Up[n].msg = "ErabRelease" /\ s1Up[n].imsi = i}

ReleasesAreOfConnected ==
  \A i \in Imsis :
    ue[i].state # "CONNECTED_NORMALLY" => Intact(i) /\ Releases(i) = {}

(* The context that the request or the answer of the MME is about, which   *)
(* comes in d ticks: it is the one of the UE, it has no bearer yet, and no *)
(* timer ends it before.                                                   *)
AwaitsSetup(i, d) ==
  LET r == epcRnti[i]
  IN /\ HasUeManager(r) /\ NoBearersYet(ueMap[r]) /\ srb1Down[r] = << >>
     /\ ue[i].state \in WithMacRnti /\ ue[i].macRnti = r /\ ue[i].drbs = {}
     /\ Intact(i) /\ Releases(i) = {}
     /\ \A t \in timers : t.kind = "T300" /\ t.imsi = i => t.left > d
     /\ \A t \in timers : t.kind = "SetupTimeout" /\ t.rnti = r => t.left > d

Requests == {n \in DOMAIN s1Up : s1Up[n].msg = "InitialUeMessage"}

OneSetupOfEach ==
  /\ \A m, n \in Requests : s1Up[m].imsi = s1Up[n].imsi => m = n
  /\ \A m, n \in DOMAIN s1Down : s1Down[m].imsi = s1Down[n].imsi => m = n
  /\ \A m \in Requests, n \in DOMAIN s1Down : s1Up[m].imsi # s1Down[n].imsi

InOrder(m) == \A k \in DOMAIN m.bearers : m.bearers[k] = BearerId(m.imsi, k)

ContextSetupInTime ==
  InTimeForS1 =>
    /\ OneSetupOfEach
    /\ \A n \in Requests : AwaitsSetup(s1Up[n].imsi, s1Up[n].left + S1Delay)
    /\ \A n \in DOMAIN s1Down :
         AwaitsSetup(s1Down[n].imsi, s1Down[n].left) /\ InOrder(s1Down[n])

(* A bearer whose release is on its way to the UE is one it has, and the   *)
(* cell has forgotten it.                                                  *)
ReleasesAreKnown(i) ==
  LET q == srb1Down[ue[i].macRnti]
  IN /\ \A n \in DOMAIN q : /\ q[n].release \subseteq ue[i].drbs
                            /\ q[n].release \cap ueMap[ue[i].macRnti].drbs = {}
     /\ \A m, n \in DOMAIN q : m # n => q[m].release \cap q[n].release = {}

ReleasesInTime ==
  InTimeForS1 => \A i \in Imsis : ue[i].macRnti # 0 => ReleasesAreKnown(i)

(* Bearers with a logical channel above those of SRB1 and SRB2.            *)
WithLcid == {b \in Bearers : Lcid(b) > 2}

LcidsFit ==
  MaxBearers < MaxBearersOfUe =>
    /\ \A i \in Imsis : Active(i) \subseteq WithLcid
    /\ \A n \in DOMAIN s1Down : \A k \in DOMAIN s1Down[n].bearers : s1Down[n].bearers[k] \in WithLcid
    /\ \A r \in Rntis : ueMap[r].drbs \subseteq WithLcid
    /\ \A r \in Rntis : \A n \in DOMAIN srb1Down[r] : srb1Down[r][n].add \subseteq WithLcid

DurationInv ==
  /\ UePhases /\ CellTimersAgree /\ RequestsInTime /\ ManagerPhases /\ SetupInTime
  /\ ReleasesAreOfConnected /\ ContextSetupInTime /\ ReleasesInTime /\ LcidsFit

(* Nothing runs and nothing is under way at first.                         *)
LEMMA InitDurationInv ==
  RrcInit => DurationInv
<1> SUFFICES ASSUME RrcInit PROVE DurationInv
  OBVIOUS
<1> USE DEF RrcInit
<1>1. UePhases
  <2>1. ASSUME NEW i \in Imsis PROVE UePhase(i)
    <3>1. /\ ue[i].state = "IDLE_START" /\ ue[i].preamble = FALSE /\ ue[i].rar = 0
          /\ ue[i].macRnti = 0 /\ ue[i].active = FALSE /\ ue[i].toActivate = 0
          /\ ue[i].bidCounter = 0 /\ bearerCounter[i] = 0
      BY DEF EpcInit
    <3> QED
      BY <3>1 DEF UePhase, MaxBearersOfUe
  <2> QED
    BY <2>1 DEF UePhases
<1>2. CellTimersAgree /\ RequestsInTime
  BY DEF CellTimersAgree, RequestsInTime
<1>3. ManagerPhases
  BY DEF ManagerPhases, ManagerPhase, NoManager, Admitted, MaxBearersOfUe
<1>4. SetupInTime
  BY DEF SetupInTime
<1>5. ReleasesAreOfConnected
  BY DEF ReleasesAreOfConnected, Intact, Releases, EpcInit
<1>6. ContextSetupInTime
  BY DEF ContextSetupInTime, OneSetupOfEach, Requests
<1>7. ReleasesInTime
  BY DEF ReleasesInTime
<1>8. LcidsFit
  BY DEF LcidsFit, Active, EpcInit, NoManager
<1> QED
  BY <1>1, <1>2, <1>3, <1>4, <1>5, <1>6, <1>7, <1>8 DEF DurationInv

--------------------------------------------------------------------------------
(* What a setup under way says of the context that awaits it.              *)
LEMMA AwaitingContext ==
  ASSUME RrcInv, NEW i \in Imsis, NEW d, AwaitsSetup(i, d)
  PROVE  /\ epcRnti[i] \in Rntis /\ epcRnti[i] # 0 /\ i # 0
         /\ ueMap[epcRnti[i]].imsi = i /\ ueMap[epcRnti[i]].state \in Admitted
<1>1. HasUeManager(epcRnti[i])
  BY DEF AwaitsSetup
<1>2. epcRnti[i] \in Rntis /\ epcRnti[i] # 0 /\ i # 0
  BY <1>1, ImsiIsNat DEF HasUeManager, Rntis
<1>3. ueMap[epcRnti[i]].imsi = i
  BY <1>1, <1>2 DEF RrcInv, EpcRntiAgrees
<1> QED
  BY <1>2, <1>3 DEF RrcInv, ManagersAgree, ManagerAgrees

(* A step that leaves the links to the MME alone, and what awaits them.    *)
LEMMA SetupsUnderWayKeep ==
  ASSUME RrcInv, ContextSetupInTime, s1Up' = s1Up, s1Down' = s1Down,
         InTimeForS1 => \A j \in Imsis : \A d \in Nat : AwaitsSetup(j, d) => AwaitsSetup(j, d)'
  PROVE  ContextSetupInTime'
<1> SUFFICES ASSUME InTimeForS1 PROVE ContextSetupInTime'
  BY DEF ContextSetupInTime, InTimeForS1
<1>1. \A j \in Imsis : \A d \in Nat : AwaitsSetup(j, d) => AwaitsSetup(j, d)'
  OBVIOUS
<1>2. OneSetupOfEach'
  BY DEF ContextSetupInTime, OneSetupOfEach, Requests
<1>3. ASSUME NEW n \in DOMAIN s1Up
      PROVE  s1Up[n].imsi \in Imsis /\ s1Up[n].left + S1Delay \in Nat
  <2>1. s1Up[n] \in S1UpMessage
    BY ElementOfSeq, LenProperties DEF RrcInv, QueueShape
  <2> QED
    BY <2>1, RrcAssumption DEF S1UpMessage
<1>4. ASSUME NEW n \in DOMAIN s1Down
      PROVE  s1Down[n].imsi \in Imsis /\ s1Down[n].left \in Nat
  <2>1. s1Down[n] \in SetupRequest
    BY ElementOfSeq, LenProperties DEF RrcInv, QueueShape
  <2> QED
    BY <2>1 DEF SetupRequest, S1DownMessage
<1>5. ASSUME NEW n \in Requests'
      PROVE  AwaitsSetup(s1Up[n].imsi, s1Up[n].left + S1Delay)'
  <2>1. n \in Requests /\ n \in DOMAIN s1Up
    BY DEF Requests
  <2>2. AwaitsSetup(s1Up[n].imsi, s1Up[n].left + S1Delay)
    BY <2>1 DEF ContextSetupInTime
  <2>3. PICK j \in Imsis : j = s1Up[n].imsi
    BY <1>3, <2>1
  <2>4. PICK d \in Nat : d = s1Up[n].left + S1Delay
    BY <1>3, <2>1
  <2>5. AwaitsSetup(j, d)'
    BY <1>1, <2>2, <2>3, <2>4
  <2>6. j' = s1Up'[n].imsi /\ d' = s1Up'[n].left + S1Delay
    BY <2>3, <2>4
  <2> QED
    BY <2>3, <2>4, <2>5 DEF AwaitsSetup
<1>6. ASSUME NEW n \in DOMAIN s1Down
      PROVE  AwaitsSetup(s1Down[n].imsi, s1Down[n].left)'
  <2>1. AwaitsSetup(s1Down[n].imsi, s1Down[n].left)
    BY DEF ContextSetupInTime
  <2>2. PICK j \in Imsis : j = s1Down[n].imsi
    BY <1>4
  <2>3. PICK d \in Nat : d = s1Down[n].left
    BY <1>4
  <2>4. AwaitsSetup(j, d)'
    BY <1>1, <2>1, <2>2, <2>3
  <2> QED
    BY <2>2, <2>3, <2>4 DEF AwaitsSetup
<1>7. \A n \in DOMAIN s1Down : InOrder(s1Down[n])
  BY DEF ContextSetupInTime
<1> QED
  BY <1>2, <1>5, <1>6, <1>7 DEF ContextSetupInTime

--------------------------------------------------------------------------------
(* The steps of a UE that leave its connection alone.                      *)
LEMMA QuietUeInTime ==
  ASSUME RrcInv, DurationInv, NEW i \in Imsis, NEW u \in AnyUe,
         ue' = [ue EXCEPT ![i] = u],
         u.macRnti = ue[i].macRnti, u.drbs = ue[i].drbs,
         u.active = ue[i].active, u.toActivate = ue[i].toActivate, u.bidCounter = ue[i].bidCounter,
         u.rar \in {0, ue[i].rar},
         u.preamble \/ u.rar # 0 => u.state = "IDLE_RANDOM_ACCESS",
         u.preamble => u.rar = 0,
         u.state = ue[i].state \/ (u.state \notin WithMacRnti /\ ue[i].state \notin WithMacRnti),
         timers' \subseteq timers,
         UNCHANGED <<epcVars, enbVars, lastRnti, s1AppVars, radioVars, s1Vars>>
  PROVE  DurationInv'
<1>1. UNCHANGED <<bearerCounter, bearersToBeActivated, ueMap, lastRnti, epcRnti,
                  srb0, srb1Down, srb1Up, s1Up, s1Down>>
  BY DEF epcVars, enbVars, s1AppVars, radioVars, s1Vars
<1>2. ue \in [Imsis -> AnyUe]
  BY DEF RrcInv, RrcShape
<1>3. \A j \in Imsis :
        /\ ue'[j].macRnti = ue[j].macRnti
        /\ ue'[j].drbs = ue[j].drbs
        /\ ue'[j].rar = ue[j].rar \/ ue'[j].rar = 0
        /\ ue'[j].state = ue[j].state
           \/ (ue'[j].state \notin WithMacRnti /\ ue[j].state \notin WithMacRnti)
  BY <1>2
<1>4. UePhases'
  <2>1. ASSUME NEW j \in Imsis PROVE UePhase(j)'
    <3>1. UePhase(j)
      BY DEF DurationInv, UePhases
    <3>2. CASE j = i
      <4>1. ue'[j] = u
        BY <1>2, <3>2
      <4> QED
        BY <1>1, <3>1, <3>2, <4>1 DEF UePhase, WithMacRnti
    <3>3. CASE j # i
      <4>1. ue'[j] = ue[j]
        BY <1>2, <3>3
      <4> QED
        BY <1>1, <3>1, <4>1 DEF UePhase
    <3> QED
      BY <3>2, <3>3
  <2> QED
    BY <2>1 DEF UePhases
<1>5. CellTimersAgree'
  BY <1>1 DEF DurationInv, CellTimersAgree, CellTimer
<1>6. RequestsInTime'
  BY <1>1, <1>3 DEF DurationInv, RequestsInTime, AwaitsRequest, InTimeForRequest
<1>7. \A r \in Rntis : ueMap[r].imsi # 0 => ueMap[r].imsi \in Imsis
  BY DEF RrcInv, RrcShape, AnyManager
<1>8. ManagerPhases'
  <2>1. ASSUME NEW r \in Rntis PROVE ManagerPhase(r)'
    <3>1. ManagerPhase(r) /\ ManagerAgrees(r)
      BY DEF DurationInv, ManagerPhases, RrcInv, ManagersAgree
    <3>2. SetupPhase(r) /\ ueMap[r].state = "CONNECTION_SETUP" => SetupPhase(r)'
      BY <1>1, <1>3, <1>7, <3>1 DEF SetupPhase, ManagerAgrees, Admitted, WithMacRnti
    <3> QED
      BY <1>1, <3>1, <3>2 DEF ManagerPhase, NoBearersYet, OnlyCompletions
  <2> QED
    BY <2>1 DEF ManagerPhases
<1>9. SetupInTime'
  BY <1>1, <1>3 DEF DurationInv, SetupInTime, GuardsSetup, InTimeForSetup, HasUeManager, WithMacRnti
<1>10. ReleasesAreOfConnected'
  BY <1>1, <1>3 DEF DurationInv, ReleasesAreOfConnected, Intact, Releases, WithMacRnti
<1>11. ContextSetupInTime'
  <2>1. ASSUME NEW j \in Imsis, NEW d \in Nat, AwaitsSetup(j, d) PROVE AwaitsSetup(j, d)'
    BY <1>1, <1>3, <2>1 DEF AwaitsSetup, HasUeManager, NoBearersYet, Intact, Releases
  <2> QED
    BY <1>1, <2>1, SetupsUnderWayKeep DEF DurationInv
<1>12. ReleasesInTime'
  <2>1. ASSUME NEW j \in Imsis, ReleasesAreKnown(j) PROVE ReleasesAreKnown(j)'
    <3>1. ue'[j].macRnti = ue[j].macRnti /\ ue'[j].drbs = ue[j].drbs
      BY <1>3
    <3> QED
      BY <1>1, <2>1, <3>1 DEF ReleasesAreKnown
  <2> QED
    BY <1>3, <2>1 DEF DurationInv, ReleasesInTime, InTimeForS1
<1>13. LcidsFit'
  BY <1>1 DEF DurationInv, LcidsFit, Active
<1> QED
  BY <1>4, <1>5, <1>6, <1>8, <1>9, <1>10, <1>11, <1>12, <1>13 DEF DurationInv

(* A UE that is not connected gives up, and no setup is under way for it.  *)
LEMMA GiveUpInTime ==
  ASSUME RrcInv, DurationInv, NEW i \in Imsis, NEW rest,
         GiveUp(i, ue[i], rest),
         ue[i].state \in WithMacRnti \ {"CONNECTED_NORMALLY"},
         rest \subseteq timers,
         srb0' \subseteq srb0,
         InTimeForS1 => \A d \in Nat : ~AwaitsSetup(i, d),
         UNCHANGED <<epcVars, enbVars, lastRnti, s1AppVars, srb1Down, srb1Up, s1Vars>>
  PROVE  DurationInv'
<1>1. UNCHANGED <<bearerCounter, bearersToBeActivated, ueMap, lastRnti, epcRnti,
                  srb1Down, srb1Up, s1Up, s1Down>>
  BY DEF epcVars, enbVars, s1AppVars, s1Vars
<1>2. ue \in [Imsis -> AnyUe] /\ ue[i] \in AnyUe
  BY DEF RrcInv, RrcShape
<1> DEFINE v == [ue[i] EXCEPT !.macRnti = 0, !.hasReceivedSib2 = FALSE]
           u == Camped(v)
           e == Event("Connect", 0, i, 0)
<1>3. ue' = [ue EXCEPT ![i] = u] /\ timers' = rest \cup {e}
  BY DEF GiveUp
<1>4. /\ u.macRnti = 0 /\ u.rar = ue[i].rar /\ u.drbs = ue[i].drbs /\ u.preamble = ue[i].preamble
      /\ u.active = ue[i].active /\ u.toActivate = ue[i].toActivate /\ u.bidCounter = ue[i].bidCounter
      /\ u.state \notin WithMacRnti
  <2>1. v \in AnyUe /\ v.hasReceivedSib2 = FALSE
    BY <1>2 DEF AnyUe
  <2>2. u = [v EXCEPT !.state = "IDLE_WAIT_SIB2"] \/ u = [v EXCEPT !.state = "IDLE_CAMPED_NORMALLY"]
    BY <2>1 DEF Camped, WaitingForSib2
  <2> QED
    BY <1>2, <2>2 DEF AnyUe, WithMacRnti
<1>5. e.kind = "Connect"
  BY DEF Event
<1> HIDE DEF u, v, e
<1>6. ue'[i] = u /\ \A j \in Imsis : j # i => ue'[j] = ue[j]
  BY <1>2, <1>3
<1>7. UePhases'
  <2>1. ASSUME NEW j \in Imsis PROVE UePhase(j)'
    <3>1. UePhase(j)
      BY DEF DurationInv, UePhases
    <3>2. CASE j = i
      BY <1>1, <1>4, <1>6, <3>1, <3>2 DEF UePhase, WithMacRnti
    <3>3. CASE j # i
      BY <1>1, <1>6, <3>1, <3>3 DEF UePhase
    <3> QED
      BY <3>2, <3>3
  <2> QED
    BY <2>1 DEF UePhases
<1>8. \A t \in timers' : t.kind # "Connect" => t \in timers
  BY <1>3, <1>5
<1>9. CellTimersAgree'
  BY <1>1, <1>8 DEF DurationInv, CellTimersAgree, CellTimer, GuardKind
<1>10. RequestsInTime'
  BY <1>1, <1>4, <1>6, <1>8 DEF DurationInv, RequestsInTime, AwaitsRequest, InTimeForRequest
<1>11. ManagerPhases'
  <2>1. ASSUME NEW r \in Rntis PROVE ManagerPhase(r)'
    <3>1. ManagerPhase(r) /\ ManagerAgrees(r)
      BY DEF DurationInv, ManagerPhases, RrcInv, ManagersAgree
    <3>2. ueMap[r].imsi # 0 => ueMap[r].imsi \in Imsis
      BY DEF RrcInv, RrcShape, AnyManager
    <3>3. r # 0
      BY DEF Rntis
    <3>4. SetupPhase(r) /\ ueMap[r].state = "CONNECTION_SETUP" => SetupPhase(r)'
      BY <1>1, <1>4, <1>6, <3>1, <3>2, <3>3 DEF SetupPhase, ManagerAgrees, Admitted
    <3> QED
      BY <1>1, <3>1, <3>4 DEF ManagerPhase, NoBearersYet, OnlyCompletions
  <2> QED
    BY <2>1 DEF ManagerPhases
<1>12. SetupInTime'
  BY <1>1, <1>4, <1>6, <1>8
     DEF DurationInv, SetupInTime, GuardsSetup, InTimeForSetup, HasUeManager, WithMacRnti
<1>13. ReleasesAreOfConnected'
  BY <1>1, <1>4, <1>6 DEF DurationInv, ReleasesAreOfConnected, Intact, Releases, WithMacRnti
<1>14. ContextSetupInTime'
  <2>1. ASSUME InTimeForS1, NEW j \in Imsis, NEW d \in Nat, AwaitsSetup(j, d) PROVE AwaitsSetup(j, d)'
    <3>1. j # i
      BY <2>1
    <3> QED
      BY <1>1, <1>6, <1>8, <2>1, <3>1 DEF AwaitsSetup, HasUeManager, NoBearersYet, Intact, Releases
  <2> QED
    BY <1>1, <2>1, SetupsUnderWayKeep DEF DurationInv
<1>15. ReleasesInTime'
  <2>1. ASSUME NEW j \in Imsis, j # i, ReleasesAreKnown(j) PROVE ReleasesAreKnown(j)'
    BY <1>1, <1>6, <2>1 DEF ReleasesAreKnown
  <2> QED
    BY <1>4, <1>6, <2>1 DEF DurationInv, ReleasesInTime, InTimeForS1
<1>16. LcidsFit'
  BY <1>1 DEF DurationInv, LcidsFit, Active
<1> QED
  BY <1>7, <1>9, <1>10, <1>11, <1>12, <1>13, <1>14, <1>15, <1>16 DEF DurationInv

(* A UE on its way to the random access.                                   *)
LEMMA CampedIs ==
  ASSUME NEW u \in AnyUe, u.preamble = FALSE, u.rar = 0,
         NEW w \in {WaitingForSib2(u), Camped(u)}
  PROVE  /\ w \in AnyUe /\ w.state \notin WithMacRnti
         /\ w.macRnti = u.macRnti /\ w.drbs = u.drbs /\ w.rar = 0
         /\ w.active = u.active /\ w.toActivate = u.toActivate /\ w.bidCounter = u.bidCounter
         /\ w.preamble => w.state = "IDLE_RANDOM_ACCESS"
<1>1. \/ w = [u EXCEPT !.state = "IDLE_RANDOM_ACCESS", !.connectionPending = FALSE, !.preamble = TRUE]
      \/ w = [u EXCEPT !.state = "IDLE_WAIT_SIB2"]
      \/ w = [u EXCEPT !.state = "IDLE_CAMPED_NORMALLY"]
  BY DEF Camped, WaitingForSib2
<1> QED
  BY <1>1 DEF AnyUe, UeState, WithMacRnti

(* The steps of a UE before its random access.                             *)
LEMMA CampingInTime ==
  ASSUME RrcInv, DurationInv, NEW i \in Imsis, NEW u \in AnyUe,
         OnlyTheUeOf(i, u), timers' \subseteq timers,
         u.macRnti = ue[i].macRnti, u.drbs = ue[i].drbs,
         u.active = ue[i].active, u.toActivate = ue[i].toActivate, u.bidCounter = ue[i].bidCounter,
         u.rar \in {0, ue[i].rar},
         u.preamble \/ u.rar # 0 => u.state = "IDLE_RANDOM_ACCESS",
         u.preamble => u.rar = 0,
         u.state = ue[i].state \/ (u.state \notin WithMacRnti /\ ue[i].state \notin WithMacRnti)
  PROVE  DurationInv'
<1>1. ue' = [ue EXCEPT ![i] = u]
      /\ UNCHANGED <<epcVars, enbVars, lastRnti, s1AppVars, radioVars, s1Vars>>
  BY DEF OnlyTheUeOf
<1> QED
  BY <1>1, QuietUeInTime

(* System information: the UE has no RNTI yet, and starts at most its      *)
(* random access.                                                          *)
LEMMA BeforeRandomAccessInTime ==
  ASSUME RrcInv, DurationInv, NEW i \in Imsis,
         RecvMasterInformationBlock(i) \/ RecvSystemInformation(i)
  PROVE  DurationInv'
<1>1. ue \in [Imsis -> AnyUe] /\ ue[i] \in AnyUe
  BY DEF RrcInv, RrcShape
<1>2. UePhase(i)
  BY DEF DurationInv, UePhases
<1>3. CASE RecvMasterInformationBlock(i)
  <2> DEFINE u == Camped(ue[i])
  <2>1. OnlyTheUeOf(i, u) /\ timers' \subseteq timers /\ ue[i].state = "IDLE_WAIT_MIB"
    BY <1>3 DEF RecvMasterInformationBlock
  <2>2. ue[i].preamble = FALSE /\ ue[i].rar = 0 /\ ue[i].state \notin WithMacRnti
    BY <1>1, <1>2, <2>1 DEF UePhase, AnyUe, WithMacRnti
  <2>3. /\ u \in AnyUe /\ u.state \notin WithMacRnti
        /\ u.macRnti = ue[i].macRnti /\ u.drbs = ue[i].drbs /\ u.rar = 0
        /\ u.active = ue[i].active /\ u.toActivate = ue[i].toActivate
        /\ u.bidCounter = ue[i].bidCounter
        /\ u.preamble => u.state = "IDLE_RANDOM_ACCESS"
    BY <1>1, <2>2, CampedIs
  <2> HIDE DEF u
  <2> QED
    BY <2>1, <2>2, <2>3, CampingInTime
<1>4. CASE RecvSystemInformation(i)
  <2> DEFINE v == [ue[i] EXCEPT !.hasReceivedSib2 = TRUE]
             u == IF v.state = "IDLE_WAIT_SIB2" THEN WaitingForSib2(v) ELSE v
  <2>1. OnlyTheUeOf(i, u) /\ timers' \subseteq timers
    BY <1>4 DEF RecvSystemInformation
  <2>2. /\ v \in AnyUe /\ v.macRnti = ue[i].macRnti /\ v.drbs = ue[i].drbs
        /\ v.rar = ue[i].rar /\ v.preamble = ue[i].preamble /\ v.state = ue[i].state
        /\ v.active = ue[i].active /\ v.toActivate = ue[i].toActivate
        /\ v.bidCounter = ue[i].bidCounter
    BY <1>1 DEF AnyUe
  <2> HIDE DEF v
  <2>3. CASE v.state = "IDLE_WAIT_SIB2"
    <3>1. u = WaitingForSib2(v)
      BY <2>3
    <3>2. v.preamble = FALSE /\ v.rar = 0 /\ ue[i].state \notin WithMacRnti
      BY <1>1, <1>2, <2>2, <2>3 DEF UePhase, AnyUe, WithMacRnti
    <3>3. /\ u \in AnyUe /\ u.state \notin WithMacRnti
          /\ u.macRnti = v.macRnti /\ u.drbs = v.drbs /\ u.rar = 0
          /\ u.active = v.active /\ u.toActivate = v.toActivate /\ u.bidCounter = v.bidCounter
          /\ u.preamble => u.state = "IDLE_RANDOM_ACCESS"
      BY <2>2, <3>1, <3>2, CampedIs
    <3> HIDE DEF u
    <3> QED
      BY <2>1, <2>2, <3>2, <3>3, CampingInTime
  <2>4. CASE v.state # "IDLE_WAIT_SIB2"
    <3>1. u = v
      BY <2>4
    <3>2. (v.preamble \/ v.rar # 0 => v.state = "IDLE_RANDOM_ACCESS") /\ (v.preamble => v.rar = 0)
      BY <1>2, <2>2 DEF UePhase
    <3> HIDE DEF u
    <3> QED
      BY <2>1, <2>2, <3>1, <3>2, CampingInTime
  <2> QED
    BY <2>3, <2>4
<1> QED
  BY <1>3, <1>4

(* The retry of the NAS starts a random access, or nothing.                *)
LEMMA ConnectInTime ==
  ASSUME RrcInv, DurationInv, NEW t \in timers, t.kind = "Connect", Connect(t)
  PROVE  DurationInv'
<1> DEFINE i == t.imsi
           v == [ue[i] EXCEPT !.connectionPending = TRUE]
           u == IF ue[i].state = "IDLE_CAMPED_NORMALLY" THEN WaitingForSib2(v) ELSE ue[i]
<1>1. i \in Imsis /\ ue[i] \in AnyUe
  BY DEF RrcInv, TimersAgree, RrcShape
<1>2. OnlyTheUeOf(i, u) /\ timers' \subseteq timers
  BY DEF Connect
<1>3. UePhase(i)
  BY <1>1 DEF DurationInv, UePhases
<1>4. /\ v \in AnyUe /\ v.macRnti = ue[i].macRnti /\ v.drbs = ue[i].drbs
      /\ v.rar = ue[i].rar /\ v.preamble = ue[i].preamble
      /\ v.active = ue[i].active /\ v.toActivate = ue[i].toActivate
      /\ v.bidCounter = ue[i].bidCounter
  BY <1>1 DEF AnyUe
<1> HIDE DEF v, i
<1>5. CASE ue[i].state = "IDLE_CAMPED_NORMALLY"
  <2>1. u = WaitingForSib2(v)
    BY <1>5
  <2>2. v.preamble = FALSE /\ v.rar = 0 /\ ue[i].state \notin WithMacRnti
    BY <1>1, <1>3, <1>4, <1>5 DEF UePhase, AnyUe, WithMacRnti
  <2>3. /\ u \in AnyUe /\ u.state \notin WithMacRnti
        /\ u.macRnti = v.macRnti /\ u.drbs = v.drbs /\ u.rar = 0
        /\ u.active = v.active /\ u.toActivate = v.toActivate /\ u.bidCounter = v.bidCounter
        /\ u.preamble => u.state = "IDLE_RANDOM_ACCESS"
    BY <1>4, <2>1, <2>2, CampedIs
  <2> HIDE DEF u
  <2> QED
    BY <1>1, <1>2, <1>4, <2>2, <2>3, CampingInTime
<1>6. CASE ue[i].state # "IDLE_CAMPED_NORMALLY"
  <2>1. u = ue[i]
    BY <1>6
  <2>2. (u.preamble \/ u.rar # 0 => u.state = "IDLE_RANDOM_ACCESS") /\ (u.preamble => u.rar = 0)
    BY <1>3, <2>1 DEF UePhase
  <2> HIDE DEF u
  <2> QED
    BY <1>1, <1>2, <2>1, <2>2, CampingInTime
<1> QED
  BY <1>5, <1>6

(* Every bearer the MME gives an IMSI below the bound has a channel of its *)
(* own.                                                                    *)
LEMMA LcidsOfFirst ==
  ASSUME NEW i \in Imsis, NEW k \in 1..MaxBearersOfUe, k < MaxBearersOfUe
  PROVE  BearerId(i, k) \in WithLcid
<1>1. i \in Nat
  BY ImsiIsNat
<1>2. BearerId(i, k) \in Bearers
  BY DEF Bearers, BearersOf
<1>3. (i * 11 + k) % 11 = k
  BY <1>1 DEF MaxBearersOfUe
<1> QED
  BY <1>2, <1>3 DEF WithLcid, Lcid, BearerId, MaxBearersOfUe

(* The MME and the NAS count the same bearers until the NAS is active; a   *)
(* UE that awaits a setup has its RNTI, and what it awaits stays in order. *)
LEMMA ActivateInTime ==
  ASSUME RrcInv, DurationInv, NEW i \in Imsis, ActivateEpsBearer(i)
  PROVE  DurationInv'
<1> DEFINE u == [ue[i] EXCEPT !.toActivate = ue[i].toActivate + 1]
           s == bearersToBeActivated[i]
           b == BearerId(i, bearerCounter'[i])
<1>1. ue \in [Imsis -> AnyUe] /\ ue[i] \in AnyUe
  BY DEF RrcInv, RrcShape
<1>2. /\ ~ue[i].active /\ bearerCounter[i] < MaxBearers /\ AddBearer(i)
      /\ ue' = [ue EXCEPT ![i] = u]
      /\ UNCHANGED <<enbVars, lastRnti, s1AppVars, timers, radioVars, s1Vars>>
  BY <1>1 DEF ActivateEpsBearer
<1>3. UNCHANGED <<ueMap, lastRnti, epcRnti, timers, srb0, srb1Down, srb1Up, s1Up, s1Down>>
  BY <1>2 DEF enbVars, s1AppVars, radioVars, s1Vars
<1>4. /\ s \in Seq(BearersOf(i)) /\ bearerCounter[i] = Len(s) /\ Len(s) \in Nat
      /\ DOMAIN s = 1..Len(s) /\ bearersToBeActivated = [j \in Imsis |-> bearersToBeActivated[j]]
      /\ bearerCounter \in [Imsis -> 0..MaxBearersOfUe]
  BY LenProperties DEF RrcInv, EpcInv, BearersCounted
<1>5. bearerCounter'[i] = Len(s) + 1 /\ \A j \in Imsis : j # i => bearerCounter'[j] = bearerCounter[j]
  BY <1>2, <1>4 DEF AddBearer
<1>6. bearersToBeActivated' = [bearersToBeActivated EXCEPT ![i] = Append(s, b)]
  BY <1>2 DEF AddBearer
<1>7. b = BearerId(i, Len(s) + 1)
  BY <1>5
<1>7a. MaxBearers \in 0..MaxBearersOfUe
  BY RrcAssumption
<1>7b. Len(s) + 1 \in 1..MaxBearersOfUe /\ Len(s) + 1 <= MaxBearers
  BY <1>2, <1>4, <1>7a DEF MaxBearersOfUe
<1>8. b \in BearersOf(i)
  BY <1>7, <1>7b DEF BearersOf
<1>9. \A j \in Imsis : ue'[j].state = ue[j].state /\ ue'[j].macRnti = ue[j].macRnti
                        /\ ue'[j].drbs = ue[j].drbs /\ ue'[j].rar = ue[j].rar
  BY <1>1, <1>2 DEF AnyUe
<1>10. ue'[i] = u /\ \A j \in Imsis : j # i => ue'[j] = ue[j]
  BY <1>1, <1>2
<1>11. /\ u.preamble = ue[i].preamble /\ u.rar = ue[i].rar /\ u.state = ue[i].state
       /\ u.macRnti = ue[i].macRnti /\ u.active = ue[i].active
       /\ u.bidCounter = ue[i].bidCounter /\ u.toActivate = ue[i].toActivate + 1
  BY <1>1 DEF AnyUe
<1> HIDE DEF u, s, b
<1>12. /\ Append(s, b) \in Seq(BearersOf(i)) /\ Len(Append(s, b)) = Len(s) + 1
       /\ DOMAIN Append(s, b) = 1..(Len(s) + 1)
       /\ \A n \in DOMAIN s : Append(s, b)[n] = s[n]
       /\ Append(s, b)[Len(s) + 1] = b
  BY <1>4, <1>8, AppendProperties
<1>13. /\ bearersToBeActivated'[i] = Append(s, b) /\ bearersToBeActivated[i] = s
       /\ \A j \in Imsis : j # i => bearersToBeActivated'[j] = bearersToBeActivated[j]
  BY <1>4, <1>6 DEF s
<1>14. ASSUME NEW j \in Imsis, Intact(j) PROVE Intact(j)'
  <2>1. CASE j = i
    BY <1>4, <1>7, <1>12, <1>13, <1>14, <2>1 DEF Intact
  <2>2. CASE j # i
    BY <1>13, <1>14, <2>2 DEF Intact
  <2> QED
    BY <2>1, <2>2
<1>15. UePhases'
  <2>1. ASSUME NEW j \in Imsis PROVE UePhase(j)'
    <3>1. UePhase(j)
      BY DEF DurationInv, UePhases
    <3>2. CASE j = i
      BY <1>2, <1>4, <1>5, <1>10, <1>11, <3>1, <3>2 DEF UePhase
    <3>3. CASE j # i
      BY <1>5, <1>10, <3>1, <3>3 DEF UePhase
    <3> QED
      BY <3>2, <3>3
  <2> QED
    BY <2>1 DEF UePhases
<1>16. CellTimersAgree'
  BY <1>3 DEF DurationInv, CellTimersAgree, CellTimer
<1>17. RequestsInTime'
  BY <1>3, <1>9 DEF DurationInv, RequestsInTime, AwaitsRequest, InTimeForRequest
<1>18. ManagerPhases'
  <2>1. \A r \in Rntis : ueMap[r].imsi # 0 => ueMap[r].imsi \in Imsis
    BY DEF RrcInv, RrcShape, AnyManager
  <2>2. ASSUME NEW r \in Rntis PROVE ManagerPhase(r)'
    <3>1. ManagerPhase(r) /\ ManagerAgrees(r)
      BY DEF DurationInv, ManagerPhases, RrcInv, ManagersAgree
    <3>2. SetupPhase(r) /\ ueMap[r].state = "CONNECTION_SETUP" => SetupPhase(r)'
      BY <1>3, <1>9, <2>1, <3>1 DEF SetupPhase, ManagerAgrees, Admitted
    <3> QED
      BY <1>3, <3>1, <3>2 DEF ManagerPhase, NoBearersYet, OnlyCompletions
  <2> QED
    BY <2>2 DEF ManagerPhases
<1>19. SetupInTime'
  BY <1>3, <1>9 DEF DurationInv, SetupInTime, GuardsSetup, InTimeForSetup, HasUeManager
<1>20. ReleasesAreOfConnected'
  BY <1>3, <1>9, <1>14 DEF DurationInv, ReleasesAreOfConnected, Releases
<1>21. ContextSetupInTime'
  <2>1. ASSUME NEW j \in Imsis, NEW d \in Nat, AwaitsSetup(j, d) PROVE AwaitsSetup(j, d)'
    BY <1>3, <1>9, <1>14, <2>1 DEF AwaitsSetup, HasUeManager, NoBearersYet, Releases
  <2> QED
    BY <1>3, <2>1, SetupsUnderWayKeep DEF DurationInv
<1>22. ReleasesInTime'
  <2>1. ASSUME NEW j \in Imsis, ReleasesAreKnown(j) PROVE ReleasesAreKnown(j)'
    <3>1. ue'[j].macRnti = ue[j].macRnti /\ ue'[j].drbs = ue[j].drbs
      BY <1>9
    <3> QED
      BY <1>3, <2>1, <3>1 DEF ReleasesAreKnown
  <2> QED
    BY <1>9, <2>1 DEF DurationInv, ReleasesInTime, InTimeForS1
<1>23. LcidsFit'
  <2> SUFFICES ASSUME MaxBearers < MaxBearersOfUe PROVE LcidsFit'
    BY DEF LcidsFit
  <2>1. b \in WithLcid
    <3>1. Len(s) + 1 \in 1..MaxBearersOfUe /\ Len(s) + 1 < MaxBearersOfUe
      BY <1>7a, <1>7b DEF MaxBearersOfUe
    <3> QED
      BY <1>7, <3>1, LcidsOfFirst
  <2>2. ASSUME NEW j \in Imsis PROVE Active(j)' \subseteq WithLcid
    <3>1. Active(j) \subseteq WithLcid
      BY DEF DurationInv, LcidsFit
    <3>2. CASE j = i
      <4>1. ASSUME NEW n \in 1..(Len(s) + 1) PROVE Append(s, b)[n] \in WithLcid
        <5>1. CASE n = Len(s) + 1
          BY <1>12, <2>1, <5>1
        <5>2. CASE n \in DOMAIN s
          BY <1>12, <1>13, <3>1, <3>2, <5>2 DEF Active
        <5> QED
          BY <1>4, <5>1, <5>2
      <4> QED
        BY <1>12, <1>13, <3>2, <4>1 DEF Active
    <3>3. CASE j # i
      BY <1>13, <3>1, <3>3 DEF Active
    <3> QED
      BY <3>2, <3>3
  <2> QED
    BY <1>3, <2>2 DEF DurationInv, LcidsFit
<1> QED
  BY <1>15, <1>16, <1>17, <1>18, <1>19, <1>20, <1>21, <1>22, <1>23 DEF DurationInv

(* What a scenario does to a UE, and the loss of a random access response. *)
LEMMA ScenarioInTime ==
  ASSUME RrcInv, DurationInv, NEW i \in Imsis,
         ActivateEpsBearer(i) \/ Attach(i) \/ LoseRaResponse(i)
  PROVE  DurationInv'
<1>1. ue \in [Imsis -> AnyUe] /\ ue[i] \in AnyUe
  BY DEF RrcInv, RrcShape
<1>2. UePhase(i)
  BY DEF DurationInv, UePhases
<1>3. CASE Attach(i)
  <2> DEFINE u == [ue[i] EXCEPT !.state = "IDLE_WAIT_MIB", !.connectionPending = TRUE]
  <2>1. ue' = [ue EXCEPT ![i] = u] /\ ue[i].state = "IDLE_START" /\ timers' \subseteq timers
        /\ UNCHANGED <<epcVars, enbVars, lastRnti, s1AppVars, radioVars, s1Vars>>
    BY <1>1, <1>3 DEF Attach
  <2>2. /\ u \in AnyUe /\ u.macRnti = ue[i].macRnti /\ u.drbs = ue[i].drbs
        /\ u.rar = ue[i].rar /\ u.preamble = ue[i].preamble /\ u.state = "IDLE_WAIT_MIB"
        /\ u.active = ue[i].active /\ u.toActivate = ue[i].toActivate
        /\ u.bidCounter = ue[i].bidCounter
    BY <1>1 DEF AnyUe, UeState
  <2>3. u.state \notin WithMacRnti /\ ue[i].state \notin WithMacRnti
    BY <2>1, <2>2 DEF WithMacRnti
  <2>4. u.preamble = FALSE /\ u.rar = 0
    BY <1>1, <1>2, <2>1, <2>2 DEF UePhase, AnyUe
  <2> HIDE DEF u
  <2> QED
    BY <2>1, <2>2, <2>3, <2>4, QuietUeInTime
<1>4. CASE LoseRaResponse(i)
  <2> DEFINE u == [ue[i] EXCEPT !.rar = 0]
  <2>1. ue' = [ue EXCEPT ![i] = u] /\ timers' \subseteq timers
        /\ UNCHANGED <<epcVars, enbVars, lastRnti, s1AppVars, radioVars, s1Vars>>
    BY <1>1, <1>4 DEF LoseRaResponse
  <2>2. /\ u \in AnyUe /\ u.macRnti = ue[i].macRnti /\ u.drbs = ue[i].drbs
        /\ u.rar = 0 /\ u.preamble = ue[i].preamble /\ u.state = ue[i].state
        /\ u.active = ue[i].active /\ u.toActivate = ue[i].toActivate
        /\ u.bidCounter = ue[i].bidCounter
    BY <1>1 DEF AnyUe
  <2>3. u.preamble => u.state = "IDLE_RANDOM_ACCESS"
    BY <1>2, <2>2 DEF UePhase
  <2> HIDE DEF u
  <2> QED
    BY <2>1, <2>2, <2>3, QuietUeInTime
<1> QED
  BY <1>3, <1>4, ActivateInTime

(* A UE whose T300 expires awaits no setup: T300 would have had longer to  *)
(* go.                                                                     *)
LEMMA ConnectionTimeoutInTime ==
  ASSUME RrcInv, DurationInv, NEW t \in timers, t.kind = "T300", t.left = 0, ConnectionTimeout(t)
  PROVE  DurationInv'
<1> DEFINE i == t.imsi
           rest == timers \ {t}
<1>1. i \in Imsis /\ ue[i].state \in WithMacRnti \ {"CONNECTED_NORMALLY"}
  BY DEF RrcInv, TimersAgree, WithMacRnti
<1>2. /\ GiveUp(i, ue[i], rest) /\ rest \subseteq timers
      /\ UNCHANGED <<epcVars, enbVars, lastRnti, s1AppVars, radioVars, s1Vars>>
  BY DEF ConnectionTimeout
<1>3. \A d \in Nat : ~AwaitsSetup(i, d)
  BY DEF AwaitsSetup
<1>4. srb0' \subseteq srb0 /\ UNCHANGED <<srb1Down, srb1Up>>
  BY <1>2 DEF radioVars
<1> HIDE DEF i, rest
<1> QED
  BY <1>1, <1>2, <1>3, <1>4, GiveUpInTime

(* A UE that is rejected awaits no setup: the context it asked for is not  *)
(* admitted.                                                               *)
LEMMA RejectedInTime ==
  ASSUME RrcInv, DurationInv, NEW i \in Imsis, RecvRrcConnectionReject(i)
  PROVE  DurationInv'
<1> DEFINE rest == timers \ OfImsi("T300", i)
<1>1. PICK m \in srb0 :
        /\ m.msg = "Reject" /\ m.rnti = ue[i].macRnti
        /\ GiveUp(i, ue[i], rest)
        /\ srb0' = srb0 \ {m}
        /\ UNCHANGED <<epcVars, enbVars, lastRnti, s1AppVars, srb1Down, srb1Up, s1Vars>>
  BY DEF RecvRrcConnectionReject
<1>2. m.rnti \in Rntis /\ ueMap[m.rnti].state = "CONNECTION_REJECTED"
  BY <1>1 DEF RrcInv, QueueShape, Srb0Message, Srb0Agrees
<1>3. ueMap[m.rnti].imsi = 0 /\ HasUeManager(m.rnti) /\ m.rnti # 0
  BY <1>2 DEF RrcInv, ManagersAgree, ManagerAgrees, Admitted, HasUeManager, Rntis
<1>4. ue[i].state # "CONNECTED_NORMALLY"
  BY <1>1, <1>3, ImsiIsNat DEF RrcInv, UesAgree
<1>5. ue[i].state \in WithMacRnti \ {"CONNECTED_NORMALLY"}
  BY <1>1, <1>3, <1>4 DEF DurationInv, UePhases, UePhase
<1>6. ASSUME NEW d \in Nat, AwaitsSetup(i, d) PROVE FALSE
  <2>1. ueMap[epcRnti[i]].state \in Admitted
    BY <1>6, AwaitingContext
  <2>2. epcRnti[i] = m.rnti
    BY <1>1, <1>6 DEF AwaitsSetup
  <2> QED
    BY <1>2, <2>1, <2>2 DEF Admitted
<1>7. rest \subseteq timers /\ srb0' \subseteq srb0
  BY <1>1
<1> HIDE DEF rest
<1> QED
  BY <1>1, <1>5, <1>6, <1>7, GiveUpInTime

--------------------------------------------------------------------------------
(* Random access.                                                          *)
LEMMA AllocateInTime ==
  ASSUME RrcInv, DurationInv, NEW i \in Imsis, AllocateTemporaryCellRnti(i)
  PROVE  DurationInv'
<1>0. PICK r \in Rntis : r = lastRnti + 1
  <2>1. lastRnti \in Rntis \cup {0} /\ lastRnti < MaxRnti
    BY DEF RrcInv, RrcShape, AllocateTemporaryCellRnti
  <2>2. MaxRnti \in Nat
    BY RrcAssumption
  <2> QED
    BY <2>1, <2>2 DEF Rntis
<1> DEFINE u == [ue[i] EXCEPT !.preamble = FALSE, !.rar = r]
           m == [NoManager EXCEPT !.state = "INITIAL_RANDOM_ACCESS"]
           e == Event("RequestTimeout", r, 0, RequestTimeout)
<1>1. ue \in [Imsis -> AnyUe] /\ ue[i] \in AnyUe /\ ueMap \in [Rntis -> AnyManager]
      /\ lastRnti \in Rntis \cup {0}
  BY DEF RrcInv, RrcShape
<1>2. /\ ue[i].preamble /\ lastRnti < MaxRnti /\ lastRnti' = r
      /\ ueMap' = [ueMap EXCEPT ![r] = m]
      /\ ue' = [ue EXCEPT ![i].preamble = FALSE, ![i].rar = r]
      /\ timers' = timers \cup {e}
      /\ UNCHANGED <<epcVars, imsiRnti, rntiImsi, s1AppVars, radioVars, s1Vars>>
  BY <1>0 DEF AllocateTemporaryCellRnti
<1>3. UNCHANGED <<bearerCounter, bearersToBeActivated, epcRnti, srb0, srb1Down, srb1Up, s1Up, s1Down>>
  BY <1>2 DEF epcVars, s1AppVars, radioVars, s1Vars
<1>4. lastRnti \in Nat /\ r \in Nat
  BY <1>0, <1>1 DEF Rntis
<1>5. r \in Rntis /\ r # 0 /\ r > lastRnti
  BY <1>0, <1>4
<1>6. /\ u.preamble = FALSE /\ u.rar = r /\ u.state = ue[i].state /\ u.macRnti = ue[i].macRnti
      /\ u.drbs = ue[i].drbs /\ u.active = ue[i].active /\ u.toActivate = ue[i].toActivate
      /\ u.bidCounter = ue[i].bidCounter
  BY <1>1, <1>5 DEF AnyUe
<1>7. ue'[i] = u /\ \A j \in Imsis : j # i => ue'[j] = ue[j]
  BY <1>1, <1>2
<1>8. m.state = "INITIAL_RANDOM_ACCESS" /\ m.drbs = {} /\ m.lastDrbid = 0 /\ m.pending = FALSE
      /\ m.toStart = {} /\ m.imsi = 0
  BY DEF NoManager
<1>9. ueMap'[r] = m /\ \A q \in Rntis : q # r => ueMap'[q] = ueMap[q]
  BY <1>1, <1>2, <1>5
<1>10. e.kind = "RequestTimeout" /\ e.rnti = r /\ e.left = RequestTimeout
  BY DEF Event
<1>11. ueMap[r].state = "NONE" /\ ueMap[r] = NoManager /\ srb1Down[r] = << >> /\ srb1Up[r] = << >>
  BY <1>5 DEF RrcInv, ManagersAgree, ManagerAgrees, Admitted
<1> HIDE DEF u, m, e
<1>12. \A j \in Imsis : ue'[j].state = ue[j].state /\ ue'[j].macRnti = ue[j].macRnti
                         /\ ue'[j].drbs = ue[j].drbs
  BY <1>6, <1>7
<1>13. \A t \in timers' : t # e => t \in timers
  BY <1>2
<1>14. ASSUME NEW t \in timers, t.rnti = r PROVE t.kind \notin GuardKind
  <2>1. t.kind \in GuardKind => CellTimer(t)
    BY DEF DurationInv, CellTimersAgree
  <2> QED
    BY <1>4, <1>5, <1>11, <1>14, <2>1 DEF CellTimer, GuardKind
<1>15. UePhases'
  <2>1. ue[i].state = "IDLE_RANDOM_ACCESS"
    BY <1>2 DEF DurationInv, UePhases, UePhase
  <2>2. ASSUME NEW j \in Imsis PROVE UePhase(j)'
    <3>1. UePhase(j)
      BY DEF DurationInv, UePhases
    <3>2. CASE j = i
      BY <1>3, <1>6, <1>7, <2>1, <3>1, <3>2 DEF UePhase
    <3>3. CASE j # i
      BY <1>3, <1>7, <3>1, <3>3 DEF UePhase
    <3> QED
      BY <3>2, <3>3
  <2> QED
    BY <2>2 DEF UePhases
<1>16. CellTimersAgree'
  <2>1. ASSUME NEW t \in timers', t.kind \in GuardKind PROVE t.rnti \in Rntis /\ CellTimer(t)'
    <3>1. CASE t = e
      BY <1>5, <1>8, <1>9, <1>10, <3>1 DEF CellTimer
    <3>2. CASE t # e
      <4>1. t \in timers /\ t.rnti \in Rntis /\ CellTimer(t) /\ t.rnti # r
        BY <1>13, <1>14, <2>1, <3>2 DEF DurationInv, CellTimersAgree
      <4>2. t.rnti \in Nat /\ lastRnti' = lastRnti + 1
        BY <1>0, <1>2, <4>1 DEF Rntis
      <4> QED
        BY <1>4, <1>9, <4>1, <4>2 DEF CellTimer
    <3> QED
      BY <3>1, <3>2
  <2>2. ASSUME NEW s \in timers', NEW t \in timers',
               s.kind \in GuardKind \ {"SetupTimeout"}, t.kind = s.kind, t.rnti = s.rnti
        PROVE  s = t
    BY <1>10, <1>13, <1>14, <2>2 DEF DurationInv, CellTimersAgree
  <2>3. ASSUME NEW s \in timers', NEW t \in timers',
               s.kind = "T300", t.kind = "Request", s.imsi = t.imsi
        PROVE  s.left >= T300
    BY <1>10, <1>13, <2>3 DEF DurationInv, CellTimersAgree
  <2> QED
    BY <2>1, <2>2, <2>3 DEF CellTimersAgree
<1>17. RequestsInTime'
  <2> SUFFICES ASSUME InTimeForRequest PROVE RequestsInTime'
    BY DEF RequestsInTime, InTimeForRequest
  <2>1. AwaitsRequest(r)'
    BY <1>8, <1>9, <1>10, <1>13, <1>14 DEF AwaitsRequest, InTimeForRequest, GuardKind
  <2>2. ASSUME NEW q \in Rntis, AwaitsRequest(q) PROVE AwaitsRequest(q)'
    <3>1. q # r
      BY <1>11, <2>2 DEF AwaitsRequest
    <3> QED
      BY <1>9, <1>10, <1>13, <2>2, <3>1 DEF AwaitsRequest
  <2>3. \A j \in Imsis : ue'[j].rar # 0 => AwaitsRequest(ue[j].rar)'
    <3>1. ASSUME NEW j \in Imsis, ue'[j].rar # 0 PROVE AwaitsRequest(ue[j].rar)'
      <4>1. CASE j = i
        <5>1. ue'[j].rar = r
          BY <1>6, <1>7, <4>1
        <5> QED
          BY <2>1, <5>1 DEF AwaitsRequest
      <4>2. CASE j # i
        <5>1. ue'[j] = ue[j] /\ ue[j].rar \in Rntis
          BY <1>1, <1>7, <3>1, <4>2 DEF AnyUe
        <5>2. AwaitsRequest(ue[j].rar)
          BY <3>1, <5>1 DEF DurationInv, RequestsInTime
        <5>3. PICK q \in Rntis : q = ue[j].rar
          BY <5>1
        <5> QED
          BY <2>2, <5>1, <5>2, <5>3 DEF AwaitsRequest
      <4> QED
        BY <4>1, <4>2
    <3> QED
      BY <3>1
  <2>4. \A s \in timers' : s.kind = "Request" => AwaitsRequest(s.rnti)'
    <3>1. ASSUME NEW s \in timers', s.kind = "Request" PROVE AwaitsRequest(s.rnti)'
      <4>1. s \in timers /\ s.rnti \in Rntis
        BY <1>10, <1>13, <3>1 DEF RrcInv, TimersAgree
      <4> QED
        BY <2>2, <3>1, <4>1 DEF DurationInv, RequestsInTime
    <3> QED
      BY <3>1
  <2> QED
    BY <2>3, <2>4 DEF RequestsInTime
<1>18. ManagerPhases'
  <2>1. ASSUME NEW q \in Rntis PROVE ManagerPhase(q)'
    <3>1. ManagerPhase(q) /\ ManagerAgrees(q)
      BY DEF DurationInv, ManagerPhases, RrcInv, ManagersAgree
    <3>2. CASE q = r
      BY <1>8, <1>9, <3>2 DEF ManagerPhase, NoBearersYet, Admitted, MaxBearersOfUe
    <3>3. CASE q # r
      <4>1. ueMap'[q] = ueMap[q]
        BY <1>9, <3>3
      <4>2. ueMap[q].imsi # 0 => ueMap[q].imsi \in Imsis
        BY <1>1 DEF AnyManager
      <4>3. SetupPhase(q) /\ ueMap[q].state = "CONNECTION_SETUP" => SetupPhase(q)'
        BY <1>3, <1>12, <3>1, <4>1, <4>2 DEF SetupPhase, ManagerAgrees, Admitted
      <4> QED
        BY <1>3, <3>1, <4>1, <4>3 DEF ManagerPhase, NoBearersYet, OnlyCompletions
    <3> QED
      BY <3>2, <3>3
  <2> QED
    BY <2>1 DEF ManagerPhases
<1>19. SetupInTime'
  <2> SUFFICES ASSUME InTimeForSetup PROVE SetupInTime'
    BY DEF SetupInTime, InTimeForSetup
  <2>1. ASSUME NEW t \in timers', t.kind = "SetupTimeout" PROVE GuardsSetup(t)'
    <3>1. t \in timers /\ t.rnti \in Rntis /\ GuardsSetup(t) /\ t.rnti # r
      BY <1>10, <1>13, <1>14, <2>1 DEF DurationInv, SetupInTime, CellTimersAgree, GuardKind
    <3> QED
      BY <1>3, <1>9, <3>1 DEF GuardsSetup
  <2>2. ASSUME NEW j \in Imsis, ue'[j].state = "CONNECTED_NORMALLY"
        PROVE  HasUeManager(ue[j].macRnti)'
    <3>1. HasUeManager(ue[j].macRnti)
      BY <1>12, <2>2 DEF DurationInv, SetupInTime
    <3> QED
      BY <1>9, <1>11, <1>12, <3>1 DEF HasUeManager
  <2> QED
    BY <2>1, <2>2 DEF SetupInTime
<1>20. ReleasesAreOfConnected'
  BY <1>3, <1>12 DEF DurationInv, ReleasesAreOfConnected, Intact, Releases
<1>21. ContextSetupInTime'
  <2>1. ASSUME NEW j \in Imsis, NEW d \in Nat, AwaitsSetup(j, d) PROVE AwaitsSetup(j, d)'
    <3>1. epcRnti[j] \in Rntis /\ epcRnti[j] # r
      BY <1>11, <2>1 DEF AwaitsSetup, HasUeManager
    <3>2. ueMap'[epcRnti[j]] = ueMap[epcRnti[j]]
      BY <1>9, <3>1
    <3> QED
      BY <1>3, <1>10, <1>12, <1>13, <2>1, <3>1, <3>2
         DEF AwaitsSetup, HasUeManager, NoBearersYet, Intact, Releases
  <2> QED
    BY <1>3, <2>1, SetupsUnderWayKeep DEF DurationInv
<1>22. ReleasesInTime'
  <2>1. ASSUME NEW j \in Imsis, ue[j].macRnti # 0, ReleasesAreKnown(j) PROVE ReleasesAreKnown(j)'
    <3>1. ue'[j].macRnti = ue[j].macRnti /\ ue'[j].drbs = ue[j].drbs /\ ue[j].macRnti \in Rntis
      BY <1>1, <1>12, <2>1 DEF AnyUe
    <3>2. CASE ue[j].macRnti = r
      <4>1. DOMAIN srb1Down'[r] = {}
        BY <1>3, <1>11
      <4> QED
        BY <3>1, <3>2, <4>1 DEF ReleasesAreKnown
    <3>3. CASE ue[j].macRnti # r
      <4>1. ueMap'[ue[j].macRnti] = ueMap[ue[j].macRnti]
        BY <1>9, <3>1, <3>3
      <4> QED
        BY <1>3, <2>1, <3>1, <4>1 DEF ReleasesAreKnown
    <3> QED
      BY <3>2, <3>3
  <2> QED
    BY <1>12, <2>1 DEF DurationInv, ReleasesInTime, InTimeForS1
<1>23. LcidsFit'
  BY <1>3, <1>8, <1>9 DEF DurationInv, LcidsFit, Active
<1> QED
  BY <1>15, <1>16, <1>17, <1>18, <1>19, <1>20, <1>21, <1>22, <1>23 DEF DurationInv

(* The UE takes the RNTI of a UeManager that waits for its request, and    *)
(* starts T300 with it.                                                    *)
LEMMA RaResponseInTime ==
  ASSUME RrcInv, DurationInv, NEW i \in Imsis, RecvRaResponse(i),
         ue[i].rar # 0, ue[i].state = "IDLE_RANDOM_ACCESS"
  PROVE  DurationInv'
<1>0. PICK r \in Rntis : r = ue[i].rar
  BY DEF RrcInv, RrcShape, AnyUe
<1> DEFINE u == [ue[i] EXCEPT !.state = "IDLE_CONNECTING", !.rar = 0, !.rnti = r, !.macRnti = r]
           e == Event("Request", r, i, 0)
           f == Event("T300", 0, i, T300)
<1>1. ue \in [Imsis -> AnyUe] /\ ue[i] \in AnyUe /\ ueMap \in [Rntis -> AnyManager]
  BY DEF RrcInv, RrcShape
<1>2. /\ ue' = [ue EXCEPT ![i] = u] /\ timers' = timers \cup {e, f}
      /\ UNCHANGED <<epcVars, enbVars, lastRnti, s1AppVars, radioVars, s1Vars>>
  BY <1>0 DEF RecvRaResponse, OnlyTheUeOf
<1>3. UNCHANGED <<bearerCounter, bearersToBeActivated, ueMap, lastRnti, epcRnti,
                  srb0, srb1Down, srb1Up, s1Up, s1Down>>
  BY <1>2 DEF epcVars, enbVars, s1AppVars, radioVars, s1Vars
<1>4. /\ u.preamble = ue[i].preamble /\ u.rar = 0 /\ u.state = "IDLE_CONNECTING" /\ u.macRnti = r
      /\ u.drbs = ue[i].drbs /\ u.active = ue[i].active /\ u.toActivate = ue[i].toActivate
      /\ u.bidCounter = ue[i].bidCounter
  BY <1>1 DEF AnyUe
<1>5. ue'[i] = u /\ \A j \in Imsis : j # i => ue'[j] = ue[j]
  BY <1>1, <1>2
<1>6. /\ e.kind = "Request" /\ e.rnti = r /\ e.imsi = i /\ e.left = 0
      /\ f.kind = "T300" /\ f.imsi = i /\ f.left = T300
  BY DEF Event
<1>7. ueMap[r].state \in Unadmitted /\ srb1Down[r] = << >>
  BY <1>0 DEF RrcInv, UesAgree, ManagersAgree, ManagerAgrees, Admitted, Unadmitted
<1> HIDE DEF u, e, f
<1>8. \A t \in timers' : t # e /\ t # f => t \in timers
  BY <1>2
<1>9. T300 \in Nat
  BY RrcAssumption
<1>10. UePhases'
  <2>1. ASSUME NEW j \in Imsis PROVE UePhase(j)'
    <3>1. UePhase(j)
      BY DEF DurationInv, UePhases
    <3>2. CASE j = i
      <4>1. ue[i].preamble = FALSE
        BY <1>0, <1>1, <3>1, <3>2 DEF UePhase, AnyUe
      <4> QED
        BY <1>3, <1>4, <1>5, <3>1, <3>2, <4>1 DEF UePhase, WithMacRnti
    <3>3. CASE j # i
      BY <1>3, <1>5, <3>1, <3>3 DEF UePhase
    <3> QED
      BY <3>2, <3>3
  <2> QED
    BY <2>1 DEF UePhases
<1>11. \A t \in timers : t.kind = "T300" => t.imsi # i
  BY DEF RrcInv, TimersAgree
<1>12. CellTimersAgree'
  <2>1. \A t \in timers' : t.kind \in GuardKind => t \in timers
    BY <1>6, <1>8 DEF GuardKind
  <2>2. ASSUME NEW s \in timers', NEW t \in timers',
               s.kind = "T300", t.kind = "Request", s.imsi = t.imsi
        PROVE  s.left >= T300
    <3>1. CASE s = f
      BY <1>6, <1>9, <3>1
    <3>2. CASE s # f
      <4>1. s \in timers /\ s.imsi # i
        BY <1>6, <1>8, <1>11, <2>2, <3>2
      <4>2. t \in timers
        BY <1>6, <1>8, <2>2, <4>1
      <4> QED
        BY <2>2, <4>1, <4>2 DEF DurationInv, CellTimersAgree
    <3> QED
      BY <3>1, <3>2
  <2>3. \A t \in timers' : t.kind \in GuardKind => t.rnti \in Rntis /\ CellTimer(t)'
    BY <1>3, <2>1 DEF DurationInv, CellTimersAgree, CellTimer
  <2> QED
    BY <2>1, <2>2, <2>3 DEF DurationInv, CellTimersAgree
<1>13. RequestsInTime'
  <2> SUFFICES ASSUME InTimeForRequest PROVE RequestsInTime'
    BY DEF RequestsInTime, InTimeForRequest
  <2>1. ASSUME NEW q, AwaitsRequest(q) PROVE AwaitsRequest(q)'
    BY <1>3, <1>6, <1>8, <2>1 DEF AwaitsRequest
  <2>2. AwaitsRequest(r)
    BY <1>0 DEF DurationInv, RequestsInTime
  <2>3. ASSUME NEW j \in Imsis, ue'[j].rar # 0 PROVE AwaitsRequest(ue[j].rar)'
    <3>1. j # i /\ ue'[j].rar = ue[j].rar
      BY <1>4, <1>5, <2>3
    <3>2. AwaitsRequest(ue[j].rar)
      BY <2>3, <3>1 DEF DurationInv, RequestsInTime
    <3> QED
      BY <1>3, <1>6, <1>8, <3>1, <3>2 DEF AwaitsRequest
  <2>4. ASSUME NEW s \in timers', s.kind = "Request" PROVE AwaitsRequest(s.rnti)'
    <3>1. CASE s = e
      BY <1>6, <2>1, <2>2, <3>1
    <3>2. CASE s # e
      BY <1>6, <1>8, <2>1, <2>4, <3>2 DEF DurationInv, RequestsInTime
    <3> QED
      BY <3>1, <3>2
  <2> QED
    BY <2>3, <2>4 DEF RequestsInTime
<1>14. ManagerPhases'
  <2>1. ASSUME NEW q \in Rntis PROVE ManagerPhase(q)'
    <3>1. ManagerPhase(q) /\ ManagerAgrees(q)
      BY DEF DurationInv, ManagerPhases, RrcInv, ManagersAgree
    <3>2. ueMap[q].imsi # 0 => ueMap[q].imsi \in Imsis
      BY <1>1 DEF AnyManager
    <3>3. ueMap[q].state = "CONNECTION_SETUP" => q # r
      BY <1>7 DEF Unadmitted
    <3>4. SetupPhase(q) /\ ueMap[q].state = "CONNECTION_SETUP" => SetupPhase(q)'
      BY <1>3, <1>4, <1>5, <3>1, <3>2, <3>3 DEF SetupPhase, ManagerAgrees, Admitted
    <3> QED
      BY <1>3, <3>1, <3>4 DEF ManagerPhase, NoBearersYet, OnlyCompletions
  <2> QED
    BY <2>1 DEF ManagerPhases
<1>15. SetupInTime'
  <2> SUFFICES ASSUME InTimeForSetup PROVE SetupInTime'
    BY DEF SetupInTime, InTimeForSetup
  <2>1. ASSUME NEW t \in timers', t.kind = "SetupTimeout" PROVE GuardsSetup(t)'
    <3>1. GuardsSetup(t)
      BY <1>6, <1>8, <2>1 DEF DurationInv, SetupInTime
    <3> QED
      BY <1>3, <3>1 DEF GuardsSetup
  <2>2. ASSUME NEW j \in Imsis, ue'[j].state = "CONNECTED_NORMALLY"
        PROVE  HasUeManager(ue[j].macRnti)'
    <3>1. j # i
      BY <1>4, <1>5, <2>2
    <3> QED
      BY <1>3, <1>5, <2>2, <3>1 DEF DurationInv, SetupInTime, HasUeManager
  <2>3. \A j \in Imsis : ue'[j].state = "CONNECTED_NORMALLY" => ue'[j].macRnti = ue[j].macRnti
    BY <1>4, <1>5
  <2> QED
    BY <2>1, <2>2, <2>3 DEF SetupInTime, HasUeManager
<1>16. ReleasesAreOfConnected'
  BY <1>3, <1>4, <1>5 DEF DurationInv, ReleasesAreOfConnected, Intact, Releases
<1>17. ContextSetupInTime'
  <2>1. ASSUME NEW j \in Imsis, NEW d \in Nat, AwaitsSetup(j, d) PROVE AwaitsSetup(j, d)'
    <3>1. j # i
      BY <2>1 DEF AwaitsSetup, WithMacRnti
    <3> QED
      BY <1>3, <1>5, <1>6, <1>8, <2>1, <3>1
         DEF AwaitsSetup, HasUeManager, NoBearersYet, Intact, Releases
  <2> QED
    BY <1>3, <2>1, SetupsUnderWayKeep DEF DurationInv
<1>18. ReleasesInTime'
  <2>1. ASSUME NEW j \in Imsis, j # i, ReleasesAreKnown(j) PROVE ReleasesAreKnown(j)'
    BY <1>3, <1>5, <2>1 DEF ReleasesAreKnown
  <2>2. ReleasesAreKnown(i)'
    <3>1. ue'[i].macRnti = r /\ DOMAIN srb1Down'[r] = {}
      BY <1>3, <1>4, <1>5, <1>7
    <3> QED
      BY <3>1 DEF ReleasesAreKnown
  <2> QED
    BY <1>5, <2>1, <2>2 DEF DurationInv, ReleasesInTime, InTimeForS1
<1>19. LcidsFit'
  BY <1>3 DEF DurationInv, LcidsFit, Active
<1> QED
  BY <1>10, <1>12, <1>13, <1>14, <1>15, <1>16, <1>17, <1>18, <1>19 DEF DurationInv

--------------------------------------------------------------------------------
(* The cell and its timers.                                                *)

(* A setup that is under way: what is awaited is in the right types.       *)
LEMMA S1Types ==
  ASSUME RrcInv
  PROVE  /\ s1Up \in Seq(S1UpMessage) /\ Len(s1Up) \in Nat /\ DOMAIN s1Up = 1..Len(s1Up)
         /\ \A n \in DOMAIN s1Up : s1Up[n] \in S1UpMessage /\ s1Up[n].imsi \in Imsis
                                   /\ s1Up[n].left \in Nat /\ s1Up[n].left + S1Delay \in Nat
         /\ s1Down \in Seq(SetupRequest) /\ Len(s1Down) \in Nat /\ DOMAIN s1Down = 1..Len(s1Down)
         /\ \A n \in DOMAIN s1Down : s1Down[n] \in SetupRequest /\ s1Down[n].imsi \in Imsis
                                     /\ s1Down[n].left \in Nat
<1>1. /\ s1Up \in Seq(S1UpMessage) /\ Len(s1Up) \in Nat /\ DOMAIN s1Up = 1..Len(s1Up)
      /\ s1Down \in Seq(SetupRequest) /\ Len(s1Down) \in Nat /\ DOMAIN s1Down = 1..Len(s1Down)
  BY LenProperties DEF RrcInv, QueueShape
<1>2. S1Delay \in Nat
  BY RrcAssumption
<1>3. ASSUME NEW n \in DOMAIN s1Up
      PROVE  s1Up[n] \in S1UpMessage /\ s1Up[n].imsi \in Imsis
             /\ s1Up[n].left \in Nat /\ s1Up[n].left + S1Delay \in Nat
  <2>1. s1Up[n] \in S1UpMessage
    BY <1>1, ElementOfSeq
  <2> QED
    BY <1>2, <2>1 DEF S1UpMessage
<1>4. ASSUME NEW n \in DOMAIN s1Down
      PROVE  s1Down[n] \in SetupRequest /\ s1Down[n].imsi \in Imsis /\ s1Down[n].left \in Nat
  <2>1. s1Down[n] \in SetupRequest
    BY <1>1, ElementOfSeq
  <2> QED
    BY <2>1 DEF SetupRequest, S1DownMessage
<1> QED
  BY <1>1, <1>3, <1>4

(* One more initial UE message on the link.                                *)
LEMMA RequestAppended ==
  ASSUME RrcInv, NEW m \in S1UpMessage, m.msg = "InitialUeMessage", s1Up' = Append(s1Up, m)
  PROVE  /\ Requests' = Requests \cup {Len(s1Up) + 1}
         /\ Requests \subseteq DOMAIN s1Up /\ Len(s1Up) + 1 \notin DOMAIN s1Up
         /\ s1Up'[Len(s1Up) + 1] = m
         /\ \A n \in DOMAIN s1Up : s1Up'[n] = s1Up[n]
         /\ \A j : Releases(j)' = Releases(j)
<1>1. s1Up \in Seq(S1UpMessage) /\ Len(s1Up) \in Nat /\ DOMAIN s1Up = 1..Len(s1Up)
  BY S1Types
<1>2. /\ DOMAIN s1Up' = 1..(Len(s1Up) + 1)
      /\ \A n \in DOMAIN s1Up : s1Up'[n] = s1Up[n]
      /\ s1Up'[Len(s1Up) + 1] = m
  BY <1>1, AppendProperties
<1>3. DOMAIN s1Up' = DOMAIN s1Up \cup {Len(s1Up) + 1} /\ Len(s1Up) + 1 \notin DOMAIN s1Up
  BY <1>1, <1>2
<1> QED
  BY <1>2, <1>3 DEF Requests, Releases

(* No setup is under way for an IMSI whose context awaits none.            *)
LEMMA NoSetupUnderWay ==
  ASSUME RrcInv, ContextSetupInTime, InTimeForS1, NEW i \in Imsis,
         \A d \in Nat : ~AwaitsSetup(i, d)
  PROVE  /\ \A n \in Requests : s1Up[n].imsi # i
         /\ \A n \in DOMAIN s1Down : s1Down[n].imsi # i
<1>1. ASSUME NEW n \in Requests, s1Up[n].imsi = i PROVE FALSE
  <2>1. n \in DOMAIN s1Up
    BY DEF Requests
  <2>2. PICK d \in Nat : d = s1Up[n].left + S1Delay
    BY <2>1, S1Types
  <2>3. AwaitsSetup(i, d)
    BY <1>1, <2>2 DEF ContextSetupInTime
  <2> QED
    BY <2>3
<1>2. ASSUME NEW n \in DOMAIN s1Down, s1Down[n].imsi = i PROVE FALSE
  <2>1. PICK d \in Nat : d = s1Down[n].left
    BY S1Types
  <2>2. AwaitsSetup(i, d)
    BY <1>2, <2>1 DEF ContextSetupInTime
  <2> QED
    BY <2>2
<1> QED
  BY <1>1, <1>2

(* An RNTI has one request under way.                                      *)
LEMMA OneRequestOf ==
  ASSUME RrcInv, NEW s \in timers, NEW t \in timers,
         s.kind = "Request", t.kind = "Request", s.rnti = t.rnti
  PROVE  s = t
<1>1. /\ s.imsi \in Imsis /\ s.left = 0 /\ ue[s.imsi].macRnti = s.rnti /\ s.rnti \in Rntis
      /\ t.imsi \in Imsis /\ t.left = 0 /\ ue[t.imsi].macRnti = t.rnti
  BY DEF RrcInv, TimersAgree
<1>2. s.imsi = t.imsi
  BY <1>1 DEF RrcInv, HandlesAreOwn, Rntis
<1>3. s \in Timer /\ t \in Timer
  BY DEF RrcInv, QueueShape
<1> QED
  BY <1>1, <1>2, <1>3 DEF Timer

(* The context is new and has no bearer, its timer has as long as the MME, *)
(* the setup and the completion can take, and the contexts that are        *)
(* removed for it await nothing.                                           *)
LEMMA AdmitInTime ==
  ASSUME RrcInv, DurationInv, NEW t \in timers, t.kind = "Request",
         HasUeManager(t.rnti), ueMap[t.rnti].state = "INITIAL_RANDOM_ACCESS",
         AdmitRrcConnection(t)
  PROVE  DurationInv'
<1> DEFINE r == t.rnti
           i == t.imsi
           m == [msg |-> "InitialUeMessage", imsi |-> i, bearer |-> 0, left |-> S1Delay]
           e == Event("SetupTimeout", r, 0, SetupTimeout)
           c == [ueMap[r] EXCEPT !.state = "CONNECTION_SETUP", !.imsi = i, !.toStart = ueMap[r].drbs]
           setup == [msg |-> "Setup", rnti |-> r, left |-> RadioDelay]
<1>0. PICK stale \in SUBSET Rntis : stale = StaleContext(r, i)
  BY StaleContexts
<1>1. /\ i \in Imsis /\ r \in Rntis /\ r # 0 /\ i # 0
      /\ ue[i].state = "IDLE_CONNECTING" /\ ue[i].macRnti = r
      /\ ueMap[r].imsi = 0 /\ r \notin stale
      /\ \A q \in Rntis : q \in stale <=> ueMap[q].imsi = i
  BY <1>0, StaleContexts, ImsiIsNat DEF Rntis
<1>2. ue \in [Imsis -> AnyUe] /\ ueMap \in [Rntis -> AnyManager] /\ lastRnti \in Rntis \cup {0}
      /\ epcRnti \in [Imsis -> Rntis \cup {0}]
  BY DEF RrcInv, RrcShape
<1>3. /\ RemoveUes(stale, [ueMap EXCEPT ![r].state = "CONNECTION_SETUP", ![r].imsi = i,
                                        ![r].toStart = ueMap[r].drbs])
      /\ epcRnti' = [epcRnti EXCEPT ![i] = r]
      /\ s1Up' = Append(s1Up, m)
      /\ srb0' = Srb0Without(stale) \cup {setup}
      /\ timers' = (timers \ ({t} \cup OfRnti("RequestTimeout", r))) \cup {e}
      /\ UNCHANGED <<epcVars, ue, lastRnti, s1Down>>
  BY <1>0 DEF AdmitRrcConnection
<1>4. UNCHANGED <<bearerCounter, bearersToBeActivated, ue, lastRnti, s1Down>>
  BY <1>3 DEF epcVars
<1>5. /\ ueMap'[r] = c
      /\ \A q \in Rntis : q \in stale => ueMap'[q] = NoManager
      /\ \A q \in Rntis : q # r /\ q \notin stale => ueMap'[q] = ueMap[q]
      /\ \A q \in Rntis : srb1Down'[q] = IF q \in stale THEN << >> ELSE srb1Down[q]
      /\ \A q \in Rntis : srb1Up'[q] = IF q \in stale THEN << >> ELSE srb1Up[q]
  BY <1>1, <1>2, <1>3 DEF RemoveUes
<1>6. /\ c.state = "CONNECTION_SETUP" /\ c.imsi = i /\ c.toStart = ueMap[r].drbs
      /\ c.drbs = ueMap[r].drbs /\ c.lastDrbid = ueMap[r].lastDrbid /\ c.pending = ueMap[r].pending
  BY <1>1, <1>2 DEF AnyManager
<1>7. NoBearersYet(ueMap[r]) /\ srb1Down[r] = << >> /\ srb1Up[r] = << >>
  BY <1>1 DEF DurationInv, ManagerPhases, ManagerPhase, RrcInv, ManagersAgree, ManagerAgrees, Admitted
<1>8. NoBearersYet(c) /\ c.drbs = {} /\ c.lastDrbid = 0
  BY <1>6, <1>7 DEF NoBearersYet
<1>9. e.kind = "SetupTimeout" /\ e.rnti = r /\ e.left = SetupTimeout
  BY DEF Event
<1>10. m \in S1UpMessage /\ m.msg = "InitialUeMessage" /\ m.imsi = i /\ m.left = S1Delay
  BY <1>1, RrcAssumption DEF S1UpMessage
<1>11. \A q \in stale : ueMap[q].state = "CONNECTION_SETUP"
  BY <1>0 DEF StaleContext
<1>12. ue[i].drbs = {}
  BY <1>1 DEF RrcInv, DrbsHaveTunnels
<1> HIDE DEF m, e, c, i, r
<1>13. \A s \in timers' : s = e \/ (s \in timers /\ s # t /\ ~(s.kind = "RequestTimeout" /\ s.rnti = r))
  <2>1. timers' = (timers \ ({t} \cup OfRnti("RequestTimeout", r))) \cup {e}
    BY <1>3
  <2>2. \A s \in timers : s \in OfRnti("RequestTimeout", r) <=> s.kind = "RequestTimeout" /\ s.rnti = r
    BY DEF OfRnti
  <2> HIDE DEF e
  <2> QED
    BY <2>1, <2>2
<1>14. /\ Requests' = Requests \cup {Len(s1Up) + 1}
       /\ Requests \subseteq DOMAIN s1Up /\ Len(s1Up) + 1 \notin DOMAIN s1Up
       /\ s1Up'[Len(s1Up) + 1] = m
       /\ \A n \in DOMAIN s1Up : s1Up'[n] = s1Up[n]
       /\ \A j : Releases(j)' = Releases(j)
  BY <1>3, <1>10, RequestAppended
<1>15. \A s \in timers : s.kind = "SetupTimeout" => s.rnti # r
  BY DEF DurationInv, CellTimersAgree, CellTimer, GuardKind, r
<1>16. t \in timers /\ t.kind = "Request" /\ t.rnti = r /\ t.imsi = i
       /\ ueMap[r].state = "INITIAL_RANDOM_ACCESS"
  BY DEF i, r
<1>17. UePhases'
  BY <1>4 DEF DurationInv, UePhases, UePhase
<1>18. CellTimersAgree'
  <2>1. ASSUME NEW s \in timers', s.kind \in GuardKind PROVE s.rnti \in Rntis /\ CellTimer(s)'
    <3>1. CASE s = e
      <4>1. ~(r > lastRnti)
        BY <1>1, <1>16 DEF RrcInv, ManagersAgree, ManagerAgrees
      <4>2. r <= lastRnti
        BY <1>1, <1>2, <4>1 DEF Rntis
      <4> QED
        BY <1>1, <1>4, <1>5, <1>6, <1>9, <3>1, <4>2 DEF CellTimer
    <3>2. CASE s # e
      <4>1. s \in timers /\ s.rnti \in Rntis /\ CellTimer(s)
        BY <1>13, <2>1, <3>2 DEF DurationInv, CellTimersAgree
      <4>2. CASE s.rnti = r
        BY <1>13, <1>15, <1>16, <2>1, <3>2, <4>1, <4>2 DEF CellTimer, GuardKind
      <4>3. CASE s.rnti \in stale
        BY <1>4, <1>5, <1>11, <4>1, <4>3 DEF CellTimer, NoManager
      <4>4. CASE s.rnti # r /\ s.rnti \notin stale
        BY <1>4, <1>5, <4>1, <4>4 DEF CellTimer
      <4> QED
        BY <4>2, <4>3, <4>4
    <3> QED
      BY <3>1, <3>2
  <2>2. \A s \in timers' : s.kind # "SetupTimeout" => s \in timers
    BY <1>9, <1>13
  <2>3. ASSUME NEW s \in timers', NEW x \in timers',
               s.kind \in GuardKind \ {"SetupTimeout"}, x.kind = s.kind, x.rnti = s.rnti
        PROVE  s = x
    BY <2>2, <2>3 DEF DurationInv, CellTimersAgree
  <2>4. ASSUME NEW s \in timers', NEW x \in timers',
               s.kind = "T300", x.kind = "Request", s.imsi = x.imsi
        PROVE  s.left >= T300
    BY <2>2, <2>4 DEF DurationInv, CellTimersAgree
  <2> QED
    BY <2>1, <2>3, <2>4 DEF CellTimersAgree
<1>19. RequestsInTime'
  <2> SUFFICES ASSUME InTimeForRequest PROVE RequestsInTime'
    BY DEF RequestsInTime, InTimeForRequest
  <2>1. ASSUME NEW q \in Rntis, q # r, AwaitsRequest(q) PROVE AwaitsRequest(q)'
    <3>1. ueMap'[q] = ueMap[q]
      BY <1>5, <1>11, <2>1 DEF AwaitsRequest
    <3> QED
      BY <1>9, <1>13, <2>1, <3>1 DEF AwaitsRequest
  <2>2. ASSUME NEW j \in Imsis, ue[j].rar # 0 PROVE AwaitsRequest(ue[j].rar)'
    <3>1. PICK q \in Rntis : q = ue[j].rar
      BY <1>2, <2>2 DEF AnyUe
    <3>2. q # r
      BY <1>1, <2>2, <3>1 DEF RrcInv, HandlesAreOwn
    <3>3. AwaitsRequest(q)
      BY <2>2, <3>1 DEF DurationInv, RequestsInTime
    <3>4. AwaitsRequest(q)'
      BY <2>1, <3>2, <3>3
    <3> QED
      BY <1>4, <3>1, <3>4 DEF AwaitsRequest
  <2>3. ASSUME NEW s \in timers', s.kind = "Request" PROVE AwaitsRequest(s.rnti)'
    <3>1. s \in timers /\ s # t
      BY <1>9, <1>13, <2>3
    <3>2. s.rnti \in Rntis
      BY <2>3, <3>1 DEF RrcInv, TimersAgree
    <3>3. s.rnti # r
      BY <1>16, <2>3, <3>1, OneRequestOf
    <3>4. AwaitsRequest(s.rnti)
      BY <2>3, <3>1 DEF DurationInv, RequestsInTime
    <3> QED
      BY <2>1, <3>2, <3>3, <3>4
  <2> QED
    BY <1>4, <2>2, <2>3 DEF RequestsInTime
<1>20. ManagerPhases'
  <2>1. ASSUME NEW q \in Rntis PROVE ManagerPhase(q)'
    <3>1. ManagerPhase(q)
      BY DEF DurationInv, ManagerPhases
    <3>2. CASE q = r
      <4>1. SetupPhase(r)'
        BY <1>1, <1>4, <1>5, <1>6, <1>7, <1>12 DEF SetupPhase, r
      <4> QED
        BY <1>5, <1>6, <1>8, <3>2, <4>1 DEF ManagerPhase, Admitted, MaxBearersOfUe
    <3>3. CASE q \in stale
      BY <1>5, <3>3 DEF ManagerPhase, NoManager, Admitted, MaxBearersOfUe
    <3>4. CASE q # r /\ q \notin stale
      <4>1. ueMap'[q] = ueMap[q] /\ srb1Down'[q] = srb1Down[q] /\ srb1Up'[q] = srb1Up[q]
        BY <1>5, <3>4
      <4>2. SetupPhase(q) => SetupPhase(q)'
        BY <1>4, <4>1 DEF SetupPhase
      <4> QED
        BY <3>1, <4>1, <4>2 DEF ManagerPhase, NoBearersYet, OnlyCompletions
    <3> QED
      BY <3>2, <3>3, <3>4
  <2> QED
    BY <2>1 DEF ManagerPhases
<1>21. SetupInTime'
  <2> SUFFICES ASSUME InTimeForSetup PROVE SetupInTime'
    BY DEF SetupInTime, InTimeForSetup
  <2>1. ASSUME NEW s \in timers', s.kind = "SetupTimeout" PROVE GuardsSetup(s)'
    <3>1. CASE s = e
      <4>1. \A n \in srb0 : n.msg = "Setup" => n.rnti # r
        BY <1>16 DEF RrcInv, Srb0Agrees, Admitted
      <4>2. \A n \in srb0' : n.msg = "Setup" /\ n.rnti = r => n.left = RadioDelay
        BY <1>3, <4>1 DEF Srb0Without
      <4>3. RadioDelay \in Nat /\ SetupTimeout \in Nat
        BY RrcAssumption
      <4> QED
        BY <1>1, <1>5, <1>7, <1>9, <3>1, <4>2, <4>3 DEF GuardsSetup, InTimeForSetup
    <3>2. CASE s # e
      <4>1. s \in timers /\ GuardsSetup(s) /\ s.rnti \in Rntis /\ s.rnti # r
        BY <1>13, <1>15, <2>1, <3>2 DEF DurationInv, SetupInTime, CellTimersAgree, GuardKind
      <4>2. \A n \in srb0' : n.rnti = s.rnti => n \in srb0 /\ n.rnti \notin stale
        BY <1>3, <4>1 DEF Srb0Without, r
      <4>3. CASE s.rnti \in stale
        BY <1>5, <4>2, <4>3 DEF GuardsSetup, NoManager
      <4>4. CASE s.rnti \notin stale
        BY <1>5, <4>1, <4>2, <4>4 DEF GuardsSetup
      <4> QED
        BY <4>3, <4>4
    <3> QED
      BY <3>1, <3>2
  <2>2. ASSUME NEW j \in Imsis, ue[j].state = "CONNECTED_NORMALLY" PROVE HasUeManager(ue[j].macRnti)'
    <3>1. PICK q \in Rntis : q = ue[j].macRnti /\ ueMap[q].state # "NONE"
      BY <2>2 DEF DurationInv, SetupInTime, HasUeManager
    <3>2. ueMap[q].imsi = j /\ j # i
      BY <1>1, <2>2, <3>1 DEF RrcInv, UesAgree, HasUeManager
    <3>3. ueMap'[q] = ueMap[q]
      BY <1>1, <1>5, <3>2, ImsiIsNat
    <3> QED
      BY <1>4, <3>1, <3>3 DEF HasUeManager
  <2> QED
    BY <1>4, <2>1, <2>2 DEF SetupInTime
<1>22. ReleasesAreOfConnected'
  BY <1>4, <1>14 DEF DurationInv, ReleasesAreOfConnected, Intact
<1>23. ContextSetupInTime'
  <2> SUFFICES ASSUME InTimeForS1 PROVE ContextSetupInTime'
    BY DEF ContextSetupInTime, InTimeForS1
  <2>1. \A d \in Nat : ~AwaitsSetup(i, d)
    <3>1. ASSUME NEW d \in Nat, AwaitsSetup(i, d) PROVE FALSE
      <4>1. ueMap[epcRnti[i]].imsi = i /\ epcRnti[i] = r
        BY <1>1, <3>1, AwaitingContext DEF AwaitsSetup
      <4> QED
        BY <1>1, <4>1
    <3> QED
      BY <3>1
  <2>2. /\ \A n \in Requests : s1Up[n].imsi # i
        /\ \A n \in DOMAIN s1Down : s1Down[n].imsi # i
    BY <1>1, <2>1, NoSetupUnderWay DEF DurationInv
  <2>3. OneSetupOfEach'
    <3>1. OneSetupOfEach
      BY DEF DurationInv, ContextSetupInTime
    <3>2. \A n \in Requests : s1Up'[n] = s1Up[n]
      BY <1>14
    <3> QED
      BY <1>4, <1>10, <1>14, <2>2, <3>1, <3>2 DEF OneSetupOfEach
  <2>4. AwaitsSetup(i, S1Delay + S1Delay)'
    <3>1. /\ epcRnti'[i] = r /\ ueMap'[r] = c /\ srb1Down'[r] = << >>
      BY <1>1, <1>2, <1>3, <1>5, <1>7
    <3>2. Intact(i) /\ Releases(i) = {}
      BY <1>1 DEF DurationInv, ReleasesAreOfConnected
    <3>3. T300 \in Nat /\ SetupTimeout \in Nat /\ S1Delay \in Nat
      BY RrcAssumption
    <3>4. ASSUME NEW s \in timers', s.kind = "T300", s.imsi = i PROVE s.left > S1Delay + S1Delay
      <4>1. s \in timers /\ s.left \in Nat /\ s.left >= T300
        BY <1>9, <1>13, <1>16, <3>4 DEF DurationInv, CellTimersAgree, RrcInv, QueueShape, Timer
      <4> QED
        BY <3>3, <4>1 DEF InTimeForS1
    <3>5. ASSUME NEW s \in timers', s.kind = "SetupTimeout", s.rnti = r
          PROVE  s.left > S1Delay + S1Delay
      <4>1. s = e
        BY <1>13, <1>15, <3>5
      <4> QED
        BY <1>9, <4>1 DEF InTimeForS1
    <3>6. HasUeManager(r)' /\ NoBearersYet(c)
      BY <1>1, <1>6, <1>8, <3>1 DEF HasUeManager, r
    <3>7. HasUeManager(epcRnti[i])' /\ NoBearersYet(ueMap[epcRnti[i]])'
      BY <3>1, <3>6 DEF HasUeManager, NoBearersYet, r
    <3>8. Intact(i)' /\ Releases(i)' = {}
      BY <1>4, <1>14, <3>2 DEF Intact, i
    <3>9. ue'[i].state \in WithMacRnti /\ ue'[i].macRnti = r /\ ue'[i].drbs = {}
      BY <1>1, <1>4, <1>12 DEF WithMacRnti
    <3> QED
      BY <3>1, <3>4, <3>5, <3>7, <3>8, <3>9 DEF AwaitsSetup, i
  <2>5. ASSUME NEW j \in Imsis, NEW d \in Nat, AwaitsSetup(j, d) PROVE AwaitsSetup(j, d)'
    <3>1. j # i
      BY <2>1, <2>5
    <3>2. /\ epcRnti[j] \in Rntis /\ ueMap[epcRnti[j]].imsi = j /\ j # 0
      BY <2>5, AwaitingContext
    <3>3. PICK q \in Rntis : q = epcRnti[j] /\ q # r /\ q \notin stale
      BY <1>1, <3>1, <3>2
    <3>4. epcRnti'[j] = q /\ ueMap'[q] = ueMap[q] /\ srb1Down'[q] = srb1Down[q]
      BY <1>1, <1>2, <1>3, <1>5, <3>1, <3>3
    <3>5. Releases(j)' = Releases(j) /\ (Intact(j) <=> Intact(j)')
      BY <1>4, <1>14 DEF Intact
    <3>6. \A s \in timers' : s.kind = "T300" \/ (s.kind = "SetupTimeout" /\ s.rnti = q) => s \in timers
      BY <1>9, <1>13, <3>3
    <3>7. /\ HasUeManager(q)' /\ NoBearersYet(ueMap[q])' /\ srb1Down'[q] = << >>
          /\ ue'[j].state \in WithMacRnti /\ ue'[j].macRnti = q /\ ue'[j].drbs = {}
      BY <1>4, <2>5, <3>3, <3>4 DEF AwaitsSetup, HasUeManager, NoBearersYet
    <3>8. Intact(j)' /\ Releases(j)' = {}
      BY <2>5, <3>5 DEF AwaitsSetup
    <3>9. ASSUME NEW s \in timers',
                 (s.kind = "T300" /\ s.imsi = j) \/ (s.kind = "SetupTimeout" /\ s.rnti = q)
          PROVE  s.left > d
      <4>1. s \in timers
        BY <3>6, <3>9
      <4> QED
        BY <2>5, <3>3, <3>9, <4>1 DEF AwaitsSetup
    <3> QED
      BY <3>4, <3>7, <3>8, <3>9 DEF AwaitsSetup, HasUeManager, NoBearersYet
  <2>6. ASSUME NEW n \in Requests' PROVE AwaitsSetup(s1Up[n].imsi, s1Up[n].left + S1Delay)'
    <3>1. CASE n = Len(s1Up) + 1
      <4>1. s1Up'[n].imsi = i /\ s1Up'[n].left = S1Delay
        BY <1>10, <1>14, <3>1
      <4> QED
        BY <2>4, <4>1 DEF AwaitsSetup, i
    <3>2. CASE n # Len(s1Up) + 1
      <4>1. n \in Requests /\ n \in DOMAIN s1Up /\ s1Up'[n] = s1Up[n]
        BY <1>14, <3>2
      <4>2. PICK j \in Imsis, d \in Nat : j = s1Up[n].imsi /\ d = s1Up[n].left + S1Delay
        BY <4>1, S1Types
      <4>3. AwaitsSetup(j, d)
        BY <4>1, <4>2 DEF DurationInv, ContextSetupInTime
      <4>4. AwaitsSetup(j, d)'
        BY <2>5, <4>3
      <4> QED
        BY <4>1, <4>2, <4>4 DEF AwaitsSetup
    <3> QED
      BY <3>1, <3>2
  <2>7. ASSUME NEW n \in DOMAIN s1Down
        PROVE  AwaitsSetup(s1Down[n].imsi, s1Down[n].left)' /\ InOrder(s1Down[n])
    <3>1. PICK j \in Imsis, d \in Nat : j = s1Down[n].imsi /\ d = s1Down[n].left
      BY S1Types
    <3>2. AwaitsSetup(j, d) /\ InOrder(s1Down[n])
      BY <3>1 DEF DurationInv, ContextSetupInTime
    <3>3. AwaitsSetup(j, d)'
      BY <2>5, <3>2
    <3> QED
      BY <1>4, <3>1, <3>2, <3>3 DEF AwaitsSetup
  <2> QED
    BY <1>4, <2>3, <2>6, <2>7 DEF ContextSetupInTime
<1>24. ReleasesInTime'
  <2>1. ASSUME NEW j \in Imsis, ue[j].macRnti # 0, ReleasesAreKnown(j) PROVE ReleasesAreKnown(j)'
    <3>1. PICK q \in Rntis : q = ue[j].macRnti
      BY <1>2, <2>1 DEF AnyUe
    <3>2. CASE q = r \/ q \in stale
      <4>1. DOMAIN srb1Down'[q] = {}
        BY <1>5, <1>7, <3>2
      <4> QED
        BY <1>4, <3>1, <4>1 DEF ReleasesAreKnown
    <3>3. CASE q # r /\ q \notin stale
      <4>1. ueMap'[q] = ueMap[q] /\ srb1Down'[q] = srb1Down[q]
        BY <1>5, <3>3
      <4> QED
        BY <1>4, <2>1, <3>1, <4>1 DEF ReleasesAreKnown
    <3> QED
      BY <3>2, <3>3
  <2> QED
    BY <1>4, <2>1 DEF DurationInv, ReleasesInTime, InTimeForS1
<1>25. LcidsFit'
  <2> SUFFICES ASSUME MaxBearers < MaxBearersOfUe PROVE LcidsFit'
    BY DEF LcidsFit
  <2>1. ASSUME NEW q \in Rntis
        PROVE  /\ ueMap'[q].drbs \subseteq WithLcid
               /\ \A n \in DOMAIN srb1Down'[q] : srb1Down'[q][n].add \subseteq WithLcid
    <3>1. /\ ueMap[q].drbs \subseteq WithLcid
          /\ \A n \in DOMAIN srb1Down[q] : srb1Down[q][n].add \subseteq WithLcid
      BY DEF DurationInv, LcidsFit
    <3>2. ueMap'[q].drbs \subseteq WithLcid
      BY <1>5, <1>8, <3>1 DEF NoManager
    <3> QED
      BY <1>5, <3>1, <3>2
  <2> QED
    BY <1>4, <2>1 DEF DurationInv, LcidsFit, Active
<1> QED
  BY <1>17, <1>18, <1>19, <1>20, <1>21, <1>22, <1>23, <1>24, <1>25 DEF DurationInv

(* The context that is rejected awaited nothing.                           *)
LEMMA RejectInTime ==
  ASSUME RrcInv, DurationInv, NEW t \in timers, t.kind = "Request",
         HasUeManager(t.rnti), ueMap[t.rnti].state = "INITIAL_RANDOM_ACCESS",
         RejectRrcConnection(t)
  PROVE  DurationInv'
<1> DEFINE r == t.rnti
           e == Event("RejectedTimeout", r, 0, RejectedTimeout)
           c == [ueMap[r] EXCEPT !.state = "CONNECTION_REJECTED"]
           reject == [msg |-> "Reject", rnti |-> r, left |-> RadioDelay]
<1>1. r \in Rntis /\ r # 0
  BY StaleContexts DEF Rntis
<1>2. ue \in [Imsis -> AnyUe] /\ ueMap \in [Rntis -> AnyManager]
  BY DEF RrcInv, RrcShape
<1>3. /\ ueMap' = [ueMap EXCEPT ![r].state = "CONNECTION_REJECTED"]
      /\ srb0' = srb0 \cup {reject}
      /\ timers' = (timers \ ({t} \cup OfRnti("RequestTimeout", r))) \cup {e}
      /\ UNCHANGED <<epcVars, ue, lastRnti, s1AppVars, srb1Down, srb1Up, s1Vars>>
  BY DEF RejectRrcConnection
<1>4. UNCHANGED <<bearerCounter, bearersToBeActivated, ue, lastRnti, epcRnti,
                  srb1Down, srb1Up, s1Up, s1Down>>
  BY <1>3 DEF epcVars, s1AppVars, s1Vars
<1>5. ueMap'[r] = c /\ \A q \in Rntis : q # r => ueMap'[q] = ueMap[q]
  BY <1>1, <1>2, <1>3
<1>6. c.state = "CONNECTION_REJECTED" /\ c.drbs = ueMap[r].drbs /\ c.lastDrbid = ueMap[r].lastDrbid
  BY <1>1, <1>2 DEF AnyManager
<1>7. e.kind = "RejectedTimeout" /\ e.rnti = r
  BY DEF Event
<1>8. reject.msg = "Reject"
  OBVIOUS
<1> HIDE DEF e, c, r, reject
<1>9. t \in timers /\ t.kind = "Request" /\ t.rnti = r
      /\ ueMap[r].state = "INITIAL_RANDOM_ACCESS"
  BY DEF r
<1>10. \A s \in timers' : s = e \/ (s \in timers /\ s # t /\ ~(s.kind = "RequestTimeout" /\ s.rnti = r))
  <2>1. timers' = (timers \ ({t} \cup OfRnti("RequestTimeout", r))) \cup {e}
    BY <1>3
  <2>2. \A s \in timers : s \in OfRnti("RequestTimeout", r) <=> s.kind = "RequestTimeout" /\ s.rnti = r
    BY DEF OfRnti
  <2> QED
    BY <2>1, <2>2
<1>11. \A s \in timers : s.kind \in {"SetupTimeout", "RejectedTimeout"} => s.rnti # r
  BY <1>9 DEF DurationInv, CellTimersAgree, CellTimer, GuardKind
<1>12. UePhases'
  BY <1>4 DEF DurationInv, UePhases, UePhase
<1>13. CellTimersAgree'
  <2>1. ASSUME NEW s \in timers', s.kind \in GuardKind PROVE s.rnti \in Rntis /\ CellTimer(s)'
    <3>1. CASE s = e
      BY <1>1, <1>5, <1>6, <1>7, <3>1 DEF CellTimer
    <3>2. CASE s # e
      <4>1. s \in timers /\ s.rnti \in Rntis /\ CellTimer(s) /\ s.rnti # r
        BY <1>10, <1>11, <2>1, <3>2 DEF DurationInv, CellTimersAgree, GuardKind
      <4> QED
        BY <1>4, <1>5, <4>1 DEF CellTimer
    <3> QED
      BY <3>1, <3>2
  <2>2. ASSUME NEW s \in timers', NEW x \in timers',
               s.kind \in GuardKind \ {"SetupTimeout"}, x.kind = s.kind, x.rnti = s.rnti
        PROVE  s = x
    BY <1>7, <1>10, <1>11, <2>2 DEF DurationInv, CellTimersAgree
  <2>3. ASSUME NEW s \in timers', NEW x \in timers',
               s.kind = "T300", x.kind = "Request", s.imsi = x.imsi
        PROVE  s.left >= T300
    BY <1>7, <1>10, <2>3 DEF DurationInv, CellTimersAgree
  <2> QED
    BY <2>1, <2>2, <2>3 DEF CellTimersAgree
<1>14. RequestsInTime'
  <2> SUFFICES ASSUME InTimeForRequest PROVE RequestsInTime'
    BY DEF RequestsInTime, InTimeForRequest
  <2>1. ASSUME NEW q \in Rntis, q # r, AwaitsRequest(q) PROVE AwaitsRequest(q)'
    BY <1>5, <1>7, <1>10, <2>1 DEF AwaitsRequest
  <2>2. ASSUME NEW j \in Imsis, ue[j].rar # 0 PROVE AwaitsRequest(ue[j].rar)'
    <3>1. PICK q \in Rntis : q = ue[j].rar
      BY <1>2, <2>2 DEF AnyUe
    <3>2. t.imsi \in Imsis /\ ue[t.imsi].macRnti = r
      BY <1>9 DEF RrcInv, TimersAgree
    <3>3. q # r
      BY <2>2, <3>1, <3>2 DEF RrcInv, HandlesAreOwn
    <3>4. AwaitsRequest(q)
      BY <2>2, <3>1 DEF DurationInv, RequestsInTime
    <3>5. AwaitsRequest(q)'
      BY <2>1, <3>3, <3>4
    <3> QED
      BY <1>4, <3>1, <3>5 DEF AwaitsRequest
  <2>3. ASSUME NEW s \in timers', s.kind = "Request" PROVE AwaitsRequest(s.rnti)'
    <3>1. s \in timers /\ s # t
      BY <1>7, <1>10, <2>3
    <3>2. s.rnti \in Rntis /\ s.rnti # r
      BY <1>9, <2>3, <3>1, OneRequestOf DEF RrcInv, TimersAgree
    <3>3. AwaitsRequest(s.rnti)
      BY <2>3, <3>1 DEF DurationInv, RequestsInTime
    <3> QED
      BY <2>1, <3>2, <3>3
  <2> QED
    BY <1>4, <2>2, <2>3 DEF RequestsInTime
<1>15. ManagerPhases'
  <2>1. ASSUME NEW q \in Rntis PROVE ManagerPhase(q)'
    <3>1. ManagerPhase(q)
      BY DEF DurationInv, ManagerPhases
    <3>2. CASE q = r
      BY <1>5, <1>6, <3>1, <3>2 DEF ManagerPhase, Admitted
    <3>3. CASE q # r
      <4>1. ueMap'[q] = ueMap[q]
        BY <1>5, <3>3
      <4>2. SetupPhase(q) => SetupPhase(q)'
        BY <1>4, <4>1 DEF SetupPhase
      <4> QED
        BY <1>4, <3>1, <4>1, <4>2 DEF ManagerPhase, NoBearersYet, OnlyCompletions
    <3> QED
      BY <3>2, <3>3
  <2> QED
    BY <2>1 DEF ManagerPhases
<1>16. SetupInTime'
  <2> SUFFICES ASSUME InTimeForSetup PROVE SetupInTime'
    BY DEF SetupInTime, InTimeForSetup
  <2>1. ASSUME NEW s \in timers', s.kind = "SetupTimeout" PROVE GuardsSetup(s)'
    <3>1. s \in timers /\ GuardsSetup(s) /\ s.rnti \in Rntis /\ s.rnti # r
      BY <1>7, <1>10, <1>11, <2>1 DEF DurationInv, SetupInTime, CellTimersAgree, GuardKind
    <3> QED
      BY <1>3, <1>4, <1>5, <1>8, <3>1 DEF GuardsSetup
  <2>2. ASSUME NEW j \in Imsis, ue[j].state = "CONNECTED_NORMALLY" PROVE HasUeManager(ue[j].macRnti)'
    <3>1. HasUeManager(ue[j].macRnti)
      BY <2>2 DEF DurationInv, SetupInTime
    <3> QED
      BY <1>4, <1>5, <1>6, <3>1 DEF HasUeManager
  <2> QED
    BY <1>4, <2>1, <2>2 DEF SetupInTime
<1>17. ReleasesAreOfConnected'
  BY <1>4 DEF DurationInv, ReleasesAreOfConnected, Intact, Releases
<1>18. ContextSetupInTime'
  <2>1. ASSUME NEW j \in Imsis, NEW d \in Nat, AwaitsSetup(j, d) PROVE AwaitsSetup(j, d)'
    <3>1. PICK q \in Rntis : q = epcRnti[j] /\ q # r
      BY <1>9, <2>1, AwaitingContext DEF Admitted
    <3>2. ueMap'[q] = ueMap[q]
      BY <1>5, <3>1
    <3>3. \A s \in timers' : s.kind # "RejectedTimeout" => s \in timers
      BY <1>7, <1>10
    <3> QED
      BY <1>4, <2>1, <3>1, <3>2, <3>3 DEF AwaitsSetup, HasUeManager, NoBearersYet, Intact, Releases
  <2> QED
    BY <1>4, <2>1, SetupsUnderWayKeep DEF DurationInv
<1>19. \A q \in Rntis : ueMap'[q].drbs = ueMap[q].drbs
  BY <1>5, <1>6
<1>20. ReleasesInTime'
  <2>1. ASSUME NEW j \in Imsis, ue[j].macRnti # 0, ReleasesAreKnown(j) PROVE ReleasesAreKnown(j)'
    <3>1. ue[j].macRnti \in Rntis
      BY <1>2, <2>1 DEF AnyUe
    <3>2. ueMap'[ue[j].macRnti].drbs = ueMap[ue[j].macRnti].drbs
      BY <1>19, <3>1
    <3> QED
      BY <1>4, <2>1, <3>2 DEF ReleasesAreKnown
  <2> QED
    BY <1>4, <2>1 DEF DurationInv, ReleasesInTime, InTimeForS1
<1>21. LcidsFit'
  BY <1>4, <1>19 DEF DurationInv, LcidsFit, Active
<1> QED
  BY <1>12, <1>13, <1>14, <1>15, <1>16, <1>17, <1>18, <1>20, <1>21 DEF DurationInv

(* A timer that is due removes a context that nobody awaits.               *)
LEMMA RemovalInTime ==
  ASSUME RrcInv, DurationInv, NEW t \in timers, HasUeManager(t.rnti), t.left = 0,
         \/ t.kind = "RequestTimeout" /\ ueMap[t.rnti].state = "INITIAL_RANDOM_ACCESS"
         \/ t.kind = "RejectedTimeout" /\ ueMap[t.rnti].state = "CONNECTION_REJECTED"
         \/ t.kind = "SetupTimeout" /\ ueMap[t.rnti].state = "CONNECTION_SETUP",
         RemoveUe(t.rnti), timers' = timers \ {t}
  PROVE  DurationInv'
<1> DEFINE r == t.rnti
<1>1. r \in Rntis /\ r # 0
  BY DEF HasUeManager, Rntis
<1>2. ue \in [Imsis -> AnyUe] /\ ueMap \in [Rntis -> AnyManager]
  BY DEF RrcInv, RrcShape
<1>3. /\ ueMap' = [q \in Rntis |-> IF q \in {r} THEN NoManager ELSE ueMap[q]]
      /\ srb1Down' = [q \in Rntis |-> IF q \in {r} THEN << >> ELSE srb1Down[q]]
      /\ srb1Up' = [q \in Rntis |-> IF q \in {r} THEN << >> ELSE srb1Up[q]]
      /\ srb0' = Srb0Without({r})
      /\ UNCHANGED <<epcVars, ue, lastRnti, epcRnti, s1Vars>>
  BY DEF RemoveUe, RemoveUes
<1>4. UNCHANGED <<bearerCounter, bearersToBeActivated, ue, lastRnti, epcRnti, s1Up, s1Down>>
  BY <1>3 DEF epcVars, s1Vars
<1>5. /\ ueMap'[r] = NoManager /\ srb1Down'[r] = << >> /\ srb1Up'[r] = << >>
      /\ \A q \in Rntis : q # r => /\ ueMap'[q] = ueMap[q] /\ srb1Down'[q] = srb1Down[q]
                                   /\ srb1Up'[q] = srb1Up[q]
  BY <1>1, <1>3
<1>6. srb0' \subseteq srb0 /\ \A m \in srb0' : m.rnti # r
  BY <1>3 DEF Srb0Without
<1>7. NoManager.state = "NONE" /\ NoManager.drbs = {} /\ NoManager.lastDrbid = 0
  BY DEF NoManager
<1> HIDE DEF r
<1>8. /\ t \in timers /\ t.rnti = r /\ t.left = 0
      /\ ueMap[r].state # "CONNECTION_SETUP" => t.kind \in GuardKind \ {"SetupTimeout"}
      /\ ueMap[r].state = "CONNECTION_SETUP" => t.kind = "SetupTimeout"
      /\ t.kind = "RequestTimeout" => ueMap[r].state = "INITIAL_RANDOM_ACCESS"
      /\ t.kind = "RejectedTimeout" => ueMap[r].state = "CONNECTION_REJECTED"
      /\ ueMap[r].state \in {"INITIAL_RANDOM_ACCESS", "CONNECTION_REJECTED", "CONNECTION_SETUP"}
  BY DEF r, GuardKind
<1>9. UePhases'
  BY <1>4 DEF DurationInv, UePhases, UePhase
<1>10. CellTimersAgree'
  <2>1. ASSUME NEW s \in timers', s.kind \in GuardKind PROVE s.rnti \in Rntis /\ CellTimer(s)'
    <3>1. s \in timers /\ s # t /\ s.rnti \in Rntis /\ CellTimer(s)
      BY <2>1 DEF DurationInv, CellTimersAgree
    <3>2. CASE s.rnti = r
      <4>1. s.kind = "SetupTimeout"
        BY <1>8, <2>1, <3>1, <3>2 DEF DurationInv, CellTimersAgree, CellTimer, GuardKind
      <4> QED
        BY <1>4, <1>5, <1>7, <3>1, <3>2, <4>1 DEF CellTimer
    <3>3. CASE s.rnti # r
      BY <1>4, <1>5, <3>1, <3>3 DEF CellTimer
    <3> QED
      BY <3>1, <3>2, <3>3
  <2> QED
    BY <2>1 DEF DurationInv, CellTimersAgree
<1>11. RequestsInTime'
  <2> SUFFICES ASSUME InTimeForRequest PROVE RequestsInTime'
    BY DEF RequestsInTime, InTimeForRequest
  <2>1. ASSUME NEW q \in Rntis, AwaitsRequest(q) PROVE AwaitsRequest(q)'
    <3>1. q # r
      BY <1>8, <2>1 DEF AwaitsRequest, GuardKind
    <3> QED
      BY <1>5, <2>1, <3>1 DEF AwaitsRequest
  <2>2. ASSUME NEW j \in Imsis, ue[j].rar # 0 PROVE AwaitsRequest(ue[j].rar)'
    <3>1. PICK q \in Rntis : q = ue[j].rar
      BY <1>2, <2>2 DEF AnyUe
    <3>2. AwaitsRequest(q)
      BY <2>2, <3>1 DEF DurationInv, RequestsInTime
    <3>3. AwaitsRequest(q)'
      BY <2>1, <3>2
    <3> QED
      BY <1>4, <3>1, <3>3 DEF AwaitsRequest
  <2>3. ASSUME NEW s \in timers', s.kind = "Request" PROVE AwaitsRequest(s.rnti)'
    BY <2>1, <2>3 DEF DurationInv, RequestsInTime, RrcInv, TimersAgree
  <2> QED
    BY <1>4, <2>2, <2>3 DEF RequestsInTime
<1>12. ManagerPhases'
  <2>1. ASSUME NEW q \in Rntis PROVE ManagerPhase(q)'
    <3>1. ManagerPhase(q)
      BY DEF DurationInv, ManagerPhases
    <3>2. CASE q = r
      BY <1>5, <1>7, <3>2 DEF ManagerPhase, Admitted, MaxBearersOfUe
    <3>3. CASE q # r
      <4>1. ueMap'[q] = ueMap[q] /\ srb1Down'[q] = srb1Down[q] /\ srb1Up'[q] = srb1Up[q]
        BY <1>5, <3>3
      <4>2. SetupPhase(q) => SetupPhase(q)'
        BY <1>4, <4>1 DEF SetupPhase
      <4> QED
        BY <3>1, <4>1, <4>2 DEF ManagerPhase, NoBearersYet, OnlyCompletions
    <3> QED
      BY <3>2, <3>3
  <2> QED
    BY <2>1 DEF ManagerPhases
<1>13. SetupInTime'
  <2> SUFFICES ASSUME InTimeForSetup PROVE SetupInTime'
    BY DEF SetupInTime, InTimeForSetup
  <2>1. ASSUME NEW s \in timers', s.kind = "SetupTimeout" PROVE GuardsSetup(s)'
    <3>1. s \in timers /\ GuardsSetup(s) /\ s.rnti \in Rntis
      BY <2>1 DEF DurationInv, SetupInTime, CellTimersAgree, GuardKind
    <3>2. CASE s.rnti = r
      BY <1>5, <1>6, <1>7, <3>2 DEF GuardsSetup
    <3>3. CASE s.rnti # r
      BY <1>5, <1>6, <3>1, <3>3 DEF GuardsSetup
    <3> QED
      BY <3>2, <3>3
  <2>2. ASSUME NEW j \in Imsis, ue[j].state = "CONNECTED_NORMALLY" PROVE HasUeManager(ue[j].macRnti)'
    <3>1. PICK q \in Rntis : q = ue[j].macRnti /\ ueMap[q].state # "NONE"
      BY <2>2 DEF DurationInv, SetupInTime, HasUeManager
    <3>2. ueMap[q].imsi = j /\ j # 0
      BY <2>2, <3>1, ImsiIsNat DEF RrcInv, UesAgree, HasUeManager
    <3>3. q # r
      <4> SUFFICES ASSUME q = r PROVE FALSE
        OBVIOUS
      <4>1. ueMap[r].state \in Admitted
        BY <1>1, <3>2 DEF RrcInv, ManagersAgree, ManagerAgrees
      <4>2. ueMap[r].state = "CONNECTION_SETUP" /\ t.kind = "SetupTimeout"
        BY <1>8, <4>1 DEF Admitted
      <4>3. SetupPhase(r)
        BY <1>1, <4>2 DEF DurationInv, ManagerPhases, ManagerPhase
      <4>4. srb1Up[r] # << >>
        BY <2>2, <3>1, <3>2, <4>3 DEF SetupPhase
      <4>5. t.left > srb1Up[r][1].left
        BY <1>8, <4>2, <4>4 DEF DurationInv, SetupInTime, GuardsSetup
      <4>6. srb1Up[r] \in Seq(UpMessage) /\ 1 \in 1..Len(srb1Up[r])
        BY <1>1, <4>3, <4>4 DEF RrcInv, QueueShape, SetupPhase
      <4>7. srb1Up[r][1] \in UpMessage
        BY <4>6, ElementOfSeq
      <4>8. srb1Up[r][1].left \in Nat
        BY <4>7 DEF UpMessage
      <4> QED
        BY <1>8, <4>5, <4>8
    <3> QED
      BY <1>4, <1>5, <3>1, <3>3 DEF HasUeManager
  <2> QED
    BY <1>4, <2>1, <2>2 DEF SetupInTime
<1>14. ReleasesAreOfConnected'
  BY <1>4 DEF DurationInv, ReleasesAreOfConnected, Intact, Releases
<1>15. ContextSetupInTime'
  <2>1. ASSUME NEW j \in Imsis, NEW d \in Nat, AwaitsSetup(j, d) PROVE AwaitsSetup(j, d)'
    <3>1. PICK q \in Rntis : q = epcRnti[j] /\ ueMap[q].state \in Admitted
      BY <2>1, AwaitingContext
    <3>2. q # r
      <4> SUFFICES ASSUME q = r PROVE FALSE
        OBVIOUS
      <4>1. t.kind = "SetupTimeout"
        BY <1>8, <3>1 DEF Admitted
      <4>2. t.left > d
        BY <1>8, <2>1, <3>1, <4>1 DEF AwaitsSetup
      <4> QED
        BY <1>8, <4>2
    <3>3. ueMap'[q] = ueMap[q] /\ srb1Down'[q] = srb1Down[q]
      BY <1>5, <3>2
    <3> QED
      BY <1>4, <2>1, <3>1, <3>3 DEF AwaitsSetup, HasUeManager, NoBearersYet, Intact, Releases
  <2> QED
    BY <1>4, <2>1, SetupsUnderWayKeep DEF DurationInv
<1>16. ReleasesInTime'
  <2>1. ASSUME NEW j \in Imsis, ue[j].macRnti # 0, ReleasesAreKnown(j) PROVE ReleasesAreKnown(j)'
    <3>1. PICK q \in Rntis : q = ue[j].macRnti
      BY <1>2, <2>1 DEF AnyUe
    <3>2. CASE q = r
      <4>1. DOMAIN srb1Down'[q] = {}
        BY <1>5, <3>2
      <4> QED
        BY <1>4, <3>1, <4>1 DEF ReleasesAreKnown
    <3>3. CASE q # r
      <4>1. ueMap'[q] = ueMap[q] /\ srb1Down'[q] = srb1Down[q]
        BY <1>5, <3>3
      <4> QED
        BY <1>4, <2>1, <3>1, <4>1 DEF ReleasesAreKnown
    <3> QED
      BY <3>2, <3>3
  <2> QED
    BY <1>4, <2>1 DEF DurationInv, ReleasesInTime, InTimeForS1
<1>17. LcidsFit'
  <2> SUFFICES ASSUME MaxBearers < MaxBearersOfUe PROVE LcidsFit'
    BY DEF LcidsFit
  <2>1. ASSUME NEW q \in Rntis
        PROVE  /\ ueMap'[q].drbs \subseteq WithLcid
               /\ \A n \in DOMAIN srb1Down'[q] : srb1Down'[q][n].add \subseteq WithLcid
    <3>1. /\ ueMap[q].drbs \subseteq WithLcid
          /\ \A n \in DOMAIN srb1Down[q] : srb1Down[q][n].add \subseteq WithLcid
      BY DEF DurationInv, LcidsFit
    <3>2. CASE q = r
      BY <1>5, <1>7, <3>2
    <3>3. CASE q # r
      BY <1>5, <3>1, <3>3
    <3> QED
      BY <3>2, <3>3
  <2> QED
    BY <1>4, <2>1 DEF DurationInv, LcidsFit, Active
<1> QED
  BY <1>9, <1>10, <1>11, <1>12, <1>13, <1>14, <1>15, <1>16, <1>17 DEF DurationInv

--------------------------------------------------------------------------------
(* Messages of the radio.                                                  *)

(* A message of SRB0 or a timer that goes without effect.                  *)
LEMMA Srb0StepInTime ==
  ASSUME RrcInv, DurationInv, srb0' \subseteq srb0, timers' \subseteq timers,
         UNCHANGED <<epcVars, ue, enbVars, lastRnti, s1AppVars, srb1Down, srb1Up, s1Vars>>
  PROVE  DurationInv'
<1>1. UNCHANGED <<bearerCounter, bearersToBeActivated, ue, ueMap, lastRnti, epcRnti,
                  srb1Down, srb1Up, s1Up, s1Down>>
  BY DEF epcVars, enbVars, s1AppVars, s1Vars
<1>2. UePhases'
  BY <1>1 DEF DurationInv, UePhases, UePhase
<1>3. CellTimersAgree'
  BY <1>1 DEF DurationInv, CellTimersAgree, CellTimer
<1>4. RequestsInTime'
  BY <1>1 DEF DurationInv, RequestsInTime, AwaitsRequest, InTimeForRequest
<1>5. ManagerPhases'
  BY <1>1 DEF DurationInv, ManagerPhases, ManagerPhase, SetupPhase, NoBearersYet, OnlyCompletions
<1>6. SetupInTime'
  BY <1>1 DEF DurationInv, SetupInTime, GuardsSetup, InTimeForSetup, HasUeManager
<1>7. ReleasesAreOfConnected'
  BY <1>1 DEF DurationInv, ReleasesAreOfConnected, Intact, Releases
<1>8. ContextSetupInTime'
  <2>1. ASSUME NEW j \in Imsis, NEW d \in Nat, AwaitsSetup(j, d) PROVE AwaitsSetup(j, d)'
    BY <1>1, <2>1 DEF AwaitsSetup, HasUeManager, NoBearersYet, Intact, Releases
  <2> QED
    BY <1>1, <2>1, SetupsUnderWayKeep DEF DurationInv
<1>9. ReleasesInTime'
  BY <1>1 DEF DurationInv, ReleasesInTime, ReleasesAreKnown, InTimeForS1
<1>10. LcidsFit'
  BY <1>1 DEF DurationInv, LcidsFit, Active
<1> QED
  BY <1>2, <1>3, <1>4, <1>5, <1>6, <1>7, <1>8, <1>9, <1>10 DEF DurationInv

(* A connection setup finds a UeManager that waits for its completion.     *)
LEMMA SetupFinds ==
  ASSUME RrcInv, NEW i \in Imsis, NEW m \in srb0, m.msg = "Setup", m.rnti = ue[i].macRnti
  PROVE  /\ m.rnti \in Rntis /\ m.rnti # 0
         /\ ueMap[m.rnti].state \in Admitted /\ ueMap[m.rnti].imsi = i
         /\ ue[i].state = "IDLE_CONNECTING"
              => ueMap[m.rnti].state = "CONNECTION_SETUP" /\ srb1Up[m.rnti] = << >>
<1>1. m.rnti \in Rntis /\ m.rnti # 0
  BY DEF RrcInv, QueueShape, Srb0Message, Rntis
<1>2. ueMap[m.rnti].state \in Admitted
  BY DEF RrcInv, Srb0Agrees
<1>3. ManagerAgrees(m.rnti)
  BY <1>1 DEF RrcInv, ManagersAgree
<1>4. ueMap[m.rnti].imsi = i
  BY <1>1, <1>2, <1>3 DEF RrcInv, UesAgree, ManagerAgrees
<1> QED
  BY <1>1, <1>2, <1>3, <1>4 DEF ManagerAgrees

(* The UE is connected, and its completion has less to go than the timer   *)
(* of its context.                                                         *)
LEMMA SetupInTimeKeeps ==
  ASSUME RrcInv, DurationInv, NEW i \in Imsis, NEW m \in srb0,
         m.msg = "Setup", m.rnti = ue[i].macRnti, ue[i].state = "IDLE_CONNECTING",
         ue' = [ue EXCEPT ![i] = Activated([ue[i] EXCEPT !.state = "CONNECTED_NORMALLY"])],
         timers' = timers \ OfImsi("T300", i),
         SendUp(ue[i].rnti, "SetupCompleted"),
         srb0' \subseteq srb0,
         UNCHANGED <<epcVars, enbVars, lastRnti, s1AppVars, srb1Down, s1Vars>>
  PROVE  DurationInv'
<1> DEFINE r == m.rnti
           v == [ue[i] EXCEPT !.state = "CONNECTED_NORMALLY"]
           u == Activated(v)
           done == [msg |-> "SetupCompleted", left |-> RadioDelay]
<1>1. UNCHANGED <<bearerCounter, bearersToBeActivated, ueMap, lastRnti, epcRnti,
                  srb1Down, s1Up, s1Down>>
  BY DEF epcVars, enbVars, s1AppVars, s1Vars
<1>2. ue \in [Imsis -> AnyUe] /\ ue[i] \in AnyUe /\ ueMap \in [Rntis -> AnyManager]
      /\ srb1Up \in [Rntis -> Seq(UpMessage)]
  BY DEF RrcInv, RrcShape, QueueShape
<1>3. /\ r \in Rntis /\ r # 0 /\ ueMap[r].imsi = i
      /\ ueMap[r].state = "CONNECTION_SETUP" /\ srb1Up[r] = << >>
  BY SetupFinds
<1>4. ue[i].macRnti = r /\ ue[i].rnti = r /\ HasUeManager(r)
  BY <1>3 DEF RrcInv, UesAgree, WithMacRnti, HasUeManager
<1>5. /\ u.state = "CONNECTED_NORMALLY" /\ u.macRnti = ue[i].macRnti /\ u.drbs = ue[i].drbs
      /\ u.rar = ue[i].rar /\ u.preamble = ue[i].preamble /\ u.active = TRUE /\ u.toActivate = 0
      /\ u.bidCounter = IF ue[i].active THEN ue[i].bidCounter ELSE ue[i].bidCounter + ue[i].toActivate
  <2>1. /\ v \in AnyUe /\ v.state = "CONNECTED_NORMALLY" /\ v.macRnti = ue[i].macRnti
        /\ v.drbs = ue[i].drbs /\ v.rar = ue[i].rar /\ v.preamble = ue[i].preamble
        /\ v.active = ue[i].active /\ v.bidCounter = ue[i].bidCounter
        /\ v.toActivate = ue[i].toActivate
    BY <1>2 DEF AnyUe, UeState
  <2> HIDE DEF v
  <2> QED
    BY <2>1 DEF Activated, AnyUe
<1>6. ue'[i] = u /\ \A j \in Imsis : j # i => ue'[j] = ue[j]
  BY <1>2
<1>7. srb1Up'[r] = << done >> /\ \A q \in Rntis : q # r => srb1Up'[q] = srb1Up[q]
  <2>1. srb1Up' = [srb1Up EXCEPT ![r] = Append(srb1Up[r], done)]
    BY <1>4 DEF SendUp
  <2>2. Append(<< >>, done) = << done >>
    OBVIOUS
  <2> HIDE DEF done
  <2> QED
    BY <1>2, <1>3, <2>1, <2>2
<1>8. done.msg = "SetupCompleted" /\ done.left = RadioDelay
  OBVIOUS
<1> HIDE DEF u, v, r, done
<1>9. timers' \subseteq timers /\ \A t \in timers' : t.kind = "T300" => t.imsi # i
  BY DEF OfImsi
<1>10. m \in srb0 /\ m.msg = "Setup" /\ m.rnti = r
  BY DEF r
<1>11. \A j \in Imsis : ue'[j].macRnti = ue[j].macRnti /\ ue'[j].drbs = ue[j].drbs
                         /\ ue'[j].rar = ue[j].rar /\ (j # i => ue'[j].state = ue[j].state)
  BY <1>5, <1>6
<1>12. ue'[i].state = "CONNECTED_NORMALLY"
  BY <1>5, <1>6
<1>13. UePhases'
  <2>1. ASSUME NEW j \in Imsis PROVE UePhase(j)'
    <3>1. UePhase(j)
      BY DEF DurationInv, UePhases
    <3>2. CASE j = i
      <4>1. bearerCounter[i] \in 0..MaxBearersOfUe
        BY DEF RrcInv, EpcInv, BearersCounted
      <4> QED
        BY <1>1, <1>2, <1>5, <1>6, <3>1, <3>2, <4>1 DEF UePhase, WithMacRnti, AnyUe, MaxBearersOfUe
    <3>3. CASE j # i
      BY <1>1, <1>6, <3>1, <3>3 DEF UePhase
    <3> QED
      BY <3>2, <3>3
  <2> QED
    BY <2>1 DEF UePhases
<1>14. CellTimersAgree'
  BY <1>1, <1>9 DEF DurationInv, CellTimersAgree, CellTimer
<1>15. RequestsInTime'
  BY <1>1, <1>9, <1>11 DEF DurationInv, RequestsInTime, AwaitsRequest, InTimeForRequest
<1>16. ManagerPhases'
  <2>1. ASSUME NEW q \in Rntis PROVE ManagerPhase(q)'
    <3>1. ManagerPhase(q) /\ ManagerAgrees(q)
      BY DEF DurationInv, ManagerPhases, RrcInv, ManagersAgree
    <3>2. CASE q = r
      <4>1. SetupPhase(r)
        BY <1>3, <3>1, <3>2 DEF ManagerPhase
      <4>2. Len(<< done >>) = 1 /\ << done >>[1] = done /\ << done >> # << >>
        OBVIOUS
      <4>3. ueMap'[r].imsi = i /\ srb1Up'[r] = << done >> /\ srb1Down'[r] = << >>
            /\ ue'[i].drbs = {} /\ ue'[i].macRnti = r
        BY <1>1, <1>3, <1>4, <1>7, <1>11, <4>1 DEF SetupPhase
      <4>4. SetupPhase(q)'
        BY <1>8, <3>2, <4>2, <4>3 DEF SetupPhase
      <4> QED
        BY <1>1, <1>3, <3>1, <3>2, <4>4 DEF ManagerPhase
    <3>3. CASE q # r
      <4>1. ueMap[q].imsi # 0 => ueMap[q].imsi \in Imsis
        BY <1>2 DEF AnyManager
      <4>2. SetupPhase(q) /\ ueMap[q].state = "CONNECTION_SETUP" => SetupPhase(q)'
        BY <1>1, <1>4, <1>7, <1>11, <3>1, <3>3, <4>1 DEF SetupPhase, ManagerAgrees, Admitted
      <4> QED
        BY <1>1, <1>7, <3>1, <3>3, <4>2 DEF ManagerPhase, NoBearersYet, OnlyCompletions
    <3> QED
      BY <3>2, <3>3
  <2> QED
    BY <2>1 DEF ManagerPhases
<1>17. SetupInTime'
  <2> SUFFICES ASSUME InTimeForSetup PROVE SetupInTime'
    BY DEF SetupInTime, InTimeForSetup
  <2>1. ASSUME NEW t \in timers', t.kind = "SetupTimeout" PROVE GuardsSetup(t)'
    <3>1. t \in timers /\ GuardsSetup(t) /\ t.rnti \in Rntis
      BY <1>9, <2>1 DEF DurationInv, SetupInTime, CellTimersAgree, GuardKind
    <3>2. CASE t.rnti = r
      <4>1. t.left > m.left + RadioDelay
        BY <1>10, <3>1, <3>2 DEF GuardsSetup
      <4>2. m.left \in Nat /\ RadioDelay \in Nat /\ t.left \in Nat
        BY <1>10, <3>1, RrcAssumption DEF RrcInv, QueueShape, Srb0Message, Timer
      <4>3. t.left > RadioDelay
        BY <4>1, <4>2
      <4>4. srb1Up'[r][1].left = RadioDelay
        BY <1>7, <1>8
      <4> QED
        BY <3>1, <3>2, <4>3, <4>4 DEF GuardsSetup
    <3>3. CASE t.rnti # r
      BY <1>1, <1>7, <3>1, <3>3 DEF GuardsSetup
    <3> QED
      BY <3>2, <3>3
  <2>2. ASSUME NEW j \in Imsis, ue'[j].state = "CONNECTED_NORMALLY" PROVE HasUeManager(ue[j].macRnti)'
    <3>1. HasUeManager(ue[j].macRnti)
      BY <1>4, <1>11, <2>2 DEF DurationInv, SetupInTime
    <3> QED
      BY <1>1, <1>11, <3>1 DEF HasUeManager
  <2> QED
    BY <2>1, <2>2 DEF SetupInTime
<1>18. ReleasesAreOfConnected'
  BY <1>1, <1>11, <1>12 DEF DurationInv, ReleasesAreOfConnected, Intact, Releases
<1>19. ContextSetupInTime'
  <2>1. ASSUME NEW j \in Imsis, NEW d \in Nat, AwaitsSetup(j, d) PROVE AwaitsSetup(j, d)'
    <3>1. ue'[j].state \in WithMacRnti
      BY <1>11, <1>12, <2>1 DEF AwaitsSetup, WithMacRnti
    <3> QED
      BY <1>1, <1>9, <1>11, <2>1, <3>1 DEF AwaitsSetup, HasUeManager, NoBearersYet, Intact, Releases
  <2> QED
    BY <1>1, <2>1, SetupsUnderWayKeep DEF DurationInv
<1>20. ReleasesInTime'
  <2>1. ASSUME NEW j \in Imsis, ReleasesAreKnown(j) PROVE ReleasesAreKnown(j)'
    <3>1. ue'[j].macRnti = ue[j].macRnti /\ ue'[j].drbs = ue[j].drbs
      BY <1>11
    <3> QED
      BY <1>1, <2>1, <3>1 DEF ReleasesAreKnown
  <2> QED
    BY <1>11, <2>1 DEF DurationInv, ReleasesInTime, InTimeForS1
<1>21. LcidsFit'
  BY <1>1 DEF DurationInv, LcidsFit, Active
<1> QED
  BY <1>13, <1>14, <1>15, <1>16, <1>17, <1>18, <1>19, <1>20, <1>21 DEF DurationInv

(* The elements of a sequence without its first.                           *)
LEMMA TailIs ==
  ASSUME NEW S, NEW s \in Seq(S), s # << >>
  PROVE  /\ Tail(s) \in Seq(S) /\ 1 \in DOMAIN s /\ Head(s) = s[1] /\ Head(s) \in S
         /\ Len(s) \in Nat /\ Len(Tail(s)) = Len(s) - 1
         /\ \A n \in DOMAIN Tail(s) : n \in Nat /\ n # 0 /\ n + 1 \in DOMAIN s /\ Tail(s)[n] = s[n + 1]
<1>1. /\ Tail(s) \in Seq(S) /\ Head(s) \in S /\ Len(Tail(s)) = Len(s) - 1 /\ Len(s) \in Nat
      /\ DOMAIN s = 1..Len(s) /\ DOMAIN Tail(s) = 1..Len(Tail(s))
      /\ \A n \in 1..Len(Tail(s)) : Tail(s)[n] = s[n + 1]
  BY HeadTailProperties, LenProperties
<1>2. Len(s) # 0
  BY EmptySeq
<1> QED
  BY <1>1, <1>2

(* A bearer of a later message is not released by this one.                *)
LEMMA ReconfigurationInTime ==
  ASSUME RrcInv, DurationInv, NEW i \in Imsis, NEW r, NEW m,
         r = ue[i].macRnti, m = Head(srb1Down[r]), r # 0, srb1Down[r] # << >>,
         ue[i].state = "CONNECTED_NORMALLY",
         ue' = [ue EXCEPT ![i].drbs = (@ \cup m.add) \ m.release],
         srb1Down' = [srb1Down EXCEPT ![r] = Tail(@)],
         SendUp(r, "ReconfigurationCompleted"),
         UNCHANGED <<epcVars, enbVars, lastRnti, s1AppVars, timers, srb0, s1Vars>>
  PROVE  DurationInv'
<1> DEFINE u == [ue[i] EXCEPT !.drbs = (ue[i].drbs \cup m.add) \ m.release]
           done == [msg |-> "ReconfigurationCompleted", left |-> RadioDelay]
           s == srb1Down[r]
<1>1. UNCHANGED <<bearerCounter, bearersToBeActivated, ueMap, lastRnti, epcRnti, timers, srb0,
                  s1Up, s1Down>>
  BY DEF epcVars, enbVars, s1AppVars, s1Vars
<1>2. ue \in [Imsis -> AnyUe] /\ ue[i] \in AnyUe /\ ueMap \in [Rntis -> AnyManager]
      /\ srb1Up \in [Rntis -> Seq(UpMessage)] /\ srb1Down \in [Rntis -> Seq(DownMessage)]
  BY DEF RrcInv, RrcShape, QueueShape
<1>3. r \in Rntis
  BY <1>2 DEF AnyUe
<1>4. /\ s \in Seq(DownMessage) /\ 1 \in DOMAIN s /\ m = s[1]
      /\ \A n \in DOMAIN Tail(s) : n \in Nat /\ n # 0 /\ n + 1 \in DOMAIN s /\ Tail(s)[n] = s[n + 1]
  BY <1>2, <1>3, TailIs
<1>5. ue'[i] = u /\ \A j \in Imsis : j # i => ue'[j] = ue[j]
  BY <1>2
<1>6. /\ u.drbs = (ue[i].drbs \cup m.add) \ m.release
      /\ u.state = ue[i].state /\ u.macRnti = ue[i].macRnti /\ u.rar = ue[i].rar
      /\ u.preamble = ue[i].preamble /\ u.active = ue[i].active
      /\ u.toActivate = ue[i].toActivate /\ u.bidCounter = ue[i].bidCounter
  BY <1>2 DEF AnyUe
<1>7. srb1Down'[r] = Tail(s) /\ \A q \in Rntis : q # r => srb1Down'[q] = srb1Down[q]
  BY <1>2, <1>3
<1>8. ueMap[r].imsi = i /\ ueMap[r].state \in Admitted \ {"CONNECTION_SETUP"} /\ HasUeManager(r)
  <2>1. ManagerAgrees(r) /\ ManagerPhase(r)
    BY <1>3 DEF RrcInv, ManagersAgree, DurationInv, ManagerPhases
  <2>2. ueMap[r].state \in Admitted /\ ueMap[r].state # "CONNECTION_SETUP"
    BY <2>1 DEF ManagerAgrees, ManagerPhase, SetupPhase
  <2>3. ueMap[r].imsi \in {0, i}
    BY DEF RrcInv, UesAgree
  <2> QED
    BY <1>3, <2>1, <2>2, <2>3 DEF ManagerAgrees, Admitted, HasUeManager
<1>9. srb1Up'[r] = Append(srb1Up[r], done) /\ \A q \in Rntis : q # r => srb1Up'[q] = srb1Up[q]
  <2>1. srb1Up' = [srb1Up EXCEPT ![r] = Append(srb1Up[r], done)]
    BY <1>8 DEF SendUp
  <2> HIDE DEF done
  <2> QED
    BY <1>2, <1>3, <2>1
<1>10. done \in UpMessage /\ done.msg = "ReconfigurationCompleted"
  BY RrcAssumption DEF UpMessage
<1> HIDE DEF u, done, s
<1>11. OnlyCompletions(srb1Up'[r])
  <2>1. OnlyCompletions(srb1Up[r])
    BY <1>3, <1>8 DEF DurationInv, ManagerPhases, ManagerPhase
  <2>2. srb1Up[r] \in Seq(UpMessage)
    BY <1>2, <1>3
  <2>3. DOMAIN srb1Up[r] = 1..Len(srb1Up[r]) /\ Len(srb1Up[r]) \in Nat
    BY <2>2, LenProperties
  <2>4. /\ DOMAIN Append(srb1Up[r], done) = 1..(Len(srb1Up[r]) + 1)
        /\ \A n \in 1..Len(srb1Up[r]) : Append(srb1Up[r], done)[n] = srb1Up[r][n]
        /\ Append(srb1Up[r], done)[Len(srb1Up[r]) + 1] = done
    BY <1>10, <2>2, AppendProperties
  <2>5. ASSUME NEW n \in 1..(Len(srb1Up[r]) + 1)
        PROVE  Append(srb1Up[r], done)[n].msg = "ReconfigurationCompleted"
    <3>1. CASE n = Len(srb1Up[r]) + 1
      BY <1>10, <2>4, <3>1
    <3>2. CASE n \in DOMAIN srb1Up[r]
      BY <2>1, <2>3, <2>4, <3>2 DEF OnlyCompletions
    <3> QED
      BY <2>3, <3>1, <3>2
  <2> QED
    BY <1>9, <2>4, <2>5 DEF OnlyCompletions
<1>12. \A j \in Imsis : /\ ue'[j].macRnti = ue[j].macRnti /\ ue'[j].rar = ue[j].rar
                        /\ ue'[j].state = ue[j].state
                        /\ j # i => ue'[j].drbs = ue[j].drbs /\ (ue[j].macRnti # r)
  <2>1. \A j \in Imsis : j # i => ue[j].macRnti # r
    BY DEF RrcInv, HandlesAreOwn
  <2> QED
    BY <1>5, <1>6, <2>1
<1>13. UePhases'
  <2>1. ASSUME NEW j \in Imsis PROVE UePhase(j)'
    <3>1. UePhase(j)
      BY DEF DurationInv, UePhases
    <3> QED
      BY <1>1, <1>5, <1>6, <3>1 DEF UePhase
  <2> QED
    BY <2>1 DEF UePhases
<1>14. CellTimersAgree'
  BY <1>1 DEF DurationInv, CellTimersAgree, CellTimer
<1>15. RequestsInTime'
  <2>1. RequestsInTime
    BY DEF DurationInv
  <2> QED
    BY ONLY <1>1, <1>12, <2>1 DEF RequestsInTime, AwaitsRequest, InTimeForRequest
<1>16. ManagerPhases'
  <2>1. ASSUME NEW q \in Rntis PROVE ManagerPhase(q)'
    <3>1. ManagerPhase(q) /\ ManagerAgrees(q)
      BY DEF DurationInv, ManagerPhases, RrcInv, ManagersAgree
    <3>2. CASE q = r
      <4>1. OnlyCompletions(srb1Up[q])'
        BY <1>11, <3>2 DEF OnlyCompletions
      <4> QED
        BY <1>1, <1>8, <3>1, <3>2, <4>1 DEF ManagerPhase, Admitted
    <3>3. CASE q # r
      <4>1. ueMap[q].imsi # 0 => ueMap[q].imsi \in Imsis
        BY <1>2 DEF AnyManager
      <4>2. srb1Down'[q] = srb1Down[q] /\ srb1Up'[q] = srb1Up[q]
        BY <1>7, <1>9, <3>3
      <4>3. SetupPhase(q) /\ ueMap[q].state = "CONNECTION_SETUP" => SetupPhase(q)'
        <5>1. ue[i].macRnti # q
          BY <1>3, <3>3
        <5>2. ueMap[q].state = "CONNECTION_SETUP" => ueMap[q].imsi \in Imsis
          BY ONLY <3>1, <4>1 DEF ManagerAgrees, Admitted
        <5> QED
          BY ONLY <1>1, <1>12, <4>2, <5>1, <5>2 DEF SetupPhase
      <4> QED
        BY <1>1, <3>1, <4>2, <4>3 DEF ManagerPhase, NoBearersYet, OnlyCompletions
    <3> QED
      BY <3>2, <3>3
  <2> QED
    BY <2>1 DEF ManagerPhases
<1>17. SetupInTime'
  <2> SUFFICES ASSUME InTimeForSetup PROVE SetupInTime'
    BY DEF SetupInTime, InTimeForSetup
  <2>1. ASSUME NEW t \in timers', t.kind = "SetupTimeout" PROVE GuardsSetup(t)'
    <3>1. t \in timers /\ GuardsSetup(t) /\ t.rnti \in Rntis
      BY <1>1, <2>1 DEF DurationInv, SetupInTime, CellTimersAgree, GuardKind
    <3>2. CASE t.rnti = r
      BY <1>1, <1>8, <3>1, <3>2 DEF GuardsSetup
    <3>3. CASE t.rnti # r
      BY <1>1, <1>9, <3>1, <3>3 DEF GuardsSetup
    <3> QED
      BY <3>2, <3>3
  <2>2. ASSUME NEW j \in Imsis, ue[j].state = "CONNECTED_NORMALLY" PROVE HasUeManager(ue[j].macRnti)'
    <3>1. HasUeManager(ue[j].macRnti)
      BY <2>2 DEF DurationInv, SetupInTime
    <3> QED
      BY <1>1, <1>12, <3>1 DEF HasUeManager
  <2> QED
    BY <1>12, <2>1, <2>2 DEF SetupInTime
<1>18. ReleasesAreOfConnected'
  BY <1>1, <1>12 DEF DurationInv, ReleasesAreOfConnected, Intact, Releases
<1>19. ContextSetupInTime'
  <2>1. ASSUME NEW j \in Imsis, NEW d \in Nat, AwaitsSetup(j, d) PROVE AwaitsSetup(j, d)'
    <3>1. PICK q \in Rntis : q = epcRnti[j]
      BY <2>1, AwaitingContext
    <3>2. q # r /\ j # i
      BY <2>1, <3>1 DEF AwaitsSetup
    <3>3. srb1Down'[q] = srb1Down[q]
      BY <1>7, <3>2
    <3> QED
      BY <1>1, <1>12, <2>1, <3>1, <3>2, <3>3
         DEF AwaitsSetup, HasUeManager, NoBearersYet, Intact, Releases
  <2> QED
    BY <1>1, <2>1, SetupsUnderWayKeep DEF DurationInv
<1>20. ReleasesInTime'
  <2>1. ASSUME NEW j \in Imsis, ue[j].macRnti # 0, ReleasesAreKnown(j) PROVE ReleasesAreKnown(j)'
    <3>1. CASE j = i
      <4>1. /\ \A n \in DOMAIN s : s[n].release \subseteq ue[i].drbs
                                   /\ s[n].release \cap ueMap[r].drbs = {}
            /\ \A k, n \in DOMAIN s : k # n => s[k].release \cap s[n].release = {}
        BY <2>1, <3>1 DEF ReleasesAreKnown, s
      <4>2. ASSUME NEW n \in DOMAIN Tail(s)
            PROVE  /\ Tail(s)[n].release \subseteq u.drbs
                   /\ Tail(s)[n].release \cap ueMap[r].drbs = {}
                   /\ n + 1 \in DOMAIN s /\ Tail(s)[n] = s[n + 1] /\ n \in Nat
        <5>1. n + 1 \in DOMAIN s /\ n + 1 # 1 /\ Tail(s)[n] = s[n + 1] /\ n \in Nat
          BY <1>4
        <5>2. s[n + 1].release \cap s[1].release = {}
          BY <1>4, <4>1, <5>1
        <5> QED
          BY <1>4, <1>6, <4>1, <5>1, <5>2
      <4>3. ASSUME NEW k \in DOMAIN Tail(s), NEW n \in DOMAIN Tail(s), k # n
            PROVE  Tail(s)[k].release \cap Tail(s)[n].release = {}
        <5>1. k + 1 # n + 1
          BY <4>2, <4>3
        <5> QED
          BY <4>1, <4>2, <5>1
      <4>4. srb1Down'[r] = Tail(s) /\ ue'[i].macRnti = r /\ ue'[i].drbs = u.drbs /\ ueMap' = ueMap
        BY <1>1, <1>5, <1>7, <1>12
      <4> QED
        BY <3>1, <4>2, <4>3, <4>4 DEF ReleasesAreKnown
    <3>2. CASE j # i
      <4>1. PICK q \in Rntis : q = ue[j].macRnti /\ q # r
        BY <1>2, <1>12, <2>1, <3>2 DEF AnyUe
      <4>2. srb1Down'[q] = srb1Down[q]
        BY <1>7, <4>1
      <4> QED
        BY ONLY <1>1, <1>12, <2>1, <3>2, <4>1, <4>2 DEF ReleasesAreKnown
    <3> QED
      BY <3>1, <3>2
  <2> QED
    BY <1>12, <2>1 DEF DurationInv, ReleasesInTime, InTimeForS1
<1>21. LcidsFit'
  <2> SUFFICES ASSUME MaxBearers < MaxBearersOfUe PROVE LcidsFit'
    BY DEF LcidsFit
  <2>1. ASSUME NEW q \in Rntis
        PROVE  \A n \in DOMAIN srb1Down'[q] : srb1Down'[q][n].add \subseteq WithLcid
    <3>1. \A n \in DOMAIN srb1Down[q] : srb1Down[q][n].add \subseteq WithLcid
      BY DEF DurationInv, LcidsFit
    <3>2. CASE q = r
      BY <1>4, <1>7, <3>1, <3>2 DEF s
    <3>3. CASE q # r
      BY <1>7, <3>1, <3>3
    <3> QED
      BY <3>2, <3>3
  <2> QED
    BY <1>1, <2>1 DEF DurationInv, LcidsFit, Active
<1> QED
  BY <1>13, <1>14, <1>15, <1>16, <1>17, <1>18, <1>19, <1>20, <1>21 DEF DurationInv

(* One more message on SRB1.                                               *)
LEMMA MessageAppended ==
  ASSUME RrcInv, NEW r \in Rntis, NEW d \in DownMessage, NEW s,
         s = Append(srb1Down[r], d)
  PROVE  /\ DOMAIN s = DOMAIN srb1Down[r] \cup {Len(srb1Down[r]) + 1}
         /\ Len(srb1Down[r]) + 1 \notin DOMAIN srb1Down[r]
         /\ s[Len(srb1Down[r]) + 1] = d
         /\ \A n \in DOMAIN srb1Down[r] : s[n] = srb1Down[r][n]
<1>1. srb1Down[r] \in Seq(DownMessage)
  BY DEF RrcInv, QueueShape
<1>2. DOMAIN srb1Down[r] = 1..Len(srb1Down[r]) /\ Len(srb1Down[r]) \in Nat
  BY <1>1, LenProperties
<1>3. /\ DOMAIN s = 1..(Len(srb1Down[r]) + 1)
      /\ \A n \in 1..Len(srb1Down[r]) : s[n] = srb1Down[r][n]
      /\ s[Len(srb1Down[r]) + 1] = d
  BY <1>1, AppendProperties
<1> QED
  BY <1>2, <1>3

(* A completion ends the setup and its timer, or the reconfiguration; what *)
(* the cell sends then adds bearers only.                                  *)
LEMMA CompletionInTime ==
  ASSUME RrcInv, DurationInv, NEW r \in Rntis, Received(r), OnlyTheManager, timers' \subseteq timers,
         \/ /\ ToConnectedNormally(r)
            /\ ueMap[r].state \in {"CONNECTION_SETUP", "CONNECTION_RECONFIGURATION"}
            /\ ueMap[r].state = "CONNECTION_SETUP" =>
                 \A t \in timers' : t.kind = "SetupTimeout" => t.rnti # r
         \/ ueMap[r].state = "CONNECTED_NORMALLY" /\ UNCHANGED <<ueMap, srb1Down>>
  PROVE  DurationInv'
<1>1. UNCHANGED <<bearerCounter, bearersToBeActivated, ue, lastRnti, epcRnti, srb0, s1Up, s1Down>>
  BY DEF OnlyTheManager, epcVars, s1AppVars, s1Vars
<1>2. ue \in [Imsis -> AnyUe] /\ ueMap \in [Rntis -> AnyManager] /\ ueMap[r] \in AnyManager
      /\ srb1Up \in [Rntis -> Seq(UpMessage)] /\ srb1Down \in [Rntis -> Seq(DownMessage)]
  BY DEF RrcInv, RrcShape, QueueShape
<1> DEFINE c == [ueMap[r] EXCEPT !.state = "CONNECTED_NORMALLY", !.toStart = {}]
           d == Reconfiguration(c.drbs, {})
<1>3. /\ c.state = "CONNECTED_NORMALLY" /\ c.drbs = ueMap[r].drbs /\ c.imsi = ueMap[r].imsi
      /\ c.lastDrbid = ueMap[r].lastDrbid /\ c.pending = ueMap[r].pending /\ c.toStart = {}
      /\ c \in AnyManager
  BY <1>2 DEF AnyManager, ManagerState
<1>4. d \in DownMessage /\ d.add = ueMap[r].drbs /\ d.release = {}
  <2>1. ueMap[r].drbs \in SUBSET Bearers
    BY <1>2 DEF AnyManager
  <2> QED
    BY <1>3, <2>1, RrcAssumption DEF Reconfiguration, DownMessage
<1>5. \/ ueMap' = [ueMap EXCEPT ![r] = c] /\ srb1Down' = srb1Down /\ ueMap[r].pending = FALSE
      \/ /\ ueMap' = [ueMap EXCEPT ![r] = Reconfigured(c)] /\ ueMap[r].pending
         /\ srb1Down' = [srb1Down EXCEPT ![r] = Append(srb1Down[r], d)]
      \/ ueMap' = ueMap /\ srb1Down' = srb1Down /\ ueMap[r].state = "CONNECTED_NORMALLY"
  <2>1. CASE ToConnectedNormally(r)
    <3>1. c.pending \in BOOLEAN
      BY <1>3 DEF AnyManager
    <3>2. /\ ueMap' = [ueMap EXCEPT ![r] = IF c.pending THEN Reconfigured(c) ELSE c]
          /\ srb1Down' = IF c.pending THEN [srb1Down EXCEPT ![r] = Append(@, Reconfiguration(c.drbs, {}))]
                                      ELSE srb1Down
      BY <2>1 DEF ToConnectedNormally
    <3> HIDE DEF c
    <3> QED
      BY <1>3, <3>1, <3>2
  <2>2. CASE ueMap[r].state = "CONNECTED_NORMALLY" /\ UNCHANGED <<ueMap, srb1Down>>
    BY <2>2
  <2> QED
    BY <2>1, <2>2
<1> HIDE DEF c, d
<1>6. \A q \in Rntis : q # r => ueMap'[q] = ueMap[q] /\ srb1Down'[q] = srb1Down[q]
  BY <1>2, <1>5
<1>7. /\ Reconfigured(c).state = "CONNECTION_RECONFIGURATION" /\ Reconfigured(c).imsi = c.imsi
      /\ Reconfigured(c).drbs = c.drbs /\ Reconfigured(c).lastDrbid = c.lastDrbid
  BY <1>3 DEF Reconfigured, AnyManager
<1>8. /\ ueMap'[r].state \in {"CONNECTED_NORMALLY", "CONNECTION_RECONFIGURATION"}
      /\ ueMap'[r].drbs = ueMap[r].drbs /\ ueMap'[r].imsi = ueMap[r].imsi
      /\ ueMap'[r].lastDrbid = ueMap[r].lastDrbid
  BY <1>2, <1>3, <1>5, <1>7
<1>9. srb1Down'[r] = srb1Down[r] \/ srb1Down'[r] = Append(srb1Down[r], d)
  BY <1>2, <1>5
<1>10. NoBearersYet(ueMap[r]) => NoBearersYet(ueMap'[r]) /\ srb1Down'[r] = srb1Down[r]
  BY <1>2, <1>3, <1>5 DEF NoBearersYet
<1>11. srb1Up[r] # << >> /\ srb1Up'[r] = Tail(srb1Up[r])
       /\ \A q \in Rntis : q # r => srb1Up'[q] = srb1Up[q]
  BY <1>2 DEF Received
<1>12. ueMap[r].state \in Admitted /\ ueMap'[r].state \in Admitted \ {"CONNECTION_SETUP"}
  BY <1>8 DEF Admitted
<1>13. \A t \in timers' : t.kind \in GuardKind => t.rnti # r
  BY <1>12 DEF DurationInv, CellTimersAgree, CellTimer, GuardKind, Admitted
<1>14. OnlyCompletions(srb1Up'[r])
  <2>1. ManagerPhase(r)
    BY DEF DurationInv, ManagerPhases
  <2>2. srb1Up[r] \in Seq(UpMessage)
    BY <1>2
  <2>3. /\ Len(Tail(srb1Up[r])) = Len(srb1Up[r]) - 1 /\ Tail(srb1Up[r]) \in Seq(UpMessage)
        /\ \A n \in DOMAIN Tail(srb1Up[r]) : n + 1 \in DOMAIN srb1Up[r]
                                             /\ Tail(srb1Up[r])[n] = srb1Up[r][n + 1]
    BY <1>11, <2>2, TailIs
  <2>4. CASE ueMap[r].state = "CONNECTION_SETUP"
    <3>1. Len(Tail(srb1Up[r])) = 0
      BY <1>11, <2>1, <2>3, <2>4 DEF ManagerPhase, SetupPhase
    <3>2. DOMAIN Tail(srb1Up[r]) = {}
      BY <2>3, <3>1, LenProperties
    <3> QED
      BY <1>11, <3>2 DEF OnlyCompletions
  <2>5. CASE ueMap[r].state # "CONNECTION_SETUP"
    BY <1>11, <1>12, <2>1, <2>3, <2>5 DEF ManagerPhase, OnlyCompletions
  <2> QED
    BY <2>4, <2>5
<1>15. UePhases'
  BY <1>1 DEF DurationInv, UePhases, UePhase
<1>16. CellTimersAgree'
  <2>1. ASSUME NEW s \in timers', s.kind \in GuardKind PROVE s.rnti \in Rntis /\ CellTimer(s)'
    <3>1. s \in timers /\ s.rnti \in Rntis /\ CellTimer(s) /\ s.rnti # r
      BY <1>13, <2>1 DEF DurationInv, CellTimersAgree
    <3> QED
      BY <1>1, <1>6, <3>1 DEF CellTimer
  <2> QED
    BY <2>1 DEF DurationInv, CellTimersAgree
<1>17. RequestsInTime'
  <2> SUFFICES ASSUME InTimeForRequest PROVE RequestsInTime'
    BY DEF RequestsInTime, InTimeForRequest
  <2>1. ASSUME NEW q \in Rntis, AwaitsRequest(q) PROVE AwaitsRequest(q)'
    <3>1. q # r
      BY <1>12, <2>1 DEF AwaitsRequest, Admitted
    <3> QED
      BY <1>6, <2>1, <3>1 DEF AwaitsRequest
  <2>2. ASSUME NEW j \in Imsis, ue[j].rar # 0 PROVE AwaitsRequest(ue[j].rar)'
    <3>1. PICK q \in Rntis : q = ue[j].rar
      BY <1>2, <2>2 DEF AnyUe
    <3>2. AwaitsRequest(q)
      BY <2>2, <3>1 DEF DurationInv, RequestsInTime
    <3>3. AwaitsRequest(q)'
      BY <2>1, <3>2
    <3> QED
      BY <1>1, <3>1, <3>3 DEF AwaitsRequest
  <2>3. ASSUME NEW s \in timers', s.kind = "Request" PROVE AwaitsRequest(s.rnti)'
    BY <2>1, <2>3 DEF DurationInv, RequestsInTime, RrcInv, TimersAgree
  <2> QED
    BY <1>1, <2>2, <2>3 DEF RequestsInTime
<1>18. ManagerPhases'
  <2>1. ASSUME NEW q \in Rntis PROVE ManagerPhase(q)'
    <3>1. ManagerPhase(q)
      BY DEF DurationInv, ManagerPhases
    <3>2. CASE q = r
      <4>1. OnlyCompletions(srb1Up[q])'
        BY <1>14, <3>2 DEF OnlyCompletions
      <4> QED
        BY <1>8, <3>1, <3>2, <4>1 DEF ManagerPhase
    <3>3. CASE q # r
      <4>1. ueMap'[q] = ueMap[q] /\ srb1Down'[q] = srb1Down[q] /\ srb1Up'[q] = srb1Up[q]
        BY <1>6, <1>11, <3>3
      <4>2. SetupPhase(q) => SetupPhase(q)'
        BY <1>1, <4>1 DEF SetupPhase
      <4> QED
        BY <3>1, <4>1, <4>2 DEF ManagerPhase, NoBearersYet, OnlyCompletions
    <3> QED
      BY <3>2, <3>3
  <2> QED
    BY <2>1 DEF ManagerPhases
<1>19. SetupInTime'
  <2> SUFFICES ASSUME InTimeForSetup PROVE SetupInTime'
    BY DEF SetupInTime, InTimeForSetup
  <2>1. ASSUME NEW t \in timers', t.kind = "SetupTimeout" PROVE GuardsSetup(t)'
    <3>1. t \in timers /\ GuardsSetup(t) /\ t.rnti \in Rntis /\ t.rnti # r
      BY <1>13, <2>1 DEF DurationInv, SetupInTime, CellTimersAgree, GuardKind
    <3> QED
      BY <1>1, <1>6, <1>11, <3>1 DEF GuardsSetup
  <2>2. ASSUME NEW j \in Imsis, ue[j].state = "CONNECTED_NORMALLY" PROVE HasUeManager(ue[j].macRnti)'
    <3>1. HasUeManager(ue[j].macRnti)
      BY <2>2 DEF DurationInv, SetupInTime
    <3> QED
      BY <1>1, <1>6, <1>8, <3>1 DEF HasUeManager
  <2> QED
    BY <1>1, <2>1, <2>2 DEF SetupInTime
<1>20. ReleasesAreOfConnected'
  BY <1>1 DEF DurationInv, ReleasesAreOfConnected, Intact, Releases
<1>21. ContextSetupInTime'
  <2>1. ASSUME NEW j \in Imsis, NEW k \in Nat, AwaitsSetup(j, k) PROVE AwaitsSetup(j, k)'
    <3>1. PICK q \in Rntis : q = epcRnti[j]
      BY <2>1, AwaitingContext
    <3>2. HasUeManager(q) /\ NoBearersYet(ueMap[q]) /\ srb1Down[q] = << >>
      BY <2>1, <3>1 DEF AwaitsSetup
    <3>3. HasUeManager(q)' /\ NoBearersYet(ueMap'[q]) /\ srb1Down'[q] = << >>
      <4>1. CASE q = r
        BY <1>8, <1>10, <3>2, <4>1 DEF HasUeManager
      <4>2. CASE q # r
        BY <1>6, <3>2, <4>2 DEF HasUeManager
      <4> QED
        BY <4>1, <4>2
    <3>4. HasUeManager(epcRnti[j])' /\ NoBearersYet(ueMap[epcRnti[j]])'
      BY <1>1, <3>1, <3>3 DEF HasUeManager, NoBearersYet
    <3> QED
      BY <1>1, <2>1, <3>1, <3>3, <3>4 DEF AwaitsSetup, Intact, Releases
  <2> QED
    BY <1>1, <2>1, SetupsUnderWayKeep DEF DurationInv
<1>22. ReleasesInTime'
  <2>1. ASSUME NEW j \in Imsis, ue[j].macRnti # 0, ReleasesAreKnown(j) PROVE ReleasesAreKnown(j)'
    <3>1. PICK q \in Rntis : q = ue[j].macRnti
      BY <1>2, <2>1 DEF AnyUe
    <3>2. ueMap'[q].drbs = ueMap[q].drbs
      BY <1>6, <1>8
    <3>3. CASE srb1Down'[q] = srb1Down[q]
      BY <1>1, <2>1, <3>1, <3>2, <3>3 DEF ReleasesAreKnown
    <3>4. CASE srb1Down'[q] # srb1Down[q]
      <4>1. q = r /\ srb1Down'[r] = Append(srb1Down[r], d)
        BY <1>6, <1>9, <3>4
      <4>2. PICK s : s = srb1Down'[r]
        OBVIOUS
      <4>3. /\ DOMAIN s = DOMAIN srb1Down[r] \cup {Len(srb1Down[r]) + 1}
            /\ s[Len(srb1Down[r]) + 1].release = {}
            /\ \A n \in DOMAIN srb1Down[r] : s[n] = srb1Down[r][n]
        BY <1>4, <4>1, <4>2, MessageAppended
      <4>4. /\ \A n \in DOMAIN srb1Down[r] : /\ srb1Down[r][n].release \subseteq ue[j].drbs
                                             /\ srb1Down[r][n].release \cap ueMap[r].drbs = {}
            /\ \A m, n \in DOMAIN srb1Down[r] :
                 m # n => srb1Down[r][m].release \cap srb1Down[r][n].release = {}
        BY <2>1, <3>1, <4>1 DEF ReleasesAreKnown
      <4>5. \A n \in DOMAIN s : s[n].release \subseteq ue[j].drbs /\ s[n].release \cap ueMap[r].drbs = {}
        BY <4>3, <4>4
      <4>6. ASSUME NEW m \in DOMAIN s, NEW n \in DOMAIN s, m # n
            PROVE  s[m].release \cap s[n].release = {}
        BY <4>3, <4>4, <4>6
      <4> QED
        BY <1>1, <3>1, <3>2, <4>1, <4>2, <4>5, <4>6 DEF ReleasesAreKnown
    <3> QED
      BY <3>3, <3>4
  <2> QED
    BY <1>1, <2>1 DEF DurationInv, ReleasesInTime, InTimeForS1
<1>23. LcidsFit'
  <2> SUFFICES ASSUME MaxBearers < MaxBearersOfUe PROVE LcidsFit'
    BY DEF LcidsFit
  <2>1. ASSUME NEW q \in Rntis
        PROVE  /\ ueMap'[q].drbs \subseteq WithLcid
               /\ \A n \in DOMAIN srb1Down'[q] : srb1Down'[q][n].add \subseteq WithLcid
    <3>1. /\ ueMap[q].drbs \subseteq WithLcid
          /\ \A n \in DOMAIN srb1Down[q] : srb1Down[q][n].add \subseteq WithLcid
      BY DEF DurationInv, LcidsFit
    <3>2. ueMap'[q].drbs \subseteq WithLcid
      BY <1>6, <1>8, <3>1
    <3>3. CASE srb1Down'[q] = srb1Down[q]
      BY <3>1, <3>2, <3>3
    <3>4. CASE srb1Down'[q] # srb1Down[q]
      <4>1. q = r /\ srb1Down'[r] = Append(srb1Down[r], d)
        BY <1>6, <1>9, <3>4
      <4>2. PICK s : s = srb1Down'[r]
        OBVIOUS
      <4>3. /\ DOMAIN s = DOMAIN srb1Down[r] \cup {Len(srb1Down[r]) + 1}
            /\ s[Len(srb1Down[r]) + 1].add = ueMap[r].drbs
            /\ \A n \in DOMAIN srb1Down[r] : s[n] = srb1Down[r][n]
        BY <1>4, <4>1, <4>2, MessageAppended
      <4> QED
        BY <3>1, <3>2, <4>1, <4>2, <4>3
    <3> QED
      BY <3>3, <3>4
  <2> QED
    BY <1>1, <2>1 DEF DurationInv, LcidsFit, Active
<1> QED
  BY <1>15, <1>16, <1>17, <1>18, <1>19, <1>20, <1>21, <1>22, <1>23 DEF DurationInv

--------------------------------------------------------------------------------
(* The S1-AP link.                                                         *)

(* The first message is taken from the link to the MME.                    *)
LEMMA RequestTaken ==
  ASSUME RrcInv, s1Up # << >>, s1Up' = Tail(s1Up)
  PROVE  /\ 1 \in DOMAIN s1Up /\ Head(s1Up) = s1Up[1]
         /\ \A n \in DOMAIN s1Up' : n \in Nat /\ n + 1 # 1 /\ n + 1 \in DOMAIN s1Up /\ s1Up'[n] = s1Up[n + 1]
         /\ \A n \in Requests' : n \in DOMAIN s1Up' /\ n + 1 \in Requests
         /\ \A j : Releases(j) = {} => Releases(j)' = {}
<1>1. /\ 1 \in DOMAIN s1Up /\ Head(s1Up) = s1Up[1]
      /\ \A n \in DOMAIN s1Up' : n \in Nat /\ n # 0 /\ n + 1 \in DOMAIN s1Up /\ s1Up'[n] = s1Up[n + 1]
  BY S1Types, TailIs
<1>2. \A n \in DOMAIN s1Up' : n + 1 # 1
  BY <1>1
<1>3. \A n \in Requests' : n \in DOMAIN s1Up' /\ n + 1 \in Requests
  BY <1>1 DEF Requests
<1>4. ASSUME NEW j, Releases(j) = {} PROVE Releases(j)' = {}
  <2>1. ASSUME NEW n \in Releases(j)' PROVE FALSE
    <3>1. n + 1 \in Releases(j)
      BY <1>1, <2>1 DEF Releases
    <3> QED
      BY <1>4, <3>1
  <2> QED
    BY <2>1
<1> QED
  BY <1>1, <1>2, <1>3, <1>4

(* The first message is taken from the link to the cell.                   *)
LEMMA AnswerTaken ==
  ASSUME RrcInv, s1Down # << >>, s1Down' = Tail(s1Down)
  PROVE  /\ 1 \in DOMAIN s1Down /\ Head(s1Down) = s1Down[1]
         /\ \A n \in DOMAIN s1Down' : n \in Nat /\ n + 1 # 1 /\ n + 1 \in DOMAIN s1Down
                                      /\ s1Down'[n] = s1Down[n + 1]
<1>1. /\ 1 \in DOMAIN s1Down /\ Head(s1Down) = s1Down[1]
      /\ \A n \in DOMAIN s1Down' : n \in Nat /\ n # 0 /\ n + 1 \in DOMAIN s1Down
                                   /\ s1Down'[n] = s1Down[n + 1]
  BY S1Types, TailIs
<1>2. \A n \in DOMAIN s1Down' : n + 1 # 1
  BY <1>1
<1> QED
  BY <1>1, <1>2

(* A step on the links, with what the MME has of an IMSI.                  *)
LEMMA LinkStepInTime ==
  ASSUME DurationInv,
         UNCHANGED <<ue, ueMap, lastRnti, timers, srb0, srb1Down, srb1Up>>,
         \A i \in Imsis : ~ue[i].active => bearerCounter'[i] = bearerCounter[i],
         ReleasesAreOfConnected', ContextSetupInTime',
         MaxBearers < MaxBearersOfUe =>
           /\ \A i \in Imsis : Active(i)' \subseteq WithLcid
           /\ \A n \in DOMAIN s1Down' : \A k \in DOMAIN s1Down'[n].bearers :
                s1Down'[n].bearers[k] \in WithLcid
  PROVE  DurationInv'
<1>1. UePhases' /\ CellTimersAgree' /\ RequestsInTime'
  BY DEF DurationInv, UePhases, UePhase, CellTimersAgree, CellTimer, RequestsInTime, AwaitsRequest,
         InTimeForRequest
<1>2. ManagerPhases'
  BY DEF DurationInv, ManagerPhases, ManagerPhase, SetupPhase, NoBearersYet, OnlyCompletions
<1>3. SetupInTime'
  BY DEF DurationInv, SetupInTime, GuardsSetup, HasUeManager, InTimeForSetup
<1>4. ReleasesInTime'
  BY DEF DurationInv, ReleasesInTime, ReleasesAreKnown, InTimeForS1
<1>5. LcidsFit'
  BY DEF DurationInv, LcidsFit
<1> QED
  BY <1>1, <1>2, <1>3, <1>4, <1>5 DEF DurationInv

(* The MME answers with the bearers of the IMSI, which are in order as     *)
(* long as none was released.                                              *)
LEMMA InitialUeMessageInTime ==
  ASSUME RrcInv, DurationInv, MmeRecvInitialUeMessage
  PROVE  DurationInv'
<1> DEFINE i == Head(s1Up).imsi
           m == [imsi |-> i, bearers |-> bearersToBeActivated[i], left |-> S1Delay]
<1>1. /\ s1Up # << >> /\ Head(s1Up).left = 0 /\ Head(s1Up).msg = "InitialUeMessage"
      /\ s1Up' = Tail(s1Up) /\ s1Down' = Append(s1Down, m)
      /\ UNCHANGED <<bearerCounter, bearersToBeActivated, ue, ueMap, lastRnti, epcRnti, timers,
                     srb0, srb1Down, srb1Up>>
  BY DEF MmeRecvInitialUeMessage, CreateSession, enbVars, s1AppVars, radioVars
<1>2. /\ 1 \in DOMAIN s1Up /\ Head(s1Up) = s1Up[1]
      /\ \A n \in DOMAIN s1Up' : n \in Nat /\ n + 1 # 1 /\ n + 1 \in DOMAIN s1Up /\ s1Up'[n] = s1Up[n + 1]
      /\ \A n \in Requests' : n \in DOMAIN s1Up' /\ n + 1 \in Requests
      /\ \A j : Releases(j) = {} => Releases(j)' = {}
  BY <1>1, RequestTaken
<1>3. i \in Imsis /\ 1 \in Requests /\ s1Up[1].left = 0 /\ s1Up[1].imsi = i
  BY <1>1, <1>2, S1Types DEF Requests
<1>4. m.imsi = i /\ m.bearers = bearersToBeActivated[i] /\ m.left = S1Delay
  OBVIOUS
<1>5. m \in SetupRequest
  <2>1. bearersToBeActivated[i] \in Seq(BearersOf(i))
    BY <1>3 DEF RrcInv, EpcInv, BearersCounted
  <2>2. bearersToBeActivated[i] \in Seq(Bearers)
    <3>1. \A n \in 1..Len(bearersToBeActivated[i]) : bearersToBeActivated[i][n] \in Bearers
      BY <1>3, <2>1, BearersOfAreBearers, ElementOfSeq
    <3> QED
      BY <2>1, <3>1, SeqDef, LenProperties
  <2> QED
    BY <1>3, <2>1, <2>2, RrcAssumption DEF SetupRequest, S1DownMessage
<1> HIDE DEF m, i
<1>6. /\ DOMAIN s1Down' = DOMAIN s1Down \cup {Len(s1Down) + 1}
      /\ \A n \in DOMAIN s1Down : n # Len(s1Down) + 1 /\ s1Down'[n] = s1Down[n]
      /\ s1Down'[Len(s1Down) + 1] = m
  <2>1. s1Down \in Seq(SetupRequest) /\ Len(s1Down) \in Nat /\ DOMAIN s1Down = 1..Len(s1Down)
    BY S1Types
  <2>2. /\ DOMAIN s1Down' = 1..(Len(s1Down) + 1)
        /\ \A n \in 1..Len(s1Down) : s1Down'[n] = s1Down[n]
        /\ s1Down'[Len(s1Down) + 1] = m
    BY <1>1, <1>5, <2>1, AppendProperties
  <2> QED
    BY <2>1, <2>2
<1>7. \A i1 \in Imsis : Intact(i1)' <=> Intact(i1)
  BY <1>1 DEF Intact
<1>8. ReleasesAreOfConnected'
  BY <1>1, <1>2, <1>7 DEF DurationInv, ReleasesAreOfConnected
<1>9. ContextSetupInTime'
  <2> SUFFICES ASSUME InTimeForS1 PROVE ContextSetupInTime'
    BY DEF ContextSetupInTime, InTimeForS1
  <2>1. OneSetupOfEach
    BY DEF DurationInv, ContextSetupInTime
  <2>2. OneSetupOfEach'
    <3>1. ASSUME NEW k \in Requests', NEW n \in Requests', s1Up'[k].imsi = s1Up'[n].imsi
          PROVE  k = n
      <4>1. k + 1 = n + 1 /\ k \in Nat /\ n \in Nat
        BY <1>2, <2>1, <3>1 DEF OneSetupOfEach
      <4> QED
        BY <4>1
    <3>2. \A n \in DOMAIN s1Down : s1Down[n].imsi # i
      BY <1>3, <2>1 DEF OneSetupOfEach
    <3>3. ASSUME NEW k \in DOMAIN s1Down', NEW n \in DOMAIN s1Down', s1Down'[k].imsi = s1Down'[n].imsi
          PROVE  k = n
      BY <1>4, <1>6, <2>1, <3>2, <3>3 DEF OneSetupOfEach
    <3>4. ASSUME NEW k \in Requests', NEW n \in DOMAIN s1Down' PROVE s1Up'[k].imsi # s1Down'[n].imsi
      <4>1. k + 1 \in Requests /\ k + 1 # 1 /\ s1Up'[k] = s1Up[k + 1]
        BY <1>2
      <4>2. CASE n \in DOMAIN s1Down
        BY <1>6, <2>1, <4>1, <4>2 DEF OneSetupOfEach
      <4>3. CASE n = Len(s1Down) + 1
        BY <1>3, <1>4, <1>6, <2>1, <4>1, <4>3 DEF OneSetupOfEach
      <4> QED
        BY <1>6, <4>2, <4>3
    <3> QED
      BY <3>1, <3>3, <3>4 DEF OneSetupOfEach
  <2>3. ASSUME NEW j \in Imsis, NEW d \in Nat, AwaitsSetup(j, d) PROVE AwaitsSetup(j, d)'
    BY <1>1, <1>2, <1>7, <2>3 DEF AwaitsSetup, HasUeManager, NoBearersYet
  <2>4. ASSUME NEW n \in Requests' PROVE AwaitsSetup(s1Up[n].imsi, s1Up[n].left + S1Delay)'
    <3>1. n + 1 \in Requests /\ n + 1 \in DOMAIN s1Up /\ s1Up'[n] = s1Up[n + 1]
      BY <1>2
    <3>2. PICK j \in Imsis, d \in Nat : j = s1Up[n + 1].imsi /\ d = s1Up[n + 1].left + S1Delay
      BY <3>1, S1Types
    <3>3. AwaitsSetup(j, d)
      BY <3>1, <3>2 DEF DurationInv, ContextSetupInTime
    <3>4. AwaitsSetup(j, d)'
      BY <2>3, <3>3
    <3>5. j = s1Up'[n].imsi /\ d = s1Up'[n].left + S1Delay
      BY <3>1, <3>2
    <3> QED
      BY <3>4, <3>5 DEF AwaitsSetup
  <2>5. ASSUME NEW n \in DOMAIN s1Down'
        PROVE  AwaitsSetup(s1Down[n].imsi, s1Down[n].left)' /\ InOrder(s1Down'[n])
    <3>1. CASE n = Len(s1Down) + 1
      <4>1. S1Delay \in Nat
        BY RrcAssumption
      <4>2. AwaitsSetup(s1Up[1].imsi, s1Up[1].left + S1Delay)
        BY <1>3 DEF DurationInv, ContextSetupInTime
      <4>3. PICK j \in Imsis, d \in Nat : j = i /\ d = S1Delay
        BY <1>3, <4>1
      <4>4. AwaitsSetup(j, d)
        BY <1>3, <4>1, <4>2, <4>3
      <4>5. AwaitsSetup(j, d)'
        BY <2>3, <4>4
      <4>6. s1Down'[n].imsi = j /\ s1Down'[n].left = d
        BY <1>4, <1>6, <3>1, <4>3
      <4>7. InOrder(m)
        BY <1>4, <4>3, <4>4 DEF AwaitsSetup, Intact, InOrder
      <4> QED
        BY <1>6, <3>1, <4>5, <4>6, <4>7 DEF AwaitsSetup
    <3>2. CASE n \in DOMAIN s1Down
      <4>1. PICK j \in Imsis, d \in Nat : j = s1Down[n].imsi /\ d = s1Down[n].left
        BY <3>2, S1Types
      <4>2. AwaitsSetup(j, d) /\ InOrder(s1Down[n])
        BY <3>2, <4>1 DEF DurationInv, ContextSetupInTime
      <4>3. AwaitsSetup(j, d)' /\ s1Down'[n] = s1Down[n]
        BY <1>6, <2>3, <3>2, <4>2
      <4> QED
        BY <4>1, <4>2, <4>3 DEF AwaitsSetup
    <3> QED
      BY <1>6, <3>1, <3>2
  <2> QED
    BY <2>2, <2>4, <2>5 DEF ContextSetupInTime, InOrder
<1>10. ASSUME MaxBearers < MaxBearersOfUe
       PROVE  /\ \A j \in Imsis : Active(j)' \subseteq WithLcid
              /\ \A n \in DOMAIN s1Down' : \A k \in DOMAIN s1Down'[n].bearers :
                   s1Down'[n].bearers[k] \in WithLcid
  <2>1. /\ \A j \in Imsis : Active(j) \subseteq WithLcid
        /\ \A n \in DOMAIN s1Down : \A k \in DOMAIN s1Down[n].bearers : s1Down[n].bearers[k] \in WithLcid
    BY <1>10 DEF DurationInv, LcidsFit
  <2>2. \A k \in DOMAIN m.bearers : m.bearers[k] \in WithLcid
    BY <1>3, <1>4, <2>1 DEF Active
  <2>3. \A j \in Imsis : Active(j)' = Active(j)
    BY <1>1 DEF Active
  <2> QED
    BY <1>6, <2>1, <2>2, <2>3
<1> QED
  BY <1>1, <1>8, <1>9, <1>10, LinkStepInTime

(* A bearer that the MME forgets is not among those it has left.           *)
LEMMA DeleteBearerLeaves ==
  ASSUME EpcInv, NEW i \in Imsis, NEW b, DeleteBearer(i, b)
  PROVE  /\ Active(i)' \subseteq Active(i)
         /\ \A j \in Imsis : j # i => /\ bearerCounter'[j] = bearerCounter[j]
                                      /\ bearersToBeActivated'[j] = bearersToBeActivated[j]
<1> DEFINE s == bearersToBeActivated[i]
           first == CHOOSE n \in DOMAIN s : s[n] = b /\ \A m \in DOMAIN s : s[m] = b => n <= m
           rest == SubSeq(s, 1, first - 1) \o SubSeq(s, first + 1, Len(s))
<1>1. s \in Seq(BearersOf(i)) /\ Len(s) \in Nat /\ DOMAIN s = 1..Len(s)
  BY LenProperties DEF EpcInv, BearersCounted
<1>2. s \in Seq(Active(i))
  <2>1. \A n \in 1..Len(s) : s[n] \in Active(i)
    BY <1>1 DEF Active
  <2> QED
    BY <1>1, <2>1, SeqDef
<1>3. CASE b \in Active(i)
  <2>1. /\ bearersToBeActivated' = [bearersToBeActivated EXCEPT ![i] = rest]
        /\ bearerCounter' = [bearerCounter EXCEPT ![i] = @ - 1]
    BY <1>3 DEF DeleteBearer
  <2>2. first \in 1..Len(s)
    <3>1. \E n \in DOMAIN s : s[n] = b /\ \A m \in DOMAIN s : s[m] = b => n <= m
      <4> DEFINE T == {n \in DOMAIN s : s[n] = b}
      <4>1. T # {} /\ T \subseteq Nat
        BY <1>1, <1>3 DEF Active
      <4>2. PICK n \in T : \A m \in T : n <= m
        <5> HIDE DEF T
        <5> QED
          BY <4>1, LeastNat
      <4> QED
        BY <4>2
    <3>2. first \in DOMAIN s
      BY <3>1
    <3> QED
      BY <1>1, <3>2
  <2> HIDE DEF first
  <2>3. rest \in Seq(Active(i))
    BY <1>2, <2>2, RemovalFromSeq
  <2> HIDE DEF rest, s
  <2>4. \A n \in DOMAIN rest : rest[n] \in Active(i)
    BY <2>3, LenProperties, ElementOfSeq
  <2>5. bearersToBeActivated'[i] = rest
    BY <2>1 DEF EpcInv, BearersCounted
  <2>6. Active(i)' \subseteq Active(i)
    BY <2>4, <2>5 DEF Active
  <2> QED
    BY <2>1, <2>6 DEF EpcInv, BearersCounted
<1>4. CASE b \notin Active(i)
  BY <1>4 DEF DeleteBearer, Active
<1> QED
  BY <1>3, <1>4

(* The MME forgets a bearer of a UE that is connected: what it counts for  *)
(* the others, and what it has answered them, stay.                        *)
LEMMA ReleaseIndicationInTime ==
  ASSUME RrcInv, DurationInv, MmeRecvErabReleaseIndication
  PROVE  DurationInv'
<1>0. s1Up # << >> /\ s1Up' = Tail(s1Up)
  BY DEF MmeRecvErabReleaseIndication
<1>a. PICK i \in Imsis, b \in Bearers \cup {0} : i = Head(s1Up).imsi /\ b = Head(s1Up).bearer
  BY <1>0, RequestTaken, S1Types DEF S1UpMessage
<1>1. /\ s1Up # << >> /\ Head(s1Up).msg = "ErabRelease"
      /\ s1Up' = Tail(s1Up) /\ DeleteBearer(i, b)
      /\ UNCHANGED <<s1Down, ue, ueMap, lastRnti, epcRnti, timers, srb0, srb1Down, srb1Up>>
  BY <1>a DEF MmeRecvErabReleaseIndication, enbVars, s1AppVars, radioVars
<1>2. /\ 1 \in DOMAIN s1Up /\ Head(s1Up) = s1Up[1]
      /\ \A n \in DOMAIN s1Up' : n \in Nat /\ n + 1 # 1 /\ n + 1 \in DOMAIN s1Up /\ s1Up'[n] = s1Up[n + 1]
      /\ \A n \in Requests' : n \in DOMAIN s1Up' /\ n + 1 \in Requests
      /\ \A j : Releases(j) = {} => Releases(j)' = {}
  BY <1>1, RequestTaken
<1>3. i \in Imsis /\ 1 \in Releases(i)
  BY <1>1, <1>2, <1>a DEF Releases
<1>4. ue[i].state = "CONNECTED_NORMALLY" /\ ue[i].active
  BY <1>3 DEF DurationInv, ReleasesAreOfConnected, UePhases, UePhase
<1>5. /\ Active(i)' \subseteq Active(i)
      /\ \A j \in Imsis : j # i => /\ bearerCounter'[j] = bearerCounter[j]
                                   /\ bearersToBeActivated'[j] = bearersToBeActivated[j]
  BY <1>1, DeleteBearerLeaves DEF RrcInv
<1>6. \A j \in Imsis : j # i => (Intact(j)' <=> Intact(j)) /\ Active(j)' = Active(j)
  BY <1>5 DEF Intact, Active
<1>7. \A j \in Imsis : ~ue[j].active => bearerCounter'[j] = bearerCounter[j]
  BY <1>4, <1>5
<1>8. ReleasesAreOfConnected'
  BY <1>1, <1>2, <1>4, <1>6 DEF DurationInv, ReleasesAreOfConnected
<1>9. ContextSetupInTime'
  <2> SUFFICES ASSUME InTimeForS1 PROVE ContextSetupInTime'
    BY DEF ContextSetupInTime, InTimeForS1
  <2>1. OneSetupOfEach'
    <3>1. ASSUME NEW k \in Requests', NEW n \in Requests', s1Up'[k].imsi = s1Up'[n].imsi
          PROVE  k = n
      <4>1. k + 1 = n + 1 /\ k \in Nat /\ n \in Nat
        BY <1>2, <3>1 DEF DurationInv, ContextSetupInTime, OneSetupOfEach
      <4> QED
        BY <4>1
    <3> QED
      BY <1>1, <1>2, <3>1 DEF DurationInv, ContextSetupInTime, OneSetupOfEach
  <2>2. ASSUME NEW j \in Imsis, NEW d \in Nat, AwaitsSetup(j, d) PROVE AwaitsSetup(j, d)'
    <3>1. j # i
      BY <1>3, <2>2 DEF AwaitsSetup
    <3> QED
      BY <1>1, <1>2, <1>6, <2>2, <3>1 DEF AwaitsSetup, HasUeManager, NoBearersYet
  <2>3. ASSUME NEW n \in Requests' PROVE AwaitsSetup(s1Up[n].imsi, s1Up[n].left + S1Delay)'
    <3>1. n + 1 \in Requests /\ n + 1 \in DOMAIN s1Up /\ s1Up'[n] = s1Up[n + 1]
      BY <1>2
    <3>2. PICK j \in Imsis, d \in Nat : j = s1Up[n + 1].imsi /\ d = s1Up[n + 1].left + S1Delay
      BY <3>1, S1Types
    <3>3. AwaitsSetup(j, d)'
      BY <2>2, <3>1, <3>2 DEF DurationInv, ContextSetupInTime
    <3>4. j = s1Up'[n].imsi /\ d = s1Up'[n].left + S1Delay
      BY <3>1, <3>2
    <3> QED
      BY <3>3, <3>4 DEF AwaitsSetup
  <2>4. ASSUME NEW n \in DOMAIN s1Down
        PROVE  AwaitsSetup(s1Down[n].imsi, s1Down[n].left)' /\ InOrder(s1Down[n])
    <3>1. PICK j \in Imsis, d \in Nat : j = s1Down[n].imsi /\ d = s1Down[n].left
      BY S1Types
    <3>2. AwaitsSetup(j, d)' /\ InOrder(s1Down[n])
      BY <2>2, <3>1 DEF DurationInv, ContextSetupInTime
    <3> QED
      BY <1>1, <3>1, <3>2 DEF AwaitsSetup
  <2> QED
    BY <1>1, <2>1, <2>3, <2>4 DEF ContextSetupInTime, InOrder
<1>10. ASSUME MaxBearers < MaxBearersOfUe
       PROVE  /\ \A j \in Imsis : Active(j)' \subseteq WithLcid
              /\ \A n \in DOMAIN s1Down' : \A k \in DOMAIN s1Down'[n].bearers :
                   s1Down'[n].bearers[k] \in WithLcid
  <2>1. /\ \A j \in Imsis : Active(j) \subseteq WithLcid
        /\ \A n \in DOMAIN s1Down : \A k \in DOMAIN s1Down[n].bearers : s1Down[n].bearers[k] \in WithLcid
    BY <1>10 DEF DurationInv, LcidsFit
  <2>2. ASSUME NEW j \in Imsis PROVE Active(j)' \subseteq WithLcid
    <3>1. Active(j) \subseteq WithLcid
      BY <2>1
    <3>2. CASE j = i
      <4>1. Active(i) \subseteq WithLcid
        BY <3>1, <3>2
      <4>2. Active(i)' \subseteq WithLcid
        BY <1>5, <4>1
      <4> QED
        BY <3>2, <4>2
    <3>3. CASE j # i
      BY <1>6, <3>1, <3>3
    <3> QED
      BY <3>2, <3>3
  <2> QED
    BY <1>1, <2>1, <2>2
<1> QED
  BY <1>1, <1>7, <1>8, <1>9, <1>10, LinkStepInTime

(* The answer that arrives was the only one of its IMSI.                   *)
LEMMA AnswersKeep ==
  ASSUME RrcInv, ContextSetupInTime, s1Down # << >>, s1Down' = Tail(s1Down), s1Up' = s1Up,
         InTimeForS1 => \A j \in Imsis : \A d \in Nat :
                          j # Head(s1Down).imsi /\ AwaitsSetup(j, d) => AwaitsSetup(j, d)'
  PROVE  ContextSetupInTime'
<1> SUFFICES ASSUME InTimeForS1 PROVE ContextSetupInTime'
  BY DEF ContextSetupInTime, InTimeForS1
<1>1. OneSetupOfEach
  BY DEF ContextSetupInTime
<1>2. /\ 1 \in DOMAIN s1Down /\ Head(s1Down) = s1Down[1]
      /\ \A n \in DOMAIN s1Down' : n \in Nat /\ n + 1 # 1 /\ n + 1 \in DOMAIN s1Down
                                   /\ s1Down'[n] = s1Down[n + 1]
  BY AnswerTaken
<1>3. OneSetupOfEach'
  <2>1. Requests' = Requests
    BY DEF Requests
  <2>2. ASSUME NEW k \in DOMAIN s1Down', NEW n \in DOMAIN s1Down', s1Down'[k].imsi = s1Down'[n].imsi
        PROVE  k = n
    <3>1. k + 1 = n + 1 /\ k \in Nat /\ n \in Nat
      BY <1>1, <1>2, <2>2 DEF OneSetupOfEach
    <3> QED
      BY <3>1
  <2> QED
    BY <1>1, <1>2, <2>1, <2>2 DEF OneSetupOfEach
<1>4. ASSUME NEW n \in Requests' PROVE AwaitsSetup(s1Up[n].imsi, s1Up[n].left + S1Delay)'
  <2>1. n \in Requests /\ n \in DOMAIN s1Up
    BY DEF Requests
  <2>2. PICK j \in Imsis, d \in Nat : j = s1Up[n].imsi /\ d = s1Up[n].left + S1Delay
    BY <2>1, S1Types
  <2>3. j # Head(s1Down).imsi
    BY <1>1, <1>2, <2>1, <2>2 DEF OneSetupOfEach
  <2>4. AwaitsSetup(j, d)'
    BY <2>1, <2>2, <2>3 DEF ContextSetupInTime
  <2> QED
    BY <2>2, <2>4 DEF AwaitsSetup
<1>5. ASSUME NEW n \in DOMAIN s1Down'
      PROVE  AwaitsSetup(s1Down[n].imsi, s1Down[n].left)' /\ InOrder(s1Down'[n])
  <2>1. n + 1 # 1 /\ n + 1 \in DOMAIN s1Down /\ s1Down'[n] = s1Down[n + 1]
    BY <1>2
  <2>2. PICK j \in Imsis, d \in Nat : j = s1Down[n + 1].imsi /\ d = s1Down[n + 1].left
    BY <2>1, S1Types
  <2>3. j # Head(s1Down).imsi
    BY <1>1, <1>2, <2>1, <2>2 DEF OneSetupOfEach
  <2>4. AwaitsSetup(j, d)' /\ InOrder(s1Down[n + 1])
    BY <2>1, <2>2, <2>3 DEF ContextSetupInTime
  <2>5. j = s1Down'[n].imsi /\ d = s1Down'[n].left
    BY <2>1, <2>2
  <2> QED
    BY <2>1, <2>4, <2>5 DEF AwaitsSetup
<1> QED
  BY <1>3, <1>4, <1>5 DEF ContextSetupInTime, InOrder

(* The request of a UE without bearers changes nothing.                    *)
LEMMA EmptySetupInTime ==
  ASSUME RrcInv, DurationInv, s1Down # << >>, s1Down' = Tail(s1Down),
         UNCHANGED <<epcVars, ue, enbVars, lastRnti, s1AppVars, timers, radioVars, s1Up>>
  PROVE  DurationInv'
<1>1. UNCHANGED <<bearerCounter, bearersToBeActivated, ue, ueMap, lastRnti, epcRnti, timers,
                  srb0, srb1Down, srb1Up, s1Up>>
  BY DEF epcVars, enbVars, s1AppVars, radioVars
<1>2. ReleasesAreOfConnected'
  BY <1>1 DEF DurationInv, ReleasesAreOfConnected, Intact, Releases
<1>3. \A j \in Imsis : \A d \in Nat : AwaitsSetup(j, d) => AwaitsSetup(j, d)'
  BY <1>1 DEF AwaitsSetup, HasUeManager, NoBearersYet, Intact, Releases
<1>4. ContextSetupInTime'
  BY <1>1, <1>3, AnswersKeep DEF DurationInv
<1>5. \A n \in DOMAIN s1Down' : n + 1 \in DOMAIN s1Down /\ s1Down'[n] = s1Down[n + 1]
  BY AnswerTaken
<1> QED
  BY <1>1, <1>2, <1>4, <1>5, LinkStepInTime DEF DurationInv, LcidsFit, Active

(* The bearers of the answer go to the context of the IMSI, which has none *)
(* yet, and no release is on its way to the UE.                            *)
LEMMA ContextSetupInTimeKeeps ==
  ASSUME RrcInv, DurationInv, RecvInitialContextSetupRequest, ~ \E what : Fail(what),
         NEW i, NEW bearers, NEW r,
         i = Head(s1Down).imsi, bearers = Head(s1Down).bearers, bearers # << >>, r = epcRnti[i]
  PROVE  DurationInv'
<1> DEFINE added == {bearers[n] : n \in DOMAIN bearers}
           m == WithBearers(ueMap[r], bearers)
           d == Reconfiguration(ueMap[r].drbs \cup {bearers[1]}, {})
<1>0. /\ s1Down # << >> /\ Head(s1Down).left = 0 /\ s1Down' = Tail(s1Down)
      /\ HasUeManager(r) /\ SameIdentities(ueMap[r], bearers)
      /\ ueMap' = [ueMap EXCEPT ![r] = m]
      /\ srb1Down' = IF ueMap[r].state = "CONNECTED_NORMALLY"
                     THEN [srb1Down EXCEPT ![r] = Append(srb1Down[r], d)] ELSE srb1Down
      /\ UNCHANGED <<epcVars, ue, lastRnti, epcRnti, timers, srb0, srb1Up, s1Up>>
  BY DEF RecvInitialContextSetupRequest
<1>0a. UNCHANGED <<bearerCounter, bearersToBeActivated, ue, lastRnti, epcRnti, timers, srb0,
                   srb1Up, s1Up>>
  BY <1>0 DEF epcVars
<1>1. /\ 1 \in DOMAIN s1Down /\ Head(s1Down) = s1Down[1] /\ s1Down[1].imsi = i
      /\ s1Down[1].bearers = bearers /\ s1Down[1].left = 0 /\ s1Down[1] \in SetupRequest
      /\ \A n \in DOMAIN s1Down' : n + 1 \in DOMAIN s1Down /\ s1Down'[n] = s1Down[n + 1]
  BY <1>0, AnswerTaken, S1Types
<1>2. /\ ue \in [Imsis -> AnyUe] /\ ueMap \in [Rntis -> AnyManager]
      /\ srb1Down \in [Rntis -> Seq(DownMessage)] /\ UNCHANGED <<bearerCounter, bearersToBeActivated>>
  BY <1>0a DEF RrcInv, RrcShape, QueueShape
<1>3. i \in Imsis /\ i # 0 /\ bearers \in Seq(BearersOf(i))
  BY <1>1, ImsiIsNat DEF SetupRequest, S1DownMessage
<1>4. r \in Rntis /\ r # 0 /\ ueMap[r].imsi = i /\ ueMap[r] \in AnyManager
  <2>1. HasUeManager(r) /\ r = epcRnti[i] /\ EpcRntiAgrees
    BY <1>0 DEF RrcInv
  <2>2. r \in Rntis /\ r # 0
    BY <2>1 DEF HasUeManager, Rntis
  <2>3. ueMap[r].imsi = i
    BY ONLY <1>3, <2>1, <2>2 DEF EpcRntiAgrees
  <2> QED
    BY <1>2, <2>2, <2>3
<1>5. ueMap[r].state \in Admitted
  BY <1>3, <1>4 DEF RrcInv, ManagersAgree, ManagerAgrees
<1>6. /\ Len(bearers) \in Nat /\ DOMAIN bearers = 1..Len(bearers) /\ Len(bearers) # 0
      /\ \A n \in DOMAIN bearers : bearers[n] \in BearersOf(i)
      /\ added \subseteq Bearers /\ bearers[1] \in added
  <2>1. /\ Len(bearers) \in Nat /\ DOMAIN bearers = 1..Len(bearers) /\ Len(bearers) # 0
        /\ \A n \in DOMAIN bearers : bearers[n] \in BearersOf(i)
    BY <1>3, LenProperties, ElementOfSeq, EmptySeq
  <2> QED
    BY <1>3, <2>1, BearersOfAreBearers
<1>7. /\ m.drbs = ueMap[r].drbs \cup added /\ m.imsi = i
      /\ m.lastDrbid = ueMap[r].lastDrbid + Len(bearers)
      /\ m.state = IF ueMap[r].state = "CONNECTED_NORMALLY" THEN "CONNECTION_RECONFIGURATION"
                                                             ELSE ueMap[r].state
  <2> HIDE DEF m
  <2>1. /\ m = WithBearers(ueMap[r], bearers) /\ bearers # << >>
        /\ bearers \in Seq(BearersOf(i)) /\ ueMap[r] \in AnyManager
    BY <1>3, <1>4 DEF m
  <2>2. /\ m.drbs = ueMap[r].drbs \cup {bearers[n] : n \in DOMAIN bearers}
        /\ m.imsi = ueMap[r].imsi /\ m.lastDrbid = ueMap[r].lastDrbid + Len(bearers)
        /\ m.state = IF ueMap[r].state = "CONNECTED_NORMALLY" THEN "CONNECTION_RECONFIGURATION"
                                                              ELSE ueMap[r].state
    BY ONLY <1>3, <2>1, WithBearersIs
  <2> QED
    BY <1>4, <2>2
<1>8. m.lastDrbid <= MaxBearersOfUe
  <2>1. ueMap[r].lastDrbid \in Nat
    BY <1>4 DEF AnyManager
  <2>2. PICK l \in Nat : l = ueMap[r].lastDrbid + Len(bearers)
    BY <1>6, <2>1
  <2>3. BearerId(i, l) \in BearersOf(i)
    <3>1. SameIdentities(ueMap[r], bearers)
      BY <1>0
    <3>2. Len(bearers) \in DOMAIN bearers
      BY ONLY <1>6
    <3>3. BearerId(ueMap[r].imsi, ueMap[r].lastDrbid + Len(bearers)) = bearers[Len(bearers)]
      BY ONLY <3>1, <3>2 DEF SameIdentities
    <3> QED
      BY ONLY <1>4, <1>6, <2>2, <3>2, <3>3
  <2>4. PICK k \in 1..MaxBearersOfUe : BearerId(i, l) = BearerId(i, k)
    BY <2>3 DEF BearersOf
  <2>5. i \in Nat
    BY <1>3, ImsiIsNat
  <2>6. l <= MaxBearersOfUe
    BY <2>4, <2>5 DEF BearerId, MaxBearersOfUe
  <2> QED
    BY <1>7, <2>2, <2>6
<1>9. d \in DownMessage /\ d.add = ueMap[r].drbs \cup {bearers[1]} /\ d.release = {}
  <2>1. ueMap[r].drbs \cup {bearers[1]} \in SUBSET Bearers
    BY <1>4, <1>6 DEF AnyManager
  <2> QED
    BY <2>1, RrcAssumption DEF Reconfiguration, DownMessage
<1>10. /\ ueMap'[r] = m /\ \A q \in Rntis : q # r => ueMap'[q] = ueMap[q] /\ srb1Down'[q] = srb1Down[q]
       /\ srb1Down'[r] = IF ueMap[r].state = "CONNECTED_NORMALLY" THEN Append(srb1Down[r], d)
                                                                  ELSE srb1Down[r]
  <2> HIDE DEF m, d
  <2> QED
    BY <1>0, <1>2, <1>4
<1> HIDE DEF m, d
<1>9a. /\ DOMAIN Append(srb1Down[r], d) = DOMAIN srb1Down[r] \cup {Len(srb1Down[r]) + 1}
       /\ Append(srb1Down[r], d)[Len(srb1Down[r]) + 1] = d
       /\ \A n \in DOMAIN srb1Down[r] : Append(srb1Down[r], d)[n] = srb1Down[r][n]
  <2>1. PICK s : s = Append(srb1Down[r], d)
    OBVIOUS
  <2>2. d \in DownMessage /\ r \in Rntis
    BY <1>4, <1>9
  <2>3. /\ DOMAIN s = DOMAIN srb1Down[r] \cup {Len(srb1Down[r]) + 1}
        /\ s[Len(srb1Down[r]) + 1] = d
        /\ \A n \in DOMAIN srb1Down[r] : s[n] = srb1Down[r][n]
    BY ONLY <1>2, <2>1, <2>2, MessageAppended, SMTT(60)
  <2> QED
    BY <2>1, <2>3
<1>11. m.state \in Admitted /\ (m.state = "CONNECTION_SETUP" <=> ueMap[r].state = "CONNECTION_SETUP")
  BY <1>5, <1>7 DEF Admitted
<1>12. \A t \in timers : t.kind \in GuardKind /\ t.rnti = r =>
         t.kind = "SetupTimeout" /\ ueMap[r].state = "CONNECTION_SETUP"
  BY <1>5 DEF DurationInv, CellTimersAgree, CellTimer, GuardKind, Admitted
<1>13. UePhases'
  BY <1>0a DEF DurationInv, UePhases, UePhase
<1>14. CellTimersAgree'
  <2>1. ASSUME NEW t \in timers, t.kind \in GuardKind PROVE t.rnti \in Rntis /\ CellTimer(t)'
    <3>1. t.rnti \in Rntis /\ CellTimer(t)
      BY <1>0a, <2>1 DEF DurationInv, CellTimersAgree
    <3>2. CASE t.rnti = r
      BY <1>0a, <1>10, <1>11, <1>12, <2>1, <3>1, <3>2 DEF CellTimer
    <3>3. CASE t.rnti # r
      BY <1>0a, <1>10, <3>1, <3>3 DEF CellTimer
    <3> QED
      BY <3>1, <3>2, <3>3
  <2> QED
    BY <1>0a, <2>1 DEF DurationInv, CellTimersAgree
<1>15. RequestsInTime'
  <2> SUFFICES ASSUME InTimeForRequest PROVE RequestsInTime'
    BY DEF RequestsInTime, InTimeForRequest
  <2>1. ASSUME NEW q \in Rntis, AwaitsRequest(q) PROVE AwaitsRequest(q)'
    <3>1. q # r
      BY <1>5, <2>1 DEF AwaitsRequest, Admitted
    <3> QED
      BY <1>0a, <1>10, <2>1, <3>1 DEF AwaitsRequest
  <2>2. ASSUME NEW j \in Imsis, ue[j].rar # 0 PROVE AwaitsRequest(ue[j].rar)'
    <3>1. PICK q \in Rntis : q = ue[j].rar
      BY <1>2, <2>2 DEF AnyUe
    <3>2. AwaitsRequest(q)'
      BY <2>1, <2>2, <3>1 DEF DurationInv, RequestsInTime
    <3> QED
      BY <1>0a, <3>1, <3>2 DEF AwaitsRequest
  <2>3. ASSUME NEW s \in timers, s.kind = "Request" PROVE AwaitsRequest(s.rnti)'
    BY <2>1, <2>3 DEF DurationInv, RequestsInTime, RrcInv, TimersAgree
  <2> QED
    BY <1>0a, <2>2, <2>3 DEF RequestsInTime
<1>16. ManagerPhases'
  <2>1. ASSUME NEW q \in Rntis PROVE ManagerPhase(q)'
    <3>1. ManagerPhase(q)
      BY DEF DurationInv, ManagerPhases
    <3>2. CASE q = r
      <4>1. m.state = "CONNECTION_SETUP" => SetupPhase(r)'
        <5> SUFFICES ASSUME m.state = "CONNECTION_SETUP" PROVE SetupPhase(r)'
          OBVIOUS
        <5>1. SetupPhase(r) /\ srb1Down'[r] = srb1Down[r] /\ ueMap'[r].imsi = ueMap[r].imsi
          BY <1>4, <1>7, <1>10, <1>11, <3>1, <3>2 DEF ManagerPhase
        <5>2. srb1Down'[epcRnti[i]] = << >> /\ ueMap'[epcRnti[i]].imsi = ueMap[epcRnti[i]].imsi
          BY <5>1 DEF SetupPhase
        <5> QED
          BY <1>0a, <5>1, <5>2 DEF SetupPhase
      <4>2. m.state \in Admitted \ {"CONNECTION_SETUP"} => OnlyCompletions(srb1Up[r])
        BY <1>5, <1>11, <3>1, <3>2 DEF ManagerPhase
      <4>3. m.state # "INITIAL_RANDOM_ACCESS"
        BY <1>11 DEF Admitted
      <4> QED
        BY <1>0a, <1>8, <1>10, <3>2, <4>1, <4>2, <4>3 DEF ManagerPhase, OnlyCompletions
    <3>3. CASE q # r
      <4>1. ueMap'[q] = ueMap[q] /\ srb1Down'[q] = srb1Down[q]
        BY <1>10, <3>3
      <4>2. SetupPhase(q) => SetupPhase(q)'
        BY <1>0a, <4>1 DEF SetupPhase
      <4> QED
        BY <1>0a, <3>1, <4>1, <4>2 DEF ManagerPhase, NoBearersYet, OnlyCompletions
    <3> QED
      BY <3>2, <3>3
  <2> QED
    BY <2>1 DEF ManagerPhases
<1>17. SetupInTime'
  <2> SUFFICES ASSUME InTimeForSetup PROVE SetupInTime'
    BY DEF SetupInTime, InTimeForSetup
  <2>1. ASSUME NEW t \in timers, t.kind = "SetupTimeout" PROVE GuardsSetup(t)'
    <3>1. GuardsSetup(t) /\ t.rnti \in Rntis
      BY <2>1 DEF DurationInv, SetupInTime, CellTimersAgree, GuardKind
    <3> QED
      BY <1>0a, <1>10, <1>11, <3>1 DEF GuardsSetup
  <2>2. ASSUME NEW j \in Imsis, ue[j].state = "CONNECTED_NORMALLY" PROVE HasUeManager(ue[j].macRnti)'
    <3>1. HasUeManager(ue[j].macRnti)
      BY <2>2 DEF DurationInv, SetupInTime
    <3> QED
      BY <1>0a, <1>10, <1>11, <3>1 DEF HasUeManager, Admitted
  <2> QED
    BY <1>0a, <2>1, <2>2 DEF SetupInTime
<1>18. ReleasesAreOfConnected'
  BY <1>0a, <1>2 DEF DurationInv, ReleasesAreOfConnected, Intact, Releases
<1>19. ContextSetupInTime'
  <2>1. ASSUME NEW j \in Imsis, NEW k \in Nat, j # Head(s1Down).imsi, AwaitsSetup(j, k)
        PROVE  AwaitsSetup(j, k)'
    <3>1. PICK q \in Rntis : q = epcRnti[j]
      BY <2>1, AwaitingContext
    <3>2. q # r
      BY <1>4, <2>1, <3>1, AwaitingContext
    <3>3. ueMap'[q] = ueMap[q] /\ srb1Down'[q] = srb1Down[q]
      BY <1>10, <3>2
    <3> QED
      BY <1>0a, <1>2, <2>1, <3>1, <3>3 DEF AwaitsSetup, HasUeManager, NoBearersYet, Intact, Releases
  <2> QED
    BY <1>0, <1>0a, <2>1, AnswersKeep DEF DurationInv
<1>20. ReleasesInTime'
  <2> SUFFICES ASSUME InTimeForS1 PROVE ReleasesInTime'
    BY DEF ReleasesInTime, InTimeForS1
  <2>1. AwaitsSetup(i, 0)
    BY <1>1 DEF DurationInv, ContextSetupInTime
  <2>2. srb1Down[r] = << >> /\ DOMAIN srb1Down[r] = {}
    BY <2>1 DEF AwaitsSetup
  <2>3. \A n \in DOMAIN srb1Down'[r] : srb1Down'[r][n].release = {}
    <3>1. CASE ueMap[r].state = "CONNECTED_NORMALLY"
      <4>1. PICK s : s = srb1Down'[r]
        OBVIOUS
      <4>2. /\ DOMAIN s = DOMAIN srb1Down[r] \cup {Len(srb1Down[r]) + 1}
            /\ s[Len(srb1Down[r]) + 1] = d
        BY <1>9a, <1>10, <3>1, <4>1
      <4> QED
        BY <1>9, <2>2, <4>1, <4>2
    <3>2. CASE ueMap[r].state # "CONNECTED_NORMALLY"
      BY <1>10, <2>2, <3>2
    <3> QED
      BY <3>1, <3>2
  <2>4. ASSUME NEW j \in Imsis, ue[j].macRnti # 0 PROVE ReleasesAreKnown(j)'
    <3>1. PICK q \in Rntis : q = ue[j].macRnti
      BY <1>2, <2>4 DEF AnyUe
    <3>2. CASE q = r
      <4>1. \A n \in DOMAIN srb1Down'[q] : srb1Down'[q][n].release = {}
        BY <2>3, <3>2
      <4> QED
        BY <1>0a, <3>1, <4>1 DEF ReleasesAreKnown
    <3>3. CASE q # r
      <4>1. ReleasesAreKnown(j) /\ ueMap'[q] = ueMap[q] /\ srb1Down'[q] = srb1Down[q]
        BY <1>10, <2>4, <3>3 DEF DurationInv, ReleasesInTime
      <4> QED
        BY <1>0a, <3>1, <4>1 DEF ReleasesAreKnown
    <3> QED
      BY <3>2, <3>3
  <2> QED
    BY <1>0a, <2>4 DEF ReleasesInTime
<1>21. LcidsFit'
  <2> SUFFICES ASSUME MaxBearers < MaxBearersOfUe PROVE LcidsFit'
    BY DEF LcidsFit
  <2>1. /\ \A j \in Imsis : Active(j) \subseteq WithLcid
        /\ \A n \in DOMAIN s1Down : \A k \in DOMAIN s1Down[n].bearers : s1Down[n].bearers[k] \in WithLcid
        /\ \A q \in Rntis : ueMap[q].drbs \subseteq WithLcid
        /\ \A q \in Rntis : \A n \in DOMAIN srb1Down[q] : srb1Down[q][n].add \subseteq WithLcid
    BY DEF DurationInv, LcidsFit
  <2>2. added \subseteq WithLcid
    BY <1>1, <2>1
  <2>3. m.drbs \subseteq WithLcid /\ d.add \subseteq WithLcid
    BY <1>4, <1>6, <1>7, <1>9, <2>1, <2>2
  <2>4. ASSUME NEW q \in Rntis
        PROVE  /\ ueMap'[q].drbs \subseteq WithLcid
               /\ \A n \in DOMAIN srb1Down'[q] : srb1Down'[q][n].add \subseteq WithLcid
    <3>1. CASE srb1Down'[q] = srb1Down[q]
      BY <1>10, <2>1, <2>3, <3>1
    <3>2. CASE srb1Down'[q] # srb1Down[q]
      <4>1. q = r /\ srb1Down'[r] = Append(srb1Down[r], d)
        BY <1>10, <3>2
      <4>2. PICK s : s = Append(srb1Down[r], d)
        OBVIOUS
      <4>3. /\ DOMAIN s = DOMAIN srb1Down[r] \cup {Len(srb1Down[r]) + 1}
            /\ s[Len(srb1Down[r]) + 1] = d
            /\ \A n \in DOMAIN srb1Down[r] : s[n] = srb1Down[r][n]
        BY <1>9a, <4>2
      <4>4. \A n \in DOMAIN s : s[n].add \subseteq WithLcid
        BY <1>4, <2>1, <2>3, <4>3
      <4>5. srb1Down'[q] = s /\ ueMap'[q] = m
        BY <1>10, <4>1, <4>2
      <4> QED
        BY <2>3, <4>4, <4>5
    <3> QED
      BY <3>1, <3>2
  <2>5. \A j \in Imsis : Active(j)' = Active(j)
    BY <1>0a, <1>2 DEF Active
  <2>6. \A n \in DOMAIN s1Down' : \A k \in DOMAIN s1Down'[n].bearers : s1Down'[n].bearers[k] \in WithLcid
    BY <1>1, <2>1
  <2> QED
    BY <2>1, <2>4, <2>5, <2>6 DEF LcidsFit
<1> QED
  BY <1>13, <1>14, <1>15, <1>16, <1>17, <1>18, <1>19, <1>20, <1>21 DEF DurationInv

(* One more release indication on the link.                                *)
LEMMA ReleaseAppended ==
  ASSUME RrcInv, NEW m \in S1UpMessage, m.msg = "ErabRelease", s1Up' = Append(s1Up, m)
  PROVE  /\ Requests' = Requests /\ Requests \subseteq DOMAIN s1Up
         /\ \A n \in DOMAIN s1Up : s1Up'[n] = s1Up[n]
         /\ \A j : j # m.imsi => Releases(j)' = Releases(j)
<1>1. s1Up \in Seq(S1UpMessage) /\ Len(s1Up) \in Nat /\ DOMAIN s1Up = 1..Len(s1Up)
  BY S1Types
<1>2. /\ DOMAIN s1Up' = 1..(Len(s1Up) + 1)
      /\ \A n \in DOMAIN s1Up : s1Up'[n] = s1Up[n]
      /\ s1Up'[Len(s1Up) + 1] = m
  BY <1>1, AppendProperties
<1>3. DOMAIN s1Up' = DOMAIN s1Up \cup {Len(s1Up) + 1} /\ Len(s1Up) + 1 \notin DOMAIN s1Up
  BY <1>1, <1>2
<1> QED
  BY <1>2, <1>3 DEF Requests, Releases

(* The bearer is one the UE has and no earlier release is about; its UE    *)
(* awaits no setup, because it has a bearer.                               *)
LEMMA DeActivateInTime ==
  ASSUME RrcInv, DurationInv, NEW i \in Imsis, NEW b \in Bearers, DeActivateDedicatedEpsBearer(i, b)
  PROVE  DurationInv'
<1>0. PICK r \in Rntis : r = ue[i].rnti /\ HasUeManager(r)
  BY DEF DeActivateDedicatedEpsBearer, HasUeManager
<1> DEFINE m == [ueMap[r] EXCEPT !.drbs = @ \ {b}]
           d == Reconfiguration({}, {b})
           e == [msg |-> "ErabRelease", imsi |-> i, bearer |-> b, left |-> S1Delay]
<1>1. /\ ue[i].state = "CONNECTED_NORMALLY" /\ b \in ue[i].drbs /\ b \in ueMap[r].drbs
      /\ ueMap' = [ueMap EXCEPT ![r] = m]
      /\ srb1Down' = [srb1Down EXCEPT ![r] = Append(srb1Down[r], d)]
      /\ s1Up' = Append(s1Up, e)
      /\ UNCHANGED <<epcVars, ue, lastRnti, s1AppVars, timers, srb0, srb1Up, s1Down>>
  BY <1>0 DEF DeActivateDedicatedEpsBearer
<1>2. UNCHANGED <<bearerCounter, bearersToBeActivated, ue, lastRnti, epcRnti, timers, srb0,
                  srb1Up, s1Down>>
  BY <1>1 DEF epcVars, s1AppVars
<1>3. ue \in [Imsis -> AnyUe] /\ ueMap \in [Rntis -> AnyManager] /\ ueMap[r] \in AnyManager
      /\ srb1Down \in [Rntis -> Seq(DownMessage)]
  BY DEF RrcInv, RrcShape, QueueShape
<1>4. ue[i].macRnti = r /\ ueMap[r].imsi = i /\ i # 0
  BY <1>0, <1>1, ImsiIsNat DEF RrcInv, UesAgree, WithMacRnti
<1>5. /\ m.drbs = ueMap[r].drbs \ {b} /\ m.state = ueMap[r].state /\ m.imsi = i
      /\ m.lastDrbid = ueMap[r].lastDrbid
  BY <1>3, <1>4 DEF AnyManager
<1>6. d \in DownMessage /\ d.add = {} /\ d.release = {b}
  BY RrcAssumption DEF Reconfiguration, DownMessage
<1>7. e \in S1UpMessage /\ e.msg = "ErabRelease" /\ e.imsi = i
  BY RrcAssumption DEF S1UpMessage
<1> HIDE DEF m, d, e
<1>8. /\ ueMap'[r] = m /\ srb1Down'[r] = Append(srb1Down[r], d)
      /\ \A q \in Rntis : q # r => ueMap'[q] = ueMap[q] /\ srb1Down'[q] = srb1Down[q]
      /\ \A q \in Rntis : ueMap'[q].state = ueMap[q].state /\ ueMap'[q].imsi = ueMap[q].imsi
                          /\ ueMap'[q].lastDrbid = ueMap[q].lastDrbid
                          /\ ueMap'[q].drbs \subseteq ueMap[q].drbs
  BY <1>1, <1>3, <1>4, <1>5
<1>9. /\ DOMAIN srb1Down'[r] = DOMAIN srb1Down[r] \cup {Len(srb1Down[r]) + 1}
      /\ srb1Down'[r][Len(srb1Down[r]) + 1] = d
      /\ \A n \in DOMAIN srb1Down[r] : srb1Down'[r][n] = srb1Down[r][n]
  <2>1. PICK s : s = srb1Down'[r]
    OBVIOUS
  <2>2. s = Append(srb1Down[r], d)
    BY <1>8, <2>1
  <2>3. /\ DOMAIN s = DOMAIN srb1Down[r] \cup {Len(srb1Down[r]) + 1}
        /\ s[Len(srb1Down[r]) + 1] = d
        /\ \A n \in DOMAIN srb1Down[r] : s[n] = srb1Down[r][n]
    BY <1>6, <2>2, MessageAppended, SMTT(30)
  <2> QED
    BY <2>1, <2>3
<1>10. /\ Requests' = Requests /\ Requests \subseteq DOMAIN s1Up
       /\ \A n \in DOMAIN s1Up : s1Up'[n] = s1Up[n]
       /\ \A j : j # i => Releases(j)' = Releases(j)
  BY <1>1, <1>7, ReleaseAppended
<1>11. ueMap[r].state \in Admitted \ {"CONNECTION_SETUP"}
  <2>1. ManagerAgrees(r) /\ ManagerPhase(r)
    BY DEF RrcInv, ManagersAgree, DurationInv, ManagerPhases
  <2> QED
    BY <1>1, <1>4, <2>1 DEF ManagerAgrees, ManagerPhase, SetupPhase
<1>12. UePhases' /\ CellTimersAgree' 
  BY <1>2, <1>8 DEF DurationInv, UePhases, UePhase, CellTimersAgree, CellTimer
<1>13. RequestsInTime'
  <2> SUFFICES ASSUME InTimeForRequest PROVE RequestsInTime'
    BY DEF RequestsInTime, InTimeForRequest
  <2>1. ASSUME NEW q \in Rntis, AwaitsRequest(q) PROVE AwaitsRequest(q)'
    BY <1>2, <1>8, <2>1 DEF AwaitsRequest
  <2>2. ASSUME NEW j \in Imsis, ue[j].rar # 0 PROVE AwaitsRequest(ue[j].rar)'
    <3>1. PICK q \in Rntis : q = ue[j].rar
      BY <1>3, <2>2 DEF AnyUe
    <3>2. AwaitsRequest(q)'
      BY <2>1, <2>2, <3>1 DEF DurationInv, RequestsInTime
    <3> QED
      BY <1>2, <3>1, <3>2 DEF AwaitsRequest
  <2>3. ASSUME NEW s \in timers, s.kind = "Request" PROVE AwaitsRequest(s.rnti)'
    BY <2>1, <2>3 DEF DurationInv, RequestsInTime, RrcInv, TimersAgree
  <2> QED
    BY <1>2, <2>2, <2>3 DEF RequestsInTime
<1>14. ManagerPhases'
  <2>1. ASSUME NEW q \in Rntis PROVE ManagerPhase(q)'
    <3>1. ManagerPhase(q)
      BY DEF DurationInv, ManagerPhases
    <3>2. CASE q = r
      BY <1>2, <1>8, <1>11, <3>1, <3>2 DEF ManagerPhase, OnlyCompletions, Admitted
    <3>3. CASE q # r
      <4>1. ueMap'[q] = ueMap[q] /\ srb1Down'[q] = srb1Down[q]
        BY <1>8, <3>3
      <4>2. SetupPhase(q) => SetupPhase(q)'
        BY <1>2, <4>1 DEF SetupPhase
      <4> QED
        BY <1>2, <3>1, <4>1, <4>2 DEF ManagerPhase, NoBearersYet, OnlyCompletions
    <3> QED
      BY <3>2, <3>3
  <2> QED
    BY <2>1 DEF ManagerPhases
<1>15. SetupInTime'
  <2> SUFFICES ASSUME InTimeForSetup PROVE SetupInTime'
    BY DEF SetupInTime, InTimeForSetup
  <2>1. ASSUME NEW t \in timers, t.kind = "SetupTimeout" PROVE GuardsSetup(t)'
    <3>1. GuardsSetup(t) /\ t.rnti \in Rntis
      BY <2>1 DEF DurationInv, SetupInTime, CellTimersAgree, GuardKind
    <3> QED
      BY <1>2, <1>8, <3>1 DEF GuardsSetup
  <2>2. ASSUME NEW j \in Imsis, ue[j].state = "CONNECTED_NORMALLY" PROVE HasUeManager(ue[j].macRnti)'
    <3>1. HasUeManager(ue[j].macRnti)
      BY <2>2 DEF DurationInv, SetupInTime
    <3> QED
      BY <1>2, <1>8, <3>1 DEF HasUeManager
  <2> QED
    BY <1>2, <2>1, <2>2 DEF SetupInTime
<1>16. ReleasesAreOfConnected'
  <2>1. \A j \in Imsis : Intact(j) <=> Intact(j)'
    BY <1>2 DEF Intact
  <2> QED
    BY <1>1, <1>2, <1>10, <2>1 DEF DurationInv, ReleasesAreOfConnected
<1>17. ContextSetupInTime'
  <2> SUFFICES ASSUME InTimeForS1 PROVE ContextSetupInTime'
    BY DEF ContextSetupInTime, InTimeForS1
  <2>1. OneSetupOfEach'
    BY <1>2, <1>10 DEF DurationInv, ContextSetupInTime, OneSetupOfEach
  <2>2. ASSUME NEW j \in Imsis, NEW k \in Nat, AwaitsSetup(j, k) PROVE AwaitsSetup(j, k)'
    <3>1. PICK q \in Rntis : q = epcRnti[j]
      BY <2>2, AwaitingContext
    <3>2. j # i
      BY <1>1, <2>2 DEF AwaitsSetup
    <3>3. q # r
      BY <1>4, <2>2, <3>1, <3>2, AwaitingContext
    <3>4. ueMap'[q] = ueMap[q] /\ srb1Down'[q] = srb1Down[q]
      BY <1>8, <3>3
    <3>5. Releases(j)' = Releases(j) /\ (Intact(j) => Intact(j)')
      BY <1>2, <1>10, <3>2 DEF Intact
    <3> QED
      BY <1>2, <2>2, <3>1, <3>4, <3>5 DEF AwaitsSetup, HasUeManager, NoBearersYet
  <2>3. ASSUME NEW n \in Requests' PROVE AwaitsSetup(s1Up[n].imsi, s1Up[n].left + S1Delay)'
    <3>1. n \in Requests /\ n \in DOMAIN s1Up /\ s1Up'[n] = s1Up[n]
      BY <1>10
    <3>2. PICK j \in Imsis, k \in Nat : j = s1Up[n].imsi /\ k = s1Up[n].left + S1Delay
      BY <3>1, S1Types
    <3>3. AwaitsSetup(j, k)'
      BY <2>2, <3>1, <3>2 DEF DurationInv, ContextSetupInTime
    <3>4. j = s1Up'[n].imsi /\ k = s1Up'[n].left + S1Delay
      BY <3>1, <3>2
    <3> QED
      BY <3>3, <3>4 DEF AwaitsSetup
  <2>4. ASSUME NEW n \in DOMAIN s1Down
        PROVE  AwaitsSetup(s1Down[n].imsi, s1Down[n].left)' /\ InOrder(s1Down[n])
    <3>1. PICK j \in Imsis, k \in Nat : j = s1Down[n].imsi /\ k = s1Down[n].left
      BY S1Types
    <3>2. AwaitsSetup(j, k)' /\ InOrder(s1Down[n])
      BY <2>2, <3>1 DEF DurationInv, ContextSetupInTime
    <3> QED
      BY <1>2, <3>1, <3>2 DEF AwaitsSetup
  <2> QED
    BY <1>2, <2>1, <2>3, <2>4 DEF ContextSetupInTime, InOrder
<1>18. ReleasesInTime'
  <2> SUFFICES ASSUME InTimeForS1 PROVE ReleasesInTime'
    BY DEF ReleasesInTime, InTimeForS1
  <2>1. ASSUME NEW j \in Imsis, ue[j].macRnti # 0 PROVE ReleasesAreKnown(j)'
    <3>1. ReleasesAreKnown(j)
      BY <2>1 DEF DurationInv, ReleasesInTime
    <3>2. CASE j = i
      <4>1. /\ \A n \in DOMAIN srb1Down[r] : /\ srb1Down[r][n].release \subseteq ue[i].drbs
                                             /\ srb1Down[r][n].release \cap ueMap[r].drbs = {}
            /\ \A k, n \in DOMAIN srb1Down[r] :
                 k # n => srb1Down[r][k].release \cap srb1Down[r][n].release = {}
        BY <1>4, <3>1, <3>2 DEF ReleasesAreKnown
      <4>2. \A n \in DOMAIN srb1Down[r] : srb1Down[r][n].release \cap {b} = {}
        BY <1>1, <4>1
      <4>3. \A n \in DOMAIN srb1Down'[r] : /\ srb1Down'[r][n].release \subseteq ue[i].drbs
                                           /\ srb1Down'[r][n].release \cap m.drbs = {}
        BY <1>1, <1>5, <1>6, <1>9, <4>1
      <4>4. ASSUME NEW k \in DOMAIN srb1Down'[r], NEW n \in DOMAIN srb1Down'[r], k # n
            PROVE  srb1Down'[r][k].release \cap srb1Down'[r][n].release = {}
        BY <1>6, <1>9, <4>1, <4>2, <4>4
      <4>5. ue'[i].macRnti = r /\ ue'[i].drbs = ue[i].drbs
        BY <1>2, <1>4
      <4> QED
        BY <1>8, <3>2, <4>3, <4>4, <4>5 DEF ReleasesAreKnown
    <3>3. CASE j # i
      <4>1. PICK q \in Rntis : q = ue[j].macRnti /\ q # r
        BY <1>3, <1>4, <2>1, <3>3 DEF AnyUe, RrcInv, HandlesAreOwn
      <4>2. ueMap'[q] = ueMap[q] /\ srb1Down'[q] = srb1Down[q]
        BY <1>8, <4>1
      <4> QED
        BY <1>2, <3>1, <4>1, <4>2 DEF ReleasesAreKnown
    <3> QED
      BY <3>2, <3>3
  <2> QED
    BY <1>2, <2>1 DEF ReleasesInTime
<1>19. LcidsFit'
  <2> SUFFICES ASSUME MaxBearers < MaxBearersOfUe PROVE LcidsFit'
    BY DEF LcidsFit
  <2>1. ASSUME NEW q \in Rntis
        PROVE  /\ ueMap'[q].drbs \subseteq WithLcid
               /\ \A n \in DOMAIN srb1Down'[q] : srb1Down'[q][n].add \subseteq WithLcid
    <3>1. /\ ueMap[q].drbs \subseteq WithLcid
          /\ \A n \in DOMAIN srb1Down[q] : srb1Down[q][n].add \subseteq WithLcid
      BY DEF DurationInv, LcidsFit
    <3>2. CASE q = r
      BY <1>5, <1>6, <1>8, <1>9, <3>1, <3>2
    <3>3. CASE q # r
      BY <1>8, <3>1, <3>3
    <3> QED
      BY <3>2, <3>3
  <2>2. \A j \in Imsis : Active(j)' = Active(j)
    BY <1>2 DEF Active
  <2> QED
    BY <1>2, <2>1, <2>2 DEF DurationInv, LcidsFit
<1> QED
  BY <1>12, <1>13, <1>14, <1>15, <1>16, <1>17, <1>18, <1>19 DEF DurationInv

--------------------------------------------------------------------------------
(* Time.  Every delay is one less, so that none comes before another that  *)
(* it did not come before.                                                 *)
LEMMA ElapseInTime ==
  ASSUME RrcInv, DurationInv, Elapse
  PROVE  DurationInv'
<1>1. UNCHANGED <<bearerCounter, bearersToBeActivated, ue, ueMap, lastRnti, epcRnti>>
  BY DEF Elapse, epcVars, enbVars, s1AppVars
<1>2. ue \in [Imsis -> AnyUe] /\ ueMap \in [Rntis -> AnyManager]
  BY DEF RrcInv, RrcShape
<1>3. ASSUME NEW t \in timers
      PROVE  /\ Sooner(t).kind = t.kind /\ Sooner(t).rnti = t.rnti /\ Sooner(t).imsi = t.imsi
             /\ t.left \in Nat /\ t.left > 0 /\ Sooner(t).left = t.left - 1
  <2>1. t \in Timer /\ t.left > 0
    BY DEF RrcInv, QueueShape, Elapse, Waiting
  <2> QED
    BY <2>1 DEF Timer, Sooner
<1>4. ASSUME NEW m \in srb0
      PROVE  /\ Sooner(m).msg = m.msg /\ Sooner(m).rnti = m.rnti
             /\ m.left \in Nat /\ Sooner(m).left = m.left - 1
  <2>1. m \in Srb0Message
    BY DEF RrcInv, QueueShape
  <2> QED
    BY <2>1 DEF Srb0Message, Sooner
<1>5. ASSUME NEW r \in Rntis
      PROVE  /\ DOMAIN srb1Down'[r] = DOMAIN srb1Down[r]
             /\ \A n \in DOMAIN srb1Down[r] : /\ srb1Down'[r][n].add = srb1Down[r][n].add
                                              /\ srb1Down'[r][n].release = srb1Down[r][n].release
             /\ srb1Down'[r] = << >> <=> srb1Down[r] = << >>
  <2>1. srb1Down'[r] = AllSooner(srb1Down[r]) /\ AllWaiting(srb1Down[r])
    BY DEF Elapse
  <2>2. srb1Down[r] \in Seq(DownMessage)
    BY DEF RrcInv, QueueShape
  <2>3. \A n \in DOMAIN srb1Down[r] : srb1Down[r][n] \in DownMessage
    BY <2>2, LenProperties, ElementOfSeq
  <2>4. \A n \in DOMAIN srb1Down[r] : /\ Sooner(srb1Down[r][n]) \in DownMessage
                                      /\ Sooner(srb1Down[r][n]).add = srb1Down[r][n].add
                                      /\ Sooner(srb1Down[r][n]).release = srb1Down[r][n].release
    BY <2>1, <2>3 DEF AllWaiting, Waiting, Sooner, DownMessage
  <2> QED
    BY <2>1, <2>2, <2>4, AllSoonerKeeps
<1>6. ASSUME NEW r \in Rntis
      PROVE  /\ DOMAIN srb1Up'[r] = DOMAIN srb1Up[r] /\ Len(srb1Up'[r]) = Len(srb1Up[r])
             /\ \A n \in DOMAIN srb1Up[r] : /\ srb1Up'[r][n].msg = srb1Up[r][n].msg
                                            /\ srb1Up'[r][n].left = srb1Up[r][n].left - 1
                                            /\ srb1Up[r][n].left \in Nat
             /\ srb1Up'[r] = << >> <=> srb1Up[r] = << >>
             /\ srb1Up[r] # << >> => 1 \in DOMAIN srb1Up[r]
  <2>1. srb1Up'[r] = AllSooner(srb1Up[r]) /\ AllWaiting(srb1Up[r])
    BY DEF Elapse
  <2>2. srb1Up[r] \in Seq(UpMessage)
    BY DEF RrcInv, QueueShape
  <2>3. \A n \in DOMAIN srb1Up[r] : srb1Up[r][n] \in UpMessage
    BY <2>2, LenProperties, ElementOfSeq
  <2>4. \A n \in DOMAIN srb1Up[r] : /\ Sooner(srb1Up[r][n]) \in UpMessage
                                    /\ Sooner(srb1Up[r][n]).msg = srb1Up[r][n].msg
                                    /\ Sooner(srb1Up[r][n]).left = srb1Up[r][n].left - 1
                                    /\ srb1Up[r][n].left \in Nat
    BY <2>1, <2>3 DEF AllWaiting, Waiting, Sooner, UpMessage
  <2>5. /\ srb1Up'[r] \in Seq(UpMessage) /\ DOMAIN srb1Up'[r] = DOMAIN srb1Up[r]
        /\ \A n \in DOMAIN srb1Up[r] : srb1Up'[r][n] = Sooner(srb1Up[r][n])
        /\ srb1Up'[r] = << >> <=> srb1Up[r] = << >>
    BY <2>1, <2>2, <2>4, AllSoonerKeeps
  <2>6. Len(srb1Up'[r]) = Len(srb1Up[r])
    BY <2>2, <2>5, LenProperties
  <2>7. srb1Up[r] # << >> => 1 \in DOMAIN srb1Up[r]
    BY <2>2, LenProperties, EmptySeq
  <2> QED
    BY <2>4, <2>5, <2>6, <2>7
<1>7. /\ DOMAIN s1Up' = DOMAIN s1Up
      /\ \A n \in DOMAIN s1Up : /\ s1Up'[n].msg = s1Up[n].msg /\ s1Up'[n].imsi = s1Up[n].imsi
                                /\ s1Up[n].left \in Nat /\ s1Up[n].left > 0
                                /\ s1Up'[n].left = s1Up[n].left - 1
  <2>1. s1Up' = AllSooner(s1Up) /\ AllWaiting(s1Up)
    BY DEF Elapse
  <2>2. \A n \in DOMAIN s1Up : s1Up[n] \in S1UpMessage
    BY S1Types
  <2>3. \A n \in DOMAIN s1Up : /\ Sooner(s1Up[n]).msg = s1Up[n].msg /\ Sooner(s1Up[n]).imsi = s1Up[n].imsi
                               /\ s1Up[n].left \in Nat /\ s1Up[n].left > 0
                               /\ Sooner(s1Up[n]).left = s1Up[n].left - 1
    BY <2>1, <2>2 DEF AllWaiting, Waiting, Sooner, S1UpMessage
  <2> QED
    BY <2>1, <2>3 DEF AllSooner
<1>8. /\ DOMAIN s1Down' = DOMAIN s1Down
      /\ \A n \in DOMAIN s1Down : /\ s1Down'[n].imsi = s1Down[n].imsi
                                  /\ s1Down'[n].bearers = s1Down[n].bearers
                                  /\ s1Down[n].left \in Nat /\ s1Down[n].left > 0
                                  /\ s1Down'[n].left = s1Down[n].left - 1
  <2>1. s1Down' = AllSooner(s1Down) /\ AllWaiting(s1Down)
    BY DEF Elapse
  <2>2. \A n \in DOMAIN s1Down : s1Down[n] \in SetupRequest
    BY S1Types
  <2>3. \A n \in DOMAIN s1Down : /\ Sooner(s1Down[n]).imsi = s1Down[n].imsi
                                 /\ Sooner(s1Down[n]).bearers = s1Down[n].bearers
                                 /\ s1Down[n].left \in Nat /\ s1Down[n].left > 0
                                 /\ Sooner(s1Down[n]).left = s1Down[n].left - 1
    BY <2>1, <2>2 DEF AllWaiting, Waiting, Sooner, SetupRequest, S1DownMessage
  <2> QED
    BY <2>1, <2>3 DEF AllSooner
<1>9. timers' = {Sooner(t) : t \in timers} /\ srb0' = {Sooner(m) : m \in srb0}
      /\ \A i \in Imsis : ue[i].rar = 0
  BY DEF Elapse
<1>10. \A t \in timers : t.kind # "Request"
  BY <1>3 DEF RrcInv, TimersAgree
<1>11. UePhases'
  BY <1>1 DEF DurationInv, UePhases, UePhase
<1>12. CellTimersAgree'
  <2>1. ASSUME NEW s \in timers, s.kind \in GuardKind PROVE s.rnti \in Rntis /\ CellTimer(Sooner(s))'
    <3>1. s.rnti \in Rntis /\ CellTimer(s)
      BY <2>1 DEF DurationInv, CellTimersAgree
    <3>2. /\ s.kind = "RequestTimeout" => ueMap'[s.rnti].state = "INITIAL_RANDOM_ACCESS"
          /\ s.kind = "RejectedTimeout" => ueMap'[s.rnti].state = "CONNECTION_REJECTED"
          /\ s.kind = "SetupTimeout" =>
               s.rnti <= lastRnti' /\ ueMap'[s.rnti].state \in {"NONE", "CONNECTION_SETUP"}
      BY <1>1, <3>1 DEF CellTimer
    <3> QED
      BY <1>3, <3>1, <3>2 DEF CellTimer
  <2>2. ASSUME NEW s \in timers, NEW t \in timers,
               s.kind \in GuardKind \ {"SetupTimeout"}, t.kind = s.kind, t.rnti = s.rnti
        PROVE  s = t
    BY <2>2 DEF DurationInv, CellTimersAgree
  <2>3. ASSUME NEW s \in timers', s.kind \in GuardKind PROVE s.rnti \in Rntis /\ CellTimer(s)'
    <3>1. PICK t \in timers : s = Sooner(t)
      BY <1>9
    <3>2. t.kind \in GuardKind /\ s.rnti = t.rnti
      BY <1>3, <2>3, <3>1
    <3>3. t.rnti \in Rntis /\ CellTimer(Sooner(t))'
      BY <2>1, <3>2
    <3> QED
      BY <3>1, <3>2, <3>3 DEF CellTimer
  <2>4. ASSUME NEW s \in timers', NEW t \in timers',
               s.kind \in GuardKind \ {"SetupTimeout"}, t.kind = s.kind, t.rnti = s.rnti
        PROVE  s = t
    <3>1. PICK x \in timers, y \in timers : s = Sooner(x) /\ t = Sooner(y)
      BY <1>9
    <3>2. x.kind = s.kind /\ y.kind = t.kind /\ x.rnti = s.rnti /\ y.rnti = t.rnti
      BY <1>3, <3>1
    <3> QED
      BY <2>2, <2>4, <3>1, <3>2
  <2>5. \A t \in timers' : t.kind # "Request"
    BY <1>3, <1>9, <1>10
  <2> QED
    BY <2>3, <2>4, <2>5 DEF CellTimersAgree
<1>13. RequestsInTime'
  BY <1>1, <1>3, <1>9, <1>10 DEF RequestsInTime
<1>14. ManagerPhases'
  <2>1. ASSUME NEW r \in Rntis PROVE ManagerPhase(r)'
    <3>1. ManagerPhase(r)
      BY DEF DurationInv, ManagerPhases
    <3>2. OnlyCompletions(srb1Up[r]) => OnlyCompletions(srb1Up'[r])
      BY <1>6 DEF OnlyCompletions
    <3>3. SetupPhase(r) => SetupPhase(r)'
      BY <1>1, <1>5, <1>6 DEF SetupPhase
    <3> QED
      BY <1>1, <3>1, <3>2, <3>3 DEF ManagerPhase, NoBearersYet, OnlyCompletions
  <2> QED
    BY <2>1 DEF ManagerPhases
<1>15. SetupInTime'
  <2> SUFFICES ASSUME InTimeForSetup PROVE SetupInTime'
    BY DEF SetupInTime, InTimeForSetup
  <2>1. ASSUME NEW t \in timers', t.kind = "SetupTimeout" PROVE GuardsSetup(t)'
    <3>1. PICK s \in timers : t = Sooner(s)
      BY <1>9
    <3>2. s.kind = "SetupTimeout" /\ s.rnti = t.rnti /\ t.left = s.left - 1 /\ s.left \in Nat
      BY <1>3, <2>1, <3>1
    <3>3. GuardsSetup(s) /\ s.rnti \in Rntis
      BY <3>2 DEF DurationInv, SetupInTime, CellTimersAgree, GuardKind
    <3>4. ASSUME NEW m \in srb0', m.msg = "Setup", m.rnti = t.rnti PROVE t.left > m.left + RadioDelay
      <4>1. PICK n \in srb0 : m = Sooner(n)
        BY <1>9
      <4>2. n.msg = "Setup" /\ n.rnti = s.rnti /\ m.left = n.left - 1 /\ n.left \in Nat
        BY <1>4, <3>2, <3>4, <4>1
      <4>3. s.left > n.left + RadioDelay
        BY <3>3, <4>2 DEF GuardsSetup
      <4>4. RadioDelay \in Nat
        BY RrcAssumption
      <4> QED
        BY <3>2, <4>2, <4>3, <4>4
    <3>5. ASSUME ueMap'[t.rnti].state = "CONNECTION_SETUP", srb1Up'[t.rnti] # << >>
          PROVE  t.left > srb1Up'[t.rnti][1].left
      <4>1. /\ srb1Up[s.rnti] # << >> /\ srb1Up'[t.rnti][1].left = srb1Up[s.rnti][1].left - 1
            /\ srb1Up[s.rnti][1].left \in Nat
        BY <1>6, <3>2, <3>3, <3>5
      <4>2. s.left > srb1Up[s.rnti][1].left
        BY <1>1, <3>2, <3>3, <3>5, <4>1 DEF GuardsSetup
      <4> QED
        BY <3>2, <4>1, <4>2
    <3> QED
      BY <3>4, <3>5 DEF GuardsSetup
  <2>2. ASSUME NEW j \in Imsis, ue[j].state = "CONNECTED_NORMALLY" PROVE HasUeManager(ue[j].macRnti)'
    <3>1. HasUeManager(ue[j].macRnti)
      BY <2>2 DEF DurationInv, SetupInTime
    <3> QED
      BY <1>1, <3>1 DEF HasUeManager
  <2> QED
    BY <1>1, <2>1, <2>2 DEF SetupInTime
<1>16. Requests' = Requests /\ \A j : Releases(j)' = Releases(j)
  BY <1>7 DEF Requests, Releases
<1>17. ReleasesAreOfConnected'
  <2>1. \A j \in Imsis : Intact(j) <=> Intact(j)'
    BY <1>1 DEF Intact
  <2> QED
    BY <1>1, <1>16, <2>1 DEF DurationInv, ReleasesAreOfConnected
<1>18. ContextSetupInTime'
  <2> SUFFICES ASSUME InTimeForS1 PROVE ContextSetupInTime'
    BY DEF ContextSetupInTime, InTimeForS1
  <2>1. OneSetupOfEach'
    <3>1. Requests \subseteq DOMAIN s1Up
      BY DEF Requests
    <3> QED
      BY <1>7, <1>8, <1>16, <3>1 DEF DurationInv, ContextSetupInTime, OneSetupOfEach
  <2>2. ASSUME NEW j \in Imsis, NEW d \in Nat, NEW e \in Nat, e = d - 1, AwaitsSetup(j, d)
        PROVE  AwaitsSetup(j, e)'
    <3>1. PICK q \in Rntis : q = epcRnti[j]
      BY <2>2, AwaitingContext
    <3>2. HasUeManager(q)' /\ NoBearersYet(ueMap[q])' /\ srb1Down'[q] = << >>
      BY <1>1, <1>5, <2>2, <3>1 DEF AwaitsSetup, HasUeManager, NoBearersYet
    <3>3. ue'[j].state \in WithMacRnti /\ ue'[j].macRnti = q /\ ue'[j].drbs = {}
      BY <1>1, <2>2, <3>1 DEF AwaitsSetup
    <3>4. Intact(j)' /\ Releases(j)' = {}
      BY <1>1, <1>16, <2>2 DEF AwaitsSetup, Intact
    <3>5. ASSUME NEW t \in timers',
                 (t.kind = "T300" /\ t.imsi = j) \/ (t.kind = "SetupTimeout" /\ t.rnti = q)
          PROVE  t.left > e
      <4>1. PICK s \in timers : t = Sooner(s)
        BY <1>9
      <4>2. /\ s.kind = t.kind /\ s.imsi = t.imsi /\ s.rnti = t.rnti
            /\ s.left \in Nat /\ t.left = s.left - 1
        BY <1>3, <4>1
      <4>3. s.left > d
        BY <2>2, <3>1, <3>5, <4>2 DEF AwaitsSetup
      <4> QED
        BY <2>2, <4>2, <4>3
    <3> QED
      BY <1>1, <3>1, <3>2, <3>3, <3>4, <3>5 DEF AwaitsSetup, HasUeManager, NoBearersYet
  <2>3. ASSUME NEW n \in Requests' PROVE AwaitsSetup(s1Up[n].imsi, s1Up[n].left + S1Delay)'
    <3>1. n \in Requests /\ n \in DOMAIN s1Up
      BY <1>16 DEF Requests
    <3>2. PICK j \in Imsis, d \in Nat : j = s1Up[n].imsi /\ d = s1Up[n].left + S1Delay
      BY <3>1, S1Types
    <3>3. S1Delay \in Nat
      BY RrcAssumption
    <3>4. PICK e \in Nat : e = d - 1
      BY <1>7, <3>1, <3>2, <3>3
    <3>5. AwaitsSetup(j, e)'
      BY <2>2, <3>1, <3>2, <3>4 DEF DurationInv, ContextSetupInTime
    <3>6. j = s1Up'[n].imsi /\ e = s1Up'[n].left + S1Delay
      BY <1>7, <3>1, <3>2, <3>3, <3>4
    <3> QED
      BY <3>5, <3>6 DEF AwaitsSetup
  <2>4. ASSUME NEW n \in DOMAIN s1Down
        PROVE  AwaitsSetup(s1Down[n].imsi, s1Down[n].left)' /\ InOrder(s1Down'[n])
    <3>1. PICK j \in Imsis, d \in Nat : j = s1Down[n].imsi /\ d = s1Down[n].left
      BY S1Types
    <3>2. PICK e \in Nat : e = d - 1
      BY <1>8, <3>1
    <3>3. AwaitsSetup(j, e)' /\ InOrder(s1Down[n])
      BY <2>2, <3>1, <3>2 DEF DurationInv, ContextSetupInTime
    <3>4. j = s1Down'[n].imsi /\ e = s1Down'[n].left
      BY <1>8, <3>1, <3>2
    <3>5. InOrder(s1Down'[n])
      BY <1>8, <3>3 DEF InOrder
    <3> QED
      BY <3>3, <3>4, <3>5 DEF AwaitsSetup
  <2> QED
    BY <1>8, <2>1, <2>3, <2>4 DEF ContextSetupInTime, InOrder
<1>19. ReleasesInTime'
  <2>1. ASSUME NEW j \in Imsis, ue[j].macRnti # 0, ReleasesAreKnown(j) PROVE ReleasesAreKnown(j)'
    <3>1. PICK q \in Rntis : q = ue[j].macRnti
      BY <1>2, <2>1 DEF AnyUe
    <3> QED
      BY <1>1, <1>5, <2>1, <3>1 DEF ReleasesAreKnown
  <2> QED
    BY <1>1, <2>1 DEF DurationInv, ReleasesInTime, InTimeForS1
<1>20. LcidsFit'
  BY <1>1, <1>5, <1>8 DEF DurationInv, LcidsFit, Active
<1> QED
  BY <1>11, <1>12, <1>13, <1>14, <1>15, <1>17, <1>18, <1>19, <1>20 DEF DurationInv

--------------------------------------------------------------------------------
(* Every step.                                                             *)

(* A failed check leaves everything else as it is.                         *)
LEMMA FailInTime ==
  ASSUME RrcInv, DurationInv, NEW what, Fail(what)
  PROVE  DurationInv'
<1>1. srb0' = srb0 /\ timers' = timers
      /\ UNCHANGED <<epcVars, ue, enbVars, lastRnti, s1AppVars, srb1Down, srb1Up, s1Vars>>
  BY DEF Fail, radioVars
<1>2. srb0' \subseteq srb0 /\ timers' \subseteq timers
  BY <1>1
<1> QED
  BY <1>1, <1>2, Srb0StepInTime

(* What a UE receives.                                                     *)
LEMMA UeStepInTime ==
  ASSUME RrcInv, DurationInv, NEW i \in Imsis, UeStep(i)
  PROVE  DurationInv'
<1>1. CASE \E what : Fail(what)
  BY <1>1, FailInTime
<1>2. CASE RecvMasterInformationBlock(i) \/ RecvSystemInformation(i)
  BY <1>2, BeforeRandomAccessInTime
<1>3. CASE AllocateTemporaryCellRnti(i)
  BY <1>3, AllocateInTime
<1>4. CASE RecvRaResponse(i) /\ ~ \E what : Fail(what)
  <2>1. ue[i].rar # 0 /\ ue[i].state = "IDLE_RANDOM_ACCESS"
    BY <1>4 DEF RecvRaResponse
  <2> QED
    BY <1>4, <2>1, RaResponseInTime
<1>5. CASE RecvRrcConnectionSetup(i) /\ ~ \E what : Fail(what)
  <2>1. PICK m \in srb0, again \in BOOLEAN :
          /\ m.msg = "Setup" /\ m.rnti = ue[i].macRnti
          /\ CASE ue[i].state = "IDLE_CONNECTING" ->
                    /\ ue' = [ue EXCEPT ![i] = Activated([ue[i] EXCEPT !.state = "CONNECTED_NORMALLY"])]
                    /\ timers' = timers \ OfImsi("T300", i)
                    /\ SendUp(ue[i].rnti, "SetupCompleted")
                    /\ srb0' = IF again THEN srb0 ELSE srb0 \ {m}
                    /\ UNCHANGED <<epcVars, enbVars, lastRnti, s1AppVars, srb1Down, s1Vars, budget, failure>>
               [] ue[i].state = "CONNECTED_NORMALLY" ->
                    /\ srb0' = srb0 \ {m}
                    /\ UNCHANGED <<epcVars, ue, enbVars, lastRnti, s1AppVars, timers, srb1Down, srb1Up,
                                   s1Vars, budget, failure>>
               [] OTHER -> Fail("unexpected_state")
    BY <1>5 DEF RecvRrcConnectionSetup
  <2>2. CASE ue[i].state = "IDLE_CONNECTING"
    <3>1. /\ ue' = [ue EXCEPT ![i] = Activated([ue[i] EXCEPT !.state = "CONNECTED_NORMALLY"])]
          /\ timers' = timers \ OfImsi("T300", i)
          /\ SendUp(ue[i].rnti, "SetupCompleted")
          /\ srb0' \subseteq srb0
          /\ UNCHANGED <<epcVars, enbVars, lastRnti, s1AppVars, srb1Down, s1Vars>>
      BY <2>1, <2>2
    <3> QED
      BY <2>1, <2>2, <3>1, SetupInTimeKeeps
  <2>3. CASE ue[i].state = "CONNECTED_NORMALLY"
    <3>1. /\ srb0' \subseteq srb0 /\ timers' \subseteq timers
          /\ UNCHANGED <<epcVars, ue, enbVars, lastRnti, s1AppVars, srb1Down, srb1Up, s1Vars>>
      BY <2>1, <2>3
    <3> QED
      BY <3>1, Srb0StepInTime
  <2>4. ue[i].state \in {"IDLE_CONNECTING", "CONNECTED_NORMALLY"}
    BY <1>5, <2>1
  <2> QED
    BY <2>2, <2>3, <2>4
<1>6. CASE RecvRrcConnectionReject(i)
  BY <1>6, RejectedInTime
<1>7. CASE RecvRrcConnectionReconfiguration(i) /\ ~ \E what : Fail(what)
  <2>1. PICK r, m : r = ue[i].macRnti /\ m = Head(srb1Down[r])
    OBVIOUS
  <2>2. /\ r # 0 /\ srb1Down[r] # << >> /\ ue[i].state = "CONNECTED_NORMALLY"
        /\ ue' = [ue EXCEPT ![i].drbs = (@ \cup m.add) \ m.release]
        /\ srb1Down' = [srb1Down EXCEPT ![r] = Tail(@)]
        /\ SendUp(r, "ReconfigurationCompleted")
        /\ UNCHANGED <<epcVars, enbVars, lastRnti, s1AppVars, timers, srb0, s1Vars>>
    BY <1>7, <2>1 DEF RecvRrcConnectionReconfiguration
  <2> QED
    BY <2>1, <2>2, ReconfigurationInTime
<1> QED
  BY <1>1, <1>2, <1>3, <1>4, <1>5, <1>6, <1>7 DEF UeStep

(* A timer of a UeManager that expires in the state it guards.             *)
LEMMA TimeoutInTime ==
  ASSUME RrcInv, DurationInv, NEW t \in timers, t.left = 0, NEW state, TimeoutIn(t, state),
         \/ t.kind = "RequestTimeout" /\ state = "INITIAL_RANDOM_ACCESS"
         \/ t.kind = "RejectedTimeout" /\ state = "CONNECTION_REJECTED"
         \/ t.kind = "SetupTimeout" /\ state = "CONNECTION_SETUP"
  PROVE  DurationInv'
<1>1. CASE \E what : Fail(what)
  BY <1>1, FailInTime
<1>2. CASE ~ \E what : Fail(what)
  <2>1. HasUeManager(t.rnti) /\ ueMap[t.rnti].state = state
        /\ RemoveUe(t.rnti) /\ timers' = timers \ {t}
    BY <1>2 DEF TimeoutIn
  <2> QED
    BY <2>1, RemovalInTime
<1> QED
  BY <1>1, <1>2

(* The timers that are due, of the UEs and of the cell.                    *)
LEMMA TimerStepInTime ==
  ASSUME RrcInv, DurationInv, TimerStep
  PROVE  DurationInv'
<1>1. ASSUME NEW t \in Due("Connect"), Connect(t) PROVE DurationInv'
  BY <1>1, ConnectInTime DEF Due
<1>2. ASSUME NEW t \in Due("T300"), ConnectionTimeout(t) PROVE DurationInv'
  BY <1>2, ConnectionTimeoutInTime DEF Due
<1>3. ASSUME NEW t \in Due("Request"), RecvRrcConnectionRequest(t) PROVE DurationInv'
  <2>1. t \in timers /\ t.kind = "Request"
    BY DEF Due
  <2>2. CASE \E what : Fail(what)
    BY <2>2, FailInTime
  <2>3. CASE ~ \E what : Fail(what)
    <3>1. /\ HasUeManager(t.rnti) /\ ueMap[t.rnti].state = "INITIAL_RANDOM_ACCESS"
          /\ AdmitRrcConnection(t) \/ RejectRrcConnection(t)
      BY <1>3, <2>3 DEF RecvRrcConnectionRequest
    <3> QED
      BY <2>1, <3>1, AdmitInTime, RejectInTime
  <2> QED
    BY <2>2, <2>3
<1>4. ASSUME NEW t \in Due("RequestTimeout"), ConnectionRequestTimeout(t) PROVE DurationInv'
  BY <1>4, TimeoutInTime DEF Due, ConnectionRequestTimeout
<1>5. ASSUME NEW t \in Due("SetupTimeout"), ConnectionSetupTimeout(t) PROVE DurationInv'
  <2>1. t \in timers /\ t.kind = "SetupTimeout" /\ t.left = 0
    BY DEF Due
  <2>2. CASE HasUeManager(t.rnti)
    BY <1>5, <2>1, <2>2, TimeoutInTime DEF ConnectionSetupTimeout
  <2>3. CASE ~HasUeManager(t.rnti)
    <3>1. timers' = timers \ {t} /\ srb0' = srb0
          /\ UNCHANGED <<epcVars, ue, enbVars, lastRnti, s1AppVars, srb1Down, srb1Up, s1Vars>>
      BY <1>5, <2>3 DEF ConnectionSetupTimeout, radioVars
    <3>2. timers' \subseteq timers /\ srb0' \subseteq srb0
      BY <3>1
    <3> QED
      BY <3>1, <3>2, Srb0StepInTime
  <2> QED
    BY <2>2, <2>3
<1>6. ASSUME NEW t \in Due("RejectedTimeout"), ConnectionRejectedTimeout(t) PROVE DurationInv'
  BY <1>6, TimeoutInTime DEF Due, ConnectionRejectedTimeout
<1> QED
  BY <1>1, <1>2, <1>3, <1>4, <1>5, <1>6 DEF TimerStep

(* What a UeManager receives.                                              *)
LEMMA EnbStepInTime ==
  ASSUME RrcInv, DurationInv, NEW r \in Rntis, EnbStep(r)
  PROVE  DurationInv'
<1>1. CASE \E what : Fail(what)
  BY <1>1, FailInTime
<1>2. CASE RecvRrcConnectionSetupCompleted(r) /\ ~ \E what : Fail(what)
  <2>1. /\ Received(r) /\ OnlyTheManager /\ ToConnectedNormally(r)
        /\ ueMap[r].state = "CONNECTION_SETUP" /\ timers' = timers \ OfRnti("SetupTimeout", r)
    BY <1>2 DEF RecvRrcConnectionSetupCompleted
  <2>2. timers' \subseteq timers /\ \A t \in timers' : t.kind = "SetupTimeout" => t.rnti # r
    BY <2>1 DEF OfRnti
  <2> QED
    BY <2>1, <2>2, CompletionInTime
<1>3. CASE RecvRrcConnectionReconfigurationCompleted(r) /\ ~ \E what : Fail(what)
  <2>1. /\ Received(r) /\ OnlyTheManager /\ timers' = timers
        /\ \/ ToConnectedNormally(r) /\ ueMap[r].state = "CONNECTION_RECONFIGURATION"
           \/ ueMap[r].state = "CONNECTED_NORMALLY" /\ UNCHANGED <<ueMap, srb1Down>>
    BY <1>3 DEF RecvRrcConnectionReconfigurationCompleted
  <2>2. timers' \subseteq timers
    BY <2>1
  <2> QED
    BY <2>1, <2>2, CompletionInTime
<1> QED
  BY <1>1, <1>2, <1>3 DEF EnbStep

(* What the MME and the S1 application receive.                            *)
LEMMA S1StepInTime ==
  ASSUME RrcInv, DurationInv, S1Step
  PROVE  DurationInv'
<1>1. CASE MmeRecvInitialUeMessage
  BY <1>1, InitialUeMessageInTime
<1>2. CASE MmeRecvErabReleaseIndication
  BY <1>2, ReleaseIndicationInTime
<1>3. CASE \E what : Fail(what)
  BY <1>3, FailInTime
<1>4. CASE RecvInitialContextSetupRequest /\ ~ \E what : Fail(what)
  <2>1. PICK i, bearers, r :
          i = Head(s1Down).imsi /\ bearers = Head(s1Down).bearers /\ r = epcRnti[i]
    OBVIOUS
  <2>2. CASE bearers = << >>
    <3>1. /\ s1Down # << >> /\ s1Down' = Tail(s1Down)
          /\ UNCHANGED <<epcVars, ue, enbVars, lastRnti, s1AppVars, timers, radioVars, s1Up>>
      BY <1>4, <2>1, <2>2 DEF RecvInitialContextSetupRequest
    <3> QED
      BY <3>1, EmptySetupInTime
  <2>3. CASE bearers # << >>
    BY <1>4, <2>1, <2>3, ContextSetupInTimeKeeps
  <2> QED
    BY <2>2, <2>3
<1> QED
  BY <1>1, <1>2, <1>3, <1>4 DEF S1Step

(* A message of SRB0 that is lost or that nobody takes.                    *)
LEMMA OnlySrb0InTime ==
  ASSUME RrcInv, DurationInv, NEW m, OnlySrb0(m)
  PROVE  DurationInv'
<1>1. /\ srb0' \subseteq srb0 /\ timers' \subseteq timers
      /\ UNCHANGED <<epcVars, ue, enbVars, lastRnti, s1AppVars, srb1Down, srb1Up, s1Vars>>
  BY DEF OnlySrb0
<1> QED
  BY <1>1, Srb0StepInTime

(* Every step of the cell, the UEs, the MME and the scenario keeps both.   *)
LEMMA NextDurationInv ==
  RrcInv /\ DurationInv /\ [RrcNext]_rrcVars => DurationInv'
<1> SUFFICES ASSUME RrcInv, DurationInv, [RrcNext]_rrcVars PROVE DurationInv'
  OBVIOUS
<1>1. ASSUME Progress PROVE DurationInv'
  BY <1>1, UeStepInTime, TimerStepInTime, EnbStepInTime, S1StepInTime, OnlySrb0InTime, ElapseInTime
     DEF Progress, DiscardSrb0
<1>2. ASSUME NEW i \in Imsis, ActivateEpsBearer(i) \/ Attach(i) \/ LoseRaResponse(i)
      PROVE  DurationInv'
  BY <1>2, ScenarioInTime
<1>3. ASSUME NEW m \in srb0, LoseSrb0(m) PROVE DurationInv'
  BY <1>3, OnlySrb0InTime DEF LoseSrb0
<1>4. ASSUME NEW i \in Imsis, NEW b \in Bearers, DeActivateDedicatedEpsBearer(i, b)
      PROVE  DurationInv'
  BY <1>4, DeActivateInTime
<1>5. CASE UNCHANGED rrcVars
  <2>1. srb0' = srb0 /\ timers' = timers
        /\ UNCHANGED <<epcVars, ue, enbVars, lastRnti, s1AppVars, srb1Down, srb1Up, s1Vars>>
    BY <1>5 DEF rrcVars, radioVars
  <2>2. srb0' \subseteq srb0 /\ timers' \subseteq timers
    BY <2>1
  <2> QED
    BY <2>1, <2>2, Srb0StepInTime
<1> QED
  BY <1>1, <1>2, <1>3, <1>4, <1>5 DEF RrcNext

(* RrcInv and DurationInv hold in every run: what a timer or a message     *)
(* finds is what the durations leave possible.                             *)
THEOREM DurationInvariantHolds ==
  RrcSafeSpec => [](RrcInv /\ DurationInv)
<1>1. RrcInit => RrcInv /\ DurationInv
  BY InitRrcInv, InitDurationInv
<1>2. (RrcInv /\ DurationInv) /\ [RrcNext]_rrcVars => (RrcInv /\ DurationInv)'
  BY NextRrcInv, NextDurationInv
<1> QED
  BY <1>1, <1>2, PTL DEF RrcSafeSpec

--------------------------------------------------------------------------------
(* The budget of faults and the failed check have their types: each action *)
(* spends one of a kind there is, or fails with a check there is.          *)
FaultsTyped == budget \in [FaultKind -> Nat] /\ failure \in Failure

(* A budget is spent only while there is some.                             *)
LEMMA SpendKeeps ==
  ASSUME budget \in [FaultKind -> Nat], NEW what \in FaultKind, Spend(what)
  PROVE  budget' \in [FaultKind -> Nat]
<1>1. budget[what] \in Nat /\ budget[what] > 0 /\ budget' = [budget EXCEPT ![what] = budget[what] - 1]
  BY DEF Spend
<1>2. budget[what] - 1 \in Nat
  BY <1>1
<1> QED
  BY <1>1, <1>2

(* A check that fails is one there is.                                     *)
LEMMA FailTyped ==
  ASSUME FaultsTyped, NEW what \in Failure, Fail(what)
  PROVE  FaultsTyped'
  BY DEF FaultsTyped, Fail

(* Every step spends and fails like that.                                  *)
LEMMA NextFaultsTyped ==
  FaultsTyped /\ [RrcNext]_rrcVars => FaultsTyped'
<1> SUFFICES ASSUME FaultsTyped, [RrcNext]_rrcVars PROVE FaultsTyped'
  OBVIOUS
<1>1. ASSUME UNCHANGED <<budget, failure>> PROVE FaultsTyped'
  BY <1>1 DEF FaultsTyped
<1>2. ASSUME NEW what \in FaultKind, Spend(what), UNCHANGED failure PROVE FaultsTyped'
  BY <1>2, SpendKeeps DEF FaultsTyped
<1>3. /\ \A what \in {"none", "too_many_bearers", "unexpected_state", "no_ue_manager",
                      "bearer_id_mismatch", "reserved_lcid", "drb_not_found"} : what \in Failure
      /\ \A what \in {"losses", "rars", "rejects", "releases", "activations"} : what \in FaultKind
  BY DEF Failure, FaultKind
<1>4. ASSUME NEW i \in Imsis, UeStep(i) PROVE FaultsTyped'
  <2>1. CASE \E what \in Failure : Fail(what)
    BY <2>1, FailTyped
  <2>2. CASE ~ \E what \in Failure : Fail(what)
    <3>1. ~Fail("unexpected_state") /\ ~Fail("reserved_lcid") /\ ~Fail("drb_not_found")
      BY <1>3, <2>2
    <3>2. UNCHANGED <<budget, failure>>
      <4>1. CASE RecvMasterInformationBlock(i) \/ RecvSystemInformation(i)
        BY <4>1 DEF RecvMasterInformationBlock, RecvSystemInformation, OnlyTheUeOf
      <4>2. CASE AllocateTemporaryCellRnti(i) \/ RecvRrcConnectionReject(i)
        BY <4>2 DEF AllocateTemporaryCellRnti, RecvRrcConnectionReject
      <4>3. CASE RecvRaResponse(i)
        BY <3>1, <4>3 DEF RecvRaResponse, OnlyTheUeOf
      <4>4. CASE RecvRrcConnectionSetup(i)
        BY <3>1, <4>4 DEF RecvRrcConnectionSetup
      <4>5. CASE RecvRrcConnectionReconfiguration(i)
        BY <3>1, <4>5 DEF RecvRrcConnectionReconfiguration
      <4> QED
        BY <1>4, <4>1, <4>2, <4>3, <4>4, <4>5 DEF UeStep
    <3> QED
      BY <1>1, <3>2
  <2> QED
    BY <2>1, <2>2
<1>5. ASSUME TimerStep PROVE FaultsTyped'
  <2>1. ASSUME NEW t, NEW state, TimeoutIn(t, state) PROVE FaultsTyped'
    <3>1. CASE Fail("no_ue_manager") \/ Fail("unexpected_state")
      BY <1>3, <3>1, FailTyped
    <3>2. CASE RemoveUe(t.rnti)
      BY <1>1, <3>2 DEF RemoveUe
    <3> QED
      BY <2>1, <3>1, <3>2 DEF TimeoutIn
  <2>2. ASSUME NEW t, Connect(t) PROVE FaultsTyped'
    BY <1>1, <2>2 DEF Connect, OnlyTheUeOf
  <2>3. ASSUME NEW t, ConnectionTimeout(t) PROVE FaultsTyped'
    BY <1>1, <2>3 DEF ConnectionTimeout
  <2>4. ASSUME NEW t, RecvRrcConnectionRequest(t) PROVE FaultsTyped'
    <3>1. CASE Fail("no_ue_manager") \/ Fail("unexpected_state")
      BY <1>3, <3>1, FailTyped
    <3>2. CASE AdmitRrcConnection(t)
      BY <1>1, <3>2 DEF AdmitRrcConnection
    <3>3. CASE RejectRrcConnection(t)
      BY <1>2, <1>3, <3>3 DEF RejectRrcConnection
    <3> QED
      BY <2>4, <3>1, <3>2, <3>3 DEF RecvRrcConnectionRequest
  <2>5. ASSUME NEW t, ConnectionSetupTimeout(t) PROVE FaultsTyped'
    BY <1>1, <2>1, <2>5 DEF ConnectionSetupTimeout
  <2> QED
    BY <1>5, <2>1, <2>2, <2>3, <2>4, <2>5
       DEF TimerStep, ConnectionRequestTimeout, ConnectionRejectedTimeout
<1>6. ASSUME NEW r \in Rntis, EnbStep(r) PROVE FaultsTyped'
  <2>1. CASE Fail("unexpected_state") \/ Fail("drb_not_found")
    BY <1>3, <2>1, FailTyped
  <2>2. CASE OnlyTheManager
    BY <1>1, <2>2 DEF OnlyTheManager
  <2> QED
    BY <1>6, <2>1, <2>2
       DEF EnbStep, RecvRrcConnectionSetupCompleted, RecvRrcConnectionReconfigurationCompleted
<1>7. ASSUME S1Step PROVE FaultsTyped'
  <2>1. CASE MmeRecvInitialUeMessage \/ MmeRecvErabReleaseIndication
    BY <1>1, <2>1 DEF MmeRecvInitialUeMessage, MmeRecvErabReleaseIndication
  <2>2. CASE Fail("no_ue_manager") \/ Fail("bearer_id_mismatch") \/ Fail("unexpected_state")
    BY <1>3, <2>2, FailTyped
  <2>3. CASE UNCHANGED <<budget, failure>>
    BY <1>1, <2>3
  <2> QED
    BY <1>7, <2>1, <2>2, <2>3 DEF S1Step, RecvInitialContextSetupRequest
<1>8. ASSUME NEW m, OnlySrb0(m), UNCHANGED budget \/ Spend("losses") PROVE FaultsTyped'
  BY <1>1, <1>2, <1>3, <1>8 DEF OnlySrb0
<1>9. ASSUME Progress PROVE FaultsTyped'
  <2>1. CASE Elapse
    BY <1>1, <2>1 DEF Elapse
  <2> QED
    BY <1>4, <1>5, <1>6, <1>7, <1>8, <1>9, <2>1 DEF Progress, DiscardSrb0
<1>10. ASSUME NEW i \in Imsis, ActivateEpsBearer(i) \/ Attach(i) \/ LoseRaResponse(i)
       PROVE  FaultsTyped'
  <2>1. CASE Attach(i)
    BY <1>1, <2>1 DEF Attach
  <2>2. CASE LoseRaResponse(i)
    BY <1>2, <1>3, <2>2 DEF LoseRaResponse
  <2>3. CASE ActivateEpsBearer(i)
    BY <1>1, <1>2, <1>3, <2>3 DEF ActivateEpsBearer
  <2> QED
    BY <1>10, <2>1, <2>2, <2>3
<1>11. ASSUME NEW i \in Imsis, NEW b \in Bearers, DeActivateDedicatedEpsBearer(i, b)
       PROVE  FaultsTyped'
  BY <1>2, <1>3, <1>11 DEF DeActivateDedicatedEpsBearer
<1>12. CASE UNCHANGED rrcVars
  BY <1>1, <1>12 DEF rrcVars
<1> QED
  BY <1>8, <1>9, <1>10, <1>11, <1>12 DEF RrcNext, LoseSrb0

(* The types, with the bounds of the bearers that the two counters have.   *)
LEMMA TypesFollow ==
  RrcInv /\ DurationInv /\ FaultsTyped => RrcTypeOK
<1> SUFFICES ASSUME RrcInv, DurationInv, FaultsTyped PROVE RrcTypeOK
  OBVIOUS
<1>1. /\ bearerCounter \in [Imsis -> 0..MaxBearersOfUe]
      /\ bearersToBeActivated = [i \in Imsis |-> bearersToBeActivated[i]]
      /\ \A i \in Imsis : bearersToBeActivated[i] \in Seq(BearersOf(i))
  BY DEF RrcInv, EpcInv, BearersCounted
<1>2. EpcTypeOK
  <2>1. ASSUME NEW i \in Imsis PROVE bearersToBeActivated[i] \in Seq(Bearers)
    <3>1. bearersToBeActivated[i] \in Seq(BearersOf(i))
      BY <1>1
    <3>2. \A n \in 1..Len(bearersToBeActivated[i]) : bearersToBeActivated[i][n] \in Bearers
      BY <3>1, BearersOfAreBearers, ElementOfSeq
    <3> QED
      BY <3>1, <3>2, SeqDef, LenProperties
  <2> QED
    BY <1>1, <2>1 DEF EpcTypeOK, RrcInv, EpcInv, TeidsCounted
<1>3. ue \in [Imsis -> Ue]
  <2>1. ASSUME NEW i \in Imsis PROVE ue[i] \in Ue
    <3>1. ue[i] \in AnyUe
      BY DEF RrcInv, RrcShape
    <3>2. ue[i].toActivate \in 0..MaxBearersOfUe /\ ue[i].bidCounter \in 0..MaxBearersOfUe
      <4>1. /\ ue[i].toActivate \in Nat /\ ue[i].bidCounter \in Nat /\ ue[i].active \in BOOLEAN
            /\ bearerCounter[i] \in 0..MaxBearersOfUe /\ MaxBearersOfUe \in Nat
        BY <1>1, <3>1 DEF AnyUe, MaxBearersOfUe
      <4>2. /\ ue[i].active => ue[i].toActivate = 0
            /\ ~ue[i].active => ue[i].toActivate = bearerCounter[i]
            /\ ue[i].bidCounter <= MaxBearersOfUe
        BY DEF DurationInv, UePhases, UePhase
      <4> QED
        BY <4>1, <4>2
    <3> QED
      BY <3>1, <3>2 DEF AnyUe, Ue
  <2> QED
    BY <2>1 DEF RrcInv, RrcShape
<1>4. ueMap \in [Rntis -> UeManager]
  <2>1. ASSUME NEW r \in Rntis PROVE ueMap[r] \in UeManager
    <3>1. ueMap[r] \in AnyManager
      BY DEF RrcInv, RrcShape
    <3>2. ueMap[r].lastDrbid \in 0..MaxBearersOfUe
      BY <3>1 DEF AnyManager, DurationInv, ManagerPhases, ManagerPhase, MaxBearersOfUe
    <3> QED
      BY <3>1, <3>2 DEF AnyManager, UeManager
  <2> QED
    BY <2>1 DEF RrcInv, RrcShape
<1>5. s1Down \in Seq(S1DownMessage)
  <2>1. s1Down \in Seq(SetupRequest)
    BY DEF RrcInv, QueueShape
  <2>2. \A n \in 1..Len(s1Down) : s1Down[n] \in S1DownMessage
    BY <2>1, ElementOfSeq DEF SetupRequest
  <2> QED
    BY <2>1, <2>2, SeqDef, LenProperties
<1> QED
  BY <1>2, <1>3, <1>4, <1>5 DEF RrcTypeOK, RrcInv, RrcShape, QueueShape, FaultsTyped

(* Every counter of bearers stays within the identities that there are.    *)
THEOREM RrcTypesHold ==
  RrcSafeSpec => []RrcTypeOK
<1>1. RrcInit => FaultsTyped
  BY RrcAssumption DEF RrcInit, FaultsTyped, Failure
<1>2. RrcSafeSpec => []FaultsTyped
  BY <1>1, NextFaultsTyped, PTL DEF RrcSafeSpec
<1> QED
  BY <1>2, DurationInvariantHolds, TypesFollow, PTL

(* A UE that is connected is connected to a context that serves it, if the *)
(* setup and its completion need less than ConnectionSetupTimeout.         *)
THEOREM ConnectedIsServed ==
  ASSUME InTimeForSetup
  PROVE  RrcSafeSpec => []ConnectedMeansServed
<1>1. RrcInv /\ DurationInv => ConnectedMeansServed
  <2> SUFFICES ASSUME RrcInv, DurationInv, NEW i \in Imsis, ue[i].state = "CONNECTED_NORMALLY"
               PROVE  /\ HasUeManager(ue[i].rnti) /\ ueMap[ue[i].rnti].state \in Admitted
                      /\ imsiRnti[i] = ue[i].rnti
    BY DEF ConnectedMeansServed, Admitted
  <2>1. PICK r : r = ue[i].rnti
    OBVIOUS
  <2>2. ue[i].macRnti = r
    BY <2>1 DEF RrcInv, UesAgree, WithMacRnti
  <2>3. HasUeManager(r) /\ r \in Rntis
    BY <2>2 DEF DurationInv, SetupInTime, HasUeManager
  <2>4. ueMap[r].imsi = i
    BY <2>2, <2>3 DEF RrcInv, UesAgree
  <2>5. ueMap[r].state \in Admitted
    BY <2>3, <2>4, ImsiIsNat DEF RrcInv, ManagersAgree, ManagerAgrees
  <2>6. rntiImsi[r] = i
    BY <2>3, <2>4 DEF RrcInv, IdentityMapsAgree, Live
  <2> QED
    BY <2>1, <2>3, <2>5, <2>6 DEF RrcInv, IdentityMapsAgree
<1> QED
  BY <1>1, DurationInvariantHolds, PTL

--------------------------------------------------------------------------------
(* No check of the code fails, for durations that are in time and bearers  *)
(* that have logical channels: what each step finds.                       *)
InTime == InTimeForRequest /\ InTimeForS1 /\ MaxBearers < MaxBearersOfUe

(* The identity of a bearer is a number.                                   *)
LEMMA BearersAreNats ==
  Bearers \subseteq Nat
<1>1. ASSUME NEW b \in Bearers PROVE b \in Nat
  <2>1. PICK i \in Imsis : b \in BearersOf(i)
    BY DEF Bearers
  <2> QED
    BY <2>1, ImsiIsNat DEF BearersOf, BearerId, MaxBearersOfUe
<1> QED
  BY <1>1

(* What a UE receives finds it in a state it expects, and tells it of      *)
(* bearers that have a logical channel and that it has.                    *)
LEMMA UeStepFindsItsState ==
  ASSUME RrcInv, DurationInv, InTime, failure = "none", NEW i \in Imsis, UeStep(i)
  PROVE  failure' = "none"
<1>1. CASE RecvMasterInformationBlock(i) \/ RecvSystemInformation(i)
  BY <1>1 DEF RecvMasterInformationBlock, RecvSystemInformation, OnlyTheUeOf
<1>2. CASE AllocateTemporaryCellRnti(i) \/ RecvRrcConnectionReject(i)
  BY <1>2 DEF AllocateTemporaryCellRnti, RecvRrcConnectionReject
<1>3. CASE RecvRaResponse(i)
  <2>1. ue[i].rar # 0
    BY <1>3 DEF RecvRaResponse
  <2>2. ue[i].state = "IDLE_RANDOM_ACCESS"
    BY <2>1 DEF DurationInv, UePhases, UePhase
  <2> QED
    BY <1>3, <2>2 DEF RecvRaResponse, OnlyTheUeOf
<1>4. CASE RecvRrcConnectionSetup(i)
  <2>1. PICK m \in srb0 : /\ m.msg = "Setup" /\ m.rnti = ue[i].macRnti
                          /\ \/ UNCHANGED failure
                             \/ ue[i].state \notin {"IDLE_CONNECTING", "CONNECTED_NORMALLY"}
    BY <1>4 DEF RecvRrcConnectionSetup
  <2>2. ue[i].macRnti # 0
    BY <2>1, SetupFinds
  <2>3. ue[i].state \in {"IDLE_CONNECTING", "CONNECTED_NORMALLY"}
    BY <2>2 DEF DurationInv, UePhases, UePhase, WithMacRnti
  <2> QED
    BY <2>1, <2>3
<1>5. CASE RecvRrcConnectionReconfiguration(i)
  <2>1. PICK r, m : r = ue[i].macRnti /\ m = Head(srb1Down[r])
    OBVIOUS
  <2>2. r # 0 /\ srb1Down[r] # << >> /\ r \in Rntis
    <3>1. r # 0 /\ srb1Down[r] # << >>
      BY <1>5, <2>1 DEF RecvRrcConnectionReconfiguration
    <3>2. ue[i] \in AnyUe
      BY DEF RrcInv, RrcShape
    <3> QED
      BY <2>1, <3>1, <3>2 DEF AnyUe
  <2>3. srb1Down[r] \in Seq(DownMessage)
    BY <2>2 DEF RrcInv, QueueShape
  <2>4. 1 \in DOMAIN srb1Down[r] /\ m = srb1Down[r][1]
    BY <2>1, <2>2, <2>3, TailIs
  <2>5. ue[i].state = "CONNECTED_NORMALLY"
    <3>1. ueMap[r].state \in Admitted /\ ueMap[r].state # "CONNECTION_SETUP"
      BY <2>2 DEF RrcInv, ManagersAgree, ManagerAgrees, DurationInv, ManagerPhases, ManagerPhase,
                  SetupPhase
    <3>2. ue[ueMap[r].imsi].state = "CONNECTED_NORMALLY" /\ ueMap[r].imsi # 0
      BY <2>2, <3>1 DEF RrcInv, ManagersAgree, ManagerAgrees
    <3>3. ueMap[r].imsi = i
      BY <2>1, <2>2, <3>2 DEF RrcInv, UesAgree
    <3> QED
      BY <3>2, <3>3
  <2>6. \A b \in m.add : ~(Lcid(b) <= 2)
    <3>1. m.add \subseteq WithLcid
      BY <2>2, <2>4 DEF DurationInv, LcidsFit, InTime
    <3>2. m.add \subseteq Bearers
      <4>1. m \in DownMessage
        BY <2>2, <2>3, <2>1, TailIs
      <4> QED
        BY <4>1 DEF DownMessage
    <3>3. ASSUME NEW b \in m.add PROVE ~(Lcid(b) <= 2)
      <4>1. Lcid(b) > 2 /\ b \in Nat
        BY <3>1, BearersAreNats DEF WithLcid
      <4>2. Lcid(b) \in Int
        BY <4>1 DEF Lcid
      <4> QED
        BY <4>1, <4>2
    <3> QED
      BY <3>3
  <2>7. m.release \subseteq ue[i].drbs
    BY <2>1, <2>2, <2>4 DEF DurationInv, ReleasesInTime, ReleasesAreKnown, InTime
  <2>8. m.release \subseteq ue[i].drbs \cup m.add
    BY <2>7
  <2> QED
    BY <1>5, <2>1, <2>5, <2>6, <2>8 DEF RecvRrcConnectionReconfiguration
<1> QED
  BY <1>1, <1>2, <1>3, <1>4, <1>5 DEF UeStep

(* A timer of a UeManager finds it in the state it guards, or, of          *)
(* ConnectionSetupTimeout, gone; a request finds the UeManager that was    *)
(* created for its preamble.                                               *)
LEMMA TimerFindsItsState ==
  ASSUME RrcInv, DurationInv, InTime, failure = "none", TimerStep
  PROVE  failure' = "none"
<1>1. ASSUME NEW t \in Due("Connect"), Connect(t) PROVE failure' = "none"
  BY <1>1 DEF Connect, OnlyTheUeOf
<1>2. ASSUME NEW t \in Due("T300"), ConnectionTimeout(t) PROVE failure' = "none"
  BY <1>2 DEF ConnectionTimeout
<1>3. ASSUME NEW t \in Due("Request"), RecvRrcConnectionRequest(t) PROVE failure' = "none"
  <2>1. t \in timers /\ t.kind = "Request"
    BY DEF Due
  <2>2. t.rnti \in Rntis
    BY <2>1 DEF RrcInv, TimersAgree
  <2>3. ueMap[t.rnti].state = "INITIAL_RANDOM_ACCESS"
    BY <2>1 DEF DurationInv, RequestsInTime, AwaitsRequest, InTime
  <2>4. HasUeManager(t.rnti)
    BY <2>2, <2>3 DEF HasUeManager
  <2>5. AdmitRrcConnection(t) \/ RejectRrcConnection(t)
    BY <1>3, <2>3, <2>4 DEF RecvRrcConnectionRequest
  <2> QED
    BY <2>5 DEF AdmitRrcConnection, RejectRrcConnection
<1>4. ASSUME NEW t \in timers, NEW state, TimeoutIn(t, state), t.kind \in GuardKind,
             ueMap[t.rnti].state = state, state # "NONE"
      PROVE  failure' = "none"
  <2>1. HasUeManager(t.rnti)
    BY <1>4 DEF HasUeManager, DurationInv, CellTimersAgree
  <2>2. RemoveUe(t.rnti)
    BY <1>4, <2>1 DEF TimeoutIn
  <2> QED
    BY <2>2 DEF RemoveUe
<1>5. ASSUME NEW t \in Due("RequestTimeout"), ConnectionRequestTimeout(t) PROVE failure' = "none"
  <2>1. t \in timers /\ t.kind = "RequestTimeout" /\ t.kind \in GuardKind
    BY DEF Due, GuardKind
  <2>2. ueMap[t.rnti].state = "INITIAL_RANDOM_ACCESS"
    BY <2>1 DEF DurationInv, CellTimersAgree, CellTimer
  <2> QED
    BY <1>4, <1>5, <2>1, <2>2 DEF ConnectionRequestTimeout
<1>6. ASSUME NEW t \in Due("RejectedTimeout"), ConnectionRejectedTimeout(t) PROVE failure' = "none"
  <2>1. t \in timers /\ t.kind = "RejectedTimeout" /\ t.kind \in GuardKind
    BY DEF Due, GuardKind
  <2>2. ueMap[t.rnti].state = "CONNECTION_REJECTED"
    BY <2>1 DEF DurationInv, CellTimersAgree, CellTimer
  <2> QED
    BY <1>4, <1>6, <2>1, <2>2 DEF ConnectionRejectedTimeout
<1>7. ASSUME NEW t \in Due("SetupTimeout"), ConnectionSetupTimeout(t) PROVE failure' = "none"
  <2>1. t \in timers /\ t.kind = "SetupTimeout" /\ t.kind \in GuardKind
    BY DEF Due, GuardKind
  <2>2. CASE HasUeManager(t.rnti)
    <3>1. ueMap[t.rnti].state = "CONNECTION_SETUP"
      BY <2>1, <2>2 DEF HasUeManager, DurationInv, CellTimersAgree, CellTimer
    <3> QED
      BY <1>4, <1>7, <2>1, <2>2, <3>1 DEF ConnectionSetupTimeout
  <2>3. CASE ~HasUeManager(t.rnti)
    BY <1>7, <2>3 DEF ConnectionSetupTimeout
  <2> QED
    BY <2>2, <2>3
<1> QED
  BY <1>1, <1>2, <1>3, <1>5, <1>6, <1>7 DEF TimerStep

(* A completion finds its UeManager in a state that expects it; it may     *)
(* find that a bearer it starts was released.                              *)
LEMMA EnbStepFindsItsState ==
  ASSUME RrcInv, DurationInv, failure = "none", NEW r \in Rntis, EnbStep(r)
  PROVE  failure' = "none" \/ (Fail("drb_not_found") /\ StartsUnknownDrb(r))
<1>1. srb1Up[r] # << >> /\ srb1Up[r] \in Seq(UpMessage)
  BY DEF EnbStep, RecvRrcConnectionSetupCompleted, RecvRrcConnectionReconfigurationCompleted,
         RrcInv, QueueShape
<1>2. 1 \in DOMAIN srb1Up[r] /\ Head(srb1Up[r]) = srb1Up[r][1]
  BY <1>1, TailIs
<1>3. ueMap[r].state \in Admitted
  BY <1>1 DEF RrcInv, ManagersAgree, ManagerAgrees
<1>4. CASE RecvRrcConnectionSetupCompleted(r)
  <2>1. ueMap[r].state = "CONNECTION_SETUP"
    BY <1>2, <1>3, <1>4 DEF RecvRrcConnectionSetupCompleted, DurationInv, ManagerPhases, ManagerPhase,
                            OnlyCompletions
  <2> QED
    BY <1>4, <2>1 DEF RecvRrcConnectionSetupCompleted, OnlyTheManager
<1>5. CASE RecvRrcConnectionReconfigurationCompleted(r)
  <2>1. ueMap[r].state # "CONNECTION_SETUP"
    BY <1>1, <1>2, <1>5 DEF RecvRrcConnectionReconfigurationCompleted, DurationInv, ManagerPhases,
                            ManagerPhase, SetupPhase
  <2>2. ueMap[r].state \in {"CONNECTED_NORMALLY", "CONNECTION_RECONFIGURATION"}
    BY <1>3, <2>1 DEF Admitted
  <2> QED
    BY <1>5, <2>2 DEF RecvRrcConnectionReconfigurationCompleted, OnlyTheManager
<1> QED
  BY <1>4, <1>5 DEF EnbStep

(* The answer of the MME finds the context of the request, which counts    *)
(* the bearers from 1 as the MME did.                                      *)
LEMMA S1StepFindsItsContext ==
  ASSUME RrcInv, DurationInv, InTime, failure = "none", S1Step
  PROVE  failure' = "none"
<1>1. CASE MmeRecvInitialUeMessage \/ MmeRecvErabReleaseIndication
  BY <1>1 DEF MmeRecvInitialUeMessage, MmeRecvErabReleaseIndication
<1>2. CASE RecvInitialContextSetupRequest
  <2>1. s1Down # << >>
    BY <1>2 DEF RecvInitialContextSetupRequest
  <2>2. PICK m : m = Head(s1Down)
    OBVIOUS
  <2>3. 1 \in DOMAIN s1Down /\ m = s1Down[1] /\ m \in SetupRequest
    BY <2>1, <2>2, S1Types, TailIs
  <2>4. m.imsi \in Imsis /\ m.left \in Nat
    BY <2>3, S1Types
  <2>5. AwaitsSetup(m.imsi, m.left) /\ InOrder(m)
    BY <2>3 DEF DurationInv, ContextSetupInTime, InTime
  <2>6. PICK r : r = epcRnti[m.imsi]
    OBVIOUS
  <2>7. /\ HasUeManager(r) /\ ueMap[r].lastDrbid = 0
        /\ ueMap[r].imsi = m.imsi /\ ueMap[r].state \in Admitted
    BY <2>4, <2>5, <2>6, AwaitingContext DEF AwaitsSetup, NoBearersYet
  <2>8. SameIdentities(ueMap[r], m.bearers)
    <3>1. m.bearers \in Seq(BearersOf(m.imsi))
      BY <2>3 DEF SetupRequest
    <3>2. ASSUME NEW n \in DOMAIN m.bearers
          PROVE  BearerId(ueMap[r].imsi, ueMap[r].lastDrbid + n) = m.bearers[n]
      <4>1. n \in Nat
        BY <3>1, LenProperties
      <4>2. ueMap[r].lastDrbid + n = n
        BY <2>7, <4>1
      <4>3. m.bearers[n] = BearerId(m.imsi, n)
        BY <2>5 DEF InOrder
      <4> QED
        BY <2>7, <4>2, <4>3
    <3> QED
      BY <3>2 DEF SameIdentities
  <2>9. ueMap[r].state # "CONNECTION_REJECTED"
    BY <2>7 DEF Admitted
  <2> QED
    BY <1>2, <2>2, <2>6, <2>7, <2>8, <2>9 DEF RecvInitialContextSetupRequest
<1> QED
  BY <1>1, <1>2 DEF S1Step

(* A step fails only if a completion starts a bearer that was released.    *)
LEMMA NextOnlyReleasesFail ==
  ASSUME RrcInv, DurationInv, InTime, OnlyReleasesFail, [RrcNext]_rrcVars
  PROVE  OnlyReleasesFail'
<1>1. CASE UNCHANGED rrcVars
  BY <1>1 DEF rrcVars, enbVars, OnlyReleasesFail, StartsUnknownDrb
<1>2. CASE RrcNext
  <2>1. failure = "none"
    BY <1>2 DEF RrcNext, Progress
  <2>2. ASSUME NEW r \in Rntis, EnbStep(r) PROVE OnlyReleasesFail'
    <3>1. CASE Fail("drb_not_found") /\ StartsUnknownDrb(r)
      BY <3>1 DEF Fail, enbVars, OnlyReleasesFail, StartsUnknownDrb
    <3> QED
      BY <2>1, <2>2, <3>1, EnbStepFindsItsState DEF OnlyReleasesFail
  <2>3. ASSUME Progress, ~ \E r \in Rntis : EnbStep(r) PROVE failure' = "none"
    <3>1. CASE Elapse
      BY <2>1, <3>1 DEF Elapse
    <3>2. CASE \E m \in srb0 : DiscardSrb0(m)
      BY <2>1, <3>2 DEF DiscardSrb0, OnlySrb0
    <3> QED
      BY <2>1, <2>3, <3>1, <3>2, UeStepFindsItsState, TimerFindsItsState, S1StepFindsItsContext
         DEF Progress
  <2>4. ASSUME NEW i \in Imsis, ActivateEpsBearer(i) \/ Attach(i) \/ LoseRaResponse(i)
        PROVE  failure' = "none"
    BY <2>1, <2>4 DEF ActivateEpsBearer, Attach, LoseRaResponse
  <2>5. ASSUME NEW m \in srb0, LoseSrb0(m) PROVE failure' = "none"
    BY <2>1, <2>5 DEF LoseSrb0, OnlySrb0
  <2>6. ASSUME NEW i \in Imsis, NEW b \in Bearers, DeActivateDedicatedEpsBearer(i, b)
        PROVE  failure' = "none"
    BY <2>1, <2>6 DEF DeActivateDedicatedEpsBearer
  <2> QED
    BY <1>2, <2>2, <2>3, <2>4, <2>5, <2>6 DEF RrcNext, OnlyReleasesFail
<1> QED
  BY <1>1, <1>2

(* No message and no timeout ever fails a check of the RRC or of the S1    *)
(* application, if a request outruns ConnectionRequestTimeout, the MME     *)
(* answers before T300 and ConnectionSetupTimeout, and an IMSI has less    *)
(* than eleven bearers; only a bearer that is released before it was       *)
(* started does.  Without any one of the three it is false.                *)
THEOREM OnlyReleasesEverFail ==
  ASSUME InTimeForRequest, InTimeForS1, MaxBearers < MaxBearersOfUe
  PROVE  RrcSafeSpec => []OnlyReleasesFail
<1>1. InTime
  BY DEF InTime
<1>2. RrcInit => OnlyReleasesFail
  BY DEF RrcInit, OnlyReleasesFail
<1>3. (RrcInv /\ DurationInv) /\ OnlyReleasesFail /\ [RrcNext]_rrcVars => OnlyReleasesFail'
  BY <1>1, NextOnlyReleasesFail
<1> QED
  BY <1>2, <1>3, DurationInvariantHolds, PTL DEF RrcSafeSpec
===============================================================================
