------------------------------ MODULE EpcBearers ------------------------------
(***************************************************************************)
(* The core network's side of the bearers: the MME, which names the        *)
(* bearers of each IMSI, and the SGW/PGW, which gives each bearer of a     *)
(* session a TEID and a traffic filter.  The two call each other through   *)
(* their S11 SAPs, so what one message from an eNB sets off is one step.   *)
(***************************************************************************)
EXTENDS Integers, Sequences

CONSTANT
  Imsis   \* the IMSIs of the UEs and of the MTs of IAB nodes

ASSUME ImsiAssumption == Imsis \subseteq Nat \ {0}

VARIABLES
  bearerCounter,          \* EpcMmeApplication::UeInfo::bearerCounter
  bearersToBeActivated,   \* EpcMmeApplication::UeInfo::bearersToBeActivated
  teidByBearerId,         \* EpcSgwPgwApplication::UeInfo::m_teidByBearerIdMap
  tftClassifier,          \* the bearers EpcSgwPgwApplication classifies into
  teidCount               \* EpcSgwPgwApplication::m_teidCount

epcVars == <<bearerCounter, bearersToBeActivated, teidByBearerId,
             tftClassifier, teidCount>>

-----------------------------------------------------------------------------
MaxBearersOfUe == 11

BearerId(i, k) == i * MaxBearersOfUe + k

BearersOf(i) == {BearerId(i, k) : k \in 1..MaxBearersOfUe}
Bearers == UNION {BearersOf(i) : i \in Imsis}

ImsiOf(b) == (b - 1) \div MaxBearersOfUe

NoTeid == 0

Active(i) == {bearersToBeActivated[i][n] : n \in DOMAIN bearersToBeActivated[i]}

EpcTypeOK ==
  /\ bearerCounter \in [Imsis -> 0..MaxBearersOfUe]
  /\ bearersToBeActivated \in [Imsis -> Seq(Bearers)]
  /\ teidByBearerId \in [Bearers -> Nat]
  /\ tftClassifier \subseteq Bearers
  /\ teidCount \in Nat

EpcInit ==
  /\ bearerCounter = [i \in Imsis |-> 0]
  /\ bearersToBeActivated = [i \in Imsis |-> << >>]
  /\ teidByBearerId = [b \in Bearers |-> NoTeid]
  /\ tftClassifier = {}
  /\ teidCount = 0

-----------------------------------------------------------------------------
CanAddBearer(i) == bearerCounter[i] < MaxBearersOfUe

AddBearer(i) ==
  /\ CanAddBearer(i)
  /\ bearerCounter' = [bearerCounter EXCEPT ![i] = @ + 1]
  /\ bearersToBeActivated' =
       [bearersToBeActivated EXCEPT ![i] = Append(@, BearerId(i, bearerCounter'[i]))]
  /\ UNCHANGED <<teidByBearerId, tftClassifier, teidCount>>

(* Mutant: a session that is created again starts from TEID 1.             *)
RestartedTeids(i) ==
  /\ teidByBearerId' =
       [b \in Bearers |->
          IF \E n \in DOMAIN bearersToBeActivated[i] : bearersToBeActivated[i][n] = b
          THEN CHOOSE n \in DOMAIN bearersToBeActivated[i] : bearersToBeActivated[i][n] = b
          ELSE teidByBearerId[b]]
  /\ tftClassifier' = tftClassifier \cup Active(i)
  /\ teidCount' = Len(bearersToBeActivated[i])
  /\ UNCHANGED <<bearerCounter, bearersToBeActivated>>

(* The MME asks for a session with every bearer it has for the IMSI, each  *)
(* time the eNB sends an initial UE message; the SGW takes a fresh TEID    *)
(* for each bearer, also when the session exists.  A bearer in the list    *)
(* twice keeps the later TEID.                                             *)
CreateSession(i) ==
  /\ teidByBearerId' =
       [b \in Bearers |->
          IF b \in Active(i)
          THEN teidCount + CHOOSE n \in DOMAIN bearersToBeActivated[i] :
                              /\ bearersToBeActivated[i][n] = b
                              /\ \A m \in DOMAIN bearersToBeActivated[i] :
                                   bearersToBeActivated[i][m] = b => m <= n
          ELSE teidByBearerId[b]]
  /\ tftClassifier' = tftClassifier \cup Active(i)
  /\ teidCount' = teidCount + Len(bearersToBeActivated[i])
  /\ UNCHANGED <<bearerCounter, bearersToBeActivated>>

(* The eNB's indication that a bearer was released goes to the SGW, back   *)
(* to the MME, which forgets the bearer, and to the SGW, which forgets its *)
(* TEID and keeps its filter.                                              *)
DeleteBearer(i, b) ==
  /\ IF b \in Active(i)
     THEN LET first == CHOOSE n \in DOMAIN bearersToBeActivated[i] :
                         /\ bearersToBeActivated[i][n] = b
                         /\ \A m \in DOMAIN bearersToBeActivated[i] :
                              bearersToBeActivated[i][m] = b => n <= m
          IN /\ bearerCounter' = [bearerCounter EXCEPT ![i] = @ - 1]
             /\ bearersToBeActivated' =
                  [bearersToBeActivated EXCEPT
                     ![i] = SubSeq(@, 1, first - 1) \o SubSeq(@, first + 1, Len(@))]
     ELSE UNCHANGED <<bearerCounter, bearersToBeActivated>>
  /\ teidByBearerId' = [teidByBearerId EXCEPT ![b] = NoTeid]
  /\ UNCHANGED <<tftClassifier, teidCount>>
===============================================================================
