----------------------------- MODULE RrcConnection -----------------------------
(***************************************************************************)
(* How a UE, or the MT of an IAB node, connects to a cell and gets its     *)
(* bearers: random access, the RRC connection, the S1-AP messages to the   *)
(* MME and back, and the reconfiguration that sets the bearers up.  One    *)
(* cell: its RRC (LteEnbRrc and a UeManager for each RNTI) and its S1      *)
(* application (EpcEnbApplication).                                        *)
(*                                                                         *)
(* Every timer and every link delay is an event of the simulator with the  *)
(* ticks left until it is due, so that which of two events may come first  *)
(* follows from the durations.  A message in the radio arrives at any time *)
(* up to RadioDelay.                                                       *)
(***************************************************************************)
EXTENDS EpcBearers

CONSTANTS
  T300, RequestTimeout, SetupTimeout, RejectedTimeout,  \* timers, in ticks
  S1Delay,         \* the delay of the S1-AP link, in ticks
  RadioDelay,      \* the longest a message of an SRB stays in the radio
  MaxRnti,         \* bound: the RNTIs a run gives out
  MaxBearers,      \* bound: the bearers a run activates for an IMSI
  Faults           \* bound: the losses, rejections, releases and late
                   \* activations of bearers that a run may have

FaultKind == {"losses", "rars", "rejects", "releases", "activations"}

ASSUME RrcAssumption ==
  /\ T300 \in Nat \ {0}
  /\ {RequestTimeout, SetupTimeout, RejectedTimeout} \subseteq Nat
  /\ {S1Delay, RadioDelay, MaxRnti} \subseteq Nat
  /\ MaxBearers \in 0..MaxBearersOfUe
  /\ Faults \subseteq [FaultKind -> Nat]

VARIABLES
  ue,             \* LteUeRrc, its MAC's RNTI and EpcUeNas, by IMSI
  ueMap,          \* LteEnbRrc::m_ueMap, by RNTI
  lastRnti,       \* LteEnbRrc::m_lastAllocatedRnti
  imsiRnti,       \* LteEnbRrc::m_imsiRntiMap
  rntiImsi,       \* LteEnbRrc::m_rntiImsiMap
  epcRnti,        \* EpcEnbApplication::m_imsiRntiMap
  rbidTeid,       \* EpcEnbApplication::m_rbidTeidMap: an RNTI's bearers
  teidRbid,       \* EpcEnbApplication::m_teidRbidMap: a bearer's RNTI
  timers,         \* the scheduled events
  srb0,           \* what the cell sends on SRB0, by RLC TM
  srb1Down,       \* what the cell sends each RNTI on SRB1, by RLC AM
  srb1Up,         \* what a UE sends on SRB1, by RLC AM
  s1Up, s1Down,   \* the S1-AP link to the MME and back
  budget,         \* the faults and releases that may still happen
  failure         \* "none", or the check of the code that ended the program

enbVars == <<ueMap, imsiRnti, rntiImsi>>
s1AppVars == <<epcRnti, rbidTeid, teidRbid>>
radioVars == <<srb0, srb1Down, srb1Up>>
s1Vars == <<s1Up, s1Down>>
rrcVars == <<epcVars, ue, enbVars, lastRnti, s1AppVars, timers, radioVars,
             s1Vars, budget, failure>>

-----------------------------------------------------------------------------
(***************************************************************************)
(* The state of each part.  0 is no RNTI and no IMSI.                      *)
(***************************************************************************)
Rntis == 1..MaxRnti

UeState == {"IDLE_START", "IDLE_WAIT_MIB", "IDLE_CAMPED_NORMALLY", "IDLE_WAIT_SIB2",
            "IDLE_RANDOM_ACCESS", "IDLE_CONNECTING", "CONNECTED_NORMALLY"}

(* rnti is the RNTI of the RRC, macRnti the one the MAC takes PDUs for;    *)
(* preamble and rar are what is under way between the two MACs.            *)
Ue == [state : UeState, rnti : Rntis \cup {0}, macRnti : Rntis \cup {0},
       connectionPending : BOOLEAN, hasReceivedSib2 : BOOLEAN,
       preamble : BOOLEAN, rar : Rntis \cup {0}, drbs : SUBSET Bearers,
       active : BOOLEAN, toActivate : 0..MaxBearersOfUe, bidCounter : 0..MaxBearersOfUe]

ManagerState == {"NONE", "INITIAL_RANDOM_ACCESS", "CONNECTION_SETUP", "CONNECTION_REJECTED",
                 "CONNECTED_NORMALLY", "CONNECTION_RECONFIGURATION"}

UeManager == [state : ManagerState, imsi : Imsis \cup {0}, drbs : SUBSET Bearers,
              lastDrbid : 0..MaxBearersOfUe, pending : BOOLEAN, toStart : SUBSET Bearers]

NoManager == [state |-> "NONE", imsi |-> 0, drbs |-> {}, lastDrbid |-> 0,
              pending |-> FALSE, toStart |-> {}]

TimerKind == {"Connect", "T300", "Request", "RequestTimeout", "SetupTimeout", "RejectedTimeout"}
Timer == [kind : TimerKind, rnti : Rntis \cup {0}, imsi : Imsis \cup {0}, left : Nat]

Srb0Message == [msg : {"Setup", "Reject"}, rnti : Rntis, left : Nat]
DownMessage == [add : SUBSET Bearers, release : SUBSET Bearers, left : Nat]
UpMessage == [msg : {"SetupCompleted", "ReconfigurationCompleted"}, left : Nat]

S1UpMessage == [msg : {"InitialUeMessage", "ErabRelease"}, imsi : Imsis,
                bearer : Bearers \cup {0}, left : Nat]
S1DownMessage == [imsi : Imsis, bearers : Seq(Bearers), left : Nat]

Failure == {"none", "too_many_bearers", "unexpected_state", "no_ue_manager",
            "bearer_id_mismatch", "reserved_lcid", "drb_not_found"}

RrcTypeOK ==
  /\ EpcTypeOK
  /\ ue \in [Imsis -> Ue]
  /\ ueMap \in [Rntis -> UeManager]
  /\ lastRnti \in Rntis \cup {0}
  /\ imsiRnti \in [Imsis -> Rntis \cup {0}]
  /\ rntiImsi \in [Rntis -> Imsis \cup {0}]
  /\ epcRnti \in [Imsis -> Rntis \cup {0}]
  /\ rbidTeid \in [Rntis -> SUBSET Bearers]
  /\ teidRbid \in [Bearers -> Rntis \cup {0}]
  /\ timers \subseteq Timer
  /\ srb0 \subseteq Srb0Message
  /\ srb1Down \in [Rntis -> Seq(DownMessage)]
  /\ srb1Up \in [Rntis -> Seq(UpMessage)]
  /\ s1Up \in Seq(S1UpMessage)
  /\ s1Down \in Seq(S1DownMessage)
  /\ budget \in [FaultKind -> Nat]
  /\ failure \in Failure

RrcInit ==
  /\ EpcInit
  /\ ue = [i \in Imsis |->
             [state |-> "IDLE_START", rnti |-> 0, macRnti |-> 0,
              connectionPending |-> FALSE, hasReceivedSib2 |-> FALSE,
              preamble |-> FALSE, rar |-> 0, drbs |-> {},
              active |-> FALSE, toActivate |-> 0, bidCounter |-> 0]]
  /\ ueMap = [r \in Rntis |-> NoManager]
  /\ lastRnti = 0
  /\ imsiRnti = [i \in Imsis |-> 0]
  /\ rntiImsi = [r \in Rntis |-> 0]
  /\ epcRnti = [i \in Imsis |-> 0]
  /\ rbidTeid = [r \in Rntis |-> {}]
  /\ teidRbid = [b \in Bearers |-> 0]
  /\ timers = {}
  /\ srb0 = {}
  /\ srb1Down = [r \in Rntis |-> << >>]
  /\ srb1Up = [r \in Rntis |-> << >>]
  /\ s1Up = << >>
  /\ s1Down = << >>
  /\ budget \in Faults
  /\ failure = "none"

-----------------------------------------------------------------------------
(* A failed check ends the program; what it leaves behind is not looked at.*)
Fail(what) ==
  /\ failure' = what
  /\ UNCHANGED <<epcVars, ue, enbVars, lastRnti, s1AppVars, timers, radioVars,
                 s1Vars, budget>>

Spend(what) ==
  /\ budget[what] > 0
  /\ budget' = [budget EXCEPT ![what] = @ - 1]

(* Mutant: an event is scheduled one tick early.                           *)
EarlyEvent(kind, r, i, delay) == [kind |-> kind, rnti |-> r, imsi |-> i, left |-> delay - 1]

Event(kind, r, i, delay) == [kind |-> kind, rnti |-> r, imsi |-> i, left |-> delay]
Due(kind) == {t \in timers : t.kind = kind /\ t.left = 0}
OfRnti(kind, r) == {t \in timers : t.kind = kind /\ t.rnti = r}
OfImsi(kind, i) == {t \in timers : t.kind = kind /\ t.imsi = i}

HasUeManager(r) == r \in Rntis /\ ueMap[r].state # "NONE"
-----------------------------------------------------------------------------
(***************************************************************************)
(* What the configuration of a scenario does.                              *)
(***************************************************************************)
(* The helper gives a bearer to the MME and to the UE's NAS, each of which *)
(* counts the bearers itself.  The NAS refuses a bearer once it is active. *)
ActivateEpsBearer(i) ==
  /\ ~ue[i].active
  /\ bearerCounter[i] < MaxBearers
  /\ IF ue[i].state = "IDLE_START" THEN UNCHANGED budget ELSE Spend("activations")
  /\ AddBearer(i)
  /\ ue' = [ue EXCEPT ![i].toActivate = @ + 1]
  /\ UNCHANGED <<enbVars, lastRnti, s1AppVars, timers, radioVars, s1Vars, failure>>

(* EpcUeNas::Connect: camp on the cell, and connect when camped.           *)
Attach(i) ==
  /\ ue[i].state = "IDLE_START"
  /\ ue' = [ue EXCEPT ![i].state = "IDLE_WAIT_MIB", ![i].connectionPending = TRUE]
  /\ UNCHANGED <<epcVars, enbVars, lastRnti, s1AppVars, timers, radioVars, s1Vars,
                 budget, failure>>

-----------------------------------------------------------------------------
(***************************************************************************)
(* The UE until its random access.                                         *)
(***************************************************************************)
OnlyTheUeOf(i, u) ==
  /\ ue' = [ue EXCEPT ![i] = u]
  /\ UNCHANGED <<epcVars, enbVars, lastRnti, s1AppVars, radioVars, s1Vars, budget, failure>>

(* A UE that waits for SIB2 and has it starts the random access at once.   *)
WaitingForSib2(u) ==
  IF u.hasReceivedSib2
  THEN [u EXCEPT !.state = "IDLE_RANDOM_ACCESS", !.connectionPending = FALSE, !.preamble = TRUE]
  ELSE [u EXCEPT !.state = "IDLE_WAIT_SIB2"]

Camped(u) ==
  IF u.connectionPending THEN WaitingForSib2(u) ELSE [u EXCEPT !.state = "IDLE_CAMPED_NORMALLY"]

RecvMasterInformationBlock(i) ==
  /\ ue[i].state = "IDLE_WAIT_MIB"
  /\ OnlyTheUeOf(i, Camped(ue[i]))
  /\ UNCHANGED timers

RecvSystemInformation(i) ==
  /\ ue[i].state \notin {"IDLE_START", "IDLE_WAIT_MIB"}
  /\ LET u == [ue[i] EXCEPT !.hasReceivedSib2 = TRUE]
     IN OnlyTheUeOf(i, IF u.state = "IDLE_WAIT_SIB2" THEN WaitingForSib2(u) ELSE u)
  /\ UNCHANGED timers

(* The retry that NotifyConnectionFailed scheduled.                        *)
Connect(t) ==
  /\ OnlyTheUeOf(t.imsi,
                 IF ue[t.imsi].state = "IDLE_CAMPED_NORMALLY"
                 THEN WaitingForSib2([ue[t.imsi] EXCEPT !.connectionPending = TRUE])
                 ELSE ue[t.imsi])
  /\ timers' = timers \ {t}

(* Mutant: the NAS is not told that the connection failed.                 *)
GiveUpSilently(i, u, rest) ==
  /\ ue' = [ue EXCEPT ![i] = Camped([u EXCEPT !.macRnti = 0, !.hasReceivedSib2 = FALSE])]
  /\ timers' = rest

(* LteUeRrc gives up a connection request: the MAC is reset, so that it    *)
(* takes no PDU of the RNTI it asked with, and the NAS tries again.        *)
GiveUp(i, u, rest) ==
  /\ ue' = [ue EXCEPT ![i] = Camped([u EXCEPT !.macRnti = 0, !.hasReceivedSib2 = FALSE])]
  /\ timers' = rest \cup {Event("Connect", 0, i, 0)}

ConnectionTimeout(t) ==
  /\ GiveUp(t.imsi, ue[t.imsi], timers \ {t})
  /\ UNCHANGED <<epcVars, enbVars, lastRnti, s1AppVars, radioVars, s1Vars, budget, failure>>

-----------------------------------------------------------------------------
(***************************************************************************)
(* Random access.  No two preambles under way are the same: their          *)
(* identities are taken from one counter of 256 values.                    *)
(***************************************************************************)
(* The cell's MAC gets the preamble: the RRC creates a UeManager with the  *)
(* next RNTI, which waits for the request, and the MAC sends the response. *)
AllocateTemporaryCellRnti(i) ==
  /\ ue[i].preamble
  /\ lastRnti < MaxRnti
  /\ lastRnti' = lastRnti + 1
  /\ ueMap' = [ueMap EXCEPT ![lastRnti'] = [NoManager EXCEPT !.state = "INITIAL_RANDOM_ACCESS"]]
  /\ ue' = [ue EXCEPT ![i].preamble = FALSE, ![i].rar = lastRnti']
  /\ timers' = timers \cup {Event("RequestTimeout", lastRnti', 0, RequestTimeout)}
  /\ UNCHANGED <<epcVars, imsiRnti, rntiImsi, s1AppVars, radioVars, s1Vars, budget, failure>>

(* The UE's MAC and RRC take the RNTI, and the RRC sends its request,      *)
(* which is due in less than a tick.                                       *)
RecvRaResponse(i) ==
  /\ ue[i].rar # 0
  /\ IF ue[i].state = "IDLE_RANDOM_ACCESS"
     THEN /\ OnlyTheUeOf(i, [ue[i] EXCEPT !.state = "IDLE_CONNECTING", !.rar = 0,
                                          !.rnti = ue[i].rar, !.macRnti = ue[i].rar])
          /\ timers' = timers \cup {Event("Request", ue[i].rar, i, 0), Event("T300", 0, i, T300)}
     ELSE Fail("unexpected_state")

(* The UE's PHY drops the control frame of the response, because it sends  *)
(* or receives another one.  Nobody sends the response again.              *)
LoseRaResponse(i) ==
  /\ ue[i].rar # 0
  /\ ue' = [ue EXCEPT ![i].rar = 0]
  /\ Spend("rars")
  /\ UNCHANGED <<epcVars, enbVars, lastRnti, s1AppVars, timers, radioVars, s1Vars, failure>>
-----------------------------------------------------------------------------
(***************************************************************************)
(* The cell: RRC connection requests and the timers of a UeManager.        *)
(***************************************************************************)
(* Mutant: only the map by RNTI is cleaned.                                *)
HalfAContextRelease(gone) ==
  /\ rbidTeid' = [r \in Rntis |-> IF r \in gone THEN {} ELSE rbidTeid[r]]
  /\ UNCHANGED teidRbid

UeContextRelease(gone) ==
  /\ rbidTeid' = [r \in Rntis |-> IF r \in gone THEN {} ELSE rbidTeid[r]]
  /\ teidRbid' = [b \in Bearers |-> IF \E r \in gone : b \in rbidTeid[r] THEN 0 ELSE teidRbid[b]]

(* LteEnbRrc::RemoveUe for the RNTIs in gone, starting from the managers   *)
(* in managers: the maps of the RRC, the context of the S1 application and *)
(* the RLC entities go; scheduled events of the RNTI stay.                 *)
RemoveUes(gone, managers) ==
  /\ ueMap' = [r \in Rntis |-> IF r \in gone THEN NoManager ELSE managers[r]]
  /\ UeContextRelease(gone)
  /\ srb1Down' = [r \in Rntis |-> IF r \in gone THEN << >> ELSE srb1Down[r]]
  /\ srb1Up' = [r \in Rntis |-> IF r \in gone THEN << >> ELSE srb1Up[r]]

(* Mutant: the entry of the IMSI stays when its context goes.              *)
ImsiRntiOfAll(gone) == imsiRnti

ImsiRntiWithout(gone) ==
  [i \in Imsis |-> IF imsiRnti[i] \in gone /\ rntiImsi[imsiRnti[i]] = i THEN 0 ELSE imsiRnti[i]]
RntiImsiWithout(gone) == [r \in Rntis |-> IF r \in gone THEN 0 ELSE rntiImsi[r]]
Srb0Without(gone) == {m \in srb0 : m.rnti \notin gone}

RemoveUe(r) ==
  /\ RemoveUes({r}, ueMap)
  /\ imsiRnti' = ImsiRntiWithout({r})
  /\ rntiImsi' = RntiImsiWithout({r})
  /\ srb0' = Srb0Without({r})
  /\ UNCHANGED <<epcVars, ue, lastRnti, epcRnti, s1Vars, budget, failure>>

(* Mutant: the retry leaves the context of the earlier attempt alone.      *)
NoStaleContext(r, i) == {}

(* Mutant: every context that waits for its UE is taken for a stale one.   *)
AnyContextInSetup(r, i) == {q \in Rntis : q # r /\ ueMap[q].state = "CONNECTION_SETUP"}

(* A request under a new RNTI from an IMSI whose earlier attempt the cell  *)
(* still waits for: T300 ran out at the UE, and its context is removed.    *)
StaleContext(r, i) ==
  {q \in Rntis : /\ q = imsiRnti[i]
                 /\ q # r
                 /\ ueMap[q].state = "CONNECTION_SETUP"}

AdmitRrcConnection(t) ==
  LET r == t.rnti
      i == t.imsi
      stale == StaleContext(r, i)
  IN /\ RemoveUes(stale, [ueMap EXCEPT ![r].state = "CONNECTION_SETUP", ![r].imsi = i,
                                       ![r].toStart = ueMap[r].drbs])
     /\ imsiRnti' = [ImsiRntiWithout(stale) EXCEPT ![i] = r]
     /\ rntiImsi' = [RntiImsiWithout(stale) EXCEPT ![r] = i]
     /\ epcRnti' = [epcRnti EXCEPT ![i] = r]
     /\ s1Up' = Append(s1Up, [msg |-> "InitialUeMessage", imsi |-> i, bearer |-> 0,
                              left |-> S1Delay])
     /\ srb0' = Srb0Without(stale) \cup {[msg |-> "Setup", rnti |-> r, left |-> RadioDelay]}
     /\ timers' = (timers \ ({t} \cup OfRnti("RequestTimeout", r)))
                    \cup {Event("SetupTimeout", r, 0, SetupTimeout)}
     /\ UNCHANGED <<epcVars, ue, lastRnti, s1Down, budget, failure>>

(* Mutant: the context of a rejected request has no timer.                 *)
RejectAndKeep(t) ==
  /\ Spend("rejects")
  /\ ueMap' = [ueMap EXCEPT ![t.rnti].state = "CONNECTION_REJECTED"]
  /\ srb0' = srb0 \cup {[msg |-> "Reject", rnti |-> t.rnti, left |-> RadioDelay]}
  /\ timers' = timers \ ({t} \cup OfRnti("RequestTimeout", t.rnti))
  /\ UNCHANGED <<epcVars, ue, imsiRnti, rntiImsi, lastRnti, s1AppVars, srb1Down, srb1Up,
                 s1Vars, failure>>

RejectRrcConnection(t) ==
  /\ Spend("rejects")
  /\ ueMap' = [ueMap EXCEPT ![t.rnti].state = "CONNECTION_REJECTED"]
  /\ srb0' = srb0 \cup {[msg |-> "Reject", rnti |-> t.rnti, left |-> RadioDelay]}
  /\ timers' = (timers \ ({t} \cup OfRnti("RequestTimeout", t.rnti)))
                 \cup {Event("RejectedTimeout", t.rnti, 0, RejectedTimeout)}
  /\ UNCHANGED <<epcVars, ue, imsiRnti, rntiImsi, lastRnti, s1AppVars, srb1Down, srb1Up,
                 s1Vars, failure>>

RecvRrcConnectionRequest(t) ==
  IF ~HasUeManager(t.rnti) THEN Fail("no_ue_manager")
  ELSE IF ueMap[t.rnti].state # "INITIAL_RANDOM_ACCESS" THEN Fail("unexpected_state")
  ELSE AdmitRrcConnection(t) \/ RejectRrcConnection(t)

(* The timers of a UeManager.  ConnectionSetupTimeout is not cancelled     *)
(* when the context is removed early, and finds that out.                  *)
TimeoutIn(t, state) ==
  IF ~HasUeManager(t.rnti) THEN Fail("no_ue_manager")
  ELSE IF ueMap[t.rnti].state # state THEN Fail("unexpected_state")
  ELSE RemoveUe(t.rnti) /\ timers' = timers \ {t}

ConnectionRequestTimeout(t) == TimeoutIn(t, "INITIAL_RANDOM_ACCESS")
ConnectionRejectedTimeout(t) == TimeoutIn(t, "CONNECTION_REJECTED")

(* Mutant: the timeout expects the context to be there.                    *)
StrictSetupTimeout(t) == TimeoutIn(t, "CONNECTION_SETUP")

ConnectionSetupTimeout(t) ==
  IF HasUeManager(t.rnti)
  THEN TimeoutIn(t, "CONNECTION_SETUP")
  ELSE /\ timers' = timers \ {t}
       /\ UNCHANGED <<epcVars, ue, enbVars, lastRnti, s1AppVars, radioVars, s1Vars, budget, failure>>

-----------------------------------------------------------------------------
(***************************************************************************)
(* Reconfiguration.  ScheduleRrcConnectionReconfiguration sends at once in *)
(* CONNECTED_NORMALLY, with all the DRBs there are, and waits for the end  *)
(* of what goes on in the other states.                                    *)
(***************************************************************************)
Reconfiguration(add, release) == [add |-> add, release |-> release, left |-> RadioDelay]

Reconfigured(m) ==
  [m EXCEPT !.state = "CONNECTION_RECONFIGURATION", !.pending = FALSE, !.toStart = m.drbs]

(* SwitchToState (CONNECTED_NORMALLY), then the pending reconfiguration.   *)
ToConnectedNormally(r) ==
  LET m == [ueMap[r] EXCEPT !.state = "CONNECTED_NORMALLY", !.toStart = {}]
  IN /\ ueMap' = [ueMap EXCEPT ![r] = IF m.pending THEN Reconfigured(m) ELSE m]
     /\ srb1Down' = IF m.pending
                    THEN [srb1Down EXCEPT ![r] = Append(@, Reconfiguration(m.drbs, {}))]
                    ELSE srb1Down

Received(r) ==
  /\ srb1Up[r] # << >>
  /\ srb1Up' = [srb1Up EXCEPT ![r] = Tail(@)]

OnlyTheManager ==
  UNCHANGED <<epcVars, ue, imsiRnti, rntiImsi, lastRnti, s1AppVars, srb0, s1Vars, budget, failure>>

(* StartDataRadioBearers looks each recorded bearer up in the DRB map.     *)
StartsUnknownDrb(r) == ~(ueMap[r].toStart \subseteq ueMap[r].drbs)

RecvRrcConnectionSetupCompleted(r) ==
  /\ srb1Up[r] # << >> /\ Head(srb1Up[r]).msg = "SetupCompleted"
  /\ IF ueMap[r].state # "CONNECTION_SETUP" THEN Fail("unexpected_state")
     ELSE IF StartsUnknownDrb(r) THEN Fail("drb_not_found")
     ELSE /\ Received(r)
          /\ timers' = timers \ OfRnti("SetupTimeout", r)
          /\ ToConnectedNormally(r)
          /\ OnlyTheManager

RecvRrcConnectionReconfigurationCompleted(r) ==
  /\ srb1Up[r] # << >> /\ Head(srb1Up[r]).msg = "ReconfigurationCompleted"
  /\ IF ueMap[r].state \notin {"CONNECTED_NORMALLY", "CONNECTION_RECONFIGURATION"}
     THEN Fail("unexpected_state")
     ELSE IF ueMap[r].state = "CONNECTION_RECONFIGURATION" /\ StartsUnknownDrb(r)
     THEN Fail("drb_not_found")
     ELSE /\ Received(r)
          /\ IF ueMap[r].state = "CONNECTION_RECONFIGURATION"
             THEN ToConnectedNormally(r)
             ELSE UNCHANGED <<ueMap, srb1Down>>
          /\ UNCHANGED timers
          /\ OnlyTheManager
-----------------------------------------------------------------------------
(***************************************************************************)
(* The UE on its signalling radio bearers.  Its MAC takes the PDUs of the  *)
(* RNTI it has and drops the others.                                       *)
(***************************************************************************)
SendUp(r, m) ==
  srb1Up' = IF HasUeManager(r)
            THEN [srb1Up EXCEPT ![r] = Append(@, [msg |-> m, left |-> RadioDelay])]
            ELSE srb1Up

(* The NAS becomes active, and gives each bearer that waits its identity.  *)
Activated(u) ==
  [u EXCEPT !.active = TRUE, !.toActivate = 0,
            !.bidCounter = IF u.active THEN @ ELSE @ + u.toActivate]

(* HARQ may hand the same PDU over again.                                  *)
RecvRrcConnectionSetup(i) ==
  \E m \in srb0, again \in BOOLEAN :
    /\ m.msg = "Setup" /\ m.rnti = ue[i].macRnti
    /\ CASE ue[i].state = "IDLE_CONNECTING" ->
              /\ ue' = [ue EXCEPT ![i] = Activated([ue[i] EXCEPT !.state = "CONNECTED_NORMALLY"])]
              /\ timers' = timers \ OfImsi("T300", i)
              /\ SendUp(ue[i].rnti, "SetupCompleted")
              /\ srb0' = IF again THEN srb0 ELSE srb0 \ {m}
              /\ UNCHANGED <<epcVars, enbVars, lastRnti, s1AppVars, srb1Down, s1Vars, budget, failure>>
         [] ue[i].state = "CONNECTED_NORMALLY" ->
              /\ srb0' = srb0 \ {m}
              /\ UNCHANGED <<epcVars, ue, enbVars, lastRnti, s1AppVars, timers, srb1Down, srb1Up,
                             s1Vars, budget, failure>>
         [] OTHER -> Fail("unexpected_state")

RecvRrcConnectionReject(i) ==
  \E m \in srb0 :
    /\ m.msg = "Reject" /\ m.rnti = ue[i].macRnti
    /\ GiveUp(i, ue[i], timers \ OfImsi("T300", i))
    /\ srb0' = srb0 \ {m}
    /\ UNCHANGED <<epcVars, enbVars, lastRnti, s1AppVars, srb1Down, srb1Up, s1Vars, budget, failure>>

OnlySrb0(m) ==
  /\ srb0' = srb0 \ {m}
  /\ UNCHANGED <<epcVars, ue, enbVars, lastRnti, s1AppVars, timers, srb1Down, srb1Up, s1Vars, failure>>

DiscardSrb0(m) ==
  /\ \A i \in Imsis : ue[i].macRnti # m.rnti
  /\ OnlySrb0(m)
  /\ UNCHANGED budget

LoseSrb0(m) ==
  /\ \E i \in Imsis : ue[i].macRnti = m.rnti
  /\ Spend("losses")
  /\ OnlySrb0(m)

(* Drbid2Lcid: the logical channel of a bearer.                            *)
Lcid(b) == (b % 11) + 2

(* ApplyRadioResourceConfigDedicated: every bearer of the message is       *)
(* checked, the new ones are set up, and the released ones go.             *)
RecvRrcConnectionReconfiguration(i) ==
  LET r == ue[i].macRnti
      m == Head(srb1Down[r])
  IN /\ r # 0
     /\ srb1Down[r] # << >>
     /\ IF ue[i].state # "CONNECTED_NORMALLY" THEN Fail("unexpected_state")
        ELSE IF \E b \in m.add : Lcid(b) <= 2 THEN Fail("reserved_lcid")
        ELSE IF ~(m.release \subseteq ue[i].drbs \cup m.add) THEN Fail("drb_not_found")
        ELSE /\ ue' = [ue EXCEPT ![i].drbs = (@ \cup m.add) \ m.release]
             /\ srb1Down' = [srb1Down EXCEPT ![r] = Tail(@)]
             /\ SendUp(r, "ReconfigurationCompleted")
             /\ UNCHANGED <<epcVars, enbVars, lastRnti, s1AppVars, timers, srb0, s1Vars, budget, failure>>

-----------------------------------------------------------------------------
(***************************************************************************)
(* The S1-AP link, and the S1 application of the cell.                     *)
(***************************************************************************)
MmeRecvInitialUeMessage ==
  /\ s1Up # << >> /\ Head(s1Up).left = 0 /\ Head(s1Up).msg = "InitialUeMessage"
  /\ CreateSession(Head(s1Up).imsi)
  /\ s1Up' = Tail(s1Up)
  /\ s1Down' = Append(s1Down, [imsi |-> Head(s1Up).imsi,
                               bearers |-> bearersToBeActivated[Head(s1Up).imsi],
                               left |-> S1Delay])
  /\ UNCHANGED <<ue, enbVars, lastRnti, s1AppVars, timers, radioVars, budget, failure>>

MmeRecvErabReleaseIndication ==
  /\ s1Up # << >> /\ Head(s1Up).left = 0 /\ Head(s1Up).msg = "ErabRelease"
  /\ DeleteBearer(Head(s1Up).imsi, Head(s1Up).bearer)
  /\ s1Up' = Tail(s1Up)
  /\ UNCHANGED <<s1Down, ue, enbVars, lastRnti, s1AppVars, timers, radioVars, budget, failure>>

(* SetupDataRadioBearer, for the bearers of the request one by one: the    *)
(* RRC counts DRBs itself, and checks that it comes to the MME's identity. *)
SameIdentities(m, bearers) ==
  \A n \in DOMAIN bearers : BearerId(m.imsi, m.lastDrbid + n) = bearers[n]

WithBearers(m, bearers) ==
  LET added == {bearers[n] : n \in DOMAIN bearers}
      first == [m EXCEPT !.drbs = @ \cup {bearers[1]}]
  IN IF m.state = "CONNECTED_NORMALLY"
     THEN [Reconfigured(first) EXCEPT !.drbs = @ \cup added,
                                      !.lastDrbid = @ + Len(bearers),
                                      !.pending = Len(bearers) > 1]
     ELSE [m EXCEPT !.drbs = @ \cup added, !.lastDrbid = @ + Len(bearers), !.pending = TRUE]

(* Mutant: a context that exists keeps the tunnels it has.                 *)
KeepTunnels(r, added) ==
  /\ rbidTeid' = [rbidTeid EXCEPT ![r] = IF @ = {} THEN added \ {CHOOSE b \in added : TRUE} ELSE @]
  /\ teidRbid' = [b \in Bearers |-> IF b \in added THEN r ELSE teidRbid[b]]

AddTunnels(r, added) ==
  /\ rbidTeid' = [rbidTeid EXCEPT ![r] = @ \cup added]
  /\ teidRbid' = [b \in Bearers |-> IF b \in added THEN r ELSE teidRbid[b]]

RecvInitialContextSetupRequest ==
  /\ s1Down # << >> /\ Head(s1Down).left = 0
  /\ LET i == Head(s1Down).imsi
         bearers == Head(s1Down).bearers
         added == {bearers[n] : n \in DOMAIN bearers}
         r == epcRnti[i]
     IN IF bearers = << >>
        THEN /\ s1Down' = Tail(s1Down)
             /\ UNCHANGED <<epcVars, ue, enbVars, lastRnti, s1AppVars, timers, radioVars, s1Up,
                            budget, failure>>
        ELSE IF ~HasUeManager(r) THEN Fail("no_ue_manager")
        ELSE IF ~SameIdentities(ueMap[r], bearers) THEN Fail("bearer_id_mismatch")
        ELSE IF ueMap[r].state = "CONNECTION_REJECTED" THEN Fail("unexpected_state")
        ELSE /\ s1Down' = Tail(s1Down)
             /\ ueMap' = [ueMap EXCEPT ![r] = WithBearers(@, bearers)]
             /\ srb1Down' = IF ueMap[r].state = "CONNECTED_NORMALLY"
                            THEN [srb1Down EXCEPT ![r] =
                                    Append(@, Reconfiguration(ueMap[r].drbs \cup {bearers[1]}, {}))]
                            ELSE srb1Down
             /\ AddTunnels(r, added)
             /\ UNCHANGED <<epcVars, ue, imsiRnti, rntiImsi, lastRnti, epcRnti, timers, srb0,
                            srb1Up, s1Up, budget, failure>>

(* LteHelper::DeActivateDedicatedEpsBearer for a bearer that is in use.    *)
DeActivateDedicatedEpsBearer(i, b) ==
  LET r == ue[i].rnti
  IN /\ ue[i].state = "CONNECTED_NORMALLY"
     /\ HasUeManager(r)
     /\ b \in ue[i].drbs \cap ueMap[r].drbs
     /\ b # 1
     /\ Spend("releases")
     /\ ueMap' = [ueMap EXCEPT ![r].drbs = @ \ {b}]
     /\ srb1Down' = [srb1Down EXCEPT ![r] = Append(@, Reconfiguration({}, {b}))]
     /\ s1Up' = Append(s1Up, [msg |-> "ErabRelease", imsi |-> i, bearer |-> b, left |-> S1Delay])
     /\ UNCHANGED <<epcVars, ue, imsiRnti, rntiImsi, lastRnti, s1AppVars, timers, srb0, srb1Up,
                    s1Down, failure>>

-----------------------------------------------------------------------------
(***************************************************************************)
(* Time.  It goes on when nothing is due; a random access response arrives *)
(* within a tick.                                                          *)
(***************************************************************************)
Waiting(m) == m.left > 0
Sooner(m) == [m EXCEPT !.left = @ - 1]
AllWaiting(s) == \A n \in DOMAIN s : Waiting(s[n])
AllSooner(s) == [n \in DOMAIN s |-> Sooner(s[n])]

Elapse ==
  /\ timers # {} \/ srb0 # {} \/ s1Up # << >> \/ s1Down # << >>
     \/ \E r \in Rntis : srb1Down[r] # << >> \/ srb1Up[r] # << >>
  /\ \A i \in Imsis : ue[i].rar = 0
  /\ \A t \in timers : Waiting(t)
  /\ \A m \in srb0 : Waiting(m)
  /\ \A r \in Rntis : AllWaiting(srb1Down[r]) /\ AllWaiting(srb1Up[r])
  /\ AllWaiting(s1Up) /\ AllWaiting(s1Down)
  /\ timers' = {Sooner(t) : t \in timers}
  /\ srb0' = {Sooner(m) : m \in srb0}
  /\ srb1Down' = [r \in Rntis |-> AllSooner(srb1Down[r])]
  /\ srb1Up' = [r \in Rntis |-> AllSooner(srb1Up[r])]
  /\ s1Up' = AllSooner(s1Up)
  /\ s1Down' = AllSooner(s1Down)
  /\ UNCHANGED <<epcVars, ue, enbVars, lastRnti, s1AppVars, budget, failure>>

UeStep(i) ==
  \/ RecvMasterInformationBlock(i) \/ RecvSystemInformation(i)
  \/ AllocateTemporaryCellRnti(i) \/ RecvRaResponse(i)
  \/ RecvRrcConnectionSetup(i) \/ RecvRrcConnectionReject(i)
  \/ RecvRrcConnectionReconfiguration(i)

TimerStep ==
  \/ \E t \in Due("Connect") : Connect(t)
  \/ \E t \in Due("T300") : ConnectionTimeout(t)
  \/ \E t \in Due("Request") : RecvRrcConnectionRequest(t)
  \/ \E t \in Due("RequestTimeout") : ConnectionRequestTimeout(t)
  \/ \E t \in Due("SetupTimeout") : ConnectionSetupTimeout(t)
  \/ \E t \in Due("RejectedTimeout") : ConnectionRejectedTimeout(t)

EnbStep(r) ==
  RecvRrcConnectionSetupCompleted(r) \/ RecvRrcConnectionReconfigurationCompleted(r)

S1Step ==
  MmeRecvInitialUeMessage \/ MmeRecvErabReleaseIndication \/ RecvInitialContextSetupRequest

(* What happens by itself once a UE is attached.                           *)
Progress ==
  /\ failure = "none"
  /\ \/ \E i \in Imsis : UeStep(i)
     \/ TimerStep
     \/ \E r \in Rntis : EnbStep(r)
     \/ S1Step
     \/ \E m \in srb0 : DiscardSrb0(m)
     \/ Elapse

RrcNext ==
  \/ Progress
  \/ /\ failure = "none"
     /\ \/ \E i \in Imsis : ActivateEpsBearer(i) \/ Attach(i) \/ LoseRaResponse(i)
        \/ \E m \in srb0 : LoseSrb0(m)
        \/ \E i \in Imsis, b \in Bearers : DeActivateDedicatedEpsBearer(i, b)

RrcSafeSpec == RrcInit /\ [][RrcNext]_rrcVars
RrcSpec == RrcSafeSpec /\ WF_rrcVars(Progress)

-----------------------------------------------------------------------------
(***************************************************************************)
(* Properties.                                                             *)
(***************************************************************************)
Live == {r \in Rntis : HasUeManager(r)}

(* No message or timeout finds a UeManager, a UE or a bearer in a state    *)
(* that a check of the code does not expect.  A bearer that is released    *)
(* before it was started is the only exception.                            *)
OnlyReleasesFail ==
  \/ failure = "none"
  \/ failure = "drb_not_found" /\ \E r \in Rntis : StartsUnknownDrb(r)

(* Three of these checks on their own: the RRC comes to the identities     *)
(* that the MME gave; every bearer an end is told of is one it has; the    *)
(* bearers that the NAS allows for have logical channels.                  *)
IdentitiesAreAllocatedAlike == failure # "bearer_id_mismatch"
BearersAreKnown == failure # "drb_not_found"
BearersFitLogicalChannels == failure # "reserved_lcid"

(* A UE never has two contexts that were admitted.  It needs the removal   *)
(* of the earlier attempt in RecvRrcConnectionRequest: the request under   *)
(* the next RNTI comes before the ConnectionSetupTimeout of the first one. *)
OneContextPerImsi ==
  \A q, r \in Live : ueMap[q].imsi = ueMap[r].imsi /\ ueMap[q].imsi # 0 => q = r

(* The two maps of LteEnbRrc between IMSI and RNTI are inverse to each     *)
(* other, and name a UeManager of that IMSI: RemoveUe of an old attempt    *)
(* does not take the entry of the new one with it, and leaves none behind. *)
IdentityMapsAgree ==
  /\ \A i \in Imsis, r \in Rntis : imsiRnti[i] = r <=> rntiImsi[r] = i
  /\ \A r \in Rntis : rntiImsi[r] # 0 => HasUeManager(r) /\ ueMap[r].imsi = rntiImsi[r]
  /\ \A r \in Live : ueMap[r].imsi = rntiImsi[r]

(* The two maps of the S1 application name the same tunnels, and each one  *)
(* leads to a context that is live, of the IMSI the bearer was given to,   *)
(* whatever contexts were released or replaced meanwhile: a downlink       *)
(* packet reaches its UE, and no other.                                    *)
DownlinkReachesItsUe ==
  /\ \A r \in Rntis : \A b \in rbidTeid[r] : teidRbid[b] = r
  /\ \A b \in Bearers :
       teidRbid[b] # 0 =>
         /\ b \in rbidTeid[teidRbid[b]]
         /\ HasUeManager(teidRbid[b])
         /\ b \in BearersOf(ueMap[teidRbid[b]].imsi)

(* What a UE sends on a bearer it has finds the bearer in the map of its   *)
(* context, which RecvFromLteSocket asserts.                               *)
UplinkHasTunnel ==
  \A i \in Imsis :
    HasUeManager(ue[i].macRnti) => ue[i].drbs \subseteq rbidTeid[ue[i].macRnti]

(* A UE that is connected has a context in the cell, in a state in which   *)
(* the cell serves it.                                                     *)
ConnectedMeansServed ==
  \A i \in Imsis :
    ue[i].state = "CONNECTED_NORMALLY" =>
      /\ HasUeManager(ue[i].rnti)
      /\ ueMap[ue[i].rnti].state \in
           {"CONNECTION_SETUP", "CONNECTED_NORMALLY", "CONNECTION_RECONFIGURATION"}
      /\ imsiRnti[i] = ue[i].rnti

(* The SGW never has two bearers under one TEID, also when a session is    *)
(* created again by the retry of a random access.                          *)
TeidsAreUnique ==
  \A b, c \in Bearers : teidByBearerId[b] = teidByBearerId[c] /\ b # c
                           => teidByBearerId[b] = NoTeid

(* A UE does not lose its default bearer, the first one of its IMSI, as    *)
(* long as it is connected.                                                *)
DefaultBearerIsKept ==
  [][\A i \in Imsis : BearerId(i, 1) \in ue[i].drbs => BearerId(i, 1) \in ue'[i].drbs]_rrcVars

Served(i) ==
  /\ ue[i].state = "CONNECTED_NORMALLY"
  /\ ue[i].drbs = Active(i)
  /\ HasUeManager(ue[i].rnti)
  /\ ueMap[ue[i].rnti].state = "CONNECTED_NORMALLY"
  /\ ueMap[ue[i].rnti].drbs = Active(i)
  /\ rbidTeid[ue[i].rnti] = Active(i)

(* A UE that attaches is connected in the end, with all its bearers set up *)
(* at both sides and in the S1 application: the upper layer retries the    *)
(* procedure until it completes.                                           *)
AttachedGetsServed ==
  \A i \in Imsis : ue[i].state = "IDLE_WAIT_MIB" ~> Served(i)

(* The same of every UE that does not wait for a random access response    *)
(* that was lost.                                                          *)
AwaitsLostResponse(i) ==
  ue[i].state = "IDLE_RANDOM_ACCESS" /\ ~ue[i].preamble /\ ue[i].rar = 0

AttachedGetsServedOrWaits ==
  \A i \in Imsis : ue[i].state = "IDLE_WAIT_MIB" ~> Served(i) \/ AwaitsLostResponse(i)

(* A UeManager that was created for a preamble is connected or goes: the   *)
(* timers of the cell leave none half way.                                 *)
NoContextStaysHalfWay ==
  \A r \in Rntis :
    ueMap[r].state \in {"INITIAL_RANDOM_ACCESS", "CONNECTION_SETUP", "CONNECTION_REJECTED"}
      ~> ueMap[r].state \in {"NONE", "CONNECTED_NORMALLY", "CONNECTION_RECONFIGURATION"}
===============================================================================
