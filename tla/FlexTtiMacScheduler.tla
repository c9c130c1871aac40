-------------------------- MODULE FlexTtiMacScheduler --------------------------
(***************************************************************************)
(* The scheduler of one cell (MmWaveFlexTtiMacScheduler) with the HARQ     *)
(* buffers of its MAC (MmWaveEnbMac): in every slot it answers the HARQ    *)
(* feedback, divides the symbols that are left among the active UEs and    *)
(* gives each a HARQ process.  DoSchedTriggerReq is one call; its loops    *)
(* are the steps of the model, and nothing else happens between them.      *)
(*                                                                         *)
(* The PHY is external: what a slot transmits is answered FeedbackDelay    *)
(* slots later, by ACK, by NACK, or not at all when the frame was dropped. *)
(* How many symbols each flow asks for (RLC queues, buffer status reports, *)
(* CQI) is any choice.  Fixed TTIs and HARQ switched off are left out.     *)
(***************************************************************************)
EXTENDS TddSlot, FiniteSetsExt, SequencesExt

CONSTANTS
  Ues,               \* the RNTIs
  NumHarqProcess,    \* GetNumHarqProcess (20)
  HarqTimeout,       \* GetHarqTimeout (20)
  MaxRv,             \* the last redundancy version (3)
  FeedbackDelay,     \* slots from a scheduling decision to its answer
  Scenarios          \* what a run starts from

Procs == 0..(NumHarqProcess - 1)
Blocks == Dirs \X Ues \X Procs
NoProcess == NumHarqProcess

ASSUME SchedulerAssumption ==
  /\ Ues \subseteq Nat \ {0} /\ IsFiniteSet(Ues)
  /\ NumHarqProcess \in Nat \ {0} /\ HarqTimeout \in Nat /\ MaxRv \in Nat
  /\ FeedbackDelay \in Nat \ {0}

Unbounded == -1

\* A scenario has the layer of the cell, its slots format (empty without one),
\* what m_resvDl and m_resvSwitch start from, the UEs, the symbols a flow may
\* ask for, and a bound on the slots.
ASSUME ScenarioAssumption ==
  \A s \in Scenarios :
    /\ s.layer \in Layers /\ s.format \in Seq(Dirs \cup {"switch"})
    /\ s.resvDl \in 0..SymbPerSlot /\ s.resvSwitch \in 0..SymbPerSlot
    /\ s.ues \subseteq Ues
    /\ \A d \in Dirs : s.traffic[d] \subseteq Nat
    /\ s.slots \in Nat \cup {Unbounded}

\* SetSlotFormat asserts that each direction has a slot, and between DU and
\* MT that the control symbols leave the layers something.
ASSUME FormatAssumption ==
  \A s \in Scenarios : s.format # <<>> => \A d \in Dirs :
    /\ SlotsOf(s.format, d) > 0
    /\ s.layer # "all" => AdditionalCtrl(s.format, d) <
                            AtMost(ResvChildrenDu, SymAvail - ResvChildrenDu)

VARIABLES
  scenario,     \* the layer, the slots format, the UEs and the traffic
  slotsLeft,    \* bound: the slots still to schedule, Unbounded for no bound
  formatIndex,  \* the place of the next slot in the slots format
  moreCtrl,     \* what m_indexDlSlot, m_indexUlSlot still have to CtrlSlotIndex
  resvDl,       \* m_resvDl
  resvSwitch,   \* m_resvSwitch
  attached,     \* the UEs of DoCschedUeConfigReq
  status,       \* m_dlHarqProcessesStatus, m_ulHarqProcessesStatus
  timer,        \* m_dlHarqProcessesTimer, m_ulHarqProcessesTimer
  dci,          \* m_dlHarqProcessesDciInfoMap, m_ulHarqProcessesDciInfoMap
  pktBurst,     \* the downlink processes the MAC holds a packet burst for
  nextRnti,     \* m_nextRnti
  harqInfoList, \* m_dlHarqInfoList, m_ulHarqInfoList
  untxed,       \* dlInfoListUntxed, ulInfoListUntxed
  received,     \* m_dlHarqInfoReceived, m_ulHarqInfoReceived of the MAC
  air,          \* what the last FeedbackDelay slots transmitted
  slot,         \* the locals of DoSchedTriggerReq
  phase,        \* where DoSchedTriggerReq is
  late,         \* a timer expired while an answer was still to come
  failure       \* the assertion or fatal error that was met

harqVars == <<status, timer, dci, pktBurst>>
listVars == <<harqInfoList, untxed, received, air>>
formatVars == <<slotsLeft, formatIndex, moreCtrl, resvDl, resvSwitch>>
vars == <<scenario, formatVars, attached, harqVars, nextRnti, listVars, slot,
          phase, late, failure>>

--------------------------------------------------------------------------------
(* Helpers.                                                                *)

Other(d) == IF d = "dl" THEN "ul" ELSE "dl"

\* what a block asks of the books: an entry of air, received, harqInfoList
IsAbout(e, u, p) == e.ue = u /\ e.proc = p
FreshIn(s, u, p) == {i \in DOMAIN s : IsAbout(s[i], u, p) /\ s[i].fresh}

\* Process p of u has a transmission of its present block that is unanswered.
Unanswered(d, u, p) ==
  \/ \E i \in DOMAIN air[d] : FreshIn(air[d][i], u, p) # {}
  \/ FreshIn(received[d], u, p) # {}
  \/ FreshIn(harqInfoList[d], u, p) # {}

\* s when process p of u is given a new block
Outdated(s, u, p) ==
  [i \in DOMAIN s |-> IF IsAbout(s[i], u, p) THEN [s[i] EXCEPT !.fresh = FALSE] ELSE s[i]]

NextUe(u) ==
  LET above == {v \in slot.ueInfo : v > u}
  IN  IF above # {} THEN Min(above) ELSE Min(slot.ueInfo)

NoUe == 0
NoDci == [rv |-> 0, numSym |-> 0]
NoLoop == [rem |-> 0, flows |-> 0, average |-> 0, each |-> 0, allocated |-> FALSE]

EmptySlot ==
  [first |-> [d \in Dirs |-> 0], avail |-> [d \in Dirs |-> 0],
   retx |-> [d \in Dirs |-> [u \in Ues |-> 0]],
   asked |-> [d \in Dirs |-> [u \in Ues |-> 0]],
   given |-> [d \in Dirs |-> [u \in Ues |-> 0]],
   ueInfo |-> {}, start |-> NoUe, cur |-> NoUe, loop |-> NoLoop,
   ttis |-> <<>>, sent |-> [d \in Dirs |-> <<>>]]

Tti(d, u, from, n) == [dir |-> d, ue |-> u, from |-> from, to |-> from + n - 1]

Fail(what) ==
  /\ failure' = what
  /\ UNCHANGED <<scenario, formatVars, attached, harqVars, nextRnti, listVars,
                 slot, phase, late>>

--------------------------------------------------------------------------------
(* Between slots: the answers of the PHY, and UEs that leave.              *)

(* Mutant: the uplink is answered twice as well. *)
TwoCopies(d) == 2

\* MmWaveSpectrumPhy::EndRxData calls the downlink callback in its loop over
\* the packets and again in a loop over harqDlInfoMap.
FeedbackCopies(d) == IF d = "dl" THEN 2 ELSE 1

Outcomes == {"ack", "nack"} \cup (IF scenario.drops THEN {"dropped"} ELSE {})

\* The answers to the transmissions of batch: ReceiveDlHarqFeedback of a UE
\* that left is ignored by the PHY.
Answers(d, batch, outcome) ==
  LET Answer(i) == [ue |-> batch[i].ue, proc |-> batch[i].proc,
                    ack |-> outcome[i] = "ack", fresh |-> batch[i].fresh]
      Heard(list, i) ==
        IF outcome[i] = "dropped" \/ batch[i].ue \notin attached THEN list
        ELSE list \o [copy \in 1..FeedbackCopies(d) |-> Answer(i)]
  IN  FoldLeftDomain(Heard, <<>>, batch)

\* DoDlHarqFeedback discards the packets of an acknowledged process.
Acknowledged(answers) ==
  pktBurst \ {<<answers[i].ue, answers[i].proc>> : i \in {j \in DOMAIN answers : answers[j].ack}}

\* DoDlHarqFeedback, DoUlHarqFeedback: what the oldest slot in the air sent
Arrive ==
  /\ phase = "arrive"
  /\ \E dl \in [DOMAIN air["dl"][1] -> Outcomes], ul \in [DOMAIN air["ul"][1] -> Outcomes] :
       LET answers == [d \in Dirs |->
                         Answers(d, air[d][1], IF d = "dl" THEN dl ELSE ul)]
       IN  /\ received' = [d \in Dirs |-> received[d] \o answers[d]]
           /\ pktBurst' = Acknowledged(answers["dl"])
  /\ air' = [d \in Dirs |-> Tail(air[d])]
  /\ phase' = "trigger"
  /\ UNCHANGED <<scenario, formatVars, attached, status, timer, dci, nextRnti,
                 harqInfoList, untxed, slot, late, failure>>

\* DoRemoveUe and DoCschedUeReleaseReq: the books of the UE go, the feedback
\* that waits in the two lists stays.
RemoveUe(u) ==
  /\ phase \in {"arrive", "trigger"}
  /\ scenario.releases /\ u \in attached
  /\ attached' = attached \ {u}
  /\ status' = [b \in Blocks |-> IF b[2] = u THEN 0 ELSE status[b]]
  /\ timer' = [b \in Blocks |-> IF b[2] = u THEN 0 ELSE timer[b]]
  /\ dci' = [b \in Blocks |-> IF b[2] = u THEN NoDci ELSE dci[b]]
  /\ pktBurst' = {q \in pktBurst : q[1] # u}
  /\ UNCHANGED <<scenario, formatVars, nextRnti, listVars, slot, phase, late, failure>>

--------------------------------------------------------------------------------
(* The start of DoSchedTriggerReq.                                         *)

Kind == IF scenario.format = <<>> THEN "" ELSE scenario.format[formatIndex]

\* RefreshHarqProcesses.  The timer of an idle process runs as well, to no
\* effect: a new block resets it.  Here it stays 0.
Expired(b) == b[2] \in attached /\ status[b] > 0 /\ timer[b] = HarqTimeout

(* Mutant: the timer of a process that expires runs on. *)
TickedOn(b) == IF b[2] \in attached /\ status[b] > 0 THEN timer[b] + 1 ELSE timer[b]

Ticked(b) ==
  IF Expired(b) THEN 0
  ELSE IF b[2] \in attached /\ status[b] > 0 THEN timer[b] + 1 ELSE timer[b]

(* Mutant: a process that expires stays busy. *)
StatusKept(b) == status[b]

StatusRefreshed(b) == IF Expired(b) THEN 0 ELSE status[b]

RefreshHarqProcesses ==
  /\ status' = [b \in Blocks |-> StatusRefreshed(b)]
  /\ timer' = [b \in Blocks |-> Ticked(b)]
  /\ late' = (late \/ \E b \in Blocks : Expired(b) /\ Unanswered(b[1], b[2], b[3]))

SchedTriggerReq ==
  /\ phase = "trigger" /\ slotsLeft # 0
  /\ LET more == Kind \in Dirs /\ moreCtrl[Kind] > 0
         size == SizeOf(scenario.layer, scenario.format, Kind, more)
         dl == ResvDlOf(Kind, size, resvDl)
         sw == ResvSwitchOf(Kind, size, resvSwitch)
     IN  /\ resvDl' = dl /\ resvSwitch' = sw
         /\ moreCtrl' = IF more THEN [moreCtrl EXCEPT ![Kind] = @ - 1] ELSE moreCtrl
         /\ slot' = [EmptySlot EXCEPT
                       !.first = [d \in Dirs |-> IF d = "dl" THEN LayerFirst(scenario.layer)
                                                 ELSE SymUlIdx(scenario.layer, size, dl, sw)],
                       !.avail = [d \in Dirs |-> IF d = "dl" THEN SymDlAvail(size, dl)
                                                 ELSE SymUlAvail(size, dl, sw)]]
  /\ slotsLeft' = IF slotsLeft = Unbounded THEN Unbounded ELSE slotsLeft - 1
  /\ formatIndex' = IF formatIndex >= Len(scenario.format) THEN 1 ELSE formatIndex + 1
  /\ RefreshHarqProcesses
  /\ harqInfoList' = [d \in Dirs |-> harqInfoList[d] \o received[d]]
  /\ received' = [d \in Dirs |-> <<>>]
  /\ phase' = "harq_dl"
  /\ UNCHANGED <<scenario, attached, dci, pktBurst, nextRnti, untxed, air, failure>>

--------------------------------------------------------------------------------
(* HARQ feedback, downlink first: one step per entry of the list.          *)

HarqPhase(d) == IF d = "dl" THEN "harq_dl" ELSE "harq_ul"

SymbolsLeft(d) == slot.avail[d] > 0

\* The list from its second entry on
RestOfFeedback(d) == [harqInfoList EXCEPT ![d] = Tail(@)]

\* A process is given back: an ACK, an answer after its timeout, or rv 3.
ReleaseProcess(b) ==
  /\ status' = [status EXCEPT ![b] = 0]
  /\ timer' = [timer EXCEPT ![b] = 0]
  /\ harqInfoList' = RestOfFeedback(b[1])
  /\ UNCHANGED <<scenario, formatVars, attached, dci, pktBurst, nextRnti, untxed,
                 received, air, slot, phase, late, failure>>

(* Mutant: the block is sent again with the redundancy version it had. *)
SameRv(b) == dci[b].rv

NextRv(b) == dci[b].rv + 1

\* The transport block again, with the next redundancy version.  The MAC has
\* nothing to send for a downlink process whose ACK has arrived meanwhile.
Retransmit(b) ==
  LET d == b[1]  u == b[2]  n == dci[b].numSym
  IN  /\ status' = [status EXCEPT ![b] = @ + 1]
      /\ dci' = [dci EXCEPT ![b].rv = NextRv(b)]
      /\ slot' = [slot EXCEPT
                    !.first[d] = @ + n, !.avail[d] = @ - n, !.retx[d][u] = n,
                    !.ueInfo = @ \cup {u}, !.ttis = Append(@, Tti(d, u, slot.first[d], n)),
                    !.sent[d] = IF d = "dl" /\ <<u, b[3]>> \notin pktBurst THEN @
                                ELSE Append(@, [ue |-> u, proc |-> b[3], fresh |-> TRUE])]
      /\ harqInfoList' = RestOfFeedback(d)
      /\ UNCHANGED <<scenario, formatVars, attached, timer, pktBurst, nextRnti, untxed,
                     received, air, phase, late, failure>>

\* Not enough symbols in this slot: the entry is kept for the next one.
Defer(d) ==
  /\ untxed' = [untxed EXCEPT ![d] = Append(@, Head(harqInfoList[d]))]
  /\ harqInfoList' = RestOfFeedback(d)
  /\ UNCHANGED <<scenario, formatVars, attached, harqVars, nextRnti, received, air, slot,
                 phase, late, failure>>

\* An ACK of the uplink for a UE that left is passed over.
PassOver(d) ==
  /\ harqInfoList' = RestOfFeedback(d)
  /\ UNCHANGED <<scenario, formatVars, attached, harqVars, nextRnti, untxed, received, air,
                 slot, phase, late, failure>>

LastSymbol == SymbPerSlot - UlCtrlSymbols

(* Mutant: a retransmission that does not fit is sent all the same. *)
FitsAlways(b) == TRUE

Fits(b) == slot.avail[b[1]] >= dci[b].numSym

\* A NACK for a busy process; its status and its DCI are asserted to agree.
Nack(b) ==
  LET rv == dci[b].rv
  IN  IF status[b] - 1 # rv THEN Fail("assertion of the redundancy version")
      ELSE \/ rv = MaxRv /\ ReleaseProcess(b)
           \/ /\ rv < MaxRv /\ Fits(b)
              /\ IF slot.first[b[1]] + dci[b].numSym > LastSymbol
                 THEN Fail("assertion of the last symbol") ELSE Retransmit(b)
           \/ rv < MaxRv /\ ~Fits(b) /\ Defer(b[1])

HarqFeedback(d) ==
  /\ phase = HarqPhase(d) /\ harqInfoList[d] # <<>> /\ SymbolsLeft(d)
  /\ LET a == Head(harqInfoList[d])  b == <<d, a.ue, a.proc>>
     IN  \/ /\ a.ue \notin attached
            /\ IF d = "ul" /\ a.ack THEN PassOver(d) ELSE Fail("feedback of an unknown UE")
         \/ a.ue \in attached /\ (a.ack \/ status[b] = 0) /\ ReleaseProcess(b)
         \/ a.ue \in attached /\ ~a.ack /\ status[b] > 0 /\ Nack(b)

\* The loop ends with the list or with the symbols: what is still in the list
\* then is dropped, and the list becomes what was deferred.
EndFeedback(d) ==
  /\ phase = HarqPhase(d) /\ (harqInfoList[d] = <<>> \/ ~SymbolsLeft(d))
  /\ harqInfoList' = [harqInfoList EXCEPT ![d] = untxed[d]]
  /\ untxed' = [untxed EXCEPT ![d] = <<>>]
  /\ phase' = IF d = "dl" THEN "harq_ul" ELSE "collect"
  /\ UNCHANGED <<scenario, formatVars, attached, harqVars, nextRnti, received, air, slot,
                 late, failure>>

--------------------------------------------------------------------------------
(* New data: the symbols that are left are divided among the flows.        *)

TotalAsked(d) == SumFunction(slot.asked[d])
TotalGiven(d) == SumFunction(slot.given[d])

\* The UEs with data, and the UE to start with: the one after the last that
\* was given symbols, when it is active.
Collect ==
  /\ phase = "collect"
  /\ \E asked \in [Dirs -> [Ues -> UNION {scenario.traffic[d] : d \in Dirs}]] :
       /\ \A d \in Dirs, u \in Ues :
            /\ asked[d][u] \in scenario.traffic[d]
            /\ (u \notin attached \/ ~SymbolsLeft(d)) => asked[d][u] = 0
       /\ LET ueInfo == slot.ueInfo \cup {u \in Ues : \E d \in Dirs : asked[d][u] > 0}
              start == IF nextRnti \in ueInfo THEN nextRnti ELSE Min(ueInfo)
          IN  IF ueInfo = {} THEN slot' = slot /\ phase' = "end"
              ELSE /\ slot' = [slot EXCEPT !.asked = asked, !.ueInfo = ueInfo,
                                           !.start = start, !.cur = start]
                   /\ phase' = "begin_dl"
  /\ UNCHANGED <<scenario, formatVars, attached, harqVars, nextRnti, listVars, late, failure>>

BeginPhase(d) == IF d = "dl" THEN "begin_dl" ELSE "begin_ul"
SharePhase(d) == IF d = "dl" THEN "share_dl" ELSE "share_ul"

AtLeast1(n) == IF n = 0 THEN 1 ELSE n

\* After the downlink the uplink; after both, m_nextRnti and the DCIs
AfterSharing(d, s) ==
  IF d = "dl"
  THEN /\ slot' = [s EXCEPT !.loop = NoLoop]
       /\ phase' = "begin_ul" /\ UNCHANGED nextRnti
  ELSE /\ slot' = [s EXCEPT !.loop = NoLoop, !.cur = s.start]
       /\ phase' = "assign_dl" /\ nextRnti' = s.cur

Flows(d) == Cardinality({u \in Ues : slot.asked[d][u] > 0})

\* nSymPerFlow0 and the first pass over the UEs
BeginSharing(d) ==
  /\ phase = BeginPhase(d)
  /\ LET rem == AtMost(TotalAsked(d), slot.avail[d])
         average == AtLeast1(rem \div Flows(d))
     IN  IF Flows(d) = 0 THEN AfterSharing(d, slot)
         ELSE /\ slot' = [slot EXCEPT !.loop = [rem |-> rem, flows |-> Flows(d),
                                                average |-> average, each |-> average,
                                                allocated |-> FALSE]]
              /\ phase' = SharePhase(d) /\ UNCHANGED nextRnti
  /\ UNCHANGED <<scenario, formatVars, attached, harqVars, listVars, late, failure>>

\* A flow that has had its share, retransmissions included, waits.
Eligible(d, u) ==
  /\ slot.asked[d][u] > slot.given[d][u]
  /\ slot.given[d][u] + slot.retx[d][u] <= slot.loop.average

Deficit(d, u) == slot.asked[d][u] - slot.given[d][u]

\* The flow needs less than its share, and less than there is: it is done,
\* and what it leaves of its share is added to the average of the others.
IsServed(d, u) ==
  Eligible(d, u) /\ Deficit(d, u) < slot.loop.each /\ Deficit(d, u) <= slot.loop.rem

\* addSym
AddSym(d, u) ==
  IF ~Eligible(d, u) THEN 0
  ELSE AtMost(IF Deficit(d, u) < slot.loop.each THEN Deficit(d, u) ELSE slot.loop.each,
              slot.loop.rem)

(* Mutant: a flow that is done is counted out of the flows twice. *)
FlowsLeftTwice(d, u) == slot.loop.flows - (IF IsServed(d, u) THEN 2 ELSE 0)

\* nFlowsDl, nFlowsUl after the UE's turn
FlowsLeft(d, u) == slot.loop.flows - (IF IsServed(d, u) THEN 1 ELSE 0)

\* The uplink loop does not count a flow that needs less than its share.
CountsAsAllocated(d, u) ==
  Eligible(d, u) /\ (d = "dl" \/ Deficit(d, u) >= slot.loop.each)

\* The turn of one UE in a pass; the pass ends at the UE it started from, and
\* another follows while symbols are left and someone was given some.
ShareSymbols(d) ==
  /\ phase = SharePhase(d)
  /\ LET u == slot.cur  l == slot.loop  flows == FlowsLeft(d, u)
         add == AddSym(d, u)  rem == l.rem - add
         extra == IF IsServed(d, u) THEN (l.each - add) \div flows ELSE 0
         allocated == l.allocated \/ CountsAsAllocated(d, u)
         turn(each, alloc) == [slot EXCEPT !.given[d][u] = @ + add, !.cur = NextUe(u),
                                 !.loop = [rem |-> rem, flows |-> flows, each |-> each,
                                           average |-> l.average + extra, allocated |-> alloc]]
         passEnds == NextUe(u) = slot.start
     IN  IF IsServed(d, u) /\ flows = 0 THEN Fail("division by zero")
         ELSE /\ IF rem = 0 \/ (passEnds /\ ~allocated)
                 THEN AfterSharing(d, turn(l.each + extra, allocated))
                 ELSE /\ slot' = IF passEnds THEN turn(AtLeast1(rem \div flows), FALSE)
                                 ELSE turn(l.each + extra, allocated)
                      /\ UNCHANGED <<phase, nextRnti>>
              /\ UNCHANGED <<scenario, formatVars, attached, harqVars, listVars, late, failure>>

--------------------------------------------------------------------------------
(* DCIs: UE after UE, a downlink and an uplink block.                      *)

\* UpdateDlHarqProcessId, UpdateUlHarqProcessId: the first free process
FreeProcess(d, u) ==
  LET free == {p \in Procs : status[<<d, u, p>>] = 0}
  IN  IF free = {} THEN NoProcess ELSE Min(free)

AssignPhase(d) == IF d = "dl" THEN "assign_dl" ELSE "assign_ul"

\* From downlink to uplink, and from one UE to the next, until the first again
NextAssignment(d, s) ==
  IF d = "dl" THEN phase' = "assign_ul" /\ slot' = s
  ELSE /\ slot' = [s EXCEPT !.cur = NextUe(s.cur)]
       /\ phase' = IF NextUe(s.cur) = s.start THEN "end" ELSE "assign_dl"

\* A block in a free process: redundancy version 0, the timer from 0.
NewBlock(d, u, n) ==
  LET p == FreeProcess(d, u)  b == <<d, u, p>>
  IN  IF p = NoProcess THEN Fail("assertion of a free process")
      ELSE IF slot.first[d] + (IF d = "dl" THEN n ELSE 0) > LastSymbol
      THEN Fail("assertion of the last symbol")
      ELSE /\ status' = [status EXCEPT ![b] = 1]
           /\ timer' = [timer EXCEPT ![b] = 0]
           /\ dci' = [dci EXCEPT ![b] = [rv |-> 0, numSym |-> n]]
           /\ pktBurst' = IF d = "dl" THEN pktBurst \cup {<<u, p>>} ELSE pktBurst
           /\ NextAssignment(d, [slot EXCEPT
                !.first[d] = @ + n, !.avail[d] = @ - n,
                !.ttis = Append(@, Tti(d, u, slot.first[d], n)),
                !.sent[d] = Append(Outdated(@, u, p), [ue |-> u, proc |-> p, fresh |-> TRUE])])
           /\ air' = [air EXCEPT ![d] = [i \in DOMAIN @ |-> Outdated(@[i], u, p)]]
           /\ harqInfoList' = [harqInfoList EXCEPT ![d] = Outdated(@, u, p)]
           /\ UNCHANGED <<scenario, formatVars, attached, nextRnti, untxed, received, late,
                          failure>>

Assign(d) ==
  /\ phase = AssignPhase(d)
  /\ IF slot.given[d][slot.cur] > 0
     THEN NewBlock(d, slot.cur, slot.given[d][slot.cur])
     ELSE /\ NextAssignment(d, slot)
          /\ UNCHANGED <<scenario, formatVars, attached, harqVars, nextRnti, listVars, late,
                         failure>>

\* SchedConfigInd: the MAC and the PHY send what the slot holds.
SchedConfigInd ==
  /\ phase = "end"
  /\ air' = [d \in Dirs |-> Append(air[d], slot.sent[d])]
  /\ slot' = EmptySlot
  /\ phase' = "arrive"
  /\ UNCHANGED <<scenario, formatVars, attached, harqVars, nextRnti, harqInfoList, untxed,
                 received, late, failure>>

--------------------------------------------------------------------------------
Init ==
  /\ scenario \in Scenarios
  /\ slotsLeft = scenario.slots
  /\ formatIndex = 1
  /\ moreCtrl = [d \in Dirs |-> IF scenario.format = <<>> THEN 0
                                ELSE CtrlSlotIndex(scenario.format, d)]
  /\ resvDl = scenario.resvDl /\ resvSwitch = scenario.resvSwitch
  /\ attached = scenario.ues
  /\ status = [b \in Blocks |-> 0] /\ timer = [b \in Blocks |-> 0]
  /\ dci = [b \in Blocks |-> NoDci] /\ pktBurst = {}
  /\ nextRnti = NoUe
  /\ harqInfoList = [d \in Dirs |-> <<>>] /\ untxed = [d \in Dirs |-> <<>>]
  /\ received = [d \in Dirs |-> <<>>]
  /\ air = [d \in Dirs |-> [i \in 1..FeedbackDelay |-> <<>>]]
  /\ slot = EmptySlot /\ phase = "arrive" /\ late = FALSE /\ failure = "none"

Next ==
  /\ failure = "none"
  /\ \/ Arrive
     \/ \E u \in Ues : RemoveUe(u)
     \/ SchedTriggerReq
     \/ \E d \in Dirs : HarqFeedback(d) \/ EndFeedback(d)
     \/ Collect
     \/ \E d \in Dirs : BeginSharing(d) \/ ShareSymbols(d) \/ Assign(d)
     \/ SchedConfigInd

Spec == Init /\ [][Next]_vars

--------------------------------------------------------------------------------
(* Properties.                                                             *)

Phases == {"arrive", "trigger", "harq_dl", "harq_ul", "collect", "begin_dl", "share_dl",
           "begin_ul", "share_ul", "assign_dl", "assign_ul", "end"}

\* Every variable has its type.
SchedulerTypeOK ==
  /\ slotsLeft \in Nat \cup {Unbounded}
  /\ resvDl \in 0..SymbPerSlot /\ resvSwitch \in 0..SymbPerSlot
  /\ attached \subseteq Ues
  /\ status \in [Blocks -> 0..(MaxRv + 1)]
  /\ timer \in [Blocks -> 0..HarqTimeout]
  /\ dci \in [Blocks -> [rv : 0..MaxRv, numSym : 0..SymbPerSlot]]
  /\ pktBurst \subseteq Ues \X Procs
  /\ nextRnti \in Ues \cup {NoUe}
  /\ phase \in Phases /\ late \in BOOLEAN
  /\ slot.ueInfo \subseteq Ues

\* The status of a busy process is one more than the redundancy version of
\* its block, as HARQ feedback asserts: retransmissions, timeouts and new
\* blocks change the two together (UpdateDlHarqProcessId, DoSchedTriggerReq).
RvFollowsStatus ==
  \A b \in Blocks : b[2] \in attached /\ status[b] > 0 => status[b] - 1 = dci[b].rv

\* The symbols for data that the node's neighbours in the tree do not use
OwnSymbols ==
  (DlCtrlSymbols..(DlCtrlSymbols + SymAvail - 1))
    \ (CASE scenario.layer = "all"  -> {}
          [] scenario.layer = "even" -> LayerSymbols("odd")
          [] scenario.layer = "odd"  -> LayerSymbols("even"))

\* No symbol is given out twice in a slot, and none that is a control symbol
\* or belongs to the layers of the node's parent and children: the DU of a
\* node and its MT, served by the parent's DU, never use the same symbol,
\* whatever is retransmitted or divided anew (UseTdmBetweenDuAndMtInterfaces).
SymbolsAreExclusive ==
  \A i \in DOMAIN slot.ttis :
    /\ slot.ttis[i].from..slot.ttis[i].to \subseteq OwnSymbols
    /\ \A j \in DOMAIN slot.ttis :
         i # j => slot.ttis[i].to < slot.ttis[j].from \/ slot.ttis[j].to < slot.ttis[i].from

\* The loops that divide the symbols have ended, and no DCI is made yet.
Divided == phase = "assign_dl" /\ slot.cur = slot.start

\* An even share for each flow, or all it asked for when that is less; a
\* flow that is retransmitted to may be held back.
HasFairShare(d, u) ==
  slot.retx[d][u] = 0 =>
    slot.given[d][u] >= AtMost(slot.asked[d][u],
                               AtMost(TotalAsked(d), slot.avail[d]) \div Flows(d))

\* The loops that divide the symbols give nobody more than was asked, lose
\* no symbol on the way, and give every downlink flow its share; every uplink
\* flow too, in a slot that has no downlink data.
SharesAddUp ==
  /\ \A d \in Dirs, u \in Ues : slot.given[d][u] \in 0..slot.asked[d][u]
  /\ \A d \in Dirs : phase = SharePhase(d) =>
       TotalGiven(d) + slot.loop.rem = AtMost(TotalAsked(d), slot.avail[d])
  /\ Divided => \A d \in Dirs : Flows(d) > 0 /\ (d = "dl" \/ Flows("dl") = 0) =>
       \A u \in Ues : HasFairShare(d, u)

\* "divide OFDM symbols evenly between active UEs": so for the uplink always.
UplinkIsSharedEvenly ==
  Divided /\ Flows("ul") > 0 => \A u \in Ues : HasFairShare("ul", u)

\* Nothing fails but what a UE that left makes fail: its feedback still waits
\* in the lists.  With more processes than the timeout has slots there is
\* always one for a new block; with as many, as the defaults have it, not.
OnlyReleasesFail ==
  failure # "none" =>
    \/ failure = "feedback of an unknown UE" /\ attached # scenario.ues
    \/ failure = "assertion of a free process" /\ NumHarqProcess <= HarqTimeout

InTheAir(d, u, p) ==
  LET batches == {at \in (DOMAIN air[d]) \X (1..Cardinality(Ues) * NumHarqProcess) :
                    at[2] \in FreshIn(air[d][at[1]], u, p)}
  IN  Cardinality(batches) + Cardinality(FreshIn(slot.sent[d], u, p))

\* An uplink process stops and waits: its block is sent once per answer, as
\* long as no timer has overtaken an answer.
UplinkStopsAndWaits ==
  late \/ \A u \in Ues, p \in Procs : InTheAir("ul", u, p) <= 1

\* Every process stops and waits ("stop-and-wait Hybrid ARQ processes",
\* NumHarqProcess), as long as no timer has overtaken an answer.
StopAndWait ==
  late \/ \A d \in Dirs, u \in Ues, p \in Procs : InTheAir(d, u, p) <= 1
================================================================================
