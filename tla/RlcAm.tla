--------------------------------- MODULE RlcAm ---------------------------------
(***************************************************************************)
(* One direction of an RLC AM bearer: the transmitting side of one entity  *)
(* and the receiving side of its peer (LteRlcAm), with the MAC between     *)
(* them.  An SDU is cut or packed into PDUs to fit each transmission       *)
(* opportunity; the peer puts the PDUs in order, delivers the SDUs and     *)
(* answers polls with STATUS PDUs; what a STATUS PDU negatively            *)
(* acknowledges, or what a poll left unanswered, is sent again, in         *)
(* segments when the opportunity is small.                                 *)
(*                                                                         *)
(* The MAC is external: it loses PDUs (HARQ gave up), delivers data PDUs   *)
(* out of order (HARQ processes end at different times), and grants        *)
(* opportunities of any size after a buffer status report.  A timer may    *)
(* expire whenever it runs.  Sizes are in units of many octets: headers,   *)
(* length indicators and padding have no size.                             *)
(***************************************************************************)
EXTENDS Integers, Sequences, FiniteSets, FiniteSetsExt, SequencesExt

CONSTANTS
  Modulus,          \* sequence numbers are modulo this (1024: SequenceNumber10)
  WindowSize,       \* m_windowSize (512)
  FirstSn,          \* the sequence number the run starts at: everything before
                    \* it was sent and acknowledged
  SduSizes,         \* the sizes of the SDUs the PDCP hands over, in order
  MaxTxBufferSize,  \* m_maxTxBufferSize
  Grants,           \* the sizes of the transmission opportunities
  RetxAlwaysFits,   \* the values of TxOpportunityForRetxAlwaysBigEnough
  StatusInOrder,    \* the values of: STATUS PDUs arrive in the order they were sent
  MaxLosses,        \* bound: the PDUs the MAC loses
  MaxData,          \* bound: the data PDUs in the MAC at a time
  MaxStatus         \* bound: the STATUS PDUs in the MAC at a time

ASSUME RlcAmAssumption ==
  /\ Modulus \in Nat \ {0} /\ WindowSize \in 1..(Modulus \div 2)
  /\ FirstSn \in 0..(Modulus - 1)
  /\ SduSizes \in Seq(Nat \ {0})
  /\ Grants \subseteq Nat \ {0} /\ MaxTxBufferSize \in Nat
  /\ RetxAlwaysFits \subseteq BOOLEAN /\ StatusInOrder \subseteq BOOLEAN
  /\ MaxLosses \in Nat /\ MaxData \in Nat /\ MaxStatus \in Nat

VARIABLES
  \* the configuration of the run
  retxAlwaysFits,   \* m_txOpportunityForRetxAlwaysBigEnough
  statusInOrder,
  \* the transmitting side
  accepted,         \* the number of SDUs put in m_txonBuffer so far
  txonBuffer,       \* m_txonBuffer: SDUs, the first one possibly the end of one
  vtA, vtS,         \* m_vtA, m_vtS; m_vtMs is m_vtA + m_windowSize
  buffer,           \* where the PDU of each number is: m_txedBuffer, m_retxBuffer
  pdu,              \* its data field, and what m_retxSegBuffer still has of it
  pollSn,           \* m_pollSn
  pollTimer,        \* m_pollRetransmitTimer is pending
  pollExpired,      \* m_pollRetransmitTimerJustExpired
  rbsTimer,         \* m_rbsTimer is pending
  reported,         \* the scheduler knows of data to send
  \* the receiving side
  vrR, vrX, vrMs, vrH,  \* m_vrR, m_vrX, m_vrMs, m_vrH; m_vrMr is m_vrR + m_windowSize
  rxonBuffer,       \* m_rxonBuffer: how much of each PDU is there
  reorderingTimer,  \* m_reorderingTimer is pending
  statusRequested,  \* m_statusPduRequested
  prohibitTimer,    \* m_statusProhibitTimer is pending
  statusReported,   \* the scheduler knows of a STATUS PDU to send
  keepS0,           \* m_keepS0: the SDU being reassembled, <<>> in WAITING_S0_FULL
  received,         \* the SDUs delivered to the PDCP
  \* the MAC
  dataAir, statusAir, losses,
  failure           \* the assertion or internal error that was met

txVars == <<accepted, txonBuffer, vtA, vtS, buffer, pdu, pollSn, pollTimer,
            pollExpired, rbsTimer, reported>>
rxVars == <<vrR, vrX, vrMs, vrH, rxonBuffer, reorderingTimer, statusRequested,
            prohibitTimer, statusReported, keepS0, received>>
macVars == <<dataAir, statusAir, losses>>
configuration == <<retxAlwaysFits, statusInOrder>>
vars == <<configuration, txVars, rxVars, macVars, failure>>

--------------------------------------------------------------------------------
(* Sequence numbers: compared by their distance from a base.               *)

Sn == 0..(Modulus - 1)
(* Mutant: a sequence number that does not wrap. *)
PlusWithoutWrap(sn, n) == sn + n

Plus(sn, n) == (sn + n) % Modulus
From(base, sn) == (sn - base) % Modulus
Between(low, high) == {sn \in Sn : From(low, sn) < From(low, high)}

vtMs == Plus(vtA, WindowSize)
Unacknowledged == Between(vtA, vtS)

(* Mutant: every PDU is taken, also those delivered before. *)
IsAlwaysInside(sn) == TRUE

IsInsideReceivingWindow(sn) == From(vrR, sn) < WindowSize

(* A piece of an SDU: the units after `from' up to `to'.                   *)
Piece ==
  {piece \in [sdu : DOMAIN SduSizes, from : Nat, to : Nat] :
     piece.from < piece.to /\ piece.to <= SduSizes[piece.sdu]}
Size(piece) == piece.to - piece.from
SizeOf(pieces) == FoldLeft(LAMBDA n, piece : n + Size(piece), 0, pieces)

FullSdu(s) == [sdu |-> s, from |-> 0, to |-> SduSizes[s]]
IsFirst(piece) == piece.from = 0
IsLast(piece) == piece.to = SduSizes[piece.sdu]

(* A PDU or a segment of one: the units of the data field after `from' up  *)
(* to `to'.                                                                *)
AmdPdu == [sn : Sn, data : Seq(Piece), from : Nat, to : Nat,
           segment : BOOLEAN, last : BOOLEAN, poll : BOOLEAN]
StatusPdu == [ackSn : Sn, nacks : SUBSET Sn]

NoPdu == [data |-> <<>>, sent |-> 0]
NoEntry == [data |-> <<>>, got |-> 0, complete |-> FALSE]
Failures == {"none", "framing", "nack_of_unknown", "no_head_of_line", "nothing_found"}

Init ==
  /\ retxAlwaysFits \in RetxAlwaysFits /\ statusInOrder \in StatusInOrder
  /\ accepted = 0 /\ txonBuffer = <<>>
  /\ vtA = FirstSn /\ vtS = FirstSn /\ pollSn = FirstSn
  /\ buffer = [sn \in Sn |-> "none"] /\ pdu = [sn \in Sn |-> NoPdu]
  /\ pollTimer = FALSE /\ pollExpired = FALSE /\ rbsTimer = FALSE
  /\ reported = FALSE
  /\ vrR = FirstSn /\ vrX = FirstSn /\ vrMs = FirstSn /\ vrH = FirstSn
  /\ rxonBuffer = [sn \in Sn |-> NoEntry]
  /\ reorderingTimer = FALSE /\ statusRequested = FALSE /\ prohibitTimer = FALSE
  /\ statusReported = FALSE /\ keepS0 = <<>> /\ received = <<>>
  /\ dataAir = <<>> /\ statusAir = <<>> /\ losses = 0
  /\ failure = "none"

--------------------------------------------------------------------------------
(* The transmitting side.                                                  *)

InBuffer(where, buffers) == {sn \in Sn : buffers[sn] = where}
retxBuffer == InBuffer("retx", buffer)

(* The head-of-line delay in the report reads the PDU of VT(A), in one     *)
(* buffer or the other, whenever something is to be retransmitted.         *)
ReportBufferStatus(txon, buffers) ==
  /\ reported' = (reported \/ txon # <<>> \/ InBuffer("retx", buffers) # {})
  /\ failure' = IF InBuffer("retx", buffers) # {} /\ buffers[vtA] = "none"
                  THEN "no_head_of_line" ELSE failure

TransmitPdcpPdu ==
  /\ accepted < Len(SduSizes)
  /\ \/ /\ SizeOf(txonBuffer) + SduSizes[accepted + 1] <= MaxTxBufferSize
        /\ accepted' = accepted + 1
        /\ txonBuffer' = Append(txonBuffer, FullSdu(accepted + 1))
     \/ /\ SizeOf(txonBuffer) + SduSizes[accepted + 1] > MaxTxBufferSize
        /\ UNCHANGED <<accepted, txonBuffer>>
  /\ ReportBufferStatus(txonBuffer', buffer)
  /\ rbsTimer' = TRUE
  /\ UNCHANGED <<vtA, vtS, buffer, pdu, pollSn, pollTimer, pollExpired, rxVars, macVars>>

(* The poll that goes with a PDU, and its timer.                           *)
Poll(lastSn) ==
  /\ pollSn' = lastSn
  /\ pollTimer' = TRUE
  /\ pollExpired' = FALSE

(* A retransmission polls when nothing else is left to send (the code      *)
(* compares the size of what is left of the PDU with the size of the       *)
(* retransmission buffer, so only the first segment of a PDU may), when    *)
(* the window is full and after the timer of the last poll.                *)
PollsAgain(sn) ==
  \/ txonBuffer = <<>> /\ retxBuffer = {sn} /\ pdu[sn].sent = 0
  \/ vtS = vtMs
  \/ pollExpired

Retransmit(grant) ==
  LET sn == CHOOSE n \in retxBuffer : \A m \in retxBuffer : From(vtA, n) <= From(vtA, m)
      size == SizeOf(pdu[sn].data)
      sent == pdu[sn].sent
      fits == retxAlwaysFits \/ size - sent <= grant
      upTo == IF fits THEN size ELSE sent + grant
  IN  /\ dataAir' = Append(dataAir,
           [sn |-> sn, data |-> pdu[sn].data, from |-> sent, to |-> upTo,
            segment |-> sent > 0 \/ ~fits, last |-> fits, poll |-> PollsAgain(sn)])
      /\ pdu' = [pdu EXCEPT ![sn].sent = IF fits THEN 0 ELSE upTo]
      /\ buffer' = [buffer EXCEPT ![sn] = IF fits THEN "txed" ELSE "retx"]
      /\ IF PollsAgain(sn)
           THEN Poll(Plus(vtS, -1))
           ELSE UNCHANGED <<pollSn, pollTimer, pollExpired>>
      /\ UNCHANGED <<vtS, txonBuffer>>

(* The data field of a new PDU: as many SDUs as fit, the last one cut.     *)
DataField(grant) ==
  LET whole == Max({n \in 0..Len(txonBuffer) : SizeOf(SubSeq(txonBuffer, 1, n)) <= grant})
      room == grant - SizeOf(SubSeq(txonBuffer, 1, whole))
      next == txonBuffer[whole + 1]
      rest == SubSeq(txonBuffer, whole + 2, Len(txonBuffer))
  IN  IF whole = Len(txonBuffer) \/ room = 0
        THEN [data |-> SubSeq(txonBuffer, 1, whole),
              left |-> SubSeq(txonBuffer, whole + 1, Len(txonBuffer))]
        ELSE [data |-> SubSeq(txonBuffer, 1, whole)
                         \o <<[next EXCEPT !.to = next.from + room]>>,
              left |-> <<[next EXCEPT !.from = next.from + room]>> \o rest]

(* Every new PDU polls: m_pollPdu is 1.                                    *)
TransmitNew(grant) ==
  LET field == DataField(grant)
  IN  /\ vtS # vtMs
      /\ dataAir' = Append(dataAir,
           [sn |-> vtS, data |-> field.data, from |-> 0, to |-> SizeOf(field.data),
            segment |-> FALSE, last |-> TRUE, poll |-> TRUE])
      /\ pdu' = [pdu EXCEPT ![vtS] = [data |-> field.data, sent |-> 0]]
      /\ buffer' = [buffer EXCEPT ![vtS] = "txed"]
      /\ txonBuffer' = field.left
      /\ vtS' = Plus(vtS, 1)
      /\ Poll(vtS)

(* The grant may be all the scheduler gives for the last report.           *)
NotifyTxOpportunity(grant) ==
  /\ reported /\ Len(dataAir) < MaxData
  /\ \/ retxBuffer # {} /\ retxBuffer \cap Unacknowledged # {}
        /\ Retransmit(grant) /\ UNCHANGED failure
     \/ retxBuffer # {} /\ retxBuffer \cap Unacknowledged = {}
        /\ failure' = "nothing_found"
        /\ UNCHANGED <<vtS, txonBuffer, buffer, pdu, pollSn, pollTimer, pollExpired, dataAir>>
     \/ retxBuffer = {} /\ txonBuffer # <<>> /\ TransmitNew(grant) /\ UNCHANGED failure
  /\ reported' \in {FALSE, txonBuffer' # <<>> \/ InBuffer("retx", buffer') # {}}
  /\ UNCHANGED <<accepted, vtA, rbsTimer, rxVars, statusAir, losses>>

(* Nothing to send, or a full window: the opportunity is not used.         *)
WasteTxOpportunity ==
  /\ reported /\ retxBuffer = {} /\ (txonBuffer = <<>> \/ vtS = vtMs)
  /\ reported' = FALSE
  /\ UNCHANGED <<accepted, txonBuffer, vtA, vtS, buffer, pdu, pollSn, pollTimer,
                 pollExpired, rbsTimer, rxVars, macVars, failure>>

(* Mutant: only the case without overflow of the sequence numbers. *)
ToRetransmitBelow ==
  IF (txonBuffer = <<>> /\ retxBuffer = {}) \/ vtS = vtMs
    THEN [sn \in Sn |-> IF sn >= vtA /\ sn < vtS /\ buffer[sn] = "txed"
                          THEN "retx" ELSE buffer[sn]]
    ELSE buffer

(* The PDUs that wait for an acknowledgement go back to m_retxBuffer when  *)
(* there is nothing else to poll with.                                     *)
ToRetransmit ==
  IF (txonBuffer = <<>> /\ retxBuffer = {}) \/ vtS = vtMs
    THEN [sn \in Sn |-> IF sn \in Unacknowledged /\ buffer[sn] = "txed"
                          THEN "retx" ELSE buffer[sn]]
    ELSE buffer

ExpirePollRetransmitTimer ==
  /\ pollTimer
  /\ pollTimer' = FALSE
  /\ pollExpired' = TRUE
  /\ buffer' = ToRetransmit
  /\ ReportBufferStatus(txonBuffer, buffer')
  /\ UNCHANGED <<accepted, txonBuffer, vtA, vtS, pdu, pollSn, rbsTimer, rxVars, macVars>>

(* Mutant: only new data counts. *)
HasNewData == txonBuffer # <<>>

HasData == txonBuffer # <<>> \/ \E sn \in Sn : buffer[sn] # "none"

ExpireRbsTimer ==
  /\ rbsTimer
  /\ rbsTimer' = HasData
  /\ IF HasData THEN ReportBufferStatus(txonBuffer, buffer)
                ELSE UNCHANGED <<reported, failure>>
  /\ UNCHANGED <<accepted, txonBuffer, vtA, vtS, buffer, pdu, pollSn, pollTimer,
                 pollExpired, rxVars, macVars>>

(* The numbers a STATUS PDU speaks of, and what becomes of their PDUs.  A  *)
(* number before VT(A) looks like one far after it.                        *)
Covered(status) ==
  {sn \in Unacknowledged : From(vtA, sn) < From(vtA, status.ackSn)}

(* Mutant: VT(A) follows ACK_SN, whatever is negatively acknowledged. *)
AckSnAsVtA(status) ==
  IF Covered(status) = Unacknowledged THEN vtS ELSE status.ackSn

NewVtA(status) ==
  LET kept == (Unacknowledged \ Covered(status)) \cup (Covered(status) \cap status.nacks)
  IN  IF kept = {} THEN vtS
                   ELSE CHOOSE n \in kept : \A m \in kept : From(vtA, n) <= From(vtA, m)

ReceiveStatus(i) ==
  LET status == statusAir[i]
      acked == Covered(status) \ status.nacks
      nacked == Covered(status) \cap status.nacks
  IN  /\ statusInOrder => i = 1
      /\ statusAir' = RemoveAt(statusAir, i)
      /\ pollTimer' = (pollTimer /\ pollSn \notin Covered(status))
      /\ buffer' = [sn \in Sn |-> IF sn \in acked THEN "none"
                                  ELSE IF sn \in nacked THEN "retx" ELSE buffer[sn]]
      /\ pdu' = [sn \in Sn |-> IF sn \in acked THEN NoPdu ELSE pdu[sn]]
      /\ vtA' = NewVtA(status)
      /\ failure' = IF \E sn \in nacked : buffer[sn] = "none" THEN "nack_of_unknown" ELSE failure
      /\ UNCHANGED <<accepted, txonBuffer, vtS, pollSn, pollExpired, rbsTimer, reported,
                     rxVars, dataAir, losses>>
--------------------------------------------------------------------------------
(* The receiving side.                                                     *)

FirstMissing(entries, sn) ==
  Plus(sn, CHOOSE n \in 0..(Modulus - 1) :
             /\ ~entries[Plus(sn, n)].complete
             /\ \A m \in 0..(n - 1) : entries[Plus(sn, m)].complete)

(* A PDU is stored when nothing of it is there; a segment when it is the   *)
(* first one or the next one.  A segment out of order throws away what is  *)
(* there of an incomplete PDU.                                             *)
Store(p) ==
  LET entry == rxonBuffer[p.sn]
      grown == [data |-> p.data, got |-> p.to, complete |-> p.last]
  IN  IF entry = NoEntry
        THEN IF p.from = 0 THEN grown ELSE NoEntry
        ELSE IF ~p.segment \/ entry.complete
          THEN entry
          ELSE IF p.from = entry.got THEN grown ELSE NoEntry

(* Mutant: the first piece is never joined to the SDU that was kept. *)
ReassembleApart(state, data) ==
  LET pieces == [i \in DOMAIN data |-> <<data[i]>>]
      ends == IsLast(Last(data))
  IN  [kept |-> IF ends THEN <<>> ELSE Last(pieces),
       sdus |-> state.sdus \o (IF ends THEN pieces ELSE Front(pieces)),
       ok |-> state.ok]

(* Reassembly of the data field of the next PDU: its first piece continues *)
(* the SDU kept from before, if there is one, and its last one is kept if  *)
(* it is not the end of an SDU.                                            *)
Reassemble(state, data) ==
  LET joined == [i \in DOMAIN data |->
                   IF i = 1 THEN Append(state.kept, data[1]) ELSE <<data[i]>>]
      ends == IsLast(Last(data))
  IN  IF (state.kept = <<>>) # IsFirst(Head(data))
        THEN [state EXCEPT !.ok = FALSE]
        ELSE [kept |-> IF ends THEN <<>> ELSE Last(joined),
              sdus |-> state.sdus \o (IF ends THEN joined ELSE Front(joined)),
              ok |-> state.ok]

(* The SDU that a list of pieces makes up; 0 when they are not one SDU.    *)
SduOf(pieces) ==
  IF /\ IsFirst(Head(pieces)) /\ IsLast(Last(pieces))
     /\ \A i \in 1..(Len(pieces) - 1) : /\ pieces[i].sdu = pieces[i + 1].sdu
                                        /\ pieces[i].to = pieces[i + 1].from
    THEN Head(pieces).sdu
    ELSE 0

Deliver(entries, upTo) ==
  LET fields == [n \in 1..From(vrR, upTo) |-> entries[Plus(vrR, n - 1)].data]
      done == FoldLeft(Reassemble, [kept |-> keepS0, sdus |-> <<>>, ok |-> TRUE], fields)
  IN  /\ keepS0' = done.kept
      /\ received' = received \o [i \in DOMAIN done.sdus |-> SduOf(done.sdus[i])]
      /\ failure' = IF done.ok THEN failure ELSE "framing"

(* t-Reordering stops when what it waits for has come, and runs while      *)
(* there is a gap.                                                         *)
WaitsInVain(lower) ==
  vrX = lower \/ (From(lower, vrX) >= WindowSize /\ vrX # Plus(lower, WindowSize))

UpdateReordering(lower, highest) ==
  LET running == reorderingTimer /\ ~WaitsInVain(lower)
      starts == ~running /\ From(lower, highest) > 0
  IN  /\ reorderingTimer' = (running \/ starts)
      /\ vrX' = IF starts THEN highest ELSE vrX

Accept(p) ==
  LET entries == [rxonBuffer EXCEPT ![p.sn] = Store(p)]
      lower == IF p.sn = vrR THEN FirstMissing(entries, vrR) ELSE vrR
      highest == IF From(vrR, p.sn) >= From(vrR, vrH) THEN Plus(p.sn, 1) ELSE vrH
  IN  /\ vrH' = highest
      /\ vrMs' = FirstMissing(entries, vrMs)
      /\ vrR' = lower
      /\ Deliver(entries, lower)
      /\ rxonBuffer' = [sn \in Sn |-> IF sn \in Between(vrR, lower) THEN NoEntry ELSE entries[sn]]
      /\ UpdateReordering(lower, highest)

(* A poll is answered whatever becomes of the PDU; the scheduler hears of  *)
(* it unless t-StatusProhibit runs.                                        *)
ReceiveData(i) ==
  LET p == dataAir[i]
  IN  /\ dataAir' = RemoveAt(dataAir, i)
      /\ statusRequested' = (statusRequested \/ p.poll)
      /\ statusReported' = (statusReported \/ (p.poll /\ ~prohibitTimer))
      /\ IF IsInsideReceivingWindow(p.sn)
           THEN Accept(p)
           ELSE UNCHANGED <<vrR, vrX, vrMs, vrH, rxonBuffer, reorderingTimer, keepS0,
                            received, failure>>
      /\ UNCHANGED <<prohibitTimer, txVars, statusAir, losses>>

ExpireReorderingTimer ==
  /\ reorderingTimer
  /\ vrMs' = FirstMissing(rxonBuffer, vrX)
  /\ reorderingTimer' = (From(vrR, vrH) > From(vrR, vrMs'))
  /\ vrX' = IF reorderingTimer' THEN vrH ELSE vrX
  /\ statusRequested' = TRUE
  /\ UNCHANGED <<vrR, vrH, rxonBuffer, prohibitTimer, statusReported, keepS0, received,
                 txVars, macVars, failure>>

(* Mutant: ACK_SN is VR(MS) also when the NACKs before it did not all fit. *)
UpToVrMs(nacks) == vrMs

(* ACK_SN: the next number that is missing and not negatively acknowledged. *)
AckSn(nacks) ==
  LET unsaid == {sn \in Between(vrR, vrMs) : ~rxonBuffer[sn].complete /\ sn \notin nacks}
                \cup {vrMs}
  IN  CHOOSE n \in unsaid : \A m \in unsaid : From(vrR, n) <= From(vrR, m)

(* The opportunity has room for some NACKs, and may come without a report: *)
(* the entity has data of its own to send.                                 *)
SendStatus(room) ==
  LET missing == {sn \in Between(vrR, vrMs) : ~rxonBuffer[sn].complete}
      nacks == {sn \in missing :
                  Cardinality({m \in missing : From(vrR, m) <= From(vrR, sn)}) <= room}
  IN  /\ statusRequested /\ ~prohibitTimer /\ Len(statusAir) < MaxStatus
      /\ statusAir' = Append(statusAir, [ackSn |-> AckSn(nacks), nacks |-> nacks])
      /\ statusRequested' = FALSE
      /\ statusReported' = FALSE
      /\ prohibitTimer' = TRUE
      /\ UNCHANGED <<vrR, vrX, vrMs, vrH, rxonBuffer, reorderingTimer, keepS0, received,
                     txVars, dataAir, losses, failure>>

(* Nothing else happens: a STATUS PDU that waits is not reported.          *)
ExpireStatusProhibitTimer ==
  /\ prohibitTimer
  /\ prohibitTimer' = FALSE
  /\ UNCHANGED <<vrR, vrX, vrMs, vrH, rxonBuffer, reorderingTimer, statusRequested,
                 statusReported, keepS0, received, txVars, macVars, failure>>

--------------------------------------------------------------------------------
(* The MAC loses a PDU: its retransmissions are used up.                   *)
Lose ==
  /\ losses < MaxLosses
  /\ losses' = losses + 1
  /\ \/ /\ \E i \in DOMAIN dataAir : dataAir' = RemoveAt(dataAir, i)
        /\ UNCHANGED statusAir
     \/ /\ \E i \in DOMAIN statusAir : statusAir' = RemoveAt(statusAir, i)
        /\ UNCHANGED dataAir
  /\ UNCHANGED <<txVars, rxVars, failure>>

Next ==
  /\ failure = "none"
  /\ UNCHANGED configuration
  /\ \/ TransmitPdcpPdu
     \/ \E grant \in Grants : NotifyTxOpportunity(grant)
     \/ WasteTxOpportunity
     \/ ExpirePollRetransmitTimer
     \/ ExpireRbsTimer
     \/ \E i \in DOMAIN statusAir : ReceiveStatus(i)
     \/ \E i \in DOMAIN dataAir : ReceiveData(i)
     \/ ExpireReorderingTimer
     \/ \E room \in 1..WindowSize : SendStatus(room)
     \/ ExpireStatusProhibitTimer
     \/ Lose

SafeSpec == Init /\ [][Next]_vars

(* What the simulator and the MAC promise: a timer that runs expires, a    *)
(* PDU in the MAC arrives (its losses are bounded), and the scheduler      *)
(* grants an opportunity to who it knows has something to send.            *)
Ongoing(A) == failure = "none" /\ UNCHANGED configuration /\ A

Fairness ==
  /\ WF_vars(Ongoing(ExpirePollRetransmitTimer))
  /\ WF_vars(Ongoing(ExpireRbsTimer))
  /\ WF_vars(Ongoing(ExpireReorderingTimer))
  /\ WF_vars(Ongoing(ExpireStatusProhibitTimer))
  /\ WF_dataAir(failure = "none" /\ dataAir # <<>> /\ dataAir' = Tail(dataAir))
  /\ WF_statusAir(failure = "none" /\ statusAir # <<>> /\ statusAir' = Tail(statusAir))
  /\ WF_vars(Ongoing(WasteTxOpportunity \/ \E grant \in Grants : NotifyTxOpportunity(grant)))
  /\ WF_vars(Ongoing(statusReported /\ \E room \in 1..WindowSize : SendStatus(room)))

Spec == SafeSpec /\ Fairness

--------------------------------------------------------------------------------
(* Properties.                                                             *)

RlcAmTypeOK ==
  /\ retxAlwaysFits \in BOOLEAN /\ statusInOrder \in BOOLEAN
  /\ accepted \in 0..Len(SduSizes) /\ txonBuffer \in Seq(Piece)
  /\ {vtA, vtS, pollSn, vrR, vrX, vrMs, vrH} \subseteq Sn
  /\ buffer \in [Sn -> {"none", "txed", "retx"}]
  /\ pdu \in [Sn -> [data : Seq(Piece), sent : Nat]]
  /\ {pollTimer, pollExpired, rbsTimer, reported, reorderingTimer, statusRequested,
      prohibitTimer, statusReported} \subseteq BOOLEAN
  /\ rxonBuffer \in [Sn -> [data : Seq(Piece), got : Nat, complete : BOOLEAN]]
  /\ keepS0 \in Seq(Piece) /\ received \in Seq(0..Len(SduSizes))
  /\ dataAir \in Seq(AmdPdu) /\ statusAir \in Seq(StatusPdu)
  /\ losses \in 0..MaxLosses /\ failure \in Failures

(* A copy of a PDU that the MAC still has does not outlive its number:     *)
(* when it arrives inside the receiving window it is the PDU of that       *)
(* number that was sent last, and not delivered yet.  What the MAC must    *)
(* promise, as sequence numbers are reused; no code sees to it.            *)
NoStaleCopies ==
  \A i \in DOMAIN dataAir :
    IsInsideReceivingWindow(dataAir[i].sn) => dataAir[i].sn \in Between(vrR, vtS)

(* The assertions of LteRlcAm hold (lte-rlc-am.cc:689, 2215), the          *)
(* buffer status report finds the PDU it reads the age of (2774-2776), and *)
(* reassembly meets no PDU it calls an internal error (2424, 2496).        *)
NoFailure == failure = "none"

(* "The transmitting side of an AM RLC entity can receive a positive       *)
(* acknowledgement (confirmation of successful reception by its peer AM    *)
(* RLC entity)" (lte-rlc-am.cc:1888-1889): a PDU that was taken out of the *)
(* buffers as acknowledged is complete at the receiver.                    *)
AcknowledgedWasReceived ==
  /\ From(vtA, vrR) <= From(vtA, vtS)
  /\ \A sn \in Between(vrR, vtS) : buffer[sn] = "none" => rxonBuffer[sn].complete

(* VR(R) <= VR(MS) <= VR(H) <= VR(MR), and VR(X) above VR(R) while         *)
(* t-Reordering runs: a STATUS PDU never speaks of numbers nobody sent.    *)
ReceiverWindowIsOrdered ==
  /\ From(vrR, vrMs) <= From(vrR, vrH)
  /\ From(vrR, vrH) <= WindowSize
  /\ reorderingTimer => From(vrR, vrX) \in 1..From(vrR, vrH)

(* Nothing is on its way to be sent and no answer to a poll is awaited:    *)
(* only a new SDU sets the transmitting side in motion again.              *)
Stalled ==
  /\ vtA # vtS /\ ~pollTimer /\ retxBuffer = {}
  /\ txonBuffer = <<>> \/ vtS = vtMs

(* The timer of the last poll expired while a PDU waited to be sent again  *)
(* and the window was not full, and that PDU was acknowledged before it    *)
(* was sent, an older copy of it having arrived after all.                 *)
PollFindsNothing == pollExpired /\ From(vtA, vtS) + 2 <= WindowSize

(* What the peer waits for is not forgotten: the scheduler will hear of    *)
(* the data, and a poll is not answered yet, or something is to be sent    *)
(* again, or new data, which polls, waits and the window has room for it   *)
(* (ExpireRbsTimer, ExpirePollRetransmitTimer and the poll decisions of    *)
(* DoNotifyTxOpportunity, lte-rlc-am.cc).  There is one way out: the poll  *)
(* that ExpirePollRetransmitTimer leaves to the next PDU (2897-2933) finds *)
(* none to go with.                                                        *)
UnacknowledgedIsPursued ==
  retxAlwaysFits /\ vtA # vtS => rbsTimer /\ (Stalled => PollFindsNothing)

(* The bearer is an ordered channel: every SDU the entity accepted is      *)
(* delivered whole, once and in order.  BapForwarding takes this for       *)
(* granted of the backhaul links.                                          *)
Channel == INSTANCE OrderedChannel WITH
  MaxSdus <- Len(SduSizes),
  sdus <- accepted,
  inFlight <- [i \in 1..(accepted - Len(received)) |-> Len(received) + i]

IsOrderedChannel == Channel!Spec

(* Every accepted SDU is delivered.                                        *)
EveryAcceptedSduIsDelivered == []<>(Len(received) = accepted)

(* The same, when retransmissions are not cut into segments, unless the    *)
(* bearer stalls for good on a poll that had nothing to go with.           *)
DeliveredUnlessStalled ==
  retxAlwaysFits => EveryAcceptedSduIsDelivered \/ <>[](Stalled /\ PollFindsNothing)
================================================================================
