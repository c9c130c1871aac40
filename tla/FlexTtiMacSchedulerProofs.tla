----------------------- MODULE FlexTtiMacSchedulerProofs -----------------------
(***************************************************************************)
(* Proofs about the scheduler, for any UEs, traffic, slots format and      *)
(* layer, any answers of the PHY, and UEs that leave.                      *)
(*                                                                         *)
(* First its HARQ processes.  Those of one UE and direction start in       *)
(* different slots, so their timers differ; with more processes than a     *)
(* timer has slots one is always free.  The invariant follows              *)
(* DoSchedTriggerReq through the slot, to say that no UE is given a second *)
(* block of a direction in a slot.                                         *)
(*                                                                         *)
(* Then where each block is: a block of the uplink is in the slot, in the  *)
(* air, or in one of the lists of feedback, and there once.                *)
(*                                                                         *)
(* Last the symbols.  The two directions have parts of the slot to         *)
(* themselves, which retransmissions take from and new blocks use up; what *)
(* the flows were given, summed over the UEs that still await a block,     *)
(* fits into what is left.  In the loops that divide the symbols there is  *)
(* enough for the share of each flow that awaits its turn, so the first    *)
(* pass serves all of them.                                                *)
(***************************************************************************)
EXTENDS FlexTtiMacScheduler, DataLemmas

Busy(b) == status[b] > 0

BooksAgree ==
  /\ DOMAIN status = Blocks /\ DOMAIN dci = Blocks /\ DOMAIN timer = Blocks
  /\ \A b \in Blocks : /\ status[b] \in 0..(MaxRv + 1)
                       /\ timer[b] \in 0..HarqTimeout
                       /\ DOMAIN dci[b] = {"rv", "numSym"}
                       /\ dci[b].rv \in 0..MaxRv
                       /\ Busy(b) => status[b] - 1 = dci[b].rv

BusyAreAttached ==
  /\ attached \subseteq Ues
  /\ \A b \in Blocks : Busy(b) => b[2] \in attached

(* Two processes of one UE and direction never started in the same slot.   *)
TimersDiffer ==
  \A d \in Dirs, u \in Ues : \A p, q \in Procs :
    p # q /\ Busy(<<d, u, p>>) /\ Busy(<<d, u, q>>) =>
      timer[<<d, u, p>>] # timer[<<d, u, q>>]

(* The order in which NextUe visits the UEs, from the first of the slot.   *)
Before(u, v) ==
  IF v >= slot.start THEN u >= slot.start /\ u < v ELSE u >= slot.start \/ u < v

(* The UEs that may still get a block of this direction in this slot.      *)
Pending(d, u) ==
  CASE phase = "assign_dl" -> ~Before(u, slot.cur)
    [] phase = "assign_ul" -> ~Before(u, slot.cur) /\ (d = "dl" => u # slot.cur)
    [] phase \in {"arrive", "trigger", "end"} -> FALSE
    [] OTHER -> TRUE

PendingStartedEarlier ==
  \A d \in Dirs, u \in Ues : \A p \in Procs :
    Pending(d, u) /\ Busy(<<d, u, p>>) => timer[<<d, u, p>>] >= 1

SlotFields == {"first", "avail", "retx", "asked", "given", "ueInfo", "start", "cur",
               "loop", "ttis", "sent"}

Sharing == {"begin_dl", "share_dl", "begin_ul", "share_ul", "assign_dl", "assign_ul"}

SlotAgrees ==
  /\ DOMAIN slot = SlotFields
  /\ slot.ueInfo \subseteq Ues
  /\ DOMAIN slot.given = Dirs
  /\ \A d \in Dirs : DOMAIN slot.given[d] = Ues
  /\ \A d \in Dirs, u \in Ues :
       u \notin attached => slot.given[d][u] = 0 /\ slot.asked[d][u] = 0
  /\ phase \in {"arrive", "trigger"} => slot = EmptySlot
  /\ phase \in Sharing => slot.cur \in slot.ueInfo /\ slot.start \in slot.ueInfo

SchedulerInv ==
  /\ BooksAgree
  /\ BusyAreAttached
  /\ TimersDiffer
  /\ PendingStartedEarlier
  /\ SlotAgrees
  /\ phase \in Phases

--------------------------------------------------------------------------------
(* The least member of a set of UEs.                                       *)
LEMMA MinIsLeast ==
  ASSUME NEW S, S \subseteq Nat, S # {}
  PROVE  Min(S) \in S /\ \A y \in S : Min(S) <= y
<1>1. \E x \in S : \A y \in S : x <= y
  BY LeastNat
<1> QED
  BY <1>1 DEF Min

(* NextUe goes round: the UEs before the present one, and that one, are    *)
(* before the next, unless the next is the first again.                    *)
LEMMA NextUeGoesRound ==
  ASSUME NEW u \in Nat, slot.ueInfo \subseteq Nat, u \in slot.ueInfo, slot.start \in slot.ueInfo
  PROVE  /\ NextUe(u) \in slot.ueInfo
         /\ NextUe(u) # slot.start =>
              \A v \in Nat : Before(v, u) \/ v = u => Before(v, NextUe(u))
<1> DEFINE above == {v \in slot.ueInfo : v > u}
           s == slot.start
           next == NextUe(u)
<1>1. s \in Nat /\ s \in slot.ueInfo
  OBVIOUS
<1>2. CASE above # {}
  <2>1. next = Min(above)
    BY <1>2 DEF NextUe
  <2>2. next \in above /\ \A y \in above : next <= y
    <3> HIDE DEF next
    <3>1. above \subseteq Nat
      OBVIOUS
    <3> HIDE DEF above
    <3> QED
      BY <1>2, <2>1, <3>1, MinIsLeast
  <2>3. next \in slot.ueInfo /\ next \in Nat /\ next > u
    BY <2>2
  <2>4. s > u => next <= s
    BY <1>1, <2>2
  <2> HIDE DEF next, above
  <2>5. next # s => \A v \in Nat : Before(v, u) \/ v = u => Before(v, next)
    BY <1>1, <2>3, <2>4 DEF Before
  <2> QED
    BY <2>3, <2>5 DEF next
<1>3. CASE above = {}
  <2>1. next = Min(slot.ueInfo)
    BY <1>3 DEF NextUe
  <2>2. next \in slot.ueInfo /\ \A y \in slot.ueInfo : next <= y
    <3> HIDE DEF next
    <3> QED
      BY <2>1, MinIsLeast
  <2>3. next \in Nat /\ next <= s /\ s <= u
    BY <1>1, <1>3, <2>2
  <2> HIDE DEF next, above
  <2>4. next # s => \A v \in Nat : Before(v, u) \/ v = u => Before(v, next)
    BY <1>1, <2>3 DEF Before
  <2> QED
    BY <2>2, <2>4 DEF next
<1> QED
  BY <1>2, <1>3

LEMMA NoProcessIsNone == NoProcess \notin Procs
<1>1. NumHarqProcess \in Nat
  BY SchedulerAssumption
<1> QED
  BY <1>1 DEF Procs, NoProcess

LEMMA NotBeforeItself ==
  ASSUME NEW u \in Nat, slot.start \in Nat PROVE ~Before(u, u)
BY DEF Before

(* With more processes than slots to a timeout, a UE that got no block in  *)
(* this slot has a free process.                                           *)
LEMMA SomeProcessIsFree ==
  ASSUME NumHarqProcess > HarqTimeout, BooksAgree, TimersDiffer,
         NEW d \in Dirs, NEW u \in Ues,
         \A p \in Procs : Busy(<<d, u, p>>) => timer[<<d, u, p>>] >= 1
  PROVE  FreeProcess(d, u) \in Procs /\ status[<<d, u, FreeProcess(d, u)>>] = 0
<1> DEFINE free == {p \in Procs : status[<<d, u, p>>] = 0}
<1>1. free # {}
  <2> SUFFICES ASSUME free = {} PROVE FALSE
    OBVIOUS
  <2>1. \A p \in Procs : /\ <<d, u, p>> \in Blocks
                         /\ status[<<d, u, p>>] \in Nat /\ status[<<d, u, p>>] # 0
                         /\ timer[<<d, u, p>>] \in 0..HarqTimeout
    BY DEF Blocks, BooksAgree
  <2>2. \A p \in Procs : Busy(<<d, u, p>>)
    BY <2>1 DEF Busy
  <2>3. \A p \in Procs : timer[<<d, u, p>>] \in 1..HarqTimeout
    BY <2>1, <2>2
  <2> DEFINE f == [p \in Procs |-> timer[<<d, u, p>>]]
  <2>4. f \in [Procs -> 1..HarqTimeout]
    BY <2>3
  <2>5. \A p, q \in Procs : f[p] = f[q] => p = q
    BY <2>2 DEF TimersDiffer
  <2>6. f \in Injection(Procs, 1..HarqTimeout)
    BY <2>4, <2>5 DEF Injection, IsInjective
  <2> HIDE DEF f
  <2>7. /\ IsFiniteSet(1..HarqTimeout) /\ Cardinality(1..HarqTimeout) = HarqTimeout
        /\ Cardinality(Procs) = NumHarqProcess
    <3>1. HarqTimeout \in Nat /\ NumHarqProcess \in Nat \ {0}
      BY SchedulerAssumption
    <3>2. IsFiniteSet(1..HarqTimeout) /\ Cardinality(1..HarqTimeout) = HarqTimeout
      BY <3>1, FS_Interval
    <3>3. Cardinality(0..(NumHarqProcess - 1)) = NumHarqProcess
      BY <3>1, FS_Interval
    <3> QED
      BY <3>2, <3>3 DEF Procs
  <2>8. Cardinality(Procs) <= Cardinality(1..HarqTimeout)
    BY <2>6, <2>7, FS_Injection
  <2> QED
    BY <2>7, <2>8, SchedulerAssumption
<1>2. free \subseteq Nat
  BY SchedulerAssumption DEF Procs
<1>3. Min(free) \in free
  <2> HIDE DEF free
  <2> QED
    BY <1>1, <1>2, MinIsLeast
<1>4. FreeProcess(d, u) = Min(free)
  BY <1>1 DEF FreeProcess
<1> QED
  BY <1>3, <1>4

LEMMA FreeIsFree ==
  ASSUME NEW d, NEW u, FreeProcess(d, u) # NoProcess
  PROVE  FreeProcess(d, u) \in Procs /\ status[<<d, u, FreeProcess(d, u)>>] = 0
<1> DEFINE free == {p \in Procs : status[<<d, u, p>>] = 0}
<1>1. free # {} /\ FreeProcess(d, u) = Min(free)
  BY DEF FreeProcess
<1>2. free \subseteq Nat
  BY SchedulerAssumption DEF Procs
<1>3. Min(free) \in free
  <2> HIDE DEF free
  <2> QED
    BY <1>1, <1>2, MinIsLeast
<1> QED
  BY <1>1, <1>3

--------------------------------------------------------------------------------
(***************************************************************************)
(* What each step keeps.                                                   *)
(***************************************************************************)

(* Steps that give no process to anyone: what is busy was busy, and its    *)
(* timer stands.                                                           *)
LEMMA NothingStarts ==
  ASSUME SchedulerInv,
         \A b \in Blocks : Busy(b)' => Busy(b) /\ timer'[b] = timer[b],
         \A d \in Dirs, u \in Ues : Pending(d, u)' => Pending(d, u)
  PROVE  TimersDiffer' /\ PendingStartedEarlier'
<1>1. \A d \in Dirs, u \in Ues, p \in Procs : <<d, u, p>> \in Blocks
  BY DEF Blocks
<1>2. TimersDiffer'
  BY <1>1 DEF SchedulerInv, TimersDiffer
<1>3. PendingStartedEarlier'
  BY <1>1 DEF SchedulerInv, PendingStartedEarlier
<1> QED
  BY <1>2, <1>3

LEMMA BooksStand ==
  ASSUME SchedulerInv, UNCHANGED <<attached, status, timer, dci>>,
         \A d \in Dirs, u \in Ues : Pending(d, u)' => Pending(d, u)
  PROVE  BooksAgree' /\ BusyAreAttached' /\ TimersDiffer' /\ PendingStartedEarlier'
<1>1. BooksAgree' /\ BusyAreAttached'
  BY DEF SchedulerInv, BooksAgree, BusyAreAttached, Busy
<1>2. \A b \in Blocks : Busy(b)' => Busy(b) /\ timer'[b] = timer[b]
  BY DEF Busy
<1> QED
  BY <1>1, <1>2, NothingStarts

(* Until the assignments begin everything is pending, and between the      *)
(* slots nothing is.                                                       *)
LEMMA PendingPhases ==
  ASSUME phase \in Phases
  PROVE  /\ phase \notin {"assign_dl", "assign_ul", "arrive", "trigger", "end"} =>
              \A d \in Dirs, u \in Ues : Pending(d, u)
         /\ phase \in {"arrive", "trigger", "end"} => \A d \in Dirs, u \in Ues : ~Pending(d, u)
BY DEF Pending, Phases

LEMMA PendingPhasesNext ==
  ASSUME phase' \in {"arrive", "trigger", "end"}
  PROVE  \A d \in Dirs, u \in Ues : ~Pending(d, u)'
BY DEF Pending

LEMMA EmptySlotAgrees ==
  /\ DOMAIN EmptySlot = SlotFields
  /\ EmptySlot.ueInfo = {}
  /\ DOMAIN EmptySlot.given = Dirs
  /\ \A d \in Dirs : DOMAIN EmptySlot.given[d] = Ues
  /\ \A d \in Dirs, u \in Ues : EmptySlot.given[d][u] = 0 /\ EmptySlot.asked[d][u] = 0
BY DEF EmptySlot, SlotFields

LEMMA InitInv == Init => SchedulerInv
<1> SUFFICES ASSUME Init PROVE SchedulerInv
  OBVIOUS
<1>1. BooksAgree
  BY SchedulerAssumption DEF Init, BooksAgree, Busy, NoDci
<1>2. BusyAreAttached
  BY ScenarioAssumption DEF Init, BusyAreAttached, Busy
<1>3. \A d \in Dirs, u \in Ues, p \in Procs : ~Busy(<<d, u, p>>)
  BY DEF Init, Busy, Blocks
<1>4. TimersDiffer /\ PendingStartedEarlier
  BY <1>3 DEF TimersDiffer, PendingStartedEarlier
<1>5. SlotAgrees
  BY EmptySlotAgrees DEF Init, SlotAgrees, Sharing
<1>6. phase \in Phases
  BY DEF Init, Phases
<1> QED
  BY <1>1, <1>2, <1>4, <1>5, <1>6 DEF SchedulerInv

LEMMA ArriveKeeps ==
  ASSUME SchedulerInv, Arrive
  PROVE  SchedulerInv'
<1>1. UNCHANGED <<attached, status, timer, dci, slot>> /\ phase = "arrive" /\ phase' = "trigger"
  BY DEF Arrive
<1>2. \A d \in Dirs, u \in Ues : ~Pending(d, u)'
  BY <1>1, PendingPhasesNext
<1>3. BooksAgree' /\ BusyAreAttached' /\ TimersDiffer' /\ PendingStartedEarlier'
  BY <1>1, <1>2, BooksStand
<1>4. SlotAgrees'
  BY <1>1 DEF SchedulerInv, SlotAgrees, Sharing, EmptySlot
<1> QED
  BY <1>1, <1>3, <1>4 DEF SchedulerInv, Phases

LEMMA RemoveUeKeeps ==
  ASSUME SchedulerInv, NEW u \in Ues, RemoveUe(u)
  PROVE  SchedulerInv'
<1>1. /\ phase \in {"arrive", "trigger"} /\ UNCHANGED <<slot, phase>>
      /\ attached' = attached \ {u}
      /\ status' = [b \in Blocks |-> IF b[2] = u THEN 0 ELSE status[b]]
      /\ timer' = [b \in Blocks |-> IF b[2] = u THEN 0 ELSE timer[b]]
      /\ dci' = [b \in Blocks |-> IF b[2] = u THEN NoDci ELSE dci[b]]
  BY DEF RemoveUe
<1>2. BooksAgree'
  BY <1>1, SchedulerAssumption DEF SchedulerInv, BooksAgree, Busy, NoDci
<1>3. BusyAreAttached'
  BY <1>1 DEF SchedulerInv, BusyAreAttached, Busy
<1>4. \A b \in Blocks : Busy(b)' => Busy(b) /\ timer'[b] = timer[b]
  BY <1>1 DEF Busy
<1>5. \A d \in Dirs, v \in Ues : ~Pending(d, v)'
  BY <1>1, PendingPhasesNext
<1>6. TimersDiffer' /\ PendingStartedEarlier'
  BY <1>4, <1>5, NothingStarts
<1>7. SlotAgrees'
  <2>1. slot = EmptySlot
    BY <1>1 DEF SchedulerInv, SlotAgrees
  <2> QED
    BY <1>1, <2>1, EmptySlotAgrees DEF SlotAgrees, Sharing, EmptySlot
<1> QED
  BY <1>1, <1>2, <1>3, <1>6, <1>7 DEF SchedulerInv

LEMMA SchedTriggerReqKeeps ==
  ASSUME SchedulerInv, SchedTriggerReq
  PROVE  SchedulerInv'
<1>1. /\ phase = "trigger" /\ phase' = "harq_dl"
      /\ UNCHANGED <<attached, dci>>
      /\ status' = [b \in Blocks |-> StatusRefreshed(b)]
      /\ timer' = [b \in Blocks |-> Ticked(b)]
  BY DEF SchedTriggerReq, RefreshHarqProcesses
<1>2. BooksAgree /\ BusyAreAttached /\ TimersDiffer /\ SlotAgrees
  BY DEF SchedulerInv
<1>3. \A b \in Blocks : /\ Busy(b)' => Busy(b) /\ status'[b] = status[b]
                                      /\ timer'[b] = timer[b] + 1 /\ timer[b] # HarqTimeout
                        /\ ~Busy(b)' => status'[b] = 0
                        /\ ~Busy(b)' => timer'[b] = 0 \/ timer'[b] = timer[b]
  BY <1>1, <1>2
     DEF Busy, StatusRefreshed, Ticked, Expired, BusyAreAttached, BooksAgree
<1>4. BooksAgree'
  <2>1. \A b \in Blocks : /\ status'[b] \in 0..(MaxRv + 1)
                          /\ timer'[b] \in 0..HarqTimeout
                          /\ Busy(b)' => status'[b] - 1 = dci'[b].rv
    BY <1>1, <1>2, <1>3, SchedulerAssumption DEF BooksAgree
  <2> QED
    BY <1>1, <1>2, <2>1 DEF BooksAgree, Busy
<1>5. BusyAreAttached'
  BY <1>1, <1>2, <1>3 DEF BusyAreAttached
<1>6. \A d \in Dirs, u \in Ues, p \in Procs : <<d, u, p>> \in Blocks
  BY DEF Blocks
<1>7. \A b \in Blocks : timer[b] \in Nat
  BY <1>2, SchedulerAssumption DEF BooksAgree
<1>8. TimersDiffer'
  <2> SUFFICES ASSUME NEW d \in Dirs, NEW u \in Ues, NEW p \in Procs, NEW q \in Procs,
                      p # q, Busy(<<d, u, p>>)', Busy(<<d, u, q>>)'
               PROVE  timer'[<<d, u, p>>] # timer'[<<d, u, q>>]
    BY DEF TimersDiffer
  <2>1. <<d, u, p>> \in Blocks /\ <<d, u, q>> \in Blocks
    BY <1>6
  <2>2. timer[<<d, u, p>>] # timer[<<d, u, q>>]
    BY <1>2, <1>3, <2>1 DEF TimersDiffer
  <2> QED
    BY <1>3, <1>7, <2>1, <2>2
<1>9. PendingStartedEarlier'
  <2>1. \A d \in Dirs, u \in Ues, p \in Procs :
          Busy(<<d, u, p>>)' => timer'[<<d, u, p>>] >= 1
    BY <1>3, <1>6, <1>7
  <2> QED
    BY <2>1 DEF PendingStartedEarlier
<1>10. SlotAgrees'
  <2>1. /\ DOMAIN slot' = SlotFields
        /\ slot'.ueInfo = EmptySlot.ueInfo
        /\ slot'.given = EmptySlot.given /\ slot'.asked = EmptySlot.asked
    BY EmptySlotAgrees DEF SchedTriggerReq, SlotFields
  <2> QED
    BY <1>1, <2>1, EmptySlotAgrees DEF SlotAgrees, Sharing
<1> QED
  BY <1>1, <1>4, <1>5, <1>8, <1>9, <1>10 DEF SchedulerInv, Phases

(* What the rest of SchedulerInv is when a step stays in the open part of  *)
(* the slot and leaves the grants alone.                                   *)
LEMMA SlotStands ==
  ASSUME SchedulerInv, UNCHANGED attached, phase \in Phases \ {"arrive", "trigger"},
         phase' \in Phases \ (Sharing \cup {"arrive", "trigger"}),
         DOMAIN slot' = DOMAIN slot, slot'.ueInfo \subseteq Ues,
         slot'.given = slot.given, slot'.asked = slot.asked
  PROVE  SlotAgrees'
BY DEF SchedulerInv, SlotAgrees

(* A process that is given back; the answer may name none that exists.     *)
LEMMA ReleaseKeeps ==
  ASSUME SchedulerInv, NEW b, phase \in {"harq_dl", "harq_ul"}, ReleaseProcess(b)
  PROVE  SchedulerInv'
<1>1. /\ status' = [status EXCEPT ![b] = 0]
      /\ timer' = [timer EXCEPT ![b] = 0]
      /\ UNCHANGED <<attached, dci, slot, phase>>
  BY DEF ReleaseProcess
<1>2. BooksAgree /\ BusyAreAttached /\ SlotAgrees
  BY DEF SchedulerInv
<1>3. /\ DOMAIN status' = Blocks /\ DOMAIN timer' = Blocks
      /\ \A c \in Blocks : /\ c = b => status'[c] = 0 /\ timer'[c] = 0
                           /\ c # b => status'[c] = status[c] /\ timer'[c] = timer[c]
  BY <1>1, <1>2 DEF BooksAgree
<1>4. \A c \in Blocks : Busy(c)' => Busy(c) /\ c # b /\ timer'[c] = timer[c]
  BY <1>3 DEF Busy
<1>5. BooksAgree'
  <2>1. \A c \in Blocks : /\ status'[c] \in 0..(MaxRv + 1)
                          /\ timer'[c] \in 0..HarqTimeout
                          /\ Busy(c)' => status'[c] - 1 = dci'[c].rv
    BY <1>1, <1>2, <1>3, <1>4, SchedulerAssumption DEF BooksAgree
  <2> QED
    BY <1>1, <1>2, <1>3, <2>1 DEF BooksAgree, Busy
<1>6. BusyAreAttached'
  BY <1>1, <1>2, <1>4 DEF BusyAreAttached
<1>7. \A d \in Dirs, u \in Ues : Pending(d, u)' => Pending(d, u)
  BY <1>1 DEF Pending, Before
<1>8. TimersDiffer' /\ PendingStartedEarlier'
  BY <1>4, <1>7, NothingStarts
<1>9. SlotAgrees'
  BY <1>1, <1>2 DEF SlotAgrees, Sharing
<1> QED
  BY <1>1, <1>5, <1>6, <1>8, <1>9 DEF SchedulerInv

LEMMA RetransmitKeeps ==
  ASSUME SchedulerInv, NEW b, b[2] \in attached, phase \in {"harq_dl", "harq_ul"},
         b \in Blocks => Busy(b) /\ dci[b].rv < MaxRv, Retransmit(b)
  PROVE  SchedulerInv'
<1>1. /\ status' = [status EXCEPT ![b] = status[b] + 1]
      /\ dci' = [dci EXCEPT ![b].rv = dci[b].rv + 1]
      /\ UNCHANGED <<attached, timer, phase>>
  BY DEF Retransmit, NextRv
<1>2. BooksAgree /\ BusyAreAttached /\ SlotAgrees
  BY DEF SchedulerInv
<1>3. /\ DOMAIN status' = Blocks /\ DOMAIN dci' = Blocks
      /\ \A c \in Blocks : c # b => status'[c] = status[c] /\ dci'[c] = dci[c]
      /\ b \in Blocks => /\ status'[b] = status[b] + 1
                         /\ dci'[b].rv = dci[b].rv + 1 /\ DOMAIN dci'[b] = {"rv", "numSym"}
  BY <1>1, <1>2 DEF BooksAgree
<1>4. BooksAgree'
  <2>1. b \in Blocks =>
          /\ status'[b] \in 0..(MaxRv + 1) /\ dci'[b].rv \in 0..MaxRv
          /\ status'[b] - 1 = dci'[b].rv
    BY <1>2, <1>3, SchedulerAssumption DEF BooksAgree
  <2>2. \A c \in Blocks : c # b =>
          /\ status'[c] \in 0..(MaxRv + 1) /\ timer'[c] \in 0..HarqTimeout
          /\ DOMAIN dci'[c] = {"rv", "numSym"} /\ dci'[c].rv \in 0..MaxRv
          /\ status'[c] > 0 => status'[c] - 1 = dci'[c].rv
    BY <1>1, <1>2, <1>3 DEF BooksAgree, Busy
  <2>3. DOMAIN timer' = Blocks /\ \A c \in Blocks : timer'[c] \in 0..HarqTimeout
    BY <1>1, <1>2 DEF BooksAgree
  <2> QED
    BY <1>3, <2>1, <2>2, <2>3 DEF BooksAgree, Busy
<1>5. \A c \in Blocks : Busy(c)' => Busy(c) /\ timer'[c] = timer[c]
  BY <1>1, <1>3 DEF Busy
<1>6. BusyAreAttached'
  BY <1>1, <1>2, <1>5 DEF BusyAreAttached
<1>7. \A d \in Dirs, u \in Ues : Pending(d, u)
  BY PendingPhases DEF SchedulerInv
<1>8. TimersDiffer' /\ PendingStartedEarlier'
  BY <1>5, <1>7, NothingStarts
<1>9. b[2] \in Ues
  BY <1>2 DEF BusyAreAttached
<1>10. /\ DOMAIN slot' = DOMAIN slot /\ slot'.ueInfo \subseteq Ues
       /\ slot'.given = slot.given /\ slot'.asked = slot.asked
  BY <1>2, <1>9 DEF Retransmit, SlotAgrees, SlotFields
<1>11. SlotAgrees'
  <2>1. phase \in Phases \ (Sharing \cup {"arrive", "trigger"})
    BY DEF SchedulerInv, Sharing, Phases
  <2> QED
    BY <1>1, <1>10, <2>1, SlotStands
<1> QED
  BY <1>1, <1>4, <1>6, <1>8, <1>11 DEF SchedulerInv

(* Steps of the slot that touch neither the books nor the grants.          *)
LEMMA OtherwiseKeeps ==
  ASSUME SchedulerInv, UNCHANGED <<attached, status, timer, dci, slot>>,
         \/ phase' = phase
         \/ phase \in {"harq_dl", "harq_ul"} /\ phase' \in {"harq_ul", "collect"}
  PROVE  SchedulerInv'
<1>1. \A d \in Dirs, u \in Ues : Pending(d, u)' => Pending(d, u)
  <2>1. CASE phase' = phase
    BY <2>1 DEF Pending, Before
  <2>2. CASE phase \in {"harq_dl", "harq_ul"}
    BY <2>2, PendingPhases DEF SchedulerInv
  <2> QED
    BY <2>1, <2>2
<1>2. BooksAgree' /\ BusyAreAttached' /\ TimersDiffer' /\ PendingStartedEarlier'
  BY <1>1, BooksStand
<1>3. SlotAgrees'
  BY DEF SchedulerInv, SlotAgrees, Sharing, EmptySlot
<1> QED
  BY <1>2, <1>3 DEF SchedulerInv, Phases

LEMMA HarqFeedbackKeeps ==
  ASSUME SchedulerInv, NEW d \in Dirs, HarqFeedback(d)
  PROVE  SchedulerInv'
<1> DEFINE a == Head(harqInfoList[d])
           b == <<d, a.ue, a.proc>>
<1>1. phase \in {"harq_dl", "harq_ul"}
  BY DEF HarqFeedback, HarqPhase
<1>2. ASSUME NEW what, Fail(what) PROVE SchedulerInv'
  BY <1>2, OtherwiseKeeps DEF Fail, harqVars
<1>3. CASE PassOver(d)
  BY <1>3, OtherwiseKeeps DEF PassOver, harqVars
<1>4. CASE Defer(d)
  BY <1>4, OtherwiseKeeps DEF Defer, harqVars
<1>5. ASSUME ReleaseProcess(b) PROVE SchedulerInv'
  BY <1>1, <1>5, ReleaseKeeps
<1>6. ASSUME a.ue \in attached, status[b] > 0, Nack(b) PROVE SchedulerInv'
  <2> DEFINE rv == dci[b].rv
  <2>1. CASE status[b] - 1 # rv
    BY <1>2, <1>6, <2>1 DEF Nack
  <2>2. CASE rv = MaxRv /\ ReleaseProcess(b)
    BY <1>5, <2>2
  <2>3. CASE rv < MaxRv /\ Retransmit(b)
    <3>1. b[2] \in attached /\ Busy(b)
      BY <1>6 DEF Busy
    <3> HIDE DEF b
    <3> QED
      BY <1>1, <2>3, <3>1, RetransmitKeeps
  <2>4. CASE Defer(b[1])
    BY <1>4, <2>4
  <2>5. \/ status[b] - 1 # rv
        \/ rv = MaxRv /\ ReleaseProcess(b)
        \/ rv < MaxRv /\ Retransmit(b)
        \/ Fail("assertion of the last symbol")
        \/ Defer(b[1])
    <3> HIDE DEF b
    <3> QED
      BY <1>6 DEF Nack
  <2> QED
    BY <1>2, <2>1, <2>2, <2>3, <2>4, <2>5
<1>7. \/ PassOver(d)
      \/ Fail("feedback of an unknown UE")
      \/ ReleaseProcess(b)
      \/ a.ue \in attached /\ status[b] > 0 /\ Nack(b)
  BY DEF HarqFeedback
<1> QED
  BY <1>2, <1>3, <1>5, <1>6, <1>7

LEMMA EndFeedbackKeeps ==
  ASSUME SchedulerInv, NEW d \in Dirs, EndFeedback(d)
  PROVE  SchedulerInv'
<1>1. /\ UNCHANGED <<attached, status, timer, dci, slot>>
      /\ phase \in {"harq_dl", "harq_ul"} /\ phase' \in {"harq_ul", "collect"}
  BY DEF EndFeedback, HarqPhase, harqVars
<1> QED
  BY <1>1, OtherwiseKeeps

(* Steps from the feedback to the first assignment: every UE may still get *)
(* its blocks, and whoever left has asked for nothing.                     *)
LEMMA SharingKeeps ==
  ASSUME SchedulerInv, UNCHANGED <<attached, status, timer, dci>>,
         phase \in {"collect", "begin_dl", "share_dl", "begin_ul", "share_ul"},
         phase' \in Sharing \ {"assign_ul"},
         DOMAIN slot' = SlotFields, slot'.ueInfo \subseteq Ues,
         slot'.cur \in slot'.ueInfo, slot'.start \in slot'.ueInfo,
         DOMAIN slot'.given = Dirs, \A d \in Dirs : DOMAIN slot'.given[d] = Ues,
         \A d \in Dirs, u \in Ues :
           u \notin attached => slot'.given[d][u] = 0 /\ slot'.asked[d][u] = 0
  PROVE  SchedulerInv'
<1>1. \A d \in Dirs, u \in Ues : Pending(d, u)
  BY PendingPhases DEF SchedulerInv
<1>2. BooksAgree' /\ BusyAreAttached' /\ TimersDiffer' /\ PendingStartedEarlier'
  BY <1>1, BooksStand
<1>3. SlotAgrees'
  BY DEF SlotAgrees, Sharing
<1>4. phase' \in Phases
  BY DEF Sharing, Phases
<1> QED
  BY <1>2, <1>3, <1>4 DEF SchedulerInv

LEMMA CollectKeeps ==
  ASSUME SchedulerInv, Collect
  PROVE  SchedulerInv'
<1>1. PICK asked \in [Dirs -> [Ues -> UNION {scenario.traffic[d] : d \in Dirs}]] :
        /\ \A d \in Dirs, u \in Ues :
             /\ asked[d][u] \in scenario.traffic[d]
             /\ (u \notin attached \/ ~SymbolsLeft(d)) => asked[d][u] = 0
        /\ LET ueInfo == slot.ueInfo \cup {u \in Ues : \E d \in Dirs : asked[d][u] > 0}
               start == IF nextRnti \in ueInfo THEN nextRnti ELSE Min(ueInfo)
           IN  IF ueInfo = {} THEN slot' = slot /\ phase' = "end"
               ELSE /\ slot' = [slot EXCEPT !.asked = asked, !.ueInfo = ueInfo,
                                            !.start = start, !.cur = start]
                    /\ phase' = "begin_dl"
  BY DEF Collect
<1> DEFINE ueInfo == slot.ueInfo \cup {u \in Ues : \E d \in Dirs : asked[d][u] > 0}
           start == IF nextRnti \in ueInfo THEN nextRnti ELSE Min(ueInfo)
<1>2. UNCHANGED <<attached, status, timer, dci>> /\ phase = "collect"
  BY DEF Collect, harqVars
<1>3. SlotAgrees /\ ueInfo \subseteq Ues
  BY DEF SchedulerInv, SlotAgrees
<1>4. CASE ueInfo = {}
  <2>1. slot' = slot /\ phase' = "end"
    BY <1>1, <1>4
  <2>2. BooksAgree' /\ BusyAreAttached' /\ TimersDiffer' /\ PendingStartedEarlier'
    BY <1>2, <2>1, PendingPhasesNext, BooksStand
  <2>3. SlotAgrees' /\ phase' \in Phases
    BY <1>2, <1>3, <2>1 DEF SlotAgrees, Sharing, Phases
  <2> QED
    BY <2>2, <2>3 DEF SchedulerInv
<1>5. CASE ueInfo # {}
  <2>1. start \in ueInfo
    <3> HIDE DEF ueInfo
    <3>1. ueInfo \subseteq Nat
      BY <1>3, SchedulerAssumption
    <3>2. Min(ueInfo) \in ueInfo
      BY <1>5, <3>1, MinIsLeast
    <3> QED
      BY <3>2
  <2>2. /\ slot' = [slot EXCEPT !.asked = asked, !.ueInfo = ueInfo,
                                !.start = start, !.cur = start]
        /\ phase' = "begin_dl"
    BY <1>1, <1>5
  <2> HIDE DEF start, ueInfo
  <2>3. /\ DOMAIN slot' = SlotFields /\ slot'.ueInfo = ueInfo
        /\ slot'.cur = start /\ slot'.start = start
        /\ slot'.given = slot.given /\ slot'.asked = asked
    BY <1>3, <2>2 DEF SlotAgrees, SlotFields
  <2>4. \A d \in Dirs, u \in Ues :
          u \notin attached => slot'.given[d][u] = 0 /\ slot'.asked[d][u] = 0
    BY <1>1, <1>3, <2>3 DEF SlotAgrees
  <2>5. DOMAIN slot'.given = Dirs /\ \A d \in Dirs : DOMAIN slot'.given[d] = Ues
    BY <1>3, <2>3 DEF SlotAgrees
  <2>6. phase' \in Sharing \ {"assign_ul"}
    BY <2>2 DEF Sharing
  <2> QED
    BY <1>2, <1>3, <2>1, <2>3, <2>4, <2>5, <2>6, SharingKeeps
<1> QED
  BY <1>4, <1>5

LEMMA BeginSharingKeeps ==
  ASSUME SchedulerInv, NEW d \in Dirs, BeginSharing(d)
  PROVE  SchedulerInv'
<1>1. /\ UNCHANGED <<attached, status, timer, dci>>
      /\ phase \in {"begin_dl", "begin_ul"}
  BY DEF BeginSharing, BeginPhase, harqVars
<1>2. SlotAgrees /\ slot.cur \in slot.ueInfo /\ slot.start \in slot.ueInfo
  BY <1>1 DEF SchedulerInv, SlotAgrees, Sharing
<1>3. PICK l, c : /\ slot' = [slot EXCEPT !.loop = l, !.cur = c]
                  /\ c \in {slot.cur, slot.start}
                  /\ phase' \in {"begin_ul", "assign_dl", "share_dl", "share_ul"}
  <2> DEFINE Loops(l, c) == [slot EXCEPT !.loop = l, !.cur = c]
  <2>0. \A l : [slot EXCEPT !.loop = l] = Loops(l, slot.cur)
    BY <1>2 DEF SlotAgrees, SlotFields
  <2>1. CASE Flows(d) = 0
    <3>1. /\ slot' = [slot EXCEPT !.loop = NoLoop] \/ slot' = Loops(NoLoop, slot.start)
          /\ phase' \in {"begin_ul", "assign_dl"}
      BY <2>1 DEF BeginSharing, AfterSharing
    <3> HIDE DEF Loops
    <3>2. \E c \in {slot.cur, slot.start} : slot' = Loops(NoLoop, c)
      BY <2>0, <3>1
    <3> QED
      BY <3>1, <3>2 DEF Loops
  <2>2. CASE Flows(d) # 0
    <3>1. PICK l : slot' = [slot EXCEPT !.loop = l] /\ phase' = SharePhase(d)
      BY <2>2 DEF BeginSharing
    <3>2. phase' \in {"share_dl", "share_ul"}
      BY <3>1 DEF SharePhase
    <3> HIDE DEF Loops
    <3>3. slot' = Loops(l, slot.cur)
      BY <2>0, <3>1
    <3> QED
      BY <3>2, <3>3 DEF Loops
  <2> QED
    BY <2>1, <2>2
<1>4. /\ DOMAIN slot' = SlotFields /\ slot'.ueInfo = slot.ueInfo
      /\ slot'.cur = c /\ slot'.start = slot.start
      /\ slot'.given = slot.given /\ slot'.asked = slot.asked
  BY <1>2, <1>3 DEF SlotAgrees, SlotFields
<1>5. phase' \in Sharing \ {"assign_ul"}
  BY <1>3 DEF Sharing
<1>6. \A e \in Dirs, u \in Ues :
        u \notin attached => slot'.given[e][u] = 0 /\ slot'.asked[e][u] = 0
  BY <1>2, <1>4 DEF SlotAgrees
<1>7. /\ slot'.ueInfo \subseteq Ues
      /\ DOMAIN slot'.given = Dirs /\ \A e \in Dirs : DOMAIN slot'.given[e] = Ues
  BY <1>2, <1>4 DEF SlotAgrees
<1> QED
  BY <1>1, <1>2, <1>3, <1>4, <1>5, <1>6, <1>7, SharingKeeps

LEMMA ShareSymbolsKeeps ==
  ASSUME SchedulerInv, NEW d \in Dirs, ShareSymbols(d)
  PROVE  SchedulerInv'
<1> DEFINE u == slot.cur
           add == AddSym(d, u)
<1>1. phase \in {"share_dl", "share_ul"}
  BY DEF ShareSymbols, SharePhase
<1>2. /\ SlotAgrees /\ u \in slot.ueInfo /\ slot.start \in slot.ueInfo
      /\ slot.ueInfo \subseteq Ues
  BY <1>1 DEF SchedulerInv, SlotAgrees, Sharing
<1>3. CASE Fail("division by zero")
  BY <1>3, OtherwiseKeeps DEF Fail, harqVars
<1>4. CASE ~Fail("division by zero")
  <2>1. UNCHANGED <<attached, status, timer, dci>>
    BY <1>4 DEF ShareSymbols, harqVars
  <2>2. NextUe(u) \in slot.ueInfo
    <3>1. slot.ueInfo \subseteq Nat /\ u \in Nat
      BY <1>2, SchedulerAssumption
    <3> HIDE DEF u
    <3> QED
      BY <1>2, <3>1, NextUeGoesRound
  <2>3. PICK l, c : /\ slot' = [slot EXCEPT !.given[d][u] = slot.given[d][u] + add,
                                            !.cur = c, !.loop = l]
                    /\ c \in {NextUe(u), slot.start}
                    /\ phase' \in {"begin_ul", "assign_dl", "share_dl", "share_ul"}
    <3> DEFINE turn(each, rem, flows, average, alloc) ==
          [slot EXCEPT !.given[d][u] = @ + add, !.cur = NextUe(u),
                       !.loop = [rem |-> rem, flows |-> flows, each |-> each,
                                 average |-> average, allocated |-> alloc]]
    <3>1. PICK each, rem, flows, average, alloc :
            \/ AfterSharing(d, turn(each, rem, flows, average, alloc))
            \/ slot' = turn(each, rem, flows, average, alloc) /\ phase' = phase
      <4> DEFINE l == slot.loop
                 left == FlowsLeft(d, u)
                 rest == l.rem - add
                 extra == IF IsServed(d, u) THEN (l.each - add) \div left ELSE 0
                 allocated == l.allocated \/ CountsAsAllocated(d, u)
                 own(e, a) == turn(e, rest, left, l.average + extra, a)
      <4>1. \/ AfterSharing(d, own(l.each + extra, allocated))
            \/ slot' = own(AtLeast1(rest \div left), FALSE) /\ phase' = phase
            \/ slot' = own(l.each + extra, allocated) /\ phase' = phase
        <5> HIDE DEF own
        <5>1. \/ AfterSharing(d, own(l.each + extra, allocated))
              \/ /\ slot' = IF NextUe(u) = slot.start
                            THEN own(AtLeast1(rest \div left), FALSE)
                            ELSE own(l.each + extra, allocated)
                 /\ UNCHANGED <<phase, nextRnti>>
          BY <1>4 DEF ShareSymbols, own
        <5> QED
          BY <5>1
      <4> HIDE DEF turn, l, left, rest, extra, allocated
      <4> QED
        BY <4>1
    <3>2. CASE slot' = turn(each, rem, flows, average, alloc) /\ phase' = phase
      BY <1>1, <1>2, <3>2
    <3>3. CASE AfterSharing(d, turn(each, rem, flows, average, alloc))
      <4> DEFINE t == turn(each, rem, flows, average, alloc)
      <4>1. /\ t.start = slot.start /\ DOMAIN t = SlotFields
            /\ t.given = [slot.given EXCEPT ![d][u] = @ + add]
        BY <1>2 DEF SlotAgrees, SlotFields
      <4>2. CASE d = "dl"
        <5>1. slot' = [t EXCEPT !.loop = NoLoop] /\ phase' = "begin_ul"
          BY <3>3, <4>2 DEF AfterSharing
        <5>2. slot' = [slot EXCEPT !.given[d][u] = slot.given[d][u] + add,
                                   !.cur = NextUe(u), !.loop = NoLoop]
          BY <1>2, <5>1 DEF SlotAgrees, SlotFields
        <5> QED
          BY <5>1, <5>2
      <4>3. CASE d # "dl"
        <5>1. slot' = [t EXCEPT !.loop = NoLoop, !.cur = t.start] /\ phase' = "assign_dl"
          BY <3>3, <4>3 DEF AfterSharing
        <5>2. slot' = [slot EXCEPT !.given[d][u] = slot.given[d][u] + add,
                                   !.cur = slot.start, !.loop = NoLoop]
          BY <1>2, <4>1, <5>1 DEF SlotAgrees, SlotFields
        <5> QED
          BY <5>1, <5>2
      <4> QED
        BY <4>2, <4>3
    <3> QED
      BY <3>1, <3>2, <3>3
  <2> HIDE DEF add
  <2>4. /\ DOMAIN slot' = SlotFields /\ slot'.ueInfo = slot.ueInfo
        /\ slot'.cur = c /\ slot'.start = slot.start /\ slot'.asked = slot.asked
        /\ slot'.given = [slot.given EXCEPT ![d][u] = slot.given[d][u] + add]
    BY <1>2, <2>3 DEF SlotAgrees, SlotFields
  <2>5. DOMAIN slot'.given = Dirs /\ \A e \in Dirs : DOMAIN slot'.given[e] = Ues
    BY <1>2, <2>4 DEF SlotAgrees
  <2>6. u \notin attached => add = 0
    <3> SUFFICES ASSUME u \notin attached PROVE add = 0
      OBVIOUS
    <3>1. slot.given[d][u] = 0 /\ slot.asked[d][u] = 0
      BY <1>2 DEF SlotAgrees
    <3>2. ~Eligible(d, u)
      BY <3>1 DEF Eligible
    <3> QED
      BY <3>2 DEF add, AddSym
  <2>7. \A e \in Dirs, v \in Ues :
          v \notin attached => slot'.given[e][v] = 0 /\ slot'.asked[e][v] = 0
    <3> SUFFICES ASSUME NEW e \in Dirs, NEW v \in Ues, v \notin attached
                 PROVE  slot'.given[e][v] = 0 /\ slot'.asked[e][v] = 0
      OBVIOUS
    <3>1. slot.given[e][v] = 0 /\ slot.asked[e][v] = 0
      BY <1>2 DEF SlotAgrees
    <3>2. CASE e = d /\ v = u
      BY <1>2, <2>4, <2>6, <3>1, <3>2 DEF SlotAgrees
    <3>3. CASE ~(e = d /\ v = u)
      BY <1>2, <2>4, <3>1, <3>3 DEF SlotAgrees
    <3> QED
      BY <3>2, <3>3
  <2>8. phase' \in Sharing \ {"assign_ul"}
    BY <2>3 DEF Sharing
  <2>9. c \in slot.ueInfo
    BY <1>2, <2>2, <2>3
  <2> HIDE DEF u
  <2> QED
    BY <1>1, <1>2, <2>1, <2>4, <2>5, <2>7, <2>8, <2>9, SharingKeeps
<1> QED
  BY <1>3, <1>4

(* After a turn of the assignment no UE is pending that was not, and the   *)
(* UE of the turn no more.                                                 *)
LEMMA AssignmentPasses ==
  ASSUME SchedulerInv, NEW d \in Dirs, phase = AssignPhase(d), UNCHANGED attached, NEW s,
         NextAssignment(d, s),
         DOMAIN s = SlotFields, s.cur = slot.cur, s.start = slot.start,
         s.ueInfo = slot.ueInfo, s.given = slot.given, s.asked = slot.asked
  PROVE  /\ SlotAgrees' /\ phase' \in Phases
         /\ \A e \in Dirs, v \in Ues :
              Pending(e, v)' => Pending(e, v) /\ ~(e = d /\ v = slot.cur)
<1>1. /\ SlotAgrees /\ slot.cur \in slot.ueInfo /\ slot.start \in slot.ueInfo
      /\ slot.ueInfo \subseteq Ues
  BY DEF AssignPhase, SchedulerInv, SlotAgrees, Sharing
<1>2. slot.ueInfo \subseteq Nat /\ slot.cur \in Nat
  BY <1>1, SchedulerAssumption
<1>3. /\ NextUe(slot.cur) \in slot.ueInfo
      /\ NextUe(slot.cur) # slot.start =>
           \A v \in Nat : Before(v, slot.cur) \/ v = slot.cur => Before(v, NextUe(slot.cur))
  BY <1>1, <1>2, NextUeGoesRound
<1>4. CASE d = "dl"
  <2>1. phase = "assign_dl" /\ phase' = "assign_ul" /\ slot' = s
    BY <1>4 DEF AssignPhase, NextAssignment
  <2>2. SlotAgrees' /\ phase' \in Phases
    BY <1>1, <2>1 DEF SlotAgrees, Sharing, Phases
  <2>3. ASSUME NEW e \in Dirs, NEW v \in Ues, Pending(e, v)'
        PROVE  Pending(e, v) /\ ~(e = d /\ v = slot.cur)
    <3>1. Before(v, slot.cur)' <=> Before(v, slot.cur)
      BY <2>1 DEF Before
    <3> QED
      BY <1>4, <2>1, <2>3, <3>1 DEF Pending
  <2> QED
    BY <2>2, <2>3
<1>5. CASE d = "ul"
  <2> DEFINE next == NextUe(slot.cur)
  <2>1. /\ phase = "assign_ul" /\ slot' = [s EXCEPT !.cur = next]
        /\ phase' = IF next = slot.start THEN "end" ELSE "assign_dl"
    BY <1>5 DEF AssignPhase, NextAssignment
  <2> HIDE DEF next
  <2>2. /\ DOMAIN slot' = SlotFields /\ slot'.cur = next /\ slot'.start = slot.start
        /\ slot'.ueInfo = slot.ueInfo /\ slot'.given = slot.given /\ slot'.asked = slot.asked
    BY <2>1 DEF SlotFields
  <2>3. next \in slot.ueInfo
    BY <1>3 DEF next
  <2>4. SlotAgrees' /\ phase' \in Phases
    <3>1. phase' \in {"end", "assign_dl"}
      BY <2>1
    <3> QED
      BY <1>1, <2>2, <2>3, <3>1 DEF SlotAgrees, Sharing, Phases
  <2>5. ASSUME NEW e \in Dirs, NEW v \in Ues, Pending(e, v)'
        PROVE  Pending(e, v) /\ ~(e = d /\ v = slot.cur)
    <3>1. CASE next = slot.start
      BY <2>1, <2>5, <3>1 DEF Pending
    <3>2. CASE next # slot.start
      <4>1. ~(Before(v, slot.cur)')
        BY <2>1, <2>5, <3>2 DEF Pending
      <4>2. ~Before(v, next)
        BY <2>2, <4>1 DEF Before
      <4>3. v \in Nat
        BY SchedulerAssumption
      <4>4. ~Before(v, slot.cur) /\ v # slot.cur
        BY <1>3, <3>2, <4>2, <4>3 DEF next
      <4> QED
        BY <2>1, <4>4 DEF Pending
    <3> QED
      BY <3>1, <3>2
  <2> QED
    BY <2>4, <2>5
<1> QED
  BY <1>4, <1>5 DEF Dirs

(* A new block takes a free process, and its UE had none that started in   *)
(* this slot.                                                              *)
LEMMA NewBlockKeeps ==
  ASSUME SchedulerInv, NEW d \in Dirs, phase = AssignPhase(d), NEW n, NEW u,
         u = slot.cur, u \in attached, NewBlock(d, u, n)
  PROVE  SchedulerInv'
<1> DEFINE p == FreeProcess(d, u)
           b == <<d, u, p>>
<1>1. CASE \E what : Fail(what)
  BY <1>1, OtherwiseKeeps DEF Fail, harqVars
<1>2. CASE ~\E what : Fail(what)
  <2>1. p \in Procs /\ status[b] = 0 /\ u \in Ues
    <3>1. p # NoProcess
      BY <1>2 DEF NewBlock
    <3> QED
      BY <3>1, FreeIsFree DEF SchedulerInv, BusyAreAttached
  <2>2. /\ status' = [status EXCEPT ![b] = 1]
        /\ timer' = [timer EXCEPT ![b] = 0]
        /\ dci' = [dci EXCEPT ![b] = [rv |-> 0, numSym |-> n]]
        /\ UNCHANGED attached
    BY <1>2 DEF NewBlock
  <2>3. PICK s : /\ NextAssignment(d, s)
                 /\ DOMAIN s = SlotFields /\ s.cur = slot.cur /\ s.start = slot.start
                 /\ s.ueInfo = slot.ueInfo /\ s.given = slot.given /\ s.asked = slot.asked
    <3> DEFINE s == [slot EXCEPT
                       !.first[d] = @ + n, !.avail[d] = @ - n,
                       !.ttis = Append(@, Tti(d, u, slot.first[d], n)),
                       !.sent[d] = Append(Outdated(@, u, p),
                                          [ue |-> u, proc |-> p, fresh |-> TRUE])]
    <3>1. NextAssignment(d, s)
      BY <1>2 DEF NewBlock
    <3>2. /\ DOMAIN s = SlotFields /\ s.cur = slot.cur /\ s.start = slot.start
          /\ s.ueInfo = slot.ueInfo /\ s.given = slot.given /\ s.asked = slot.asked
      BY DEF SchedulerInv, SlotAgrees, SlotFields
    <3> HIDE DEF s
    <3> QED
      BY <3>1, <3>2
  <2>4. /\ SlotAgrees' /\ phase' \in Phases
        /\ \A e \in Dirs, v \in Ues : Pending(e, v)' => Pending(e, v) /\ ~(e = d /\ v = u)
    BY <2>2, <2>3, AssignmentPasses
  <2> HIDE DEF p
  <2>5. b \in Blocks
    BY <2>1 DEF Blocks
  <2>6. /\ DOMAIN status' = Blocks /\ DOMAIN timer' = Blocks /\ DOMAIN dci' = Blocks
        /\ status'[b] = 1 /\ timer'[b] = 0 /\ dci'[b] = [rv |-> 0, numSym |-> n]
        /\ \A c \in Blocks : c # b => /\ status'[c] = status[c] /\ timer'[c] = timer[c]
                                      /\ dci'[c] = dci[c]
    BY <2>2, <2>5 DEF SchedulerInv, BooksAgree
  <2>7. b[2] = u
    OBVIOUS
  <2>8. \A e \in Dirs, v \in Ues, q \in Procs :
          /\ <<e, v, q>> \in Blocks
          /\ <<e, v, q>> = b <=> e = d /\ v = u /\ q = p
    BY DEF Blocks
  <2> HIDE DEF b
  <2>9. BooksAgree'
    <3>1. /\ status'[b] \in 0..(MaxRv + 1) /\ timer'[b] \in 0..HarqTimeout
          /\ DOMAIN dci'[b] = {"rv", "numSym"} /\ dci'[b].rv \in 0..MaxRv
          /\ status'[b] - 1 = dci'[b].rv
      BY <2>6, SchedulerAssumption
    <3>2. \A c \in Blocks : c # b =>
            /\ status'[c] \in 0..(MaxRv + 1) /\ timer'[c] \in 0..HarqTimeout
            /\ DOMAIN dci'[c] = {"rv", "numSym"} /\ dci'[c].rv \in 0..MaxRv
            /\ status'[c] > 0 => status'[c] - 1 = dci'[c].rv
      BY <2>6 DEF SchedulerInv, BooksAgree, Busy
    <3> QED
      BY <2>6, <3>1, <3>2 DEF BooksAgree, Busy
  <2>10. \A c \in Blocks : c # b /\ Busy(c)' => Busy(c) /\ timer'[c] = timer[c]
    BY <2>6 DEF Busy
  <2>11. BusyAreAttached'
    BY <2>2, <2>7, <2>10 DEF SchedulerInv, BusyAreAttached
  <2>12. Pending(d, u)
    <3>1. u \in Nat /\ slot.start \in Nat
      BY <2>1, SchedulerAssumption DEF AssignPhase, SchedulerInv, SlotAgrees, Sharing
    <3>2. ~Before(u, slot.cur)
      BY <3>1, NotBeforeItself
    <3> QED
      BY <3>2 DEF Pending, AssignPhase, Dirs
  <2>13. ASSUME NEW q \in Procs, q # p, Busy(<<d, u, q>>)'
         PROVE  timer'[<<d, u, q>>] # 0
    <3>1. <<d, u, q>> \in Blocks /\ <<d, u, q>> # b
      BY <2>1, <2>8, <2>13
    <3>2. Busy(<<d, u, q>>) /\ timer'[<<d, u, q>>] = timer[<<d, u, q>>]
      BY <2>10, <2>13, <3>1
    <3>3. timer[<<d, u, q>>] >= 1
      BY <2>1, <2>12, <3>2 DEF SchedulerInv, PendingStartedEarlier
    <3>4. timer[<<d, u, q>>] \in Nat
      BY <3>1, SchedulerAssumption DEF SchedulerInv, BooksAgree
    <3> QED
      BY <3>2, <3>3, <3>4
  <2>14. TimersDiffer'
    <3> SUFFICES ASSUME NEW e \in Dirs, NEW v \in Ues, NEW q \in Procs, NEW r \in Procs,
                        q # r, Busy(<<e, v, q>>)', Busy(<<e, v, r>>)'
                 PROVE  timer'[<<e, v, q>>] # timer'[<<e, v, r>>]
      BY DEF TimersDiffer
    <3>1. CASE <<e, v, q>> # b /\ <<e, v, r>> # b
      BY <2>8, <2>10, <3>1 DEF SchedulerInv, TimersDiffer
    <3>2. CASE <<e, v, q>> = b
      <4>1. e = d /\ v = u /\ r # p /\ timer'[<<e, v, q>>] = 0
        BY <2>6, <2>8, <3>2
      <4> QED
        BY <2>13, <4>1
    <3>3. CASE <<e, v, r>> = b
      <4>1. e = d /\ v = u /\ q # p /\ timer'[<<e, v, r>>] = 0
        BY <2>6, <2>8, <3>3
      <4> QED
        BY <2>13, <4>1
    <3> QED
      BY <3>1, <3>2, <3>3
  <2>15. PendingStartedEarlier'
    <3> SUFFICES ASSUME NEW e \in Dirs, NEW v \in Ues, NEW q \in Procs,
                        Pending(e, v)', Busy(<<e, v, q>>)'
                 PROVE  timer'[<<e, v, q>>] >= 1
      BY DEF PendingStartedEarlier
    <3>1. Pending(e, v) /\ <<e, v, q>> # b /\ <<e, v, q>> \in Blocks
      BY <2>4, <2>8
    <3> QED
      BY <2>10, <3>1 DEF SchedulerInv, PendingStartedEarlier
  <2> QED
    BY <2>4, <2>9, <2>11, <2>14, <2>15 DEF SchedulerInv
<1> QED
  BY <1>1, <1>2

LEMMA AssignKeeps ==
  ASSUME SchedulerInv, NEW d \in Dirs, Assign(d)
  PROVE  SchedulerInv'
<1>1. phase = AssignPhase(d)
  BY DEF Assign
<1>2. SlotAgrees /\ slot.cur \in Ues
  BY <1>1 DEF AssignPhase, SchedulerInv, SlotAgrees, Sharing
<1>3. CASE slot.given[d][slot.cur] > 0
  <2>1. slot.cur \in attached
    BY <1>2, <1>3 DEF SlotAgrees
  <2>2. PICK u \in Ues : u = slot.cur
    BY <1>2
  <2>3. PICK n : NewBlock(d, u, n)
    BY <1>3, <2>2 DEF Assign
  <2> QED
    BY <1>1, <2>1, <2>2, <2>3, NewBlockKeeps
<1>4. CASE ~(slot.given[d][slot.cur] > 0)
  <2>1. NextAssignment(d, slot) /\ UNCHANGED <<attached, status, timer, dci>>
    BY <1>4 DEF Assign, harqVars
  <2>2. /\ SlotAgrees' /\ phase' \in Phases
        /\ \A e \in Dirs, v \in Ues : Pending(e, v)' => Pending(e, v)
    <3>1. DOMAIN slot = SlotFields
      BY <1>2 DEF SlotAgrees
    <3> QED
      BY <1>1, <2>1, <3>1, AssignmentPasses
  <2>3. BooksAgree' /\ BusyAreAttached' /\ TimersDiffer' /\ PendingStartedEarlier'
    BY <2>1, <2>2, BooksStand
  <2> QED
    BY <2>2, <2>3 DEF SchedulerInv
<1> QED
  BY <1>3, <1>4

LEMMA SchedConfigIndKeeps ==
  ASSUME SchedulerInv, SchedConfigInd
  PROVE  SchedulerInv'
<1>1. /\ UNCHANGED <<attached, status, timer, dci>>
      /\ slot' = EmptySlot /\ phase' = "arrive"
  BY DEF SchedConfigInd, harqVars
<1>2. BooksAgree' /\ BusyAreAttached' /\ TimersDiffer' /\ PendingStartedEarlier'
  BY <1>1, PendingPhasesNext, BooksStand
<1>3. SlotAgrees'
  <2>1. slot' = EmptySlot'
    BY <1>1 DEF EmptySlot
  <2> QED
    BY <1>1, <2>1, EmptySlotAgrees DEF SlotAgrees, Sharing, EmptySlot
<1> QED
  BY <1>1, <1>2, <1>3 DEF SchedulerInv, Phases

LEMMA NextInv == SchedulerInv /\ [Next]_vars => SchedulerInv'
<1> SUFFICES ASSUME SchedulerInv, [Next]_vars PROVE SchedulerInv'
  OBVIOUS
<1>1. CASE UNCHANGED vars
  BY <1>1, OtherwiseKeeps DEF vars, harqVars
<1>2. CASE Next
  <2>1. CASE Arrive
    BY <2>1, ArriveKeeps
  <2>2. ASSUME NEW u \in Ues, RemoveUe(u) PROVE SchedulerInv'
    BY <2>2, RemoveUeKeeps
  <2>3. CASE SchedTriggerReq
    BY <2>3, SchedTriggerReqKeeps
  <2>4. ASSUME NEW d \in Dirs, HarqFeedback(d) PROVE SchedulerInv'
    BY <2>4, HarqFeedbackKeeps
  <2>5. ASSUME NEW d \in Dirs, EndFeedback(d) PROVE SchedulerInv'
    BY <2>5, EndFeedbackKeeps
  <2>6. CASE Collect
    BY <2>6, CollectKeeps
  <2>7. ASSUME NEW d \in Dirs, BeginSharing(d) PROVE SchedulerInv'
    BY <2>7, BeginSharingKeeps
  <2>8. ASSUME NEW d \in Dirs, ShareSymbols(d) PROVE SchedulerInv'
    BY <2>8, ShareSymbolsKeeps
  <2>9. ASSUME NEW d \in Dirs, Assign(d) PROVE SchedulerInv'
    BY <2>9, AssignKeeps
  <2>10. CASE SchedConfigInd
    BY <2>10, SchedConfigIndKeeps
  <2> QED
    BY <1>2, <2>1, <2>2, <2>3, <2>4, <2>5, <2>6, <2>7, <2>8, <2>9, <2>10 DEF Next
<1> QED
  BY <1>1, <1>2

--------------------------------------------------------------------------------
(* The books of the processes agree with each other and with the slot, and *)
(* no UE has two blocks of a direction that started in the same slot.      *)
THEOREM SchedulerInvariantHolds == Spec => []SchedulerInv
BY InitInv, NextInv, PTL DEF Spec

(* Whatever UEs, traffic, format and answers: the assertion of HARQ        *)
(* feedback on the redundancy version of a busy process always agrees      *)
(* (DoSchedTriggerReq).                                                    *)
THEOREM RvAlwaysFollowsStatus == Spec => []RvFollowsStatus
<1>1. SchedulerInv => RvFollowsStatus
  BY DEF SchedulerInv, BooksAgree, Busy, RvFollowsStatus
<1> QED
  BY <1>1, SchedulerInvariantHolds, PTL

(* With more HARQ processes than a timeout has slots, a new block always   *)
(* finds a free process: the assertions of UpdateDlHarqProcessId and       *)
(* UpdateUlHarqProcessId never fail.  The defaults have as many as slots.  *)
THEOREM ProcessAlwaysFree ==
  ASSUME NumHarqProcess > HarqTimeout
  PROVE  Spec => [](failure # "assertion of a free process")
<1> DEFINE Free == failure # "assertion of a free process"
<1>1. Init => Free
  BY DEF Init
<1>2. SchedulerInv /\ Free /\ [Next]_vars => Free'
  <2> SUFFICES ASSUME SchedulerInv, Free, [Next]_vars, ~Free' PROVE FALSE
    OBVIOUS
  <2>1. PICK d \in Dirs : phase = AssignPhase(d) /\ slot.given[d][slot.cur] > 0
                          /\ FreeProcess(d, slot.cur) = NoProcess
    <3>1. ASSUME NEW what, Fail(what) PROVE what = "assertion of a free process"
      BY <3>1 DEF Fail
    <3>2. ASSUME NEW e \in Dirs, HarqFeedback(e) PROVE FALSE
      BY <3>1, <3>2
         DEF HarqFeedback, PassOver, ReleaseProcess, Nack, Retransmit, Defer
    <3>3. ASSUME NEW e \in Dirs, ShareSymbols(e) PROVE FALSE
      BY <3>1, <3>3 DEF ShareSymbols
    <3>4. ASSUME NEW e \in Dirs, Assign(e)
          PROVE  phase = AssignPhase(e) /\ slot.given[e][slot.cur] > 0
                 /\ FreeProcess(e, slot.cur) = NoProcess
      BY <3>1, <3>4 DEF Assign, NewBlock
    <3>5. ~UNCHANGED failure
      OBVIOUS
    <3> HIDE DEF Free
    <3>6. \E e \in Dirs : HarqFeedback(e) \/ ShareSymbols(e) \/ Assign(e)
      BY <3>5 DEF Next, vars, Arrive, RemoveUe, SchedTriggerReq, EndFeedback, Collect,
                  BeginSharing, SchedConfigInd
    <3> QED
      BY <3>2, <3>3, <3>4, <3>6
  <2>2. slot.cur \in Ues /\ slot.start \in Ues
    BY <2>1 DEF AssignPhase, SchedulerInv, SlotAgrees, Sharing
  <2>3. Pending(d, slot.cur)
    <3>1. ~Before(slot.cur, slot.cur)
      BY <2>2, NotBeforeItself, SchedulerAssumption
    <3> QED
      BY <2>1, <3>1 DEF Pending, AssignPhase, Dirs
  <2>4. FreeProcess(d, slot.cur) \in Procs
    BY <2>2, <2>3, SomeProcessIsFree DEF SchedulerInv, PendingStartedEarlier
  <2> QED
    BY <2>1, <2>4, NoProcessIsNone
<1> HIDE DEF Free
<1> QED
  BY <1>1, <1>2, SchedulerInvariantHolds, PTL DEF Spec, Free

--------------------------------------------------------------------------------
(* The feedback and the blocks in the air name UEs of the scenario and     *)
(* processes; where they are depends on the phase.                         *)
Sent == [ue : scenario.ues, proc : Procs, fresh : BOOLEAN]
Answered == [ue : scenario.ues, proc : Procs, ack : BOOLEAN, fresh : BOOLEAN]

SlotsInAir == IF phase = "arrive" THEN FeedbackDelay ELSE FeedbackDelay - 1

QueuesOf(d) ==
  /\ air[d] \in Seq(Seq(Sent)) /\ Len(air[d]) = SlotsInAir
  /\ received[d] \in Seq(Answered) /\ harqInfoList[d] \in Seq(Answered)
  /\ untxed[d] \in Seq(Answered)
  /\ slot.sent[d] \in Seq(Sent)
  /\ phase # "trigger" => received[d] = <<>>
  /\ phase # HarqPhase(d) => untxed[d] = <<>>
  /\ phase \in {"arrive", "trigger"} => slot.sent[d] = <<>>

Queues ==
  /\ \A d \in Dirs : QueuesOf(d)
  /\ DOMAIN air = Dirs /\ DOMAIN received = Dirs /\ DOMAIN harqInfoList = Dirs
  /\ DOMAIN untxed = Dirs /\ DOMAIN slot.sent = Dirs

KnownUes == scenario \in Scenarios /\ attached \subseteq scenario.ues

(* What the slots format leaves of the reservations.                       *)
Reservations == resvDl \in Int /\ resvDl <= SymbPerSlot /\ resvSwitch \in 0..SymbPerSlot

--------------------------------------------------------------------------------
(* The uplink: one entry for a block, wherever it is, and of its present   *)
(* data; none for an idle process.                                         *)
Holds(s, u, p) == \E i \in DOMAIN s : IsAbout(s[i], u, p)

HoldsOnce(s, u, p) ==
  \A i, j \in DOMAIN s : IsAbout(s[i], u, p) /\ IsAbout(s[j], u, p) => i = j

IsFresh(s, u, p) == \A i \in DOMAIN s : IsAbout(s[i], u, p) => s[i].fresh

Single(s, u, p) == HoldsOnce(s, u, p) /\ IsFresh(s, u, p)

AirHolds(a, u, p) == \E k \in DOMAIN a : Holds(a[k], u, p)

AirSingle(a, u, p) ==
  /\ \A k \in DOMAIN a : Single(a[k], u, p)
  /\ \A k, l \in DOMAIN a : Holds(a[k], u, p) /\ Holds(a[l], u, p) => k = l

AllSingle(u, p) ==
  /\ AirSingle(air["ul"], u, p) /\ Single(received["ul"], u, p)
  /\ Single(harqInfoList["ul"], u, p) /\ Single(untxed["ul"], u, p)
  /\ Single(slot.sent["ul"], u, p)

AtMostOne(a, r, l, t, s) ==
  /\ ~(a /\ r) /\ ~(a /\ l) /\ ~(a /\ t) /\ ~(a /\ s) /\ ~(r /\ l) /\ ~(r /\ t) /\ ~(r /\ s)
  /\ ~(l /\ t) /\ ~(l /\ s) /\ ~(t /\ s)

OnePlace(u, p) ==
  AtMostOne(AirHolds(air["ul"], u, p), Holds(received["ul"], u, p),
            Holds(harqInfoList["ul"], u, p), Holds(untxed["ul"], u, p),
            Holds(slot.sent["ul"], u, p))

Nowhere(u, p) ==
  /\ ~AirHolds(air["ul"], u, p) /\ ~Holds(received["ul"], u, p)
  /\ ~Holds(harqInfoList["ul"], u, p) /\ ~Holds(untxed["ul"], u, p)
  /\ ~Holds(slot.sent["ul"], u, p)

OneEntry(u, p) ==
  /\ AllSingle(u, p) /\ OnePlace(u, p)
  /\ u \in attached /\ ~Busy(<<"ul", u, p>>) => Nowhere(u, p)

UplinkOnce == late \/ \A u \in Ues, p \in Procs : OneEntry(u, p)

--------------------------------------------------------------------------------
(* The symbols of the slot.                                                *)
Open == phase \notin {"arrive", "trigger"}
LayerEnd == LayerFirst(scenario.layer) + LayerSize(scenario.layer)
BetweenDirs == slot.first["dl"] + slot.avail["dl"]

TtiType == [dir : Dirs, ue : Ues, from : Nat, to : Int]

SlotTyped ==
  /\ slot.first \in [Dirs -> Nat] /\ slot.avail \in [Dirs -> Nat]
  /\ slot.retx \in [Dirs -> [Ues -> Nat]] /\ slot.asked \in [Dirs -> [Ues -> Nat]]
  /\ slot.given \in [Dirs -> [Ues -> Nat]]
  /\ slot.ttis \in Seq(TtiType)
  /\ \A b \in Blocks : dci[b].numSym \in 0..SymbPerSlot

PartsApart ==
  /\ LayerFirst(scenario.layer) <= slot.first["dl"]
  /\ BetweenDirs <= LayerEnd /\ BetweenDirs <= slot.first["ul"]
  /\ slot.avail["ul"] > 0 => slot.first["ul"] + slot.avail["ul"] <= LayerEnd

InItsPart(t) ==
  /\ LayerFirst(scenario.layer) <= t.from
  /\ t.from <= t.to => t.to < LayerEnd
  /\ t.to < slot.first[t.dir]
  /\ t.dir = "ul" => BetweenDirs <= t.from

TtisApart ==
  \A i, j \in DOMAIN slot.ttis :
    i # j => slot.ttis[i].to < slot.ttis[j].from \/ slot.ttis[j].to < slot.ttis[i].from

SymbolsApart ==
  Open => PartsApart /\ (\A i \in DOMAIN slot.ttis : InItsPart(slot.ttis[i])) /\ TtisApart

(* What is still to be given a block.                                      *)
Owed(d) == [u \in Ues |-> IF Pending(d, u) THEN slot.given[d][u] ELSE 0]

NothingGiven(d) == \A u \in Ues : slot.given[d][u] = 0

GrantsFit ==
  /\ \A d \in Dirs, u \in Ues : slot.given[d][u] <= slot.asked[d][u]
  /\ \A d \in Dirs : SumFunction(Owed(d)) <= slot.avail[d]
  /\ phase \in {"harq_dl", "harq_ul", "collect", "begin_dl"} => NothingGiven("dl")
  /\ phase \in {"harq_dl", "harq_ul", "collect", "begin_dl", "share_dl", "begin_ul"} =>
       NothingGiven("ul")

--------------------------------------------------------------------------------
(* The loops that divide the symbols.                                      *)
Unfinished(d) == {u \in Ues : slot.asked[d][u] > slot.given[d][u]}
Waiting(d) == {u \in Unfinished(d) : ~Before(u, slot.cur)}
ShareFits(d) == slot.loop.each * Cardinality(Waiting(d)) <= slot.loop.rem

LoopAgrees ==
  \A d \in Dirs : phase = SharePhase(d) =>
    /\ slot.loop.rem \in Nat /\ slot.loop.each \in Nat \ {0} /\ slot.loop.average \in Nat
    /\ slot.loop.flows \in Nat \ {0} /\ Cardinality(Unfinished(d)) <= slot.loop.flows
    /\ TotalGiven(d) + slot.loop.rem = AtMost(TotalAsked(d), slot.avail[d])
    /\ slot.loop.each = 1 \/ ShareFits(d)

Share(d) == AtMost(TotalAsked(d), slot.avail[d]) \div Flows(d)

FirstPass(d) ==
  /\ Share(d) <= slot.loop.each
  /\ Share(d) = 0 \/ ShareFits(d)
  /\ \A u \in Ues : IF Before(u, slot.cur) THEN HasFairShare(d, u)
                                           ELSE slot.given[d][u] = 0

(* Who asks for symbols takes its turn in the loops.                       *)
AskersAreActive ==
  \A d \in Dirs : \A u \in Ues \ slot.ueInfo : slot.asked[d][u] = 0

AllFair(d) == \A u \in Ues : HasFairShare(d, u)

SharesAreFair ==
  /\ phase = "begin_dl" => slot.cur = slot.start
  /\ phase = "begin_ul" /\ Flows("dl") = 0 => slot.cur = slot.start
  /\ phase = "share_dl" => Flows("dl") > 0 /\ (FirstPass("dl") \/ AllFair("dl"))
  /\ phase = "share_ul" => Flows("ul") > 0
  /\ phase = "share_ul" /\ Flows("dl") = 0 => FirstPass("ul") \/ AllFair("ul")
  /\ (phase \in {"begin_ul", "share_ul"} \/ Divided) /\ Flows("dl") > 0 => AllFair("dl")
  /\ Divided /\ Flows("dl") = 0 /\ Flows("ul") > 0 => AllFair("ul")

--------------------------------------------------------------------------------
(* The answers to a batch.                                                 *)
AnswerTo(batch, outcome, i) ==
  [ue |-> batch[i].ue, proc |-> batch[i].proc, ack |-> outcome[i] = "ack",
   fresh |-> batch[i].fresh]

HeardOf(d, batch, outcome, list, i) ==
  IF outcome[i] = "dropped" \/ batch[i].ue \notin attached THEN list
  ELSE list \o [copy \in 1..FeedbackCopies(d) |-> AnswerTo(batch, outcome, i)]

LEMMA AnswerIsAnswered ==
  ASSUME NEW batch \in Seq(Sent), NEW outcome, NEW i \in DOMAIN batch
  PROVE  AnswerTo(batch, outcome, i) \in Answered
<1>1. batch[i] \in Sent
  OBVIOUS
<1>2. batch[i].ue \in scenario.ues /\ batch[i].proc \in Procs /\ batch[i].fresh \in BOOLEAN
  BY <1>1 DEF Sent
<1>3. (outcome[i] = "ack") \in BOOLEAN
  OBVIOUS
<1> QED
  BY <1>2, <1>3 DEF AnswerTo, Answered

LEMMA HeardType ==
  ASSUME NEW d \in Dirs, NEW batch \in Seq(Sent), NEW outcome, NEW i \in DOMAIN batch,
         NEW list \in Seq(Answered)
  PROVE  HeardOf(d, batch, outcome, list, i) \in Seq(Answered)
<1>1. AnswerTo(batch, outcome, i) \in Answered
  BY AnswerIsAnswered
<1>2. FeedbackCopies(d) \in Nat
  BY DEF FeedbackCopies
<1>3. [copy \in 1..FeedbackCopies(d) |-> AnswerTo(batch, outcome, i)] \in Seq(Answered)
  BY <1>1, <1>2
<1> QED
  BY <1>3 DEF HeardOf

(* What has been heard of the first k blocks.                              *)
HeardInTurn(d, batch, outcome, r) ==
  /\ r[0] = <<>> /\ r[Len(batch)] = Answers(d, batch, outcome)
  /\ \A k \in 0..Len(batch) : r[k] \in Seq(Answered)
  /\ \A k \in 1..Len(batch) : r[k] = HeardOf(d, batch, outcome, r[k - 1], k)

(* Answers hears one block after another.                                  *)
LEMMA AnswersSteps ==
  ASSUME NEW d \in Dirs, NEW batch \in Seq(Sent), NEW outcome
  PROVE  \E r : HeardInTurn(d, batch, outcome, r)
<1> DEFINE n == Len(batch)
           V == Seq(Answered)
           Hear(list, i) == HeardOf(d, batch, outcome, list, i)
           Step(g) == [t \in SUBSET DOMAIN batch |->
                         IF t = {} THEN <<>> ELSE Hear(g[t \ {Max(t)}], Max(t))]
           I == CHOOSE g : g = Step(g)
           h == [p \in (1..n) \X V |-> Hear(p[2], p[1])]
<1>1. DOMAIN batch = 1..n /\ n \in Nat
  OBVIOUS
<1>2. \A k \in 1..n : \A v \in V : Hear(v, k) \in V
  BY <1>1, HeardType
<1>3. Answers(d, batch, outcome) = I[1..n]
  <2>1. DOMAIN [i \in DOMAIN batch |-> i] = DOMAIN batch
    OBVIOUS
  <2> DEFINE J == CHOOSE g : g = [t \in SUBSET DOMAIN batch |->
                    IF t = {} THEN <<>>
                    ELSE Hear(g[t \ {Max(t)}], [i \in DOMAIN batch |-> i][Max(t)])]
  <2>2. Answers(d, batch, outcome) = J[1..n]
    BY <1>1, <2>1
       DEF Answers, FoldLeftDomain, FoldLeft, MapThenFoldSet, HeardOf, AnswerTo
  <2>3. ASSUME NEW g, NEW t \in SUBSET DOMAIN batch
        PROVE  (IF t = {} THEN <<>>
                ELSE Hear(g[t \ {Max(t)}], [i \in DOMAIN batch |-> i][Max(t)]))
               = (IF t = {} THEN <<>> ELSE Hear(g[t \ {Max(t)}], Max(t)))
    <3>1. CASE t = {}
      BY <3>1
    <3>2. CASE t # {}
      <4>1. Max(t) \in DOMAIN batch
        BY <1>1, <3>2, MaxOfSub
      <4>2. [i \in DOMAIN batch |-> i][Max(t)] = Max(t)
        BY <4>1
      <4> HIDE DEF Hear
      <4> QED
        BY <4>2
    <3> QED
      BY <3>1, <3>2
  <2> HIDE DEF Hear
  <2>4. \A g : Step(g) = [t \in SUBSET DOMAIN batch |->
                    IF t = {} THEN <<>>
                    ELSE Hear(g[t \ {Max(t)}], [i \in DOMAIN batch |-> i][Max(t)])]
    BY <2>3
  <2>5. I = J
    BY <2>4
  <2> HIDE DEF I, J
  <2> QED
    BY <2>2, <2>5
<1>4. \A k \in 1..n : \A v \in V : h[<<k, v>>] = Hear(v, k) /\ h[<<k, v>>] \in V
  BY <1>2
<1>5. <<>> \in V
  OBVIOUS
<1> HIDE DEF h, Hear, V
<1>6. StepIn(1..n, V, h)
  BY <1>4 DEF StepIn
<1>7. \A t \in SUBSET (1..n) : t # {} => Max(t) \in 1..n
  BY <1>1, MaxOfSub
<1>8. \E g : g = Step(g)
  <2>1. PICK g : FoldLeftOf(n, V, <<>>, h, g)
    BY <1>1, <1>5, <1>6, FoldLeftExists
  <2>2. ASSUME NEW t \in SUBSET (1..n), t # {}
        PROVE  g[t] = Hear(g[t \ {Max(t)}], Max(t))
    <3>1. g[t \ {Max(t)}] \in V /\ g[t] = h[<<Max(t), g[t \ {Max(t)}]>>]
      BY <2>1, <2>2 DEF FoldLeftOf
    <3> QED
      BY <1>4, <1>7, <2>2, <3>1
  <2>3. g = Step(g)
    BY <1>1, <2>1, <2>2 DEF FoldLeftOf
  <2> QED
    BY <2>3
<1>9. I = Step(I)
  BY <1>8
<1> HIDE DEF I
<1>10. I[{}] = <<>>
  BY <1>9
<1>11. ASSUME NEW t \in SUBSET (1..n), t # {}, I[t \ {Max(t)}] \in V
       PROVE  I[t] = h[<<Max(t), I[t \ {Max(t)}]>>]
  <2>1. I[t] = Hear(I[t \ {Max(t)}], Max(t))
    BY <1>1, <1>9, <1>11
  <2> QED
    BY <1>4, <1>7, <1>11, <2>1
<1>12. Unfolds(n, V, <<>>, h, I)
  BY <1>10, <1>11 DEF Unfolds
<1>13. PICK r : Reaches(n, V, <<>>, h, I, r)
  BY <1>1, <1>5, <1>6, <1>12, FoldLeftSteps
<1>14. ASSUME NEW k \in 1..n PROVE r[k] = Hear(r[k - 1], k)
  <2>1. k - 1 \in 0..n
    BY <1>1
  <2> QED
    BY <1>4, <1>13, <2>1 DEF Reaches
<1>15. r[0] = <<>> /\ r[n] = I[1..n] /\ \A k \in 0..n : r[k] \in V
  BY <1>13 DEF Reaches
<1> QED
  BY <1>3, <1>14, <1>15 DEF Hear, V, HeardInTurn

(* Every answer is about a block of the batch; one copy of each does not   *)
(* answer a block twice.                                                   *)
LEMMA AnswersAreOfBatch ==
  ASSUME NEW d \in Dirs, NEW batch \in Seq(Sent), NEW outcome
  PROVE  /\ Answers(d, batch, outcome) \in Seq(Answered)
         /\ \A j \in DOMAIN Answers(d, batch, outcome) :
              \E i \in DOMAIN batch :
                /\ Answers(d, batch, outcome)[j].ue = batch[i].ue
                /\ Answers(d, batch, outcome)[j].proc = batch[i].proc
                /\ Answers(d, batch, outcome)[j].fresh = batch[i].fresh
         /\ d = "ul" => \A u, p : HoldsOnce(batch, u, p) =>
                                    HoldsOnce(Answers(d, batch, outcome), u, p)
<1> DEFINE n == Len(batch)
           Of(list, k) == \A j \in DOMAIN list : \E i \in 1..k :
                            /\ list[j].ue = batch[i].ue /\ list[j].proc = batch[i].proc
                            /\ list[j].fresh = batch[i].fresh
           Once(list) == d = "ul" => \A u, p : HoldsOnce(batch, u, p) => HoldsOnce(list, u, p)
<1>0. PICK r : HeardInTurn(d, batch, outcome, r)
  BY AnswersSteps
<1>1. /\ r[0] = <<>> /\ r[n] = Answers(d, batch, outcome)
      /\ \A k \in 0..n : r[k] \in Seq(Answered)
      /\ \A k \in 1..n : r[k] = HeardOf(d, batch, outcome, r[k - 1], k)
  BY <1>0 DEF HeardInTurn
<1>2. n \in Nat /\ DOMAIN batch = 1..n
  OBVIOUS
<1> DEFINE N == {k \in Nat : k <= n => Of(r[k], k) /\ Once(r[k])}
<1>3. 0 \in N
  BY <1>1 DEF HoldsOnce
<1>4. ASSUME NEW m \in Nat, m \in N PROVE m + 1 \in N
  <2> SUFFICES ASSUME m + 1 <= n PROVE Of(r[m + 1], m + 1) /\ Once(r[m + 1])
    OBVIOUS
  <2> DEFINE k == m + 1  list == r[m]  c == FeedbackCopies(d)
             a == AnswerTo(batch, outcome, k)
             copies == [copy \in 1..c |-> a]
  <2>1. m <= n /\ m \in 0..n /\ k \in 1..n /\ k - 1 = m
    BY <1>2
  <2>2. Of(list, m) /\ Once(list) /\ list \in Seq(Answered)
    BY <1>1, <1>4, <2>1
  <2>3. r[k] = HeardOf(d, batch, outcome, list, k)
    BY <1>1, <2>1
  <2>4. Of(list, k)
    BY <2>1, <2>2
  <2>5. CASE r[k] = list
    BY <2>2, <2>4, <2>5
  <2>6. CASE r[k] = list \o copies
    <3>1. c \in Nat /\ (d = "ul" => c = 1)
      BY DEF FeedbackCopies, Dirs
    <3>2. /\ a.ue = batch[k].ue /\ a.proc = batch[k].proc /\ a.fresh = batch[k].fresh
          /\ a \in Answered
      BY <1>2, <2>1, AnswerIsAnswered DEF AnswerTo
    <3> HIDE DEF a, c
    <3>3. copies \in Seq(Answered) /\ Len(copies) = c /\ \A j \in 1..c : copies[j] = a
      BY <3>1, <3>2
    <3> HIDE DEF copies
    <3> DEFINE new == list \o copies
    <3>4. /\ DOMAIN new = 1..(Len(list) + c) /\ DOMAIN list = 1..Len(list) /\ Len(list) \in Nat
          /\ \A j \in 1..(Len(list) + c) :
               new[j] = IF j <= Len(list) THEN list[j] ELSE a
      <4> HIDE DEF list
      <4>1. /\ Len(new) = Len(list) + c /\ DOMAIN new = 1..Len(new)
            /\ \A j \in 1..Len(new) :
                 new[j] = IF j <= Len(list) THEN list[j] ELSE copies[j - Len(list)]
        BY <2>2, <3>3, ConcatProperties
      <4>2. Len(list) \in Nat /\ DOMAIN list = 1..Len(list)
        BY <2>2
      <4>3. ASSUME NEW j \in 1..(Len(list) + c), ~(j <= Len(list))
            PROVE  copies[j - Len(list)] = a
        <5>1. j - Len(list) \in 1..c
          BY <3>1, <4>2, <4>3
        <5> QED
          BY <3>3, <5>1
      <4> HIDE DEF new
      <4> QED
        BY <4>1, <4>2, <4>3
    <3> HIDE DEF new, list
    <3>5. Of(new, k)
      <4> SUFFICES ASSUME NEW j \in DOMAIN new
                   PROVE  \E i \in 1..k : /\ new[j].ue = batch[i].ue
                                          /\ new[j].proc = batch[i].proc
                                          /\ new[j].fresh = batch[i].fresh
        OBVIOUS
      <4>1. CASE j <= Len(list)
        BY <2>4, <3>4, <4>1
      <4>2. CASE ~(j <= Len(list))
        BY <2>1, <3>2, <3>4, <4>2
      <4> QED
        BY <4>1, <4>2
    <3>6. Once(new)
      <4> SUFFICES ASSUME d = "ul", NEW u, NEW p, HoldsOnce(batch, u, p),
                          NEW i \in DOMAIN new, NEW j \in DOMAIN new,
                          IsAbout(new[i], u, p), IsAbout(new[j], u, p)
                   PROVE  i = j
        BY DEF HoldsOnce
      <4>1. \A x \in 1..Len(list) : IsAbout(list[x], u, p) => ~IsAbout(a, u, p)
        <5> SUFFICES ASSUME NEW x \in 1..Len(list), IsAbout(list[x], u, p), IsAbout(a, u, p)
                     PROVE  FALSE
          OBVIOUS
        <5>1. PICK y \in 1..m : list[x].ue = batch[y].ue /\ list[x].proc = batch[y].proc
          BY <2>2, <3>4
        <5>2. IsAbout(batch[y], u, p) /\ IsAbout(batch[k], u, p)
          BY <3>2, <5>1 DEF IsAbout
        <5>3. y \in DOMAIN batch /\ k \in DOMAIN batch /\ y # k
          BY <1>2, <2>1
        <5> QED
          BY <5>2, <5>3 DEF HoldsOnce
      <4>2. c = 1
        BY <3>1
      <4>3. CASE i <= Len(list) /\ j <= Len(list)
        BY <2>2, <3>4, <4>3 DEF HoldsOnce
      <4>4. CASE i <= Len(list) /\ ~(j <= Len(list))
        BY <3>4, <4>1, <4>4
      <4>5. CASE ~(i <= Len(list)) /\ j <= Len(list)
        BY <3>4, <4>1, <4>5
      <4>6. CASE ~(i <= Len(list)) /\ ~(j <= Len(list))
        BY <3>4, <4>2, <4>6
      <4> QED
        BY <4>3, <4>4, <4>5, <4>6
    <3> QED
      BY <2>6, <3>5, <3>6 DEF new
  <2>7. r[k] = list \/ r[k] = list \o copies
    BY <2>3 DEF HeardOf
  <2> HIDE DEF Of, Once, k, list, copies
  <2> QED
    BY <2>5, <2>6, <2>7 DEF k
<1>5. n \in N
  <2> HIDE DEF N
  <2> QED
    BY <1>2, <1>3, <1>4, SetInduction
<1>6. Of(r[n], n) /\ Once(r[n]) /\ r[n] \in Seq(Answered)
  <2>1. n <= n /\ n \in 0..n
    BY <1>2
  <2> HIDE DEF Of, Once, n
  <2> QED
    BY <1>1, <1>5, <2>1
<1>7. \A k : k \in 1..n <=> k \in DOMAIN batch
  BY <1>2
<1> HIDE DEF n
<1> QED
  BY <1>1, <1>6, <1>7

--------------------------------------------------------------------------------
(* What the steps between the feedback and the end of a slot do to it.     *)
SameBlocks ==
  /\ DOMAIN slot' = SlotFields
  /\ slot'.first = slot.first /\ slot'.avail = slot.avail /\ slot'.retx = slot.retx
  /\ slot'.ttis = slot.ttis /\ slot'.sent = slot.sent

SameDemand ==
  slot'.asked = slot.asked /\ slot'.ueInfo = slot.ueInfo /\ slot'.start = slot.start

LEMMA CollectEffect ==
  ASSUME SlotAgrees, Collect
  PROVE  /\ phase = "collect" /\ SameBlocks /\ slot'.given = slot.given
         /\ UNCHANGED <<scenario, formatVars, attached, harqVars, nextRnti, listVars, late,
                        failure>>
         /\ \/ phase' = "end" /\ slot' = slot
            \/ /\ phase' = "begin_dl" /\ slot'.cur = slot'.start
               /\ \A d \in Dirs, u \in Ues : slot'.asked[d][u] \in scenario.traffic[d]
               /\ DOMAIN slot'.asked = Dirs /\ \A d \in Dirs : DOMAIN slot'.asked[d] = Ues
               /\ slot'.ueInfo = slot.ueInfo \cup
                                   {u \in Ues : \E d \in Dirs : slot'.asked[d][u] > 0}
<1>1. PICK asked \in [Dirs -> [Ues -> UNION {scenario.traffic[d] : d \in Dirs}]] :
        /\ \A d \in Dirs, u \in Ues : asked[d][u] \in scenario.traffic[d]
        /\ LET ueInfo == slot.ueInfo \cup {u \in Ues : \E d \in Dirs : asked[d][u] > 0}
               start == IF nextRnti \in ueInfo THEN nextRnti ELSE Min(ueInfo)
           IN  IF ueInfo = {} THEN slot' = slot /\ phase' = "end"
               ELSE /\ slot' = [slot EXCEPT !.asked = asked, !.ueInfo = ueInfo,
                                            !.start = start, !.cur = start]
                    /\ phase' = "begin_dl"
  BY DEF Collect
<1>2. /\ phase = "collect"
      /\ UNCHANGED <<scenario, formatVars, attached, harqVars, nextRnti, listVars, late,
                     failure>>
  BY DEF Collect
<1> DEFINE ueInfo == slot.ueInfo \cup {u \in Ues : \E d \in Dirs : asked[d][u] > 0}
           start == IF nextRnti \in ueInfo THEN nextRnti ELSE Min(ueInfo)
<1>3. CASE slot' = slot /\ phase' = "end"
  BY <1>2, <1>3 DEF SameBlocks, SlotAgrees
<1>4. CASE /\ slot' = [slot EXCEPT !.asked = asked, !.ueInfo = ueInfo,
                                   !.start = start, !.cur = start]
           /\ phase' = "begin_dl"
  <2> HIDE DEF start, ueInfo
  <2>1. /\ DOMAIN slot' = SlotFields /\ slot'.asked = asked /\ slot'.ueInfo = ueInfo
        /\ slot'.cur = start /\ slot'.start = start /\ slot'.given = slot.given
        /\ slot'.first = slot.first /\ slot'.avail = slot.avail /\ slot'.retx = slot.retx
        /\ slot'.ttis = slot.ttis /\ slot'.sent = slot.sent
    BY <1>4 DEF SlotAgrees, SlotFields
  <2>2. ueInfo = slot.ueInfo \cup {u \in Ues : \E d \in Dirs : slot'.asked[d][u] > 0}
    BY <2>1 DEF ueInfo
  <2>3. DOMAIN slot'.asked = Dirs /\ \A d \in Dirs : DOMAIN slot'.asked[d] = Ues
    BY <2>1
  <2>4. \A d \in Dirs, u \in Ues : slot'.asked[d][u] \in scenario.traffic[d]
    BY <1>1, <2>1
  <2> QED
    BY <1>2, <1>4, <2>1, <2>2, <2>3, <2>4 DEF SameBlocks
<1> QED
  BY <1>1, <1>3, <1>4

LEMMA BeginEffect ==
  ASSUME SlotAgrees, NEW d \in Dirs, BeginSharing(d)
  PROVE  /\ phase = BeginPhase(d) /\ SameBlocks /\ SameDemand /\ slot'.given = slot.given
         /\ UNCHANGED <<scenario, formatVars, attached, harqVars, listVars, late, failure>>
         /\ \/ /\ Flows(d) = 0
               /\ phase' = IF d = "dl" THEN "begin_ul" ELSE "assign_dl"
               /\ slot'.cur = IF d = "dl" THEN slot.cur ELSE slot.start
               /\ nextRnti' = IF d = "dl" THEN nextRnti ELSE slot.cur
            \/ /\ Flows(d) # 0 /\ phase' = SharePhase(d)
               /\ slot'.cur = slot.cur
               /\ slot'.loop.rem = AtMost(TotalAsked(d), slot.avail[d])
               /\ slot'.loop.flows = Flows(d)
               /\ slot'.loop.average = AtLeast1(slot'.loop.rem \div Flows(d))
               /\ slot'.loop.each = AtLeast1(slot'.loop.rem \div Flows(d))
               /\ UNCHANGED nextRnti
<1>1. /\ phase = BeginPhase(d)
      /\ UNCHANGED <<scenario, formatVars, attached, harqVars, listVars, late, failure>>
  BY DEF BeginSharing
<1>2. CASE Flows(d) = 0
  <2>1. AfterSharing(d, slot)
    BY <1>2 DEF BeginSharing
  <2> HIDE DEF Flows
  <2>2. /\ phase' = IF d = "dl" THEN "begin_ul" ELSE "assign_dl"
        /\ nextRnti' = IF d = "dl" THEN nextRnti ELSE slot.cur
        /\ slot' = IF d = "dl" THEN [slot EXCEPT !.loop = NoLoop]
                               ELSE [slot EXCEPT !.loop = NoLoop, !.cur = slot.start]
    BY <2>1 DEF AfterSharing
  <2>3. /\ DOMAIN slot' = SlotFields
        /\ slot'.first = slot.first /\ slot'.avail = slot.avail /\ slot'.retx = slot.retx
        /\ slot'.ttis = slot.ttis /\ slot'.sent = slot.sent /\ slot'.asked = slot.asked
        /\ slot'.ueInfo = slot.ueInfo /\ slot'.start = slot.start /\ slot'.given = slot.given
        /\ slot'.cur = IF d = "dl" THEN slot.cur ELSE slot.start
    BY <2>2 DEF SlotAgrees, SlotFields
  <2> QED
    BY <1>1, <1>2, <2>2, <2>3 DEF SameBlocks, SameDemand
<1>3. CASE Flows(d) # 0
  <2> DEFINE rem == AtMost(TotalAsked(d), slot.avail[d])
             average == AtLeast1(rem \div Flows(d))
             loop == [rem |-> rem, flows |-> Flows(d), average |-> average, each |-> average,
                      allocated |-> FALSE]
  <2>1. slot' = [slot EXCEPT !.loop = loop] /\ phase' = SharePhase(d) /\ UNCHANGED nextRnti
    BY <1>3 DEF BeginSharing
  <2>2. loop.rem = rem /\ loop.flows = Flows(d) /\ loop.average = average /\ loop.each = average
    OBVIOUS
  <2> HIDE DEF loop
  <2>3. /\ DOMAIN slot' = SlotFields /\ slot'.loop = loop
        /\ slot'.first = slot.first /\ slot'.avail = slot.avail /\ slot'.retx = slot.retx
        /\ slot'.ttis = slot.ttis /\ slot'.sent = slot.sent /\ slot'.asked = slot.asked
        /\ slot'.ueInfo = slot.ueInfo /\ slot'.start = slot.start /\ slot'.given = slot.given
        /\ slot'.cur = slot.cur
    BY <2>1 DEF SlotAgrees, SlotFields
  <2>4. slot'.loop.rem = rem
    BY <2>2, <2>3
  <2> HIDE DEF rem
  <2>5. average = AtLeast1(slot'.loop.rem \div Flows(d))
    BY <2>4
  <2> HIDE DEF average
  <2> QED
    BY <1>1, <1>3, <2>1, <2>2, <2>3, <2>4, <2>5 DEF SameBlocks, SameDemand, rem
<1> QED
  BY <1>2, <1>3

(* The symbols that are left after the turn of the present UE, and what it *)
(* leaves of its share.                                                    *)
RestOf(d) == slot.loop.rem - AddSym(d, slot.cur)

ExtraOf(d) ==
  IF IsServed(d, slot.cur)
  THEN (slot.loop.each - AddSym(d, slot.cur)) \div FlowsLeft(d, slot.cur) ELSE 0

PassEnds == NextUe(slot.cur) = slot.start

LEMMA ShareEffect ==
  ASSUME SlotAgrees, NEW d \in Dirs, ShareSymbols(d)
  PROVE  /\ phase = SharePhase(d)
         /\ UNCHANGED <<scenario, formatVars, attached, harqVars, listVars, late>>
         /\ \/ /\ IsServed(d, slot.cur) /\ FlowsLeft(d, slot.cur) = 0
               /\ Fail("division by zero")
            \/ /\ ~(IsServed(d, slot.cur) /\ FlowsLeft(d, slot.cur) = 0)
               /\ UNCHANGED failure /\ SameBlocks /\ SameDemand
               /\ slot'.given = [slot.given EXCEPT
                                   ![d][slot.cur] = slot.given[d][slot.cur]
                                                      + AddSym(d, slot.cur)]
               /\ \/ /\ RestOf(d) = 0 \/ PassEnds
                     /\ phase' = IF d = "dl" THEN "begin_ul" ELSE "assign_dl"
                     /\ slot'.cur = IF d = "dl" THEN NextUe(slot.cur) ELSE slot.start
                     /\ nextRnti' = IF d = "dl" THEN nextRnti ELSE NextUe(slot.cur)
                  \/ /\ RestOf(d) # 0
                     /\ UNCHANGED <<phase, nextRnti>>
                     /\ slot'.cur = NextUe(slot.cur)
                     /\ slot'.loop.rem = RestOf(d)
                     /\ slot'.loop.flows = FlowsLeft(d, slot.cur)
                     /\ slot'.loop.average = slot.loop.average + ExtraOf(d)
                     /\ slot'.loop.each = IF PassEnds
                                          THEN AtLeast1(RestOf(d) \div FlowsLeft(d, slot.cur))
                                          ELSE slot.loop.each + ExtraOf(d)
<1> DEFINE u == slot.cur
           l == slot.loop
           flows == FlowsLeft(d, u)
           add == AddSym(d, u)
           extra == ExtraOf(d)
           next == NextUe(u)
           more == slot.given[d][u] + add
           loopOf(each, alloc) == [rem |-> RestOf(d), flows |-> flows, each |-> each,
                                   average |-> l.average + extra, allocated |-> alloc]
           turn(each, alloc) == [slot EXCEPT !.given[d][u] = more, !.cur = next,
                                             !.loop = loopOf(each, alloc)]
           allocated == l.allocated \/ CountsAsAllocated(d, u)
<1>1. /\ phase = SharePhase(d)
      /\ UNCHANGED <<scenario, formatVars, attached, harqVars, listVars, late>>
  BY DEF ShareSymbols, Fail
<1>2. \/ IsServed(d, u) /\ flows = 0 /\ Fail("division by zero")
      \/ /\ ~(IsServed(d, u) /\ flows = 0) /\ UNCHANGED failure
         /\ \/ /\ RestOf(d) = 0 \/ PassEnds
               /\ AfterSharing(d, turn(l.each + extra, allocated))
            \/ /\ RestOf(d) # 0 /\ UNCHANGED <<phase, nextRnti>>
               /\ slot' = IF PassEnds THEN turn(AtLeast1(RestOf(d) \div flows), FALSE)
                          ELSE turn(l.each + extra, allocated)
  BY DEF ShareSymbols, RestOf, ExtraOf, PassEnds
<1> HIDE DEF u, flows, add, extra, next, more, allocated
<1>3. \A each, alloc :
        /\ DOMAIN turn(each, alloc) = SlotFields
        /\ turn(each, alloc).first = slot.first /\ turn(each, alloc).avail = slot.avail
        /\ turn(each, alloc).retx = slot.retx /\ turn(each, alloc).ttis = slot.ttis
        /\ turn(each, alloc).sent = slot.sent /\ turn(each, alloc).asked = slot.asked
        /\ turn(each, alloc).ueInfo = slot.ueInfo /\ turn(each, alloc).start = slot.start
        /\ turn(each, alloc).given = [slot.given EXCEPT ![d][u] = more]
        /\ turn(each, alloc).cur = next
        /\ turn(each, alloc).loop = loopOf(each, alloc)
  BY DEF SlotAgrees, SlotFields
<1>4. \A each, alloc : /\ loopOf(each, alloc).rem = RestOf(d)
                       /\ loopOf(each, alloc).flows = flows
                       /\ loopOf(each, alloc).each = each
                       /\ loopOf(each, alloc).average = l.average + extra
  OBVIOUS
<1> HIDE DEF turn, loopOf
<1>5. ASSUME NEW each, NEW alloc, AfterSharing(d, turn(each, alloc))
      PROVE  /\ SameBlocks /\ SameDemand
             /\ slot'.given = [slot.given EXCEPT ![d][u] = more]
             /\ phase' = IF d = "dl" THEN "begin_ul" ELSE "assign_dl"
             /\ slot'.cur = IF d = "dl" THEN next ELSE slot.start
             /\ nextRnti' = IF d = "dl" THEN nextRnti ELSE next
  <2> DEFINE s == turn(each, alloc)
  <2>1. /\ phase' = IF d = "dl" THEN "begin_ul" ELSE "assign_dl"
        /\ nextRnti' = IF d = "dl" THEN nextRnti ELSE s.cur
        /\ slot' = IF d = "dl" THEN [s EXCEPT !.loop = NoLoop]
                               ELSE [s EXCEPT !.loop = NoLoop, !.cur = s.start]
    BY <1>5 DEF AfterSharing
  <2>2. /\ DOMAIN s = SlotFields
        /\ s.first = slot.first /\ s.avail = slot.avail /\ s.retx = slot.retx
        /\ s.ttis = slot.ttis /\ s.sent = slot.sent /\ s.asked = slot.asked
        /\ s.ueInfo = slot.ueInfo /\ s.start = slot.start
        /\ s.given = [slot.given EXCEPT ![d][u] = more] /\ s.cur = next
    BY <1>3
  <2> HIDE DEF s
  <2>3. /\ DOMAIN slot' = SlotFields
        /\ slot'.first = s.first /\ slot'.avail = s.avail /\ slot'.retx = s.retx
        /\ slot'.ttis = s.ttis /\ slot'.sent = s.sent /\ slot'.asked = s.asked
        /\ slot'.ueInfo = s.ueInfo /\ slot'.start = s.start /\ slot'.given = s.given
        /\ slot'.cur = IF d = "dl" THEN s.cur ELSE s.start
    BY <2>1, <2>2 DEF SlotFields
  <2> QED
    BY <2>1, <2>2, <2>3 DEF SameBlocks, SameDemand
<1>6. ASSUME NEW each, NEW alloc, slot' = turn(each, alloc)
      PROVE  /\ SameBlocks /\ SameDemand
             /\ slot'.given = [slot.given EXCEPT ![d][u] = more]
             /\ slot'.cur = next /\ slot'.loop.rem = RestOf(d) /\ slot'.loop.flows = flows
             /\ slot'.loop.each = each /\ slot'.loop.average = l.average + extra
  BY <1>3, <1>4, <1>6 DEF SameBlocks, SameDemand
<1>7. CASE IsServed(d, u) /\ flows = 0 /\ Fail("division by zero")
  BY <1>1, <1>7 DEF u, flows
<1>8. CASE /\ ~(IsServed(d, u) /\ flows = 0) /\ UNCHANGED failure
           /\ RestOf(d) = 0 \/ PassEnds
           /\ AfterSharing(d, turn(l.each + extra, allocated))
  BY <1>1, <1>5, <1>8 DEF u, flows, more, add, next
<1>9. CASE /\ ~(IsServed(d, u) /\ flows = 0) /\ UNCHANGED failure
           /\ RestOf(d) # 0 /\ UNCHANGED <<phase, nextRnti>>
           /\ slot' = IF PassEnds THEN turn(AtLeast1(RestOf(d) \div flows), FALSE)
                      ELSE turn(l.each + extra, allocated)
  <2>1. CASE PassEnds
    BY <1>1, <1>6, <1>9, <2>1 DEF u, flows, more, add, next, extra
  <2>2. CASE ~PassEnds
    BY <1>1, <1>6, <1>9, <2>2 DEF u, flows, more, add, next, extra
  <2> QED
    BY <2>1, <2>2
<1> QED
  BY <1>2, <1>7, <1>8, <1>9

(* A new block, and a turn without one.                                    *)
BlockOf(d) == <<d, slot.cur, FreeProcess(d, slot.cur)>>

TurnPasses(d) ==
  \/ /\ d = "dl" /\ phase' = "assign_ul" /\ slot'.cur = slot.cur
  \/ /\ d = "ul" /\ slot'.cur = NextUe(slot.cur)
     /\ phase' = IF PassEnds THEN "end" ELSE "assign_dl"

LEMMA AssignEffect ==
  ASSUME SlotAgrees, NEW d \in Dirs, Assign(d)
  PROVE  /\ phase = AssignPhase(d)
         /\ UNCHANGED <<scenario, formatVars, attached, nextRnti, untxed, received, late>>
         /\ \/ /\ slot.given[d][slot.cur] > 0
               /\ \/ /\ FreeProcess(d, slot.cur) = NoProcess
                     /\ Fail("assertion of a free process")
                  \/ /\ slot.first[d] + (IF d = "dl" THEN slot.given[d][slot.cur] ELSE 0)
                          > LastSymbol
                     /\ Fail("assertion of the last symbol")
            \/ /\ ~(slot.given[d][slot.cur] > 0) /\ UNCHANGED <<harqVars, listVars, failure>>
               /\ SameBlocks /\ SameDemand /\ slot'.given = slot.given /\ TurnPasses(d)
            \/ LET n == slot.given[d][slot.cur]
                   u == slot.cur
                   p == FreeProcess(d, slot.cur)
               IN  /\ n > 0 /\ p # NoProcess /\ UNCHANGED failure
                   /\ status' = [status EXCEPT ![BlockOf(d)] = 1]
                   /\ timer' = [timer EXCEPT ![BlockOf(d)] = 0]
                   /\ dci' = [dci EXCEPT ![BlockOf(d)] = [rv |-> 0, numSym |-> n]]
                   /\ pktBurst' = IF d = "dl" THEN pktBurst \cup {<<u, p>>} ELSE pktBurst
                   /\ air' = [air EXCEPT ![d] = [k \in DOMAIN air[d] |->
                                                   Outdated(air[d][k], u, p)]]
                   /\ harqInfoList' = [harqInfoList EXCEPT
                                         ![d] = Outdated(harqInfoList[d], u, p)]
                   /\ DOMAIN slot' = SlotFields
                   /\ slot'.first = [slot.first EXCEPT ![d] = slot.first[d] + n]
                   /\ slot'.avail = [slot.avail EXCEPT ![d] = slot.avail[d] - n]
                   /\ slot'.ttis = Append(slot.ttis, Tti(d, u, slot.first[d], n))
                   /\ slot'.sent = [slot.sent EXCEPT
                                      ![d] = Append(Outdated(slot.sent[d], u, p),
                                               [ue |-> u, proc |-> p, fresh |-> TRUE])]
                   /\ slot'.retx = slot.retx /\ SameDemand /\ slot'.given = slot.given
                   /\ TurnPasses(d)
<1> DEFINE n == slot.given[d][slot.cur]
           u == slot.cur
           p == FreeProcess(d, slot.cur)
           b == <<d, u, p>>
<1>1. /\ phase = AssignPhase(d)
      /\ UNCHANGED <<scenario, formatVars, attached, nextRnti, untxed, received, late>>
  BY DEF Assign, NewBlock, Fail, listVars
<1>2. ASSUME NEW s, NextAssignment(d, s), DOMAIN s = SlotFields, s.cur = slot.cur,
             s.start = slot.start, s.ueInfo = slot.ueInfo
      PROVE  /\ DOMAIN slot' = SlotFields
             /\ slot'.first = s.first /\ slot'.avail = s.avail /\ slot'.retx = s.retx
             /\ slot'.ttis = s.ttis /\ slot'.sent = s.sent /\ slot'.asked = s.asked
             /\ slot'.ueInfo = s.ueInfo /\ slot'.start = s.start /\ slot'.given = s.given
             /\ TurnPasses(d)
  <2>1. CASE d = "dl"
    BY <1>2, <2>1 DEF NextAssignment, TurnPasses
  <2>2. CASE d = "ul"
    <3>1. /\ slot' = [s EXCEPT !.cur = NextUe(s.cur)]
          /\ phase' = IF NextUe(s.cur) = s.start THEN "end" ELSE "assign_dl"
      BY <1>2, <2>2 DEF NextAssignment
    <3>2. /\ slot' = [s EXCEPT !.cur = NextUe(slot.cur)]
          /\ phase' = IF PassEnds THEN "end" ELSE "assign_dl"
      BY <1>2, <3>1 DEF PassEnds
    <3> QED
      BY <1>2, <2>2, <3>2 DEF TurnPasses, SlotFields
  <2> QED
    BY <2>1, <2>2 DEF Dirs
<1>3. CASE ~(n > 0)
  <2>1. NextAssignment(d, slot) /\ UNCHANGED <<harqVars, listVars, failure>>
    BY <1>3 DEF Assign
  <2>2. DOMAIN slot = SlotFields
    BY DEF SlotAgrees
  <2> QED
    BY <1>1, <1>2, <1>3, <2>1, <2>2 DEF SameBlocks, SameDemand
<1>4. CASE n > 0
  <2>1. NewBlock(d, u, n)
    BY <1>4 DEF Assign
  <2>2. CASE p = NoProcess
    BY <1>1, <1>4, <2>1, <2>2 DEF NewBlock
  <2>3. CASE p # NoProcess /\ slot.first[d] + (IF d = "dl" THEN n ELSE 0) > LastSymbol
    BY <1>1, <1>4, <2>1, <2>3 DEF NewBlock
  <2>4. CASE p # NoProcess /\ ~(slot.first[d] + (IF d = "dl" THEN n ELSE 0) > LastSymbol)
    <3> DEFINE entry == [ue |-> u, proc |-> p, fresh |-> TRUE]
               tti == Tti(d, u, slot.first[d], n)
               sent == Append(Outdated(slot.sent[d], u, p), entry)
               s == [slot EXCEPT !.first[d] = @ + n, !.avail[d] = @ - n,
                                 !.ttis = Append(@, tti), !.sent[d] = sent]
    <3>1. /\ status' = [status EXCEPT ![b] = 1]
          /\ timer' = [timer EXCEPT ![b] = 0]
          /\ dci' = [dci EXCEPT ![b] = [rv |-> 0, numSym |-> n]]
          /\ pktBurst' = IF d = "dl" THEN pktBurst \cup {<<u, p>>} ELSE pktBurst
          /\ air' = [air EXCEPT ![d] = [k \in DOMAIN air[d] |-> Outdated(air[d][k], u, p)]]
          /\ harqInfoList' = [harqInfoList EXCEPT ![d] = Outdated(harqInfoList[d], u, p)]
          /\ UNCHANGED failure
      BY <2>1, <2>4 DEF NewBlock
    <3>2. NextAssignment(d, s)
      BY <2>1, <2>4 DEF NewBlock
    <3> HIDE DEF n, p, entry, tti, sent
    <3>3. /\ DOMAIN s = SlotFields
          /\ s.first = [slot.first EXCEPT ![d] = slot.first[d] + n]
          /\ s.avail = [slot.avail EXCEPT ![d] = slot.avail[d] - n]
          /\ s.ttis = Append(slot.ttis, tti)
          /\ s.sent = [slot.sent EXCEPT ![d] = sent]
          /\ s.retx = slot.retx /\ s.asked = slot.asked /\ s.ueInfo = slot.ueInfo
          /\ s.start = slot.start /\ s.given = slot.given /\ s.cur = slot.cur
      BY DEF SlotAgrees, SlotFields
    <3> HIDE DEF s
    <3>4. /\ DOMAIN slot' = SlotFields
          /\ slot'.first = s.first /\ slot'.avail = s.avail /\ slot'.retx = s.retx
          /\ slot'.ttis = s.ttis /\ slot'.sent = s.sent /\ slot'.asked = s.asked
          /\ slot'.ueInfo = s.ueInfo /\ slot'.start = s.start /\ slot'.given = s.given
          /\ TurnPasses(d)
      BY <1>2, <3>2, <3>3
    <3> QED
      BY <1>1, <1>4, <2>4, <3>1, <3>3, <3>4
         DEF SameDemand, BlockOf, n, p, entry, tti, sent
  <2> QED
    BY <2>2, <2>3, <2>4
<1> QED
  BY <1>3, <1>4

--------------------------------------------------------------------------------
(* What the feedback does.                                                 *)
FirstAnswer(d) == Head(harqInfoList[d])
AnsweredBlock(d) == <<d, FirstAnswer(d).ue, FirstAnswer(d).proc>>

FeedbackTaken(d) == harqInfoList' = RestOfFeedback(d)

Retransmits(d) ==
  LET b == AnsweredBlock(d)  u == FirstAnswer(d).ue  p == FirstAnswer(d).proc
      n == dci[AnsweredBlock(d)].numSym
  IN  /\ u \in attached /\ status[b] > 0 /\ Fits(b)
      /\ ~(slot.first[d] + n > LastSymbol)
      /\ status' = [status EXCEPT ![b] = status[b] + 1]
      /\ dci' = [dci EXCEPT ![b].rv = dci[b].rv + 1]
      /\ FeedbackTaken(d)
      /\ UNCHANGED <<timer, pktBurst, untxed, failure>>
      /\ DOMAIN slot' = SlotFields
      /\ slot'.first = [slot.first EXCEPT ![d] = slot.first[d] + n]
      /\ slot'.avail = [slot.avail EXCEPT ![d] = slot.avail[d] - n]
      /\ slot'.retx = [slot.retx EXCEPT ![d][u] = n]
      /\ slot'.ueInfo = slot.ueInfo \cup {u}
      /\ slot'.ttis = Append(slot.ttis, Tti(d, u, slot.first[d], n))
      /\ \/ slot'.sent = [slot.sent EXCEPT ![d] = slot.sent[d]]
         \/ slot'.sent = [slot.sent EXCEPT
                            ![d] = Append(slot.sent[d], [ue |-> u, proc |-> p, fresh |-> TRUE])]
      /\ slot'.given = slot.given /\ slot'.asked = slot.asked
      /\ slot'.start = slot.start /\ slot'.cur = slot.cur /\ slot'.loop = slot.loop

\* The answer is done with, and its process may be given back.
Settled(d) ==
  /\ FeedbackTaken(d)
  /\ \/ UNCHANGED <<status, timer>>
     \/ /\ status' = [status EXCEPT ![AnsweredBlock(d)] = 0]
        /\ timer' = [timer EXCEPT ![AnsweredBlock(d)] = 0]
  /\ UNCHANGED <<dci, pktBurst, untxed, slot, failure>>

Deferred(d) ==
  /\ FeedbackTaken(d)
  /\ FirstAnswer(d).ue \in attached /\ status[AnsweredBlock(d)] > 0
  /\ untxed' = [untxed EXCEPT ![d] = Append(untxed[d], FirstAnswer(d))]
  /\ UNCHANGED <<harqVars, slot, failure>>

LEMMA FeedbackEffect ==
  ASSUME SlotAgrees, NEW d \in Dirs, HarqFeedback(d)
  PROVE  /\ phase = HarqPhase(d) /\ harqInfoList[d] # <<>> /\ slot.avail[d] > 0
         /\ UNCHANGED <<scenario, formatVars, attached, nextRnti, received, air, phase, late>>
         /\ \/ Fail("feedback of an unknown UE") /\ FirstAnswer(d).ue \notin attached
            \/ /\ Fail("assertion of the redundancy version")
               /\ status[AnsweredBlock(d)] > 0
               /\ status[AnsweredBlock(d)] - 1 # dci[AnsweredBlock(d)].rv
            \/ /\ Fail("assertion of the last symbol") /\ Fits(AnsweredBlock(d))
               /\ slot.first[d] + dci[AnsweredBlock(d)].numSym > LastSymbol
            \/ Settled(d)
            \/ Deferred(d)
            \/ Retransmits(d)
<1> DEFINE a == FirstAnswer(d)
           b == AnsweredBlock(d)
           n == dci[AnsweredBlock(d)].numSym
<1>1. /\ phase = HarqPhase(d) /\ harqInfoList[d] # <<>> /\ slot.avail[d] > 0
      /\ UNCHANGED <<scenario, formatVars, attached, nextRnti, received, air, phase, late>>
  BY DEF HarqFeedback, SymbolsLeft, PassOver, Fail, ReleaseProcess, Nack, Retransmit, Defer,
         listVars
<1>2. \/ a.ue \notin attached /\ PassOver(d)
      \/ a.ue \notin attached /\ Fail("feedback of an unknown UE")
      \/ ReleaseProcess(b)
      \/ a.ue \in attached /\ status[b] > 0 /\ Nack(b)
  BY DEF HarqFeedback, FirstAnswer, AnsweredBlock
<1>3. b[1] = d /\ b[2] = a.ue /\ b[3] = a.proc
  BY DEF AnsweredBlock
<1> HIDE DEF b, a
<1>4. CASE PassOver(d)
  BY <1>1, <1>4 DEF PassOver, Settled, FeedbackTaken, harqVars
<1>5. CASE a.ue \notin attached /\ Fail("feedback of an unknown UE")
  BY <1>1, <1>5 DEF a
<1>6. CASE ReleaseProcess(b)
  BY <1>1, <1>3, <1>6 DEF ReleaseProcess, Settled, FeedbackTaken, b
<1>7. CASE a.ue \in attached /\ status[b] > 0 /\ Nack(b)
  <2>1. \/ status[b] - 1 # dci[b].rv /\ Fail("assertion of the redundancy version")
        \/ ReleaseProcess(b)
        \/ /\ Fits(b) /\ slot.first[d] + dci[b].numSym > LastSymbol
           /\ Fail("assertion of the last symbol")
        \/ Fits(b) /\ ~(slot.first[d] + dci[b].numSym > LastSymbol) /\ Retransmit(b)
        \/ Defer(d)
    BY <1>3, <1>7 DEF Nack
  <2>2. CASE status[b] - 1 # dci[b].rv /\ Fail("assertion of the redundancy version")
    BY <1>1, <1>7, <2>2 DEF b
  <2>3. CASE /\ Fits(b) /\ slot.first[d] + dci[b].numSym > LastSymbol
             /\ Fail("assertion of the last symbol")
    BY <1>1, <2>3 DEF b
  <2>4. CASE Defer(d)
    BY <1>1, <1>7, <2>4 DEF Defer, Deferred, FeedbackTaken, FirstAnswer, a, b
  <2>5. CASE Fits(b) /\ ~(slot.first[d] + dci[b].numSym > LastSymbol) /\ Retransmit(b)
    <3> DEFINE entry == [ue |-> a.ue, proc |-> a.proc, fresh |-> TRUE]
               tti == Tti(d, a.ue, slot.first[d], dci[b].numSym)
               quiet == d = "dl" /\ <<a.ue, a.proc>> \notin pktBurst
    <3>1. /\ status' = [status EXCEPT ![b] = status[b] + 1]
          /\ dci' = [dci EXCEPT ![b].rv = dci[b].rv + 1]
          /\ FeedbackTaken(d)
          /\ UNCHANGED <<timer, pktBurst, untxed, failure>>
          /\ slot' = [slot EXCEPT
                    !.first[d] = @ + dci[b].numSym, !.avail[d] = @ - dci[b].numSym,
                    !.retx[d][a.ue] = dci[b].numSym,
                    !.ueInfo = @ \cup {a.ue}, !.ttis = Append(@, tti),
                    !.sent[d] = IF quiet THEN @ ELSE Append(@, entry)]
      BY <1>3, <2>5 DEF Retransmit, NextRv, FeedbackTaken
    <3> HIDE DEF entry, tti, quiet
    <3>2. /\ DOMAIN slot' = SlotFields
          /\ slot'.first = [slot.first EXCEPT ![d] = slot.first[d] + dci[b].numSym]
          /\ slot'.avail = [slot.avail EXCEPT ![d] = slot.avail[d] - dci[b].numSym]
          /\ slot'.retx = [slot.retx EXCEPT ![d][a.ue] = dci[b].numSym]
          /\ slot'.ueInfo = slot.ueInfo \cup {a.ue}
          /\ slot'.ttis = Append(slot.ttis, tti)
          /\ slot'.sent = [slot.sent EXCEPT
                             ![d] = IF quiet THEN slot.sent[d] ELSE Append(slot.sent[d], entry)]
          /\ slot'.given = slot.given /\ slot'.asked = slot.asked
          /\ slot'.start = slot.start /\ slot'.cur = slot.cur /\ slot'.loop = slot.loop
      BY <3>1 DEF SlotAgrees, SlotFields
    <3>3. \/ slot'.sent = [slot.sent EXCEPT ![d] = slot.sent[d]]
          \/ slot'.sent = [slot.sent EXCEPT ![d] = Append(slot.sent[d], entry)]
      BY <3>2
    <3> QED
      BY <1>1, <1>7, <2>5, <3>1, <3>2, <3>3 DEF Retransmits, entry, tti, a, b
  <2> QED
    BY <1>6, <2>1, <2>2, <2>3, <2>4, <2>5
<1> QED
  BY <1>2, <1>4, <1>5, <1>6, <1>7

--------------------------------------------------------------------------------
(* The queues.                                                             *)
LEMMA TypesStand ==
  ASSUME scenario' = scenario
  PROVE  Sent' = Sent /\ Answered' = Answered
BY DEF Sent, Answered

LEMMA OutdatedType ==
  ASSUME NEW S, S \in {Sent, Answered}, NEW s \in Seq(S), NEW u, NEW p
  PROVE  /\ Outdated(s, u, p) \in Seq(S) /\ Len(Outdated(s, u, p)) = Len(s)
         /\ DOMAIN Outdated(s, u, p) = DOMAIN s
         /\ \A i \in DOMAIN s :
              /\ Outdated(s, u, p)[i].ue = s[i].ue /\ Outdated(s, u, p)[i].proc = s[i].proc
              /\ ~IsAbout(s[i], u, p) => Outdated(s, u, p)[i] = s[i]
<1> DEFINE o == Outdated(s, u, p)
<1>1. DOMAIN s = 1..Len(s) /\ Len(s) \in Nat
  OBVIOUS
<1>2. o = [i \in 1..Len(s) |-> IF IsAbout(s[i], u, p) THEN [s[i] EXCEPT !.fresh = FALSE]
                                                     ELSE s[i]]
  BY <1>1 DEF Outdated
<1>3. \A i \in 1..Len(s) : s[i] \in S /\ [s[i] EXCEPT !.fresh = FALSE] \in S
  <2>1. \A x \in Sent : [x EXCEPT !.fresh = FALSE] \in Sent
    BY DEF Sent
  <2>2. \A x \in Answered : [x EXCEPT !.fresh = FALSE] \in Answered
    BY DEF Answered
  <2> QED
    BY <2>1, <2>2
<1>4. \A i \in 1..Len(s) : o[i] \in S
  BY <1>2, <1>3
<1>5. \A i \in 1..Len(s) : o[i].ue = s[i].ue /\ o[i].proc = s[i].proc
  BY <1>2, <1>3 DEF Sent, Answered
<1>6. \A i \in 1..Len(s) : ~IsAbout(s[i], u, p) => o[i] = s[i]
  BY <1>2
<1>7. DOMAIN o = 1..Len(s)
  BY <1>2
<1>8. o \in Seq(S) /\ Len(o) = Len(s)
  <2>1. o \in [1..Len(s) -> S]
    <3>1. o = [i \in 1..Len(s) |-> o[i]]
      BY <1>2
    <3> HIDE DEF o
    <3> QED
      BY <1>4, <3>1
  <2> HIDE DEF o
  <2> QED
    BY <1>1, <2>1
<1> QED
  BY <1>1, <1>5, <1>6, <1>7, <1>8

(* Steps past the feedback that leave the lists and the air alone.         *)
LEMMA QueuesStand ==
  ASSUME Queues, UNCHANGED <<scenario, listVars>>, slot'.sent = slot.sent,
         phase \notin {"arrive", "trigger", "harq_dl", "harq_ul"},
         phase' \notin {"arrive", "trigger", "harq_dl", "harq_ul"}
  PROVE  Queues'
<1>1. Sent' = Sent /\ Answered' = Answered
  BY TypesStand
<1>2. SlotsInAir' = SlotsInAir
  BY DEF SlotsInAir
<1>3. \A d \in Dirs : phase # HarqPhase(d) /\ phase' # HarqPhase(d)
  BY DEF HarqPhase
<1>4. ASSUME NEW d \in Dirs PROVE QueuesOf(d)'
  BY <1>1, <1>2, <1>3 DEF Queues, QueuesOf, listVars
<1> QED
  BY <1>4 DEF Queues, listVars

LEMMA InitQueues == Init => Queues
<1> SUFFICES ASSUME Init PROVE Queues
  OBVIOUS
<1>1. slot.sent = [d \in Dirs |-> <<>>]
  BY DEF Init, EmptySlot
<1>2. ASSUME NEW d \in Dirs PROVE QueuesOf(d)
  <2>1. air[d] = [i \in 1..FeedbackDelay |-> <<>>] /\ phase = "arrive"
    BY DEF Init
  <2>2. FeedbackDelay \in Nat /\ <<>> \in Seq(Sent)
    BY SchedulerAssumption
  <2>3. air[d] \in Seq(Seq(Sent)) /\ Len(air[d]) = FeedbackDelay
    BY <2>1, <2>2
  <2>4. /\ received[d] = <<>> /\ harqInfoList[d] = <<>> /\ untxed[d] = <<>>
        /\ slot.sent[d] = <<>>
    BY <1>1 DEF Init
  <2>5. /\ received[d] \in Seq(Answered) /\ harqInfoList[d] \in Seq(Answered)
        /\ untxed[d] \in Seq(Answered) /\ slot.sent[d] \in Seq(Sent)
    BY <2>4
  <2> QED
    BY <2>1, <2>3, <2>4, <2>5 DEF QueuesOf, SlotsInAir
<1> QED
  BY <1>1, <1>2 DEF Init, Queues

LEMMA ArriveQueues ==
  ASSUME Queues, Arrive
  PROVE  Queues'
<1>1. PICK dl, ul :
        LET answers == [d \in Dirs |-> Answers(d, air[d][1], IF d = "dl" THEN dl ELSE ul)]
        IN  received' = [d \in Dirs |-> received[d] \o answers[d]]
  BY DEF Arrive
<1>2. /\ phase = "arrive" /\ phase' = "trigger"
      /\ air' = [d \in Dirs |-> Tail(air[d])]
      /\ UNCHANGED <<scenario, harqInfoList, untxed, slot>>
  BY DEF Arrive
<1>3. Sent' = Sent /\ Answered' = Answered
  BY <1>2, TypesStand
<1>4. ASSUME NEW d \in Dirs PROVE QueuesOf(d)'
  <2>1. QueuesOf(d)
    BY DEF Queues
  <2>2. air[d] \in Seq(Seq(Sent)) /\ Len(air[d]) = FeedbackDelay /\ FeedbackDelay \in Nat \ {0}
    BY <1>2, <2>1, SchedulerAssumption DEF QueuesOf, SlotsInAir
  <2>3. air[d] # <<>> /\ air[d][1] \in Seq(Sent)
    BY <2>2
  <2>4. Tail(air[d]) \in Seq(Seq(Sent)) /\ Len(Tail(air[d])) = FeedbackDelay - 1
    BY <2>2, <2>3
  <2>5. \A outcome : Answers(d, air[d][1], outcome) \in Seq(Answered)
    BY <2>3, AnswersAreOfBatch
  <2>6. received'[d] \in Seq(Answered)
    <3>1. PICK answers \in Seq(Answered) : received'[d] = received[d] \o answers
      BY <1>1, <2>5
    <3> QED
      BY <2>1, <3>1 DEF QueuesOf
  <2> QED
    BY <1>2, <1>3, <2>1, <2>4, <2>6 DEF QueuesOf, SlotsInAir, HarqPhase
<1> QED
  BY <1>1, <1>2, <1>4 DEF Queues

LEMMA SchedTriggerReqQueues ==
  ASSUME Queues, SchedTriggerReq
  PROVE  Queues'
<1>1. /\ phase = "trigger" /\ phase' = "harq_dl"
      /\ harqInfoList' = [d \in Dirs |-> harqInfoList[d] \o received[d]]
      /\ received' = [d \in Dirs |-> <<>>]
      /\ UNCHANGED <<scenario, untxed, air>>
  BY DEF SchedTriggerReq
<1>2. slot'.sent = [d \in Dirs |-> <<>>]
  BY DEF SchedTriggerReq, EmptySlot
<1>3. Sent' = Sent /\ Answered' = Answered
  BY <1>1, TypesStand
<1>4. ASSUME NEW d \in Dirs PROVE QueuesOf(d)'
  <2>1. QueuesOf(d)
    BY DEF Queues
  <2>2. harqInfoList'[d] \in Seq(Answered)
    BY <1>1, <2>1 DEF QueuesOf
  <2>3. untxed[d] = <<>>
    BY <1>1, <2>1 DEF QueuesOf, HarqPhase
  <2>4. SlotsInAir' = SlotsInAir
    BY <1>1 DEF SlotsInAir
  <2> QED
    BY <1>1, <1>2, <1>3, <2>1, <2>2, <2>3, <2>4 DEF QueuesOf
<1> QED
  BY <1>1, <1>2, <1>4 DEF Queues

LEMMA HarqFeedbackQueues ==
  ASSUME SlotAgrees, Queues, NEW d \in Dirs, HarqFeedback(d)
  PROVE  Queues'
<1>1. /\ phase = HarqPhase(d) /\ phase' = phase /\ harqInfoList[d] # <<>>
      /\ UNCHANGED <<scenario, received, air>>
  BY FeedbackEffect
<1>2. Sent' = Sent /\ Answered' = Answered
  BY <1>1, TypesStand
<1>3. SlotsInAir' = SlotsInAir
  BY <1>1 DEF SlotsInAir
<1>4. phase \notin {"arrive", "trigger"} /\ \A e \in Dirs : e # d => phase # HarqPhase(e)
  BY <1>1 DEF HarqPhase, Dirs
<1>5. FirstAnswer(d) \in Answered
  BY <1>1 DEF Queues, QueuesOf, FirstAnswer
<1>6. ASSUME FeedbackTaken(d)
      PROVE  /\ DOMAIN harqInfoList' = Dirs
             /\ \A e \in Dirs : harqInfoList'[e] \in Seq(Answered)
  <2>1. harqInfoList' = [harqInfoList EXCEPT ![d] = Tail(harqInfoList[d])]
    BY <1>6 DEF FeedbackTaken, RestOfFeedback
  <2>2. \A e \in Dirs : harqInfoList[e] \in Seq(Answered)
    BY DEF Queues, QueuesOf
  <2>3. Tail(harqInfoList[d]) \in Seq(Answered)
    BY <1>1, <2>2
  <2> QED
    BY <2>1, <2>2, <2>3 DEF Queues
<1>7. ASSUME slot'.sent = slot.sent, UNCHANGED <<harqInfoList, untxed>> PROVE Queues'
  BY <1>1, <1>2, <1>3, <1>7 DEF Queues, QueuesOf
<1>8. CASE \E what : Fail(what)
  BY <1>7, <1>8 DEF Fail, listVars
<1>9. CASE Settled(d)
  <2>1. slot'.sent = slot.sent /\ untxed' = untxed
    BY <1>9 DEF Settled
  <2>2. FeedbackTaken(d)
    BY <1>9 DEF Settled
  <2> QED
    BY <1>1, <1>2, <1>3, <1>4, <1>6, <2>1, <2>2 DEF Queues, QueuesOf
<1>10. CASE Deferred(d)
  <2>1. slot'.sent = slot.sent
        /\ untxed' = [untxed EXCEPT ![d] = Append(untxed[d], FirstAnswer(d))]
    BY <1>10 DEF Deferred
  <2>2. FeedbackTaken(d)
    BY <1>10 DEF Deferred
  <2>3. /\ DOMAIN untxed' = Dirs
        /\ \A e \in Dirs : /\ untxed'[e] \in Seq(Answered)
                           /\ e # d => untxed'[e] = untxed[e]
    BY <1>5, <2>1 DEF Queues, QueuesOf
  <2>4. ASSUME NEW e \in Dirs PROVE QueuesOf(e)'
    <3>1. QueuesOf(e)
      BY DEF Queues
    <3>2. harqInfoList'[e] \in Seq(Answered) /\ untxed'[e] \in Seq(Answered)
      BY <1>6, <2>2, <2>3
    <3>3. phase # HarqPhase(e) => untxed'[e] = <<>>
      BY <1>1, <2>3, <3>1 DEF QueuesOf
    <3>4. HarqPhase(e)' = HarqPhase(e)
      BY DEF HarqPhase
    <3> QED
      BY <1>1, <1>2, <1>3, <1>4, <2>1, <3>1, <3>2, <3>3, <3>4 DEF QueuesOf
  <2> QED
    BY <1>1, <1>6, <2>1, <2>2, <2>3, <2>4 DEF Queues
<1>11. CASE Retransmits(d)
  <2>1. FeedbackTaken(d) /\ untxed' = untxed
    BY <1>11 DEF Retransmits
  <2> DEFINE entry == [ue |-> FirstAnswer(d).ue, proc |-> FirstAnswer(d).proc, fresh |-> TRUE]
  <2>2. entry \in Sent
    BY <1>5 DEF Sent, Answered
  <2>3. \/ slot'.sent = [slot.sent EXCEPT ![d] = slot.sent[d]]
        \/ slot'.sent = [slot.sent EXCEPT ![d] = Append(slot.sent[d], entry)]
    BY <1>11 DEF Retransmits
  <2> HIDE DEF entry
  <2>4. DOMAIN slot'.sent = Dirs /\ \A e \in Dirs : slot'.sent[e] \in Seq(Sent)
    <3>1. \A e \in Dirs : slot.sent[e] \in Seq(Sent)
      BY DEF Queues, QueuesOf
    <3>2. Append(slot.sent[d], entry) \in Seq(Sent)
      BY <2>2, <3>1
    <3> QED
      BY <2>3, <3>1, <3>2 DEF Queues
  <2> QED
    BY <1>1, <1>2, <1>3, <1>4, <1>6, <2>1, <2>4 DEF Queues, QueuesOf
<1> QED
  BY <1>8, <1>9, <1>10, <1>11, FeedbackEffect

LEMMA EndFeedbackQueues ==
  ASSUME Queues, NEW d \in Dirs, EndFeedback(d)
  PROVE  Queues'
<1>1. /\ phase = HarqPhase(d) /\ phase' = (IF d = "dl" THEN "harq_ul" ELSE "collect")
      /\ harqInfoList' = [harqInfoList EXCEPT ![d] = untxed[d]]
      /\ untxed' = [untxed EXCEPT ![d] = <<>>]
      /\ UNCHANGED <<scenario, received, air, slot>>
  BY DEF EndFeedback
<1>2. Sent' = Sent /\ Answered' = Answered
  BY <1>1, TypesStand
<1>3. SlotsInAir' = SlotsInAir
  BY <1>1 DEF SlotsInAir, HarqPhase
<1>4. ASSUME NEW e \in Dirs PROVE QueuesOf(e)'
  <2>1. QueuesOf(e) /\ QueuesOf(d)
    BY DEF Queues
  <2>2. untxed'[e] = <<>>
    BY <1>1, <2>1 DEF Queues, QueuesOf, HarqPhase, Dirs
  <2>3. harqInfoList'[e] \in Seq(Answered)
    BY <1>1, <2>1 DEF Queues, QueuesOf
  <2>4. phase \notin {"arrive", "trigger"} /\ phase' \notin {"arrive", "trigger"}
    BY <1>1 DEF HarqPhase
  <2> QED
    BY <1>1, <1>2, <1>3, <2>1, <2>2, <2>3, <2>4 DEF QueuesOf
<1> QED
  BY <1>1, <1>4 DEF Queues

LEMMA AssignQueues ==
  ASSUME SlotAgrees, KnownUes, Queues, NEW d \in Dirs, Assign(d)
  PROVE  Queues'
<1>1. /\ phase = AssignPhase(d) /\ UNCHANGED <<scenario, untxed, received>>
  BY AssignEffect
<1>2. phase \notin {"arrive", "trigger", "harq_dl", "harq_ul"}
  BY <1>1 DEF AssignPhase
<1>3. ASSUME TurnPasses(d) PROVE phase' \notin {"arrive", "trigger", "harq_dl", "harq_ul"}
  BY <1>3 DEF TurnPasses
<1>4. CASE \E what : Fail(what)
  BY <1>2, <1>4, QueuesStand DEF Fail
<1>5. CASE SameBlocks /\ TurnPasses(d) /\ UNCHANGED listVars
  BY <1>1, <1>2, <1>3, <1>5, QueuesStand DEF SameBlocks
<1>6. CASE LET u == slot.cur  p == FreeProcess(d, slot.cur)
           IN  /\ slot.given[d][slot.cur] > 0 /\ p # NoProcess
               /\ air' = [air EXCEPT ![d] = [k \in DOMAIN air[d] |-> Outdated(air[d][k], u, p)]]
               /\ harqInfoList' = [harqInfoList EXCEPT ![d] = Outdated(harqInfoList[d], u, p)]
               /\ slot'.sent = [slot.sent EXCEPT
                                  ![d] = Append(Outdated(slot.sent[d], u, p),
                                           [ue |-> u, proc |-> p, fresh |-> TRUE])]
               /\ TurnPasses(d)
  <2> DEFINE u == slot.cur  p == FreeProcess(d, slot.cur)
             entry == [ue |-> u, proc |-> p, fresh |-> TRUE]
             outdated == [k \in DOMAIN air[d] |-> Outdated(air[d][k], u, p)]
  <2>1. u \in Ues
    BY <1>1 DEF SlotAgrees, AssignPhase, Sharing
  <2>2. u \in scenario.ues
    BY <1>6, <2>1 DEF SlotAgrees, KnownUes
  <2>3. p \in Procs
    BY <1>6, FreeIsFree
  <2>4. entry \in Sent
    BY <2>2, <2>3 DEF Sent
  <2>5. QueuesOf(d)
    BY DEF Queues
  <2> HIDE DEF u, p, entry
  <2>6. outdated \in Seq(Seq(Sent)) /\ Len(outdated) = Len(air[d])
    <3>1. /\ DOMAIN air[d] = 1..Len(air[d]) /\ Len(air[d]) \in Nat
          /\ \A k \in DOMAIN air[d] : air[d][k] \in Seq(Sent)
      BY <2>5 DEF QueuesOf
    <3>2. \A k \in 1..Len(air[d]) : Outdated(air[d][k], u, p) \in Seq(Sent)
      BY <3>1, OutdatedType
    <3> QED
      BY <3>1, <3>2
  <2>7. Outdated(harqInfoList[d], u, p) \in Seq(Answered)
    BY <2>5, OutdatedType DEF QueuesOf
  <2>8. Append(Outdated(slot.sent[d], u, p), entry) \in Seq(Sent)
    <3>1. Outdated(slot.sent[d], u, p) \in Seq(Sent)
      BY <2>5, OutdatedType DEF QueuesOf
    <3> QED
      BY <2>4, <3>1
  <2>9. /\ air' = [air EXCEPT ![d] = outdated]
        /\ harqInfoList' = [harqInfoList EXCEPT ![d] = Outdated(harqInfoList[d], u, p)]
        /\ slot'.sent = [slot.sent EXCEPT ![d] = Append(Outdated(slot.sent[d], u, p), entry)]
    BY <1>6 DEF u, p, entry
  <2> HIDE DEF outdated
  <2>10. Sent' = Sent /\ Answered' = Answered /\ SlotsInAir' = SlotsInAir
    <3>1. SlotsInAir' = SlotsInAir
      BY <1>2, <1>3, <1>6 DEF SlotsInAir
    <3> QED
      BY <1>1, <3>1, TypesStand
  <2>11. DOMAIN air' = Dirs /\ DOMAIN harqInfoList' = Dirs /\ DOMAIN slot'.sent = Dirs
    BY <2>9 DEF Queues
  <2>12. ASSUME NEW e \in Dirs PROVE QueuesOf(e)'
    <3>1. QueuesOf(e)
      BY DEF Queues
    <3>2. /\ air'[e] = IF e = d THEN outdated ELSE air[e]
          /\ harqInfoList'[e] = IF e = d THEN Outdated(harqInfoList[d], u, p)
                                         ELSE harqInfoList[e]
          /\ slot'.sent[e] = IF e = d THEN Append(Outdated(slot.sent[d], u, p), entry)
                                      ELSE slot.sent[e]
      BY <2>9 DEF Queues
    <3>3. air'[e] \in Seq(Seq(Sent)) /\ Len(air'[e]) = SlotsInAir
      BY <2>5, <2>6, <3>1, <3>2 DEF QueuesOf
    <3>4. harqInfoList'[e] \in Seq(Answered) /\ slot'.sent[e] \in Seq(Sent)
      BY <2>7, <2>8, <3>1, <3>2 DEF QueuesOf
    <3>5. /\ received'[e] = <<>> /\ untxed'[e] = <<>>
          /\ phase' \notin {"arrive", "trigger", "harq_dl", "harq_ul"}
      BY <1>1, <1>2, <1>3, <1>6, <3>1 DEF QueuesOf, HarqPhase
    <3> QED
      BY <2>10, <3>3, <3>4, <3>5 DEF QueuesOf
  <2> QED
    BY <1>1, <2>11, <2>12 DEF Queues
<1> QED
  BY <1>4, <1>5, <1>6, AssignEffect

LEMMA SchedConfigIndQueues ==
  ASSUME Queues, SchedConfigInd
  PROVE  Queues'
<1>1. /\ phase = "end" /\ phase' = "arrive"
      /\ air' = [d \in Dirs |-> Append(air[d], slot.sent[d])]
      /\ slot' = EmptySlot
      /\ UNCHANGED <<scenario, harqInfoList, untxed, received>>
  BY DEF SchedConfigInd
<1>2. slot'.sent = [d \in Dirs |-> <<>>]
  BY <1>1 DEF EmptySlot
<1>3. Sent' = Sent /\ Answered' = Answered
  BY <1>1, TypesStand
<1>4. ASSUME NEW d \in Dirs PROVE QueuesOf(d)'
  <2>1. QueuesOf(d)
    BY DEF Queues
  <2>2. /\ air[d] \in Seq(Seq(Sent)) /\ slot.sent[d] \in Seq(Sent)
        /\ Len(air[d]) = FeedbackDelay - 1 /\ FeedbackDelay \in Nat
    BY <1>1, <2>1, SchedulerAssumption DEF QueuesOf, SlotsInAir
  <2>3. air'[d] \in Seq(Seq(Sent)) /\ Len(air'[d]) = FeedbackDelay
    BY <1>1, <2>2
  <2> QED
    BY <1>1, <1>2, <1>3, <2>1, <2>3 DEF QueuesOf, SlotsInAir, HarqPhase
<1> QED
  BY <1>1, <1>2, <1>4 DEF Queues

(* What a step does to the settings of the run: nothing but take a UE.     *)
LEMMA KnownStand ==
  ASSUME KnownUes, [Next]_vars
  PROVE  KnownUes' /\ scenario' = scenario /\ attached' \subseteq attached
<1>1. scenario' = scenario /\ attached' \subseteq attached
  <2>1. CASE UNCHANGED vars
    BY <2>1 DEF vars
  <2>2. CASE Next
    <3>1. ASSUME NEW d \in Dirs, HarqFeedback(d) PROVE UNCHANGED <<scenario, attached>>
      BY <3>1 DEF HarqFeedback, PassOver, ReleaseProcess, Nack, Retransmit, Defer, Fail
    <3>2. ASSUME NEW d \in Dirs, BeginSharing(d) \/ ShareSymbols(d) \/ Assign(d)
          PROVE  UNCHANGED <<scenario, attached>>
      BY <3>2 DEF BeginSharing, ShareSymbols, Assign, NewBlock, Fail
    <3>3. ASSUME NEW d \in Dirs, EndFeedback(d) PROVE UNCHANGED <<scenario, attached>>
      BY <3>3 DEF EndFeedback
    <3>4. ASSUME Arrive \/ SchedTriggerReq \/ Collect \/ SchedConfigInd
          PROVE  UNCHANGED <<scenario, attached>>
      BY <3>4 DEF Arrive, SchedTriggerReq, Collect, SchedConfigInd
    <3>5. ASSUME NEW u \in Ues, RemoveUe(u)
          PROVE  scenario' = scenario /\ attached' \subseteq attached
      BY <3>5 DEF RemoveUe
    <3> QED
      BY <2>2, <3>1, <3>2, <3>3, <3>4, <3>5 DEF Next
  <2> QED
    BY <2>1, <2>2
<1> QED
  BY <1>1 DEF KnownUes

LEMMA InitKnown == Init => KnownUes
BY DEF Init, KnownUes

LEMMA NextQueues == SchedulerInv /\ KnownUes /\ Queues /\ [Next]_vars => Queues'
<1> SUFFICES ASSUME SchedulerInv, KnownUes, Queues, [Next]_vars PROVE Queues'
  OBVIOUS
<1>1. SlotAgrees
  BY DEF SchedulerInv
<1>2. CASE UNCHANGED <<scenario, listVars, slot, phase>>
  <2>1. Sent' = Sent /\ Answered' = Answered /\ SlotsInAir' = SlotsInAir
    BY <1>2, TypesStand DEF SlotsInAir
  <2> QED
    BY <1>2, <2>1 DEF Queues, QueuesOf, listVars
<1>3. CASE Next
  <2>1. CASE Arrive
    BY <2>1, ArriveQueues
  <2>2. ASSUME NEW u \in Ues, RemoveUe(u) PROVE Queues'
    BY <1>2, <2>2 DEF RemoveUe
  <2>3. CASE SchedTriggerReq
    BY <2>3, SchedTriggerReqQueues
  <2>4. ASSUME NEW d \in Dirs, HarqFeedback(d) PROVE Queues'
    BY <1>1, <2>4, HarqFeedbackQueues
  <2>5. ASSUME NEW d \in Dirs, EndFeedback(d) PROVE Queues'
    BY <2>5, EndFeedbackQueues
  <2>6. CASE Collect
    BY <1>1, <2>6, CollectEffect, QueuesStand DEF SameBlocks
  <2>7. ASSUME NEW d \in Dirs, BeginSharing(d) PROVE Queues'
    <3>1. /\ phase = BeginPhase(d) /\ slot'.sent = slot.sent /\ UNCHANGED <<scenario, listVars>>
          /\ phase' \in {"begin_ul", "assign_dl", SharePhase(d)}
      BY <1>1, <2>7, BeginEffect DEF SameBlocks
    <3> QED
      BY <3>1, QueuesStand DEF BeginPhase, SharePhase
  <2>8. ASSUME NEW d \in Dirs, ShareSymbols(d) PROVE Queues'
    <3>1. /\ phase = SharePhase(d) /\ slot'.sent = slot.sent /\ UNCHANGED <<scenario, listVars>>
          /\ phase' \in {"begin_ul", "assign_dl", phase}
      BY <1>1, <2>8, ShareEffect DEF SameBlocks, Fail
    <3> QED
      BY <3>1, QueuesStand DEF SharePhase
  <2>9. ASSUME NEW d \in Dirs, Assign(d) PROVE Queues'
    BY <1>1, <2>9, AssignQueues
  <2>10. CASE SchedConfigInd
    BY <2>10, SchedConfigIndQueues
  <2> QED
    BY <1>3, <2>1, <2>2, <2>3, <2>4, <2>5, <2>6, <2>7, <2>8, <2>9, <2>10 DEF Next
<1> QED
  BY <1>2, <1>3 DEF vars

--------------------------------------------------------------------------------
(* Entries of a process in a queue.                                        *)
LEMMA HoldsEmpty ==
  ASSUME NEW u, NEW p
  PROVE  ~Holds(<<>>, u, p) /\ Single(<<>>, u, p)
BY DEF Holds, Single, HoldsOnce, IsFresh

LEMMA HoldsAppend ==
  ASSUME NEW S, NEW s \in Seq(S), NEW x \in S, NEW u, NEW p
  PROVE  /\ Holds(Append(s, x), u, p) <=> Holds(s, u, p) \/ IsAbout(x, u, p)
         /\ Single(s, u, p) /\ (IsAbout(x, u, p) => x.fresh /\ ~Holds(s, u, p)) =>
              Single(Append(s, x), u, p)
<1> DEFINE t == Append(s, x)
<1>1. /\ DOMAIN s = 1..Len(s) /\ Len(s) \in Nat /\ DOMAIN t = 1..(Len(s) + 1)
      /\ t[Len(s) + 1] = x /\ \A i \in 1..Len(s) : t[i] = s[i]
  OBVIOUS
<1> HIDE DEF t
<1>2. \A i \in DOMAIN t : (i \in DOMAIN s /\ t[i] = s[i]) \/ (i = Len(s) + 1 /\ t[i] = x)
  BY <1>1
<1>3. \A i \in DOMAIN s : i \in DOMAIN t /\ t[i] = s[i]
  BY <1>1
<1>4. Len(s) + 1 \in DOMAIN t /\ t[Len(s) + 1] = x
  BY <1>1
<1>5. Holds(t, u, p) <=> Holds(s, u, p) \/ IsAbout(x, u, p)
  BY <1>2, <1>3, <1>4 DEF Holds
<1>6. ASSUME Single(s, u, p), IsAbout(x, u, p) => x.fresh /\ ~Holds(s, u, p)
      PROVE  Single(t, u, p)
  <2>1. IsFresh(t, u, p)
    BY <1>2, <1>6 DEF IsFresh, Single
  <2>2. HoldsOnce(t, u, p)
    BY <1>2, <1>6 DEF HoldsOnce, Single, Holds
  <2> QED
    BY <2>1, <2>2 DEF Single
<1> QED
  BY <1>5, <1>6 DEF t

LEMMA HoldsTail ==
  ASSUME NEW S, NEW s \in Seq(S), s # <<>>, NEW u, NEW p
  PROVE  /\ Holds(Tail(s), u, p) => Holds(s, u, p)
         /\ IsAbout(Head(s), u, p) => Holds(s, u, p)
         /\ Single(s, u, p) => Single(Tail(s), u, p)
         /\ Single(s, u, p) /\ IsAbout(Head(s), u, p) => Head(s).fresh /\ ~Holds(Tail(s), u, p)
<1> DEFINE t == Tail(s)
<1>1. /\ Len(s) \in Nat \ {0} /\ DOMAIN s = 1..Len(s) /\ DOMAIN t = 1..(Len(s) - 1)
      /\ \A i \in 1..(Len(s) - 1) : t[i] = s[i + 1]
      /\ Head(s) = s[1]
  OBVIOUS
<1> HIDE DEF t
<1>2. \A i \in DOMAIN t : i + 1 \in DOMAIN s /\ t[i] = s[i + 1] /\ i + 1 # 1 /\ i \in Nat
  BY <1>1
<1>3. 1 \in DOMAIN s
  BY <1>1
<1>4. Holds(t, u, p) => Holds(s, u, p)
  BY <1>2 DEF Holds
<1>5. IsAbout(Head(s), u, p) => Holds(s, u, p)
  BY <1>1, <1>3 DEF Holds
<1>6. ASSUME Single(s, u, p) PROVE Single(t, u, p)
  <2>1. IsFresh(t, u, p)
    BY <1>2, <1>6 DEF IsFresh, Single
  <2>2. ASSUME NEW i \in DOMAIN t, NEW j \in DOMAIN t, IsAbout(t[i], u, p), IsAbout(t[j], u, p)
        PROVE  i = j
    <3>1. i + 1 = j + 1
      BY <1>2, <1>6, <2>2 DEF Single, HoldsOnce
    <3> QED
      BY <1>2, <3>1
  <2> QED
    BY <2>1, <2>2 DEF Single, HoldsOnce
<1>7. ASSUME Single(s, u, p), IsAbout(Head(s), u, p) PROVE Head(s).fresh /\ ~Holds(t, u, p)
  <2>1. Head(s).fresh
    BY <1>1, <1>3, <1>7 DEF Single, IsFresh
  <2>2. ~Holds(t, u, p)
    BY <1>1, <1>2, <1>3, <1>7 DEF Single, HoldsOnce, Holds
  <2> QED
    BY <2>1, <2>2
<1> QED
  BY <1>4, <1>5, <1>6, <1>7 DEF t

LEMMA HoldsConcat ==
  ASSUME NEW S, NEW s \in Seq(S), NEW t \in Seq(S), NEW u, NEW p
  PROVE  /\ Holds(s \o t, u, p) <=> Holds(s, u, p) \/ Holds(t, u, p)
         /\ Single(s, u, p) /\ Single(t, u, p) /\ ~(Holds(s, u, p) /\ Holds(t, u, p)) =>
              Single(s \o t, u, p)
<1> DEFINE c == s \o t
<1>1. /\ Len(s) \in Nat /\ DOMAIN s = 1..Len(s) /\ Len(t) \in Nat /\ DOMAIN t = 1..Len(t)
      /\ DOMAIN c = 1..(Len(s) + Len(t))
      /\ \A i \in 1..(Len(s) + Len(t)) :
           c[i] = IF i <= Len(s) THEN s[i] ELSE t[i - Len(s)]
  <2>1. Len(c) = Len(s) + Len(t) /\ DOMAIN c = 1..Len(c)
    BY ConcatProperties
  <2>2. \A i \in 1..Len(c) : c[i] = IF i <= Len(s) THEN s[i] ELSE t[i - Len(s)]
    BY ConcatProperties
  <2> QED
    BY <2>1, <2>2
<1> HIDE DEF c
<1>2. \A i \in DOMAIN c : \/ i \in DOMAIN s /\ c[i] = s[i]
                          \/ i - Len(s) \in DOMAIN t /\ c[i] = t[i - Len(s)]
  BY <1>1
<1>3. \A i \in DOMAIN s : i \in DOMAIN c /\ c[i] = s[i]
  BY <1>1
<1>4. \A i \in DOMAIN t : i + Len(s) \in DOMAIN c /\ c[i + Len(s)] = t[i]
  BY <1>1
<1>5. Holds(c, u, p) <=> Holds(s, u, p) \/ Holds(t, u, p)
  BY <1>2, <1>3, <1>4 DEF Holds
<1>6. ASSUME Single(s, u, p), Single(t, u, p), ~(Holds(s, u, p) /\ Holds(t, u, p))
      PROVE  Single(c, u, p)
  <2>1. IsFresh(c, u, p)
    BY <1>2, <1>6 DEF IsFresh, Single
  <2>2. ASSUME NEW i \in DOMAIN c, NEW j \in DOMAIN c, IsAbout(c[i], u, p), IsAbout(c[j], u, p)
        PROVE  i = j
    <3>1. CASE i \in DOMAIN s /\ c[i] = s[i] /\ j \in DOMAIN s /\ c[j] = s[j]
      BY <1>6, <2>2, <3>1 DEF Single, HoldsOnce
    <3>2. CASE /\ i - Len(s) \in DOMAIN t /\ c[i] = t[i - Len(s)]
               /\ j - Len(s) \in DOMAIN t /\ c[j] = t[j - Len(s)]
      <4>1. i - Len(s) = j - Len(s)
        BY <1>6, <2>2, <3>2 DEF Single, HoldsOnce
      <4> QED
        BY <1>1, <4>1
    <3>3. CASE \/ /\ i \in DOMAIN s /\ c[i] = s[i]
                  /\ j - Len(s) \in DOMAIN t /\ c[j] = t[j - Len(s)]
               \/ /\ j \in DOMAIN s /\ c[j] = s[j]
                  /\ i - Len(s) \in DOMAIN t /\ c[i] = t[i - Len(s)]
      BY <1>6, <2>2, <3>3 DEF Holds
    <3> QED
      BY <1>2, <3>1, <3>2, <3>3
  <2> QED
    BY <2>1, <2>2 DEF Single, HoldsOnce
<1> QED
  BY <1>5, <1>6 DEF c

LEMMA NothingIsOutdated ==
  ASSUME NEW S, NEW s \in Seq(S), NEW u, NEW p, ~Holds(s, u, p)
  PROVE  Outdated(s, u, p) = s
<1>1. s = [i \in DOMAIN s |-> s[i]]
  OBVIOUS
<1>2. \A i \in DOMAIN s : ~IsAbout(s[i], u, p)
  BY DEF Holds
<1>3. Outdated(s, u, p) = [i \in DOMAIN s |-> s[i]]
  BY <1>2 DEF Outdated
<1> QED
  BY <1>1, <1>3

(* Entries of a process in the slots in the air.                           *)
LEMMA AirHoldsTail ==
  ASSUME NEW S, NEW a \in Seq(Seq(S)), a # <<>>, NEW u, NEW p
  PROVE  /\ AirHolds(Tail(a), u, p) => AirHolds(a, u, p)
         /\ Holds(a[1], u, p) => AirHolds(a, u, p)
         /\ AirSingle(a, u, p) => AirSingle(Tail(a), u, p) /\ Single(a[1], u, p)
         /\ AirSingle(a, u, p) /\ Holds(a[1], u, p) => ~AirHolds(Tail(a), u, p)
<1> DEFINE t == Tail(a)
<1>1. /\ Len(a) \in Nat \ {0} /\ DOMAIN a = 1..Len(a) /\ DOMAIN t = 1..(Len(a) - 1)
      /\ \A i \in 1..(Len(a) - 1) : t[i] = a[i + 1]
  OBVIOUS
<1> HIDE DEF t
<1>2. \A i \in DOMAIN t : i + 1 \in DOMAIN a /\ t[i] = a[i + 1] /\ i + 1 # 1 /\ i \in Nat
  BY <1>1
<1>3. 1 \in DOMAIN a
  BY <1>1
<1>4. AirHolds(t, u, p) => AirHolds(a, u, p)
  BY <1>2 DEF AirHolds
<1>5. Holds(a[1], u, p) => AirHolds(a, u, p)
  BY <1>3 DEF AirHolds
<1>6. ASSUME AirSingle(a, u, p) PROVE AirSingle(t, u, p) /\ Single(a[1], u, p)
  <2>1. \A k \in DOMAIN t : Single(t[k], u, p)
    BY <1>2, <1>6 DEF AirSingle
  <2>2. ASSUME NEW k \in DOMAIN t, NEW l \in DOMAIN t, Holds(t[k], u, p), Holds(t[l], u, p)
        PROVE  k = l
    <3>1. k + 1 = l + 1
      BY <1>2, <1>6, <2>2 DEF AirSingle
    <3> QED
      BY <1>2, <3>1
  <2> QED
    BY <1>3, <1>6, <2>1, <2>2 DEF AirSingle
<1>7. ASSUME AirSingle(a, u, p), Holds(a[1], u, p) PROVE ~AirHolds(t, u, p)
  BY <1>2, <1>3, <1>7 DEF AirSingle, AirHolds
<1> QED
  BY <1>4, <1>5, <1>6, <1>7 DEF t

LEMMA AirHoldsAppend ==
  ASSUME NEW S, NEW a \in Seq(Seq(S)), NEW s \in Seq(S), NEW u, NEW p
  PROVE  /\ AirHolds(Append(a, s), u, p) <=> AirHolds(a, u, p) \/ Holds(s, u, p)
         /\ AirSingle(a, u, p) /\ Single(s, u, p) /\ ~(AirHolds(a, u, p) /\ Holds(s, u, p)) =>
              AirSingle(Append(a, s), u, p)
<1> DEFINE t == Append(a, s)
<1>1. /\ DOMAIN a = 1..Len(a) /\ Len(a) \in Nat /\ DOMAIN t = 1..(Len(a) + 1)
      /\ t[Len(a) + 1] = s /\ \A i \in 1..Len(a) : t[i] = a[i]
  OBVIOUS
<1> HIDE DEF t
<1>2. \A i \in DOMAIN t : (i \in DOMAIN a /\ t[i] = a[i]) \/ (i = Len(a) + 1 /\ t[i] = s)
  BY <1>1
<1>3. \A i \in DOMAIN a : i \in DOMAIN t /\ t[i] = a[i]
  BY <1>1
<1>4. Len(a) + 1 \in DOMAIN t /\ t[Len(a) + 1] = s
  BY <1>1
<1>5. AirHolds(t, u, p) <=> AirHolds(a, u, p) \/ Holds(s, u, p)
  BY <1>2, <1>3, <1>4 DEF AirHolds
<1>6. ASSUME AirSingle(a, u, p), Single(s, u, p), ~(AirHolds(a, u, p) /\ Holds(s, u, p))
      PROVE  AirSingle(t, u, p)
  <2>1. \A k \in DOMAIN t : Single(t[k], u, p)
    BY <1>2, <1>6 DEF AirSingle
  <2>2. \A k, l \in DOMAIN t : Holds(t[k], u, p) /\ Holds(t[l], u, p) => k = l
    BY <1>2, <1>6 DEF AirSingle, AirHolds
  <2> QED
    BY <2>1, <2>2 DEF AirSingle
<1> QED
  BY <1>5, <1>6 DEF t

--------------------------------------------------------------------------------
(* What each step does to the uplink.                                      *)
UlProc(u, p) == <<"ul", u, p>>

LEMMA OneEntryStands ==
  ASSUME NEW u, NEW p, OneEntry(u, p),
         air'["ul"] = air["ul"], received'["ul"] = received["ul"],
         harqInfoList'["ul"] = harqInfoList["ul"], untxed'["ul"] = untxed["ul"],
         slot'.sent["ul"] = slot.sent["ul"],
         u \in attached' /\ ~Busy(UlProc(u, p))' => (u \in attached /\ ~Busy(UlProc(u, p)))
                                                     \/ Nowhere(u, p)
  PROVE  OneEntry(u, p)'
<1>1. AllSingle(u, p)' /\ OnePlace(u, p)'
  BY DEF OneEntry, AllSingle, OnePlace
<1>2. Nowhere(u, p) => Nowhere(u, p)'
  BY DEF Nowhere
<1> QED
  BY <1>1, <1>2 DEF OneEntry, UlProc

LEMMA UplinkTypes ==
  ASSUME Queues
  PROVE  /\ air["ul"] \in Seq(Seq(Sent)) /\ received["ul"] \in Seq(Answered)
         /\ harqInfoList["ul"] \in Seq(Answered) /\ untxed["ul"] \in Seq(Answered)
         /\ slot.sent["ul"] \in Seq(Sent)
         /\ phase # "trigger" => received["ul"] = <<>>
         /\ phase # "harq_ul" => untxed["ul"] = <<>>
         /\ phase \in {"arrive", "trigger"} => slot.sent["ul"] = <<>>
<1>1. QueuesOf("ul")
  BY DEF Queues, Dirs
<1> QED
  BY <1>1 DEF QueuesOf, HarqPhase

LEMMA InitOneEntry ==
  ASSUME Init, NEW u, NEW p
  PROVE  OneEntry(u, p)
<1>1. /\ received["ul"] = <<>> /\ harqInfoList["ul"] = <<>> /\ untxed["ul"] = <<>>
      /\ slot.sent["ul"] = <<>> /\ DOMAIN air["ul"] = 1..FeedbackDelay
      /\ \A k \in 1..FeedbackDelay : air["ul"][k] = <<>>
  BY DEF Init, EmptySlot, Dirs
<1>2. ~AirHolds(air["ul"], u, p) /\ AirSingle(air["ul"], u, p)
  BY <1>1, HoldsEmpty DEF AirHolds, AirSingle
<1>3. AllSingle(u, p) /\ Nowhere(u, p)
  BY <1>1, <1>2, HoldsEmpty DEF AllSingle, Nowhere
<1> QED
  BY <1>3 DEF OneEntry, OnePlace, AtMostOne, Nowhere

LEMMA ArriveOneEntry ==
  ASSUME Queues, Arrive, NEW u, NEW p, OneEntry(u, p)
  PROVE  OneEntry(u, p)'
<1>1. PICK dl, ul :
        LET answers == [d \in Dirs |-> Answers(d, air[d][1], IF d = "dl" THEN dl ELSE ul)]
        IN  received' = [d \in Dirs |-> received[d] \o answers[d]]
  BY DEF Arrive
<1>2. /\ phase = "arrive" /\ air'["ul"] = Tail(air["ul"])
      /\ UNCHANGED <<scenario, attached, status, harqInfoList, untxed, slot>>
  BY DEF Arrive, Dirs
<1> DEFINE batch == air["ul"][1]
           answers == Answers("ul", batch, ul)
<1>3. received'["ul"] = received["ul"] \o answers
  BY <1>1 DEF Dirs
<1>4. air["ul"] \in Seq(Seq(Sent)) /\ received["ul"] = <<>>
  BY <1>2, UplinkTypes
<1>5. air["ul"] # <<>>
  <2>1. Len(air["ul"]) = FeedbackDelay
    BY <1>2 DEF Queues, QueuesOf, SlotsInAir, Dirs
  <2> QED
    BY <2>1, SchedulerAssumption
<1>6. batch \in Seq(Sent)
  BY <1>4, <1>5
<1>7. /\ answers \in Seq(Answered)
      /\ \A j \in DOMAIN answers : \E i \in DOMAIN batch :
           /\ answers[j].ue = batch[i].ue /\ answers[j].proc = batch[i].proc
           /\ answers[j].fresh = batch[i].fresh
      /\ HoldsOnce(batch, u, p) => HoldsOnce(answers, u, p)
  <2>1. "ul" \in Dirs
    BY DEF Dirs
  <2>2. "ul" = "ul" => \A v, q : HoldsOnce(batch, v, q) => HoldsOnce(answers, v, q)
    BY <1>6, <2>1, AnswersAreOfBatch
  <2>3. HoldsOnce(batch, u, p) => HoldsOnce(answers, u, p)
    BY <2>2
  <2> QED
    BY <1>6, <2>1, <2>3, AnswersAreOfBatch
<1> HIDE DEF answers, batch
<1>8. received'["ul"] = answers
  BY <1>3, <1>4, <1>7
<1>9. Holds(answers, u, p) => Holds(batch, u, p)
  BY <1>7 DEF Holds, IsAbout
<1>10. Single(batch, u, p) => Single(answers, u, p)
  BY <1>7 DEF Single, IsFresh, IsAbout
<1>11. /\ AirHolds(Tail(air["ul"]), u, p) => AirHolds(air["ul"], u, p)
       /\ Holds(batch, u, p) => AirHolds(air["ul"], u, p)
       /\ AirSingle(air["ul"], u, p) =>
            AirSingle(Tail(air["ul"]), u, p) /\ Single(batch, u, p)
       /\ AirSingle(air["ul"], u, p) /\ Holds(batch, u, p) =>
            ~AirHolds(Tail(air["ul"]), u, p)
  BY <1>4, <1>5, AirHoldsTail DEF batch
<1>12. AllSingle(u, p)'
  BY <1>2, <1>8, <1>10, <1>11 DEF OneEntry, AllSingle
<1>13. OnePlace(u, p)'
  <2>1. AirHolds(air["ul"], u, p)' => AirHolds(air["ul"], u, p)
    BY <1>2, <1>11
  <2>2. Holds(received["ul"], u, p)' =>
          AirHolds(air["ul"], u, p) /\ ~AirHolds(air["ul"], u, p)'
    BY <1>2, <1>8, <1>9, <1>11 DEF OneEntry, AllSingle
  <2> QED
    BY <1>2, <2>1, <2>2 DEF OneEntry, OnePlace, AtMostOne
<1>14. Nowhere(u, p) => Nowhere(u, p)'
  BY <1>2, <1>8, <1>9, <1>11 DEF Nowhere
<1> QED
  BY <1>2, <1>12, <1>13, <1>14 DEF OneEntry, Busy

(* A process whose timer expires has no answer to come, or late is set.    *)
LEMMA SchedTriggerReqOneEntry ==
  ASSUME SchedulerInv, Queues, SchedTriggerReq, ~late', NEW u \in Ues, NEW p \in Procs,
         OneEntry(u, p)
  PROVE  OneEntry(u, p)'
<1>1. /\ phase = "trigger" /\ UNCHANGED <<scenario, attached, untxed, air>>
      /\ harqInfoList'["ul"] = harqInfoList["ul"] \o received["ul"]
      /\ received'["ul"] = <<>> /\ slot'.sent["ul"] = <<>>
      /\ status' = [b \in Blocks |-> StatusRefreshed(b)]
      /\ \A b \in Blocks : Expired(b) => ~Unanswered(b[1], b[2], b[3])
  BY DEF SchedTriggerReq, RefreshHarqProcesses, EmptySlot, Dirs
<1>2. /\ received["ul"] \in Seq(Answered) /\ harqInfoList["ul"] \in Seq(Answered)
      /\ untxed["ul"] = <<>> /\ slot.sent["ul"] = <<>>
  BY <1>1, UplinkTypes
<1>3. /\ Holds(harqInfoList["ul"], u, p)' <=>
           Holds(harqInfoList["ul"], u, p) \/ Holds(received["ul"], u, p)
      /\ Single(harqInfoList["ul"], u, p)'
  BY <1>1, <1>2, HoldsConcat DEF OneEntry, AllSingle, OnePlace, AtMostOne
<1>4. /\ ~Holds(received["ul"], u, p)' /\ Single(received["ul"], u, p)'
      /\ ~Holds(slot.sent["ul"], u, p)' /\ Single(slot.sent["ul"], u, p)'
      /\ ~Holds(untxed["ul"], u, p)' /\ Single(untxed["ul"], u, p)'
  BY <1>1, <1>2, HoldsEmpty
<1>5. AllSingle(u, p)'
  BY <1>1, <1>3, <1>4 DEF OneEntry, AllSingle
<1>6. OnePlace(u, p)'
  BY <1>1, <1>3, <1>4 DEF OneEntry, OnePlace, AtMostOne
<1>7. Nowhere(u, p) => Nowhere(u, p)'
  BY <1>1, <1>3, <1>4 DEF Nowhere
<1>8. ASSUME u \in attached', ~Busy(UlProc(u, p))' PROVE Nowhere(u, p)
  <2> DEFINE b == UlProc(u, p)
  <2>1. b \in Blocks /\ b[1] = "ul" /\ b[2] = u /\ b[3] = p
    BY DEF UlProc, Blocks, Dirs
  <2>2. CASE ~Busy(b)
    BY <1>1, <1>8, <2>2 DEF OneEntry, UlProc
  <2>3. CASE Busy(b)
    <3>1. Expired(b)
      <4>1. status'[b] = StatusRefreshed(b)
        BY <1>1, <2>1
      <4> QED
        BY <1>8, <2>3, <4>1 DEF Busy, StatusRefreshed
    <3>2. ~Unanswered("ul", u, p)
      BY <1>1, <2>1, <3>1
    <3>3. ASSUME NEW s, IsFresh(s, u, p), FreshIn(s, u, p) = {} PROVE ~Holds(s, u, p)
      BY <3>3 DEF IsFresh, FreshIn, Holds
    <3>4. AllSingle(u, p)
      BY DEF OneEntry
    <3>5. ~Holds(received["ul"], u, p) /\ ~Holds(harqInfoList["ul"], u, p)
      BY <3>2, <3>3, <3>4 DEF Unanswered, AllSingle, Single
    <3>6. ~AirHolds(air["ul"], u, p)
      BY <3>2, <3>3, <3>4 DEF Unanswered, AllSingle, AirSingle, Single, AirHolds
    <3> QED
      BY <1>2, <3>5, <3>6, HoldsEmpty DEF Nowhere
  <2> QED
    BY <2>2, <2>3
<1> QED
  BY <1>5, <1>6, <1>7, <1>8 DEF OneEntry, UlProc

LEMMA HarqFeedbackOneEntry ==
  ASSUME SchedulerInv, Queues, NEW d \in Dirs, HarqFeedback(d), NEW u \in Ues, NEW p \in Procs,
         OneEntry(u, p)
  PROVE  OneEntry(u, p)'
<1>1. /\ phase = HarqPhase(d) /\ harqInfoList[d] # <<>>
      /\ UNCHANGED <<scenario, attached, received, air>>
      /\ \/ (\E what : Fail(what)) \/ Settled(d) \/ Deferred(d) \/ Retransmits(d)
  BY FeedbackEffect DEF SchedulerInv
<1>2. /\ DOMAIN harqInfoList = Dirs /\ DOMAIN untxed = Dirs /\ DOMAIN slot.sent = Dirs
      /\ DOMAIN status = Blocks /\ "ul" \in Dirs
  BY DEF Queues, SchedulerInv, BooksAgree, Dirs
<1> DEFINE b == UlProc(u, p)
<1>3. b \in Blocks
  BY DEF UlProc, Blocks, Dirs
<1>4. CASE \E what : Fail(what)
  BY <1>4, OneEntryStands DEF Fail, harqVars, listVars, Busy
<1>5. CASE d # "ul"
  <2>1. ASSUME FeedbackTaken(d) PROVE harqInfoList'["ul"] = harqInfoList["ul"]
    BY <1>2, <1>5, <2>1 DEF FeedbackTaken, RestOfFeedback
  <2>2. AnsweredBlock(d) # b
    BY <1>5 DEF AnsweredBlock, UlProc
  <2>3. CASE Settled(d)
    <3>1. status'[b] = status[b]
      BY <1>2, <1>3, <2>2, <2>3 DEF Settled
    <3> QED
      BY <1>1, <2>1, <2>3, <3>1, OneEntryStands DEF Settled, Busy
  <2>4. CASE Deferred(d)
    BY <1>1, <1>2, <1>5, <2>1, <2>4, OneEntryStands DEF Deferred, Busy, harqVars
  <2>5. CASE Retransmits(d)
    <3>1. status'[b] = status[b]
      BY <1>2, <1>3, <2>2, <2>5 DEF Retransmits
    <3>2. slot'.sent["ul"] = slot.sent["ul"]
      BY <1>2, <1>5, <2>5 DEF Retransmits
    <3>3. harqInfoList'["ul"] = harqInfoList["ul"] /\ untxed' = untxed
      BY <2>1, <2>5 DEF Retransmits
    <3> QED
      BY <1>1, <3>1, <3>2, <3>3, OneEntryStands DEF Busy
  <2> QED
    BY <1>1, <1>4, <2>3, <2>4, <2>5
<1>6. CASE d = "ul" /\ ~(\E what : Fail(what))
  <2> DEFINE a == FirstAnswer("ul")
             list == harqInfoList["ul"]
  <2>1. /\ list \in Seq(Answered) /\ untxed["ul"] \in Seq(Answered)
        /\ slot.sent["ul"] \in Seq(Sent) /\ list # <<>> /\ a = Head(list) /\ a \in Answered
    BY <1>1, <1>6, UplinkTypes DEF FirstAnswer
  <2>2. AnsweredBlock("ul") = b <=> IsAbout(a, u, p)
    BY DEF AnsweredBlock, UlProc, IsAbout
  <2>3. harqInfoList'["ul"] = Tail(list)
    <3>1. FeedbackTaken("ul")
      BY <1>1, <1>6 DEF Settled, Deferred, Retransmits
    <3> QED
      BY <1>2, <3>1 DEF FeedbackTaken, RestOfFeedback
  <2>4. /\ Holds(harqInfoList["ul"], u, p)' => Holds(list, u, p)
        /\ IsAbout(a, u, p) => Holds(list, u, p)
        /\ Single(harqInfoList["ul"], u, p)'
        /\ IsAbout(a, u, p) => a.fresh /\ ~Holds(harqInfoList["ul"], u, p)'
    BY <2>1, <2>3, HoldsTail DEF OneEntry, AllSingle
  <2> HIDE DEF list
  <2>5. CASE ~IsAbout(a, u, p)
    <3>1. status'[b] = status[b]
      <4>1. AnsweredBlock("ul") # b
        BY <2>2, <2>5
      <4>2. AnsweredBlock(d) # b
        BY <1>6, <4>1
      <4> QED
        BY <1>1, <1>2, <1>3, <1>6, <4>2 DEF Settled, Deferred, Retransmits, harqVars
    <3>2. /\ Holds(untxed["ul"], u, p)' <=> Holds(untxed["ul"], u, p)
          /\ Single(untxed["ul"], u, p)'
      <4>1. \/ untxed'["ul"] = untxed["ul"]
            \/ untxed'["ul"] = Append(untxed["ul"], a)
        BY <1>1, <1>2, <1>6 DEF Settled, Deferred, Retransmits
      <4>2. Single(untxed["ul"], u, p)
        BY DEF OneEntry, AllSingle
      <4> QED
        BY ZenonT(60), <2>1, <2>5, <4>1, <4>2, HoldsAppend
    <3>3. /\ Holds(slot.sent["ul"], u, p)' <=> Holds(slot.sent["ul"], u, p)
          /\ Single(slot.sent["ul"], u, p)'
      <4> DEFINE entry == [ue |-> a.ue, proc |-> a.proc, fresh |-> TRUE]
      <4>1. entry \in Sent /\ ~IsAbout(entry, u, p)
        BY <2>1, <2>5 DEF Sent, Answered, IsAbout
      <4>2. \/ slot'.sent["ul"] = slot.sent["ul"]
            \/ slot'.sent["ul"] = Append(slot.sent["ul"], entry)
        BY <1>1, <1>2, <1>6 DEF Settled, Deferred, Retransmits
      <4> HIDE DEF entry
      <4> QED
        BY <2>1, <4>1, <4>2, HoldsAppend DEF OneEntry, AllSingle
    <3>4. AllSingle(u, p)' /\ OnePlace(u, p)'
      BY <1>1, <2>4, <3>2, <3>3 DEF OneEntry, AllSingle, OnePlace, AtMostOne, list
    <3>5. Nowhere(u, p) => Nowhere(u, p)'
      BY <1>1, <2>4, <3>2, <3>3 DEF Nowhere, list
    <3> QED
      BY <1>1, <3>1, <3>4, <3>5 DEF OneEntry, UlProc, Busy
  <2>6. CASE IsAbout(a, u, p)
    <3>1. /\ Holds(list, u, p) /\ ~AirHolds(air["ul"], u, p) /\ ~Holds(received["ul"], u, p)
          /\ ~Holds(untxed["ul"], u, p) /\ ~Holds(slot.sent["ul"], u, p)
          /\ ~Holds(harqInfoList["ul"], u, p)' /\ a.fresh
      BY <2>4, <2>6 DEF OneEntry, OnePlace, AtMostOne, list
    <3>2. CASE Settled("ul")
      <4>1. UNCHANGED <<untxed, slot>>
        BY <3>2 DEF Settled
      <4>2. AllSingle(u, p)' /\ Nowhere(u, p)'
        BY <1>1, <2>4, <3>1, <4>1 DEF OneEntry, AllSingle, Nowhere
      <4> QED
        BY <4>2 DEF OneEntry, OnePlace, AtMostOne, Nowhere
    <3>3. CASE Deferred("ul")
      <4>1. /\ untxed'["ul"] = Append(untxed["ul"], a) /\ UNCHANGED slot
            /\ status[b] > 0 /\ status' = status
        BY <1>2, <2>2, <2>6, <3>3 DEF Deferred, harqVars
      <4>2. Single(untxed["ul"], u, p)'
        BY <2>1, <3>1, <4>1, HoldsAppend DEF OneEntry, AllSingle
      <4>3. AllSingle(u, p)' /\ OnePlace(u, p)'
        BY <1>1, <2>4, <3>1, <4>1, <4>2 DEF OneEntry, AllSingle, OnePlace, AtMostOne
      <4> QED
        BY <4>1, <4>3 DEF OneEntry, Busy, UlProc
    <3>4. CASE Retransmits("ul")
      <4> DEFINE entry == [ue |-> a.ue, proc |-> a.proc, fresh |-> TRUE]
      <4>1. entry \in Sent /\ entry.fresh
        BY <2>1 DEF Sent, Answered
      <4>2. \/ slot'.sent["ul"] = slot.sent["ul"]
            \/ slot'.sent["ul"] = Append(slot.sent["ul"], entry)
        BY <1>2, <3>4 DEF Retransmits
      <4>3. untxed' = untxed /\ status' = [status EXCEPT ![b] = status[b] + 1] /\ status[b] > 0
        BY <2>2, <2>6, <3>4 DEF Retransmits
      <4>4. status'[b] > 0
        BY <1>2, <1>3, <4>3, SchedulerAssumption DEF SchedulerInv, BooksAgree
      <4> HIDE DEF entry
      <4>5. Single(slot.sent["ul"], u, p)'
        BY <2>1, <3>1, <4>1, <4>2, HoldsAppend DEF OneEntry, AllSingle
      <4>6. AllSingle(u, p)' /\ OnePlace(u, p)'
        BY <1>1, <2>4, <3>1, <4>3, <4>5 DEF OneEntry, AllSingle, OnePlace, AtMostOne
      <4> QED
        BY <4>4, <4>6 DEF OneEntry, Busy, UlProc
    <3> QED
      BY <1>1, <1>6, <3>2, <3>3, <3>4
  <2> QED
    BY <2>5, <2>6
<1> QED
  BY <1>1, <1>4, <1>5, <1>6

LEMMA EndFeedbackOneEntry ==
  ASSUME Queues, NEW d \in Dirs, EndFeedback(d), NEW u, NEW p, OneEntry(u, p)
  PROVE  OneEntry(u, p)'
<1>1. /\ harqInfoList' = [harqInfoList EXCEPT ![d] = untxed[d]]
      /\ untxed' = [untxed EXCEPT ![d] = <<>>]
      /\ UNCHANGED <<attached, status, received, air, slot>>
  BY DEF EndFeedback, harqVars
<1>2. DOMAIN harqInfoList = Dirs /\ DOMAIN untxed = Dirs /\ "ul" \in Dirs
  BY DEF Queues, Dirs
<1>3. CASE d = "ul"
  <2>1. harqInfoList'["ul"] = untxed["ul"] /\ untxed'["ul"] = <<>>
    BY <1>1, <1>2, <1>3
  <2>2. AllSingle(u, p)'
    BY <1>1, <2>1, HoldsEmpty DEF OneEntry, AllSingle
  <2>3. OnePlace(u, p)'
    BY <1>1, <2>1, HoldsEmpty DEF OneEntry, OnePlace, AtMostOne
  <2>4. Nowhere(u, p) => Nowhere(u, p)'
    BY <1>1, <2>1, HoldsEmpty DEF Nowhere
  <2> QED
    BY <1>1, <2>2, <2>3, <2>4 DEF OneEntry, Busy
<1>4. CASE d # "ul"
  <2>1. harqInfoList'["ul"] = harqInfoList["ul"] /\ untxed'["ul"] = untxed["ul"]
    BY <1>1, <1>2, <1>4
  <2> QED
    BY <1>1, <2>1, OneEntryStands DEF Busy
<1> QED
  BY <1>3, <1>4

LEMMA AssignOneEntry ==
  ASSUME SchedulerInv, KnownUes, Queues, NEW d \in Dirs, Assign(d), NEW u \in Ues, NEW p \in Procs,
         OneEntry(u, p), OneEntry(slot.cur, FreeProcess("ul", slot.cur))
                           \/ ~(slot.given["ul"][slot.cur] > 0)
                           \/ FreeProcess("ul", slot.cur) = NoProcess
  PROVE  OneEntry(u, p)'
<1>1. phase = AssignPhase(d) /\ UNCHANGED <<attached, untxed, received>>
  BY AssignEffect DEF SchedulerInv
<1>2. CASE \E what : Fail(what)
  BY <1>2, OneEntryStands DEF Fail, harqVars, listVars, Busy
<1>3. CASE SameBlocks /\ UNCHANGED <<harqVars, listVars>>
  BY <1>1, <1>3, OneEntryStands DEF SameBlocks, harqVars, listVars, Busy
<1> DEFINE v == slot.cur  q == FreeProcess(d, slot.cur)
           entry == [ue |-> v, proc |-> q, fresh |-> TRUE]
<1>4. CASE /\ slot.given[d][v] > 0 /\ q # NoProcess
           /\ status' = [status EXCEPT ![BlockOf(d)] = 1]
           /\ air' = [air EXCEPT ![d] = [k \in DOMAIN air[d] |-> Outdated(air[d][k], v, q)]]
           /\ harqInfoList' = [harqInfoList EXCEPT ![d] = Outdated(harqInfoList[d], v, q)]
           /\ slot'.sent = [slot.sent EXCEPT ![d] = Append(Outdated(slot.sent[d], v, q), entry)]
  <2>1. v \in Ues /\ v \in attached
    BY <1>1, <1>4 DEF SchedulerInv, SlotAgrees, AssignPhase, Sharing
  <2>2. q \in Procs /\ status[<<d, v, q>>] = 0
    BY <1>4, FreeIsFree
  <2>3. /\ DOMAIN air = Dirs /\ DOMAIN harqInfoList = Dirs /\ DOMAIN slot.sent = Dirs
        /\ DOMAIN status = Blocks /\ "ul" \in Dirs /\ UlProc(u, p) \in Blocks
    BY DEF Queues, SchedulerInv, BooksAgree, Dirs, UlProc, Blocks
  <2>4. CASE d # "ul"
    <3>1. UlProc(u, p) # BlockOf(d)
      BY <2>4 DEF BlockOf, UlProc
    <3> HIDE DEF v, q, entry
    <3>2. status'[UlProc(u, p)] = status[UlProc(u, p)]
      BY <1>4, <2>3, <3>1
    <3>3. /\ air'["ul"] = air["ul"] /\ harqInfoList'["ul"] = harqInfoList["ul"]
          /\ slot'.sent["ul"] = slot.sent["ul"]
      BY <1>4, <2>3, <2>4
    <3> QED
      BY <1>1, <3>2, <3>3, OneEntryStands DEF Busy
  <2>5. CASE d = "ul"
    <3>1. Nowhere(v, q)
      <4>1. OneEntry(v, q)
        BY <1>4, <2>5
      <4> QED
        BY <2>1, <2>2, <2>5, <4>1 DEF OneEntry, Busy
    <3>2. /\ air["ul"] \in Seq(Seq(Sent)) /\ harqInfoList["ul"] \in Seq(Answered)
          /\ slot.sent["ul"] \in Seq(Sent)
      BY UplinkTypes
    <3>3. entry \in Sent /\ entry.fresh /\ (IsAbout(entry, u, p) <=> u = v /\ p = q)
      BY <2>1, <2>2 DEF Sent, KnownUes, IsAbout
    <3>4. BlockOf(d) = UlProc(v, q)
      BY <2>5 DEF BlockOf, UlProc
    <3> HIDE DEF v, q, entry
    <3>5. [k \in DOMAIN air["ul"] |-> Outdated(air["ul"][k], v, q)] = air["ul"]
      <4>1. /\ air["ul"] = [k \in DOMAIN air["ul"] |-> air["ul"][k]]
            /\ \A k \in DOMAIN air["ul"] : air["ul"][k] \in Seq(Sent)
        BY <3>2
      <4>2. \A k \in DOMAIN air["ul"] : Outdated(air["ul"][k], v, q) = air["ul"][k]
        BY <3>1, <4>1, NothingIsOutdated DEF Nowhere, AirHolds
      <4> QED
        BY <4>1, <4>2
    <3>6. /\ Outdated(harqInfoList["ul"], v, q) = harqInfoList["ul"]
          /\ Outdated(slot.sent["ul"], v, q) = slot.sent["ul"]
      BY <3>1, <3>2, NothingIsOutdated DEF Nowhere
    <3>7. /\ air'["ul"] = air["ul"] /\ harqInfoList'["ul"] = harqInfoList["ul"]
          /\ slot'.sent["ul"] = Append(slot.sent["ul"], entry)
      BY <1>4, <2>3, <2>5, <3>5, <3>6
    <3>8. /\ status'[UlProc(v, q)] = 1
          /\ ~(u = v /\ p = q) => status'[UlProc(u, p)] = status[UlProc(u, p)]
      <4>1. UlProc(v, q) \in Blocks /\ (~(u = v /\ p = q) => UlProc(u, p) # UlProc(v, q))
        BY <2>1, <2>2, <2>3 DEF UlProc, Blocks
      <4> QED
        BY <1>4, <2>3, <3>4, <4>1
    <3>9. CASE ~(u = v /\ p = q)
      <4>1. /\ Holds(slot.sent["ul"], u, p)' <=> Holds(slot.sent["ul"], u, p)
            /\ Single(slot.sent["ul"], u, p)'
        BY <3>2, <3>3, <3>7, <3>9, HoldsAppend DEF OneEntry, AllSingle
      <4>2. AllSingle(u, p)' /\ OnePlace(u, p)' /\ (Nowhere(u, p) => Nowhere(u, p)')
        BY <1>1, <3>7, <4>1 DEF OneEntry, AllSingle, OnePlace, AtMostOne, Nowhere
      <4> QED
        BY <1>1, <3>8, <3>9, <4>2 DEF OneEntry, Busy, UlProc
    <3>10. CASE u = v /\ p = q
      <4>1. Single(slot.sent["ul"], u, p)'
        BY <3>1, <3>2, <3>3, <3>7, <3>10, HoldsAppend DEF OneEntry, AllSingle, Nowhere
      <4>2. AllSingle(u, p)' /\ OnePlace(u, p)'
        BY <1>1, <3>1, <3>7, <3>10, <4>1 DEF OneEntry, AllSingle, OnePlace, AtMostOne, Nowhere
      <4> QED
        BY <3>8, <3>10, <4>2 DEF OneEntry, Busy, UlProc
    <3> QED
      BY <3>9, <3>10
  <2> QED
    BY <2>4, <2>5
<1> HIDE DEF v, q, entry
<1> QED
  BY <1>2, <1>3, <1>4, AssignEffect DEF SchedulerInv, v, q, entry

LEMMA SchedConfigIndOneEntry ==
  ASSUME Queues, SchedConfigInd, NEW u, NEW p, OneEntry(u, p)
  PROVE  OneEntry(u, p)'
<1>1. /\ air'["ul"] = Append(air["ul"], slot.sent["ul"]) /\ slot'.sent["ul"] = <<>>
      /\ UNCHANGED <<attached, status, harqInfoList, untxed, received>>
  BY DEF SchedConfigInd, harqVars, EmptySlot, Dirs
<1>2. air["ul"] \in Seq(Seq(Sent)) /\ slot.sent["ul"] \in Seq(Sent)
  BY UplinkTypes
<1>3. /\ AirHolds(air["ul"], u, p)' <=>
           AirHolds(air["ul"], u, p) \/ Holds(slot.sent["ul"], u, p)
      /\ AirSingle(air["ul"], u, p)'
  BY <1>1, <1>2, AirHoldsAppend DEF OneEntry, AllSingle, OnePlace, AtMostOne
<1>4. ~Holds(slot.sent["ul"], u, p)' /\ Single(slot.sent["ul"], u, p)'
  BY <1>1, HoldsEmpty
<1>5. AllSingle(u, p)' /\ OnePlace(u, p)' /\ (Nowhere(u, p) => Nowhere(u, p)')
  BY <1>1, <1>3, <1>4 DEF OneEntry, AllSingle, OnePlace, AtMostOne, Nowhere
<1> QED
  BY <1>1, <1>5 DEF OneEntry, Busy

LEMMA InitUplinkOnce == Init => UplinkOnce
BY InitOneEntry DEF UplinkOnce

LEMMA NextUplinkOnce ==
  SchedulerInv /\ KnownUes /\ Queues /\ UplinkOnce /\ [Next]_vars => UplinkOnce'
<1> SUFFICES ASSUME SchedulerInv, KnownUes, Queues, UplinkOnce, [Next]_vars, ~late',
                    NEW u \in Ues, NEW p \in Procs
             PROVE  OneEntry(u, p)'
  BY DEF UplinkOnce
<1>1. SlotAgrees
  BY DEF SchedulerInv
<1>2. ASSUME UNCHANGED <<attached, status, late, listVars>>, slot'.sent = slot.sent
      PROVE  OneEntry(u, p)'
  BY <1>2, OneEntryStands DEF UplinkOnce, listVars, Busy
<1>3. CASE UNCHANGED vars
  BY <1>2, <1>3 DEF vars, harqVars
<1>4. CASE Next
  <2>0. late' = late => \A v \in Ues, q \in Procs : OneEntry(v, q)
    BY DEF UplinkOnce
  <2>1. CASE Arrive
    BY <2>0, <2>1, ArriveOneEntry DEF Arrive
  <2>2. ASSUME NEW w \in Ues, RemoveUe(w) PROVE OneEntry(u, p)'
    <3>1. /\ attached' = attached \ {w} /\ UNCHANGED <<listVars, slot, late>>
          /\ status' = [b \in Blocks |-> IF b[2] = w THEN 0 ELSE status[b]]
      BY <2>2 DEF RemoveUe
    <3>2. UlProc(u, p) \in Blocks /\ UlProc(u, p)[2] = u
      BY DEF UlProc, Blocks, Dirs
    <3>3. u \in attached' /\ ~Busy(UlProc(u, p))' => u \in attached /\ ~Busy(UlProc(u, p))
      BY <3>1, <3>2 DEF Busy
    <3> QED
      BY <2>0, <3>1, <3>3, OneEntryStands DEF listVars
  <2>3. CASE SchedTriggerReq
    <3>1. ~late
      BY <2>3 DEF SchedTriggerReq, RefreshHarqProcesses
    <3> QED
      BY <2>3, <3>1, SchedTriggerReqOneEntry DEF UplinkOnce
  <2>4. ASSUME NEW d \in Dirs, HarqFeedback(d) PROVE OneEntry(u, p)'
    <3>1. late' = late
      BY <1>1, <2>4, FeedbackEffect
    <3> QED
      BY <2>0, <2>4, <3>1, HarqFeedbackOneEntry
  <2>5. ASSUME NEW d \in Dirs, EndFeedback(d) PROVE OneEntry(u, p)'
    <3>1. late' = late
      BY <2>5 DEF EndFeedback
    <3> QED
      BY <2>0, <2>5, <3>1, EndFeedbackOneEntry
  <2>6. CASE Collect
    BY <1>1, <1>2, <2>6, CollectEffect DEF SameBlocks, harqVars
  <2>7. ASSUME NEW d \in Dirs, BeginSharing(d) PROVE OneEntry(u, p)'
    BY <1>1, <1>2, <2>7, BeginEffect DEF SameBlocks, harqVars
  <2>8. ASSUME NEW d \in Dirs, ShareSymbols(d) PROVE OneEntry(u, p)'
    <3>1. UNCHANGED <<attached, harqVars, listVars, late>> /\ slot'.sent = slot.sent
      BY <1>1, <2>8, ShareEffect DEF SameBlocks, Fail
    <3> QED
      BY <1>2, <3>1 DEF harqVars
  <2>9. ASSUME NEW d \in Dirs, Assign(d) PROVE OneEntry(u, p)'
    <3>1. late' = late /\ phase = AssignPhase(d)
      BY <1>1, <2>9, AssignEffect
    <3>2. slot.cur \in Ues
      BY <1>1, <3>1 DEF SlotAgrees, AssignPhase, Sharing
    <3>3. FreeProcess("ul", slot.cur) # NoProcess => FreeProcess("ul", slot.cur) \in Procs
      BY FreeIsFree
    <3>4. OneEntry(slot.cur, FreeProcess("ul", slot.cur))
            \/ FreeProcess("ul", slot.cur) = NoProcess
      BY <2>0, <3>1, <3>2, <3>3
    <3> QED
      BY <2>0, <2>9, <3>1, <3>4, AssignOneEntry
  <2>10. CASE SchedConfigInd
    BY <2>0, <2>10, SchedConfigIndOneEntry DEF SchedConfigInd
  <2> QED
    BY <1>4, <2>1, <2>2, <2>3, <2>4, <2>5, <2>6, <2>7, <2>8, <2>9, <2>10 DEF Next
<1> QED
  BY <1>3, <1>4

--------------------------------------------------------------------------------
(* UplinkStopsAndWaits counts the entries of the air and of the slot.      *)
LEMMA AtMostOneIsCounted ==
  ASSUME NEW S, \A x, y \in S : x = y
  PROVE  IsFiniteSet(S) /\ Cardinality(S) <= 1 /\ (S = {} => Cardinality(S) = 0)
         /\ Cardinality(S) \in Nat
<1>1. CASE S = {}
  BY <1>1, FS_EmptySet
<1>2. CASE S # {}
  <2>1. PICK x \in S : TRUE
    BY <1>2
  <2>2. S = {x}
    BY <2>1
  <2>3. IsFiniteSet({x}) /\ Cardinality({x}) = 1
    BY FS_Singleton
  <2> QED
    BY <1>2, <2>2, <2>3
<1> QED
  BY <1>1, <1>2

LEMMA OnceIsStopAndWait ==
  ASSUME NEW u, NEW p, OneEntry(u, p)
  PROVE  InTheAir("ul", u, p) <= 1
<1> DEFINE batches == {at \in (DOMAIN air["ul"]) \X (1..Cardinality(Ues) * NumHarqProcess) :
                         at[2] \in FreshIn(air["ul"][at[1]], u, p)}
           fresh == FreshIn(slot.sent["ul"], u, p)
<1>1. AirSingle(air["ul"], u, p) /\ Single(slot.sent["ul"], u, p)
      /\ ~(AirHolds(air["ul"], u, p) /\ Holds(slot.sent["ul"], u, p))
  BY DEF OneEntry, AllSingle, OnePlace, AtMostOne
<1>2. \A x, y \in fresh : x = y
  BY <1>1 DEF FreshIn, Single, HoldsOnce
<1>3. fresh # {} => Holds(slot.sent["ul"], u, p)
  BY DEF FreshIn, Holds
<1>4. batches # {} => AirHolds(air["ul"], u, p)
  BY DEF FreshIn, Holds, AirHolds
<1>5. ASSUME NEW x \in batches, NEW y \in batches PROVE x = y
  <2>1. /\ x = <<x[1], x[2]>> /\ y = <<y[1], y[2]>>
        /\ x[1] \in DOMAIN air["ul"] /\ y[1] \in DOMAIN air["ul"]
        /\ x[2] \in DOMAIN air["ul"][x[1]] /\ IsAbout(air["ul"][x[1]][x[2]], u, p)
        /\ y[2] \in DOMAIN air["ul"][y[1]] /\ IsAbout(air["ul"][y[1]][y[2]], u, p)
    BY DEF FreshIn
  <2>2. x[1] = y[1]
    BY <1>1, <2>1 DEF AirSingle, Holds
  <2>3. x[2] = y[2]
    BY <1>1, <2>1, <2>2 DEF AirSingle, Single, HoldsOnce
  <2> QED
    BY <2>1, <2>2, <2>3
<1>6. InTheAir("ul", u, p) = Cardinality(batches) + Cardinality(fresh)
  BY DEF InTheAir
<1> HIDE DEF batches, fresh
<1>7. /\ Cardinality(batches) \in Nat /\ Cardinality(batches) <= 1
      /\ batches = {} => Cardinality(batches) = 0
  BY <1>5, AtMostOneIsCounted
<1>8. /\ Cardinality(fresh) \in Nat /\ Cardinality(fresh) <= 1
      /\ fresh = {} => Cardinality(fresh) = 0
  BY <1>2, AtMostOneIsCounted
<1> QED
  BY <1>1, <1>3, <1>4, <1>6, <1>7, <1>8

(* Whatever the traffic, the answers that are dropped and the UEs that     *)
(* leave: the block of an uplink process is sent once per answer           *)
(* (DoSchedTriggerReq, DoUlHarqFeedback), until a timer overtakes an       *)
(* answer. The downlink, which is answered twice, has no such theorem.     *)
THEOREM UplinkAlwaysStopsAndWaits == Spec => []UplinkStopsAndWaits
<1> DEFINE Inv == KnownUes /\ Queues /\ UplinkOnce
<1>1. Init => Inv
  BY InitKnown, InitQueues, InitUplinkOnce
<1>2. SchedulerInv /\ Inv /\ [Next]_vars => Inv'
  BY KnownStand, NextQueues, NextUplinkOnce
<1>3. Inv => UplinkStopsAndWaits
  BY OnceIsStopAndWait DEF UplinkOnce, UplinkStopsAndWaits
<1> HIDE DEF Inv
<1> QED
  BY <1>1, <1>2, <1>3, SchedulerInvariantHolds, PTL DEF Spec

--------------------------------------------------------------------------------
(* The symbols of the slot.                                                *)
LEMMA LayerBounds ==
  ASSUME NEW layer \in Layers
  PROVE  /\ LayerFirst(layer) \in Nat /\ LayerSize(layer) \in Nat
         /\ DlCtrlSymbols <= LayerFirst(layer)
         /\ LayerFirst(layer) + LayerSize(layer) <= DlCtrlSymbols + SymAvail
         /\ LayerSize(layer) <= SymbPerSlot /\ SymAvail \in Nat
BY TddSlotAssumption DEF Layers, LayerFirst, LayerSize, SymAvail

LEMMA KnownLayer ==
  ASSUME KnownUes
  PROVE  scenario.layer \in Layers /\ scenario.ues \subseteq Ues
BY ScenarioAssumption DEF KnownUes

LEMMA FormatSlots ==
  ASSUME NEW format \in Seq(Dirs \cup {"switch"}), NEW d \in Dirs, format # <<>>,
         SlotsOf(format, d) > 0
  PROVE  SlotsOf(format, d) \in Nat \ {0} /\ AdditionalCtrl(format, d) \in Nat
<1> DEFINE those == {i \in DOMAIN format : format[i] = d}
<1>1. DOMAIN format = 1..Len(format) /\ Len(format) \in Nat \ {0}
  OBVIOUS
<1>2. Cardinality(those) \in Nat
  <2>1. IsFiniteSet(1..Len(format))
    BY <1>1, FS_Interval
  <2>2. IsFiniteSet(those)
    BY <1>1, <2>1, FS_Subset
  <2> HIDE DEF those
  <2> QED
    BY <2>2, FS_CardinalityType
<1>3. SlotsOf(format, d) = (Cardinality(those) * SlotsInPeriod) \div Len(format)
  BY DEF SlotsOf
<1> HIDE DEF those
<1>4. SlotsOf(format, d) \in Int
  BY <1>1, <1>2, <1>3, TddSlotAssumption
<1>5. ExtraCtrl(format, d) \in Nat
  BY <1>4, TddSlotAssumption DEF ExtraCtrl, AtLeast0
<1>6. AdditionalCtrl(format, d) \in Nat
  <2>1. AdditionalCtrl(format, d) = ExtraCtrl(format, d) \div SlotsOf(format, d)
    BY DEF AdditionalCtrl
  <2>2. \A x \in Nat, y \in Nat \ {0} : x \div y \in Nat
    OBVIOUS
  <2> QED
    BY <1>4, <1>5, <2>1, <2>2
<1> QED
  BY <1>4, <1>6

(* The slots format only takes symbols.                                    *)
LEMMA SizeBounds ==
  ASSUME KnownUes, NEW more
  PROVE  LET size == SizeOf(scenario.layer, scenario.format, Kind, more)
         IN  /\ size \in Int /\ size <= LayerSize(scenario.layer)
             /\ Kind \notin Dirs => size = LayerSize(scenario.layer)
<1>1. scenario.layer \in Layers /\ LayerSize(scenario.layer) \in Nat
  BY KnownLayer, LayerBounds
<1>2. CASE Kind \notin Dirs
  BY <1>1, <1>2 DEF SizeOf
<1>3. CASE Kind \in Dirs
  <2>1. scenario.format # <<>>
    BY <1>3 DEF Kind, Dirs
  <2>2. AdditionalCtrl(scenario.format, Kind) \in Nat
    <3>1. scenario \in Scenarios /\ scenario.format \in Seq(Dirs \cup {"switch"})
      BY ScenarioAssumption DEF KnownUes
    <3>2. \A d \in Dirs : SlotsOf(scenario.format, d) > 0
      BY <2>1, <3>1, FormatAssumption
    <3>3. \A d \in Dirs : AdditionalCtrl(scenario.format, d) \in Nat
      BY <2>1, <3>1, <3>2, FormatSlots
    <3> QED
      BY <1>3, <3>3
  <2>3. SizeOf(scenario.layer, scenario.format, Kind, more) =
          LayerSize(scenario.layer) - AdditionalCtrl(scenario.format, Kind)
            - (IF more THEN 1 ELSE 0)
    BY <1>3 DEF SizeOf
  <2>4. ASSUME NEW x \in Nat, NEW y \in Nat
        PROVE  x - y - (IF more THEN 1 ELSE 0) \in Int /\ x - y - (IF more THEN 1 ELSE 0) <= x
    <3>1. CASE more
      BY <3>1
    <3>2. CASE ~more
      BY <3>2
    <3> QED
      BY <3>1, <3>2
  <2> QED
    BY <1>1, <1>3, <2>2, <2>3, <2>4
<1> QED
  BY <1>2, <1>3

(* What DoSchedTriggerReq starts a slot with.                              *)
RequestOf(more, size, dl, sw) ==
  /\ size = SizeOf(scenario.layer, scenario.format, Kind, more)
  /\ dl = ResvDlOf(Kind, size, resvDl) /\ sw = ResvSwitchOf(Kind, size, resvSwitch)
  /\ resvDl' = dl /\ resvSwitch' = sw
  /\ DOMAIN slot' = SlotFields
  /\ slot'.first = [d \in Dirs |-> IF d = "dl" THEN LayerFirst(scenario.layer)
                                   ELSE SymUlIdx(scenario.layer, size, dl, sw)]
  /\ slot'.avail = [d \in Dirs |-> IF d = "dl" THEN SymDlAvail(size, dl)
                                   ELSE SymUlAvail(size, dl, sw)]
  /\ slot'.retx = [d \in Dirs |-> [u \in Ues |-> 0]]
  /\ slot'.asked = [d \in Dirs |-> [u \in Ues |-> 0]]
  /\ slot'.given = [d \in Dirs |-> [u \in Ues |-> 0]]
  /\ slot'.ttis = <<>>

LEMMA RequestEffect ==
  ASSUME SchedTriggerReq
  PROVE  /\ phase = "trigger" /\ phase' = "harq_dl" /\ UNCHANGED <<scenario, dci>>
         /\ \E more, size, dl, sw : RequestOf(more, size, dl, sw)
<1> DEFINE more == Kind \in Dirs /\ moreCtrl[Kind] > 0
           size == SizeOf(scenario.layer, scenario.format, Kind, more)
           dl == ResvDlOf(Kind, size, resvDl)
           sw == ResvSwitchOf(Kind, size, resvSwitch)
           first == [d \in Dirs |-> IF d = "dl" THEN LayerFirst(scenario.layer)
                                    ELSE SymUlIdx(scenario.layer, size, dl, sw)]
           avail == [d \in Dirs |-> IF d = "dl" THEN SymDlAvail(size, dl)
                                    ELSE SymUlAvail(size, dl, sw)]
<1>1. /\ phase = "trigger" /\ phase' = "harq_dl" /\ UNCHANGED <<scenario, dci>>
      /\ resvDl' = dl /\ resvSwitch' = sw
      /\ slot' = [EmptySlot EXCEPT !.first = first, !.avail = avail]
  BY DEF SchedTriggerReq
<1> HIDE DEF first, avail
<1>2. /\ DOMAIN slot' = SlotFields
      /\ slot'.first = first /\ slot'.avail = avail
      /\ slot'.retx = [d \in Dirs |-> [u \in Ues |-> 0]]
      /\ slot'.asked = [d \in Dirs |-> [u \in Ues |-> 0]]
      /\ slot'.given = [d \in Dirs |-> [u \in Ues |-> 0]]
      /\ slot'.ttis = <<>>
  BY <1>1 DEF EmptySlot, SlotFields
<1>3. RequestOf(more, size, dl, sw)
  BY <1>1, <1>2 DEF RequestOf, first, avail
<1> HIDE DEF more, size, dl, sw
<1> QED
  BY <1>1, <1>3

(* The parts of the slot at its start.                                     *)
LEMMA RequestFits ==
  ASSUME KnownUes, Reservations, NEW more, NEW size, NEW dl, NEW sw,
         RequestOf(more, size, dl, sw)
  PROVE  /\ dl \in Int /\ dl <= SymbPerSlot /\ sw \in 0..SymbPerSlot
         /\ LET first == LayerFirst(scenario.layer)
                rest == SymDlAvail(size, dl)
            IN  /\ first \in Nat /\ rest \in Nat /\ rest <= LayerSize(scenario.layer)
                /\ SymUlIdx(scenario.layer, size, dl, sw) \in Nat
                /\ SymUlIdx(scenario.layer, size, dl, sw) = first + rest + sw
                /\ SymUlAvail(size, dl, sw) \in Nat
                /\ SymUlAvail(size, dl, sw) > 0 =>
                     first + rest + sw + SymUlAvail(size, dl, sw)
                       <= first + LayerSize(scenario.layer)
<1> DEFINE L == LayerSize(scenario.layer)
<1>1. /\ LayerFirst(scenario.layer) \in Nat /\ L \in Nat /\ L <= SymbPerSlot
      /\ SymbPerSlot \in Nat
  BY KnownLayer, LayerBounds, TddSlotAssumption
<1>2. size \in Int /\ size <= L
  BY SizeBounds DEF RequestOf
<1> HIDE DEF L
<1>3. dl \in Int /\ dl <= SymbPerSlot
  <2>1. dl \in {resvDl, size, 0}
    BY DEF RequestOf, ResvDlOf
  <2> QED
    BY <1>1, <1>2, <2>1 DEF Reservations
<1>4. sw \in 0..SymbPerSlot
  <2>1. sw \in {resvSwitch, 0, AtLeast0(size - SwitchUlSymbols)}
    BY DEF RequestOf, ResvSwitchOf
  <2> QED
    BY <1>1, <1>2, <2>1, TddSlotAssumption DEF AtLeast0, Reservations
<1>5. SymDlAvail(size, dl) \in Nat /\ SymDlAvail(size, dl) <= L
  BY <1>1, <1>2, <1>3 DEF SymDlAvail, AtLeast0, AtMost
<1>6. SymUlIdx(scenario.layer, size, dl, sw)
        = LayerFirst(scenario.layer) + SymDlAvail(size, dl) + sw
  BY DEF SymUlIdx
<1>7. /\ SymUlAvail(size, dl, sw) \in Nat
      /\ SymUlAvail(size, dl, sw) > 0 => SymDlAvail(size, dl) + sw + SymUlAvail(size, dl, sw) <= L
  BY <1>2, <1>4, <1>5 DEF SymUlAvail, AtLeast0
<1> HIDE DEF SymUlIdx, SymDlAvail, SymUlAvail
<1> QED
  BY <1>1, <1>3, <1>4, <1>5, <1>6, <1>7 DEF L

(* The format moves on at the start of a slot only.                        *)
LEMMA FormatStands ==
  ASSUME [Next]_vars PROVE SchedTriggerReq \/ UNCHANGED formatVars
<1>1. ASSUME NEW d \in Dirs, HarqFeedback(d) PROVE UNCHANGED formatVars
  BY <1>1 DEF HarqFeedback, PassOver, ReleaseProcess, Nack, Retransmit, Defer, Fail
<1>2. ASSUME NEW d \in Dirs, BeginSharing(d) \/ ShareSymbols(d) \/ Assign(d)
      PROVE  UNCHANGED formatVars
  BY <1>2 DEF BeginSharing, ShareSymbols, Assign, NewBlock, Fail
<1>3. ASSUME NEW d \in Dirs, EndFeedback(d) PROVE UNCHANGED formatVars
  BY <1>3 DEF EndFeedback
<1>4. ASSUME Arrive \/ Collect \/ SchedConfigInd PROVE UNCHANGED formatVars
  BY <1>4 DEF Arrive, Collect, SchedConfigInd
<1>5. ASSUME NEW u \in Ues, RemoveUe(u) PROVE UNCHANGED formatVars
  BY <1>5 DEF RemoveUe
<1> QED
  BY <1>1, <1>2, <1>3, <1>4, <1>5 DEF Next, vars

LEMMA NextReservations ==
  KnownUes /\ Reservations /\ [Next]_vars => Reservations'
<1> SUFFICES ASSUME KnownUes, Reservations, [Next]_vars PROVE Reservations'
  OBVIOUS
<1>1. CASE UNCHANGED formatVars
  BY <1>1 DEF Reservations, formatVars
<1>2. CASE SchedTriggerReq
  <2>1. PICK more, size, dl, sw : RequestOf(more, size, dl, sw)
    BY <1>2, RequestEffect
  <2> QED
    BY <2>1, RequestFits DEF Reservations, RequestOf
<1> QED
  BY <1>1, <1>2, FormatStands

LEMMA InitReservations == Init => Reservations
<1> SUFFICES ASSUME Init PROVE Reservations
  OBVIOUS
<1>1. scenario \in Scenarios /\ resvDl = scenario.resvDl /\ resvSwitch = scenario.resvSwitch
  BY DEF Init
<1> QED
  BY <1>1, ScenarioAssumption, TddSlotAssumption DEF Reservations

--------------------------------------------------------------------------------
(* The types of the slot and the parts of the directions in it.            *)
LEMMA EmptySlotTyped ==
  /\ EmptySlot.first \in [Dirs -> Nat] /\ EmptySlot.avail \in [Dirs -> Nat]
  /\ EmptySlot.retx \in [Dirs -> [Ues -> Nat]] /\ EmptySlot.asked \in [Dirs -> [Ues -> Nat]]
  /\ EmptySlot.given \in [Dirs -> [Ues -> Nat]] /\ EmptySlot.ttis = <<>>
BY DEF EmptySlot

LEMMA NoTtisTyped == <<>> \in Seq(TtiType) /\ DOMAIN <<>> = {}
OBVIOUS

LEMMA InitTyped == Init => SlotTyped /\ SymbolsApart
<1> SUFFICES ASSUME Init PROVE SlotTyped /\ SymbolsApart
  OBVIOUS
<1>1. slot = EmptySlot /\ phase = "arrive" /\ dci = [b \in Blocks |-> NoDci]
  BY DEF Init
<1>2. \A b \in Blocks : dci[b].numSym \in 0..SymbPerSlot
  BY <1>1, TddSlotAssumption DEF NoDci
<1> QED
  BY <1>1, <1>2, EmptySlotTyped, NoTtisTyped DEF SlotTyped, SymbolsApart, Open

(* The steps that start and end a slot.                                    *)
LEMMA RequestSymbols ==
  ASSUME KnownUes, Reservations, SlotTyped, SchedTriggerReq
  PROVE  SlotTyped' /\ SymbolsApart'
<1>1. UNCHANGED <<scenario, dci>>
  BY RequestEffect
<1>2. PICK more, size, dl, sw : RequestOf(more, size, dl, sw)
  BY RequestEffect
<1> DEFINE first == LayerFirst(scenario.layer)
           rest == SymDlAvail(size, dl)
           idx == SymUlIdx(scenario.layer, size, dl, sw)
           ul == SymUlAvail(size, dl, sw)
           L == LayerSize(scenario.layer)
<1>3. /\ sw \in Nat
      /\ first \in Nat /\ rest \in Nat /\ rest <= L /\ idx \in Nat /\ idx = first + rest + sw
      /\ ul \in Nat /\ (ul > 0 => first + rest + sw + ul <= first + L)
  <2>1. SymbPerSlot \in Nat
    BY TddSlotAssumption
  <2> QED
    BY <1>2, <2>1, RequestFits
<1>4. L \in Nat
  BY KnownLayer, LayerBounds
<1>5. /\ slot'.first = [d \in Dirs |-> IF d = "dl" THEN first ELSE idx]
      /\ slot'.avail = [d \in Dirs |-> IF d = "dl" THEN rest ELSE ul]
      /\ slot'.retx \in [Dirs -> [Ues -> Nat]] /\ slot'.asked \in [Dirs -> [Ues -> Nat]]
      /\ slot'.given \in [Dirs -> [Ues -> Nat]] /\ slot'.ttis = <<>>
  BY <1>2 DEF RequestOf
<1>6. LayerEnd' = first + L /\ LayerFirst(scenario.layer)' = first
  BY <1>1 DEF LayerEnd
<1> HIDE DEF first, rest, idx, ul, L
<1>7. SlotTyped'
  BY <1>1, <1>3, <1>5, NoTtisTyped DEF SlotTyped
<1>8. BetweenDirs' = first + rest /\ slot'.first["dl"] = first /\ slot'.first["ul"] = idx
      /\ slot'.avail["ul"] = ul
  BY <1>5 DEF BetweenDirs, Dirs
<1>9. PartsApart'
  BY <1>3, <1>4, <1>6, <1>8 DEF PartsApart
<1> QED
  BY <1>5, <1>7, <1>9, NoTtisTyped DEF SymbolsApart, TtisApart

(* Steps that leave the symbols that are taken alone.                      *)
LEMMA SymbolsStand ==
  ASSUME SymbolsApart, Open, scenario' = scenario,
         slot'.first = slot.first, slot'.avail = slot.avail, slot'.ttis = slot.ttis
  PROVE  SymbolsApart'
<1>1. LayerEnd' = LayerEnd /\ BetweenDirs' = BetweenDirs
  BY DEF LayerEnd, BetweenDirs
<1>2. PartsApart' /\ TtisApart'
  BY <1>1 DEF SymbolsApart, PartsApart, TtisApart
<1>3. \A i \in DOMAIN slot'.ttis : InItsPart(slot.ttis[i])'
  BY <1>1 DEF SymbolsApart, InItsPart
<1> QED
  BY <1>2, <1>3 DEF SymbolsApart

(* A block takes the next symbols of its direction, that are there.        *)
LEMMA TakenSymbols ==
  ASSUME KnownUes, SlotTyped, SymbolsApart, Open, scenario' = scenario,
         NEW d \in Dirs, NEW u \in Ues, NEW n \in Nat, n <= slot.avail[d], slot.avail[d] > 0,
         slot'.first = [slot.first EXCEPT ![d] = slot.first[d] + n],
         slot'.avail = [slot.avail EXCEPT ![d] = slot.avail[d] - n],
         slot'.ttis = Append(slot.ttis, Tti(d, u, slot.first[d], n))
  PROVE  /\ slot'.first \in [Dirs -> Nat] /\ slot'.avail \in [Dirs -> Nat]
         /\ slot'.ttis \in Seq(TtiType)
         /\ SymbolsApart'
         /\ slot.first[d] + n <= LastSymbol
<1> DEFINE t == Tti(d, u, slot.first[d], n)
           F == LayerFirst(scenario.layer)
<1>0. n <= slot.avail[d] /\ slot.avail[d] > 0
  OBVIOUS
<1>1. /\ F \in Nat /\ LayerSize(scenario.layer) \in Nat /\ LayerEnd <= LastSymbol
      /\ LayerEnd \in Nat /\ LayerEnd' = LayerEnd /\ LayerFirst(scenario.layer)' = F
      /\ LastSymbol \in Int
  BY KnownLayer, LayerBounds, TddSlotAssumption DEF LayerEnd, LastSymbol, SymAvail
<1>2. /\ slot.first \in [Dirs -> Nat] /\ slot.avail \in [Dirs -> Nat]
      /\ slot.ttis \in Seq(TtiType)
  BY DEF SlotTyped
<1>3. /\ t.dir = d /\ t.from = slot.first[d] /\ t.to = slot.first[d] + n - 1 /\ t \in TtiType
  BY <1>2 DEF Tti, TtiType
<1>4. /\ slot'.first \in [Dirs -> Nat] /\ slot'.avail \in [Dirs -> Nat]
      /\ slot'.first[d] = slot.first[d] + n /\ slot'.avail[d] = slot.avail[d] - n
      /\ \A e \in Dirs : e # d => slot'.first[e] = slot.first[e] /\ slot'.avail[e] = slot.avail[e]
  BY <1>2
<1> HIDE DEF t
<1>5. /\ DOMAIN slot.ttis = 1..Len(slot.ttis) /\ Len(slot.ttis) \in Nat
      /\ DOMAIN slot'.ttis = 1..(Len(slot.ttis) + 1)
      /\ slot'.ttis[Len(slot.ttis) + 1] = t
      /\ \A i \in DOMAIN slot.ttis : slot'.ttis[i] = slot.ttis[i] /\ slot.ttis[i] \in TtiType
      /\ slot'.ttis \in Seq(TtiType)
  <2>1. slot'.ttis = Append(slot.ttis, t)
    BY DEF t
  <2> QED
    BY <1>2, <1>3, <2>1
<1>6. \A i \in DOMAIN slot'.ttis :
        \/ i \in DOMAIN slot.ttis /\ slot'.ttis[i] = slot.ttis[i]
        \/ i = Len(slot.ttis) + 1 /\ slot'.ttis[i] = t
  BY <1>5
<1>7. PartsApart /\ (\A i \in DOMAIN slot.ttis : InItsPart(slot.ttis[i])) /\ TtisApart
  BY DEF SymbolsApart
<1>8. /\ slot.first["dl"] \in Nat /\ slot.first["ul"] \in Nat
      /\ slot.avail["dl"] \in Nat /\ slot.avail["ul"] \in Nat
      /\ F <= slot.first["dl"] /\ BetweenDirs <= LayerEnd /\ BetweenDirs <= slot.first["ul"]
      /\ slot.avail["ul"] > 0 => slot.first["ul"] + slot.avail["ul"] <= LayerEnd
      /\ BetweenDirs = slot.first["dl"] + slot.avail["dl"]
  BY <1>2, <1>7 DEF PartsApart, BetweenDirs, Dirs
<1>9. BetweenDirs' = BetweenDirs
  <2>1. BetweenDirs' = slot'.first["dl"] + slot'.avail["dl"] /\ "dl" \in Dirs
    BY DEF BetweenDirs, Dirs
  <2>2. CASE d = "dl"
    BY <1>4, <1>8, <2>1, <2>2
  <2>3. CASE d # "dl"
    BY <1>4, <1>8, <2>1, <2>3
  <2> QED
    BY <2>2, <2>3
<1>10. slot.first[d] + n <= LayerEnd /\ F <= slot.first[d]
       /\ (d = "ul" => BetweenDirs <= slot.first[d])
       /\ (d = "dl" => slot.first[d] + n <= BetweenDirs)
  BY ONLY <1>0, <1>1, <1>8 DEF Dirs
<1>11. PartsApart'
  <2>1. CASE d = "dl"
    BY ONLY <1>0, <1>1, <1>4, <1>8, <1>9, <2>1 DEF PartsApart, Dirs
  <2>2. CASE d = "ul"
    BY ONLY <1>0, <1>1, <1>4, <1>8, <1>9, <2>2 DEF PartsApart, Dirs
  <2> QED
    BY <2>1, <2>2 DEF Dirs
<1>12. ASSUME NEW i \in DOMAIN slot.ttis PROVE InItsPart(slot.ttis[i])'
  <2>1. slot.ttis[i].dir \in Dirs /\ slot.ttis[i].to \in Int /\ slot.ttis[i].from \in Nat
    BY <1>5 DEF TtiType
  <2>2. slot'.first[slot.ttis[i].dir] >= slot.first[slot.ttis[i].dir]
    BY <1>2, <1>4, <2>1
  <2>3. slot.ttis[i].to < slot'.first[slot.ttis[i].dir]
    BY ONLY <1>2, <1>4, <1>7, <2>1, <2>2 DEF InItsPart
  <2> QED
    BY <1>1, <1>5, <1>7, <1>9, <2>3 DEF InItsPart
<1>13. ASSUME NEW i \in DOMAIN slot'.ttis PROVE InItsPart(slot.ttis[i])'
  <2>1. CASE i \in DOMAIN slot.ttis
    BY <1>12, <2>1
  <2>2. CASE slot'.ttis[i] = t
    <3>1. t.to < slot'.first[d] /\ t.to < LayerEnd
      BY <1>1, <1>2, <1>3, <1>4, <1>10
    <3> QED
      BY <1>1, <1>3, <1>9, <1>10, <2>2, <3>1 DEF InItsPart
  <2> QED
    BY <1>6, <2>1, <2>2
<1>14. ASSUME NEW i \in DOMAIN slot.ttis
       PROVE  slot.ttis[i].to < t.from \/ t.to < slot.ttis[i].from
  <2>1. slot.ttis[i].dir \in Dirs /\ slot.ttis[i].to \in Int /\ slot.ttis[i].from \in Nat
    BY <1>5 DEF TtiType
  <2>2. /\ slot.ttis[i].to < slot.first[slot.ttis[i].dir]
        /\ slot.ttis[i].dir = "ul" => BetweenDirs <= slot.ttis[i].from
    BY <1>7 DEF InItsPart
  <2>3. CASE slot.ttis[i].dir = d
    BY <1>3, <2>2, <2>3
  <2>4. CASE d = "dl" /\ slot.ttis[i].dir = "ul"
    BY ONLY <1>2, <1>3, <1>8, <1>10, <2>1, <2>2, <2>4
  <2>5. CASE d = "ul" /\ slot.ttis[i].dir = "dl"
    BY ONLY <1>3, <1>8, <2>1, <2>2, <2>5
  <2> QED
    BY <2>1, <2>3, <2>4, <2>5 DEF Dirs
<1>15. TtisApart'
  <2> SUFFICES ASSUME NEW i \in DOMAIN slot'.ttis, NEW j \in DOMAIN slot'.ttis, i # j
               PROVE  \/ slot'.ttis[i].to < slot'.ttis[j].from
                      \/ slot'.ttis[j].to < slot'.ttis[i].from
    BY DEF TtisApart
  <2> QED
    BY <1>6, <1>7, <1>14 DEF TtisApart
<1>16. SymbolsApart'
  BY <1>11, <1>13, <1>15 DEF SymbolsApart
<1>17. slot.first[d] + n <= LastSymbol
  <2>1. slot.first[d] \in Nat
    BY <1>2
  <2> QED
    BY <1>1, <1>10, <2>1
<1> QED
  BY <1>4, <1>5, <1>16, <1>17

(* The assertion on the last symbol holds wherever symbols are left.       *)
LEMMA SymbolsReach ==
  ASSUME KnownUes, SlotTyped, SymbolsApart, Open, NEW d \in Dirs, NEW n \in Nat,
         n <= slot.avail[d], slot.avail[d] > 0
  PROVE  slot.first[d] + n <= LastSymbol /\ slot.first[d] <= LastSymbol
<1>1. /\ LayerEnd <= LastSymbol /\ LayerEnd \in Nat /\ LastSymbol \in Int
  BY KnownLayer, LayerBounds, TddSlotAssumption DEF LayerEnd, LastSymbol, SymAvail
<1>2. /\ slot.first["dl"] \in Nat /\ slot.first["ul"] \in Nat
      /\ slot.avail["dl"] \in Nat /\ slot.avail["ul"] \in Nat
  BY DEF SlotTyped, Dirs
<1>3. /\ BetweenDirs <= LayerEnd
      /\ slot.avail["ul"] > 0 => slot.first["ul"] + slot.avail["ul"] <= LayerEnd
      /\ BetweenDirs = slot.first["dl"] + slot.avail["dl"]
  BY DEF SymbolsApart, PartsApart, BetweenDirs
<1> QED
  BY <1>1, <1>2, <1>3 DEF Dirs

LEMMA FeedbackSymbols ==
  ASSUME SchedulerInv, KnownUes, Queues, SlotTyped, SymbolsApart, NEW d \in Dirs, HarqFeedback(d),
         failure = "none"
  PROVE  SlotTyped' /\ SymbolsApart' /\ failure' # "assertion of the last symbol"
<1>1. /\ phase = HarqPhase(d) /\ harqInfoList[d] # <<>> /\ slot.avail[d] > 0
      /\ UNCHANGED <<scenario, phase>>
  BY FeedbackEffect DEF SchedulerInv
<1>2. Open /\ Open'
  BY <1>1 DEF Open, HarqPhase
<1>3. ASSUME UNCHANGED <<slot, dci>> PROVE SlotTyped' /\ SymbolsApart'
  BY <1>1, <1>2, <1>3, SymbolsStand DEF SlotTyped
<1> DEFINE b == AnsweredBlock(d)  u == FirstAnswer(d).ue
<1>4. FirstAnswer(d) \in Answered /\ u \in Ues /\ b \in Blocks
  <2>1. FirstAnswer(d) \in Answered
    BY <1>1 DEF Queues, QueuesOf, FirstAnswer
  <2>2. u \in Ues /\ FirstAnswer(d).proc \in Procs
    BY <2>1, KnownLayer DEF Answered
  <2> QED
    BY <2>1, <2>2 DEF AnsweredBlock, Blocks
<1>5. dci[b].numSym \in Nat /\ slot.avail[d] \in Nat
  BY <1>4, TddSlotAssumption DEF SlotTyped
<1>6. Fits(b) => dci[b].numSym <= slot.avail[d]
  BY <1>5 DEF Fits, AnsweredBlock
<1>7. CASE Fail("feedback of an unknown UE") \/ Fail("assertion of the redundancy version")
  BY <1>3, <1>7 DEF Fail, harqVars
<1>8. ~(Fits(b) /\ slot.first[d] + dci[b].numSym > LastSymbol)
  <2>1. Fits(b) => slot.first[d] + dci[b].numSym <= LastSymbol
    BY <1>1, <1>2, <1>5, <1>6, SymbolsReach
  <2>2. slot.first[d] \in Nat /\ LastSymbol \in Int
    BY TddSlotAssumption DEF SlotTyped, LastSymbol
  <2> QED
    BY <1>5, <2>1, <2>2
<1>9. CASE Settled(d)
  BY <1>3, <1>9 DEF Settled
<1>10. CASE Deferred(d)
  BY <1>3, <1>10 DEF Deferred, harqVars
<1>11. CASE Retransmits(d)
  <2> DEFINE n == dci[b].numSym
  <2>1. /\ slot'.first = [slot.first EXCEPT ![d] = slot.first[d] + n]
        /\ slot'.avail = [slot.avail EXCEPT ![d] = slot.avail[d] - n]
        /\ slot'.ttis = Append(slot.ttis, Tti(d, u, slot.first[d], n))
        /\ slot'.retx = [slot.retx EXCEPT ![d][u] = n]
        /\ slot'.asked = slot.asked /\ slot'.given = slot.given
        /\ dci' = [dci EXCEPT ![b].rv = dci[b].rv + 1]
        /\ Fits(b)
    BY <1>11 DEF Retransmits
  <2>2. /\ slot'.first \in [Dirs -> Nat] /\ slot'.avail \in [Dirs -> Nat]
        /\ slot'.ttis \in Seq(TtiType) /\ SymbolsApart'
    <3>1. n \in Nat /\ n <= slot.avail[d]
      BY <1>5, <1>6, <2>1
    <3> HIDE DEF n, b, u
    <3> QED
      BY <1>1, <1>2, <1>4, <2>1, <3>1, TakenSymbols
  <2>3. slot'.retx \in [Dirs -> [Ues -> Nat]]
    <3> HIDE DEF b, u
    <3> QED
      BY <1>4, <1>5, <2>1 DEF SlotTyped
  <2>4. \A c \in Blocks : dci'[c].numSym = dci[c].numSym
    BY <2>1 DEF SchedulerInv, BooksAgree
  <2>5. slot'.asked \in [Dirs -> [Ues -> Nat]] /\ slot'.given \in [Dirs -> [Ues -> Nat]]
    BY <2>1 DEF SlotTyped
  <2>6. \A c \in Blocks : dci'[c].numSym \in 0..SymbPerSlot
    BY <2>4 DEF SlotTyped
  <2>7. failure' # "assertion of the last symbol"
    BY <1>11 DEF Retransmits
  <2> HIDE DEF b, u
  <2> QED
    BY <2>2, <2>3, <2>5, <2>6, <2>7 DEF SlotTyped
<1> QED
  BY <1>7, <1>8, <1>9, <1>10, <1>11, FeedbackEffect DEF SchedulerInv, Fail

(* The parts that only the demand changes.                                 *)
LEMMA CollectSymbols ==
  ASSUME SchedulerInv, KnownUes, SlotTyped, SymbolsApart, Collect
  PROVE  SlotTyped' /\ SymbolsApart'
<1>1. /\ phase = "collect" /\ SameBlocks /\ slot'.given = slot.given
      /\ UNCHANGED <<scenario, dci>>
      /\ phase' \in {"end", "begin_dl"}
  BY CollectEffect DEF SchedulerInv, harqVars
<1>2. slot'.asked \in [Dirs -> [Ues -> Nat]]
  <2>1. CASE slot' = slot
    BY <2>1 DEF SlotTyped
  <2>2. CASE /\ \A d \in Dirs, u \in Ues : slot'.asked[d][u] \in scenario.traffic[d]
             /\ DOMAIN slot'.asked = Dirs /\ \A d \in Dirs : DOMAIN slot'.asked[d] = Ues
    <3>1. \A d \in Dirs : scenario.traffic[d] \subseteq Nat
      BY ScenarioAssumption DEF KnownUes
    <3>2. PICK asked \in [Dirs -> [Ues -> UNION {scenario.traffic[d] : d \in Dirs}]] :
            slot'.asked = asked \/ slot' = slot
      <4>1. PICK asked \in [Dirs -> [Ues -> UNION {scenario.traffic[d] : d \in Dirs}]] :
              LET ueInfo == slot.ueInfo \cup {u \in Ues : \E d \in Dirs : asked[d][u] > 0}
                  start == IF nextRnti \in ueInfo THEN nextRnti ELSE Min(ueInfo)
              IN  IF ueInfo = {} THEN slot' = slot /\ phase' = "end"
                  ELSE /\ slot' = [slot EXCEPT !.asked = asked, !.ueInfo = ueInfo,
                                               !.start = start, !.cur = start]
                       /\ phase' = "begin_dl"
        BY DEF Collect
      <4> DEFINE ueInfo == slot.ueInfo \cup {u \in Ues : \E d \in Dirs : asked[d][u] > 0}
                 start == IF nextRnti \in ueInfo THEN nextRnti ELSE Min(ueInfo)
      <4>2. slot' = slot \/ slot' = [slot EXCEPT !.asked = asked, !.ueInfo = ueInfo,
                                                 !.start = start, !.cur = start]
        BY <4>1
      <4> HIDE DEF ueInfo, start
      <4>3. slot' = slot \/ slot'.asked = asked
        BY <4>2 DEF SchedulerInv, SlotAgrees, SlotFields
      <4> QED
        BY <4>3
    <3>3. UNION {scenario.traffic[d] : d \in Dirs} \subseteq Nat
      BY <3>1
    <3>4. asked \in [Dirs -> [Ues -> Nat]]
      BY <3>2, <3>3
    <3> QED
      BY <2>1, <3>2, <3>4
  <2> QED
    BY <2>1, <2>2, CollectEffect DEF SchedulerInv
<1>3. SlotTyped'
  BY <1>1, <1>2 DEF SlotTyped, SameBlocks
<1>4. SymbolsApart'
  BY <1>1, SymbolsStand DEF SameBlocks, Open
<1> QED
  BY <1>3, <1>4

LEMMA BeginSymbols ==
  ASSUME SchedulerInv, SlotTyped, SymbolsApart, NEW d \in Dirs, BeginSharing(d)
  PROVE  SlotTyped' /\ SymbolsApart'
<1>1. /\ phase = BeginPhase(d) /\ SameBlocks /\ SameDemand /\ slot'.given = slot.given
      /\ UNCHANGED <<scenario, dci>>
  BY BeginEffect DEF SchedulerInv, harqVars
<1>2. SymbolsApart'
  BY <1>1, SymbolsStand DEF SameBlocks, Open, BeginPhase
<1> QED
  BY <1>1, <1>2 DEF SlotTyped, SameBlocks, SameDemand

LEMMA EndSymbols ==
  ASSUME SlotTyped, SchedConfigInd
  PROVE  SlotTyped' /\ SymbolsApart'
<1>1. slot' = EmptySlot /\ phase' = "arrive" /\ dci' = dci
  BY DEF SchedConfigInd, harqVars
<1>2. SlotTyped'
  BY <1>1, EmptySlotTyped, NoTtisTyped DEF SlotTyped
<1>3. SymbolsApart'
  BY <1>1 DEF SymbolsApart, Open
<1> QED
  BY <1>2, <1>3

LEMMA BetweenSlotsSymbols ==
  ASSUME SlotTyped, SymbolsApart, phase \in {"arrive", "trigger"},
         Arrive \/ \E u \in Ues : RemoveUe(u)
  PROVE  SlotTyped' /\ SymbolsApart'
<1>1. slot' = slot /\ phase' \in {"arrive", "trigger"}
  BY DEF Arrive, RemoveUe
<1>2. \A b \in Blocks : dci'[b].numSym \in 0..SymbPerSlot
  <2>1. CASE Arrive
    BY <2>1 DEF Arrive, SlotTyped
  <2>2. ASSUME NEW u \in Ues, RemoveUe(u) PROVE \A b \in Blocks : dci'[b].numSym \in 0..SymbPerSlot
    <3>1. dci' = [b \in Blocks |-> IF b[2] = u THEN NoDci ELSE dci[b]]
      BY <2>2 DEF RemoveUe
    <3>2. NoDci.numSym \in 0..SymbPerSlot
      BY TddSlotAssumption DEF NoDci
    <3> QED
      BY <3>1, <3>2 DEF SlotTyped
  <2> QED
    BY <2>1, <2>2
<1>3. SlotTyped'
  BY <1>1, <1>2 DEF SlotTyped
<1> QED
  BY <1>1, <1>3 DEF SymbolsApart, Open

(* What is owed to the UEs is there, so a new block finds its symbols.     *)
LEMMA OwedType ==
  ASSUME SlotTyped, NEW d \in Dirs
  PROVE  /\ Owed(d) \in [Ues -> Nat] /\ slot.given[d] \in [Ues -> Nat]
         /\ slot.asked[d] \in [Ues -> Nat]
         /\ SumFunction(Owed(d)) \in Nat /\ TotalGiven(d) \in Nat /\ TotalAsked(d) \in Nat
         /\ IsFiniteSet(Ues)
<1>1. /\ slot.given[d] \in [Ues -> Nat] /\ slot.asked[d] \in [Ues -> Nat]
  BY DEF SlotTyped
<1>2. Owed(d) \in [Ues -> Nat]
  BY <1>1 DEF Owed
<1> QED
  BY <1>1, <1>2, SchedulerAssumption, SumType DEF TotalGiven, TotalAsked

LEMMA GrantIsThere ==
  ASSUME SchedulerInv, SlotTyped, GrantsFit, NEW d \in Dirs, phase = AssignPhase(d)
  PROVE  /\ slot.cur \in Ues /\ Pending(d, slot.cur)
         /\ slot.given[d][slot.cur] \in Nat
         /\ slot.given[d][slot.cur] <= slot.avail[d]
<1>1. slot.cur \in Ues /\ slot.start \in Ues
  BY DEF SchedulerInv, SlotAgrees, AssignPhase, Sharing
<1>2. Pending(d, slot.cur)
  <2>1. ~Before(slot.cur, slot.cur)
    BY <1>1, NotBeforeItself, SchedulerAssumption
  <2> QED
    BY <2>1 DEF Pending, AssignPhase, Dirs
<1>3. /\ Owed(d) \in [Ues -> Nat] /\ slot.given[d] \in [Ues -> Nat] /\ IsFiniteSet(Ues)
      /\ SumFunction(Owed(d)) \in Nat
  BY OwedType
<1>4. Owed(d)[slot.cur] = slot.given[d][slot.cur]
  BY <1>1, <1>2 DEF Owed
<1>5. Owed(d)[slot.cur] <= SumFunction(Owed(d))
  BY <1>1, <1>3, SumIsAbove
<1>6. SumFunction(Owed(d)) <= slot.avail[d] /\ slot.avail[d] \in Nat
  BY DEF GrantsFit, SlotTyped
<1>7. slot.given[d][slot.cur] \in Nat
  BY <1>1, <1>3
<1> HIDE DEF Owed
<1> QED
  BY <1>1, <1>2, <1>3, <1>4, <1>5, <1>6, <1>7

(* The turns of the assignment: nobody comes to be pending, and who was    *)
(* given a block is not any more.                                          *)
LEMMA TurnIsOver ==
  ASSUME SchedulerInv, NEW d \in Dirs, phase = AssignPhase(d), TurnPasses(d), SameDemand
  PROVE  \A e \in Dirs, v \in Ues :
           Pending(e, v)' => Pending(e, v) /\ ~(e = d /\ v = slot.cur)
<1>1. slot.cur \in slot.ueInfo /\ slot.start \in slot.ueInfo /\ slot.ueInfo \subseteq Ues
  BY DEF AssignPhase, SchedulerInv, SlotAgrees, Sharing
<1>2. slot.ueInfo \subseteq Nat /\ slot.cur \in Nat /\ Ues \subseteq Nat
  BY <1>1, SchedulerAssumption
<1>3. NextUe(slot.cur) # slot.start =>
        \A v \in Nat : Before(v, slot.cur) \/ v = slot.cur => Before(v, NextUe(slot.cur))
  BY <1>1, <1>2, NextUeGoesRound
<1>4. CASE d = "dl"
  <2>1. phase = "assign_dl" /\ phase' = "assign_ul" /\ slot'.cur = slot.cur
        /\ slot'.start = slot.start
    BY <1>4 DEF AssignPhase, TurnPasses, SameDemand
  <2>2. ASSUME NEW e \in Dirs, NEW v \in Ues, Pending(e, v)'
        PROVE  Pending(e, v) /\ ~(e = d /\ v = slot.cur)
    <3>1. Before(v, slot.cur)' <=> Before(v, slot.cur)
      BY <2>1 DEF Before
    <3> QED
      BY <1>4, <2>1, <2>2, <3>1 DEF Pending
  <2> QED
    BY <2>2
<1>5. CASE d = "ul"
  <2> DEFINE next == NextUe(slot.cur)
  <2>1. /\ phase = "assign_ul" /\ slot'.cur = next /\ slot'.start = slot.start
        /\ phase' = IF next = slot.start THEN "end" ELSE "assign_dl"
    BY <1>5 DEF AssignPhase, TurnPasses, SameDemand, PassEnds
  <2>2. CASE next = slot.start
    BY <2>1, <2>2 DEF Pending
  <2>3. CASE next # slot.start
    <3>1. ASSUME NEW e \in Dirs, NEW v \in Ues, Pending(e, v)'
          PROVE  Pending(e, v) /\ ~(e = d /\ v = slot.cur)
      <4>1. phase' = "assign_dl"
        BY <2>1, <2>3
      <4>2. ~Before(v, slot.cur)'
        BY <3>1, <4>1 DEF Pending
      <4>3. Before(v, slot.cur)' <=> Before(v, next)
        BY <2>1 DEF Before
      <4>4. v \in Nat
        BY <1>2
      <4>5. ~Before(v, slot.cur) /\ v # slot.cur
        BY <1>3, <2>3, <4>2, <4>3, <4>4 DEF next
      <4> QED
        BY <2>1, <4>5 DEF Pending
    <3> QED
      BY <3>1
  <2> QED
    BY <2>2, <2>3
<1> QED
  BY <1>4, <1>5 DEF Dirs

LEMMA OwedShrinks ==
  ASSUME SlotTyped, SlotTyped', NEW d \in Dirs, slot'.given[d] = slot.given[d],
         \A v \in Ues : Pending(d, v)' => Pending(d, v)
  PROVE  SumFunction(Owed(d))' <= SumFunction(Owed(d))
<1>1. Owed(d) \in [Ues -> Nat] /\ IsFiniteSet(Ues) /\ slot.given[d] \in [Ues -> Nat]
  BY OwedType
<1> DEFINE o == [v \in Ues |-> IF Pending(d, v)' THEN slot'.given[d][v] ELSE 0]
<1>2. \A v \in Ues : o[v] <= Owed(d)[v] /\ o[v] \in Nat
  BY <1>1 DEF Owed
<1>3. o \in [Ues -> Nat]
  BY <1>2
<1>4. SumFunction(Owed(d))' = SumFunction(o)
  BY DEF Owed
<1>5. SumFunction(o) <= SumFunction(Owed(d))
  <2> HIDE DEF o, Owed
  <2> QED
    BY <1>1, <1>2, <1>3, SumMonotone
<1> QED
  BY <1>4, <1>5

LEMMA NothingIsOwed ==
  ASSUME NEW d \in Dirs, \A v \in Ues : slot'.given[d][v] = 0 \/ ~Pending(d, v)'
  PROVE  SumFunction(Owed(d))' = 0
<1> DEFINE o == [v \in Ues |-> IF Pending(d, v)' THEN slot'.given[d][v] ELSE 0]
<1>1. \A v \in Ues : o[v] = 0
  OBVIOUS
<1>2. o \in [Ues -> Nat]
  BY <1>1
<1>3. SumFunction(Owed(d))' = SumFunction(o)
  BY DEF Owed
<1>4. SumFunction(o) = 0
  <2> HIDE DEF o
  <2> QED
    BY <1>1, <1>2, SumOfZeros, SchedulerAssumption
<1> QED
  BY <1>3, <1>4

(* A new block, or a turn without one.                                     *)
LEMMA AssignSymbols ==
  ASSUME SchedulerInv, KnownUes, SlotTyped, SymbolsApart, GrantsFit, NEW d \in Dirs, Assign(d),
         failure = "none"
  PROVE  SlotTyped' /\ SymbolsApart' /\ failure' # "assertion of the last symbol"
<1> DEFINE n == slot.given[d][slot.cur]  u == slot.cur
<1>1. phase = AssignPhase(d) /\ UNCHANGED scenario /\ Open
  BY AssignEffect DEF SchedulerInv, Open, AssignPhase
<1>2. u \in Ues /\ n \in Nat /\ n <= slot.avail[d]
  BY <1>1, GrantIsThere
<1>3. slot.avail[d] \in Nat /\ slot.first[d] \in Nat /\ LastSymbol \in Int
  BY TddSlotAssumption DEF SlotTyped, LastSymbol
<1>4. n > 0 => ~(slot.first[d] + (IF d = "dl" THEN n ELSE 0) > LastSymbol)
  <2> SUFFICES ASSUME n > 0 PROVE ~(slot.first[d] + (IF d = "dl" THEN n ELSE 0) > LastSymbol)
    OBVIOUS
  <2>1. slot.avail[d] > 0
    BY <1>2, <1>3
  <2>2. slot.first[d] + n <= LastSymbol /\ slot.first[d] <= LastSymbol
    <3> HIDE DEF n
    <3> QED
      BY <1>1, <1>2, <2>1, SymbolsReach
  <2> HIDE DEF n
  <2> QED
    BY <1>2, <1>3, <2>2
<1>5. CASE Fail("assertion of a free process")
  <2>1. UNCHANGED <<slot, dci>> /\ failure' # "assertion of the last symbol"
    BY <1>5 DEF Fail, harqVars
  <2>2. SymbolsApart'
    BY <1>1, <2>1, SymbolsStand
  <2> QED
    BY <2>1, <2>2 DEF SlotTyped
<1>6. CASE SameBlocks /\ SameDemand /\ slot'.given = slot.given /\ UNCHANGED <<dci, failure>>
  <2>1. SymbolsApart'
    BY <1>1, <1>6, SymbolsStand DEF SameBlocks
  <2>2. SlotTyped'
    BY <1>6 DEF SlotTyped, SameBlocks, SameDemand
  <2> QED
    BY <1>6, <2>1, <2>2
<1>7. CASE /\ n > 0 /\ FreeProcess(d, slot.cur) # NoProcess /\ UNCHANGED failure
           /\ dci' = [dci EXCEPT ![BlockOf(d)] = [rv |-> 0, numSym |-> n]]
           /\ slot'.first = [slot.first EXCEPT ![d] = slot.first[d] + n]
           /\ slot'.avail = [slot.avail EXCEPT ![d] = slot.avail[d] - n]
           /\ slot'.ttis = Append(slot.ttis, Tti(d, u, slot.first[d], n))
           /\ slot'.retx = slot.retx /\ SameDemand /\ slot'.given = slot.given
  <2>1. slot.avail[d] > 0
    BY <1>2, <1>3, <1>7
  <2> HIDE DEF n, u
  <2>2. /\ slot'.first \in [Dirs -> Nat] /\ slot'.avail \in [Dirs -> Nat]
        /\ slot'.ttis \in Seq(TtiType) /\ SymbolsApart'
    BY <1>1, <1>2, <1>7, <2>1, TakenSymbols
  <2>3. n <= SymbPerSlot
    <3>1. slot.first[d] + n <= LastSymbol
      BY <1>1, <1>2, <2>1, SymbolsReach
    <3> QED
      BY <1>2, <1>3, <3>1, TddSlotAssumption DEF LastSymbol
  <2>4. \A b \in Blocks : dci'[b].numSym \in 0..SymbPerSlot
    <3>1. \A b \in Blocks : dci'[b] = dci[b] \/ dci'[b].numSym = n
      BY <1>7 DEF SchedulerInv, BooksAgree
    <3>2. n \in 0..SymbPerSlot
      BY <1>2, <2>3, TddSlotAssumption
    <3>3. \A b \in Blocks : dci[b].numSym \in 0..SymbPerSlot
      BY DEF SlotTyped
    <3>4. ASSUME NEW b \in Blocks PROVE dci'[b].numSym \in 0..SymbPerSlot
      BY <3>1, <3>2, <3>3
    <3> QED
      BY <3>4
  <2>5. /\ slot'.retx \in [Dirs -> [Ues -> Nat]] /\ slot'.asked \in [Dirs -> [Ues -> Nat]]
        /\ slot'.given \in [Dirs -> [Ues -> Nat]]
    BY <1>7 DEF SlotTyped, SameDemand
  <2> QED
    BY <1>7, <2>2, <2>4, <2>5 DEF SlotTyped
<1> HIDE DEF n, u
<1>8. \/ Fail("assertion of a free process")
      \/ n > 0 /\ slot.first[d] + (IF d = "dl" THEN n ELSE 0) > LastSymbol
      \/ SameBlocks /\ SameDemand /\ slot'.given = slot.given /\ UNCHANGED <<dci, failure>>
      \/ /\ n > 0 /\ FreeProcess(d, slot.cur) # NoProcess /\ UNCHANGED failure
         /\ dci' = [dci EXCEPT ![BlockOf(d)] = [rv |-> 0, numSym |-> n]]
         /\ slot'.first = [slot.first EXCEPT ![d] = slot.first[d] + n]
         /\ slot'.avail = [slot.avail EXCEPT ![d] = slot.avail[d] - n]
         /\ slot'.ttis = Append(slot.ttis, Tti(d, u, slot.first[d], n))
         /\ slot'.retx = slot.retx /\ SameDemand /\ slot'.given = slot.given
  BY AssignEffect DEF SchedulerInv, harqVars, n, u
<1> QED
  BY <1>4, <1>5, <1>6, <1>7, <1>8

--------------------------------------------------------------------------------
(* The division of the symbols.                                            *)
LEMMA AtMostIsEither ==
  ASSUME NEW x \in Nat, NEW y \in Nat
  PROVE  /\ AtMost(x, y) \in Nat /\ AtMost(x, y) <= x /\ AtMost(x, y) <= y
         /\ AtMost(x, y) = x \/ AtMost(x, y) = y
BY DEF AtMost

LEMMA Quotient ==
  ASSUME NEW x \in Nat, NEW y \in Nat \ {0}
  PROVE  x \div y \in Nat /\ (x \div y) * y <= x
<1>1. x = y * (x \div y) + (x % y) /\ x \div y \in Int /\ x % y \in 0..(y - 1)
  OBVIOUS
<1>2. x \div y \in Nat
  OBVIOUS
<1> DEFINE q == x \div y  r == x % y
<1>3. x = y * q + r /\ q \in Nat /\ r \in Nat
  BY <1>1, <1>2
<1> HIDE DEF q, r
<1>4. y * q = q * y /\ y * q \in Nat
  BY <1>3
<1> QED
  BY <1>2, <1>3, <1>4 DEF q

LEMMA ProductMonotone ==
  ASSUME NEW x \in Nat, NEW y \in Nat, NEW z \in Nat, y <= z
  PROVE  x * y <= x * z /\ x * y \in Nat /\ x * z \in Nat
<1>1. PICK k \in Nat : z = y + k
  <2>1. z - y \in Nat /\ z = y + (z - y)
    OBVIOUS
  <2> QED
    BY <2>1
<1>2. x * (y + k) = x * y + x * k
  OBVIOUS
<1>3. x * y \in Nat /\ x * k \in Nat
  OBVIOUS
<1> QED
  BY <1>1, <1>2, <1>3

LEMMA UeSetsAreFinite ==
  ASSUME NEW S, S \subseteq Ues
  PROVE  IsFiniteSet(S) /\ Cardinality(S) \in Nat
BY SchedulerAssumption, FS_Subset, FS_CardinalityType

LEMMA UeSetsGrow ==
  ASSUME NEW T, T \subseteq Ues, NEW S, S \subseteq T
  PROVE  Cardinality(S) <= Cardinality(T)
BY UeSetsAreFinite, FS_Subset

LEMMA UeSetWithout ==
  ASSUME NEW S, S \subseteq Ues, NEW u \in S
  PROVE  Cardinality(S) \in Nat \ {0} /\ Cardinality(S \ {u}) = Cardinality(S) - 1
<1>1. IsFiniteSet(S) /\ Cardinality(S) \in Nat
  BY UeSetsAreFinite
<1>2. Cardinality(S \ {u}) = Cardinality(S) - 1
  BY <1>1, FS_RemoveElement
<1>3. Cardinality(S) # 0
  BY <1>1, FS_EmptySet
<1> QED
  BY <1>1, <1>2, <1>3

(* The loop as it stands at the turn of a UE.                              *)
LoopOf(d) ==
  /\ slot.loop.rem \in Nat /\ slot.loop.each \in Nat \ {0} /\ slot.loop.average \in Nat
  /\ slot.loop.flows \in Nat \ {0} /\ Cardinality(Unfinished(d)) <= slot.loop.flows
  /\ TotalGiven(d) + slot.loop.rem = AtMost(TotalAsked(d), slot.avail[d])
  /\ slot.loop.each = 1 \/ ShareFits(d)

LEMMA LoopIsLoop == LoopAgrees <=> \A d \in Dirs : phase = SharePhase(d) => LoopOf(d)
BY DEF LoopAgrees, LoopOf

(* What a turn may add.                                                    *)
LEMMA TurnAdds ==
  ASSUME SlotTyped, NEW d \in Dirs, LoopOf(d), NEW u \in Ues,
         slot.given[d][u] <= slot.asked[d][u]
  PROVE  /\ AddSym(d, u) \in Nat /\ AddSym(d, u) <= slot.loop.rem
         /\ AddSym(d, u) <= slot.loop.each
         /\ AddSym(d, u) <= Deficit(d, u) /\ Deficit(d, u) \in Nat
         /\ slot.given[d][u] + AddSym(d, u) <= slot.asked[d][u]
         /\ ~Eligible(d, u) => AddSym(d, u) = 0
         /\ IsServed(d, u) =>
              /\ AddSym(d, u) = Deficit(d, u) /\ AddSym(d, u) < slot.loop.each
              /\ slot.given[d][u] + AddSym(d, u) = slot.asked[d][u]
              /\ u \in Unfinished(d) /\ Deficit(d, u) > 0
<1>1. /\ slot.given[d][u] \in Nat /\ slot.asked[d][u] \in Nat
      /\ slot.loop.rem \in Nat /\ slot.loop.each \in Nat
  BY DEF SlotTyped, LoopOf
<1>2. Deficit(d, u) \in Nat /\ Deficit(d, u) = slot.asked[d][u] - slot.given[d][u]
  BY <1>1 DEF Deficit
<1>3. Eligible(d, u) => slot.asked[d][u] > slot.given[d][u]
  BY DEF Eligible
<1>4. CASE ~Eligible(d, u)
  <2>1. AddSym(d, u) = 0 /\ ~IsServed(d, u)
    BY <1>4 DEF AddSym, IsServed
  <2> QED
    BY <1>1, <1>2, <1>4, <2>1
<1>5. CASE Eligible(d, u)
  <2>1. AddSym(d, u) = AtMost(IF Deficit(d, u) < slot.loop.each THEN Deficit(d, u)
                              ELSE slot.loop.each, slot.loop.rem)
    BY <1>5 DEF AddSym
  <2>2. /\ AddSym(d, u) \in Nat /\ AddSym(d, u) <= slot.loop.rem
        /\ AddSym(d, u) <= slot.loop.each /\ AddSym(d, u) <= Deficit(d, u)
    BY <1>1, <1>2, <2>1 DEF AtMost
  <2>3. IsServed(d, u) => /\ Deficit(d, u) < slot.loop.each
                          /\ Deficit(d, u) <= slot.loop.rem
    BY DEF IsServed
  <2>4. IsServed(d, u) => AddSym(d, u) = Deficit(d, u)
    BY <1>1, <1>2, <2>1, <2>3 DEF AtMost
  <2>5. u \in Unfinished(d)
    BY <1>3, <1>5 DEF Unfinished
  <2>6. slot.given[d][u] + AddSym(d, u) <= slot.asked[d][u]
    BY <1>1, <1>2, <2>2
  <2>7. Deficit(d, u) > 0
    BY <1>1, <1>2, <1>3, <1>5
  <2>8. IsServed(d, u) => slot.given[d][u] + AddSym(d, u) = slot.asked[d][u]
    BY <1>1, <1>2, <2>4
  <2> QED
    BY <1>2, <1>5, <2>2, <2>3, <2>4, <2>5, <2>6, <2>7, <2>8
<1> QED
  BY <1>4, <1>5

(* A flow that is done is not the last one of the count: there is no       *)
(* division by zero.                                                       *)
LEMMA SomeFlowIsLeft ==
  ASSUME SlotTyped, GrantsFit, NEW d \in Dirs, LoopOf(d), slot.cur \in Ues, slot.start \in Ues,
         IsServed(d, slot.cur)
  PROVE  FlowsLeft(d, slot.cur) \in Nat \ {0}
<1> DEFINE u == slot.cur
<1>1. /\ slot.loop.rem \in Nat /\ slot.loop.each \in Nat \ {0}
      /\ slot.loop.flows \in Nat \ {0} /\ Cardinality(Unfinished(d)) <= slot.loop.flows
      /\ TotalGiven(d) + slot.loop.rem = AtMost(TotalAsked(d), slot.avail[d])
      /\ slot.loop.each = 1 \/ ShareFits(d)
  BY DEF LoopOf
<1>2. FlowsLeft(d, u) = slot.loop.flows - 1
  BY DEF FlowsLeft
<1>3. \A v \in Ues : slot.given[d][v] <= slot.asked[d][v]
  BY DEF GrantsFit
<1>4. /\ u \in Unfinished(d) /\ Deficit(d, u) > 0 /\ Deficit(d, u) \in Nat
      /\ Deficit(d, u) < slot.loop.each
  BY <1>3, TurnAdds DEF IsServed
<1>5. ASSUME slot.loop.flows = 1 PROVE FALSE
  <2>1. Unfinished(d) \subseteq Ues
    BY DEF Unfinished
  <2>2. Cardinality(Unfinished(d)) = 1 /\ Cardinality(Unfinished(d) \ {u}) = 0
    <3>1. Cardinality(Unfinished(d)) \in Nat \ {0}
          /\ Cardinality(Unfinished(d) \ {u}) = Cardinality(Unfinished(d)) - 1
      BY <1>4, <2>1, UeSetWithout
    <3> QED
      BY <1>1, <1>5, <3>1
  <2>3. Unfinished(d) \ {u} = {}
    <3>1. IsFiniteSet(Unfinished(d) \ {u})
      BY <2>1, UeSetsAreFinite
    <3> QED
      BY <2>2, <3>1, FS_EmptySet
  <2>4. Unfinished(d) = {u}
    BY <1>4, <2>3
  <2>5. Waiting(d) = {u}
    <3>1. ~Before(u, slot.cur)
      BY NotBeforeItself, SchedulerAssumption
    <3> QED
      BY <2>4, <3>1 DEF Waiting
  <2>6. slot.loop.each <= slot.loop.rem
    <3>1. slot.loop.each # 1
      BY <1>1, <1>4
    <3>2. slot.loop.each * 1 <= slot.loop.rem
      BY <1>1, <2>2, <2>4, <2>5, <3>1 DEF ShareFits
    <3> QED
      BY <1>1, <3>2
  <2>7. TotalAsked(d) + slot.given[d][u] = TotalGiven(d) + slot.asked[d][u]
    <3>1. slot.given[d] \in [Ues -> Nat] /\ slot.asked[d] \in [Ues -> Nat]
      BY DEF SlotTyped
    <3>2. \A v \in Ues \ {u} : slot.asked[d][v] = slot.given[d][v]
      BY <1>3, <2>4, <3>1 DEF Unfinished
    <3>3. IsFiniteSet(Ues) /\ u \in Ues
      BY SchedulerAssumption
    <3> HIDE DEF u
    <3>4. SumFunction(slot.asked[d]) + slot.given[d][u]
            = SumFunction(slot.given[d]) + slot.asked[d][u]
      BY ONLY <3>1, <3>2, <3>3, SumUpdate
    <3> QED
      BY <3>4 DEF TotalAsked, TotalGiven
  <2>8. TotalAsked(d) \in Nat /\ TotalGiven(d) \in Nat /\ slot.avail[d] \in Nat
        /\ slot.given[d][u] \in Nat /\ slot.asked[d][u] \in Nat
    BY OwedType DEF SlotTyped
  <2>9. TotalGiven(d) + slot.loop.rem <= TotalAsked(d)
    <3>1. AtMost(TotalAsked(d), slot.avail[d]) <= TotalAsked(d)
      BY <2>8, AtMostIsEither
    <3> HIDE DEF u
    <3> QED
      BY <1>1, <3>1
  <2>10. Deficit(d, u) = slot.asked[d][u] - slot.given[d][u]
    BY DEF Deficit
  <2> QED
    BY <1>1, <1>4, <2>6, <2>7, <2>8, <2>9, <2>10
<1> QED
  BY <1>1, <1>2, <1>5

(* A turn in the division: the rest of the loop's symbols stays right.     *)
GivenMore(d) ==
  /\ SameBlocks /\ SameDemand
  /\ slot'.given = [slot.given EXCEPT ![d][slot.cur] = slot.given[d][slot.cur]
                                                         + AddSym(d, slot.cur)]

LEMMA MoreIsGiven ==
  ASSUME SlotTyped, GrantsFit, NEW d \in Dirs, LoopOf(d), slot.cur \in Ues, GivenMore(d)
  PROVE  /\ slot'.given \in [Dirs -> [Ues -> Nat]]
         /\ \A e \in Dirs \ {d} : slot'.given[e] = slot.given[e]
         /\ \A v \in Ues \ {slot.cur} : slot'.given[d][v] = slot.given[d][v]
         /\ slot'.given[d][slot.cur] = slot.given[d][slot.cur] + AddSym(d, slot.cur)
         /\ \A e \in Dirs, v \in Ues : slot'.given[e][v] <= slot'.asked[e][v]
         /\ RestOf(d) \in Nat
         /\ TotalGiven(d)' + RestOf(d) = AtMost(TotalAsked(d), slot.avail[d])
         /\ TotalAsked(d)' = TotalAsked(d) /\ TotalGiven(d)' \in Nat
<1> DEFINE u == slot.cur
           more == slot.given[d][slot.cur] + AddSym(d, slot.cur)
<1>1. slot.given \in [Dirs -> [Ues -> Nat]] /\ slot.asked \in [Dirs -> [Ues -> Nat]]
  BY DEF SlotTyped
<1>2. /\ slot.given[d][u] \in Nat /\ slot.given[d] \in [Ues -> Nat]
      /\ slot.given[d][u] <= slot.asked[d][u]
  BY <1>1 DEF GrantsFit
<1>3. AddSym(d, u) \in Nat /\ AddSym(d, u) <= slot.loop.rem /\ more <= slot.asked[d][u]
  BY <1>2, TurnAdds
<1>4. slot.loop.rem \in Nat
  BY DEF LoopOf
<1>5. RestOf(d) \in Nat /\ RestOf(d) = slot.loop.rem - AddSym(d, u)
  BY <1>3, <1>4 DEF RestOf
<1>6. more \in Nat
  BY <1>2, <1>3
<1>7. slot'.given = [slot.given EXCEPT ![d][u] = more] /\ slot'.asked = slot.asked
  BY DEF GivenMore, SameDemand
<1> HIDE DEF more
<1>8. /\ slot'.given \in [Dirs -> [Ues -> Nat]]
      /\ \A e \in Dirs \ {d} : slot'.given[e] = slot.given[e]
      /\ \A v \in Ues \ {u} : slot'.given[d][v] = slot.given[d][v]
      /\ slot'.given[d][u] = more
  BY <1>1, <1>6, <1>7
<1>9. TotalGiven(d)' + slot.given[d][u] = TotalGiven(d) + more
  <2>1. IsFiniteSet(Ues) /\ u \in Ues
    BY SchedulerAssumption
  <2> HIDE DEF u
  <2>2. slot'.given[d] \in [Ues -> Nat]
    BY <1>8
  <2>3. SumFunction(slot'.given[d]) + slot.given[d][u] = SumFunction(slot.given[d]) + slot'.given[d][u]
    BY ONLY <1>2, <1>8, <2>1, <2>2, SumUpdate
  <2> QED
    BY <1>8, <2>3 DEF TotalGiven
<1>10. ASSUME NEW e \in Dirs, NEW v \in Ues PROVE slot'.given[e][v] <= slot'.asked[e][v]
  <2>1. CASE e = d /\ v = u
    BY <1>3, <1>7, <1>8, <2>1
  <2>2. CASE ~(e = d /\ v = u)
    <3>1. slot'.given[e][v] = slot.given[e][v]
      BY <1>8, <2>2
    <3> QED
      BY <1>7, <3>1 DEF GrantsFit
  <2> QED
    BY <2>1, <2>2
<1>11. TotalGiven(d) \in Nat /\ TotalGiven(d) + slot.loop.rem = AtMost(TotalAsked(d), slot.avail[d])
  BY OwedType DEF LoopOf
<1>12. TotalAsked(d)' = TotalAsked(d)
  BY <1>7 DEF TotalAsked
<1>13. TotalGiven(d)' \in Nat
  <2>1. slot'.given[d] \in [Ues -> Nat]
    BY <1>8
  <2> QED
    BY <2>1, SumType, SchedulerAssumption DEF TotalGiven
<1>14. TotalGiven(d)' = TotalGiven(d) + AddSym(d, u)
  BY <1>2, <1>3, <1>9, <1>11, <1>13 DEF more
<1>15. TotalGiven(d)' + RestOf(d) = TotalGiven(d) + slot.loop.rem
  BY <1>3, <1>4, <1>5, <1>11, <1>14
<1> QED
  BY <1>5, <1>8, <1>10, <1>11, <1>12, <1>13, <1>15 DEF more

LEMMA ShareArithmetic ==
  ASSUME NEW e \in Nat, NEW w \in Nat, NEW w2 \in Nat, NEW f \in Nat, NEW a \in Nat,
         NEW r \in Nat, NEW q \in Nat,
         w2 + 1 <= w, w2 <= f, q * f <= e - a, e * w <= r
  PROVE  (e + q) * w2 <= r - a
<1>1. (e + q) * w2 = e * w2 + q * w2 /\ e * (w2 + 1) = e * w2 + e
  OBVIOUS
<1>2. e * (w2 + 1) <= e * w /\ e * w \in Nat /\ e * w2 \in Nat
  <2>1. w2 + 1 \in Nat
    OBVIOUS
  <2> QED
    BY <2>1, ProductMonotone
<1>3. q * w2 <= q * f /\ q * w2 \in Nat /\ q * f \in Nat
  BY ProductMonotone
<1> DEFINE ew == e * w  ew2 == e * w2  qw2 == q * w2  qf == q * f
<1>4. /\ ew2 + e <= ew /\ qw2 <= qf /\ qf <= e - a /\ ew <= r
      /\ ew \in Nat /\ ew2 \in Nat /\ qw2 \in Nat /\ qf \in Nat
  BY <1>1, <1>2, <1>3
<1> HIDE DEF ew, ew2, qw2, qf
<1>5. ew2 + qw2 <= r - a
  BY <1>4
<1> QED
  BY <1>1, <1>5 DEF ew2, qw2

--------------------------------------------------------------------------------
(* The loop after a turn that does not end it.                             *)
LoopGoesOn(d) ==
  /\ slot'.cur = NextUe(slot.cur) /\ slot'.loop.rem = RestOf(d)
  /\ slot'.loop.flows = FlowsLeft(d, slot.cur)
  /\ slot'.loop.average = slot.loop.average + ExtraOf(d)
  /\ slot'.loop.each = IF PassEnds THEN AtLeast1(RestOf(d) \div FlowsLeft(d, slot.cur))
                       ELSE slot.loop.each + ExtraOf(d)

LEMMA AtLeast1IsOne ==
  ASSUME NEW n \in Nat
  PROVE  AtLeast1(n) \in Nat \ {0} /\ (AtLeast1(n) = 1 \/ AtLeast1(n) = n)
BY DEF AtLeast1

(* Who is unfinished and who still waits: the UE of the turn no more.      *)
LEMMA FewerWait ==
  ASSUME SlotTyped, GrantsFit, NEW d \in Dirs, LoopOf(d), slot.ueInfo \subseteq Ues,
         slot.cur \in slot.ueInfo, slot.start \in slot.ueInfo, GivenMore(d),
         slot'.cur = NextUe(slot.cur)
  PROVE  /\ Unfinished(d) \subseteq Ues /\ Waiting(d) \subseteq Unfinished(d)
         /\ Unfinished(d)' \subseteq Unfinished(d) /\ Waiting(d)' \subseteq Unfinished(d)'
         /\ IsServed(d, slot.cur) => Unfinished(d)' \subseteq Unfinished(d) \ {slot.cur}
         /\ slot.cur \in Unfinished(d) => slot.cur \in Waiting(d)
         /\ ~PassEnds => Waiting(d)' \subseteq Waiting(d) \ {slot.cur}
<1> DEFINE u == slot.cur
           next == NextUe(slot.cur)
<1>1. u \in Ues /\ u \in Nat /\ slot.start \in Nat /\ Ues \subseteq Nat /\ slot.ueInfo \subseteq Nat
  BY SchedulerAssumption
<1>2. /\ slot'.asked = slot.asked /\ slot'.start = slot.start
      /\ \A v \in Ues \ {u} : slot'.given[d][v] = slot.given[d][v]
      /\ slot'.given[d][u] = slot.given[d][u] + AddSym(d, u)
      /\ slot'.given \in [Dirs -> [Ues -> Nat]]
  BY <1>1, MoreIsGiven DEF GivenMore, SameDemand
<1>3. slot.given \in [Dirs -> [Ues -> Nat]] /\ slot.asked \in [Dirs -> [Ues -> Nat]]
  BY DEF SlotTyped
<1>4. slot.given[d][u] <= slot.asked[d][u] /\ slot.given[d][u] \in Nat /\ slot.asked[d][u] \in Nat
  BY <1>1, <1>3 DEF GrantsFit
<1>5. /\ AddSym(d, u) \in Nat
      /\ IsServed(d, u) => slot.given[d][u] + AddSym(d, u) = slot.asked[d][u]
  BY <1>1, <1>4, TurnAdds
<1>6. Unfinished(d) \subseteq Ues /\ Waiting(d) \subseteq Unfinished(d)
      /\ Waiting(d)' \subseteq Unfinished(d)'
  BY DEF Unfinished, Waiting
<1>7. Unfinished(d)' = {v \in Ues : slot.asked[d][v] > slot'.given[d][v]}
  BY <1>2 DEF Unfinished
<1>8. ASSUME NEW v \in Unfinished(d)' PROVE v \in Unfinished(d)
  <2>1. v \in Ues /\ slot.asked[d][v] > slot'.given[d][v]
    BY <1>7
  <2>2. CASE v = u
    <3>1. slot.asked[d][u] > slot.given[d][u]
      BY <1>2, <1>4, <1>5, <2>1, <2>2
    <3> QED
      BY <2>1, <2>2, <3>1 DEF Unfinished
  <2>3. CASE v # u
    BY <1>2, <2>1, <2>3 DEF Unfinished
  <2> QED
    BY <2>2, <2>3
<1>9. IsServed(d, u) => u \notin Unfinished(d)'
  <2> SUFFICES ASSUME IsServed(d, u), u \in Unfinished(d)' PROVE FALSE
    OBVIOUS
  <2>1. slot.asked[d][u] > slot'.given[d][u] /\ slot'.given[d][u] = slot.asked[d][u]
    BY <1>2, <1>5, <1>7
  <2> QED
    BY <1>4, <2>1
<1>10. u \in Unfinished(d) => u \in Waiting(d)
  <2>1. ~Before(u, u)
    BY <1>1, NotBeforeItself
  <2> QED
    BY <2>1 DEF Waiting
<1>11. ~PassEnds => Waiting(d)' \subseteq Waiting(d) \ {u}
  <2> SUFFICES ASSUME ~PassEnds, NEW v \in Waiting(d)' PROVE v \in Waiting(d) /\ v # u
    OBVIOUS
  <2>1. v \in Unfinished(d)' /\ ~Before(v, slot.cur)'
    BY DEF Waiting
  <2>2. Before(v, slot.cur)' <=> Before(v, next)
    BY <1>2 DEF Before
  <2>3. v \in Unfinished(d) /\ v \in Nat
    BY <1>1, <1>6, <1>8, <2>1
  <2>4. \A x \in Nat : Before(x, u) \/ x = u => Before(x, next)
    BY <1>1, NextUeGoesRound DEF PassEnds
  <2>5. ~Before(v, u) /\ v # u
    BY <2>1, <2>2, <2>3, <2>4
  <2> QED
    BY <2>3, <2>5 DEF Waiting
<1> QED
  BY <1>6, <1>8, <1>9, <1>10, <1>11

(* The share of each still fits those who wait.                            *)
LEMMA LoopStands ==
  ASSUME SlotTyped, GrantsFit, NEW d \in Dirs, LoopOf(d), slot.ueInfo \subseteq Ues,
         slot.cur \in slot.ueInfo, slot.start \in slot.ueInfo, GivenMore(d), LoopGoesOn(d)
  PROVE  LoopOf(d)' /\ (~PassEnds /\ ShareFits(d) => ShareFits(d)')
<1> DEFINE u == slot.cur
           add == AddSym(d, slot.cur)
           w == Cardinality(Waiting(d))
           w2 == Cardinality(Waiting(d)')
           f == FlowsLeft(d, slot.cur)
           e == slot.loop.each
<1>1. u \in Ues /\ slot.start \in Ues
  OBVIOUS
<1>2. /\ slot.loop.rem \in Nat /\ slot.loop.each \in Nat \ {0} /\ slot.loop.average \in Nat
      /\ slot.loop.flows \in Nat \ {0} /\ Cardinality(Unfinished(d)) <= slot.loop.flows
      /\ e = 1 \/ ShareFits(d)
  BY DEF LoopOf
<1>3. slot.given[d][u] <= slot.asked[d][u] /\ slot.given[d][u] \in Nat /\ slot.asked[d][u] \in Nat
  BY <1>1 DEF GrantsFit, SlotTyped
<1>4. /\ add \in Nat /\ add <= slot.loop.rem /\ add <= e
      /\ ~Eligible(d, u) => add = 0
      /\ IsServed(d, u) => /\ add < e /\ add = Deficit(d, u) /\ Deficit(d, u) > 0
                           /\ u \in Unfinished(d)
  BY <1>1, <1>3, TurnAdds
<1>5. /\ RestOf(d) \in Nat /\ TotalAsked(d)' = TotalAsked(d)
      /\ TotalGiven(d)' + RestOf(d) = AtMost(TotalAsked(d), slot.avail[d])
  BY <1>1, MoreIsGiven
<1>6. RestOf(d) = slot.loop.rem - add
  BY DEF RestOf
<1>7. /\ slot'.cur = NextUe(u) /\ slot'.loop.rem = RestOf(d) /\ slot'.loop.flows = f
      /\ slot'.loop.average = slot.loop.average + ExtraOf(d)
      /\ slot'.loop.each = IF PassEnds THEN AtLeast1(RestOf(d) \div f) ELSE e + ExtraOf(d)
      /\ slot'.avail = slot.avail
  BY DEF LoopGoesOn, GivenMore, SameBlocks
<1>8. /\ Unfinished(d) \subseteq Ues /\ Waiting(d) \subseteq Unfinished(d)
      /\ Unfinished(d)' \subseteq Unfinished(d) /\ Waiting(d)' \subseteq Unfinished(d)'
      /\ IsServed(d, u) => Unfinished(d)' \subseteq Unfinished(d) \ {u}
      /\ u \in Unfinished(d) => u \in Waiting(d)
      /\ ~PassEnds => Waiting(d)' \subseteq Waiting(d) \ {u}
  BY <1>7, FewerWait
<1>9. /\ Cardinality(Unfinished(d)) \in Nat /\ Cardinality(Unfinished(d)') \in Nat
      /\ w \in Nat /\ w2 \in Nat
  BY <1>8, UeSetsAreFinite
<1>10. /\ w2 <= Cardinality(Unfinished(d)')
       /\ Cardinality(Unfinished(d)') <= Cardinality(Unfinished(d))
  BY <1>8, UeSetsGrow
<1>11. f \in Nat \ {0}
  <2>1. CASE IsServed(d, u)
    BY <1>1, <2>1, SomeFlowIsLeft
  <2>2. CASE ~IsServed(d, u)
    BY <1>2, <2>2 DEF FlowsLeft
  <2> QED
    BY <2>1, <2>2
<1>12. Cardinality(Unfinished(d)') <= f
  <2>1. CASE IsServed(d, u)
    <3>1. f = slot.loop.flows - 1
      BY <2>1 DEF FlowsLeft
    <3>2. Cardinality(Unfinished(d) \ {u}) = Cardinality(Unfinished(d)) - 1
      BY <1>4, <1>8, <2>1, UeSetWithout
    <3>3. Cardinality(Unfinished(d)') <= Cardinality(Unfinished(d) \ {u})
      <4>1. Unfinished(d)' \subseteq Unfinished(d) \ {u} /\ Unfinished(d) \ {u} \subseteq Ues
        BY <1>8, <2>1
      <4> QED
        BY <4>1, UeSetsGrow
    <3> HIDE DEF f, w, w2
    <3> QED
      BY <1>2, <1>9, <3>1, <3>2, <3>3
  <2>2. CASE ~IsServed(d, u)
    <3>1. f = slot.loop.flows
      BY <1>2, <2>2 DEF FlowsLeft
    <3> HIDE DEF f, w, w2
    <3> QED
      BY <1>2, <1>9, <1>10, <3>1
  <2> QED
    BY <2>1, <2>2
<1>13. /\ IsServed(d, u) => /\ ExtraOf(d) \in Nat /\ ExtraOf(d) * f <= e - add
       /\ ~IsServed(d, u) => ExtraOf(d) = 0
  <2>1. CASE IsServed(d, u)
    <3>1. ExtraOf(d) = (e - add) \div f
      BY <2>1 DEF ExtraOf
    <3>2. e - add \in Nat
      BY <1>2, <1>4
    <3> DEFINE x == e - add
    <3> HIDE DEF f, x
    <3>3. x \div f \in Nat /\ (x \div f) * f <= x
      BY <1>11, <3>2, Quotient DEF x
    <3> QED
      BY <2>1, <3>1, <3>3 DEF x
  <2>2. CASE ~IsServed(d, u)
    BY <2>2 DEF ExtraOf
  <2> QED
    BY <2>1, <2>2
<1>14. ExtraOf(d) \in Nat
  BY <1>13
<1>15. ASSUME PassEnds
       PROVE  slot'.loop.each \in Nat \ {0}
              /\ (slot'.loop.each = 1 \/ slot'.loop.each * w2 <= RestOf(d))
  <2> DEFINE q == RestOf(d) \div f
  <2>1. q \in Nat /\ q * f <= RestOf(d)
    <3> HIDE DEF f
    <3> QED
      BY <1>5, <1>11, Quotient
  <2>2. slot'.loop.each = AtLeast1(q)
    BY <1>7, <1>15
  <2>3. q * w2 <= q * f /\ q * w2 \in Nat /\ q * f \in Nat
    <3>1. w2 <= f
      <4> HIDE DEF f, w2
      <4> QED
        BY <1>9, <1>10, <1>11, <1>12
    <3> HIDE DEF f, w2, q
    <3> QED
      BY <1>9, <1>11, <2>1, <3>1, ProductMonotone
  <2>4. q * w2 <= RestOf(d)
    <3> DEFINE a == q * w2  b == q * f
    <3>1. a <= b /\ b <= RestOf(d) /\ a \in Nat /\ b \in Nat
      BY <2>1, <2>3
    <3> HIDE DEF a, b
    <3>2. a <= RestOf(d)
      BY <1>5, <3>1
    <3> QED
      BY <3>2 DEF a
  <2> HIDE DEF q, w2
  <2>5. slot'.loop.each \in Nat \ {0} /\ (slot'.loop.each = 1 \/ slot'.loop.each = q)
    BY <2>1, <2>2, AtLeast1IsOne
  <2>6. slot'.loop.each = 1 \/ slot'.loop.each * w2 <= RestOf(d)
    BY <2>4, <2>5
  <2> QED
    BY <2>5, <2>6
<1>16. ASSUME ~PassEnds
       PROVE  /\ slot'.loop.each \in Nat \ {0}
              /\ slot'.loop.each = 1 \/ slot'.loop.each * w2 <= RestOf(d)
              /\ ShareFits(d) => slot'.loop.each * w2 <= RestOf(d)
  <2>1. slot'.loop.each = e + ExtraOf(d)
    BY <1>7, <1>16
  <2>2. slot'.loop.each \in Nat \ {0}
    BY <1>2, <1>14, <2>1
  <2>3. CASE IsServed(d, u)
    <3>1. e # 1
      <4>1. Deficit(d, u) > 0 /\ add = Deficit(d, u) /\ add < e
        BY <1>4, <2>3
      <4> HIDE DEF e, add
      <4> QED
        BY <1>4, <4>1
    <3>2. e * w <= slot.loop.rem
      BY <1>2, <3>1 DEF ShareFits
    <3>3. w2 + 1 <= w
      <4>1. u \in Waiting(d) /\ Waiting(d) \subseteq Ues
        BY <1>4, <1>8, <2>3
      <4>2. Cardinality(Waiting(d) \ {u}) = w - 1
        BY <4>1, UeSetWithout
      <4>3. w2 <= Cardinality(Waiting(d) \ {u})
        <5>1. Waiting(d)' \subseteq Waiting(d) \ {u} /\ Waiting(d) \ {u} \subseteq Ues
          BY <1>8, <1>16, <4>1
        <5> QED
          BY <5>1, UeSetsGrow
      <4> HIDE DEF w, w2
      <4> QED
        BY <1>9, <4>2, <4>3
    <3>4. w2 <= f
      <4> HIDE DEF f, w2
      <4> QED
        BY <1>9, <1>10, <1>11, <1>12
    <3>5. ExtraOf(d) * f <= e - add /\ ExtraOf(d) \in Nat
      BY <1>13, <2>3
    <3> HIDE DEF w, w2, f, e, add
    <3>6. e \in Nat /\ f \in Nat
      BY <1>2, <1>11 DEF e
    <3>7. (e + ExtraOf(d)) * w2 <= slot.loop.rem - add
      BY <1>2, <1>4, <1>9, <3>2, <3>3, <3>4, <3>5, <3>6, ShareArithmetic
    <3> QED
      BY <1>6, <2>1, <2>2, <3>7
  <2>4. CASE ~IsServed(d, u)
    <3>1. slot'.loop.each = e
      BY <1>2, <1>13, <2>1, <2>4
    <3>2. CASE ~ShareFits(d)
      BY <1>2, <2>2, <3>1, <3>2
    <3>3. CASE ShareFits(d)
      <4>1. e * w <= slot.loop.rem
        BY <3>3 DEF ShareFits
      <4>2. CASE u \in Unfinished(d)
        <5>1. w2 + 1 <= w
          <6>1. u \in Waiting(d) /\ Waiting(d) \subseteq Ues
            BY <1>8, <4>2
          <6>2. Cardinality(Waiting(d) \ {u}) = w - 1
            BY <6>1, UeSetWithout
          <6>3. w2 <= Cardinality(Waiting(d) \ {u})
            <7>1. Waiting(d)' \subseteq Waiting(d) \ {u} /\ Waiting(d) \ {u} \subseteq Ues
              BY <1>8, <1>16, <6>1
            <7> QED
              BY <7>1, UeSetsGrow
          <6> HIDE DEF w, w2
          <6> QED
            BY <1>9, <6>2, <6>3
        <5> HIDE DEF w, w2, e, add
        <5>2. e \in Nat
          BY <1>2 DEF e
        <5>3. 0 * w2 <= e - add
          BY <1>4, <1>9, <5>2
        <5>4. w2 <= w2
          BY <1>9
        <5>5. (e + 0) * w2 <= slot.loop.rem - add
          BY <1>2, <1>4, <1>9, <4>1, <5>1, <5>2, <5>3, <5>4, ShareArithmetic
        <5>6. e + 0 = e
          BY <5>2
        <5> QED
          BY <1>6, <2>2, <3>1, <5>5, <5>6
      <4>3. CASE u \notin Unfinished(d)
        <5>1. add = 0
          <6>1. ~Eligible(d, u)
            BY <1>1, <4>3 DEF Eligible, Unfinished
          <6> QED
            BY <1>4, <6>1
        <5>2. w2 <= w
          <6>1. Waiting(d)' \subseteq Waiting(d) /\ Waiting(d) \subseteq Ues
            BY <1>8, <1>16
          <6> QED
            BY <6>1, UeSetsGrow
        <5> HIDE DEF w, w2, e, add
        <5>3. e \in Nat
          BY <1>2 DEF e
        <5>4. e * w2 <= e * w /\ e * w2 \in Nat /\ e * w \in Nat
          BY <1>9, <5>2, <5>3, ProductMonotone
        <5> DEFINE x == e * w2  y == e * w
        <5>5. x <= y /\ y <= slot.loop.rem /\ x \in Nat /\ y \in Nat
          BY <4>1, <5>4
        <5> HIDE DEF x, y
        <5>6. x <= slot.loop.rem - add
          BY <1>2, <5>1, <5>5
        <5> QED
          BY <1>6, <2>2, <3>1, <5>6 DEF x
      <4> QED
        BY <4>2, <4>3
    <3> QED
      BY <3>2, <3>3
  <2> QED
    BY <2>3, <2>4
<1>17. /\ slot'.loop.each \in Nat \ {0}
       /\ slot'.loop.each = 1 \/ slot'.loop.each * w2 <= RestOf(d)
       /\ ~PassEnds /\ ShareFits(d) => slot'.loop.each * w2 <= RestOf(d)
  <2>1. CASE PassEnds
    <3> QED
      BY <1>15, <2>1
  <2>2. CASE ~PassEnds
    <3> QED
      BY <1>16, <2>2
  <2> QED
    BY <2>1, <2>2
<1>18. slot'.loop.average \in Nat
  BY <1>2, <1>7, <1>14
<1> HIDE DEF f
<1> QED
  BY <1>5, <1>7, <1>11, <1>12, <1>17, <1>18 DEF LoopOf, ShareFits

--------------------------------------------------------------------------------
(* The grants of a slot.                                                   *)
LEMMA NothingGivenFits ==
  ASSUME SlotTyped', \A d \in Dirs, u \in Ues : slot'.given[d][u] = 0
  PROVE  GrantsFit'
<1>1. ASSUME NEW d \in Dirs PROVE SumFunction(Owed(d))' = 0
  BY NothingIsOwed
<1>2. slot'.avail \in [Dirs -> Nat] /\ slot'.asked \in [Dirs -> [Ues -> Nat]]
  BY DEF SlotTyped
<1>3. ASSUME NEW d \in Dirs PROVE SumFunction(Owed(d))' <= slot'.avail[d]
  <2>1. slot'.avail[d] \in Nat
    BY <1>2
  <2> QED
    BY <1>1, <2>1
<1>4. ASSUME NEW d \in Dirs, NEW u \in Ues PROVE slot'.given[d][u] <= slot'.asked[d][u]
  BY <1>2
<1>5. NothingGiven("dl")' /\ NothingGiven("ul")'
  BY DEF NothingGiven, Dirs
<1> QED
  BY <1>3, <1>4, <1>5 DEF GrantsFit

LEMMA GrantsStand ==
  ASSUME SlotTyped, SlotTyped', GrantsFit,
         slot'.given = slot.given, slot'.asked = slot.asked, slot'.avail = slot.avail,
         \A d \in Dirs, u \in Ues : Pending(d, u)' => Pending(d, u),
         phase' \notin {"harq_dl", "harq_ul", "collect", "begin_dl", "share_dl", "begin_ul"}
  PROVE  GrantsFit'
<1>1. ASSUME NEW d \in Dirs PROVE SumFunction(Owed(d))' <= slot'.avail[d]
  <2>1. slot'.given[d] = slot.given[d]
    OBVIOUS
  <2>2. SumFunction(Owed(d))' <= SumFunction(Owed(d))
    BY <2>1, OwedShrinks
  <2>3. SumFunction(Owed(d)) <= slot.avail[d]
    BY DEF GrantsFit
  <2>4. SumFunction(Owed(d)) \in Nat /\ SumFunction(Owed(d))' \in Nat
    <3>1. SumFunction(Owed(d)) \in Nat
      BY OwedType
    <3>2. SumFunction(Owed(d))' \in Nat
      <4>1. Owed(d)' \in [Ues -> Nat]
        BY DEF Owed, SlotTyped
      <4> QED
        BY <4>1, SumType, SchedulerAssumption
    <3> QED
      BY <3>1, <3>2
  <2>5. slot.avail[d] \in Nat
    BY DEF SlotTyped
  <2> QED
    BY <2>2, <2>3, <2>4, <2>5
<1>2. \A d \in Dirs, u \in Ues : slot'.given[d][u] <= slot'.asked[d][u]
  BY DEF GrantsFit
<1> QED
  BY <1>1, <1>2 DEF GrantsFit

(* A slot that nothing was given in yet.                                   *)
LEMMA NothingGivenYet ==
  ASSUME SchedulerInv, GrantsFit,
         phase \in {"arrive", "trigger", "harq_dl", "harq_ul", "collect", "begin_dl"}
  PROVE  \A d \in Dirs, u \in Ues : slot.given[d][u] = 0
<1>1. CASE phase \in {"arrive", "trigger"}
  <2>1. slot = EmptySlot
    BY <1>1 DEF SchedulerInv, SlotAgrees
  <2> QED
    BY <2>1, EmptySlotAgrees
<1>2. CASE phase \in {"harq_dl", "harq_ul", "collect", "begin_dl"}
  BY <1>2 DEF GrantsFit, NothingGiven, Dirs
<1> QED
  BY <1>1, <1>2

LEMMA InitGrants == Init => GrantsFit
<1> SUFFICES ASSUME Init PROVE GrantsFit
  OBVIOUS
<1>1. slot = EmptySlot /\ SlotTyped /\ phase = "arrive"
  BY InitTyped DEF Init
<1>2. \A d \in Dirs, u \in Ues : slot.given[d][u] = 0
  BY <1>1, EmptySlotAgrees
<1>3. slot.avail \in [Dirs -> Nat] /\ slot.asked \in [Dirs -> [Ues -> Nat]]
  BY <1>1 DEF SlotTyped
<1>4. ASSUME NEW d \in Dirs PROVE SumFunction(Owed(d)) <= slot.avail[d]
  <2>1. \A u \in Ues : Owed(d)[u] = 0
    BY <1>2 DEF Owed
  <2>2. Owed(d) \in [Ues -> Nat]
    BY <1>1, OwedType
  <2>3. SumFunction(Owed(d)) = 0
    <3> HIDE DEF Owed
    <3> QED
      BY <2>1, <2>2, SumOfZeros, SchedulerAssumption
  <2>4. slot.avail[d] \in Nat
    BY <1>3
  <2> QED
    BY <2>3, <2>4
<1>5. \A d \in Dirs, u \in Ues : slot.given[d][u] <= slot.asked[d][u]
  BY <1>2, <1>3
<1> QED
  BY <1>1, <1>4, <1>5 DEF GrantsFit

LEMMA BeginGrants ==
  ASSUME SchedulerInv, SlotTyped, SlotTyped', GrantsFit, NEW d \in Dirs, BeginSharing(d)
  PROVE  GrantsFit'
<1>1. /\ phase = BeginPhase(d) /\ SameBlocks /\ SameDemand /\ slot'.given = slot.given
      /\ phase' \in {"begin_ul", "assign_dl", SharePhase(d)}
  BY BeginEffect DEF SchedulerInv
<1>2. CASE d = "dl"
  <2>1. \A e \in Dirs, u \in Ues : slot'.given[e][u] = 0
    BY <1>1, <1>2, NothingGivenYet DEF BeginPhase
  <2> QED
    BY <2>1, NothingGivenFits
<1>3. CASE d = "ul"
  <2>1. phase = "begin_ul" /\ phase' \in {"assign_dl", "share_ul"}
    BY <1>3, BeginEffect DEF SchedulerInv, BeginPhase, SharePhase
  <2>2. \A e \in Dirs, u \in Ues : Pending(e, u)
    BY <2>1, PendingPhases DEF Phases
  <2> QED
    BY <1>1, <2>1, <2>2, GrantsStand DEF SameBlocks, SameDemand
<1> QED
  BY <1>2, <1>3 DEF Dirs

(* A new block takes its symbols from what is available.                   *)
LEMMA AssignGrants ==
  ASSUME SchedulerInv, SlotTyped, SlotTyped', GrantsFit, NEW d \in Dirs, Assign(d)
  PROVE  GrantsFit'
<1> DEFINE n == slot.given[d][slot.cur]  u == slot.cur
<1>1. phase = AssignPhase(d)
  BY AssignEffect DEF SchedulerInv
<1>2. /\ u \in Ues /\ Pending(d, u) /\ n \in Nat /\ n <= slot.avail[d]
  BY <1>1, GrantIsThere
<1>3. ASSUME NEW what, Fail(what) PROVE GrantsFit'
  <2>1. UNCHANGED <<slot, phase>>
    BY <1>3 DEF Fail
  <2>2. \A e \in Dirs, v \in Ues : Pending(e, v)' <=> Pending(e, v)
    BY <2>1 DEF Pending, Before
  <2>3. phase' \in {"assign_dl", "assign_ul"}
    BY <1>1, <2>1 DEF AssignPhase
  <2> QED
    BY <2>1, <2>2, <2>3, GrantsStand
<1>4. ASSUME SameDemand, slot'.given = slot.given, TurnPasses(d)
      PROVE  /\ phase' \in {"assign_dl", "assign_ul", "end"}
             /\ \A e \in Dirs, v \in Ues :
                  Pending(e, v)' => Pending(e, v) /\ ~(e = d /\ v = u)
  BY <1>1, <1>4, TurnIsOver DEF TurnPasses
<1>5. ASSUME SameBlocks, SameDemand, slot'.given = slot.given, TurnPasses(d)
      PROVE  GrantsFit'
  BY <1>4, <1>5, GrantsStand DEF SameBlocks, SameDemand
<1>6. ASSUME SameDemand, slot'.given = slot.given, TurnPasses(d),
             slot'.avail = [slot.avail EXCEPT ![d] = slot.avail[d] - n]
      PROVE  GrantsFit'
  <2>1. /\ phase' \in {"assign_dl", "assign_ul", "end"}
        /\ \A e \in Dirs, v \in Ues : Pending(e, v)' => Pending(e, v) /\ ~(e = d /\ v = u)
    BY <1>4, <1>6
  <2>2. slot.avail \in [Dirs -> Nat] /\ slot'.avail \in [Dirs -> Nat]
    BY DEF SlotTyped
  <2>3. ASSUME NEW e \in Dirs PROVE SumFunction(Owed(e))' <= slot'.avail[e]
    <3> DEFINE o == [v \in Ues |-> IF Pending(e, v)' THEN slot'.given[e][v] ELSE 0]
    <3>1. SumFunction(Owed(e))' = SumFunction(o)
      BY DEF Owed
    <3>2. o \in [Ues -> Nat]
      BY DEF SlotTyped
    <3>3. /\ Owed(e) \in [Ues -> Nat] /\ slot.given[e] \in [Ues -> Nat] /\ IsFiniteSet(Ues)
          /\ SumFunction(Owed(e)) \in Nat
      BY OwedType
    <3>4. SumFunction(Owed(e)) <= slot.avail[e]
      BY DEF GrantsFit
    <3>5. \A v \in Ues : o[v] <= Owed(e)[v] /\ (e = d /\ v = u => o[v] = 0)
      BY <1>6, <2>1, <3>3 DEF Owed
    <3>6. Owed(d)[u] = n
      BY <1>2 DEF Owed
    <3>7. SumFunction(o) \in Nat
      <4> HIDE DEF o
      <4> QED
        BY <3>2, <3>3, SumType
    <3>8. CASE e = d
      <4> DEFINE o2 == [Owed(d) EXCEPT ![u] = 0]
      <4> HIDE DEF o, n, u, Owed
      <4>1. /\ o2 \in [Ues -> Nat] /\ o2[u] = 0
            /\ \A v \in Ues \ {u} : o2[v] = Owed(d)[v]
        BY <1>2, <3>3, <3>8
      <4>2. \A v \in Ues : o[v] <= o2[v]
        BY <3>3, <3>5, <3>8
      <4>3. SumFunction(o2) + Owed(d)[u] = SumFunction(Owed(d)) + 0
        <5>1. Owed(d) \in [Ues -> Nat] /\ u \in Ues /\ IsFiniteSet(Ues)
          BY <1>2, <3>3, <3>8
        <5> HIDE DEF o2
        <5>2. SumFunction(o2) + Owed(d)[u] = SumFunction(Owed(d)) + o2[u]
          BY ONLY <4>1, <5>1, SumUpdate
        <5> QED
          BY <4>1, <5>2
      <4> HIDE DEF o2
      <4>4. SumFunction(o) <= SumFunction(o2) /\ SumFunction(o2) \in Nat
        BY <3>2, <3>3, <4>1, <4>2, SumMonotone, SumType
      <4>5. slot'.avail[e] = slot.avail[e] - n /\ slot.avail[e] \in Nat
        BY <1>6, <2>2, <3>8
      <4>6. SumFunction(o2) + n = SumFunction(Owed(e))
        BY <3>3, <3>6, <3>8, <4>3
      <4> QED
        BY <1>2, <3>1, <3>3, <3>4, <3>7, <4>4, <4>5, <4>6
    <3>9. CASE e # d
      <4>1. slot'.avail[e] = slot.avail[e] /\ slot.avail[e] \in Nat
        BY <1>6, <2>2, <3>9
      <4> HIDE DEF o, n, u, Owed
      <4>2. SumFunction(o) <= SumFunction(Owed(e))
        BY <3>2, <3>3, <3>5, SumMonotone
      <4> QED
        BY <3>1, <3>3, <3>4, <3>7, <4>1, <4>2
    <3> QED
      BY <3>8, <3>9
  <2>4. \A e \in Dirs, v \in Ues : slot'.given[e][v] <= slot'.asked[e][v]
    BY <1>6 DEF GrantsFit, SameDemand
  <2> QED
    BY <2>1, <2>3, <2>4 DEF GrantsFit
<1> QED
  BY <1>3, <1>5, <1>6, AssignEffect DEF SchedulerInv

--------------------------------------------------------------------------------
(* The loop as it begins: nothing is given, and all wait for their share.  *)
LEMMA LoopBegins ==
  ASSUME SchedulerInv, SlotTyped, GrantsFit, NEW d \in Dirs, BeginSharing(d),
         phase' = SharePhase(d)
  PROVE  LoopOf(d)' /\ Share(d)' <= slot'.loop.each /\ (Share(d)' = 0 \/ ShareFits(d)')
<1> DEFINE rem == AtMost(TotalAsked(d), slot.avail[d])
           n == Flows(d)
           q == rem \div n
<1>1. /\ phase = BeginPhase(d) /\ SameBlocks /\ SameDemand /\ slot'.given = slot.given
      /\ slot'.loop.rem = rem /\ slot'.loop.flows = n /\ n # 0
      /\ slot'.loop.average = AtLeast1(q) /\ slot'.loop.each = AtLeast1(q)
  BY BeginEffect DEF SchedulerInv, SharePhase
<1>2. NothingGiven(d)
  BY <1>1 DEF GrantsFit, BeginPhase, Dirs
<1>3. /\ slot.given[d] \in [Ues -> Nat] /\ slot.asked[d] \in [Ues -> Nat] /\ slot.avail[d] \in Nat
      /\ TotalAsked(d) \in Nat
  BY OwedType DEF SlotTyped
<1>4. rem \in Nat
  BY <1>3, AtMostIsEither
<1>5. Unfinished(d)' = {u \in Ues : slot.asked[d][u] > 0}
  BY <1>1, <1>2, <1>3 DEF Unfinished, NothingGiven, SameDemand
<1>6. /\ n = Cardinality(Unfinished(d)') /\ n \in Nat \ {0}
  <2>1. Unfinished(d)' \subseteq Ues
    BY <1>5
  <2>2. n = Cardinality(Unfinished(d)')
    BY <1>5 DEF Flows
  <2>3. Cardinality(Unfinished(d)') \in Nat
    BY <2>1, UeSetsAreFinite
  <2> QED
    BY <1>1, <2>2, <2>3
<1>7. Cardinality(Waiting(d)') \in Nat /\ Cardinality(Waiting(d)') <= n
  <2>1. Waiting(d)' \subseteq Unfinished(d)' /\ Unfinished(d)' \subseteq Ues
    BY <1>5 DEF Waiting
  <2>2. Waiting(d)' \subseteq Ues
    BY <2>1
  <2> QED
    BY <1>6, <2>1, <2>2, UeSetsAreFinite, UeSetsGrow
<1>8. q \in Nat /\ q * n <= rem
  <2> HIDE DEF rem, n
  <2> QED
    BY <1>4, <1>6, Quotient
<1>9. TotalGiven(d)' = 0 /\ TotalAsked(d)' = TotalAsked(d) /\ slot'.avail = slot.avail
  <2>1. \A u \in Ues : slot.given[d][u] = 0
    BY <1>2 DEF NothingGiven
  <2>2. SumFunction(slot.given[d]) = 0
    BY <1>3, <2>1, SumOfZeros, SchedulerAssumption
  <2> QED
    BY <1>1, <2>2 DEF TotalGiven, TotalAsked, SameDemand, SameBlocks
<1> DEFINE w == Cardinality(Waiting(d)')
<1>10. q * w <= rem
  <2> HIDE DEF q, w, rem, n
  <2>1. q * w <= q * n /\ q * w \in Nat /\ q * n \in Nat
    BY <1>6, <1>7, <1>8, ProductMonotone DEF w
  <2> DEFINE a == q * w  b == q * n
  <2>2. a <= b /\ b <= rem /\ a \in Nat /\ b \in Nat
    BY <1>8, <2>1
  <2> HIDE DEF a, b
  <2>3. a <= rem
    BY <1>4, <2>2
  <2> QED
    BY <2>3 DEF a
<1> HIDE DEF q
<1>11. AtLeast1(q) \in Nat \ {0} /\ (AtLeast1(q) = 1 \/ AtLeast1(q) = q)
  BY <1>8, AtLeast1IsOne
<1>12. slot'.loop.each = 1 \/ slot'.loop.each * w <= slot'.loop.rem
  BY <1>1, <1>10, <1>11
<1>13. TotalGiven(d)' + slot'.loop.rem = AtMost(TotalAsked(d)', slot'.avail[d])
  BY <1>1, <1>4, <1>9
<1>14. Cardinality(Unfinished(d)') <= n
  <2> HIDE DEF n
  <2> QED
    BY <1>6
<1>15. Share(d)' = q
  <2>1. Flows(d)' = n
    BY <1>1 DEF Flows, SameDemand
  <2> QED
    BY <1>9, <2>1 DEF Share, q
<1>16. q <= AtLeast1(q) /\ (q = 0 \/ AtLeast1(q) = q)
  BY <1>8 DEF AtLeast1
<1>17. Share(d)' <= slot'.loop.each /\ (Share(d)' = 0 \/ slot'.loop.each * w <= slot'.loop.rem)
  BY <1>1, <1>10, <1>15, <1>16
<1> HIDE DEF rem, n
<1> QED
  BY <1>1, <1>4, <1>6, <1>11, <1>12, <1>13, <1>14, <1>17 DEF LoopOf, ShareFits

(* A turn of the division.                                                 *)
LEMMA ShareStep ==
  ASSUME SchedulerInv, SlotTyped, SymbolsApart, GrantsFit, LoopAgrees, NEW d \in Dirs,
         ShareSymbols(d)
  PROVE  /\ SlotTyped' /\ SymbolsApart' /\ GrantsFit' /\ LoopAgrees' /\ UNCHANGED failure
<1>1. /\ phase = SharePhase(d) /\ UNCHANGED <<scenario, dci>>
      /\ slot.cur \in slot.ueInfo /\ slot.start \in slot.ueInfo /\ slot.ueInfo \subseteq Ues
  BY ShareEffect DEF SchedulerInv, SlotAgrees, Sharing, SharePhase, harqVars
<1>2. slot.cur \in Ues /\ slot.start \in Ues
  BY <1>1
<1>3. LoopOf(d)
  BY <1>1, LoopIsLoop
<1>4. ~(IsServed(d, slot.cur) /\ FlowsLeft(d, slot.cur) = 0)
  BY <1>2, <1>3, SomeFlowIsLeft
<1>5. /\ UNCHANGED failure /\ SameBlocks /\ SameDemand
      /\ slot'.given = [slot.given EXCEPT
                          ![d][slot.cur] = slot.given[d][slot.cur] + AddSym(d, slot.cur)]
      /\ \/ phase' = IF d = "dl" THEN "begin_ul" ELSE "assign_dl"
         \/ /\ phase' = phase /\ slot'.cur = NextUe(slot.cur)
            /\ slot'.loop.rem = RestOf(d)
            /\ slot'.loop.flows = FlowsLeft(d, slot.cur)
            /\ slot'.loop.average = slot.loop.average + ExtraOf(d)
            /\ slot'.loop.each = IF PassEnds
                                 THEN AtLeast1(RestOf(d) \div FlowsLeft(d, slot.cur))
                                 ELSE slot.loop.each + ExtraOf(d)
  BY <1>4, ShareEffect DEF SchedulerInv
<1>6. GivenMore(d)
  BY <1>5 DEF GivenMore
<1>7. /\ slot'.given \in [Dirs -> [Ues -> Nat]]
      /\ \A e \in Dirs \ {d} : slot'.given[e] = slot.given[e]
      /\ \A e \in Dirs, v \in Ues : slot'.given[e][v] <= slot'.asked[e][v]
      /\ RestOf(d) \in Nat
      /\ TotalGiven(d)' + RestOf(d) = AtMost(TotalAsked(d), slot.avail[d])
      /\ TotalGiven(d)' \in Nat
  BY <1>2, <1>3, <1>6, MoreIsGiven
<1>8. SlotTyped'
  BY <1>1, <1>5, <1>7 DEF SlotTyped, SameBlocks, SameDemand
<1>9. SymbolsApart'
  <2>1. Open
    BY <1>1 DEF Open, SharePhase
  <2> QED
    BY <1>1, <1>5, <2>1, SymbolsStand DEF SameBlocks
<1>10. \A e \in Dirs, v \in Ues : Pending(e, v)
  BY <1>1, PendingPhases DEF SharePhase, Phases
<1>11. ASSUME NEW e \in Dirs PROVE SumFunction(Owed(e))' <= slot'.avail[e]
  <2>1. slot.avail[e] \in Nat /\ slot'.avail = slot.avail
    BY <1>5 DEF SlotTyped, SameBlocks
  <2>2. SumFunction(Owed(e)) \in Nat /\ SumFunction(Owed(e)) <= slot.avail[e]
    BY OwedType DEF GrantsFit
  <2> DEFINE o == [v \in Ues |-> IF Pending(e, v)' THEN slot'.given[e][v] ELSE 0]
  <2>3. SumFunction(Owed(e))' = SumFunction(o)
    BY DEF Owed
  <2>4. o \in [Ues -> Nat] /\ slot'.given[e] \in [Ues -> Nat]
        /\ \A v \in Ues : o[v] <= slot'.given[e][v]
    BY <1>7
  <2>5. SumFunction(o) \in Nat
    <3> HIDE DEF o
    <3> QED
      BY <2>4, SumType, SchedulerAssumption
  <2>6. CASE e = d
    <3>1. SumFunction(o) <= TotalGiven(d)'
      <4> HIDE DEF o
      <4>1. SumFunction(o) <= SumFunction(slot'.given[e])
        BY <2>4, SumMonotone, SchedulerAssumption
      <4> QED
        BY <2>6, <4>1 DEF TotalGiven
    <3>2. AtMost(TotalAsked(d), slot.avail[d]) <= slot.avail[d]
      BY <2>1, <2>6, OwedType, AtMostIsEither
    <3>3. AtMost(TotalAsked(d), slot.avail[d]) \in Nat
      BY <2>1, <2>6, OwedType, AtMostIsEither
    <3> HIDE DEF o
    <3> QED
      BY <1>7, <2>1, <2>3, <2>5, <2>6, <3>1, <3>2, <3>3
  <2>7. CASE e # d
    <3>1. slot'.given[e] = slot.given[e]
      BY <1>7, <2>7
    <3>2. SumFunction(Owed(e))' <= SumFunction(Owed(e))
      BY <1>8, <1>10, <3>1, OwedShrinks
    <3> HIDE DEF o
    <3> QED
      BY <2>1, <2>2, <2>3, <2>5, <3>2
  <2> QED
    BY <2>6, <2>7
<1>12. GrantsFit'
  <2>1. CASE d = "dl"
    <3>1. phase = "share_dl" /\ phase' \in {"share_dl", "begin_ul"}
      BY <1>1, <1>5, <2>1 DEF SharePhase
    <3>2. slot'.given["ul"] = slot.given["ul"]
      BY <1>7, <2>1 DEF Dirs
    <3>3. NothingGiven("ul")'
      BY <3>1, <3>2 DEF GrantsFit, NothingGiven
    <3> QED
      BY <1>7, <1>11, <3>1, <3>3 DEF GrantsFit
  <2>2. CASE d = "ul"
    <3>1. phase' \in {"share_ul", "assign_dl"}
      BY <1>1, <1>5, <2>2 DEF SharePhase
    <3> QED
      BY <1>7, <1>11, <3>1 DEF GrantsFit
  <2> QED
    BY <2>1, <2>2 DEF Dirs
<1>13. ASSUME phase' = phase, LoopGoesOn(d) PROVE LoopAgrees'
  <2>1. LoopOf(d)'
    BY <1>1, <1>3, <1>6, <1>13, LoopStands
  <2>2. phase' = SharePhase(d)
    BY <1>1, <1>13
  <2>3. ASSUME NEW e \in Dirs, phase' = SharePhase(e) PROVE e = d
    BY <2>2, <2>3 DEF SharePhase, Dirs
  <2> QED
    BY <2>1, <2>3 DEF LoopAgrees, LoopOf, ShareFits
<1>14. ASSUME phase' = IF d = "dl" THEN "begin_ul" ELSE "assign_dl" PROVE LoopAgrees'
  <2>1. \A e \in Dirs : phase' # SharePhase(e)
    BY <1>14 DEF SharePhase
  <2> QED
    BY <2>1 DEF LoopAgrees, SharePhase
<1>15. LoopAgrees'
  BY <1>5, <1>13, <1>14 DEF LoopGoesOn
<1> QED
  BY <1>5, <1>8, <1>9, <1>12, <1>15

--------------------------------------------------------------------------------
(* The invariant of the slot, step by step.                                *)
SlotInv ==
  /\ SchedulerInv /\ Queues /\ KnownUes /\ Reservations
  /\ SlotTyped /\ SymbolsApart /\ GrantsFit /\ LoopAgrees

SlotKept == SlotTyped' /\ SymbolsApart' /\ GrantsFit' /\ LoopAgrees'

LEMMA NoLoopAgrees ==
  ASSUME phase' \notin {"share_dl", "share_ul"} PROVE LoopAgrees'
BY DEF LoopAgrees, SharePhase

LEMMA SlotIsKept ==
  ASSUME SlotTyped', SymbolsApart', phase' \notin {"share_dl", "share_ul"},
         \A d \in Dirs, u \in Ues : slot'.given[d][u] = 0
  PROVE  SlotKept
BY NothingGivenFits, NoLoopAgrees DEF SlotKept

LEMMA BetweenSlotsKeeps ==
  ASSUME SlotInv, Arrive \/ \E u \in Ues : RemoveUe(u)
  PROVE  SlotKept
<1>1. phase \in {"arrive", "trigger"} /\ phase' \in {"arrive", "trigger"} /\ slot' = slot
  BY DEF Arrive, RemoveUe
<1>2. \A d \in Dirs, u \in Ues : slot.given[d][u] = 0
  BY <1>1, NothingGivenYet DEF SlotInv
<1>3. SlotTyped' /\ SymbolsApart'
  BY <1>1, BetweenSlotsSymbols DEF SlotInv
<1> QED
  BY <1>1, <1>2, <1>3, SlotIsKept

LEMMA RequestKeeps ==
  ASSUME SlotInv, SchedTriggerReq
  PROVE  SlotKept
<1>1. phase' = "harq_dl" /\ SlotTyped' /\ SymbolsApart'
  BY RequestSymbols, RequestEffect DEF SlotInv
<1>2. slot'.given = EmptySlot.given
  BY DEF SchedTriggerReq, EmptySlot
<1>3. \A d \in Dirs, u \in Ues : slot'.given[d][u] = 0
  BY <1>2, EmptySlotAgrees
<1> QED
  BY <1>1, <1>3, SlotIsKept

LEMMA FeedbackKeeps ==
  ASSUME SlotInv, NEW d \in Dirs, HarqFeedback(d), failure = "none"
  PROVE  SlotKept
<1>1. phase = HarqPhase(d) /\ phase' = phase /\ slot'.given = slot.given
  BY FeedbackEffect DEF SlotInv, SchedulerInv, Settled, Deferred, Retransmits, Fail, FeedbackTaken
<1>2. SlotTyped' /\ SymbolsApart'
  BY FeedbackSymbols DEF SlotInv
<1>3. phase \in {"harq_dl", "harq_ul"}
  BY <1>1 DEF HarqPhase
<1>4. \A e \in Dirs, u \in Ues : slot.given[e][u] = 0
  BY <1>3, NothingGivenYet DEF SlotInv
<1> QED
  BY <1>1, <1>2, <1>3, <1>4, SlotIsKept

LEMMA EndFeedbackKeepsSlot ==
  ASSUME SlotInv, NEW d \in Dirs, EndFeedback(d)
  PROVE  SlotKept
<1>1. /\ phase \in {"harq_dl", "harq_ul"} /\ phase' \in {"harq_ul", "collect"}
      /\ UNCHANGED <<slot, dci, scenario>>
  BY DEF EndFeedback, HarqPhase, harqVars
<1>2. \A e \in Dirs, u \in Ues : slot.given[e][u] = 0
  BY <1>1, NothingGivenYet DEF SlotInv
<1>3. SymbolsApart'
  BY <1>1, SymbolsStand DEF SlotInv, Open
<1>4. SlotTyped'
  BY <1>1 DEF SlotInv, SlotTyped
<1> QED
  BY <1>1, <1>2, <1>3, <1>4, SlotIsKept

LEMMA CollectKeepsSlot ==
  ASSUME SlotInv, Collect
  PROVE  SlotKept
<1>1. phase = "collect" /\ phase' \in {"end", "begin_dl"} /\ slot'.given = slot.given
  BY CollectEffect DEF SlotInv, SchedulerInv
<1>2. SlotTyped' /\ SymbolsApart'
  BY CollectSymbols DEF SlotInv
<1>3. \A e \in Dirs, u \in Ues : slot.given[e][u] = 0
  BY <1>1, NothingGivenYet DEF SlotInv
<1> QED
  BY <1>1, <1>2, <1>3, SlotIsKept

LEMMA BeginKeepsSlot ==
  ASSUME SlotInv, NEW d \in Dirs, BeginSharing(d)
  PROVE  SlotKept
<1>1. SlotTyped' /\ SymbolsApart'
  BY BeginSymbols DEF SlotInv
<1>2. GrantsFit'
  BY <1>1, BeginGrants DEF SlotInv
<1>3. phase' \in {"begin_ul", "assign_dl", SharePhase(d)}
  BY BeginEffect DEF SlotInv, SchedulerInv
<1>4. CASE phase' = SharePhase(d)
  <2>1. LoopOf(d)'
    BY <1>4, LoopBegins DEF SlotInv
  <2>2. ASSUME NEW e \in Dirs, phase' = SharePhase(e) PROVE e = d
    BY <1>4, <2>2 DEF SharePhase, Dirs
  <2>3. LoopAgrees'
    BY <2>1, <2>2 DEF LoopAgrees, LoopOf, ShareFits
  <2> QED
    BY <1>1, <1>2, <2>3 DEF SlotKept
<1>5. CASE phase' \in {"begin_ul", "assign_dl"}
  BY <1>1, <1>2, <1>5, NoLoopAgrees DEF SlotKept
<1> QED
  BY <1>3, <1>4, <1>5

LEMMA AssignKeepsSlot ==
  ASSUME SlotInv, NEW d \in Dirs, Assign(d), failure = "none"
  PROVE  SlotKept
<1>1. SlotTyped' /\ SymbolsApart'
  BY AssignSymbols DEF SlotInv
<1>2. GrantsFit'
  BY <1>1, AssignGrants DEF SlotInv
<1>3. phase = AssignPhase(d) /\ (phase' = phase \/ TurnPasses(d))
  BY AssignEffect DEF SlotInv, SchedulerInv, Fail
<1>4. phase' \notin {"share_dl", "share_ul"}
  BY <1>3 DEF TurnPasses, AssignPhase
<1> QED
  BY <1>1, <1>2, <1>4, NoLoopAgrees DEF SlotKept

LEMMA SchedConfigIndKeepsSlot ==
  ASSUME SlotInv, SchedConfigInd
  PROVE  SlotKept
<1>1. slot' = EmptySlot /\ phase' = "arrive"
  BY DEF SchedConfigInd
<1>2. SlotTyped' /\ SymbolsApart'
  BY EndSymbols DEF SlotInv
<1> QED
  BY <1>1, <1>2, EmptySlotAgrees, SlotIsKept

LEMMA InitSlotInv == Init => SlotInv
<1> SUFFICES ASSUME Init PROVE SlotInv
  OBVIOUS
<1>1. LoopAgrees
  BY DEF Init, LoopAgrees, SharePhase
<1> QED
  BY <1>1, InitInv, InitQueues, InitKnown, InitReservations, InitTyped, InitGrants DEF SlotInv

LEMMA NextSlotInv == SlotInv /\ [Next]_vars => SlotInv'
<1> SUFFICES ASSUME SlotInv, [Next]_vars PROVE SlotInv'
  OBVIOUS
<1>1. SchedulerInv' /\ Queues' /\ KnownUes' /\ Reservations'
  BY NextInv, NextQueues, KnownStand, NextReservations DEF SlotInv
<1>2. SlotKept
  <2>1. CASE UNCHANGED vars
    <3>1. UNCHANGED <<slot, phase, dci, scenario>>
      BY <2>1 DEF vars, harqVars
    <3>2. SlotTyped' /\ SymbolsApart'
      BY <3>1 DEF SlotInv, SlotTyped, SymbolsApart, Open, PartsApart, TtisApart, InItsPart,
                  LayerEnd, BetweenDirs
    <3>3. \A d \in Dirs : Owed(d)' = Owed(d)
      BY <3>1 DEF Owed, Pending, Before
    <3>4. GrantsFit'
      BY <3>1, <3>3 DEF SlotInv, GrantsFit, NothingGiven
    <3>5. \A d \in Dirs : Unfinished(d)' = Unfinished(d) /\ Waiting(d)' = Waiting(d)
                          /\ TotalGiven(d)' = TotalGiven(d) /\ TotalAsked(d)' = TotalAsked(d)
      BY <3>1 DEF Unfinished, Waiting, Before, TotalGiven, TotalAsked
    <3>6. LoopAgrees'
      BY <3>1, <3>5 DEF SlotInv, LoopAgrees, ShareFits
    <3> QED
      BY <3>2, <3>4, <3>6 DEF SlotKept
  <2>2. CASE Next
    <3>1. failure = "none"
      BY <2>2 DEF Next
    <3>2. CASE Arrive \/ \E u \in Ues : RemoveUe(u)
      BY <3>2, BetweenSlotsKeeps
    <3>3. CASE SchedTriggerReq
      BY <3>3, RequestKeeps
    <3>4. ASSUME NEW d \in Dirs, HarqFeedback(d) PROVE SlotKept
      BY <3>1, <3>4, FeedbackKeeps
    <3>5. ASSUME NEW d \in Dirs, EndFeedback(d) PROVE SlotKept
      BY <3>5, EndFeedbackKeepsSlot
    <3>6. CASE Collect
      BY <3>6, CollectKeepsSlot
    <3>7. ASSUME NEW d \in Dirs, BeginSharing(d) PROVE SlotKept
      BY <3>7, BeginKeepsSlot
    <3>8. ASSUME NEW d \in Dirs, ShareSymbols(d) PROVE SlotKept
      BY <3>8, ShareStep DEF SlotInv, SlotKept
    <3>9. ASSUME NEW d \in Dirs, Assign(d) PROVE SlotKept
      BY <3>1, <3>9, AssignKeepsSlot
    <3>10. CASE SchedConfigInd
      BY <3>10, SchedConfigIndKeepsSlot
    <3> QED
      BY <2>2, <3>2, <3>3, <3>4, <3>5, <3>6, <3>7, <3>8, <3>9, <3>10 DEF Next
  <2> QED
    BY <2>1, <2>2
<1> QED
  BY <1>1, <1>2 DEF SlotInv, SlotKept

(* The invariant of DoSchedTriggerReq holds at each of its steps, in every *)
(* slot: the feedback names UEs and processes there are, the two           *)
(* directions have parts of the slot to themselves, and what the flows     *)
(* were given fits what is left.                                           *)
THEOREM SlotInvariantHolds == Spec => []SlotInv
BY InitSlotInv, NextSlotInv, PTL DEF Spec

--------------------------------------------------------------------------------
LEMMA SlotUsesOwnSymbols ==
  ASSUME KnownUes, SlotTyped, SymbolsApart, SchedulerInv
  PROVE  SymbolsAreExclusive
<1>1. ASSUME NEW i \in DOMAIN slot.ttis, NEW n \in slot.ttis[i].from..slot.ttis[i].to, Open
      PROVE  n \in OwnSymbols
  <2> DEFINE t == slot.ttis[i]
  <2>1. t \in TtiType
    BY DEF SlotTyped
  <2>2. t.from \in Nat /\ t.to \in Int /\ n \in Int /\ t.from <= n /\ n <= t.to
    BY <2>1 DEF TtiType
  <2>3. LayerFirst(scenario.layer) <= t.from /\ (t.from <= t.to => t.to < LayerEnd)
    BY <1>1 DEF SymbolsApart, InItsPart
  <2>4. scenario.layer \in Layers /\ LayerFirst(scenario.layer) \in Nat /\ LayerEnd \in Nat
    BY KnownLayer, LayerBounds DEF LayerEnd
  <2>5. LayerFirst(scenario.layer) <= n /\ n < LayerEnd
    <3> HIDE DEF t
    <3> QED
      BY <2>2, <2>3, <2>4
  <2>6. /\ SymAvail \in Nat /\ ResvChildrenDu \in Nat /\ DlCtrlSymbols \in Nat
        /\ SymAvail > ResvChildrenDu
    BY TddSlotAssumption, KnownLayer, LayerBounds
  <2>7. CASE scenario.layer = "all"
    BY <2>2, <2>5, <2>6, <2>7 DEF OwnSymbols, LayerEnd, LayerFirst, LayerSize
  <2>8. CASE scenario.layer = "even"
    BY <2>2, <2>5, <2>6, <2>8 DEF OwnSymbols, LayerEnd, LayerFirst, LayerSize, LayerSymbols
  <2>9. CASE scenario.layer = "odd"
    BY <2>2, <2>5, <2>6, <2>9 DEF OwnSymbols, LayerEnd, LayerFirst, LayerSize, LayerSymbols
  <2> QED
    BY <2>4, <2>7, <2>8, <2>9 DEF Layers
<1>2. CASE Open
  BY <1>1, <1>2 DEF SymbolsAreExclusive, SymbolsApart, TtisApart
<1>3. CASE ~Open
  <2>1. slot = EmptySlot
    BY <1>3 DEF Open, SchedulerInv, SlotAgrees
  <2>2. DOMAIN slot.ttis = {}
    BY <2>1, EmptySlotTyped, NoTtisTyped
  <2> QED
    BY <2>2 DEF SymbolsAreExclusive
<1> QED
  BY <1>2, <1>3

(* For any layer, slots format, reservation, traffic and retransmissions:  *)
(* DoSchedTriggerReq gives no symbol twice in a slot, and none that is a   *)
(* control symbol or of the layers of the node's parent and children       *)
(* (UseTdmBetweenDuAndMtInterfaces).                                       *)
THEOREM SymbolsAlwaysExclusive == Spec => []SymbolsAreExclusive
<1>1. SlotInv => SymbolsAreExclusive
  BY SlotUsesOwnSymbols DEF SlotInv
<1> QED
  BY <1>1, SlotInvariantHolds, PTL

--------------------------------------------------------------------------------
(* What a failure says, action by action.                                  *)
Excused(what) ==
  \/ what = "feedback of an unknown UE" /\ attached # scenario.ues
  \/ what = "assertion of a free process" /\ NumHarqProcess <= HarqTimeout

LEMMA FeedbackFailures ==
  ASSUME SlotInv, NEW d \in Dirs, HarqFeedback(d), failure = "none"
  PROVE  failure' = "none" \/ Excused(failure')
<1> DEFINE a == FirstAnswer(d)  b == AnsweredBlock(d)
<1>1. /\ harqInfoList[d] \in Seq(Answered) /\ harqInfoList[d] # <<>>
      /\ scenario.ues \subseteq Ues
  BY FeedbackEffect, KnownLayer DEF SlotInv, SchedulerInv, Queues, QueuesOf
<1>2. a \in Answered
  BY <1>1 DEF FirstAnswer
<1>3. a.ue \in scenario.ues /\ b \in Blocks
  BY <1>1, <1>2 DEF Answered, AnsweredBlock, Blocks
<1>4. failure' # "assertion of the last symbol"
  BY FeedbackSymbols DEF SlotInv
<1>5. CASE Fail("feedback of an unknown UE") /\ a.ue \notin attached
  BY <1>3, <1>5 DEF Fail, Excused
<1>6. ~(status[b] > 0 /\ status[b] - 1 # dci[b].rv)
  BY <1>3 DEF SlotInv, SchedulerInv, BooksAgree, Busy
<1>7. CASE UNCHANGED failure
  BY <1>7
<1> QED
  BY <1>4, <1>5, <1>6, <1>7, FeedbackEffect
     DEF SlotInv, SchedulerInv, Fail, Settled, Deferred, Retransmits

LEMMA AssignFailures ==
  ASSUME SlotInv, NEW d \in Dirs, Assign(d), failure = "none"
  PROVE  failure' = "none" \/ Excused(failure')
<1>1. failure' # "assertion of the last symbol"
  BY AssignSymbols DEF SlotInv
<1>2. CASE FreeProcess(d, slot.cur) = NoProcess /\ Fail("assertion of a free process")
  <2>1. ASSUME NumHarqProcess > HarqTimeout PROVE FALSE
    <3>1. slot.cur \in Ues /\ Pending(d, slot.cur)
      BY AssignEffect, GrantIsThere DEF SlotInv, SchedulerInv
    <3>2. FreeProcess(d, slot.cur) \in Procs
      BY <2>1, <3>1, SomeProcessIsFree DEF SlotInv, SchedulerInv, PendingStartedEarlier
    <3> QED
      BY <1>2, <3>2, NoProcessIsNone
  <2>2. NumHarqProcess <= HarqTimeout
    BY <2>1, SchedulerAssumption
  <2> QED
    BY <1>2, <2>2 DEF Fail, Excused
<1>3. CASE UNCHANGED failure
  BY <1>3
<1> QED
  BY <1>1, <1>2, <1>3, AssignEffect DEF SlotInv, SchedulerInv, Fail

LEMMA NextFailures ==
  ASSUME SlotInv, OnlyReleasesFail, [Next]_vars
  PROVE  OnlyReleasesFail'
<1>1. CASE UNCHANGED vars
  BY <1>1 DEF vars, OnlyReleasesFail
<1>2. ASSUME failure = "none", failure' = "none" \/ Excused(failure') PROVE OnlyReleasesFail'
  <2>1. scenario' = scenario /\ attached' \subseteq attached /\ attached \subseteq scenario.ues
    BY KnownStand DEF SlotInv, KnownUes
  <2> QED
    BY <1>2, <2>1 DEF OnlyReleasesFail, Excused
<1>3. CASE Next
  <2>1. failure = "none"
    BY <1>3 DEF Next
  <2>2. ASSUME NEW d \in Dirs, HarqFeedback(d) PROVE OnlyReleasesFail'
    BY <1>2, <2>1, <2>2, FeedbackFailures
  <2>3. ASSUME NEW d \in Dirs, Assign(d) PROVE OnlyReleasesFail'
    BY <1>2, <2>1, <2>3, AssignFailures
  <2>4. ASSUME NEW d \in Dirs, ShareSymbols(d) PROVE UNCHANGED failure
    BY <2>4, ShareStep DEF SlotInv
  <2>5. \/ \E d \in Dirs : HarqFeedback(d) \/ Assign(d)
        \/ UNCHANGED failure
    BY <1>3, <2>4 DEF Next, Arrive, RemoveUe, SchedTriggerReq, EndFeedback, Collect,
                      BeginSharing, SchedConfigInd
  <2> QED
    BY <1>2, <2>1, <2>2, <2>3, <2>5
<1> QED
  BY <1>1, <1>3

(* The assertions of DoSchedTriggerReq on redundancy versions and on the   *)
(* last symbol never fail, no division of its loops is by zero, and a      *)
(* process is free when there are more than a timeout has slots. What is   *)
(* left is the feedback of a UE that DoCschedUeReleaseReq took out of the  *)
(* books, but not out of the lists.                                        *)
THEOREM OnlyDeparturesFail == Spec => []OnlyReleasesFail
<1>1. Init => OnlyReleasesFail
  BY DEF Init, OnlyReleasesFail
<1>2. SlotInv /\ OnlyReleasesFail /\ [Next]_vars => OnlyReleasesFail'
  BY NextFailures
<1> QED
  BY <1>1, <1>2, SlotInvariantHolds, PTL DEF Spec

--------------------------------------------------------------------------------
(* The fair shares.                                                        *)
LEMMA NextUeLeavesNoneOut ==
  ASSUME NEW u \in Nat, slot.ueInfo \subseteq Nat, u \in slot.ueInfo, slot.start \in slot.ueInfo,
         NEW v \in slot.ueInfo, NextUe(u) = slot.start \/ Before(v, NextUe(u))
  PROVE  Before(v, u) \/ v = u
<1> DEFINE above == {x \in slot.ueInfo : x > u}
           s == slot.start
           next == NextUe(u)
<1>1. s \in Nat /\ s \in slot.ueInfo /\ v \in Nat
  OBVIOUS
<1>2. CASE above # {}
  <2>1. next = Min(above)
    BY <1>2 DEF NextUe
  <2>2. next \in above /\ \A y \in above : next <= y
    <3> HIDE DEF next
    <3>1. above \subseteq Nat
      OBVIOUS
    <3> HIDE DEF above
    <3> QED
      BY <1>2, <2>1, <3>1, MinIsLeast
  <2>3. next \in Nat /\ next > u
    BY <2>2
  <2>4. (s > u => next <= s) /\ (v > u => next <= v)
    BY <1>1, <2>2
  <2>5. next = s \/ Before(v, next)
    OBVIOUS
  <2> HIDE DEF next, above
  <2> QED
    BY <1>1, <2>3, <2>4, <2>5 DEF Before
<1>3. CASE above = {}
  <2>1. next = Min(slot.ueInfo)
    BY <1>3 DEF NextUe
  <2>2. next \in slot.ueInfo /\ \A y \in slot.ueInfo : next <= y
    <3> HIDE DEF next
    <3> QED
      BY <2>1, MinIsLeast
  <2>3. next \in Nat /\ next <= s /\ s <= u /\ next <= v /\ v <= u
    BY <1>1, <1>3, <2>2
  <2>4. next = s \/ Before(v, next)
    OBVIOUS
  <2> HIDE DEF next, above
  <2> QED
    BY <1>1, <2>3, <2>4 DEF Before
<1> QED
  BY <1>2, <1>3

LEMMA ShareType ==
  ASSUME SlotTyped, NEW d \in Dirs, Flows(d) # 0
  PROVE  Share(d) \in Nat
<1>1. /\ slot.asked[d] \in [Ues -> Nat] /\ TotalAsked(d) \in Nat /\ slot.avail[d] \in Nat
  BY OwedType DEF SlotTyped
<1>2. AtMost(TotalAsked(d), slot.avail[d]) \in Nat
  BY <1>1, AtMostIsEither
<1>3. Flows(d) \in Nat \ {0}
  <2>1. {u \in Ues : slot.asked[d][u] > 0} \subseteq Ues
    OBVIOUS
  <2>2. Flows(d) \in Nat
    BY <2>1, UeSetsAreFinite DEF Flows
  <2> QED
    BY <2>2
<1> QED
  BY <1>2, <1>3, Quotient DEF Share

(* A share that a UE has stays: the demand of a slot does not change.      *)
LEMMA FairStands ==
  ASSUME SlotTyped, SlotTyped', SameBlocks, SameDemand, NEW d \in Dirs, NEW u \in Ues,
         Flows(d) # 0, slot'.given[d][u] >= slot.given[d][u], HasFairShare(d, u)
  PROVE  HasFairShare(d, u)'
<1>1. /\ slot.given[d][u] \in Nat /\ slot'.given[d][u] \in Nat /\ slot.asked[d][u] \in Nat
      /\ Share(d) \in Nat
  BY ShareType DEF SlotTyped
<1>2. AtMost(slot.asked[d][u], Share(d)) \in Nat
  BY <1>1, AtMostIsEither
<1>3. slot'.retx[d][u] = 0 => slot'.given[d][u] >= AtMost(slot.asked[d][u], Share(d))
  <2>1. slot.retx[d][u] = 0 => slot.given[d][u] >= AtMost(slot.asked[d][u], Share(d))
    BY DEF HasFairShare, Share
  <2> QED
    BY <1>1, <1>2, <2>1 DEF SameBlocks
<1>4. /\ slot'.asked = slot.asked /\ slot'.avail = slot.avail
      /\ Flows(d)' = Flows(d) /\ TotalAsked(d)' = TotalAsked(d)
  BY DEF SameBlocks, SameDemand, Flows, TotalAsked
<1> QED
  BY <1>3, <1>4 DEF HasFairShare, Share

(* Who asks for no more than it was given has its share.                   *)
LEMMA EnoughIsFair ==
  ASSUME SlotTyped, NEW d \in Dirs, NEW u \in Ues, Flows(d) # 0,
         slot.asked[d][u] <= slot.given[d][u] \/ Share(d) <= slot.given[d][u]
  PROVE  HasFairShare(d, u)
<1>1. slot.given[d][u] \in Nat /\ slot.asked[d][u] \in Nat /\ Share(d) \in Nat
  BY ShareType DEF SlotTyped
<1>2. /\ AtMost(slot.asked[d][u], Share(d)) \in Nat
      /\ AtMost(slot.asked[d][u], Share(d)) <= slot.asked[d][u]
      /\ AtMost(slot.asked[d][u], Share(d)) <= Share(d)
  BY <1>1, AtMostIsEither
<1>3. slot.given[d][u] >= AtMost(slot.asked[d][u], Share(d))
  BY <1>1, <1>2
<1> QED
  BY <1>3 DEF HasFairShare, Share

LEMMA EnoughIsFairNext ==
  ASSUME SlotTyped', NEW d \in Dirs, NEW u \in Ues, Flows(d)' # 0,
         slot'.asked[d][u] <= slot'.given[d][u] \/ Share(d)' <= slot'.given[d][u]
  PROVE  HasFairShare(d, u)'
<1>1. /\ slot'.given[d][u] \in Nat /\ slot'.asked[d][u] \in Nat
      /\ slot'.asked[d] \in [Ues -> Nat] /\ slot'.avail[d] \in Nat
  BY DEF SlotTyped
<1>2. TotalAsked(d)' \in Nat
  BY <1>1, SumType, SchedulerAssumption DEF TotalAsked
<1>3. AtMost(TotalAsked(d)', slot'.avail[d]) \in Nat
  BY <1>1, <1>2, AtMostIsEither
<1>4. Flows(d)' \in Nat \ {0}
  <2>1. {v \in Ues : slot'.asked[d][v] > 0} \subseteq Ues
    OBVIOUS
  <2>2. Flows(d)' \in Nat
    BY <2>1, UeSetsAreFinite DEF Flows
  <2> QED
    BY <2>2
<1>5. Share(d)' \in Nat
  BY <1>3, <1>4, Quotient DEF Share
<1>6. /\ AtMost(slot'.asked[d][u], Share(d)') \in Nat
      /\ AtMost(slot'.asked[d][u], Share(d)') <= slot'.asked[d][u]
      /\ AtMost(slot'.asked[d][u], Share(d)') <= Share(d)'
  BY <1>1, <1>5, AtMostIsEither
<1>7. slot'.given[d][u] >= AtMost(slot'.asked[d][u], Share(d)')
  BY <1>1, <1>5, <1>6
<1> QED
  BY <1>7 DEF HasFairShare, Share

--------------------------------------------------------------------------------
(* The first pass over the UEs: the turn of each gives it its share.       *)
Turn(d) ==
  /\ LoopOf(d) /\ GivenMore(d) /\ Flows(d) # 0
  /\ slot.ueInfo \subseteq Ues /\ slot.cur \in slot.ueInfo /\ slot.start \in slot.ueInfo

LEMMA TurnGives ==
  ASSUME SlotTyped, SlotTyped', GrantsFit, NEW d \in Dirs, Turn(d)
  PROVE  /\ slot.cur \in Ues
         /\ Flows(d)' = Flows(d) /\ Share(d)' = Share(d)
         /\ slot'.given[d][slot.cur] = slot.given[d][slot.cur] + AddSym(d, slot.cur)
         /\ \A v \in Ues \ {slot.cur} : slot'.given[d][v] = slot.given[d][v]
         /\ \A v \in Ues : /\ slot'.given[d][v] \in Nat /\ slot.given[d][v] \in Nat
                           /\ slot'.given[d][v] >= slot.given[d][v]
                           /\ HasFairShare(d, v) => HasFairShare(d, v)'
<1>1. slot.cur \in Ues
  BY DEF Turn
<1>2. /\ slot'.given[d][slot.cur] = slot.given[d][slot.cur] + AddSym(d, slot.cur)
      /\ \A v \in Ues \ {slot.cur} : slot'.given[d][v] = slot.given[d][v]
  BY <1>1, MoreIsGiven DEF Turn
<1>3. \A v \in Ues : slot'.given[d][v] \in Nat /\ slot.given[d][v] \in Nat
  BY DEF SlotTyped
<1>4. AddSym(d, slot.cur) \in Nat
  <2>1. slot.given[d][slot.cur] <= slot.asked[d][slot.cur]
    BY <1>1 DEF GrantsFit
  <2> QED
    BY <1>1, <2>1, TurnAdds DEF Turn
<1>5. ASSUME NEW v \in Ues PROVE slot'.given[d][v] >= slot.given[d][v]
  <2>1. slot.given[d][v] \in Nat
    BY <1>3
  <2>2. CASE v = slot.cur
    BY <1>2, <1>4, <2>1, <2>2
  <2>3. CASE v # slot.cur
    BY <1>2, <2>1, <2>3
  <2> QED
    BY <2>2, <2>3
<1>6. SameBlocks /\ SameDemand /\ Flows(d) # 0
  BY DEF Turn, GivenMore
<1>7. \A v \in Ues : HasFairShare(d, v) => HasFairShare(d, v)'
  BY <1>5, <1>6, FairStands
<1>8. Flows(d)' = Flows(d) /\ Share(d)' = Share(d)
  BY <1>6 DEF SameBlocks, SameDemand, Flows, Share, TotalAsked
<1> QED
  BY <1>1, <1>2, <1>3, <1>5, <1>7, <1>8

LEMMA TurnIsFair ==
  ASSUME SlotTyped, SlotTyped', GrantsFit, NEW d \in Dirs, Turn(d), FirstPass(d),
         NEW u \in Ues, u = slot.cur
  PROVE  HasFairShare(d, u)'
<1> DEFINE e == slot.loop.each
           w == Cardinality(Waiting(d))
<1>1. /\ u \in Ues /\ Flows(d)' = Flows(d) /\ Share(d)' = Share(d)
      /\ slot'.given[d][u] = slot.given[d][u] + AddSym(d, u)
      /\ slot.given[d][u] \in Nat /\ slot'.given[d][u] \in Nat
  BY TurnGives
<1>2. Flows(d) # 0 /\ Flows(d)' # 0 /\ slot'.asked = slot.asked /\ slot'.retx = slot.retx
  BY <1>1 DEF Turn, GivenMore, SameBlocks, SameDemand
<1>3. slot.asked[d][u] \in Nat /\ slot.retx[d][u] \in Nat /\ Share(d) \in Nat
  BY <1>1, <1>2, ShareType DEF SlotTyped
<1>4. slot.given[d][u] = 0
  <2>1. ~Before(u, u)
    BY <1>1, NotBeforeItself, SchedulerAssumption DEF Turn
  <2> QED
    BY <1>1, <2>1 DEF FirstPass
<1>5. CASE slot.asked[d][u] = 0 \/ Share(d) = 0
  <2>1. slot'.asked[d][u] <= slot'.given[d][u] \/ Share(d)' <= slot'.given[d][u]
    BY <1>1, <1>2, <1>5
  <2> QED
    BY <1>1, <1>2, <2>1, EnoughIsFairNext
<1>6. CASE slot.retx[d][u] # 0
  BY <1>2, <1>6 DEF HasFairShare
<1>7. CASE slot.asked[d][u] > 0 /\ Share(d) > 0 /\ slot.retx[d][u] = 0
  <2>1. /\ e \in Nat \ {0} /\ slot.loop.rem \in Nat /\ slot.loop.average \in Nat
        /\ Share(d) <= e
    BY DEF Turn, LoopOf, FirstPass
  <2>2. Eligible(d, u)
    <3>1. slot.given[d][u] + slot.retx[d][u] <= slot.loop.average
      BY <1>4, <1>7, <2>1
    <3> QED
      BY <1>4, <1>7, <3>1 DEF Eligible
  <2>3. u \in Waiting(d) /\ Waiting(d) \subseteq Ues
    <3>1. ~Before(u, u)
      BY <1>1, NotBeforeItself, SchedulerAssumption DEF Turn
    <3>2. u \in Unfinished(d)
      BY <1>1, <1>4, <1>7 DEF Unfinished
    <3> QED
      BY <3>1, <3>2 DEF Waiting, Unfinished
  <2>4. w \in Nat \ {0}
    BY <2>3, UeSetWithout
  <2>5. e <= slot.loop.rem
    <3>1. e * w <= slot.loop.rem
      <4>1. Share(d) # 0
        BY <1>3, <1>7
      <4> QED
        BY <4>1 DEF FirstPass, ShareFits
    <3> HIDE DEF e, w
    <3>2. 1 \in Nat /\ e \in Nat /\ 1 <= w /\ w \in Nat
      BY <2>1, <2>4
    <3>3. e * 1 <= e * w /\ e * w \in Nat
      BY <3>2, ProductMonotone
    <3> DEFINE x == e * w
    <3>4. e * 1 = e
      BY <3>2
    <3>5. e <= x /\ x <= slot.loop.rem /\ x \in Nat
      BY <3>1, <3>3, <3>4
    <3> HIDE DEF x
    <3> QED
      BY <2>1, <3>2, <3>5
  <2>6. Deficit(d, u) = slot.asked[d][u]
    BY <1>3, <1>4 DEF Deficit
  <2>7. AddSym(d, u) = AtMost(IF Deficit(d, u) < e THEN Deficit(d, u) ELSE e, slot.loop.rem)
    BY <2>2 DEF AddSym
  <2>8. AddSym(d, u) = IF slot.asked[d][u] < e THEN slot.asked[d][u] ELSE e
    <3> HIDE DEF e
    <3> QED
      BY <1>3, <2>1, <2>5, <2>6, <2>7 DEF AtMost
  <2>9. slot'.asked[d][u] <= slot'.given[d][u] \/ Share(d)' <= slot'.given[d][u]
    <3>1. CASE slot.asked[d][u] < e
      BY <1>1, <1>2, <1>3, <1>4, <2>8, <3>1
    <3>2. CASE ~(slot.asked[d][u] < e)
      BY <1>1, <1>3, <1>4, <2>1, <2>8, <3>2
    <3> QED
      BY <3>1, <3>2
  <2> QED
    BY <1>1, <1>2, <2>9, EnoughIsFairNext
<1> QED
  BY <1>3, <1>5, <1>6, <1>7

(* Whoever had its turn has its share; the pass goes on with the others.   *)
LEMMA PassGoesOn ==
  ASSUME SlotTyped, SlotTyped', GrantsFit, AskersAreActive, NEW d \in Dirs, Turn(d),
         FirstPass(d), ~PassEnds, LoopGoesOn(d)
  PROVE  FirstPass(d)'
<1> DEFINE u == slot.cur
           next == NextUe(u)
<1>1. /\ u \in Ues /\ Flows(d)' = Flows(d) /\ Share(d)' = Share(d)
      /\ \A v \in Ues \ {u} : slot'.given[d][v] = slot.given[d][v]
      /\ \A v \in Ues : HasFairShare(d, v) => HasFairShare(d, v)'
  BY TurnGives
<1>2. /\ LoopOf(d) /\ GivenMore(d) /\ slot.ueInfo \subseteq Ues /\ u \in slot.ueInfo
      /\ slot.start \in slot.ueInfo /\ Flows(d) # 0
  BY DEF Turn
<1>3. slot'.start = slot.start /\ slot'.asked = slot.asked /\ slot'.cur = next
  BY <1>2 DEF GivenMore, SameDemand, LoopGoesOn
<1>4. Share(d) = 0 \/ ShareFits(d)'
  BY <1>2, LoopStands DEF FirstPass
<1>5. Share(d)' <= slot'.loop.each
  <2>1. slot.loop.each \in Nat /\ Share(d) <= slot.loop.each /\ Share(d) \in Nat
    BY <1>2, ShareType DEF LoopOf, FirstPass
  <2>2. slot'.loop.each = slot.loop.each + ExtraOf(d)
    BY DEF LoopGoesOn
  <2>3. ExtraOf(d) \in Nat
    <3>1. CASE IsServed(d, u)
      <4>1. FlowsLeft(d, u) \in Nat \ {0}
        BY <1>1, <1>2, <3>1, SomeFlowIsLeft
      <4>2. AddSym(d, u) \in Nat /\ AddSym(d, u) <= slot.loop.each
        <5>1. slot.given[d][u] <= slot.asked[d][u]
          BY <1>1 DEF GrantsFit
        <5> QED
          BY <1>1, <1>2, <5>1, TurnAdds
      <4>3. slot.loop.each - AddSym(d, u) \in Nat
        BY <2>1, <4>2
      <4>4. ExtraOf(d) = (slot.loop.each - AddSym(d, u)) \div FlowsLeft(d, u)
        BY <3>1 DEF ExtraOf
      <4> DEFINE x == slot.loop.each - AddSym(d, u)
      <4> HIDE DEF x
      <4>5. x \div FlowsLeft(d, u) \in Nat
        BY <4>1, <4>3, Quotient DEF x
      <4> QED
        BY <4>4, <4>5 DEF x
    <3>2. CASE ~IsServed(d, u)
      BY <3>2 DEF ExtraOf
    <3> QED
      BY <3>1, <3>2
  <2> QED
    BY <1>1, <2>1, <2>2, <2>3
<1>6. \A v \in Ues : v = u => HasFairShare(d, v)'
  BY TurnIsFair
<1>7. Ues \subseteq Nat /\ u \in Nat /\ slot.ueInfo \subseteq Nat
  BY <1>1, <1>2, SchedulerAssumption
<1>8. ASSUME NEW v \in Ues, Before(v, next) PROVE HasFairShare(d, v)'
  <2>1. CASE v \in slot.ueInfo
    <3>1. Before(v, u) \/ v = u
      BY <1>2, <1>7, <1>8, <2>1, NextUeLeavesNoneOut
    <3> QED
      BY <1>1, <1>6, <3>1 DEF FirstPass
  <2>2. CASE v \notin slot.ueInfo
    <3>1. slot'.asked[d][v] = 0 /\ slot'.given[d][v] \in Nat
      BY <1>3, <2>2 DEF AskersAreActive, SlotTyped
    <3>2. slot'.asked[d][v] <= slot'.given[d][v]
      BY <3>1
    <3> QED
      BY <1>1, <1>2, <3>2, EnoughIsFairNext
  <2> QED
    BY <2>1, <2>2
<1>9. ASSUME NEW v \in Ues, ~Before(v, next) PROVE slot'.given[d][v] = 0
  <2>1. \A x \in Nat : Before(x, u) \/ x = u => Before(x, next)
    BY <1>2, <1>7, NextUeGoesRound DEF PassEnds
  <2>2. v \in Nat
    BY <1>7
  <2>3. ~Before(v, u) /\ v # u
    BY <1>9, <2>1, <2>2
  <2> QED
    BY <1>1, <2>3 DEF FirstPass
<1>10. \A v \in Ues : Before(v, slot.cur)' <=> Before(v, next)
  BY <1>3 DEF Before
<1> HIDE DEF next, u
<1> QED
  BY <1>1, <1>4, <1>5, <1>8, <1>9, <1>10 DEF FirstPass

(* When the loop ends, by the pass or by the symbols, everybody has it.    *)
LEMMA PassIsFair ==
  ASSUME SlotTyped, SlotTyped', GrantsFit, AskersAreActive, NEW d \in Dirs, Turn(d),
         FirstPass(d), PassEnds \/ RestOf(d) = 0
  PROVE  AllFair(d)'
<1> DEFINE u == slot.cur
           e == slot.loop.each
           W == Waiting(d)
<1>1. /\ u \in Ues /\ Flows(d)' = Flows(d) /\ Share(d)' = Share(d)
      /\ \A v \in Ues : /\ slot'.given[d][v] \in Nat
                        /\ HasFairShare(d, v) => HasFairShare(d, v)'
  BY TurnGives
<1>2. /\ LoopOf(d) /\ slot.ueInfo \subseteq Ues /\ u \in slot.ueInfo
      /\ slot.start \in slot.ueInfo /\ Flows(d) # 0 /\ slot'.asked = slot.asked
  BY DEF Turn, GivenMore, SameDemand
<1>3. \A v \in Ues : v = u => HasFairShare(d, v)'
  BY TurnIsFair
<1>4. Ues \subseteq Nat /\ u \in Nat /\ slot.ueInfo \subseteq Nat
  BY <1>1, <1>2, SchedulerAssumption
<1>5. CASE PassEnds
  <2>1. ASSUME NEW v \in Ues PROVE HasFairShare(d, v)'
    <3>1. CASE v \in slot.ueInfo
      <4>1. Before(v, u) \/ v = u
        BY <1>2, <1>4, <1>5, <3>1, NextUeLeavesNoneOut DEF PassEnds
      <4> QED
        BY <1>1, <1>3, <4>1 DEF FirstPass
    <3>2. CASE v \notin slot.ueInfo
      <4>1. slot'.asked[d][v] = 0 /\ slot'.given[d][v] \in Nat
        BY <1>1, <1>2, <3>2 DEF AskersAreActive
      <4>2. slot'.asked[d][v] <= slot'.given[d][v]
        BY <4>1
      <4> QED
        BY <1>1, <1>2, <4>2, EnoughIsFairNext
    <3> QED
      BY <3>1, <3>2
  <2> QED
    BY <2>1 DEF AllFair
<1>6. CASE RestOf(d) = 0 /\ Share(d) # 0
  <2>1. /\ e \in Nat \ {0} /\ slot.loop.rem \in Nat
    BY <1>2 DEF LoopOf
  <2>2. slot.given[d][u] <= slot.asked[d][u]
    BY <1>1 DEF GrantsFit
  <2>3. /\ AddSym(d, u) \in Nat /\ AddSym(d, u) <= e /\ (~Eligible(d, u) => AddSym(d, u) = 0)
    BY <1>1, <1>2, <2>2, TurnAdds
  <2>4. slot.loop.rem = AddSym(d, u)
    BY <1>6, <2>1, <2>3 DEF RestOf
  <2>5. e * Cardinality(W) <= slot.loop.rem
    BY <1>6 DEF FirstPass, ShareFits
  <2>6. W \subseteq Ues /\ Cardinality(W) \in Nat
    <3>1. W \subseteq Ues
      BY DEF Waiting, Unfinished
    <3> QED
      BY <3>1, UeSetsAreFinite
  <2>7. u \in Unfinished(d) => u \in W
    <3>1. ~Before(u, u)
      BY <1>2, <1>4, NotBeforeItself
    <3> QED
      BY <3>1 DEF Waiting
  <2>8. W \ {u} = {}
    <3> HIDE DEF W, e
    <3>1. Cardinality(W \ {u}) = 0
      <4>1. CASE u \in W
        <5>1. Cardinality(W) \in Nat \ {0} /\ Cardinality(W \ {u}) = Cardinality(W) - 1
          BY <2>6, <4>1, UeSetWithout
        <5>2. ASSUME Cardinality(W) >= 2 PROVE FALSE
          <6>1. e * 2 <= e * Cardinality(W) /\ e * Cardinality(W) \in Nat
            BY <2>1, <2>6, <5>2, ProductMonotone
          <6> DEFINE x == e * Cardinality(W)
          <6>2. e * 2 <= x /\ x <= slot.loop.rem /\ x \in Nat
            BY <2>5, <6>1
          <6> HIDE DEF x
          <6> QED
            BY <2>1, <2>3, <2>4, <6>2
        <5> QED
          BY <5>1, <5>2
      <4>2. CASE u \notin W
        <5>1. AddSym(d, u) = 0
          <6>1. ~Eligible(d, u)
            BY <1>1, <2>7, <4>2 DEF Eligible, Unfinished
          <6> QED
            BY <2>3, <6>1
        <5>2. ASSUME Cardinality(W) >= 1 PROVE FALSE
          <6>1. e * 1 <= e * Cardinality(W) /\ e * Cardinality(W) \in Nat
            BY <2>1, <2>6, <5>2, ProductMonotone
          <6> DEFINE x == e * Cardinality(W)
          <6>2. e * 1 <= x /\ x <= slot.loop.rem /\ x \in Nat
            BY <2>5, <6>1
          <6> HIDE DEF x
          <6> QED
            BY <2>1, <2>4, <5>1, <6>2
        <5>3. Cardinality(W) = 0
          BY <2>6, <5>2
        <5> QED
          BY <4>2, <5>3
      <4> QED
        BY <4>1, <4>2
    <3>2. IsFiniteSet(W \ {u})
      <4>1. W \ {u} \subseteq Ues
        BY <2>6
      <4> QED
        BY <4>1, UeSetsAreFinite
    <3> QED
      BY <3>1, <3>2, FS_EmptySet
  <2>9. ASSUME NEW v \in Ues PROVE HasFairShare(d, v)'
    <3>1. CASE v = u
      BY <1>3, <3>1
    <3>2. CASE v # u /\ Before(v, u)
      BY <1>1, <3>2 DEF FirstPass
    <3>3. CASE v # u /\ ~Before(v, u)
      <4>1. v \notin Unfinished(d)
        BY <2>8, <3>3 DEF Waiting
      <4>2. slot.asked[d][v] \in Nat /\ slot.given[d][v] \in Nat
        BY DEF SlotTyped
      <4>3. slot.asked[d][v] <= slot.given[d][v]
        BY <4>1, <4>2 DEF Unfinished
      <4> QED
        BY <1>1, <1>2, <4>3, EnoughIsFair
    <3> QED
      BY <3>1, <3>2, <3>3
  <2> QED
    BY <2>9 DEF AllFair
<1>7. CASE Share(d) = 0
  <2>1. ASSUME NEW v \in Ues PROVE HasFairShare(d, v)'
    <3>1. Share(d)' <= slot'.given[d][v] /\ Flows(d)' # 0
      BY <1>1, <1>2, <1>7
    <3> QED
      BY <3>1, EnoughIsFairNext
  <2> QED
    BY <2>1 DEF AllFair
<1> QED
  BY <1>5, <1>6, <1>7

--------------------------------------------------------------------------------
LEMMA EmptySlotAskers ==
  ASSUME slot' = EmptySlot PROVE AskersAreActive'
BY EmptySlotAgrees DEF AskersAreActive

LEMMA NextAskers ==
  ASSUME SlotInv, SlotTyped', AskersAreActive, [Next]_vars
  PROVE  AskersAreActive'
<1>1. ASSUME slot'.asked = slot.asked, slot.ueInfo \subseteq slot'.ueInfo
      PROVE  AskersAreActive'
  BY <1>1 DEF AskersAreActive
<1>2. ASSUME NEW d \in Dirs, HarqFeedback(d) PROVE AskersAreActive'
  <2>1. slot'.asked = slot.asked /\ slot.ueInfo \subseteq slot'.ueInfo
    BY <1>2, FeedbackEffect
       DEF SlotInv, SchedulerInv, Fail, Settled, Deferred, Retransmits
  <2> QED
    BY <1>1, <2>1
<1>3. CASE Collect
  <2>1. CASE slot' = slot
    BY <1>1, <2>1
  <2>2. CASE slot'.ueInfo = slot.ueInfo \cup {u \in Ues : \E d \in Dirs : slot'.asked[d][u] > 0}
    <3>1. ASSUME NEW d \in Dirs, NEW u \in Ues \ slot'.ueInfo PROVE slot'.asked[d][u] = 0
      <4>1. slot'.asked[d][u] \in Nat
        BY DEF SlotTyped
      <4>2. ~(slot'.asked[d][u] > 0)
        BY <2>2
      <4> QED
        BY <4>1, <4>2
    <3> QED
      BY <3>1 DEF AskersAreActive
  <2> QED
    BY <1>3, <2>1, <2>2, CollectEffect DEF SlotInv, SchedulerInv
<1>4. ASSUME NEW d \in Dirs, BeginSharing(d) \/ ShareSymbols(d) \/ Assign(d)
      PROVE  AskersAreActive'
  <2>1. slot'.asked = slot.asked /\ slot'.ueInfo = slot.ueInfo
    BY <1>4, BeginEffect, ShareEffect, AssignEffect DEF SlotInv, SchedulerInv, SameDemand, Fail
  <2> QED
    BY <1>1, <2>1
<1>5. CASE SchedConfigInd
  BY <1>5, EmptySlotAskers DEF SchedConfigInd
<1>6. CASE SchedTriggerReq
  <2>1. slot'.asked = EmptySlot.asked
    BY <1>6 DEF SchedTriggerReq, EmptySlot
  <2> QED
    BY <2>1, EmptySlotAgrees DEF AskersAreActive
<1>7. CASE slot' = slot
  BY <1>1, <1>7
<1> QED
  BY <1>2, <1>3, <1>4, <1>5, <1>6, <1>7 DEF Next, vars, Arrive, RemoveUe, EndFeedback

--------------------------------------------------------------------------------
LEMMA NoShares ==
  ASSUME phase' \notin {"begin_dl", "begin_ul", "share_dl", "share_ul"}, ~Divided'
  PROVE  SharesAreFair'
BY DEF SharesAreFair

(* What a direction has been given stays while the other is divided.       *)
LEMMA AllFairStands ==
  ASSUME SlotTyped, SlotTyped', SameBlocks, SameDemand, NEW d \in Dirs,
         slot'.given[d] = slot.given[d], Flows(d) # 0, AllFair(d)
  PROVE  AllFair(d)'
<1>1. ASSUME NEW u \in Ues PROVE HasFairShare(d, u)'
  <2>1. slot'.given[d][u] >= slot.given[d][u]
    <3>1. slot.given[d][u] \in Nat
      BY DEF SlotTyped
    <3> QED
      BY <3>1
  <2> QED
    BY <2>1, FairStands DEF AllFair
<1> QED
  BY <1>1 DEF AllFair

LEMMA FlowsType ==
  ASSUME NEW d \in Dirs PROVE Flows(d) \in Nat
<1>1. {u \in Ues : slot.asked[d][u] > 0} \subseteq Ues
  OBVIOUS
<1> QED
  BY <1>1, UeSetsAreFinite DEF Flows

LEMMA BeginShares ==
  ASSUME SlotInv, SlotTyped', SharesAreFair, NEW d \in Dirs, BeginSharing(d)
  PROVE  SharesAreFair'
<1>1. /\ phase = BeginPhase(d) /\ SameBlocks /\ SameDemand /\ slot'.given = slot.given
      /\ \/ /\ Flows(d) = 0
            /\ phase' = IF d = "dl" THEN "begin_ul" ELSE "assign_dl"
            /\ slot'.cur = IF d = "dl" THEN slot.cur ELSE slot.start
         \/ Flows(d) # 0 /\ phase' = SharePhase(d) /\ slot'.cur = slot.cur
  BY BeginEffect DEF SlotInv, SchedulerInv
<1>2. \A e \in Dirs : Flows(e)' = Flows(e) /\ Flows(e) \in Nat
  BY <1>1, FlowsType DEF Flows, SameDemand
<1>3. slot'.start = slot.start
  BY <1>1 DEF SameDemand
<1>4. ASSUME phase' = SharePhase(d), slot.cur = slot.start, slot'.cur = slot.cur
      PROVE  FirstPass(d)'
  <2>1. Share(d)' <= slot'.loop.each /\ (Share(d)' = 0 \/ ShareFits(d)')
    BY <1>4, LoopBegins DEF SlotInv
  <2>2. \A u \in Ues : slot'.given[d][u] = 0
    BY <1>1 DEF SlotInv, GrantsFit, NothingGiven, BeginPhase, Dirs
  <2>3. \A u \in Ues : ~Before(u, slot.cur)'
    <3>1. slot.start \in Nat /\ Ues \subseteq Nat
      BY <1>1, SchedulerAssumption
         DEF SlotInv, SchedulerInv, SlotAgrees, Sharing, BeginPhase
    <3> QED
      BY <1>3, <1>4, <3>1 DEF Before
  <2> QED
    BY <2>1, <2>2, <2>3 DEF FirstPass
<1>5. CASE d = "dl"
  <2>1. phase = "begin_dl" /\ slot.cur = slot.start
    BY <1>1, <1>5 DEF BeginPhase, SharesAreFair
  <2>2. CASE Flows("dl") = 0
    <3>1. phase' = "begin_ul" /\ slot'.cur = slot'.start /\ Flows("dl")' = 0
      BY <1>1, <1>2, <1>3, <1>5, <2>1, <2>2
    <3> QED
      BY <3>1 DEF SharesAreFair, Divided
  <2>3. CASE Flows("dl") # 0
    <3>1. phase' = "share_dl" /\ slot'.cur = slot.cur /\ Flows("dl")' > 0
      BY <1>1, <1>2, <1>5, <2>3 DEF SharePhase
    <3>2. FirstPass("dl")'
      BY <1>4, <1>5, <2>1, <3>1 DEF SharePhase
    <3> QED
      BY <3>1, <3>2 DEF SharesAreFair, Divided
  <2> QED
    BY <2>2, <2>3
<1>6. CASE d = "ul"
  <2>1. phase = "begin_ul"
    BY <1>1, <1>6 DEF BeginPhase
  <2>2. Flows("dl") > 0 => AllFair("dl")'
    <3> SUFFICES ASSUME Flows("dl") > 0 PROVE AllFair("dl")'
      OBVIOUS
    <3>1. AllFair("dl") /\ Flows("dl") # 0 /\ "dl" \in Dirs
      BY <2>1 DEF SharesAreFair, Dirs
    <3> QED
      BY <1>1, <3>1, AllFairStands DEF SlotInv
  <2>3. CASE Flows("ul") = 0
    <3>1. phase' = "assign_dl" /\ Flows("ul")' = 0 /\ Flows("dl")' = Flows("dl")
      BY <1>1, <1>2, <1>6, <2>3 DEF Dirs
    <3> QED
      BY <2>2, <3>1 DEF SharesAreFair
  <2>4. CASE Flows("ul") # 0
    <3>1. phase' = "share_ul" /\ Flows("ul")' > 0 /\ Flows("dl")' = Flows("dl")
          /\ slot'.cur = slot.cur
      BY <1>1, <1>2, <1>6, <2>4 DEF SharePhase, Dirs
    <3>2. Flows("dl") = 0 => FirstPass("ul")'
      BY <1>4, <1>6, <2>1, <3>1 DEF SharesAreFair, SharePhase
    <3> QED
      BY <2>2, <3>1, <3>2 DEF SharesAreFair, Divided
  <2> QED
    BY <2>3, <2>4
<1> QED
  BY <1>5, <1>6 DEF Dirs

(* A turn of the division keeps what was fair, or takes the pass further.  *)
LEMMA TurnStaysFair ==
  ASSUME SlotInv, SlotTyped', AskersAreActive, NEW d \in Dirs, Turn(d),
         FirstPass(d) \/ AllFair(d),
         (RestOf(d) = 0 \/ PassEnds) \/ LoopGoesOn(d)
  PROVE  /\ AllFair(d)' \/ FirstPass(d)'
         /\ RestOf(d) = 0 \/ PassEnds => AllFair(d)'
<1>1. SlotTyped /\ GrantsFit
  BY DEF SlotInv
<1>2. CASE AllFair(d)
  BY <1>1, <1>2, TurnGives DEF AllFair
<1>3. CASE FirstPass(d) /\ (RestOf(d) = 0 \/ PassEnds)
  BY <1>1, <1>3, PassIsFair
<1>4. CASE FirstPass(d) /\ ~(RestOf(d) = 0 \/ PassEnds)
  BY <1>1, <1>4, PassGoesOn
<1> QED
  BY <1>2, <1>3, <1>4

LEMMA ShareShares ==
  ASSUME SlotInv, SlotTyped', AskersAreActive, SharesAreFair, NEW d \in Dirs, ShareSymbols(d)
  PROVE  SharesAreFair'
<1>1. /\ phase = SharePhase(d)
      /\ slot.cur \in slot.ueInfo /\ slot.start \in slot.ueInfo /\ slot.ueInfo \subseteq Ues
  BY ShareEffect DEF SlotInv, SchedulerInv, SlotAgrees, Sharing, SharePhase
<1>2. slot.cur \in Ues /\ slot.start \in Ues
  BY <1>1
<1>3. LoopOf(d)
  BY <1>1, LoopIsLoop DEF SlotInv
<1>4. ~(IsServed(d, slot.cur) /\ FlowsLeft(d, slot.cur) = 0)
  BY <1>2, <1>3, SomeFlowIsLeft DEF SlotInv
<1>5. /\ GivenMore(d)
      /\ \/ /\ RestOf(d) = 0 \/ PassEnds
            /\ phase' = IF d = "dl" THEN "begin_ul" ELSE "assign_dl"
            /\ slot'.cur = IF d = "dl" THEN NextUe(slot.cur) ELSE slot.start
         \/ phase' = phase /\ LoopGoesOn(d)
  BY <1>4, ShareEffect DEF SlotInv, SchedulerInv, GivenMore, LoopGoesOn
<1>6. \A e \in Dirs : Flows(e)' = Flows(e) /\ Flows(e) \in Nat
  BY <1>5, FlowsType DEF Flows, GivenMore, SameDemand
<1>7. Flows(d) # 0
  BY <1>1, <1>6 DEF SharesAreFair, SharePhase, Dirs
<1>8. Turn(d)
  BY <1>1, <1>3, <1>5, <1>7 DEF Turn
<1>9. ASSUME FirstPass(d) \/ AllFair(d)
      PROVE  /\ AllFair(d)' \/ FirstPass(d)'
             /\ phase' # phase => AllFair(d)'
  BY <1>1, <1>5, <1>8, <1>9, TurnStaysFair
<1>10. CASE d = "dl"
  <2>1. phase = "share_dl" /\ Flows("dl") > 0 /\ (FirstPass("dl") \/ AllFair("dl"))
    BY <1>1, <1>10 DEF SharePhase, SharesAreFair
  <2>2. AllFair("dl")' \/ FirstPass("dl")'
    BY <1>9, <1>10, <2>1
  <2>3. Flows("dl")' > 0
    BY <1>6, <2>1 DEF Dirs
  <2>4. CASE phase' = "begin_ul"
    <3>1. AllFair("dl")'
      BY <1>9, <1>10, <2>1, <2>4
    <3> QED
      BY <2>3, <2>4, <3>1 DEF SharesAreFair, Divided
  <2>5. CASE phase' = "share_dl"
    BY <2>2, <2>3, <2>5 DEF SharesAreFair, Divided
  <2> QED
    BY <1>5, <1>10, <2>1, <2>4, <2>5
<1>11. CASE d = "ul"
  <2>1. phase = "share_ul" /\ Flows("ul") > 0
    BY <1>1, <1>11 DEF SharePhase, SharesAreFair
  <2>2. Flows("ul")' > 0 /\ Flows("dl")' = Flows("dl") /\ Flows("dl") \in Nat
    BY <1>6, <2>1 DEF Dirs
  <2>3. Flows("dl") > 0 => AllFair("dl")'
    <3> SUFFICES ASSUME Flows("dl") > 0 PROVE AllFair("dl")'
      OBVIOUS
    <3>1. AllFair("dl") /\ Flows("dl") # 0 /\ "dl" \in Dirs
      BY <2>1 DEF SharesAreFair, Dirs
    <3>2. slot'.given["dl"] = slot.given["dl"]
      BY <1>2, <1>3, <1>5, <1>11, <3>1, MoreIsGiven DEF SlotInv
    <3> QED
      BY <1>5, <3>1, <3>2, AllFairStands DEF SlotInv, GivenMore
  <2>4. Flows("dl") = 0 => /\ AllFair("ul")' \/ FirstPass("ul")'
                           /\ phase' # phase => AllFair("ul")'
    BY <1>9, <1>11, <2>1 DEF SharesAreFair
  <2>5. CASE phase' = "assign_dl"
    BY <2>1, <2>2, <2>3, <2>4, <2>5 DEF SharesAreFair
  <2>6. CASE phase' = "share_ul"
    BY <2>2, <2>3, <2>4, <2>6 DEF SharesAreFair, Divided
  <2> QED
    BY <1>5, <1>11, <2>1, <2>5, <2>6
<1> QED
  BY <1>10, <1>11 DEF Dirs

LEMMA AssignShares ==
  ASSUME SlotInv, SharesAreFair, NEW d \in Dirs, Assign(d)
  PROVE  SharesAreFair'
<1>1. phase = AssignPhase(d)
  BY AssignEffect DEF SlotInv, SchedulerInv
<1>2. ASSUME NEW what, Fail(what) PROVE SharesAreFair'
  <2>1. UNCHANGED <<slot, phase>>
    BY <1>2 DEF Fail
  <2>2. \A e \in Dirs : /\ Flows(e)' = Flows(e) /\ (AllFair(e)' <=> AllFair(e))
    BY <2>1 DEF Flows, AllFair, HasFairShare, TotalAsked
  <2>3. phase' \in {"assign_dl", "assign_ul"} /\ (Divided' <=> Divided)
    BY <1>1, <2>1 DEF AssignPhase, Divided
  <2> QED
    BY <2>2, <2>3 DEF SharesAreFair, Dirs
<1>3. ASSUME TurnPasses(d), SameDemand PROVE SharesAreFair'
  <2>1. phase' \notin {"begin_dl", "begin_ul", "share_dl", "share_ul"} /\ ~Divided'
    BY <1>3 DEF TurnPasses, Divided, PassEnds, SameDemand
  <2> QED
    BY <2>1, NoShares
<1> QED
  BY <1>2, <1>3, AssignEffect DEF SlotInv, SchedulerInv

LEMMA NextShares ==
  ASSUME SlotInv, SlotTyped', AskersAreActive, SharesAreFair, [Next]_vars
  PROVE  SharesAreFair'
<1>1. CASE UNCHANGED vars
  <2>1. UNCHANGED <<slot, phase>>
    BY <1>1 DEF vars
  <2>2. \A e \in Dirs : /\ Flows(e)' = Flows(e) /\ (AllFair(e)' <=> AllFair(e))
                        /\ (FirstPass(e)' <=> FirstPass(e))
    BY <2>1 DEF Flows, AllFair, HasFairShare, TotalAsked, FirstPass, Share, ShareFits,
                Waiting, Unfinished, Before
  <2> QED
    BY <2>1, <2>2 DEF SharesAreFair, Divided, Dirs
<1>2. ASSUME NEW d \in Dirs, HarqFeedback(d) PROVE SharesAreFair'
  <2>1. phase' \in {"harq_dl", "harq_ul"}
    BY <1>2, FeedbackEffect DEF SlotInv, SchedulerInv, HarqPhase
  <2> QED
    BY <2>1, NoShares DEF Divided
<1>3. CASE Collect
  <2>1. phase' = "end" \/ (phase' = "begin_dl" /\ slot'.cur = slot'.start)
    BY <1>3, CollectEffect DEF SlotInv, SchedulerInv
  <2> QED
    BY <2>1 DEF SharesAreFair, Divided
<1>4. ASSUME NEW d \in Dirs, EndFeedback(d) PROVE SharesAreFair'
  BY <1>4, NoShares DEF Divided, EndFeedback
<1>5. CASE Arrive \/ (\E u \in Ues : RemoveUe(u)) \/ SchedTriggerReq \/ SchedConfigInd
  <2>1. phase' \in {"arrive", "trigger", "harq_dl"}
    BY <1>5 DEF Arrive, RemoveUe, SchedTriggerReq, SchedConfigInd
  <2> QED
    BY <2>1, NoShares DEF Divided
<1> QED
  BY <1>1, <1>2, <1>3, <1>4, <1>5, BeginShares, ShareShares, AssignShares DEF Next

(* What the loops of DoSchedTriggerReq have done so far is fair: while the *)
(* first pass goes round, each flow that had its turn has its share, and   *)
(* enough symbols are left for the shares of the others.                   *)
THEOREM SharesStayFair == Spec => [](AskersAreActive /\ SharesAreFair)
<1>1. Init => AskersAreActive /\ SharesAreFair
  BY EmptySlotAgrees DEF Init, AskersAreActive, SharesAreFair, Divided
<1>2. SlotInv /\ SlotInv' /\ (AskersAreActive /\ SharesAreFair) /\ [Next]_vars
        => AskersAreActive' /\ SharesAreFair'
  BY NextAskers, NextShares DEF SlotInv
<1> QED
  BY <1>1, <1>2, SlotInvariantHolds, PTL DEF Spec

(* For any number of UEs and any demands: the loops of DoSchedTriggerReq   *)
(* give nobody more than was asked, lose no symbol, and leave every        *)
(* downlink flow its even share, and every uplink flow when there is no    *)
(* downlink data.                                                          *)
THEOREM SharesAlwaysAddUp == Spec => []SharesAddUp
<1>1. SlotInv /\ SharesAreFair => SharesAddUp
  <2> SUFFICES ASSUME SlotInv, SharesAreFair PROVE SharesAddUp
    OBVIOUS
  <2>1. ASSUME NEW d \in Dirs, NEW u \in Ues PROVE slot.given[d][u] \in 0..slot.asked[d][u]
    <3>1. slot.given[d][u] \in Nat /\ slot.asked[d][u] \in Nat
          /\ slot.given[d][u] <= slot.asked[d][u]
      BY DEF SlotInv, SlotTyped, GrantsFit
    <3> QED
      BY <3>1
  <2>2. \A d \in Dirs : phase = SharePhase(d) =>
          TotalGiven(d) + slot.loop.rem = AtMost(TotalAsked(d), slot.avail[d])
    BY DEF SlotInv, LoopAgrees
  <2>3. ASSUME Divided, NEW d \in Dirs, Flows(d) > 0, d = "dl" \/ Flows("dl") = 0
        PROVE  AllFair(d)
    BY <2>3 DEF SharesAreFair, Dirs
  <2> QED
    BY <2>1, <2>2, <2>3 DEF SharesAddUp, AllFair
<1> QED
  BY <1>1, SlotInvariantHolds, SharesStayFair, PTL

--------------------------------------------------------------------------------
(* Types.                                                                  *)

(* SetSlotFormat asserts it of the cells that share the slot between DU    *)
(* and MT; of the others it is a hypothesis.                               *)
FormatsLeaveSymbols ==
  \A s \in Scenarios : s.layer = "all" /\ s.format # <<>> =>
    \A d \in Dirs : AdditionalCtrl(s.format, d) < SymAvail

BooksTyped ==
  /\ status \in [Blocks -> Int] /\ timer \in [Blocks -> Int]
  /\ dci \in [Blocks -> [rv : Int, numSym : Int]]

Remembered ==
  /\ pktBurst \subseteq Ues \X Procs /\ nextRnti \in Ues \cup {NoUe} /\ late \in BOOLEAN

FormatTyped == slotsLeft \in Nat \cup {Unbounded} /\ resvDl \in Nat

(* A slots format leaves a slot some symbols.                              *)
LEMMA SizeIsNatural ==
  ASSUME FormatsLeaveSymbols, KnownUes, NEW more
  PROVE  SizeOf(scenario.layer, scenario.format, Kind, more) \in Nat
<1> DEFINE extra(d) == AdditionalCtrl(scenario.format, d)
           size == LayerSize(scenario.layer)
<1>1. scenario \in Scenarios /\ scenario.layer \in Layers /\ size \in Nat
  BY KnownLayer, LayerBounds DEF KnownUes
<1>2. CASE Kind \notin Dirs
  BY <1>1, <1>2 DEF SizeOf
<1>3. CASE Kind \in Dirs
  <2>1. scenario.format # <<>> /\ scenario.format \in Seq(Dirs \cup {"switch"})
    BY <1>1, <1>3, ScenarioAssumption DEF Kind, Dirs
  <2>2. \A d \in Dirs : SlotsOf(scenario.format, d) > 0
    BY <1>1, <2>1, FormatAssumption
  <2>3. \A d \in Dirs : extra(d) \in Nat
    BY <2>1, <2>2, FormatSlots
  <2>4. \A d \in Dirs : extra(d) < size
    <3>1. CASE scenario.layer = "all"
      BY <1>1, <2>1, <3>1 DEF FormatsLeaveSymbols, LayerSize
    <3>2. CASE scenario.layer # "all"
      <4>1. \A d \in Dirs : extra(d) < AtMost(ResvChildrenDu, SymAvail - ResvChildrenDu)
        BY <1>1, <2>1, <3>2, FormatAssumption
      <4>2. scenario.layer \in {"odd", "even"}
        BY <1>1, <3>2 DEF Layers
      <4>3. size = IF scenario.layer = "odd" THEN ResvChildrenDu ELSE SymAvail - ResvChildrenDu
        BY <4>2 DEF LayerSize
      <4>4. ResvChildrenDu \in Int /\ SymAvail \in Int
        BY TddSlotAssumption DEF SymAvail
      <4> HIDE DEF extra, size
      <4> QED
        BY <2>3, <4>1, <4>3, <4>4 DEF AtMost
    <3> QED
      BY <3>1, <3>2
  <2>5. SizeOf(scenario.layer, scenario.format, Kind, more)
          = size - extra(Kind) - (IF more THEN 1 ELSE 0)
    BY <1>3 DEF SizeOf
  <2>6. extra(Kind) \in Nat /\ extra(Kind) < size
    BY <1>3, <2>3, <2>4
  <2> HIDE DEF size, extra
  <2>7. CASE more
    BY <1>1, <2>5, <2>6, <2>7
  <2>8. CASE ~more
    BY <1>1, <2>5, <2>6, <2>8
  <2> QED
    BY <2>7, <2>8
<1> QED
  BY <1>2, <1>3

LEMMA FormatTypeKept ==
  ASSUME FormatsLeaveSymbols, KnownUes, FormatTyped, [Next]_vars
  PROVE  FormatTyped'
<1>1. CASE UNCHANGED formatVars
  BY <1>1 DEF formatVars, FormatTyped
<1>2. CASE SchedTriggerReq
  <2>1. slotsLeft' \in Nat \cup {Unbounded}
    BY <1>2 DEF SchedTriggerReq, FormatTyped, Unbounded
  <2>2. PICK more, size, dl, sw : RequestOf(more, size, dl, sw)
    BY <1>2, RequestEffect
  <2>3. size \in Nat
    BY <2>2, SizeIsNatural DEF RequestOf
  <2>4. resvDl' \in {resvDl, size, 0}
    BY <2>2 DEF RequestOf, ResvDlOf
  <2> QED
    BY <2>1, <2>3, <2>4 DEF FormatTyped
<1> QED
  BY <1>1, <1>2, FormatStands

LEMMA BooksTypeKept ==
  ASSUME SlotInv, BooksTyped, [Next]_vars
  PROVE  BooksTyped'
<1>1. CASE UNCHANGED <<status, timer, dci>>
  BY <1>1 DEF BooksTyped
<1>2. ASSUME NEW u \in Ues, RemoveUe(u) PROVE BooksTyped'
  BY <1>2 DEF RemoveUe, BooksTyped, NoDci
<1>3. CASE SchedTriggerReq
  <2>1. \A b \in Blocks : StatusRefreshed(b) \in Int /\ Ticked(b) \in Int
    BY DEF BooksTyped, StatusRefreshed, Ticked
  <2> QED
    BY <1>3, <2>1 DEF SchedTriggerReq, RefreshHarqProcesses, BooksTyped
<1>4. ASSUME NEW d \in Dirs, HarqFeedback(d) PROVE BooksTyped'
  <2>1. \/ UNCHANGED <<status, timer, dci>>
        \/ Settled(d)
        \/ Retransmits(d)
    BY <1>4, FeedbackEffect DEF SlotInv, SchedulerInv, Fail, Deferred, harqVars
  <2>2. CASE Settled(d)
    BY <2>2 DEF Settled, BooksTyped
  <2>3. CASE Retransmits(d)
    <3>1. /\ status' = [status EXCEPT ![AnsweredBlock(d)] = status[AnsweredBlock(d)] + 1]
          /\ timer' = timer
          /\ dci' = [dci EXCEPT ![AnsweredBlock(d)].rv = dci[AnsweredBlock(d)].rv + 1]
      BY <2>3 DEF Retransmits
    <3>2. ASSUME NEW b
          PROVE  /\ [status EXCEPT ![b] = status[b] + 1] \in [Blocks -> Int]
                 /\ [dci EXCEPT ![b].rv = dci[b].rv + 1] \in [Blocks -> [rv : Int, numSym : Int]]
      <4>1. CASE b \notin Blocks
        BY <4>1 DEF BooksTyped
      <4>2. CASE b \in Blocks
        <5>1. dci[b] \in [rv : Int, numSym : Int] /\ dci[b].rv \in Int /\ status[b] \in Int
          BY <4>2 DEF BooksTyped
        <5>2. [dci[b] EXCEPT !.rv = dci[b].rv + 1] \in [rv : Int, numSym : Int]
          BY <5>1
        <5>3. [dci EXCEPT ![b].rv = dci[b].rv + 1]
                = [dci EXCEPT ![b] = [dci[b] EXCEPT !.rv = dci[b].rv + 1]]
          OBVIOUS
        <5>4. \A r \in [rv : Int, numSym : Int] :
                [dci EXCEPT ![b] = r] \in [Blocks -> [rv : Int, numSym : Int]]
          BY DEF BooksTyped
        <5>5. \A n \in Int : [status EXCEPT ![b] = n] \in [Blocks -> Int]
          BY DEF BooksTyped
        <5>6. status[b] + 1 \in Int
          BY <5>1
        <5> QED
          BY <5>2, <5>3, <5>4, <5>5, <5>6
      <4> QED
        BY <4>1, <4>2
    <3> QED
      BY <3>1, <3>2 DEF BooksTyped
  <2> QED
    BY <1>1, <2>1, <2>2, <2>3
<1>5. ASSUME NEW d \in Dirs, Assign(d) PROVE BooksTyped'
  <2>1. \/ UNCHANGED <<status, timer, dci>>
        \/ /\ status' = [status EXCEPT ![BlockOf(d)] = 1]
           /\ timer' = [timer EXCEPT ![BlockOf(d)] = 0]
           /\ dci' = [dci EXCEPT ![BlockOf(d)] = [rv |-> 0, numSym |-> slot.given[d][slot.cur]]]
    BY <1>5, AssignEffect DEF SlotInv, SchedulerInv, Fail, harqVars
  <2>2. slot.given[d][slot.cur] \in Int
    <3>1. phase \in Sharing
      BY <1>5, AssignEffect DEF SlotInv, SchedulerInv, AssignPhase, Sharing
    <3>2. slot.cur \in Ues
      BY <3>1 DEF SlotInv, SchedulerInv, SlotAgrees
    <3> QED
      BY <3>2 DEF SlotInv, SlotTyped
  <2> QED
    BY <1>1, <2>1, <2>2 DEF BooksTyped
<1> QED
  <2>1. CASE Arrive \/ Collect \/ SchedConfigInd
    BY <1>1, <2>1 DEF Arrive, Collect, SchedConfigInd, harqVars
  <2>2. ASSUME NEW d \in Dirs, EndFeedback(d) \/ BeginSharing(d) \/ ShareSymbols(d)
        PROVE  BooksTyped'
    BY <1>1, <2>2 DEF EndFeedback, BeginSharing, ShareSymbols, Fail, harqVars
  <2>3. CASE UNCHANGED vars
    BY <1>1, <2>3 DEF vars, harqVars
  <2> QED
    BY <1>2, <1>3, <1>4, <1>5, <2>1, <2>2, <2>3 DEF Next

LEMMA RememberedKept ==
  ASSUME SlotInv, Remembered, [Next]_vars
  PROVE  Remembered'
<1>1. CASE UNCHANGED <<pktBurst, nextRnti, late>>
  BY <1>1 DEF Remembered
<1>2. phase \in Sharing => slot.cur \in Ues /\ NextUe(slot.cur) \in Ues
  <2> SUFFICES ASSUME phase \in Sharing PROVE slot.cur \in Ues /\ NextUe(slot.cur) \in Ues
    OBVIOUS
  <2>1. slot.cur \in slot.ueInfo /\ slot.start \in slot.ueInfo /\ slot.ueInfo \subseteq Ues
    BY DEF SlotInv, SchedulerInv, SlotAgrees
  <2>2. slot.ueInfo \subseteq Nat /\ slot.cur \in Nat
    BY <2>1, SchedulerAssumption
  <2> QED
    BY <2>1, <2>2, NextUeGoesRound
<1>3. CASE Arrive
  BY <1>3 DEF Arrive, Acknowledged, Remembered
<1>4. ASSUME NEW u \in Ues, RemoveUe(u) PROVE Remembered'
  BY <1>4 DEF RemoveUe, Remembered
<1>5. CASE SchedTriggerReq
  BY <1>5 DEF SchedTriggerReq, RefreshHarqProcesses, Remembered
<1>6. ASSUME NEW d \in Dirs, HarqFeedback(d) PROVE Remembered'
  <2>1. UNCHANGED <<pktBurst, nextRnti, late>>
    BY <1>6, FeedbackEffect
       DEF SlotInv, SchedulerInv, Fail, Settled, Deferred, Retransmits, harqVars
  <2> QED
    BY <1>1, <2>1
<1>7. ASSUME NEW d \in Dirs, BeginSharing(d) PROVE Remembered'
  <2>1. /\ phase = BeginPhase(d) /\ UNCHANGED <<pktBurst, late>>
        /\ nextRnti' \in {nextRnti, slot.cur}
    BY <1>7, BeginEffect DEF SlotInv, SchedulerInv, harqVars
  <2> QED
    BY <1>2, <2>1 DEF Remembered, BeginPhase, Sharing
<1>8. ASSUME NEW d \in Dirs, ShareSymbols(d) PROVE Remembered'
  <2>1. /\ phase = SharePhase(d) /\ UNCHANGED <<pktBurst, late>>
        /\ nextRnti' \in {nextRnti, NextUe(slot.cur)}
    BY <1>8, ShareEffect DEF SlotInv, SchedulerInv, harqVars, Fail
  <2> QED
    BY <1>2, <2>1 DEF Remembered, SharePhase, Sharing
<1>9. ASSUME NEW d \in Dirs, Assign(d) PROVE Remembered'
  <2>1. /\ phase = AssignPhase(d) /\ UNCHANGED <<nextRnti, late>>
        /\ \/ UNCHANGED pktBurst
           \/ /\ FreeProcess(d, slot.cur) # NoProcess
              /\ pktBurst' \subseteq pktBurst \cup {<<slot.cur, FreeProcess(d, slot.cur)>>}
    BY <1>9, AssignEffect DEF SlotInv, SchedulerInv, harqVars, Fail
  <2>2. slot.cur \in Ues
    BY <1>2, <2>1 DEF AssignPhase, Sharing
  <2>3. FreeProcess(d, slot.cur) # NoProcess => FreeProcess(d, slot.cur) \in Procs
    BY FreeIsFree
  <2> QED
    BY <2>1, <2>2, <2>3 DEF Remembered
<1> QED
  <2>1. CASE Collect \/ SchedConfigInd
    BY <1>1, <2>1 DEF Collect, SchedConfigInd, harqVars
  <2>2. ASSUME NEW d \in Dirs, EndFeedback(d) PROVE Remembered'
    BY <1>1, <2>2 DEF EndFeedback, harqVars
  <2>3. CASE UNCHANGED vars
    BY <1>1, <2>3 DEF vars, harqVars
  <2> QED
    BY <1>3, <1>4, <1>5, <1>6, <1>7, <1>8, <1>9, <2>1, <2>2, <2>3 DEF Next

(* Every variable has its type: in the books of the HARQ processes, what   *)
(* the MAC holds, m_nextRnti, and the symbols that m_resvDl and            *)
(* m_resvSwitch reserve.                                                   *)
THEOREM SchedulerIsTyped ==
  ASSUME FormatsLeaveSymbols PROVE Spec => []SchedulerTypeOK
<1>1. Init => BooksTyped /\ Remembered /\ FormatTyped
  <2> SUFFICES ASSUME Init PROVE BooksTyped /\ Remembered /\ FormatTyped
    OBVIOUS
  <2>1. scenario \in Scenarios /\ slotsLeft = scenario.slots /\ resvDl = scenario.resvDl
    BY DEF Init
  <2>2. FormatTyped
    BY <2>1, ScenarioAssumption, TddSlotAssumption DEF FormatTyped
  <2>3. NoDci \in [rv : Int, numSym : Int]
    BY DEF NoDci
  <2>4. BooksTyped
    BY <2>3 DEF Init, BooksTyped
  <2>5. Remembered
    BY DEF Init, Remembered
  <2> QED
    BY <2>2, <2>4, <2>5
<1>2. SlotInv /\ (BooksTyped /\ Remembered /\ FormatTyped) /\ [Next]_vars
        => (BooksTyped /\ Remembered /\ FormatTyped)'
  BY BooksTypeKept, RememberedKept, FormatTypeKept DEF SlotInv
<1>3. SlotInv /\ (BooksTyped /\ Remembered /\ FormatTyped) => SchedulerTypeOK
  <2> SUFFICES ASSUME SlotInv, BooksTyped, Remembered, FormatTyped PROVE SchedulerTypeOK
    OBVIOUS
  <2>1. /\ status \in [Blocks -> 0..(MaxRv + 1)]
        /\ timer \in [Blocks -> 0..HarqTimeout]
        /\ dci \in [Blocks -> [rv : 0..MaxRv, numSym : 0..SymbPerSlot]]
    <3>1. \A b \in Blocks : /\ status[b] \in 0..(MaxRv + 1) /\ timer[b] \in 0..HarqTimeout
                            /\ dci[b].rv \in 0..MaxRv /\ dci[b].numSym \in 0..SymbPerSlot
      BY DEF SlotInv, SchedulerInv, BooksAgree, SlotTyped
    <3> QED
      BY <3>1 DEF BooksTyped
  <2>2. resvDl \in 0..SymbPerSlot /\ resvSwitch \in 0..SymbPerSlot
    BY TddSlotAssumption DEF SlotInv, Reservations, FormatTyped
  <2>3. attached \subseteq Ues /\ slot.ueInfo \subseteq Ues /\ phase \in Phases
    BY DEF SlotInv, SchedulerInv, BusyAreAttached, SlotAgrees
  <2> QED
    BY <2>1, <2>2, <2>3 DEF SchedulerTypeOK, Remembered, FormatTyped
<1> QED
  BY <1>1, <1>2, <1>3, SlotInvariantHolds, PTL DEF Spec
================================================================================
