-------------------------------- MODULE TddSlot --------------------------------
(***************************************************************************)
(* The OFDM symbols MmWaveFlexTtiMacScheduler may give out in one slot:    *)
(* the layer split that keeps a node's MT and its DU on different symbols, *)
(* the slots format, and the downlink and uplink parts of what is left.    *)
(* Only operators: the scheduler that uses them is FlexTtiMacScheduler.    *)
(***************************************************************************)
EXTENDS Integers, Sequences, FiniteSets

CONSTANTS
  SymbPerSlot,       \* GetSymbPerSlot (14)
  DlCtrlSymbols,     \* GetDlCtrlSymbols (1), the first symbols of a slot
  UlCtrlSymbols,     \* GetUlCtrlSymbols (1), the last ones
  ResvChildrenDu,    \* m_resvChildrenDu: the symbols of the odd layers
  SwitchUlSymbols,   \* the uplink symbols of a switching slot (4)
  SlotsInPeriod,     \* the slots of a period of control symbols
  ResvCtrlSymbols    \* m_resvDlCtrlSymbols, m_resvUlCtrlSymbols

Dirs == {"dl", "ul"}
Layers == {"all", "even", "odd"}   \* all: m_useTdmIabDuAndMt is false

\* m_numDataSymbols: what is not control
SymAvail == SymbPerSlot - DlCtrlSymbols - UlCtrlSymbols

\* DoSchedTriggerReq asserts that the even layers keep something.
ASSUME TddSlotAssumption ==
  /\ SymbPerSlot \in Nat /\ DlCtrlSymbols \in Nat \ {0} /\ UlCtrlSymbols \in Nat
  /\ ResvChildrenDu \in Nat /\ SymAvail > ResvChildrenDu
  /\ SwitchUlSymbols \in Nat /\ SlotsInPeriod \in Nat \ {0}
  /\ ResvCtrlSymbols \in [Dirs -> Nat]

AtLeast0(n) == IF n < 0 THEN 0 ELSE n
AtMost(n, m) == IF n < m THEN n ELSE m

--------------------------------------------------------------------------------
(* The layer split.                                                        *)

LayerFirst(layer) ==
  DlCtrlSymbols + (IF layer = "odd" THEN SymAvail - ResvChildrenDu ELSE 0)

LayerSize(layer) ==
  CASE layer = "all"  -> SymAvail
    [] layer = "odd"  -> ResvChildrenDu
    [] layer = "even" -> SymAvail - ResvChildrenDu

LayerSymbols(layer) == LayerFirst(layer)..(LayerFirst(layer) + LayerSize(layer) - 1)

--------------------------------------------------------------------------------
(* SetSlotFormat: the control symbols beyond the two of every slot, spread *)
(* over the slots of their direction.                                      *)

SlotsOf(format, d) ==
  (Cardinality({i \in DOMAIN format : format[i] = d}) * SlotsInPeriod) \div Len(format)

ExtraCtrl(format, d) == AtLeast0(ResvCtrlSymbols[d] - 2 * SlotsOf(format, d))

AdditionalCtrl(format, d) == ExtraCtrl(format, d) \div SlotsOf(format, d)

\* m_dlCtrlSlotIndex, m_ulCtrlSlotIndex: the first slots, with one symbol more
CtrlSlotIndex(format, d) ==
  ExtraCtrl(format, d) - AdditionalCtrl(format, d) * SlotsOf(format, d)

--------------------------------------------------------------------------------
(* The symbols of one slot.  kind is its letter in the format, "" without  *)
(* a format; more says whether it has one control symbol more.             *)

SizeOf(layer, format, kind, more) ==
  IF kind \in Dirs
  THEN LayerSize(layer) - AdditionalCtrl(format, kind) - (IF more THEN 1 ELSE 0)
  ELSE LayerSize(layer)

\* m_resvDl after the format is applied; resvDl is its value before
ResvDlOf(kind, size, resvDl) ==
  CASE kind = "" -> resvDl [] kind = "dl" -> size [] OTHER -> 0

\* m_resvSwitch, likewise
ResvSwitchOf(kind, size, resvSwitch) ==
  CASE kind = "" -> resvSwitch
    [] kind = "switch" -> AtLeast0(size - SwitchUlSymbols)
    [] OTHER -> 0

SymDlAvail(size, resvDl) == AtLeast0(AtMost(resvDl, size))

SymUlAvail(size, resvDl, resvSwitch) ==
  AtLeast0(size - SymDlAvail(size, resvDl) - resvSwitch)

SymUlIdx(layer, size, resvDl, resvSwitch) ==
  LayerFirst(layer) + SymDlAvail(size, resvDl) + resvSwitch

================================================================================
