\* A downlink block is sent twice for one NACK.
CONSTANTS
  SymbPerSlot = 10
  DlCtrlSymbols = 1
  UlCtrlSymbols = 1
  ResvChildrenDu = 3
  SwitchUlSymbols = 2
  SlotsInPeriod = 6
  ResvCtrlSymbols <- CtrlSymbols
  Ues = {1, 2, 3}
  NumHarqProcess = 5
  HarqTimeout = 4
  MaxRv = 3
  FeedbackDelay = 2
  Scenarios <- AllScenarios
SPECIFICATION Spec
INVARIANTS StopAndWait
CHECK_DEADLOCK FALSE
