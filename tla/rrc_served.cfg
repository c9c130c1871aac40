\* One UE that attaches is served in spite of losses and rejections.
CONSTANTS
  Imsis <- OneImsi
  T300 = 7
  RequestTimeout = 1
  SetupTimeout = 10
  RejectedTimeout = 2
  S1Delay = 1
  RadioDelay = 2
  MaxRnti = 5
  MaxBearers = 2
  Faults <- ManyFaults
SPECIFICATION RrcSpec
PROPERTIES
  AttachedGetsServedOrWaits
  NoContextStaysHalfWay
CHECK_DEADLOCK FALSE
