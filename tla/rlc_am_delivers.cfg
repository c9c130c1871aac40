\* Whole retransmissions of three PDUs, one loss, under fairness.
CONSTANTS
  Modulus = 8
  WindowSize = 4
  FirstSn = 6
  SduSizes <- ThreeShortSdus
  MaxTxBufferSize = 3
  Grants = {1}
  RetxAlwaysFits = {TRUE}
  StatusInOrder = {TRUE}
  MaxLosses = 1
  MaxData = 2
  MaxStatus = 1
SPECIFICATION Spec
PROPERTIES DeliveredUnlessStalled
CHECK_DEADLOCK FALSE
