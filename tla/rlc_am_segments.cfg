\* Retransmissions in segments, two losses.
CONSTANTS
  Modulus = 8
  WindowSize = 2
  FirstSn = 6
  SduSizes <- OneSdu
  MaxTxBufferSize = 2
  Grants = {1, 2}
  RetxAlwaysFits = {FALSE}
  StatusInOrder = {TRUE}
  MaxLosses = 2
  MaxData = 1
  MaxStatus = 1
SPECIFICATION Spec
PROPERTIES EveryAcceptedSduIsDelivered
CHECK_DEADLOCK FALSE
