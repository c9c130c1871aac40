\* Two SDUs, two losses, retransmissions whole or in segments.
CONSTANTS
  Modulus = 8
  WindowSize = 2
  FirstSn = 6
  SduSizes <- TwoSdus
  MaxTxBufferSize = 2
  Grants = {1, 2}
  RetxAlwaysFits <- Either
  StatusInOrder = {TRUE}
  MaxLosses = 2
  MaxData = 2
  MaxStatus = 2
SPECIFICATION SafeSpec
INVARIANTS RlcAmTypeOK NoFailure AcknowledgedWasReceived ReceiverWindowIsOrdered UnacknowledgedIsPursued
PROPERTIES IsOrderedChannel
CHECK_DEADLOCK FALSE
