\* Every tree of three nodes, RLC UM and AM, applications that do and do not
\* wait for the backhaul.
CONSTANTS
  d1 = d1  n1 = n1  n2 = n2  n3 = n3  f1 = f1
  NoDevice = NoDevice
  Donors <- OneDonor
  IabNodes <- ThreeNodes
  Carriers = {f1}
  DuCarrier <- OneCarrier
  MtCarrier <- MtOneCarrier
  FirstBapAddress = 62
  FirstPathId = 253
  MaxSdus = 2
  Scenarios <- PatientAndHasty
SPECIFICATION ForwardingSpec
CONSTRAINT ScriptedInOrder
INVARIANTS
  ForwardingTypeOK NoMisdelivery PacketsStayOnRoute RlcMapNamesNeighbours OnlyEarlyCrashes
PROPERTIES FlowsAreOrderedChannels EverySduArrives
CHECK_DEADLOCK FALSE
