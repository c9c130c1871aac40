\* Two donors and four nodes on two frequencies, at the end of the ten-bit
\* address space: 1019 to 1023 are left for six devices.
CONSTANTS
  d1 = d1  d2 = d2  n1 = n1  n2 = n2  n3 = n3  n4 = n4  f1 = f1  f2 = f2
  NoDevice = NoDevice
  Donors <- TwoDonors
  IabNodes <- FourNodes
  Carriers = {f1, f2}
  DuCarrier <- RelayDu
  MtCarrier <- RelayMt
  FirstBapAddress = 1019
  FirstPathId = 255
SPECIFICATION TopologySpec
INVARIANTS
  TypeOK OneDonorPerTree NextPathIdIsFree RoutesFollowBackhaul PlaceIsReported
  SenderIsIdentified
PROPERTIES RoutesAreStable
CHECK_DEADLOCK FALSE
