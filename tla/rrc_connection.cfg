\* Two UEs connect; a message is lost, a request rejected, a bearer released.
CONSTANTS
  Imsis <- TwoImsis
  T300 = 7
  RequestTimeout = 1
  SetupTimeout = 10
  RejectedTimeout = 2
  S1Delay = 1
  RadioDelay = 1
  MaxRnti = 4
  MaxBearers = 2
  Faults <- EachFault
SPECIFICATION RrcSafeSpec
INVARIANTS
  RrcTypeOK
  OnlyReleasesFail
  OneContextPerImsi
  IdentityMapsAgree
  DownlinkReachesItsUe
  UplinkHasTunnel
  ConnectedMeansServed
  TeidsAreUnique
CHECK_DEADLOCK FALSE
