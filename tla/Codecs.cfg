SPECIFICATION Spec
CONSTANTS
  Operations <- MCOperations
  Timestamps <- MCTimestamps
  Rates <- MCRates
  CdpParts <- MCCdpParts
  Captions <- MCCaptions
  TimeCodes <- MCTimeCodes
  PackTimes <- MCPackTimes
  AfdValues = {0, 1, 8, 15}
  Bars <- MCBars
  Counters <- MCCounters
  SdpPackets <- MCSdpPackets
  HdrPackets <- MCHdrPackets
  MaxOps = 2
  Cuts = {1, 4}
  Rests = {0, 2, 4}
CHECK_DEADLOCK FALSE
INVARIANTS
  TypeOK
  LineCarries
  DeliveredFaithfully
  UncutArrives
  CutIsNoticed
  RelayIsStable
