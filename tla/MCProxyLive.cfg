CONSTANTS
  RawSettings <- MCLiveSettings
  EndpointMayFail = TRUE
  MaxPackets <- MCOnePacket
  MaxIdleTime = 0
SPECIFICATION FairSpec
CHECK_DEADLOCK TRUE
PROPERTIES
  EventuallySettled
