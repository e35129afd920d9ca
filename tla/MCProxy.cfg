CONSTANTS
  RawSettings <- MCRawSettings
  EndpointMayFail = FALSE
  MaxPackets <- MCMaxPackets
  MaxIdleTime = 1
SPECIFICATION Spec
CHECK_DEADLOCK TRUE
INVARIANTS
  TypeOK
  ExactlyOnePlace
  BoundedReordering
  NothingDueIsHeld
  DueInTime
PROPERTIES
  DatagramSpec
