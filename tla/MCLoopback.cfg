CONSTANTS
  t1 = t1
  t2 = t2
  t3 = t3
  NoThread = NoThread
  Thread <- MCThread
  SideOf <- MCSideOf
  Address = {"client", "server"}
  LocalAddress <- MCLocalAddress
  MaxPackets = 5
SPECIFICATION FairSpec
CHECK_DEADLOCK TRUE
INVARIANTS
  TypeOK
  LockInv
  NothingLost
  SourceIsPeer
PROPERTIES
  LinkSpec
  PollingDrains
