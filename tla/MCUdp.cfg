SPECIFICATION FairSpec
CONSTANTS
  e1 = e1
  e2 = e2
  a1 = a1
  a2 = a2
  Endpoints <- MCEndpoints
  Addresses <- MCAddresses
  AddressesFor <- MCAddressesFor
  Foreign = other
  PacketSizes = {0, 2}
  Lengths = {0, 1}
  ForeignLengths = {0, 3}
  MaxDatagrams = 2
  MaxFaults = 1
INVARIANTS TypeOK AddressesOwned PolledWasSent
PROPERTIES FalseHidesNothing PollingDrains
