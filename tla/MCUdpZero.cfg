SPECIFICATION Spec
CONSTANTS
  e1 = e1
  e2 = e2
  a1 = a1
  a2 = a2
  Endpoints <- MCEndpoints
  Addresses <- MCAddresses
  AddressesFor <- MCAddressesFor
  Foreign = other
  PacketSizes = {2}
  Lengths = {1}
  ForeignLengths = {0}
  MaxDatagrams = 2
  MaxFaults = 1
PROPERTIES ZeroMeansNoData
