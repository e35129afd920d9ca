CONSTANTS
  kBlockSize = 3
  kGrowable = TRUE
  Sizes = {1, 2, 4}
  ByteValues = 3
  MaxTableCapacity = 2
SPECIFICATION FairSpec
CHECK_DEADLOCK TRUE
INVARIANTS
  TypeOK
  Accounting
  TableNotSparse
  StoredWhileIntact
  OldestReturnedWhileIntact
PROPERTIES
  CallsReturn
