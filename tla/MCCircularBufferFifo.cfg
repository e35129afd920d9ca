CONSTANTS
  kBlockSize = 2
  kGrowable = TRUE
  Sizes = {1, 2, 3}
  ByteValues = 9
  MaxTableCapacity = 4
SPECIFICATION Spec
CHECK_DEADLOCK TRUE
INVARIANT ReadReturnsWritten
