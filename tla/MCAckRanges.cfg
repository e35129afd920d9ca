SPECIFICATION Spec
CONSTANTS
  ByteBits = 2
  SequenceBits = 3
  IntBits = 5
  BitCapacity = 5
  MaxRanges = 2
INVARIANTS TypeOK RangeIsAcked StreamHoldsWritten ShortRangesReadBack
PROPERTIES ReadsEndWithPacket
