SPECIFICATION FairSpec
CONSTANTS
  Object = {b1, b2}
  Table = {t1, t2, t3}
  Null = Null
  Wild = Wild
  BlockSizes = {1, 2}
  Amounts = {1, 2, 3}
  MaxTableCapacity = 4
\* Undefined behaviour has no successor.
CHECK_DEADLOCK FALSE
INVARIANTS
  TypeOK
  TablesOwnedOnce
  CarefulCallsDefined
PROPERTIES
  WritesReturn
