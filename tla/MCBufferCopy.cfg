SPECIFICATION Spec
CONSTANTS
  Object = {b1, b2}
  Table = {t1, t2, t3}
  Null = Null
  Wild = Wild
  BlockSizes = {2}
  Amounts = {1}
  MaxTableCapacity = 2
CHECK_DEADLOCK FALSE
INVARIANTS
  CopiesAreDefined
