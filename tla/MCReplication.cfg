SPECIFICATION Spec
CONSTANTS
  Object = {o1, o2}
  Nobody = Nobody
  NoId = NoId
  IdCount = 2
  State = {b1}
  Slot = {s1, s2}
SYMMETRY MCSymmetry
INVARIANTS
  TypeOK
  LinksAgree
  ObjectLife
