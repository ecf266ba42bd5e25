SPECIFICATION Spec
CONSTANTS
  Task = {t1}
  Vector = {v1}
  Cell = {o1, o2}
  String = {s1}
  Empty = Empty
  Null = Null
  MaxLength = 4
  StaticSize = 2
  GrowthFactor = 32
  MinMulAlloc = 2
  SelfPrepend = TRUE
SYMMETRY Symmetry
INVARIANT VectorsAreAllocated
