SPECIFICATION Spec
CONSTANTS
  Task = {t1, t2}
  Vector = {v1, v2}
  Cell = {o1, o2, o3}
  String = {s1, s2}
  Empty = Empty
  Null = Null
  MaxLength = 3
  StaticSize = 2
  GrowthFactor = 32
  MinMulAlloc = 2
  SelfPrepend = FALSE
SYMMETRY Symmetry
INVARIANTS TypeOK VectorsAreAllocated StringsAreAllocated RoomForItems CountersAgree
PROPERTIES ImplementsValues
