SPECIFICATION Spec
CONSTANTS
  Task = {t1, t2}
  Var = {v1, v2, v3}
  Object = {o1, o2, o3}
  Char = {a}
  Empty = Empty
  Null = Null
  MaxLength = 3
  MaxCounter = 5
  StaticSize = 1
  GrowthFactor = 32
  MinMulAlloc = 1
  SelfReplace = FALSE
SYMMETRY Symmetry
CHECK_DEADLOCK FALSE
INVARIANTS
  TypeOK CounterCoversHolders NoDangling ExclusiveEdit RoomForTerminator IndexMapIsCurrent NoLeak
PROPERTIES SharedTextIsConstant ImplementsValues
