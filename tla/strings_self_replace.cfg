SPECIFICATION Spec
CONSTANTS
  Task = {t1, t2}
  Var = {v1, v2}
  Object = {o1, o2, o3}
  Char = {a}
  Empty = Empty
  Null = Null
  MaxLength = 3
  MaxCounter = 4
  StaticSize = 1
  GrowthFactor = 32
  MinMulAlloc = 1
  SelfReplace = TRUE
SYMMETRY Symmetry
CHECK_DEADLOCK FALSE
INVARIANT ExclusiveEdit
