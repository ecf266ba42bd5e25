SPECIFICATION BuilderSpec
CONSTANTS
  Node = {n1, n2, n3}
  Document = {d1}
  Name = {x}
  Null = Null
  RemovesAttributes = TRUE
  MaxDepth = 2
  MaxAttributes = 1
  Tolerant = TRUE
SYMMETRY Symmetry
INVARIANT OnOneList
