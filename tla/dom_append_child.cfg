SPECIFICATION BuilderSpec
CONSTANTS
  Node = {n1, n2}
  Document = {d1, d2}
  Name = {x}
  Null = Null
  RemovesAttributes = FALSE
  MaxDepth = 0
  MaxAttributes = 0
  Tolerant = FALSE
PROPERTY ImplementsForest
