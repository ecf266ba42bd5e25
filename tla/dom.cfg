SPECIFICATION BuilderSpec
CONSTANTS
  Node = {n1, n2, n3, n4}
  Document = {d1, d2}
  Name = {x}
  Null = Null
  RemovesAttributes = FALSE
  MaxDepth = 2
  MaxAttributes = 1
  Tolerant = TRUE
SYMMETRY Symmetry
CONSTRAINT Bounded
INVARIANTS TypeOK OnOneList ListsReadBackwards AttributesAreUnique
PROPERTIES ImplementsForest
