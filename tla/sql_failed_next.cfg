SPECIFICATION Spec
CONSTANTS
  Handle = {h1, h2}
  Query = {q1, q2}
  Null = Null
  Value = {x}
  MaxRows = 2
  FailAt = {"next"}
SYMMETRY Symmetry
INVARIANT ValidMeansRow
