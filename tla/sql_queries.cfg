SPECIFICATION Spec
CONSTANTS
  Handle = {h1, h2, h3}
  Query = {q1, q2, q3}
  Null = Null
  Value = {x}
  MaxRows = 2
  FailAt = {"execute"}
SYMMETRY Symmetry
INVARIANTS TypeOK CountersAreExact LinksAgree ListReachesAll ClosesAfterStatements ValidMeansRow
PROPERTIES ExecuteBinds ImplementsCursor
