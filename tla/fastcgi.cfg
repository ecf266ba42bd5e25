SPECIFICATION Spec
CONSTANTS
  Connection = {c1, c2}
  None = None
  Id = {1, 2}
  Name = {"QUERY", "undecodable"}
  Chunk = {"x", "y"}
  MaxRecords <- Records
  MaxUnread = 1
  MaxWrites = 2
CHECK_DEADLOCK FALSE
INVARIANTS TypeOK OutputInOrder
PROPERTIES HandlerSeesRequest RequestsAreAnswered
