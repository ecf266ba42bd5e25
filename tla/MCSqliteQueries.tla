--------------------------- MODULE MCSqliteQueries ---------------------------
(***************************************************************************)
(* SqliteQueries for TLC: the SQL_Query objects, the cells of driver       *)
(* queries and the values are interchangeable.                             *)
(***************************************************************************)
EXTENDS SqliteQueries, TLC

Symmetry == Permutations(Handle) \cup Permutations(Query) \cup Permutations(Value)
=============================================================================
