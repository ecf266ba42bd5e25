---------------------------- MODULE SqliteQueries ----------------------------
(***************************************************************************)
(* The SQLite driver's queries, on top of the objects of SqlDrivers: each  *)
(* driver query keeps a prepared statement of the SQLite library and three *)
(* flags from which it tells whether the statement is on a row.            *)
(*                                                                         *)
(* The library is modelled as the driver uses it.  A statement that is     *)
(* stepped when it is done or has failed starts again by itself; values    *)
(* bind only to a statement that is ready, and stay bound when it is reset.*)
(***************************************************************************)
EXTENDS SqlDrivers

CONSTANTS
  Value,            \* values of the statement's one parameter
  MaxRows,          \* bound: rows of a result
  FailAt            \* the calls whose step of a statement may fail

ASSUME SqliteAssumption ==
  /\ Null \notin Value
  /\ MaxRows \in Nat
  /\ FailAt \subseteq {"execute", "next"}

VARIABLES
  connection,  \* SQLite3_Database.Handle: "none", "open", or failed to open
  statement,   \* SQLite3_Query.Handle, and what the library keeps for it
  cursor       \* the other components of SQLite3_Query

vars == <<driverVars, connection, statement, cursor>>

NoStatement == [state |-> "null", rows |-> 0, row |-> 0, bound |-> Null]
Prepared    == [NoStatement EXCEPT !.state = "ready"]
NoCursor    == [active |-> FALSE, hasRow |-> FALSE, skipStep |-> FALSE,
                parameter |-> Null]

-----------------------------------------------------------------------------
(***************************************************************************)
(* The SQLite library.                                                     *)
(***************************************************************************)

Reset(s) == [s EXCEPT !.state = "ready", !.rows = 0, !.row = 0]

Bound(s, v) == IF s.state = "ready" THEN [s EXCEPT !.bound = v] ELSE s

\* The statement on the given row of its result, or past the last one.
OnRow(s, n, row) ==
  [s EXCEPT !.state = IF row <= n THEN "row" ELSE "done", !.rows = n,
            !.row = IF row <= n THEN row ELSE n]

\* What sqlite3_step makes of a statement, in the given call of the driver.
Stepped(s, during) ==
  (IF s.state = "row" THEN {OnRow(s, s.rows, s.row + 1)}
                      ELSE {OnRow(s, n, 1) : n \in 0 .. MaxRows})
    \cup
  (IF during \in FailAt THEN {[Reset(s) EXCEPT !.state = "error"]} ELSE {})

-----------------------------------------------------------------------------
(***************************************************************************)
(* The driver.                                                             *)
(***************************************************************************)

\* Mutation of HasRowAfter: the end of the result is not noticed.
HasRowKept(s, hasRow) == s.state = "row" \/ hasRow

\* Call: Has_Row after the library has returned, SQLITE_ROW and SQLITE_DONE
\* set it, any other code leaves it.
HasRowAfter(s, hasRow) ==
  CASE s.state = "row"  -> TRUE
    [] s.state = "done" -> FALSE
    [] OTHER            -> hasRow

\* What finalizing an object does to the driver's: a deallocated query has had
\* its statement finalized, a deallocated database its connection closed.
Finalized ==
  /\ statement'  = [q \in Query |-> IF query'[q].live THEN statement[q] ELSE NoStatement]
  /\ cursor'     = [q \in Query |-> IF query'[q].live THEN cursor[q] ELSE NoCursor]
  /\ connection' = IF db'.live THEN connection ELSE "none"

\* SQL_Database.Open.
Open ==
  /\ owner /\ connection = "none"
  /\ connection' \in {"open", "failed"}
  /\ UNCHANGED <<driverVars, statement, cursor>>

\* Prepare fails without a connection, or when the text is not good SQL; the
\* old statement is gone, and so are the values of its parameters.
Prepare(h) ==
  LET q == ref[h]
  IN  /\ q # Null
      /\ \E s \in {NoStatement} \cup (IF connection = "open" THEN {Prepared} ELSE {}) :
           statement' = [statement EXCEPT ![q] = s]
      /\ cursor' = [cursor EXCEPT ![q].active = FALSE, ![q].parameter = Null]
      /\ UNCHANGED <<driverVars, connection>>

\* Bind_Value, of a query that was prepared: Prepare would forget the value.
BindValue(h, v) ==
  LET q == ref[h]
  IN  /\ q # Null
      /\ statement[q].state # "null"
      /\ cursor' = [cursor EXCEPT ![q].parameter = v]
      /\ UNCHANGED <<driverVars, connection, statement>>

\* Mutation of FinishedStatement: an active statement is not reset.
LeftActive(q) == statement[q]

\* The statement as Finish leaves it.
FinishedStatement(q) ==
  IF cursor[q].active THEN Reset(statement[q]) ELSE statement[q]

Finish(h) ==
  LET q == ref[h]
  IN  /\ q # Null
      /\ statement' = [statement EXCEPT ![q] = FinishedStatement(q)]
      /\ cursor'    = [cursor EXCEPT ![q].active = FALSE]
      /\ UNCHANGED <<driverVars, connection>>

\* Execute finishes an active statement, binds the parameter and steps once.
Execute(h) ==
  LET q == ref[h]
  IN  /\ q # Null
      /\ statement[q].state # "null"
      /\ \E s \in Stepped(Bound(FinishedStatement(q), cursor[q].parameter), "execute") :
           LET hasRow == HasRowAfter(s, cursor[q].hasRow)
           IN  /\ statement' = [statement EXCEPT ![q] = s]
               /\ cursor' = [cursor EXCEPT ![q].active   = s.state # "error",
                                           ![q].hasRow   = hasRow,
                                           ![q].skipStep = hasRow]
      /\ UNCHANGED <<driverVars, connection>>

\* Next: the row that Execute stepped on is the first one.
Next(h) ==
  LET q == ref[h]
  IN  /\ q # Null
      /\ cursor[q].active
      /\ \/ /\ cursor[q].skipStep
            /\ cursor' = [cursor EXCEPT ![q].skipStep = FALSE]
            /\ UNCHANGED statement
         \/ /\ ~cursor[q].skipStep /\ cursor[q].hasRow
            /\ \E s \in Stepped(statement[q], "next") :
                 /\ statement' = [statement EXCEPT ![q] = s]
                 /\ cursor' = [cursor EXCEPT ![q].hasRow = HasRowAfter(s, @)]
      /\ UNCHANGED <<driverVars, connection>>

-----------------------------------------------------------------------------
Init ==
  /\ DriverInit
  /\ connection = "none"
  /\ statement  = [q \in Query |-> NoStatement]
  /\ cursor     = [q \in Query |-> NoCursor]

\* The calls on the objects that SqlDrivers has, and what the driver adds.
Objects ==
  /\ \/ CreateDatabase
     \/ FinalizeDatabase
     \/ \E h \in Handle, q \in Query : NewQuery(h, q)
     \/ \E h, g \in Handle : CopyQuery(h, g)
     \/ \E h \in Handle : FinalizeQuery(h)
  /\ Finalized

NextStep ==
  \/ Objects
  \/ Open
  \/ \E h \in Handle : Prepare(h)
  \/ \E h \in Handle, v \in Value : BindValue(h, v)
  \/ \E h \in Handle : Finish(h)
  \/ \E h \in Handle : Execute(h)
  \/ \E h \in Handle : Next(h)

Spec == Init /\ [][NextStep]_vars

-----------------------------------------------------------------------------
(***************************************************************************)
(* Properties.                                                             *)
(***************************************************************************)

\* Every variable has the type its declaration in the source gives it.
TypeOK ==
  /\ DriverTypeOK
  /\ connection \in {"none", "open", "failed"}
  /\ statement \in [Query -> [state : {"null", "ready", "row", "done", "error"},
                              rows : 0 .. MaxRows, row : 0 .. MaxRows,
                              bound : Value \cup {Null}]]
  /\ cursor \in [Query -> [active : BOOLEAN, hasRow : BOOLEAN, skipStep : BOOLEAN,
                           parameter : Value \cup {Null}]]

\* A connection is closed only when all of its statements are finalized, which
\* sqlite3_close insists on.
ClosesAfterStatements ==
  \A q \in Query : statement[q].state # "null" =>
    query[q].attached /\ db.live /\ connection = "open"

\* Is_Active and Is_Valid of q, which together let Value read the columns.
IsReadable(q) == cursor[q].active /\ cursor[q].hasRow /\ ~cursor[q].skipStep

\* Values are read only from a statement that is on a row.
ValidMeansRow == \A q \in Query : IsReadable(q) => statement[q].state = "row"

\* A statement that Execute runs is bound to the parameter of the query, unless
\* the query's execution before has failed: the statement is not reset then, the
\* library refuses to bind, and the old value runs again.
ExecuteBinds ==
  [][\A h \in Handle : Execute(h) /\ statement[ref[h]].state # "error" =>
       statement'[ref[h]].bound = cursor[ref[h]].parameter]_vars

\* The flags of a query and the state of its statement stand for a cursor that
\* moves over the rows of one result, each once.
ResultOf(q) ==
  IF ~cursor[q].active THEN [open |-> FALSE, on |-> FALSE, row |-> 0, left |-> 0]
  ELSE LET row == IF cursor[q].skipStep THEN 0 ELSE statement[q].row
       IN  [open |-> TRUE, on |-> IsReadable(q), row |-> row,
            left |-> statement[q].rows - row]

Cursors == INSTANCE SqlCursor WITH result <- [q \in Query |-> ResultOf(q)]

\* Skipping the first step after Execute neither loses nor repeats a row.
ImplementsCursor == Cursors!Spec
=============================================================================
