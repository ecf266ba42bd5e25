------------------------------ MODULE SqlCursor ------------------------------
(***************************************************************************)
(* What a query promises about the rows of its result: after Execute it is *)
(* before the first row; each Next moves to the following row, once and in *)
(* order, until there is none; only on a row can values be read.           *)
(***************************************************************************)
EXTENDS Integers

CONSTANTS Query

VARIABLE result   \* the result each query goes through

NoResult == [open |-> FALSE, on |-> FALSE, row |-> 0, left |-> 0]

Init == result = [q \in Query |-> NoResult]

\* Execute: a new result of any number of rows.
Run(q) ==
  /\ result'[q] \in [open : {TRUE}, on : {FALSE}, row : {0}, left : Nat]
  /\ result' = [result EXCEPT ![q] = result'[q]]

Fetch(q) ==
  /\ result[q].open /\ result[q].left > 0
  /\ result' = [result EXCEPT ![q].on = TRUE, ![q].row = @ + 1, ![q].left = @ - 1]

\* Next finds no further row.
Pass(q) ==
  /\ result[q].open /\ result[q].left = 0
  /\ result' = [result EXCEPT ![q].on = FALSE]

\* Finish, a failure, or the end of the query.
Leave(q) == result' = [result EXCEPT ![q] = NoResult]

Next == \E q \in Query : Run(q) \/ Fetch(q) \/ Pass(q) \/ Leave(q)

Spec == Init /\ [][Next]_result
=============================================================================
