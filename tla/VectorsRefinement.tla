-------------------------- MODULE VectorsRefinement --------------------------
(***************************************************************************)
(* The mapping under which StringVectors implements StringValues: what is  *)
(* promised of a string of characters is promised of a vector of strings,  *)
(* to be a value of its own.  A call that edits takes effect when its      *)
(* items are stored; one that shares a vector, when Self's old vector is   *)
(* dereferenced, or, when that is not counted, when Self is assigned.      *)
(***************************************************************************)
EXTENDS StringVectors

ValueAt(r) == IF r = Null THEN Null ELSE Items(r)

\* Is the call of t one that has not taken effect?
Waiting(t) ==
  LET c == call[t]
  IN  IF c.op = "share" THEN c.pc = "drop" \/ c.source = Empty
                        ELSE c.pc \notin {"idle", "refer", "spread"}

\* What the call of t makes of Self.
Result(t) ==
  LET c == call[t]
      s == Items(data[c.self])
  IN  CASE c.op = "share"   -> ValueAt(c.target)
        [] c.op = "append"  -> Append(s, c.item)
        [] c.op = "insert"  -> Inserted(s, c.index, c.item)
        [] c.op = "replace" -> [s EXCEPT ![c.index + 1] = c.item]
        [] c.op = "prepend" -> Items(c.other) \o s
        [] c.op = "slice"   -> value[c.target] \o SubSeq(Items(c.source), c.i + 1, c.index)

AbstractVal ==
  [v \in Vector |->
     IF \E t \in Task : call[t].self = v /\ call[t].op = "share"
     THEN LET t == CHOOSE t \in Task : call[t].self = v
          IN  ValueAt(IF Waiting(t) THEN call[t].source ELSE call[t].target)
     ELSE ValueAt(data[v])]

Values == INSTANCE StringValues WITH
  Var     <- Vector,
  Char    <- String,
  val     <- AbstractVal,
  pending <- [t \in Task |-> IF Waiting(t) THEN [self |-> call[t].self, result |-> Result(t)]
                                           ELSE [self |-> Null, result |-> <<>>]]

\* Sharing and the moving of strings between vectors do not show: each call
\* changes its own vector, at once, to what was asked for.
ImplementsValues == Values!Spec
=============================================================================
