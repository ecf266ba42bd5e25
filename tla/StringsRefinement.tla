-------------------------- MODULE StringsRefinement --------------------------
(***************************************************************************)
(* The mapping under which SharedStrings implements StringValues.  A call  *)
(* that edits takes effect when its text is stored; one that shares a      *)
(* segment, when Self's old segment is dereferenced, or, when that one is  *)
(* not counted, when Self is assigned.  One that raises takes none.        *)
(***************************************************************************)
EXTENDS SharedStrings

\* The value of the program object, or of the null pointer, at r.
ValueAt(r) == IF r = Null THEN Null ELSE Text(r)

\* Is the call of t one that has not taken effect?
Waiting(t) ==
  LET c == call[t]
  IN  \/ c.pc \in {"edit", "copy"}
      \/ c.pc = "drop" /\ data[c.self] = Null
      \/ c.pc = "bind" /\ c.old \notin Object

Sharing(t) == call[t].pc \in {"drop", "free", "bind"} /\ data[call[t].self] = Null

AbstractVal ==
  [v \in Var |->
     IF \E t \in Task : Sharing(t) /\ call[t].self = v
     THEN LET t == CHOOSE t \in Task : Sharing(t) /\ call[t].self = v
          IN  ValueAt(IF Waiting(t) THEN call[t].old ELSE call[t].new)
     ELSE ValueAt(data[v])]

Values == INSTANCE StringValues WITH
  val     <- AbstractVal,
  pending <- [t \in Task |->
                IF Waiting(t)
                THEN [self |-> call[t].self,
                      result |-> IF Sharing(t) THEN ValueAt(call[t].new) ELSE Result(t)]
                ELSE [self |-> Null,
                      result |-> IF call[t].pc = "raised" THEN Null ELSE <<>>]]

\* Copy-on-write is invisible: the shared segments implement independent
\* values, each call on an object taking effect at once and on it alone.
ImplementsValues == Values!Spec
=============================================================================
