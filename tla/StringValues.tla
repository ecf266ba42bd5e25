----------------------------- MODULE StringValues -----------------------------
(***************************************************************************)
(* What League promises of its strings: a Universal_String is a value of   *)
(* its own.  A call changes the object it is made on and no other, once,   *)
(* and to what the call's operands were when it was made; segments,        *)
(* counters and other tasks do not show.  Appending a character may fail,  *)
(* and has then changed nothing.                                           *)
(***************************************************************************)
EXTENDS Integers, Sequences

CONSTANTS Task, Var, Char, Null

VARIABLES
  val,      \* the text of every object in scope, Null for the others
  pending   \* the call of each task that has not changed its object yet

vars == <<val, pending>>

NoCall == [self |-> Null, result |-> <<>>]
Failed == [self |-> Null, result |-> Null]

InScope(v) == val[v] # Null

Splice(s, first, size, by) ==
  SubSeq(s, 1, first) \o by \o SubSeq(s, first + size + 1, Len(s))

Slices(s) == {SubSeq(s, first + 1, last) : first, last \in 0 .. Len(s)}

\* The texts a call on v may be asked for.
Promised(v) ==
  LET s      == val[v]
      others == {val[w] : w \in {w \in Var : InScope(w)}}
  IN  \* Finalize, Clear, and an assignment
      {Null, <<>>} \cup others
      \cup \* a slice: of another object, or of v itself
      (UNION {Slices(x) : x \in others})
      \cup \* Append, Prepend and Replace
      (IF InScope(v)
       THEN {Splice(s, first, size, by) : first, size \in 0 .. Len(s),
                                          by \in others \cup {<<c>> : c \in Char}}
       ELSE {})

Init ==
  /\ val     = [v \in Var  |-> Null]
  /\ pending = [t \in Task |-> NoCall]

Declare(v) ==
  /\ ~InScope(v)
  /\ \A t \in Task : pending[t].self # v
  /\ val' = [val EXCEPT ![v] = <<>>]
  /\ UNCHANGED pending

Request(t, v) ==
  /\ pending[t] = NoCall
  /\ \A u \in Task : pending[u].self # v
  /\ pending' = [pending EXCEPT ![t] = [self |-> v, result |-> pending'[t].result]]
  /\ pending'[t].result \in Promised(v)
  /\ UNCHANGED val

Perform(t) ==
  /\ pending[t] \notin {NoCall, Failed}
  /\ val'     = [val EXCEPT ![pending[t].self] = pending[t].result]
  /\ pending' = [pending EXCEPT ![t] = NoCall]

Fail(t) ==
  /\ pending[t] \notin {NoCall, Failed}
  /\ InScope(pending[t].self)
  /\ \E c \in Char : pending[t].result = Append(val[pending[t].self], c)
  /\ pending' = [pending EXCEPT ![t] = Failed]
  /\ UNCHANGED val

Next ==
  \/ \E v \in Var : Declare(v)
  \/ \E t \in Task, v \in Var : Request(t, v)
  \/ \E t \in Task : Perform(t) \/ Fail(t)

Spec == Init /\ [][Next]_vars
=============================================================================
