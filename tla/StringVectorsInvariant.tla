------------------------ MODULE StringVectorsInvariant ------------------------
(***************************************************************************)
(* The inductive invariant of StringVectors, in two parts: VectorsInv says *)
(* who counts which vector, and that a vector which is being edited or     *)
(* made has one holder; StringsInv says which places of which vectors a    *)
(* string's counter counts while strings are copied, moved and released.   *)
(***************************************************************************)
EXTENDS StringVectors

Ref   == Cell \cup {Empty, Null}
Edits == {"append", "insert", "replace", "prepend"}

Calls ==
  [pc     : {"idle", "detach", "look", "copy", "drop", "move", "strings", "free",
             "bind", "store", "refer", "spread", "slice"},
   op     : {"none", "share", "slice"} \cup Edits,
   self   : Vector \cup {Null}, from : Vector \cup {Null},
   item   : String \cup {Null}, other : Ref, index : Nat,
   source : Ref, target : Ref, i : Nat]

\* That the counters are natural numbers follows from what they count.
Typed ==
  /\ data \in [Vector -> Ref]
  /\ live \subseteq Cell
  /\ counter \in [Cell -> Int] /\ last \in [Cell -> Nat]
  /\ value \in [Cell -> Seq(String)]
  /\ strings \in [String -> Int]
  /\ held \subseteq String
  /\ call \in [Task -> Calls]

\* No object that a call writes is used by a call of another task.
Discipline ==
  \A t, u \in Task : t # u /\ call[t].self # Null =>
    call[t].self \notin {call[u].self, call[u].from}

\* The steps between Detach's allocation and the edit, or before a Bind, at
\* which a call still has its old vector.
Leaving == {"look", "copy", "drop", "move", "strings", "free"}

\* A call has a count of vector o: its old one, or the one that it makes.
Owns(c, o) ==
  \/ c.pc \in {"look", "copy", "drop", "move"} /\ c.source = o
  \/ c.pc = "slice" /\ c.target = o

\* The objects and the running calls that have a count of vector o.
Holders(o) == {v \in Vector : data[v] = o} \cup {t \in Task : Owns(call[t], o)}

\* The objects and strings that a call uses.
OperandShape(c) ==
  /\ c.pc = "idle" => c.self = Null /\ c.from = Null /\ c.item = Null
  /\ c.pc = "idle" <=> c.op = "none"
  /\ c.pc # "idle" => c.self \in Vector
  /\ c.from \in Vector => c.from # c.self /\ data[c.from] # Null
  /\ c.item \in String => c.item \in held

\* A call that gives Self another vector has taken away its own.
ShareShape(c) ==
  /\ c.op \in Edits \cup {"none"} => c.target = Null
  /\ c.pc = "bind" => c.op = "share"
  /\ c.op = "share" =>
       /\ c.pc \in {"drop", "strings", "free", "bind"} /\ data[c.self] = Null
       /\ c.target \in {Empty, Null} \/ (c.from \in Vector /\ c.target = data[c.from])

\* A call that edits is alone with Self's vector, once Detach has allocated it
\* or found it reusable; it reads its operand's.
EditShape(c) ==
  /\ c.pc \in {"detach", "look", "copy", "move", "store", "refer", "spread"} => c.op \in Edits
  /\ c.pc = "refer"  => c.op \in {"append", "replace"}
  /\ c.pc = "spread" => c.op = "prepend"
  /\ c.pc = "detach" => c.op = "insert" /\ data[c.self] # Null
  /\ c.op \in Edits /\ c.pc # "detach" =>
       data[c.self] \in live /\ counter[data[c.self]] = 1
  /\ c.op = "prepend" =>
       c.from \in Vector /\ c.other \in Cell /\ c.other = data[c.from]
  /\ c.op \in Edits \ {"prepend"} => c.item \in String

\* Self's vector has room for what the edit will store, at an index it has.
FitShape(c) ==
  LET n == Len(value[data[c.self]])
  IN  /\ c.pc \in Leaving \cup {"store"} =>
           /\ c.op = "append"  => n < MaxLength /\ n <= last[data[c.self]]
           /\ c.op = "insert"  => /\ n < MaxLength /\ n <= last[data[c.self]]
                                  /\ c.index <= n
           /\ c.op = "replace" => c.index < n
           /\ c.op = "prepend" => /\ n + Len(value[c.other]) <= MaxLength
                                  /\ n + Len(value[c.other]) <= last[data[c.self]] + 1
      /\ c.pc = "detach" => /\ c.index <= Len(Items(data[c.self]))
                            /\ Len(Items(data[c.self])) < MaxLength
      /\ c.pc \in {"detach", "store"} => c.i = 0

\* The old vector of a call is there, and has strings, until the call frees it.
SourceShape(c) ==
  /\ c.pc \in Leaving => c.source \in live /\ value[c.source] # <<>>
  /\ c.pc = "move" => counter[c.source] = 1
  /\ c.pc \in {"strings", "free"} => counter[c.source] = 0
  /\ c.pc \in {"look", "copy", "move"} => value[data[c.self]] = value[c.source]
  /\ c.pc \in {"copy", "strings"} => c.i < Len(value[c.source])

\* What a call has stored and not yet referenced is in Self's vector.
StoredShape(c) ==
  /\ c.pc = "refer" =>
       \E k \in 1 .. Len(value[data[c.self]]) : value[data[c.self]][k] = c.item
  /\ c.pc = "spread" =>
       /\ c.i < Len(value[c.other]) /\ Len(value[c.other]) <= Len(value[data[c.self]])
       /\ \A k \in 1 .. Len(value[c.other]) : value[data[c.self]][k] = value[c.other][k]

\* A slice is made of strings that its source has.
SliceShape(c) ==
  /\ c.pc = "slice" <=> c.op = "slice"
  /\ c.pc = "slice" =>
       /\ data[c.self] = Null /\ c.from \in Vector
       /\ c.source \in Cell /\ c.source = data[c.from]
       /\ c.target \in live /\ counter[c.target] = 1
       /\ c.i < c.index /\ c.index <= Len(value[c.source])
       /\ Len(value[c.target]) + (c.index - c.i) <= MaxLength
       /\ Len(value[c.target]) + (c.index - c.i) <= last[c.target] + 1

CallShape(c) ==
  /\ OperandShape(c) /\ ShareShape(c) /\ EditShape(c) /\ FitShape(c)
  /\ SourceShape(c) /\ StoredShape(c) /\ SliceShape(c)

CallShapes == \A t \in Task : CallShape(call[t])

LiveData == \A v \in Vector : data[v] \in live \cup {Empty, Null}

\* A vector without strings is Self's while a call is about to store into it.
NotEmpty ==
  \A v \in Vector : data[v] \in Cell /\ value[data[v]] = <<>> =>
    \E t \in Task : call[t].pc = "store" /\ call[t].self = v

LengthsBounded == \A o \in Cell : Len(value[o]) <= MaxLength

Deallocated == \A o \in Cell \ live : value[o] = <<>>

\* A vector is taken apart by one call only.
ReleasedOnce ==
  \A t, u \in Task :
    /\ t # u
    /\ call[t].pc \in {"strings", "free"} /\ call[u].pc \in {"strings", "free"}
    => call[t].source # call[u].source

\* The counters of the vectors are exact, and none is lost.
CountersExact == \A o \in Cell : counter[o] = Cardinality(Holders(o))

NoVectorLost ==
  \A o \in live : Holders(o) = {} =>
    \E t \in Task : call[t].pc \in {"strings", "free"} /\ call[t].source = o

VectorsInv ==
  /\ Typed
  /\ Discipline
  /\ CallShapes
  /\ LiveData
  /\ NotEmpty
  /\ RoomForItems /\ LengthsBounded /\ Deallocated
  /\ ReleasedOnce
  /\ CountersExact
  /\ NoVectorLost

-----------------------------------------------------------------------------
(***************************************************************************)
(* The counters of the strings.                                            *)
(***************************************************************************)

\* A place of string x among the strings s.
PlaceOf(s, x) == CHOOSE k \in 1 .. Len(s) : s[k] = x

\* The call c has yet to reference, or has released, the string at place k of o.
Uncounted(c, o, k) ==
  \/ c.pc \in {"look", "move"} /\ data[c.self] = o
  \/ c.pc = "copy"    /\ data[c.self] = o /\ k > c.i
  \/ c.pc = "strings" /\ c.source = o /\ k <= c.i
  \/ c.pc = "free"    /\ c.source = o
  \/ c.pc = "spread"  /\ data[c.self] = o /\ k \in c.i + 1 .. Len(value[c.other])
  \/ c.pc = "refer"   /\ data[c.self] = o /\ k = PlaceOf(value[o], c.item)

\* The places of the vectors that count for string s.
Places(s) ==
  {p \in Cell \X (1 .. MaxLength) :
     /\ p[2] <= Len(value[p[1]]) /\ value[p[1]][p[2]] = s
     /\ \A t \in Task : ~Uncounted(call[t], p[1], p[2])}

\* Insert references its item before it stores it.
Inserters(s) == {t \in Task : call[t].op = "insert" /\ call[t].item = s}

StringsInv ==
  \A s \in String :
    strings[s] = Cardinality(Places(s)) + Cardinality(Inserters(s))
                   + (IF s \in held THEN 1 ELSE 0)

\* The invariant.
IInv == VectorsInv /\ StringsInv
=============================================================================
