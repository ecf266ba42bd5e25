------------------------- MODULE StringVectorsProofs -------------------------
(***************************************************************************)
(* Proofs about the vectors of StringVectors, for any number of tasks,     *)
(* objects, vectors and strings.                                           *)
(*                                                                         *)
(* VectorsInv, the part of the invariant about the counters of the         *)
(* vectors, is inductive by itself.  A step is taken apart into what it    *)
(* does to its own call, whose shape is then looked at, and what it leaves *)
(* to the calls of the other tasks (Undisturbed), and for each vector into *)
(* who holds it before and after (Holders).                                *)
(***************************************************************************)
EXTENDS StringVectorsInvariant, FiniteSetTheorems, TLAPS

-----------------------------------------------------------------------------
(***************************************************************************)
(* Cardinalities.                                                          *)
(***************************************************************************)

\* A set with one element less.
LEMMA CardLess ==
  ASSUME NEW T, IsFiniteSet(T), NEW x \in T
  PROVE  Cardinality(T \ {x}) = Cardinality(T) - 1
BY FS_RemoveElement

\* A set with one element more.
LEMMA CardMore ==
  ASSUME NEW T, IsFiniteSet(T), NEW y, y \notin T
  PROVE  Cardinality(T \cup {y}) = Cardinality(T) + 1
BY FS_AddElement

\* A set with one element in the place of another.
LEMMA CardSame ==
  ASSUME NEW T, IsFiniteSet(T), NEW x \in T, NEW y, y \notin T
  PROVE  Cardinality((T \ {x}) \cup {y}) = Cardinality(T)
<1>1. IsFiniteSet(T \ {x}) /\ Cardinality(T \ {x}) = Cardinality(T) - 1
  BY FS_RemoveElement
<1>2. Cardinality((T \ {x}) \cup {y}) = Cardinality(T \ {x}) + 1
  BY <1>1, CardMore
<1> QED  BY <1>1, <1>2, FS_CardinalityType

\* A set with two elements has a cardinality of two or more.
LEMMA CardTwo ==
  ASSUME NEW T, IsFiniteSet(T), NEW x \in T, NEW y \in T, x # y
  PROVE  Cardinality(T) >= 2
<1>1. /\ IsFiniteSet(T \ {x})
      /\ Cardinality(T \ {x}) = Cardinality(T) - 1
  BY FS_RemoveElement
<1>2. Cardinality(T \ {x}) >= 1
  BY <1>1, FS_EmptySet, FS_CardinalityType
<1> QED  BY <1>1, <1>2, FS_CardinalityType

-----------------------------------------------------------------------------
(***************************************************************************)
(* Aligned_Size.                                                           *)
(***************************************************************************)

\* Aligned_Size returns no less than what it is asked for.
LEMMA AlignedSizeRoom ==
  ASSUME NEW size \in Nat
  PROVE  AlignedSize(size) \in Nat /\ AlignedSize(size) >= size
<1> DEFINE units == StaticSize + size + size \div GrowthFactor
<1>1. size \div GrowthFactor \in Nat
  BY VectorsAssumption
<1>2. units \in Nat /\ units >= StaticSize + size
  BY <1>1, VectorsAssumption
<1>3. ASSUME NEW b \in Nat
      PROVE  /\ (b \div MinMulAlloc + 1) * MinMulAlloc \in Int
             /\ (b \div MinMulAlloc + 1) * MinMulAlloc > b
  BY VectorsAssumption
<1> HIDE DEF units
<1>4. (units \div MinMulAlloc + 1) * MinMulAlloc > StaticSize + size
  BY <1>2, <1>3, VectorsAssumption
<1>5. AlignedSize(size) = (units \div MinMulAlloc + 1) * MinMulAlloc - StaticSize
  BY DEF AlignedSize, units
<1> QED  BY <1>2, <1>3, <1>4, <1>5, VectorsAssumption

-----------------------------------------------------------------------------
(***************************************************************************)
(* The holders of a vector.                                                *)
(***************************************************************************)

\* The holders of a vector are finitely many.
LEMMA HoldersFinite ==
  ASSUME NEW o
  PROVE  IsFiniteSet(Holders(o)) /\ Cardinality(Holders(o)) \in Nat
<1>1. IsFiniteSet(Vector \cup Task)
  BY VectorsAssumption, FS_Union
<1>2. Holders(o) \subseteq Vector \cup Task
  BY DEF Holders
<1> QED  BY <1>1, <1>2, FS_Subset, FS_CardinalityType

\* Who holds a vector.
LEMMA HoldersNow ==
  ASSUME NEW o
  PROVE  /\ Holders(o) \subseteq Vector \cup Task
         /\ \A v \in Vector : v \in Holders(o) <=> data[v] = o
         /\ \A t \in Task : t \in Holders(o) <=> Owns(call[t], o)
BY VectorsAssumption DEF Holders

\* Who holds it in the next state.
LEMMA HoldersNext ==
  ASSUME NEW o
  PROVE  /\ Holders(o)' \subseteq Vector \cup Task
         /\ \A v \in Vector : v \in Holders(o)' <=> data'[v] = o
         /\ \A t \in Task : t \in Holders(o)' <=> Owns(call'[t], o)
BY VectorsAssumption DEF Holders

\* A vector whose counter is one has one holder.
LEMMA SoleHolder ==
  ASSUME VectorsInv, NEW o \in Cell, counter[o] = 1,
         NEW x \in Holders(o), NEW y \in Holders(o)
  PROVE  x = y
<1>1. counter[o] = Cardinality(Holders(o))
  BY DEF VectorsInv, CountersExact
<1>2. x # y => Cardinality(Holders(o)) >= 2
  BY HoldersFinite, CardTwo
<1> QED  BY <1>1, <1>2

\* A vector whose counter is zero has no holder.
LEMMA NoHolder ==
  ASSUME VectorsInv, NEW o \in Cell, counter[o] = 0
  PROVE  Holders(o) = {}
<1>1. counter[o] = Cardinality(Holders(o))
  BY DEF VectorsInv, CountersExact
<1> QED  BY <1>1, HoldersFinite, FS_EmptySet

\* A vector that a call is taking apart has no holder.
LEMMA ReleasedHasNoHolder ==
  ASSUME VectorsInv, NEW t \in Task, call[t].pc \in {"strings", "free"}
  PROVE  call[t].source \in live /\ Holders(call[t].source) = {}
<1>1. call[t].source \in live /\ counter[call[t].source] = 0
  BY DEF VectorsInv, CallShapes, CallShape, SourceShape, Leaving
<1> QED  BY <1>1, NoHolder DEF VectorsInv, Typed

-----------------------------------------------------------------------------
(***************************************************************************)
(* What a step of one task leaves to the others.                           *)
(***************************************************************************)

\* A step leaves a vector as it is, but for its counter.
Same(o) == o \in live' /\ value'[o] = value[o] /\ last'[o] = last[o]

\* The call c reads, stores into or releases vector o.
Reads(c, o) ==
  \/ c.op \in Edits /\ data[c.self] = o
  \/ c.pc \in Leaving \cup {"slice"} /\ c.source = o
  \/ c.op = "prepend" /\ c.other = o
  \/ c.pc = "slice" /\ c.target = o

\* The call c relies on the counter of vector o.
Relies(c, o) ==
  \/ c.op \in Edits /\ c.pc # "detach" /\ data[c.self] = o
  \/ c.pc \in {"move", "strings", "free"} /\ c.source = o
  \/ c.pc = "slice" /\ c.target = o

\* A step leaves alone a call of another task: its objects, its string, the
\* vectors that it reads and the counters that it relies on.
Undisturbed(c) ==
  /\ c.self \in Vector => data'[c.self] = data[c.self]
  /\ c.from \in Vector => data'[c.from] = data[c.from]
  /\ c.item \in String => c.item \in held'
  /\ \A o \in Cell : Reads(c, o) => Same(o)
  /\ \A o \in Cell : Relies(c, o) => counter'[o] = counter[o]

\* A step of t leaves the calls of all other tasks alone.
Others(t) == \A u \in Task \ {t} : Undisturbed(call[u])

\* The vectors that a call reads are there.
LEMMA ReadsLive ==
  ASSUME VectorsInv, NEW u \in Task, NEW o \in Cell, Reads(call[u], o)
  PROVE  o \in live
<1> PICK c : c = call[u]
  OBVIOUS
<1>1. CallShape(c) /\ c \in Calls /\ \A v \in Vector : data[v] \in live \cup {Empty, Null}
  BY DEF VectorsInv, CallShapes, Typed, LiveData
<1>2. Empty \notin Cell /\ Null \notin Cell
  BY VectorsAssumption
<1>3. c.op \in Edits => c.self \in Vector
  BY <1>1 DEF CallShape, OperandShape, Edits
<1> QED
  BY <1>1, <1>2, <1>3 DEF Reads, CallShape, EditShape, SourceShape, SliceShape

\* A call that a step leaves alone keeps its shape.
LEMMA CallFrame ==
  ASSUME live \subseteq Cell, NEW c \in Calls, CallShape(c), Undisturbed(c)
  PROVE  CallShape(c)'
<1> PICK d : d = data[c.self]
  OBVIOUS
<1>n. Empty \notin Cell /\ Null \notin Cell /\ Null \notin Vector
  BY VectorsAssumption
<1>0. /\ OperandShape(c) /\ ShareShape(c) /\ EditShape(c) /\ FitShape(c)
      /\ SourceShape(c) /\ StoredShape(c) /\ SliceShape(c)
  BY DEF CallShape
<1>1. /\ c.pc # "idle" => c.self \in Vector /\ data'[c.self] = d
      /\ c.from \in Vector => data'[c.from] = data[c.from]
      /\ c.item \in String => c.item \in held'
  BY <1>0 DEF Undisturbed, OperandShape
<1>e. c.op \in Edits => c.self \in Vector /\ data'[c.self] = d
  BY <1>0, <1>1 DEF OperandShape, Edits
<1>4. c.op \in Edits /\ d \in Cell => Same(d)
  BY DEF Undisturbed, Reads
<1>5. c.op \in Edits /\ c.pc # "detach" /\ d \in Cell => counter'[d] = counter[d]
  BY DEF Undisturbed, Relies
<1>6. c.op = "prepend" => c.other \in Cell /\ Same(c.other)
  BY <1>0 DEF Undisturbed, Reads, EditShape, Edits
<1>7. c.pc \in Leaving => c.source \in Cell /\ Same(c.source)
  BY <1>0 DEF Undisturbed, Reads, SourceShape
<1>8. c.pc \in {"move", "strings", "free"} => counter'[c.source] = counter[c.source]
  BY <1>7 DEF Undisturbed, Relies, Leaving
<1>9. c.pc = "slice" => /\ c.source \in Cell /\ Same(c.source)
                        /\ c.target \in Cell /\ Same(c.target)
                        /\ counter'[c.target] = counter[c.target]
  BY <1>0 DEF Undisturbed, Reads, Relies, SliceShape
<1>10. OperandShape(c)'
  BY <1>0, <1>1 DEF OperandShape
<1>11. ShareShape(c)'
  <2>1. c.op = "share" => data'[c.self] = d
    BY <1>0, <1>1 DEF OperandShape
  <2> QED  BY <1>0, <1>1, <2>1 DEF ShareShape
<1>12. EditShape(c)'
  <2>1. c.op \in Edits /\ c.pc # "detach" => d \in live' /\ counter'[d] = 1
    BY <1>0, <1>4, <1>5 DEF Same, EditShape
  <2>2. c.pc = "detach" => c.op \in Edits
    BY <1>0 DEF EditShape
  <2> QED  BY <1>0, <1>1, <1>e, <2>1, <2>2 DEF EditShape
<1>13. FitShape(c)'
  <2>1. ASSUME c.op \in Edits, c.pc \in Leaving \cup {"store"}
        PROVE  /\ value'[data'[c.self]] = value[d] /\ last'[data'[c.self]] = last[d]
               /\ c.op = "prepend" => value'[c.other] = value[c.other]
    <3>1. d \in Cell
      BY <1>0, <2>1 DEF EditShape, Leaving
    <3> QED  BY <1>e, <1>4, <1>6, <2>1, <3>1 DEF Same
  <2>2. ASSUME c.pc = "detach" PROVE Items(data[c.self])' = Items(data[c.self])
    <3>1. c.op \in Edits
      BY <1>0, <2>2 DEF EditShape
    <3> QED  BY <1>e, <1>4, <3>1 DEF Same, Items
  <2>3. c.op \in {"append", "insert", "replace", "prepend"} => c.op \in Edits
    BY DEF Edits
  <2> QED  BY <1>0, <2>1, <2>2, <2>3 DEF FitShape
<1>14. SourceShape(c)'
  <2>1. c.pc \in {"look", "copy", "move"} => value'[data'[c.self]] = value[d]
    <3>1. c.pc \in {"look", "copy", "move"} => c.op \in Edits /\ d \in Cell
      BY <1>0 DEF EditShape
    <3> QED  BY <1>e, <1>4, <3>1 DEF Same
  <2> QED  BY <1>0, <1>7, <1>8, <2>1 DEF SourceShape, Same, Leaving
<1>15. StoredShape(c)'
  <2>1. c.pc \in {"refer", "spread"} => value'[data'[c.self]] = value[d]
    <3>1. c.pc \in {"refer", "spread"} => c.op \in Edits /\ d \in Cell
      BY <1>0 DEF EditShape
    <3> QED  BY <1>e, <1>4, <3>1 DEF Same
  <2>2. c.pc = "spread" => value'[c.other] = value[c.other]
    BY <1>0, <1>6 DEF EditShape, Same
  <2> QED  BY <1>0, <2>1, <2>2 DEF StoredShape
<1>16. SliceShape(c)'
  BY <1>0, <1>1, <1>9 DEF SliceShape, Same
<1> QED  BY <1>10, <1>11, <1>12, <1>13, <1>14, <1>15, <1>16 DEF CallShape

\* The shape of a call is that of its record.
LEMMA ShapeOfRecord ==
  ASSUME NEW u, NEW c, c = call'[u], CallShape(c)'
  PROVE  CallShape(call[u])'
<1>1. OperandShape(call[u])' /\ ShareShape(call[u])'
  BY DEF CallShape, OperandShape, ShareShape
<1>2. EditShape(call[u])' /\ SliceShape(call[u])'
  BY DEF CallShape, EditShape, SliceShape
<1>3. FitShape(call[u])'
  BY DEF CallShape, FitShape, Items
<1>4. SourceShape(call[u])' /\ StoredShape(call[u])'
  BY DEF CallShape, SourceShape, StoredShape
<1> QED  BY <1>1, <1>2, <1>3, <1>4 DEF CallShape

\* A step of t is left with its own call to be looked at, when it leaves the
\* calls of the others alone.
LEMMA StepFrame ==
  ASSUME VectorsInv, NEW t \in Task, NEW r, CallShape(r)',
         call' = [call EXCEPT ![t] = r],
         \A u \in Task \ {t} : Undisturbed(call[u])
  PROVE  CallShapes' /\ Others(t)
<1> SUFFICES ASSUME NEW u \in Task PROVE CallShape(call[u])'
  BY DEF CallShapes, Others
<1> PICK c : c = call'[u]
  OBVIOUS
<1>1. CASE u = t
  <2>1. c = r
    BY <1>1 DEF VectorsInv, Typed
  <2> QED  BY <2>1, ShapeOfRecord
<1>2. CASE u # t
  <2>1. c = call[u] /\ c \in Calls /\ CallShape(c) /\ Undisturbed(c) /\ live \subseteq Cell
    BY <1>2 DEF VectorsInv, Typed, CallShapes
  <2>2. CallShape(c)'
    BY <2>1, CallFrame
  <2> QED  BY <2>2, ShapeOfRecord
<1> QED  BY <1>1, <1>2

\* A step that changes vector o and no other, and no object or string of u,
\* leaves the call of u alone if u does not use o.
LEMMA UndisturbedBy ==
  ASSUME VectorsInv, NEW u \in Task, NEW o,
         call[u].self \in Vector => data'[call[u].self] = data[call[u].self],
         call[u].from \in Vector => data'[call[u].from] = data[call[u].from],
         call[u].item \in String => call[u].item \in held',
         \A x \in live \ {o} : Same(x),
         \A x \in Cell \ {o} : counter'[x] = counter[x],
         o \in Cell => ~Reads(call[u], o) \/ Same(o),
         o \in Cell => ~Relies(call[u], o) \/ counter'[o] = counter[o]
  PROVE  Undisturbed(call[u])
<1>1. ASSUME NEW x \in Cell, Reads(call[u], x) PROVE Same(x)
  <2>1. x \in live
    BY <1>1, ReadsLive
  <2> QED  BY <1>1, <2>1
<1>2. ASSUME NEW x \in Cell, Relies(call[u], x) PROVE counter'[x] = counter[x]
  BY <1>2
<1> QED  BY <1>1, <1>2 DEF Undisturbed

\* The counter that a call relies on is that of a vector with one holder, the
\* call or its object, or none.
LEMMA NotRelied ==
  ASSUME VectorsInv, NEW u \in Task, NEW o \in Cell, NEW x \in Holders(o),
         x # u, call[u].self \in Vector => x # call[u].self
  PROVE  ~Relies(call[u], o)
<1> PICK c : c = call[u]
  OBVIOUS
<1>0. /\ OperandShape(c) /\ EditShape(c) /\ SourceShape(c) /\ SliceShape(c)
  BY DEF VectorsInv, CallShapes, CallShape
<1>1. CASE c.op \in Edits /\ c.pc # "detach" /\ data[c.self] = o
  <2>1. c.self \in Vector /\ counter[o] = 1
    BY <1>0, <1>1 DEF OperandShape, EditShape, Edits
  <2>2. c.self \in Holders(o)
    BY <1>1, <2>1, HoldersNow
  <2> QED  BY <2>1, <2>2, SoleHolder
<1>2. CASE c.pc = "move" /\ c.source = o
  <2>1. u \in Holders(o) /\ counter[o] = 1
    BY <1>0, <1>2, HoldersNow DEF Owns, SourceShape
  <2> QED  BY <2>1, SoleHolder
<1>3. CASE c.pc \in {"strings", "free"} /\ c.source = o
  BY <1>3, ReleasedHasNoHolder
<1>4. CASE c.pc = "slice" /\ c.target = o
  <2>1. u \in Holders(o) /\ counter[o] = 1
    BY <1>0, <1>4, HoldersNow DEF Owns, SliceShape
  <2> QED  BY <2>1, SoleHolder
<1> QED  BY <1>1, <1>2, <1>3, <1>4 DEF Relies

\* What a call reads it holds, or its object or its operand does, or it is the
\* vector that it takes apart.
LEMMA ReaderHolds ==
  ASSUME VectorsInv, NEW u \in Task, NEW o \in Cell, Reads(call[u], o)
  PROVE  \/ \E x \in Holders(o) : x = u \/ x \in {call[u].self, call[u].from} \cap Vector
         \/ call[u].pc \in {"strings", "free"} /\ call[u].source = o
<1> PICK c : c = call[u]
  OBVIOUS
<1>0. /\ OperandShape(c) /\ EditShape(c) /\ SliceShape(c)
  BY DEF VectorsInv, CallShapes, CallShape
<1>1. CASE c.op \in Edits /\ data[c.self] = o
  <2>1. c.self \in Vector
    BY <1>0, <1>1 DEF OperandShape, Edits
  <2> QED  BY <1>1, <2>1, HoldersNow
<1>2. CASE c.pc \in Leaving /\ c.source = o
  BY <1>2, HoldersNow DEF Leaving, Owns
<1>3. CASE c.op = "prepend" /\ c.other = o
  BY <1>0, <1>3, HoldersNow DEF EditShape, Edits
<1>4. CASE c.pc = "slice" /\ o \in {c.source, c.target}
  BY <1>0, <1>4, HoldersNow DEF SliceShape, Owns
<1> QED  BY <1>1, <1>2, <1>3, <1>4 DEF Reads

\* Nobody reads the vector that has one holder, neither it nor its objects.
LEMMA NotRead ==
  ASSUME VectorsInv, NEW u \in Task, NEW o \in Cell, counter[o] = 1, NEW x \in Holders(o),
         x # u, call[u].self \in Vector => x # call[u].self,
         call[u].from \in Vector => x # call[u].from
  PROVE  ~Reads(call[u], o)
<1>1. ASSUME NEW y \in Holders(o),
             y = u \/ y \in {call[u].self, call[u].from} \cap Vector
      PROVE  FALSE
  BY <1>1, SoleHolder
<1>2. ASSUME call[u].pc \in {"strings", "free"}, call[u].source = o PROVE FALSE
  BY <1>2, ReleasedHasNoHolder
<1> QED  BY <1>1, <1>2, ReaderHolds

\* The objects and the operand of a call are not those that another one writes.
LEMMA DisciplineStep ==
  ASSUME Typed, Discipline, NEW t \in Task, NEW r, call' = [call EXCEPT ![t] = r],
         \A u \in Task \ {t} : /\ r.self # Null => r.self \notin {call[u].self, call[u].from}
                               /\ call[u].self # Null => call[u].self \notin {r.self, r.from}
  PROVE  Discipline'
BY DEF Typed, Discipline

\* That remains so when a call goes on or ends.
LEMMA DisciplineKept ==
  ASSUME Typed, Discipline, NEW t \in Task, NEW r, call' = [call EXCEPT ![t] = r],
         r.self \in {call[t].self, Null}, r.from \in {call[t].from, Null}
  PROVE  Discipline'
BY DEF Typed, Discipline

\* No vector is released twice, if a call that begins to release one held it.
LEMMA ReleasedOnceStep ==
  ASSUME VectorsInv, NEW t \in Task, NEW r, call' = [call EXCEPT ![t] = r],
         r.pc \in {"strings", "free"} =>
           \/ call[t].pc \in {"strings", "free"} /\ r.source = call[t].source
           \/ r.source \in Cell /\ t \in Holders(r.source)
  PROVE  ReleasedOnce'
<1>1. \A u \in Task : call'[u] = IF u = t THEN r ELSE call[u]
  BY DEF VectorsInv, Typed
<1>2. ASSUME NEW u \in Task \ {t}, call[u].pc \in {"strings", "free"},
             r.pc \in {"strings", "free"}
      PROVE  call[u].source # r.source
  BY <1>2, ReleasedHasNoHolder DEF VectorsInv, ReleasedOnce
<1> QED  BY <1>1, <1>2 DEF VectorsInv, ReleasedOnce

\* A vector without strings is one that a call is about to store into.
LEMMA NotEmptyStep ==
  ASSUME VectorsInv, NEW t \in Task, NEW r, call' = [call EXCEPT ![t] = r],
         \A v \in Vector : data'[v] \in Cell =>
           \/ value'[data'[v]] # <<>>
           \/ r.pc = "store" /\ r.self = v
           \/ /\ data'[v] = data[v] /\ value'[data[v]] = value[data[v]]
              /\ call[t].pc = "store" => call[t].self # v
  PROVE  NotEmpty'
<1>1. call'[t] = r /\ \A u \in Task \ {t} : call'[u] = call[u]
  BY DEF VectorsInv, Typed
<1>2. ASSUME NEW v \in Vector, data'[v] \in Cell, value'[data'[v]] = <<>>
      PROVE  \E u \in Task : call'[u].pc = "store" /\ call'[u].self = v
  <2>1. CASE r.pc = "store" /\ r.self = v
    BY <1>1, <2>1
  <2>2. CASE /\ data'[v] = data[v] /\ value'[data[v]] = value[data[v]]
             /\ call[t].pc = "store" => call[t].self # v
    <3>1. PICK u \in Task : call[u].pc = "store" /\ call[u].self = v
      BY <1>2, <2>2 DEF VectorsInv, NotEmpty
    <3> QED  BY <1>1, <2>2, <3>1
  <2> QED  BY <1>2, <2>1, <2>2
<1> QED  BY <1>2 DEF NotEmpty

\* A step that leaves the holders of a vector.
LEMMA HoldersKept ==
  ASSUME Typed, NEW t \in Task, NEW r, call' = [call EXCEPT ![t] = r], NEW x,
         \A v \in Vector : data'[v] = x <=> data[v] = x,
         Owns(r, x) <=> Owns(call[t], x)
  PROVE  Holders(x)' = Holders(x)
<1>1. call'[t] = r /\ \A u \in Task \ {t} : call'[u] = call[u]
  BY DEF Typed
<1>2. \A v \in Vector : v \in Holders(x)' <=> v \in Holders(x)
  BY HoldersNow, HoldersNext
<1>3. \A u \in Task : u \in Holders(x)' <=> u \in Holders(x)
  <2> TAKE u \in Task
  <2>1. Owns(call'[u], x) <=> Owns(call[u], x)
    BY <1>1
  <2> QED  BY <2>1, HoldersNow, HoldersNext
<1>4. Holders(x)' \subseteq Vector \cup Task /\ Holders(x) \subseteq Vector \cup Task
  BY HoldersNow, HoldersNext
<1> QED  BY <1>2, <1>3, <1>4

\* The counters stay exact, and no vector is lost, when a step changes the
\* holders of vector o only.
LEMMA CountersStep ==
  ASSUME VectorsInv, NEW t \in Task, NEW r, call' = [call EXCEPT ![t] = r], NEW o,
         \A x \in Cell \ {o} :
           counter'[x] = counter[x] /\ Cardinality(Holders(x)') = Cardinality(Holders(x)),
         o \in Cell => counter'[o] = Cardinality(Holders(o)'),
         live' \subseteq (live \cup {o}) \cap Cell,
         o \in live' => \/ Holders(o)' # {}
                        \/ r.pc \in {"strings", "free"} /\ r.source = o,
         call[t].pc \in {"strings", "free"} =>
           \/ r.pc \in {"strings", "free"} /\ r.source = call[t].source
           \/ call[t].source = o
  PROVE  CountersExact' /\ NoVectorLost'
<1>1. CountersExact'
  BY DEF VectorsInv, CountersExact
<1>2. call'[t] = r /\ \A u \in Task \ {t} : call'[u] = call[u]
  BY DEF VectorsInv, Typed
<1>3. ASSUME NEW x \in live', Holders(x)' = {}
      PROVE  \E u \in Task : call'[u].pc \in {"strings", "free"} /\ call'[u].source = x
  <2>1. CASE x = o
    BY <1>2, <1>3, <2>1
  <2>2. CASE x # o
    <3>1. x \in live /\ Holders(x) = {}
      <4>1. x \in live /\ Cardinality(Holders(x)) = Cardinality({})
        BY <1>3, <2>2
      <4> QED  BY <4>1, HoldersFinite, FS_EmptySet
    <3>2. PICK u \in Task : call[u].pc \in {"strings", "free"} /\ call[u].source = x
      BY <3>1 DEF VectorsInv, NoVectorLost
    <3>3. CASE u = t
      BY <1>2, <2>2, <3>2, <3>3
    <3>4. CASE u # t
      BY <1>2, <3>2, <3>4
    <3> QED  BY <3>3, <3>4
  <2> QED  BY <2>1, <2>2
<1> QED  BY <1>1, <1>3 DEF NoVectorLost

\* A step that changes no object and no vector is left with its own call.
LEMMA CallOnly ==
  ASSUME VectorsInv, NEW t \in Task, NEW r \in Calls, call' = [call EXCEPT ![t] = r],
         UNCHANGED <<data, live, counter, last, value>>,
         strings' \in [String -> Int], held \subseteq held', held' \subseteq String,
         Discipline', CallShape(r)',
         \A x \in Cell : Owns(r, x) <=> Owns(call[t], x),
         call[t].pc # "store",
         call[t].pc \in {"strings", "free"} =>
           r.pc \in {"strings", "free"} /\ r.source = call[t].source,
         r.pc \in {"strings", "free"} => call[t].pc \in {"strings", "free"}
  PROVE  VectorsInv' /\ Others(t)
<1>1. Typed'
  BY DEF VectorsInv, Typed
<1>2. \A u \in Task \ {t} : Undisturbed(call[u])
  <2> TAKE u \in Task \ {t}
  <2>1. call[u].item \in String => call[u].item \in held'
    BY DEF VectorsInv, CallShapes, CallShape, OperandShape
  <2>2. \A x \in live \ {Null} : Same(x)
    BY DEF Same
  <2>3. Null \notin Cell
    BY VectorsAssumption
  <2> QED  BY <2>1, <2>2, <2>3, UndisturbedBy
<1>3. CallShapes' /\ Others(t)
  BY <1>2, StepFrame
<1>4. LiveData' /\ RoomForItems' /\ LengthsBounded' /\ Deallocated'
  BY DEF VectorsInv, LiveData, RoomForItems, LengthsBounded, Deallocated
<1>5. NotEmpty'
  BY NotEmptyStep
<1>6. ReleasedOnce'
  BY ReleasedOnceStep
<1>7. CountersExact' /\ NoVectorLost'
  <2>1. \A x \in Cell : Holders(x)' = Holders(x)
    BY HoldersKept DEF VectorsInv
  <2>2. Null \notin Cell
    BY VectorsAssumption
  <2>3. live' \subseteq (live \cup {Null}) \cap Cell /\ Null \notin live'
    BY <2>2 DEF VectorsInv, Typed
  <2> QED  BY <2>1, <2>2, <2>3, CountersStep
<1> QED  BY <1>1, <1>3, <1>4, <1>5, <1>6, <1>7 DEF VectorsInv

\* Look: the decision to move or to copy the strings.
LEMMA LookKeeps ==
  ASSUME VectorsInv, NEW t \in Task, Look(t)
  PROVE  VectorsInv' /\ Others(t)
<1> PICK c : c = call[t]
  OBVIOUS
<1>r. PICK r : r = IF counter[c.source] = 1 THEN [c EXCEPT !.pc = "move"]
                                            ELSE [c EXCEPT !.pc = "copy", !.i = 0]
  OBVIOUS
<1>1. /\ c.pc = "look" /\ call' = [call EXCEPT ![t] = r]
      /\ UNCHANGED <<data, live, counter, last, value, strings, held>>
  BY <1>r DEF Look, Go, vectors
<1>2. c \in Calls /\ CallShape(c) /\ live \subseteq Cell /\ value \in [Cell -> Seq(String)]
  BY DEF VectorsInv, Typed, CallShapes
<1>3. /\ r \in Calls /\ r.op = c.op /\ r.self = c.self /\ r.from = c.from /\ r.item = c.item
      /\ r.other = c.other /\ r.index = c.index /\ r.source = c.source /\ r.target = c.target
      /\ (r.pc = "move" /\ counter[c.source] = 1) \/ (r.pc = "copy" /\ r.i = 0)
  BY <1>2, <1>r DEF Calls
<1>4. CallShape(r)'
  <2>1. Len(value[c.source]) > 0
    BY <1>1, <1>2 DEF CallShape, SourceShape, Leaving
  <2>2. OperandShape(r)' /\ ShareShape(r)' /\ EditShape(r)' /\ SliceShape(r)'
    BY <1>1, <1>2, <1>3
    DEF CallShape, OperandShape, ShareShape, EditShape, SliceShape, Edits
  <2>3. FitShape(r)' /\ SourceShape(r)' /\ StoredShape(r)'
    BY <1>1, <1>2, <1>3, <2>1
    DEF CallShape, FitShape, SourceShape, StoredShape, Leaving
  <2> QED  BY <2>2, <2>3 DEF CallShape
<1>5. \A x \in Cell : Owns(r, x) <=> Owns(c, x)
  BY <1>1, <1>3 DEF Owns
<1>6. Discipline'
  BY <1>1, <1>3, DisciplineKept DEF VectorsInv
<1>7. strings' \in [String -> Int] /\ held' \subseteq String
  BY <1>1 DEF VectorsInv, Typed
<1> QED  BY <1>1, <1>3, <1>4, <1>5, <1>6, <1>7, CallOnly

\* A call that goes on in the same way with the same objects and vectors.
Resumes(r, c) ==
  /\ r \in Calls
  /\ r.op = c.op /\ r.self = c.self /\ r.from = c.from /\ r.item = c.item
  /\ r.other = c.other /\ r.index = c.index /\ r.source = c.source /\ r.target = c.target

\* The counters of the strings remain numbers.
LEMMA StringsInt ==
  ASSUME VectorsInv, NEW s,
         \/ strings' = [strings EXCEPT ![s] = @ + 1]
         \/ strings' = [strings EXCEPT ![s] = @ - 1]
  PROVE  strings' \in [String -> Int]
<1>1. strings \in [String -> Int]
  BY DEF VectorsInv, Typed
<1>2. CASE strings' = [strings EXCEPT ![s] = @ + 1]
  <2>1. strings' = [x \in String |-> IF x = s THEN strings[x] + 1 ELSE strings[x]]
    BY <1>1, <1>2
  <2>2. \A x \in String : strings[x] + 1 \in Int
    BY <1>1
  <2> QED  BY <1>1, <2>1, <2>2
<1>3. CASE strings' = [strings EXCEPT ![s] = @ - 1]
  <2>1. strings' = [x \in String |-> IF x = s THEN strings[x] - 1 ELSE strings[x]]
    BY <1>1, <1>3
  <2>2. \A x \in String : strings[x] - 1 \in Int
    BY <1>1
  <2> QED  BY <1>1, <2>1, <2>2
<1> QED  BY <1>2, <1>3

\* The idle call has its shape, whatever the state is.
LEMMA IdleShape ==
  ASSUME NEW r, r = Idle
  PROVE  /\ r \in Calls /\ r.pc = "idle" /\ r.self = Null /\ r.from = Null
         /\ \A x : ~Owns(r, x)
         /\ CallShape(r)'
<1>1. /\ r \in Calls /\ r.pc = "idle" /\ r.self = Null /\ r.from = Null /\ r.item = Null
      /\ r.op = "none" /\ r.target = Null
  BY DEF Idle, Calls, Ref
<1>n. Null \notin Vector /\ Null \notin String
  BY VectorsAssumption
<1>2. OperandShape(r)' /\ ShareShape(r)' /\ EditShape(r)' /\ SliceShape(r)'
  BY <1>1, <1>n DEF OperandShape, ShareShape, EditShape, SliceShape, Edits
<1>3. FitShape(r)' /\ SourceShape(r)' /\ StoredShape(r)'
  BY <1>1 DEF FitShape, SourceShape, StoredShape, Leaving
<1> QED  BY <1>1, <1>2, <1>3 DEF CallShape, Owns

\* Detach references a copied string.
LEMMA CopyStringKeeps ==
  ASSUME VectorsInv, NEW t \in Task, CopyString(t)
  PROVE  VectorsInv' /\ Others(t)
<1> PICK c : c = call[t]
  OBVIOUS
<1>r. PICK r : r = [c EXCEPT !.i = @ + 1,
                             !.pc = IF c.i + 1 = Len(value[data[c.self]]) THEN "drop"
                                                                         ELSE "copy"]
  OBVIOUS
<1>1. /\ c.pc = "copy" /\ call' = [call EXCEPT ![t] = r]
      /\ UNCHANGED <<data, live, counter, last, value, held>>
  BY <1>r DEF CopyString, Go, vectors
<1>s. strings' \in [String -> Int]
  BY StringsInt DEF CopyString
<1>2. c \in Calls /\ CallShape(c) /\ live \subseteq Cell /\ value \in [Cell -> Seq(String)]
  BY DEF VectorsInv, Typed, CallShapes
<1>3. /\ Resumes(r, c) /\ r.i = c.i + 1
      /\ r.pc = IF c.i + 1 = Len(value[data[c.self]]) THEN "drop" ELSE "copy"
  <2>1. c.i + 1 \in Nat
    BY <1>2 DEF Calls
  <2>p. PICK p : p = IF c.i + 1 = Len(value[data[c.self]]) THEN "drop" ELSE "copy"
    OBVIOUS
  <2>2. r = [c EXCEPT !.pc = p, !.i = c.i + 1]
    BY <1>r, <1>2, <2>p DEF Calls
  <2>3. p \in {"drop", "copy", "free", "strings"}
    BY <2>p
  <2>4. c \in Calls
    BY <1>2
  <2>5. Resumes(r, c) /\ r.i = c.i + 1 /\ r.pc = p
    BY ONLY <2>1, <2>2, <2>3, <2>4 DEF Resumes, Calls
  <2> QED  BY <2>5, <2>p
<1>4. CallShape(r)'
  <2>1. /\ value[data[c.self]] = value[c.source] /\ c.i < Len(value[c.source])
        /\ c.source \in Cell
    BY <1>1, <1>2 DEF CallShape, SourceShape, Leaving
  <2>2. OperandShape(r)' /\ ShareShape(r)' /\ EditShape(r)' /\ SliceShape(r)'
    BY <1>1, <1>2, <1>3
    DEF CallShape, OperandShape, ShareShape, EditShape, SliceShape, Edits, Resumes
  <2>3. FitShape(r)' /\ StoredShape(r)'
    BY <1>1, <1>2, <1>3 DEF CallShape, FitShape, StoredShape, Leaving, Resumes
  <2>4. SourceShape(r)'
    <3>1. Len(value[c.source]) \in Nat /\ c.i \in Nat
      BY <1>2, <2>1 DEF Calls
    <3>2. r.pc = "copy" => r.i < Len(value[c.source])
      BY <1>3, <2>1, <3>1
    <3> QED  BY <1>1, <1>2, <1>3, <2>1, <3>2 DEF CallShape, SourceShape, Leaving, Resumes
  <2> QED  BY <2>2, <2>3, <2>4 DEF CallShape
<1>5. \A x \in Cell : Owns(r, x) <=> Owns(c, x)
  BY <1>1, <1>3 DEF Owns, Resumes
<1>6. Discipline'
  BY <1>1, <1>3, DisciplineKept DEF VectorsInv, Resumes
<1>7. held \subseteq held' /\ held' \subseteq String
  BY <1>1 DEF VectorsInv, Typed
<1> QED  BY <1>1, <1>s, <1>3, <1>4, <1>5, <1>6, <1>7, CallOnly DEF Resumes

\* Dereference releases a string.
LEMMA DropStringKeeps ==
  ASSUME VectorsInv, NEW t \in Task, DropString(t)
  PROVE  VectorsInv' /\ Others(t)
<1> PICK c : c = call[t]
  OBVIOUS
<1>r. PICK r : r = [c EXCEPT !.i = @ + 1,
                             !.pc = IF c.i + 1 = Len(value[c.source]) THEN "free"
                                                                     ELSE "strings"]
  OBVIOUS
<1>1. /\ c.pc = "strings" /\ call' = [call EXCEPT ![t] = r]
      /\ UNCHANGED <<data, live, counter, last, value, held>>
  BY <1>r DEF DropString, Go, vectors
<1>s. strings' \in [String -> Int]
  BY StringsInt DEF DropString
<1>2. c \in Calls /\ CallShape(c) /\ live \subseteq Cell /\ value \in [Cell -> Seq(String)]
  BY DEF VectorsInv, Typed, CallShapes
<1>3. /\ Resumes(r, c) /\ r.i = c.i + 1
      /\ r.pc = IF c.i + 1 = Len(value[c.source]) THEN "free" ELSE "strings"
  <2>1. c.i + 1 \in Nat
    BY <1>2 DEF Calls
  <2>p. PICK p : p = IF c.i + 1 = Len(value[c.source]) THEN "free" ELSE "strings"
    OBVIOUS
  <2>2. r = [c EXCEPT !.pc = p, !.i = c.i + 1]
    BY <1>r, <1>2, <2>p DEF Calls
  <2>3. p \in {"drop", "copy", "free", "strings"}
    BY <2>p
  <2>4. c \in Calls
    BY <1>2
  <2>5. Resumes(r, c) /\ r.i = c.i + 1 /\ r.pc = p
    BY ONLY <2>1, <2>2, <2>3, <2>4 DEF Resumes, Calls
  <2> QED  BY <2>5, <2>p
<1>4. CallShape(r)'
  <2>1. c.i < Len(value[c.source]) /\ c.source \in Cell
    BY <1>1, <1>2 DEF CallShape, SourceShape, Leaving
  <2>2. OperandShape(r)' /\ ShareShape(r)' /\ EditShape(r)' /\ SliceShape(r)'
    BY <1>1, <1>2, <1>3
    DEF CallShape, OperandShape, ShareShape, EditShape, SliceShape, Edits, Resumes
  <2>3. FitShape(r)' /\ StoredShape(r)'
    BY <1>1, <1>2, <1>3 DEF CallShape, FitShape, StoredShape, Leaving, Resumes
  <2>4. SourceShape(r)'
    <3>1. Len(value[c.source]) \in Nat /\ c.i \in Nat
      BY <1>2, <2>1 DEF Calls
    <3>2. r.pc = "strings" => r.i < Len(value[c.source])
      BY <1>3, <2>1, <3>1
    <3> QED  BY <1>1, <1>2, <1>3, <2>1, <3>2 DEF CallShape, SourceShape, Leaving, Resumes
  <2> QED  BY <2>2, <2>3, <2>4 DEF CallShape
<1>5. \A x \in Cell : Owns(r, x) <=> Owns(c, x)
  BY <1>1, <1>3 DEF Owns, Resumes
<1>6. Discipline'
  BY <1>1, <1>3, DisciplineKept DEF VectorsInv, Resumes
<1>7. held \subseteq held' /\ held' \subseteq String
  BY <1>1 DEF VectorsInv, Typed
<1>8. r.pc \in {"strings", "free"} /\ r.source = c.source
  BY <1>3 DEF Resumes
<1> QED  BY <1>1, <1>s, <1>3, <1>4, <1>5, <1>6, <1>7, <1>8, CallOnly DEF Resumes

\* Append and Replace end.
LEMMA ReferKeeps ==
  ASSUME VectorsInv, NEW t \in Task, Refer(t)
  PROVE  VectorsInv' /\ Others(t)
<1>r. PICK r : r = Idle
  OBVIOUS
<1>1. /\ call[t].pc = "refer" /\ call' = [call EXCEPT ![t] = r]
      /\ UNCHANGED <<data, live, counter, last, value, held>>
  BY <1>r DEF Refer, Go, vectors
<1>s. strings' \in [String -> Int]
  BY StringsInt DEF Refer
<1>3. /\ r \in Calls /\ r.pc = "idle" /\ r.self = Null /\ r.from = Null
      /\ \A x : ~Owns(r, x)
      /\ CallShape(r)'
  BY <1>r, IdleShape
<1>5. \A x \in Cell : Owns(r, x) <=> Owns(call[t], x)
  BY <1>1, <1>3 DEF Owns
<1>6. Discipline'
  BY <1>1, <1>3, DisciplineKept DEF VectorsInv
<1>7. held \subseteq held' /\ held' \subseteq String
  BY <1>1 DEF VectorsInv, Typed
<1> QED  BY <1>1, <1>s, <1>3, <1>5, <1>6, <1>7, CallOnly

\* Prepend references a string that it has stored.
LEMMA ReferPrependedKeeps ==
  ASSUME VectorsInv, NEW t \in Task, ReferPrepended(t)
  PROVE  VectorsInv' /\ Others(t)
<1> PICK c : c = call[t]
  OBVIOUS
<1>r. PICK r : r = IF c.i + 1 = Len(Items(c.other)) THEN Idle ELSE [c EXCEPT !.i = @ + 1]
  OBVIOUS
<1>1. /\ c.pc = "spread" /\ call' = [call EXCEPT ![t] = r]
      /\ UNCHANGED <<data, live, counter, last, value, held>>
  BY <1>r DEF ReferPrepended, Go, vectors
<1>s. strings' \in [String -> Int]
  BY StringsInt DEF ReferPrepended
<1>2. c \in Calls /\ CallShape(c) /\ live \subseteq Cell /\ value \in [Cell -> Seq(String)]
  BY DEF VectorsInv, Typed, CallShapes
<1>o. c.op = "prepend" /\ c.other \in Cell /\ c.i < Len(value[c.other])
  BY <1>1, <1>2 DEF CallShape, EditShape, StoredShape, Edits
<1>7. held \subseteq held' /\ held' \subseteq String
  BY <1>1 DEF VectorsInv, Typed
<1>a. CASE r = Idle
  <2>3. /\ r \in Calls /\ r.pc = "idle" /\ r.self = Null /\ r.from = Null
        /\ \A x : ~Owns(r, x)
        /\ CallShape(r)'
    BY <1>a, IdleShape
  <2>5. \A x \in Cell : Owns(r, x) <=> Owns(c, x)
    BY <1>1, <2>3 DEF Owns
  <2>6. Discipline'
    BY <1>1, <2>3, DisciplineKept DEF VectorsInv
  <2> QED  BY <1>1, <1>s, <1>7, <2>3, <2>5, <2>6, CallOnly
<1>b. CASE r = [c EXCEPT !.i = @ + 1] /\ c.i + 1 # Len(value[c.other])
  <2>3. Resumes(r, c) /\ r.i = c.i + 1 /\ r.pc = "spread"
    <3>1. c.i + 1 \in Nat
      BY <1>2 DEF Calls
    <3>2. r = [c EXCEPT !.pc = "spread", !.i = c.i + 1]
      BY <1>1, <1>2, <1>b DEF Calls
    <3>3. c \in Calls
      BY <1>2
    <3> QED  BY ONLY <3>1, <3>2, <3>3 DEF Resumes, Calls
  <2>4. CallShape(r)'
    <3>2. OperandShape(r)' /\ ShareShape(r)' /\ EditShape(r)' /\ SliceShape(r)'
      BY <1>1, <1>2, <2>3
      DEF CallShape, OperandShape, ShareShape, EditShape, SliceShape, Edits, Resumes
    <3>3. FitShape(r)' /\ SourceShape(r)'
      BY <1>1, <1>2, <2>3 DEF CallShape, FitShape, SourceShape, Leaving, Resumes
    <3>4. StoredShape(r)'
      <4>1. Len(value[c.other]) \in Nat /\ c.i \in Nat
        BY <1>2, <1>o DEF Calls
      <4>2. r.i < Len(value[c.other])
        BY <1>o, <1>b, <2>3, <4>1
      <4> QED  BY <1>1, <1>2, <2>3, <4>2 DEF CallShape, StoredShape, Resumes
    <3> QED  BY <3>2, <3>3, <3>4 DEF CallShape
  <2>5. \A x \in Cell : Owns(r, x) <=> Owns(c, x)
    BY <1>1, <2>3 DEF Owns
  <2>6. Discipline'
    BY <1>1, <2>3, DisciplineKept DEF VectorsInv, Resumes
  <2> QED  BY <1>1, <1>s, <1>7, <2>3, <2>4, <2>5, <2>6, CallOnly DEF Resumes
<1> QED  BY <1>r, <1>a, <1>b, <1>o DEF Items

\* A step that changes strings only leaves the vectors and the calls alone.
LEMMA StringsOnly ==
  ASSUME VectorsInv, UNCHANGED <<data, live, counter, last, value, call>>,
         strings' \in [String -> Int], held' \subseteq String,
         \A t \in Task : call[t].item \in held => call[t].item \in held'
  PROVE  VectorsInv'
<1>1. Typed' /\ Discipline'
  BY DEF VectorsInv, Typed, Discipline
<1>2. ASSUME NEW u \in Task PROVE CallShape(call[u])'
  <2> PICK c : c = call'[u]
    OBVIOUS
  <2>1. c = call[u] /\ c \in Calls /\ CallShape(c) /\ live \subseteq Cell
    BY DEF VectorsInv, Typed, CallShapes
  <2>2. c.item \in String => c.item \in held'
    BY <2>1 DEF CallShape, OperandShape
  <2>3. Undisturbed(c)
    <3>1. \A o \in Cell : Reads(c, o) => o \in live
      BY <2>1, ReadsLive
    <3> QED  BY <2>2, <3>1 DEF Undisturbed, Same
  <2>4. CallShape(c)'
    BY <2>1, <2>3, CallFrame
  <2> QED  BY <2>4, ShapeOfRecord
<1>3. LiveData' /\ RoomForItems' /\ LengthsBounded' /\ Deallocated' /\ NotEmpty' /\ ReleasedOnce'
  BY DEF VectorsInv, LiveData, RoomForItems, LengthsBounded, Deallocated, NotEmpty,
         ReleasedOnce
<1>4. ASSUME NEW o PROVE Holders(o)' = Holders(o)
  BY DEF Holders, Owns
<1>5. CountersExact' /\ NoVectorLost'
  BY <1>4 DEF VectorsInv, CountersExact, NoVectorLost
<1> QED  BY <1>1, <1>2, <1>3, <1>5 DEF VectorsInv, CallShapes

\* NewString.
LEMMA NewStringKeeps ==
  ASSUME VectorsInv, NEW s \in String, NewString(s)
  PROVE  VectorsInv'
<1>1. strings' \in [String -> Int] /\ held' \subseteq String
  BY DEF NewString, VectorsInv, Typed
<1> QED  BY <1>1, StringsOnly DEF NewString, vectors

\* ReleaseString.
LEMMA ReleaseStringKeeps ==
  ASSUME VectorsInv, NEW s \in String, ReleaseString(s)
  PROVE  VectorsInv'
<1>1. strings' \in [String -> Int]
  BY StringsInt DEF ReleaseString
<1>2. held' \subseteq String
  BY DEF ReleaseString, VectorsInv, Typed
<1> QED  BY <1>1, <1>2, StringsOnly DEF ReleaseString, vectors

\* A string that a vector has is a string.
LEMMA ItemIsString ==
  ASSUME VectorsInv, NEW r, NEW i \in Nat, i < Len(Items(r))
  PROVE  /\ r \in Cell /\ Items(r) = value[r] /\ i < Len(value[r])
         /\ Items(r)[i + 1] \in String
<1>1. value \in [Cell -> Seq(String)]
  BY DEF VectorsInv, Typed
<1>2. r \in Cell
  BY DEF Items
<1>3. value[r] \in Seq(String) /\ Items(r) = value[r]
  BY <1>1, <1>2 DEF Items
<1>4. i + 1 \in 1 .. Len(value[r])
  BY <1>3
<1> QED  BY <1>2, <1>3, <1>4

\* Element.
LEMMA ElementKeeps ==
  ASSUME VectorsInv, NEW t \in Task, NEW w \in Vector, NEW i \in 0 .. MaxLength,
         Element(t, w, i)
  PROVE  VectorsInv'
<1> PICK s : s = Items(data[w])[i + 1]
  OBVIOUS
<1>0. i \in Nat
  BY VectorsAssumption
<1>1. s \in String
  BY <1>0, ItemIsString DEF Element
<1>2. /\ strings' = [strings EXCEPT ![s] = @ + 1] /\ held' = held \cup {s}
      /\ UNCHANGED <<data, vectors, call>>
  BY DEF Element
<1>3. strings' \in [String -> Int] /\ held' \subseteq String
  BY <1>1, <1>2, StringsInt DEF VectorsInv, Typed
<1> QED  BY <1>2, <1>3, StringsOnly DEF vectors

\* A call that begins may use its objects.
LEMMA StartDiscipline ==
  ASSUME VectorsInv, NEW t \in Task, NEW r, call' = [call EXCEPT ![t] = r],
         MayWrite(t, r.self), r.from = Null \/ MayRead(t, r.from)
  PROVE  Discipline'
<1>1. \A u \in Task : r.self \notin {call[u].self, call[u].from}
  BY DEF MayWrite
<1>2. \A u \in Task : call[u].self # Null => call[u].self \notin {r.self, r.from}
  BY <1>1 DEF MayRead
<1> QED  BY <1>1, <1>2, DisciplineStep DEF VectorsInv

\* The vector of an object that no call uses has strings, if it is one.
LEMMA HasStrings ==
  ASSUME VectorsInv, NEW v \in Vector, data[v] \in Cell,
         \A u \in Task : call[u].pc = "store" => call[u].self # v
  PROVE  data[v] \in live /\ value[data[v]] # <<>>
BY VectorsAssumption DEF VectorsInv, NotEmpty, LiveData

\* Insert begins.
LEMMA InsertKeeps ==
  ASSUME VectorsInv, NEW t \in Task, NEW v \in Vector, NEW i \in 0 .. MaxLength,
         NEW s \in String, Insert(t, v, i, s)
  PROVE  VectorsInv' /\ Others(t)
<1>r. PICK r : r = [Idle EXCEPT !.pc = "detach", !.op = "insert", !.self = v,
                                !.item = s, !.index = i]
  OBVIOUS
<1>1. /\ call' = [call EXCEPT ![t] = r]
      /\ UNCHANGED <<data, live, counter, last, value, held>>
      /\ MayWrite(t, v) /\ data[v] # Null /\ s \in held
      /\ i <= Len(Items(data[v])) /\ Len(Items(data[v])) < MaxLength
  BY <1>r DEF Insert, Go, vectors
<1>s. strings' \in [String -> Int]
  BY StringsInt DEF Insert
<1>2. i \in Nat /\ Null \notin Vector /\ Null \notin String
  BY VectorsAssumption
<1>3. /\ r \in Calls /\ r.pc = "detach" /\ r.op = "insert" /\ r.self = v /\ r.from = Null
      /\ r.item = s /\ r.other = Null /\ r.index = i /\ r.target = Null /\ r.i = 0
  BY <1>r, <1>2 DEF Idle, Calls, Ref, Edits
<1>4. CallShape(r)'
  <2>1. OperandShape(r)' /\ ShareShape(r)' /\ EditShape(r)' /\ SliceShape(r)'
    BY <1>1, <1>2, <1>3 DEF OperandShape, ShareShape, EditShape, SliceShape, Edits
  <2>2. FitShape(r)' /\ SourceShape(r)' /\ StoredShape(r)'
    BY <1>1, <1>3 DEF FitShape, SourceShape, StoredShape, Leaving, Items
  <2> QED  BY <2>1, <2>2 DEF CallShape
<1>p. call[t].pc = "idle"
  BY <1>1 DEF MayWrite
<1>5. \A x \in Cell : Owns(r, x) <=> Owns(call[t], x)
  BY <1>p, <1>3 DEF Owns
<1>6. Discipline'
  BY <1>1, <1>3, StartDiscipline
<1>7. held \subseteq held' /\ held' \subseteq String
  BY <1>1 DEF VectorsInv, Typed
<1> QED  BY <1>1, <1>s, <1>p, <1>3, <1>4, <1>5, <1>6, <1>7, CallOnly

\* A step that gives object v, which no other call uses, another vector.
LEMMA OthersObjects ==
  ASSUME VectorsInv, NEW u \in Task, NEW v \in Vector, NEW x,
         data' = [data EXCEPT ![v] = x], v \notin {call[u].self, call[u].from}
  PROVE  /\ call[u].self \in Vector => data'[call[u].self] = data[call[u].self]
         /\ call[u].from \in Vector => data'[call[u].from] = data[call[u].from]
BY DEF VectorsInv, Typed

\* The objects that one call writes, another does not use.
LEMMA OthersUse ==
  ASSUME VectorsInv, NEW t \in Task, NEW u \in Task \ {t}, call[t].pc # "idle"
  PROVE  /\ call[t].self \in Vector /\ call[t].self \notin {call[u].self, call[u].from}
         /\ call[t].from \in Vector => call[u].self # call[t].from
<1>1. call[t].self \in Vector
  BY DEF VectorsInv, CallShapes, CallShape, OperandShape
<1>2. Null \notin Vector
  BY VectorsAssumption
<1>3. call[t].self \notin {call[u].self, call[u].from}
  BY <1>1, <1>2 DEF VectorsInv, Discipline
<1>4. call[t].from \in Vector => call[u].self # call[t].from
  BY <1>2 DEF VectorsInv, Discipline
<1> QED  BY <1>1, <1>3, <1>4

\* The string of a call is still held when no string is released.
LEMMA ItemsHeld ==
  ASSUME VectorsInv, NEW u \in Task, held \subseteq held'
  PROVE  call[u].item \in String => call[u].item \in held'
BY DEF VectorsInv, CallShapes, CallShape, OperandShape

\* The cardinality of the holders when one takes the place of another.
LEMMA HolderReplaced ==
  ASSUME NEW x, NEW a \in Holders(x), NEW b, b \notin Holders(x),
         a \notin Holders(x)', b \in Holders(x)',
         \A y \in Vector \cup Task : y \notin {a, b} => (y \in Holders(x)' <=> y \in Holders(x))
  PROVE  Cardinality(Holders(x)') = Cardinality(Holders(x))
<1>1. Holders(x)' \subseteq Vector \cup Task /\ Holders(x) \subseteq Vector \cup Task
  BY HoldersNow, HoldersNext
<1> PICK H : H = Holders(x)
  OBVIOUS
<1> PICK K : K = Holders(x)'
  OBVIOUS
<1>2. K = (H \ {a}) \cup {b}
  BY <1>1
<1>3. IsFiniteSet(H)
  BY HoldersFinite
<1> QED  BY <1>2, <1>3, CardSame

\* A Universal_String_Vector is declared.
LEMMA DeclareKeeps ==
  ASSUME VectorsInv, NEW t \in Task, NEW v \in Vector, Declare(t, v)
  PROVE  VectorsInv' /\ Others(t)
<1> PICK r : r = call[t]
  OBVIOUS
<1>n. Empty \notin Cell /\ Null \notin Cell
  BY VectorsAssumption
<1>1. /\ MayWrite(t, v) /\ data[v] = Null
      /\ data' = [data EXCEPT ![v] = Empty]
      /\ UNCHANGED <<live, counter, last, value, strings, held, call>>
  BY DEF Declare, vectors
<1>2. call' = [call EXCEPT ![t] = r] /\ r \in Calls /\ CallShape(r) /\ live \subseteq Cell
  BY <1>1 DEF VectorsInv, Typed, CallShapes
<1>3. Typed' /\ Discipline'
  BY <1>1 DEF VectorsInv, Typed, Discipline, Ref
<1>4. \A u \in Task : Undisturbed(call[u])
  <2> TAKE u \in Task
  <2>1. v \notin {call[u].self, call[u].from}
    BY <1>1 DEF MayWrite
  <2>2. \A x \in live \ {Null} : Same(x)
    BY <1>1 DEF Same
  <2>3. held \subseteq held'
    BY <1>1
  <2> QED  BY <1>1, <1>n, <2>1, <2>2, <2>3, OthersObjects, ItemsHeld, UndisturbedBy
<1>5. CallShapes' /\ Others(t)
  <2>1. CallShape(r)'
    BY <1>2, <1>4, CallFrame
  <2> QED  BY <1>2, <1>4, <2>1, StepFrame
<1>6. LiveData' /\ RoomForItems' /\ LengthsBounded' /\ Deallocated' /\ ReleasedOnce'
  BY <1>1 DEF VectorsInv, Typed, LiveData, RoomForItems, LengthsBounded, Deallocated,
              ReleasedOnce
<1>7. NotEmpty'
  BY <1>1, <1>n DEF VectorsInv, Typed, NotEmpty
<1>8. CountersExact' /\ NoVectorLost'
  <2>1. ASSUME NEW x \in Cell PROVE Holders(x)' = Holders(x)
    <3>1. \A w \in Vector : data'[w] = x <=> data[w] = x
      BY <1>1, <1>n DEF VectorsInv, Typed
    <3> QED  BY <1>2, <3>1, HoldersKept DEF VectorsInv
  <2>2. live \subseteq Cell
    BY <1>2
  <2> QED  BY <1>1, <2>1, <2>2 DEF VectorsInv, CountersExact, NoVectorLost
<1> QED  BY <1>3, <1>5, <1>6, <1>7, <1>8 DEF VectorsInv

\* An object is released or takes another vector: it gives its own to the call.
LEMMA ShareKeeps ==
  ASSUME VectorsInv, NEW t \in Task, NEW v \in Vector, NEW w, NEW target,
         Share(t, v, w, target),
         \/ w = Null /\ target \in {Empty, Null}
         \/ w \in Vector /\ w # v /\ MayRead(t, w) /\ target = data[w]
  PROVE  VectorsInv' /\ Others(t)
<1>r. PICK r : r = [Idle EXCEPT !.pc   = IF data[v] \in Cell THEN "drop" ELSE "bind",
                                !.op   = "share", !.self = v, !.from = w,
                                !.source = data[v], !.target = target]
  OBVIOUS
<1>n. Empty \notin Cell /\ Null \notin Cell /\ Null \notin Vector /\ Null \notin String
  BY VectorsAssumption
<1>1. /\ MayWrite(t, v) /\ data[v] # Null
      /\ call' = [call EXCEPT ![t] = r]
      /\ data' = [data EXCEPT ![v] = Null]
      /\ UNCHANGED <<live, counter, last, value, strings, held>>
  BY <1>r DEF Share, Go, vectors
<1>p. call[t].pc = "idle" /\ \A u \in Task : v \notin {call[u].self, call[u].from}
  BY <1>1 DEF MayWrite
<1>2. /\ data \in [Vector -> Ref] /\ live \subseteq Cell /\ Null \in Ref /\ Empty \in Ref
      /\ data[v] \in Ref /\ target \in Ref /\ w \in Vector \cup {Null}
  BY DEF VectorsInv, Typed, Ref
<1>3. /\ r \in Calls /\ r.op = "share" /\ r.self = v /\ r.from = w /\ r.item = Null
      /\ r.source = data[v] /\ r.target = target /\ r.i = 0
      /\ r.pc = IF data[v] \in Cell THEN "drop" ELSE "bind"
  <2>1. Idle \in Calls
    BY DEF Idle, Calls, Ref
  <2> QED  BY <1>2, <2>1, <1>r DEF Idle, Calls
<1>c. data[v] \in Cell => data[v] \in live /\ value[data[v]] # <<>>
  BY <1>p, HasStrings
<1>d. data'[v] = Null /\ \A u \in Vector \ {v} : data'[u] = data[u]
  BY <1>1, <1>2
<1>4. CallShape(r)'
  <2>1. OperandShape(r)' /\ ShareShape(r)' /\ EditShape(r)' /\ SliceShape(r)'
    <3>1. w \in Vector => w # v /\ data'[w] = data[w] /\ data[w] # Null /\ target = data[w]
      BY <1>d, <1>n DEF MayRead
    <3>2. w \notin Vector => target \in {Empty, Null}
      BY <1>n
    <3> QED  BY <1>1, <1>n, <1>3, <1>d, <3>1, <3>2
             DEF OperandShape, ShareShape, EditShape, SliceShape, Edits
  <2>2. FitShape(r)' /\ StoredShape(r)'
    BY <1>3 DEF FitShape, StoredShape
  <2>3. SourceShape(r)'
    BY <1>1, <1>3, <1>c DEF SourceShape, Leaving
  <2> QED  BY <2>1, <2>2, <2>3 DEF CallShape
<1>5. Discipline'
  BY <1>1, <1>3, StartDiscipline
<1>6. Typed'
  BY <1>1, <1>2, <1>3 DEF VectorsInv, Typed
<1>7. CallShapes' /\ Others(t)
  <2>1. ASSUME NEW u \in Task \ {t} PROVE Undisturbed(call[u])
    <3>1. \A x \in live \ {Null} : Same(x)
      BY <1>1 DEF Same
    <3>2. held \subseteq held'
      BY <1>1
    <3> QED  BY <1>1, <1>n, <1>p, <3>1, <3>2, OthersObjects, ItemsHeld, UndisturbedBy
  <2> QED  BY <1>1, <1>4, <2>1, StepFrame
<1>8. LiveData' /\ RoomForItems' /\ LengthsBounded' /\ Deallocated'
  BY <1>1, <1>d DEF VectorsInv, LiveData, RoomForItems, LengthsBounded, Deallocated
<1>9. NotEmpty'
  <2>1. ASSUME NEW u \in Vector, data'[u] \in Cell
        PROVE  data'[u] = data[u] /\ value'[data[u]] = value[data[u]]
    BY <1>1, <1>d, <1>n, <2>1
  <2> QED  BY <1>1, <1>p, <2>1, NotEmptyStep
<1>10. ReleasedOnce'
  BY <1>1, <1>3, ReleasedOnceStep
<1>11. CountersExact' /\ NoVectorLost'
  <2>1. ASSUME NEW x \in Cell PROVE Cardinality(Holders(x)') = Cardinality(Holders(x))
    <3>0. call'[t] = r /\ \A u \in Task \ {t} : call'[u] = call[u]
      BY <1>1 DEF VectorsInv, Typed
    <3>1. CASE data[v] = x
      <4>1. v \in Holders(x) /\ v \notin Holders(x)'
        BY <1>d, <1>n, <3>1, HoldersNow, HoldersNext
      <4>2. t \notin Holders(x)
        BY <1>p, HoldersNow DEF Owns
      <4>3. t \in Holders(x)'
        BY <1>3, <3>0, <3>1, HoldersNext DEF Owns
      <4>4. ASSUME NEW y \in Vector \cup Task, y \notin {v, t}
            PROVE  y \in Holders(x)' <=> y \in Holders(x)
        <5>1. CASE y \in Vector
          BY <1>d, <4>4, <5>1, HoldersNow, HoldersNext
        <5>2. CASE y \in Task
          <6>1. Owns(call'[y], x) <=> Owns(call[y], x)
            BY <3>0, <4>4, <5>2
          <6> QED  BY <5>2, <6>1, HoldersNow, HoldersNext
        <5> QED  BY <5>1, <5>2
      <4> QED  BY <4>1, <4>2, <4>3, <4>4, HolderReplaced
    <3>2. CASE data[v] # x
      <4>1. \A u \in Vector : data'[u] = x <=> data[u] = x
        BY <1>d, <1>n, <3>2
      <4>2. ~Owns(r, x) /\ ~Owns(call[t], x)
        BY <1>3, <1>p, <3>2 DEF Owns
      <4> QED  BY <1>1, <4>1, <4>2, HoldersKept DEF VectorsInv
    <3> QED  BY <3>1, <3>2
  <2>2. live' \subseteq (live \cup {Null}) \cap Cell /\ Null \notin live'
    BY <1>1, <1>2, <1>n
  <2> QED  BY <1>1, <1>n, <1>p, <2>1, <2>2, CountersStep
<1> QED  BY <1>5, <1>6, <1>7, <1>8, <1>9, <1>10, <1>11 DEF VectorsInv

\* The vector that a call is about to let go of is not the one it edits.
LEMMA SourceIsOther ==
  ASSUME VectorsInv, NEW t \in Task, call[t].pc \in Leaving
  PROVE  /\ call[t].source \in live /\ call[t].source \in Cell
         /\ call[t].op \in Edits \cup {"share"}
         /\ call[t].op \in Edits => /\ data[call[t].self] \in live
                                    /\ counter[data[call[t].self]] = 1
                                    /\ data[call[t].self] # call[t].source
<1> PICK c : c = call[t]
  OBVIOUS
<1>1. c \in Calls /\ CallShape(c) /\ live \subseteq Cell
  BY DEF VectorsInv, Typed, CallShapes
<1>2. c.source \in live /\ c.source \in Cell
  BY <1>1 DEF CallShape, SourceShape
<1>3. c.op \in Edits \cup {"share"}
  <2>1. c.op \in {"none", "share", "slice"} \cup Edits
    BY <1>1 DEF Calls
  <2>2. c.op # "none" /\ c.op # "slice"
    BY <1>1 DEF CallShape, OperandShape, SliceShape, Leaving
  <2> QED  BY <2>1, <2>2
<1>4. ASSUME c.op \in Edits
      PROVE  data[c.self] \in live /\ counter[data[c.self]] = 1 /\ data[c.self] # c.source
  <2>1. c.self \in Vector /\ data[c.self] \in live /\ counter[data[c.self]] = 1
    BY <1>1, <1>4 DEF CallShape, OperandShape, EditShape, Leaving
  <2>2. c.self \in Holders(data[c.self])
    BY <2>1, HoldersNow
  <2>3. CASE c.pc \in {"strings", "free"}
    BY <2>1, <2>2, <2>3, ReleasedHasNoHolder
  <2>4. CASE c.pc \notin {"strings", "free"}
    <3>1. t \in Holders(c.source)
      BY <2>4, HoldersNow DEF Owns, Leaving
    <3>2. t # c.self
      BY <2>1, VectorsAssumption
    <3> QED  BY <1>1, <2>1, <2>2, <3>1, <3>2, SoleHolder
  <2> QED  BY <2>1, <2>3, <2>4
<1> QED  BY <1>2, <1>3, <1>4

\* A call that has let its old vector go can do what it does next.
LEMMA ContinueShape ==
  ASSUME VectorsInv, NEW t \in Task, call[t].pc \in {"drop", "free"},
         UNCHANGED <<data, held>>,
         call[t].op \in Edits => /\ data[call[t].self] \in live'
                                 /\ counter'[data[call[t].self]] = 1
                                 /\ value'[data[call[t].self]] = value[data[call[t].self]]
                                 /\ last'[data[call[t].self]] = last[data[call[t].self]],
         call[t].op = "prepend" => value'[call[t].other] = value[call[t].other],
         NEW r, r = Continue(call[t])
  PROVE  /\ r \in Calls /\ r.pc \in {"bind", "store"} /\ CallShape(r)'
         /\ r.self = call[t].self /\ r.from = call[t].from
<1> PICK c : c = call[t]
  OBVIOUS
<1>1. c \in Calls /\ CallShape(c) /\ c.pc \in {"drop", "free"}
  BY DEF VectorsInv, Typed, CallShapes
<1>2. c.op \in Edits \cup {"share"}
  BY SourceIsOther DEF Leaving
<1>3. /\ r \in Calls /\ r.op = c.op /\ r.self = c.self /\ r.from = c.from
      /\ r.item = c.item /\ r.other = c.other /\ r.index = c.index /\ r.target = c.target
      /\ r.i = 0 /\ r.pc = IF c.op = "share" THEN "bind" ELSE "store"
  <2>1. Null \in Ref
    BY DEF Ref
  <2>p. PICK p : p = IF c.op = "share" THEN "bind" ELSE "store"
    OBVIOUS
  <2>2. p \in {"bind", "store"} /\ r = [c EXCEPT !.pc = p, !.source = Null, !.i = 0]
    BY <1>1, <2>p DEF Continue
  <2>3. c \in Calls
    BY <1>1
  <2>4. /\ r \in Calls /\ r.op = c.op /\ r.self = c.self /\ r.from = c.from
        /\ r.item = c.item /\ r.other = c.other /\ r.index = c.index
        /\ r.target = c.target /\ r.i = 0 /\ r.pc = p
    BY ONLY <2>1, <2>2, <2>3 DEF Calls
  <2> QED  BY <2>p, <2>4
<1>4. "share" \notin Edits /\ "none" \notin Edits /\ "slice" \notin Edits
  BY DEF Edits
<1>5. OperandShape(r)' /\ ShareShape(r)'
  BY <1>1, <1>2, <1>3, <1>4 DEF CallShape, OperandShape, ShareShape
<1>6. EditShape(r)'
  BY <1>1, <1>2, <1>3, <1>4 DEF CallShape, EditShape
<1>7. FitShape(r)'
  <2>1. CASE c.op = "share"
    BY <1>3, <2>1 DEF FitShape
  <2>2. CASE c.op \in Edits
    BY <1>1, <1>3, <1>4, <2>2 DEF CallShape, FitShape, Leaving
  <2> QED  BY <1>2, <2>1, <2>2
<1>8. SourceShape(r)' /\ StoredShape(r)' /\ SliceShape(r)'
  BY <1>1, <1>2, <1>3, <1>4 DEF CallShape, SourceShape, StoredShape, SliceShape, Leaving
<1> QED  BY <1>3, <1>5, <1>6, <1>7, <1>8 DEF CallShape

\* A call lets its old vector go.
LEMMA DropKeeps ==
  ASSUME VectorsInv, NEW t \in Task, Drop(t)
  PROVE  VectorsInv' /\ Others(t)
<1> PICK c : c = call[t]
  OBVIOUS
<1> PICK s : s = c.source
  OBVIOUS
<1>r. PICK r : r = IF counter[s] # 1 THEN Continue(c)
                   ELSE IF c.pc = "drop" THEN [c EXCEPT !.pc = "strings", !.i = 0]
                                         ELSE [c EXCEPT !.pc = "free"]
  OBVIOUS
<1>n. Empty \notin Cell /\ Null \notin Cell /\ Null \notin Vector /\ Task \cap Vector = {}
  BY VectorsAssumption
<1>1. /\ c.pc \in {"drop", "move"}
      /\ call' = [call EXCEPT ![t] = r]
      /\ counter' = [counter EXCEPT ![s] = @ - 1]
      /\ UNCHANGED <<data, live, last, value, strings, held>>
  BY <1>r DEF Drop, Go
<1>2. /\ c \in Calls /\ CallShape(c) /\ live \subseteq Cell
      /\ counter \in [Cell -> Int] /\ call \in [Task -> Calls]
  BY DEF VectorsInv, Typed, CallShapes
<1>s. /\ s \in live /\ s \in Cell /\ c.op \in Edits \cup {"share"}
      /\ c.op \in Edits => data[c.self] \in live /\ counter[data[c.self]] = 1 /\ data[c.self] # s
  BY <1>1, SourceIsOther DEF Leaving
<1>h. t \in Holders(s)
  BY <1>1, HoldersNow DEF Owns
<1>k. /\ counter'[s] = counter[s] - 1 /\ \A x \in Cell \ {s} : counter'[x] = counter[x]
      /\ counter[s] \in Int
  BY <1>1, <1>2, <1>s
<1>e. "share" \notin Edits /\ "none" \notin Edits /\ "slice" \notin Edits /\ "prepend" \in Edits
  BY DEF Edits
<1>3. /\ r \in Calls /\ CallShape(r)' /\ r.self = c.self /\ r.from = c.from
      /\ \/ r.pc \in {"bind", "store"} /\ counter[s] # 1
         \/ r.pc \in {"strings", "free"} /\ counter[s] = 1 /\ r.source = s
  <2>1. CASE counter[s] # 1
    <3>1. r = Continue(c)
      BY <1>r, <2>1
    <3>2. c.pc = "drop"
      BY <1>1, <1>2, <2>1 DEF CallShape, SourceShape
    <3>3. c.op \in Edits => /\ data[c.self] \in live' /\ counter'[data[c.self]] = 1
                            /\ value'[data[c.self]] = value[data[c.self]]
                            /\ last'[data[c.self]] = last[data[c.self]]
      BY <1>1, <1>2, <1>s, <1>k
    <3>4. /\ r \in Calls /\ r.pc \in {"bind", "store"} /\ CallShape(r)'
          /\ r.self = c.self /\ r.from = c.from
      BY <1>1, <3>1, <3>2, <3>3, ContinueShape
    <3> QED  BY <2>1, <3>4
  <2>2. CASE counter[s] = 1
    <3>1. /\ r \in Calls /\ r.op = c.op /\ r.self = c.self /\ r.from = c.from
          /\ r.item = c.item /\ r.other = c.other /\ r.index = c.index /\ r.source = s
          /\ r.target = c.target
          /\ (r.pc = "strings" /\ c.pc = "drop" /\ r.i = 0) \/ (r.pc = "free" /\ c.pc = "move")
      <4>1. CASE c.pc = "drop"
        <5>1. r = [c EXCEPT !.pc = "strings", !.i = 0]
          BY <1>r, <2>2, <4>1
        <5> QED  BY <1>2, <4>1, <5>1 DEF Calls
      <4>2. CASE c.pc = "move"
        <5>1. r = [c EXCEPT !.pc = "free"]
          BY <1>r, <2>2, <4>2
        <5> QED  BY <1>2, <4>2, <5>1 DEF Calls
      <4> QED  BY <1>1, <4>1, <4>2
    <3>2. OperandShape(r)' /\ ShareShape(r)' /\ SliceShape(r)'
      BY <1>1, <1>2, <1>s, <1>e, <3>1 DEF CallShape, OperandShape, ShareShape, SliceShape
    <3>3. EditShape(r)'
      BY <1>1, <1>2, <1>s, <1>k, <1>e, <3>1 DEF CallShape, EditShape
    <3>4. FitShape(r)' /\ StoredShape(r)'
      BY <1>1, <1>2, <3>1 DEF CallShape, FitShape, StoredShape, Leaving
    <3>5. SourceShape(r)'
      <4>1. value[s] # <<>> /\ counter'[s] = 0
        BY <1>1, <1>2, <1>k, <2>2 DEF CallShape, SourceShape, Leaving
      <4>2. Len(value[s]) > 0
        BY <1>s, <4>1 DEF VectorsInv, Typed
      <4> QED  BY <1>1, <1>s, <3>1, <4>1, <4>2 DEF SourceShape, Leaving
    <3> QED  BY <2>2, <3>1, <3>2, <3>3, <3>4, <3>5 DEF CallShape
  <2> QED  BY <2>1, <2>2
<1>4. Discipline'
  BY <1>1, <1>3, DisciplineKept DEF VectorsInv
<1>5. Typed'
  <2>1. counter' \in [Cell -> Int]
    <3>1. counter' = [x \in Cell |-> IF x = s THEN counter[x] - 1 ELSE counter[x]]
      BY <1>1, <1>2
    <3>2. \A x \in Cell : counter[x] - 1 \in Int
      BY <1>2
    <3> QED  BY <1>2, <3>1, <3>2
  <2>2. call' \in [Task -> Calls]
    BY <1>1, <1>2, <1>3
  <2> QED  BY <1>1, <2>1, <2>2 DEF VectorsInv, Typed
<1>6. CallShapes' /\ Others(t)
  <2>1. ASSUME NEW u \in Task \ {t} PROVE Undisturbed(call[u])
    <3>1. \A x \in live \ {s} : Same(x)
      BY <1>1 DEF Same
    <3>2. held \subseteq held' /\ Same(s)
      BY <1>1, <1>s DEF Same
    <3>3. ~Relies(call[u], s)
      BY <1>h, <1>n, <1>s, NotRelied
    <3> QED  BY <1>1, <1>k, <3>1, <3>2, <3>3, ItemsHeld, UndisturbedBy
  <2> QED  BY <1>1, <1>3, <2>1, StepFrame
<1>7. LiveData' /\ RoomForItems' /\ LengthsBounded' /\ Deallocated'
  BY <1>1 DEF VectorsInv, LiveData, RoomForItems, LengthsBounded, Deallocated
<1>8. NotEmpty'
  BY <1>1, NotEmptyStep
<1>9. ReleasedOnce'
  BY <1>1, <1>3, <1>s, <1>h, ReleasedOnceStep
<1>10. CountersExact' /\ NoVectorLost'
  <2>0. call'[t] = r /\ \A u \in Task \ {t} : call'[u] = call[u]
    BY <1>1, <1>2
  <2>o. ASSUME NEW x \in Cell PROVE ~Owns(r, x) /\ (Owns(c, x) <=> x = s)
    BY <1>1, <1>3 DEF Owns
  <2>1. ASSUME NEW x \in Cell \ {s} PROVE Holders(x)' = Holders(x)
    BY <1>1, <2>o, <2>1, HoldersKept DEF VectorsInv
  <2>2. Holders(s)' = Holders(s) \ {t}
    <3>1. \A v \in Vector : v \in Holders(s)' <=> v \in Holders(s)
      BY <1>1, HoldersNow, HoldersNext
    <3>2. \A u \in Task : u \in Holders(s)' <=> u \in Holders(s) /\ u # t
      <4> TAKE u \in Task
      <4>1. u # t => call'[u] = call[u]
        BY <2>0
      <4>2. ~Owns(call'[t], s)
        BY <1>s, <2>0, <2>o
      <4>3. u # t => (Owns(call'[u], s) <=> Owns(call[u], s))
        BY <4>1
      <4> QED  BY <4>2, <4>3, HoldersNow, HoldersNext
    <3>3. Holders(s)' \subseteq Vector \cup Task /\ Holders(s) \subseteq Vector \cup Task
      BY HoldersNow, HoldersNext
    <3> QED  BY <1>n, <3>1, <3>2, <3>3
  <2>3. counter'[s] = Cardinality(Holders(s)')
    <3> PICK H : H = Holders(s)
      OBVIOUS
    <3>1. IsFiniteSet(H) /\ t \in H
      BY <1>h, HoldersFinite
    <3>2. counter[s] = Cardinality(H)
      BY <1>s DEF VectorsInv, CountersExact
    <3> QED  BY <1>k, <2>2, <3>1, <3>2, CardLess
  <2>4. Holders(s)' # {} \/ (r.pc \in {"strings", "free"} /\ r.source = s)
    <3>1. ASSUME Holders(s)' = {}, counter[s] # 1 PROVE FALSE
      BY <1>k, <2>3, <3>1, FS_EmptySet
    <3> QED  BY <1>3, <3>1
  <2>5. live' \subseteq (live \cup {s}) \cap Cell
    BY <1>1, <1>2
  <2>6. c.pc \notin {"strings", "free"}
    BY <1>1
  <2> QED  BY <1>1, <1>k, <2>1, <2>3, <2>4, <2>5, <2>6, CountersStep
<1> QED  BY <1>4, <1>5, <1>6, <1>7, <1>8, <1>9, <1>10 DEF VectorsInv

\* A call frees its old vector.
LEMMA FreeKeeps ==
  ASSUME VectorsInv, NEW t \in Task, Free(t)
  PROVE  VectorsInv' /\ Others(t)
<1> PICK c : c = call[t]
  OBVIOUS
<1> PICK s : s = c.source
  OBVIOUS
<1>r. PICK r : r = Continue(c)
  OBVIOUS
<1>n. Empty \notin Cell /\ Null \notin Cell /\ Null \notin Vector /\ Task \cap Vector = {}
  BY VectorsAssumption
<1>1. /\ c.pc = "free"
      /\ call' = [call EXCEPT ![t] = r]
      /\ live' = live \ {s} /\ last' = [last EXCEPT ![s] = 0]
      /\ value' = [value EXCEPT ![s] = <<>>]
      /\ UNCHANGED <<data, counter, strings, held>>
  BY <1>r DEF Free, Go
<1>2. /\ c \in Calls /\ CallShape(c) /\ live \subseteq Cell /\ last \in [Cell -> Nat]
      /\ value \in [Cell -> Seq(String)] /\ call \in [Task -> Calls]
  BY DEF VectorsInv, Typed, CallShapes
<1>s. /\ s \in live /\ s \in Cell /\ c.op \in Edits \cup {"share"}
      /\ c.op \in Edits => data[c.self] \in live /\ counter[data[c.self]] = 1 /\ data[c.self] # s
  BY <1>1, SourceIsOther DEF Leaving
<1>h. Holders(s) = {} /\ counter[s] = 0
  BY <1>1, <1>2, ReleasedHasNoHolder DEF CallShape, SourceShape
<1>k. /\ value'[s] = <<>> /\ last'[s] = 0
      /\ \A x \in Cell \ {s} : value'[x] = value[x] /\ last'[x] = last[x]
  BY <1>1, <1>2, <1>s
<1>d. \A v \in Vector : data[v] # s
  BY <1>h, HoldersNow
<1>3. r \in Calls /\ r.pc \in {"bind", "store"} /\ CallShape(r)' /\ r.self = c.self /\ r.from = c.from
  <2>1. c.op \in Edits => /\ data[c.self] \in live' /\ counter'[data[c.self]] = 1
                          /\ value'[data[c.self]] = value[data[c.self]]
                          /\ last'[data[c.self]] = last[data[c.self]]
    BY <1>1, <1>2, <1>s, <1>k
  <2>2. c.op = "prepend" => value'[c.other] = value[c.other]
    <3>1. c.op = "prepend" => c.from \in Vector /\ c.other \in Cell /\ c.other = data[c.from]
      BY <1>2 DEF CallShape, EditShape
    <3> QED  BY <1>k, <1>d, <3>1
  <2> QED  BY <1>r, <1>1, <2>1, <2>2, ContinueShape
<1>4. Discipline'
  BY <1>1, <1>3, DisciplineKept DEF VectorsInv
<1>5. Typed'
  <2>1. value' \in [Cell -> Seq(String)]
    <3>1. value' = [x \in Cell |-> IF x = s THEN <<>> ELSE value[x]]
      BY <1>1, <1>2
    <3>2. <<>> \in Seq(String)
      OBVIOUS
    <3> QED  BY <1>2, <3>1, <3>2
  <2>2. call' \in [Task -> Calls] /\ last' \in [Cell -> Nat] /\ live' \subseteq Cell
    BY <1>1, <1>2, <1>3
  <2> QED  BY <1>1, <2>1, <2>2 DEF VectorsInv, Typed
<1>6. CallShapes' /\ Others(t)
  <2>1. ASSUME NEW u \in Task \ {t} PROVE Undisturbed(call[u])
    <3>1. \A x \in live \ {s} : Same(x)
      BY <1>1, <1>2, <1>k DEF Same
    <3>2. held \subseteq held' /\ \A x \in Cell : counter'[x] = counter[x]
      BY <1>1
    <3>3. ~Reads(call[u], s)
      <4>1. call[u].pc \in {"strings", "free"} => call[u].source # s
        BY <1>1 DEF VectorsInv, ReleasedOnce
      <4> QED  BY <1>s, <1>h, <4>1, ReaderHolds
    <3> QED  BY <1>1, <3>1, <3>2, <3>3, ItemsHeld, UndisturbedBy
  <2> QED  BY <1>1, <1>3, <2>1, StepFrame
<1>7. LiveData' /\ RoomForItems' /\ LengthsBounded' /\ Deallocated'
  <2>1. LiveData'
    BY <1>1, <1>d DEF VectorsInv, LiveData
  <2>2. RoomForItems'
    BY <1>1, <1>2, <1>k DEF VectorsInv, RoomForItems
  <2>3. LengthsBounded'
    BY <1>2, <1>k, VectorsAssumption DEF VectorsInv, LengthsBounded
  <2>4. Deallocated'
    BY <1>1, <1>2, <1>k DEF VectorsInv, Deallocated
  <2> QED  BY <2>1, <2>2, <2>3, <2>4
<1>8. NotEmpty'
  <2>1. ASSUME NEW w \in Vector, data'[w] \in Cell
        PROVE  data'[w] = data[w] /\ value'[data[w]] = value[data[w]]
    BY <1>1, <1>d, <1>k, <2>1
  <2>2. c.pc # "store"
    BY <1>1
  <2> QED  BY <1>1, <2>1, <2>2, NotEmptyStep
<1>9. ReleasedOnce'
  BY <1>1, <1>3, ReleasedOnceStep
<1>10. CountersExact' /\ NoVectorLost'
  <2>o. ASSUME NEW x \in Cell PROVE ~Owns(r, x) /\ ~Owns(c, x)
    BY <1>1, <1>3 DEF Owns
  <2>1. ASSUME NEW x \in Cell PROVE Holders(x)' = Holders(x)
    BY <1>1, <2>o, HoldersKept DEF VectorsInv
  <2>2. counter'[s] = Cardinality(Holders(s)')
    BY <1>1, <1>s, <2>1 DEF VectorsInv, CountersExact
  <2>3. live' \subseteq (live \cup {s}) \cap Cell /\ s \notin live'
    BY <1>1, <1>2
  <2> QED  BY <1>1, <2>1, <2>2, <2>3, CountersStep
<1> QED  BY <1>4, <1>5, <1>6, <1>7, <1>8, <1>9, <1>10 DEF VectorsInv

\* An object is assigned, and its vector counted.
LEMMA BindKeeps ==
  ASSUME VectorsInv, NEW t \in Task, Bind(t)
  PROVE  VectorsInv' /\ Others(t)
<1> PICK c : c = call[t]
  OBVIOUS
<1> PICK v : v = c.self
  OBVIOUS
<1> PICK o : o = c.target
  OBVIOUS
<1>r. PICK r : r = Idle
  OBVIOUS
<1>n. Empty \notin Cell /\ Null \notin Cell /\ Null \notin Vector /\ Task \cap Vector = {}
  BY VectorsAssumption
<1>1. /\ c.pc = "bind"
      /\ call' = [call EXCEPT ![t] = r]
      /\ data' = [data EXCEPT ![v] = o]
      /\ counter' = IF o \in Cell THEN [counter EXCEPT ![o] = @ + 1] ELSE counter
      /\ UNCHANGED <<live, last, value, strings, held>>
  BY <1>r DEF Bind, Go
<1>2. /\ c \in Calls /\ CallShape(c) /\ live \subseteq Cell /\ data \in [Vector -> Ref]
      /\ counter \in [Cell -> Int] /\ call \in [Task -> Calls]
  BY DEF VectorsInv, Typed, CallShapes
<1>3. /\ r \in Calls /\ r.pc = "idle" /\ r.self = Null /\ r.from = Null
      /\ \A x : ~Owns(r, x)
      /\ CallShape(r)'
  BY <1>r, IdleShape
<1>s. /\ v \in Vector /\ data[v] = Null /\ o \in Ref
      /\ o \in {Empty, Null} \/ (c.from \in Vector /\ o = data[c.from])
  BY <1>1, <1>2 DEF CallShape, OperandShape, ShareShape, Calls
<1>d. data'[v] = o /\ \A u \in Vector \ {v} : data'[u] = data[u]
  BY <1>1, <1>2, <1>s
<1>c. ASSUME o \in Cell
      PROVE  /\ c.from \in Vector /\ o = data[c.from] /\ o \in live /\ value[o] # <<>>
             /\ c.from \in Holders(o)
  <2>1. c.from \in Vector /\ o = data[c.from]
    BY <1>c, <1>s, <1>n
  <2>2. \A u \in Task : call[u].pc = "store" => call[u].self # c.from
    <3> TAKE u \in Task
    <3>1. CASE u = t
      BY <1>1, <3>1
    <3>2. CASE u # t
      BY <1>1, <2>1, <3>2, OthersUse
    <3> QED  BY <3>1, <3>2
  <2> QED  BY <1>c, <2>1, <2>2, HasStrings, HoldersNow
<1>k. \A x \in Cell : counter'[x] = IF x = o THEN counter[x] + 1 ELSE counter[x]
  BY <1>1, <1>2
<1>4. Discipline'
  BY <1>1, <1>3, DisciplineKept DEF VectorsInv
<1>5. Typed'
  <2>1. counter' \in [Cell -> Int]
    <3>1. CASE o \in Cell
      <4>1. counter' = [x \in Cell |-> IF x = o THEN counter[x] + 1 ELSE counter[x]]
        BY <1>1, <1>2, <3>1
      <4>2. \A x \in Cell : counter[x] + 1 \in Int
        BY <1>2
      <4> QED  BY <1>2, <4>1, <4>2
    <3>2. CASE o \notin Cell
      BY <1>1, <1>2, <3>2
    <3> QED  BY <3>1, <3>2
  <2>2. call' \in [Task -> Calls] /\ data' \in [Vector -> Ref]
    BY <1>1, <1>2, <1>3, <1>s
  <2> QED  BY <1>1, <2>1, <2>2 DEF VectorsInv, Typed
<1>6. CallShapes' /\ Others(t)
  <2>1. ASSUME NEW u \in Task \ {t} PROVE Undisturbed(call[u])
    <3>1. \A x \in live \ {o} : Same(x)
      BY <1>1 DEF Same
    <3>2. held \subseteq held' /\ \A x \in Cell \ {o} : counter'[x] = counter[x]
      BY <1>1, <1>k
    <3>3. v \notin {call[u].self, call[u].from}
      BY <1>1, OthersUse
    <3>4. o \in Cell => Same(o) /\ ~Relies(call[u], o)
      <4>1. ASSUME o \in Cell PROVE ~Relies(call[u], o)
        <5>1. c.from \in Vector /\ c.from \in Holders(o)
          BY <1>c, <4>1
        <5>2. c.from # u /\ call[u].self # c.from
          BY <1>1, <1>n, <5>1, OthersUse
        <5> QED  BY <4>1, <5>1, <5>2, NotRelied
      <4> QED  BY <1>1, <1>c, <4>1 DEF Same
    <3> QED  BY <1>1, <3>1, <3>2, <3>3, <3>4, <1>s, OthersObjects, ItemsHeld, UndisturbedBy
  <2> QED  BY <1>1, <1>3, <2>1, StepFrame
<1>7. LiveData' /\ RoomForItems' /\ LengthsBounded' /\ Deallocated'
  <2>1. o \in live \cup {Empty, Null}
    BY <1>s, <1>c DEF Ref
  <2> QED  BY <1>1, <1>d, <2>1 DEF VectorsInv, LiveData, RoomForItems, LengthsBounded, Deallocated
<1>8. NotEmpty'
  <2>1. ASSUME NEW w \in Vector, data'[w] \in Cell
        PROVE  \/ value'[data'[w]] # <<>>
               \/ data'[w] = data[w] /\ value'[data[w]] = value[data[w]]
    BY <1>1, <1>d, <1>c, <2>1
  <2>2. c.pc # "store"
    BY <1>1
  <2> QED  BY <1>1, <2>1, <2>2, NotEmptyStep
<1>9. ReleasedOnce'
  BY <1>1, <1>3, ReleasedOnceStep
<1>10. CountersExact' /\ NoVectorLost'
  <2>0. \A x : ~Owns(c, x)
    BY <1>1 DEF Owns
  <2>1. ASSUME NEW x \in Cell \ {o} PROVE Holders(x)' = Holders(x)
    <3>1. \A w \in Vector : data'[w] = x <=> data[w] = x
      BY <1>d, <1>s, <1>n, <2>1
    <3> QED  BY <1>1, <1>3, <2>0, <2>1, <3>1, HoldersKept DEF VectorsInv
  <2>2. ASSUME o \in Cell
        PROVE  counter'[o] = Cardinality(Holders(o)') /\ Holders(o)' # {}
    <3>1. v \notin Holders(o)
      BY <1>s, <1>n, <2>2, HoldersNow
    <3>2. \A w \in Vector : w \in Holders(o)' <=> w \in Holders(o) \/ w = v
      BY <1>d, <1>s, HoldersNow, HoldersNext
    <3>3. \A u \in Task : u \in Holders(o)' <=> u \in Holders(o)
      <4> TAKE u \in Task
      <4>1. Owns(call'[u], o) <=> Owns(call[u], o)
        <5>1. u # t => call'[u] = call[u]
          BY <1>1, <1>2
        <5>2. call'[t] = r
          BY <1>1, <1>2
        <5> QED  BY <1>3, <2>0, <5>1, <5>2
      <4> QED  BY <4>1, HoldersNow, HoldersNext
    <3>4. Holders(o)' \subseteq Vector \cup Task /\ Holders(o) \subseteq Vector \cup Task
      BY HoldersNow, HoldersNext
    <3> PICK H : H = Holders(o)
      OBVIOUS
    <3>5. Holders(o)' = H \cup {v}
      BY <1>s, <1>n, <3>2, <3>3, <3>4
    <3>6. IsFiniteSet(H) /\ v \notin H
      BY <3>1, HoldersFinite
    <3>7. counter[o] = Cardinality(H)
      BY <2>2 DEF VectorsInv, CountersExact
    <3> QED  BY <1>k, <2>2, <3>5, <3>6, <3>7, CardMore
  <2>3. live' \subseteq (live \cup {o}) \cap Cell /\ (o \in live' => o \in Cell)
    BY <1>1, <1>2
  <2>4. c.pc \notin {"strings", "free"} /\ \A x \in Cell \ {o} : counter'[x] = counter[x]
    BY <1>1, <1>k
  <2> QED  BY <1>1, <2>1, <2>2, <2>3, <2>4, CountersStep
<1> QED  BY <1>4, <1>5, <1>6, <1>7, <1>8, <1>9, <1>10 DEF VectorsInv

\* A store into a vector that the call is alone with.
LEMMA StoreKeeps ==
  ASSUME VectorsInv, NEW t \in Task, call[t].pc = "store",
         NEW items \in Seq(String), items # <<>>, Len(items) <= MaxLength,
         Len(items) <= last[data[call[t].self]] + 1,
         value' = [value EXCEPT ![data[call[t].self]] = items],
         NEW r \in Calls, call' = [call EXCEPT ![t] = r], CallShape(r)',
         r.pc \in {"idle", "refer", "spread"},
         r.self \in {call[t].self, Null}, r.from \in {call[t].from, Null},
         UNCHANGED <<data, live, counter, last, held>>,
         strings' \in [String -> Int]
  PROVE  VectorsInv' /\ Others(t)
<1> PICK c : c = call[t]
  OBVIOUS
<1> PICK o : o = data[c.self]
  OBVIOUS
<1>n. Empty \notin Cell /\ Null \notin Cell /\ Null \notin Vector /\ Task \cap Vector = {}
  BY VectorsAssumption
<1>2. /\ c \in Calls /\ CallShape(c) /\ live \subseteq Cell /\ last \in [Cell -> Nat]
      /\ value \in [Cell -> Seq(String)] /\ call \in [Task -> Calls]
  BY DEF VectorsInv, Typed, CallShapes
<1>s. c.self \in Vector /\ o \in live /\ counter[o] = 1
  BY <1>2 DEF CallShape, OperandShape, EditShape
<1>h. c.self \in Holders(o)
  BY <1>s, HoldersNow
<1>k. value'[o] = items /\ \A x \in Cell \ {o} : value'[x] = value[x]
  BY <1>2, <1>s
<1>1. Typed'
  <2>1. value' \in [Cell -> Seq(String)]
    BY <1>2, <1>s
  <2>2. call' \in [Task -> Calls]
    BY <1>2
  <2> QED  BY <2>1, <2>2 DEF VectorsInv, Typed
<1>3. Discipline'
  BY DisciplineKept DEF VectorsInv
<1>4. CallShapes' /\ Others(t)
  <2>1. ASSUME NEW u \in Task \ {t} PROVE Undisturbed(call[u])
    <3>1. \A x \in live \ {o} : Same(x)
      BY <1>2, <1>k DEF Same
    <3>2. held \subseteq held' /\ \A x \in Cell : counter'[x] = counter[x]
      OBVIOUS
    <3>3. ~Reads(call[u], o)
      <4>1. c.self # u /\ c.self # call[u].self /\ c.self # call[u].from
        BY <1>n, <1>s, OthersUse
      <4> QED  BY <1>2, <1>s, <1>h, <4>1, NotRead
    <3> QED  BY <3>1, <3>2, <3>3, ItemsHeld, UndisturbedBy
  <2> QED  BY <2>1, StepFrame
<1>5. LiveData' /\ RoomForItems' /\ LengthsBounded' /\ Deallocated' /\ ReleasedOnce'
  <2>1. LiveData'
    BY DEF VectorsInv, LiveData
  <2>2. RoomForItems'
    BY <1>2, <1>k DEF VectorsInv, RoomForItems
  <2>3. LengthsBounded'
    BY <1>2, <1>k DEF VectorsInv, LengthsBounded
  <2>4. Deallocated'
    BY <1>s, <1>k DEF VectorsInv, Deallocated
  <2>5. ReleasedOnce'
    BY ReleasedOnceStep
  <2> QED  BY <2>1, <2>2, <2>3, <2>4, <2>5
<1>6. NotEmpty'
  <2>1. ASSUME NEW w \in Vector, data'[w] \in Cell
        PROVE  \/ value'[data'[w]] # <<>>
               \/ /\ data'[w] = data[w] /\ value'[data[w]] = value[data[w]]
                  /\ c.pc = "store" => c.self # w
    BY <1>k, <2>1
  <2> QED  BY <2>1, NotEmptyStep
<1>7. CountersExact' /\ NoVectorLost'
  <2>o. ASSUME NEW x PROVE ~Owns(r, x) /\ ~Owns(c, x)
    BY DEF Owns
  <2>1. ASSUME NEW x \in Cell PROVE Holders(x)' = Holders(x)
    BY <2>o, HoldersKept DEF VectorsInv
  <2>2. live' \subseteq (live \cup {Null}) \cap Cell /\ Null \notin live'
    BY <1>2, <1>n
  <2> QED  BY <1>n, <2>1, <2>2, CountersStep
<1> QED  BY <1>1, <1>3, <1>4, <1>5, <1>6, <1>7 DEF VectorsInv

\* What a call that stores knows of its vector.
LEMMA StoringFacts ==
  ASSUME VectorsInv, NEW t \in Task, call[t].pc = "store"
  PROVE  /\ call[t] \in Calls /\ CallShape(call[t]) /\ call[t].i = 0
         /\ call[t].self \in Vector
         /\ data[call[t].self] \in Cell /\ data[call[t].self] \in live
         /\ value[data[call[t].self]] \in Seq(String)
         /\ Len(value[data[call[t].self]]) <= MaxLength
         /\ Len(value[data[call[t].self]]) <= last[data[call[t].self]] + 1
         /\ last[data[call[t].self]] \in Nat
         /\ call[t].op \in Edits
<1> PICK c : c = call[t]
  OBVIOUS
<1>1. /\ c \in Calls /\ CallShape(c) /\ live \subseteq Cell /\ value \in [Cell -> Seq(String)]
      /\ last \in [Cell -> Nat]
  BY DEF VectorsInv, Typed, CallShapes
<1>2. c.self \in Vector /\ data[c.self] \in live /\ c.op \in Edits /\ c.i = 0
  BY <1>1 DEF CallShape, OperandShape, EditShape, FitShape
<1> QED  BY <1>1, <1>2 DEF VectorsInv, RoomForItems, LengthsBounded

\* The shape of a call that has stored, and is to reference what it has stored.
LEMMA StoredCall ==
  ASSUME VectorsInv, NEW t \in Task, call[t].pc = "store",
         NEW r, NEW p,
         \/ p = "refer"  /\ call[t].op \in {"append", "replace"}
         \/ p = "spread" /\ call[t].op = "prepend",
         r = [call[t] EXCEPT !.pc = p, !.index = 0],
         UNCHANGED <<data, live, counter, held>>, StoredShape(r)'
  PROVE  /\ r \in Calls /\ r.pc = p /\ r.self = call[t].self /\ r.from = call[t].from
         /\ CallShape(r)'
<1> PICK c : c = call[t]
  OBVIOUS
<1>1. c \in Calls /\ CallShape(c)
  BY StoringFacts
<1>2. /\ r \in Calls /\ r.pc = p /\ r.op = c.op /\ r.self = c.self /\ r.from = c.from
      /\ r.item = c.item /\ r.other = c.other /\ r.source = c.source /\ r.target = c.target
      /\ p \in {"refer", "spread"}
  <2>1. p \in {"refer", "spread"} /\ r = [c EXCEPT !.pc = p, !.index = 0] /\ c \in Calls
    BY <1>1
  <2> QED  BY ONLY <2>1 DEF Calls
<1>3. OperandShape(r)' /\ ShareShape(r)' /\ EditShape(r)' /\ SliceShape(r)'
  BY <1>1, <1>2 DEF CallShape, OperandShape, ShareShape, EditShape, SliceShape, Edits
<1>4. FitShape(r)' /\ SourceShape(r)'
  BY <1>2 DEF FitShape, SourceShape, Leaving
<1> QED  BY <1>2, <1>3, <1>4 DEF CallShape

\* Append adds one string at the end.
LEMMA AppendedItems ==
  ASSUME NEW s \in Seq(String), NEW x \in String
  PROVE  /\ Append(s, x) \in Seq(String) /\ Len(Append(s, x)) = Len(s) + 1
         /\ \A k \in 1 .. Len(s) : Append(s, x)[k] = s[k]
         /\ Append(s, x)[Len(s) + 1] = x
OBVIOUS

\* z is s with x behind the first i.
IsInserted(z, s, i, x) ==
  /\ z \in Seq(String) /\ Len(z) = Len(s) + 1
  /\ \A k \in 1 .. i : z[k] = s[k]
  /\ z[i + 1] = x
  /\ \A k \in i + 1 .. Len(s) : z[k + 1] = s[k]

\* z is a and s behind it.
IsJoined(z, a, s) ==
  /\ z \in Seq(String) /\ Len(z) = Len(a) + Len(s)
  /\ \A k \in 1 .. Len(a) : z[k] = a[k]
  /\ \A k \in 1 .. Len(s) : z[Len(a) + k] = s[k]

\* Prepend puts the strings of the operand first.
LEMMA PrependedItems ==
  ASSUME NEW a, a \in Seq(String), NEW s, s \in Seq(String), NEW z, z = a \o s
  PROVE  IsJoined(z, a, s)
BY DEF IsJoined

\* Insert puts one string behind the first i.
LEMMA InsertedItems ==
  ASSUME NEW s, s \in Seq(String), NEW x, x \in String, NEW i, i \in Nat, i <= Len(s)
  PROVE  IsInserted(Inserted(s, i, x), s, i, x)
<1> DEFINE a == SubSeq(s, 1, i)
           b == SubSeq(s, i + 1, Len(s))
<1>1. a \in Seq(String) /\ Len(a) = i /\ \A k \in 1 .. i : a[k] = s[k]
  OBVIOUS
<1>2. /\ b \in Seq(String) /\ Len(b) = Len(s) - i
      /\ \A k \in 1 .. Len(s) - i : b[k] = s[k + i]
  OBVIOUS
<1>3. <<x>> \in Seq(String) /\ Len(<<x>>) = 1 /\ <<x>>[1] = x
  OBVIOUS
<1>4. Inserted(s, i, x) = a \o <<x>> \o b
  BY DEF Inserted
<1> HIDE DEF a, b
<1>5. /\ a \o <<x>> \in Seq(String) /\ Len(a \o <<x>>) = i + 1
      /\ \A k \in 1 .. i : (a \o <<x>>)[k] = s[k]
      /\ (a \o <<x>>)[i + 1] = x
  BY <1>1, <1>3
<1> PICK ab : ab = a \o <<x>>
  OBVIOUS
<1> PICK z : z = ab \o b
  OBVIOUS
<1>6. IsJoined(z, ab, b)
  BY <1>2, <1>5, PrependedItems
<1>7. /\ z \in Seq(String) /\ Len(z) = Len(s) + 1
      /\ \A k \in 1 .. i + 1 : z[k] = ab[k]
      /\ \A k \in 1 .. Len(s) - i : z[i + 1 + k] = b[k]
  <2>1. Len(ab) = i + 1 /\ Len(b) = Len(s) - i /\ Len(s) \in Nat
    BY <1>2, <1>5
  <2>2. /\ z \in Seq(String) /\ Len(z) = Len(ab) + Len(b)
        /\ \A k \in 1 .. Len(ab) : z[k] = ab[k]
        /\ \A k \in 1 .. Len(b) : z[Len(ab) + k] = b[k]
    BY <1>6 DEF IsJoined
  <2>3. Len(z) = Len(s) + 1
    BY ONLY <2>1, <2>2, i \in Nat
  <2> QED  BY <2>1, <2>2, <2>3
<1>8. \A k \in i + 1 .. Len(s) : z[k + 1] = s[k]
  <2> TAKE k \in i + 1 .. Len(s)
  <2>1. k - i \in 1 .. Len(s) - i /\ i + 1 + (k - i) = k + 1 /\ (k - i) + i = k
    OBVIOUS
  <2>2. z[k + 1] = b[k - i]
    BY <1>7, <2>1
  <2>3. b[k - i] = s[k]
    BY <1>2, <2>1
  <2> QED  BY <2>2, <2>3
<1>9. \A k \in 1 .. i : z[k] = s[k]
  BY <1>5, <1>7
<1>10. z[i + 1] = x
  BY <1>5, <1>7
<1>11. Inserted(s, i, x) = z
  BY <1>4
<1> QED  BY <1>7, <1>8, <1>9, <1>10, <1>11 DEF IsInserted

\* Append stores its string.
LEMMA StoreAppendedKeeps ==
  ASSUME VectorsInv, NEW t \in Task, StoreAppended(t)
  PROVE  VectorsInv' /\ Others(t)
<1> PICK c : c = call[t]
  OBVIOUS
<1> PICK o : o = data[c.self]
  OBVIOUS
<1>d. PICK items : items = Append(value[o], c.item)
  OBVIOUS
<1>r. PICK r : r = [c EXCEPT !.pc = "refer", !.index = 0]
  OBVIOUS
<1>1. /\ c.pc = "store" /\ c.op = "append"
      /\ value' = [value EXCEPT ![o] = items] /\ call' = [call EXCEPT ![t] = r]
      /\ UNCHANGED <<data, live, counter, last, strings, held>>
  BY <1>d, <1>r DEF StoreAppended, Storing, Store, Go
<1>2. /\ CallShape(c) /\ c.self \in Vector /\ o \in Cell
      /\ value[o] \in Seq(String) /\ last[o] \in Nat
  BY <1>1, StoringFacts
<1>3. c.item \in String /\ Len(value[o]) < MaxLength /\ Len(value[o]) <= last[o]
  BY <1>1, <1>2 DEF CallShape, EditShape, FitShape, Edits
<1>4. items \in Seq(String) /\ Len(items) = Len(value[o]) + 1 /\ items[Len(items)] = c.item
  <2>1. value[o] \in Seq(String) /\ c.item \in String
    BY <1>2, <1>3
  <2>2. /\ items \in Seq(String) /\ Len(items) = Len(value[o]) + 1
        /\ items[Len(value[o]) + 1] = c.item
    BY <1>d, <2>1, AppendedItems
  <2> QED  BY ONLY <2>2
<1>5. items # <<>> /\ Len(items) <= MaxLength /\ Len(items) <= last[o] + 1
  <2> PICK n, m, l : n = Len(value[o]) /\ m = Len(items) /\ l = last[o]
    OBVIOUS
  <2>1. n \in Nat /\ l \in Nat /\ MaxLength \in Nat
    BY <1>2, VectorsAssumption
  <2>2. m = n + 1 /\ n < MaxLength /\ n <= l
    BY <1>3, <1>4
  <2>3. m # 0 /\ m <= MaxLength /\ m <= l + 1
    BY ONLY <2>1, <2>2
  <2>4. items # <<>>
    BY <2>3
  <2> QED  BY <2>3, <2>4
<1>v. value'[o] = items
  BY <1>1, <1>2 DEF VectorsInv, Typed
<1>6. StoredShape(r)'
  <2>1. r.pc = "refer" /\ r.self = c.self /\ r.item = c.item
    BY <1>r, <1>1, StoringFacts DEF Calls
  <2>2. Len(items) \in 1 .. Len(items)
    <3>1. Len(value[o]) \in Nat
      BY <1>2
    <3>2. Len(items) = Len(value[o]) + 1
      BY <1>4
    <3> QED  BY ONLY <3>1, <3>2
  <2> QED  BY <1>1, <1>4, <1>v, <2>1, <2>2 DEF StoredShape
<1>7. /\ r \in Calls /\ r.pc = "refer" /\ r.self = c.self /\ r.from = c.from
      /\ CallShape(r)'
  BY <1>r, <1>1, <1>6, StoredCall
<1>8. strings' \in [String -> Int]
  BY <1>1 DEF VectorsInv, Typed
<1> QED  BY <1>1, <1>4, <1>5, <1>7, <1>8, StoreKeeps

\* Insert stores its string and ends.
LEMMA StoreInsertedKeeps ==
  ASSUME VectorsInv, NEW t \in Task, StoreInserted(t)
  PROVE  VectorsInv' /\ Others(t)
<1> PICK c : c = call[t]
  OBVIOUS
<1> PICK o : o = data[c.self]
  OBVIOUS
<1>d. PICK items : items = Inserted(value[o], c.index, c.item)
  OBVIOUS
<1>r. PICK r : r = Idle
  OBVIOUS
<1>1. /\ c.pc = "store" /\ c.op = "insert"
      /\ value' = [value EXCEPT ![o] = items] /\ call' = [call EXCEPT ![t] = r]
      /\ UNCHANGED <<data, live, counter, last, strings, held>>
  BY <1>d, <1>r DEF StoreInserted, Storing, Store, Go
<1>2. /\ c \in Calls /\ CallShape(c) /\ c.self \in Vector /\ o \in Cell
      /\ value[o] \in Seq(String) /\ last[o] \in Nat
  BY <1>1, StoringFacts
<1>3. /\ c.item \in String /\ Len(value[o]) < MaxLength /\ Len(value[o]) <= last[o]
      /\ c.index <= Len(value[o]) /\ c.index \in Nat
  BY <1>1, <1>2 DEF CallShape, EditShape, FitShape, Edits, Calls
<1>4. items \in Seq(String) /\ Len(items) = Len(value[o]) + 1
  <2>1. IsInserted(items, value[o], c.index, c.item)
    BY <1>d, <1>2, <1>3, InsertedItems
  <2> QED  BY <2>1 DEF IsInserted
<1>5. items # <<>> /\ Len(items) <= MaxLength /\ Len(items) <= last[o] + 1
  <2> PICK n, m, l : n = Len(value[o]) /\ m = Len(items) /\ l = last[o]
    OBVIOUS
  <2>1. n \in Nat /\ l \in Nat /\ MaxLength \in Nat
    BY <1>2, VectorsAssumption
  <2>2. m = n + 1 /\ n < MaxLength /\ n <= l
    BY <1>3, <1>4
  <2>3. m # 0 /\ m <= MaxLength /\ m <= l + 1
    BY ONLY <2>1, <2>2
  <2>4. items # <<>>
    BY <2>3
  <2> QED  BY <2>3, <2>4
<1>7. r \in Calls /\ r.pc = "idle" /\ r.self = Null /\ r.from = Null /\ CallShape(r)'
  BY <1>r, IdleShape
<1>8. strings' \in [String -> Int]
  BY <1>1 DEF VectorsInv, Typed
<1> QED  BY <1>1, <1>4, <1>5, <1>7, <1>8, StoreKeeps

\* Replace stores its string.
LEMMA StoreReplacedKeeps ==
  ASSUME VectorsInv, NEW t \in Task, StoreReplaced(t)
  PROVE  VectorsInv' /\ Others(t)
<1> PICK c : c = call[t]
  OBVIOUS
<1> PICK o : o = data[c.self]
  OBVIOUS
<1> PICK n : n = c.index + 1
  OBVIOUS
<1>1. c.pc = "store" /\ c.op = "replace"
  BY DEF StoreReplaced, Storing
<1>2. /\ c \in Calls /\ CallShape(c) /\ c.self \in Vector /\ o \in Cell
      /\ value[o] \in Seq(String) /\ last[o] \in Nat
      /\ Len(value[o]) <= MaxLength /\ Len(value[o]) <= last[o] + 1
  BY <1>1, StoringFacts
<1>3. c.item \in String /\ n \in 1 .. Len(value[o])
  <2>1. c.index \in Nat /\ c.index < Len(value[o])
    BY <1>1, <1>2 DEF CallShape, FitShape, Calls
  <2>2. Len(value[o]) \in Nat
    BY <1>2
  <2> QED  BY <1>1, <1>2, <2>1, <2>2 DEF CallShape, EditShape, Edits
<1>4. CASE value[o][n] = c.item
  <2>r. PICK r : r = Idle
    OBVIOUS
  <2>1. /\ value' = [value EXCEPT ![o] = value[o]] /\ call' = [call EXCEPT ![t] = r]
        /\ UNCHANGED <<data, live, counter, last, strings, held>>
    BY <1>4, <2>r DEF StoreReplaced, Store, Go
  <2>2. r \in Calls /\ r.pc = "idle" /\ r.self = Null /\ r.from = Null /\ CallShape(r)'
    BY <2>r, IdleShape
  <2>3. strings' \in [String -> Int] /\ value[o] # <<>>
    BY <1>2, <1>3, <2>1 DEF VectorsInv, Typed
  <2> QED  BY <1>1, <1>2, <2>1, <2>2, <2>3, StoreKeeps
<1>5. CASE value[o][n] # c.item
  <2>d. PICK items : items = [value[o] EXCEPT ![n] = c.item]
    OBVIOUS
  <2>r. PICK r : r = [c EXCEPT !.pc = "refer", !.index = 0]
    OBVIOUS
  <2>1. /\ value' = [value EXCEPT ![o] = items] /\ call' = [call EXCEPT ![t] = r]
        /\ UNCHANGED <<data, live, counter, last, held>>
        /\ strings' = [strings EXCEPT ![value[o][n]] = @ - 1]
    BY <1>5, <2>d, <2>r DEF StoreReplaced, Store, Go
  <2>2. items \in Seq(String) /\ Len(items) = Len(value[o]) /\ items[n] = c.item /\ items # <<>>
    <3>1. value[o] \in Seq(String) /\ c.item \in String /\ n \in 1 .. Len(value[o])
      BY <1>2, <1>3
    <3> QED  BY ONLY <2>d, <3>1
  <2>v. value'[o] = items
    BY <1>2, <2>1 DEF VectorsInv, Typed
  <2>3. StoredShape(r)'
    <3>1. r.pc = "refer" /\ r.self = c.self /\ r.item = c.item
      BY <1>2, <2>r DEF Calls
    <3>2. value'[data'[r.self]] = items /\ items[n] = r.item /\ n \in 1 .. Len(items)
      BY <1>3, <2>1, <2>2, <2>v, <3>1
    <3> QED  BY ONLY <3>1, <3>2 DEF StoredShape
  <2>4. /\ r \in Calls /\ r.pc = "refer" /\ r.self = c.self /\ r.from = c.from
        /\ CallShape(r)'
    BY <1>1, <2>r, <2>1, <2>3, StoredCall
  <2>5. strings' \in [String -> Int]
    BY <2>1, StringsInt
  <2> QED  BY <1>1, <1>2, <2>1, <2>2, <2>4, <2>5, StoreKeeps
<1> QED  BY <1>4, <1>5

\* Prepend stores the strings of its operand.
LEMMA StorePrependedKeeps ==
  ASSUME VectorsInv, NEW t \in Task, StorePrepended(t)
  PROVE  VectorsInv' /\ Others(t)
<1> PICK c : c = call[t]
  OBVIOUS
<1> PICK o : o = data[c.self]
  OBVIOUS
<1>d. PICK a : a = Items(c.other)
  OBVIOUS
<1>e. PICK items : items = a \o value[o]
  OBVIOUS
<1>r. PICK r : r = [c EXCEPT !.pc = "spread", !.index = 0]
  OBVIOUS
<1>1. /\ c.pc = "store" /\ c.op = "prepend"
      /\ value' = [value EXCEPT ![o] = items] /\ call' = [call EXCEPT ![t] = r]
      /\ UNCHANGED <<data, live, counter, last, strings, held>>
  BY <1>d, <1>e, <1>r DEF StorePrepended, Storing, Store, Go
<1>2. /\ c \in Calls /\ CallShape(c) /\ c.self \in Vector /\ o \in Cell
      /\ value[o] \in Seq(String) /\ last[o] \in Nat /\ c.i = 0 /\ counter[o] = 1
  BY <1>1, StoringFacts DEF CallShape, EditShape, Edits
<1>3. /\ c.from \in Vector /\ c.from # c.self /\ c.other \in Cell /\ c.other = data[c.from]
      /\ Len(value[o]) + Len(value[c.other]) <= MaxLength
      /\ Len(value[o]) + Len(value[c.other]) <= last[o] + 1
  BY <1>1, <1>2 DEF CallShape, OperandShape, EditShape, FitShape
<1>4. c.other # o
  <2>1. c.self \in Holders(o) /\ (c.other = o => c.from \in Holders(o))
    BY <1>2, <1>3, HoldersNow
  <2> QED  BY <1>2, <1>3, <2>1, SoleHolder
<1>5. a = value[c.other] /\ a \in Seq(String) /\ a # <<>>
  <2>1. value[c.other] # <<>>
    <3>1. \A u \in Task : call[u].pc = "store" => call[u].self # c.from
      BY <1>1, <1>3, OthersUse
    <3> QED  BY <1>3, <3>1, HasStrings
  <2> QED  BY <1>3, <1>d, <2>1 DEF Items, VectorsInv, Typed
<1>6. /\ items \in Seq(String) /\ Len(items) = Len(a) + Len(value[o])
      /\ \A k \in 1 .. Len(a) : items[k] = a[k]
  <2>1. IsJoined(items, a, value[o])
    BY <1>e, <1>2, <1>5, PrependedItems
  <2> QED  BY <2>1 DEF IsJoined
<1>7. items # <<>> /\ Len(items) <= MaxLength /\ Len(items) <= last[o] + 1 /\ Len(a) > 0
  <2>1. Len(a) \in Nat \ {0} /\ Len(value[o]) \in Nat
    <3>1. a \in Seq(String) /\ a # <<>> /\ value[o] \in Seq(String)
      BY <1>2, <1>5
    <3> QED  BY ONLY <3>1
  <2>2. items # <<>>
    BY <1>6, <2>1
  <2>3. Len(items) = Len(a) + Len(value[o])
    BY <1>6
  <2>4. /\ Len(value[o]) + Len(a) <= MaxLength
        /\ Len(value[o]) + Len(a) <= last[o] + 1
    BY <1>3, <1>5
  <2>5. last[o] \in Nat /\ MaxLength \in Nat
    BY <1>2, VectorsAssumption
  <2>6. Len(items) = Len(value[o]) + Len(a)
    BY ONLY <2>1, <2>3
  <2>7. Len(items) <= MaxLength /\ Len(items) <= last[o] + 1
    BY ONLY <2>4, <2>6
  <2>8. Len(a) > 0
    BY ONLY <2>1
  <2> QED  BY ONLY <2>2, <2>7, <2>8
<1>v. value'[o] = items /\ value'[c.other] = a
  BY <1>1, <1>2, <1>3, <1>4, <1>5 DEF VectorsInv, Typed
<1>8. StoredShape(r)'
  <2>1. r.pc = "spread" /\ r.self = c.self /\ r.other = c.other /\ r.i = 0
    BY <1>2, <1>r DEF Calls
  <2>2. Len(a) <= Len(items)
    <3>1. Len(a) \in Nat /\ Len(value[o]) \in Nat
      <4>1. a \in Seq(String) /\ value[o] \in Seq(String)
        BY <1>2, <1>5
      <4> QED  BY ONLY <4>1
    <3>2. Len(items) = Len(a) + Len(value[o])
      BY <1>6
    <3> QED  BY ONLY <3>1, <3>2
  <2>4. value'[data'[r.self]] = items /\ value'[r.other] = a
    BY <1>1, <1>v, <2>1
  <2>5. \A k \in 1 .. Len(a) : items[k] = a[k]
    BY <1>6
  <2>6. r.i < Len(a)
    BY <1>7, <2>1
  <2> QED  BY ONLY <2>1, <2>2, <2>4, <2>5, <2>6 DEF StoredShape
<1>9. /\ r \in Calls /\ r.pc = "spread" /\ r.self = c.self /\ r.from = c.from
      /\ CallShape(r)'
  BY <1>r, <1>1, <1>8, StoredCall
<1>10. strings' \in [String -> Int]
  BY <1>1 DEF VectorsInv, Typed
<1> QED  BY <1>1, <1>6, <1>7, <1>9, <1>10, StoreKeeps

\* What a call that makes a slice knows.
LEMMA SliceFacts ==
  ASSUME VectorsInv, NEW t \in Task, call[t].pc = "slice"
  PROVE  /\ call[t] \in Calls /\ CallShape(call[t])
         /\ call[t].self \in Vector /\ data[call[t].self] = Null
         /\ call[t].source \in Cell /\ call[t].target \in live /\ call[t].target \in Cell
         /\ counter[call[t].target] = 1 /\ call[t].target # call[t].source
         /\ t \in Holders(call[t].target)
         /\ value[call[t].source] \in Seq(String) /\ value[call[t].target] \in Seq(String)
         /\ call[t].i \in Nat /\ call[t].index \in Nat /\ last[call[t].target] \in Nat
         /\ call[t].i < call[t].index /\ call[t].index <= Len(value[call[t].source])
         /\ call[t].op = "slice"
<1> PICK c : c = call[t]
  OBVIOUS
<1>1. /\ c \in Calls /\ CallShape(c) /\ live \subseteq Cell /\ value \in [Cell -> Seq(String)]
      /\ last \in [Cell -> Nat]
  BY DEF VectorsInv, Typed, CallShapes
<1>2. /\ data[c.self] = Null /\ c.from \in Vector /\ c.source \in Cell /\ c.source = data[c.from]
      /\ c.target \in live /\ counter[c.target] = 1 /\ c.i < c.index
      /\ c.index <= Len(value[c.source]) /\ c.op = "slice" /\ c.self \in Vector
  BY <1>1 DEF CallShape, SliceShape, OperandShape
<1>3. t \in Holders(c.target) /\ c.from \in Holders(c.source)
  BY <1>2, HoldersNow DEF Owns
<1>4. c.target # c.source
  BY <1>1, <1>2, <1>3, SoleHolder, VectorsAssumption
<1>5. c.i \in Nat /\ c.index \in Nat
  BY <1>1 DEF Calls
<1> QED  BY <1>1, <1>2, <1>3, <1>4, <1>5

\* A string is added to a slice; with the last one, Self is declared.
LEMMA SliceStringKeeps ==
  ASSUME VectorsInv, NEW t \in Task, SliceString(t)
  PROVE  VectorsInv' /\ Others(t)
<1> PICK c : c = call[t]
  OBVIOUS
<1> PICK o : o = c.target
  OBVIOUS
<1>p. PICK s : s = Items(c.source)[c.i + 1]
  OBVIOUS
<1>q. PICK items : items = Append(value[o], s)
  OBVIOUS
<1>n. Empty \notin Cell /\ Null \notin Cell /\ Null \notin Vector /\ Task \cap Vector = {}
  BY VectorsAssumption
<1>0. c.pc = "slice"
  BY DEF SliceString
<1>2. /\ c \in Calls /\ CallShape(c) /\ c.self \in Vector /\ data[c.self] = Null
      /\ c.source \in Cell /\ o \in live /\ o \in Cell /\ counter[o] = 1 /\ o # c.source
      /\ t \in Holders(o) /\ value[o] \in Seq(String)
      /\ c.i \in Nat /\ c.index \in Nat /\ last[o] \in Nat /\ c.i < c.index
      /\ c.index <= Len(value[c.source]) /\ c.op = "slice"
  BY <1>0, SliceFacts
<1>t. /\ live \subseteq Cell /\ last \in [Cell -> Nat] /\ data \in [Vector -> Ref]
      /\ value \in [Cell -> Seq(String)] /\ call \in [Task -> Calls]
  BY DEF VectorsInv, Typed
<1>s. s \in String
  <2>1. c.i < Len(Items(c.source))
    <3>1. Items(c.source) = value[c.source] /\ Len(value[c.source]) \in Nat
      BY <1>2, <1>t DEF Items
    <3> QED  BY <1>2, <3>1
  <2> QED  BY <1>p, <1>2, <2>1, ItemIsString
<1>r. PICK r : r = IF c.i + 1 < c.index THEN [c EXCEPT !.i = @ + 1] ELSE Idle
  OBVIOUS
<1>1. /\ call' = [call EXCEPT ![t] = r]
      /\ value' = [value EXCEPT ![o] = items]
      /\ strings' = [strings EXCEPT ![s] = @ + 1]
      /\ UNCHANGED <<live, counter, last, held>>
      /\ \/ c.i + 1 < c.index /\ r = [c EXCEPT !.i = @ + 1] /\ data' = data
         \/ c.i + 1 = c.index /\ r = Idle /\ data' = [data EXCEPT ![c.self] = o]
  <2>1. /\ strings' = [strings EXCEPT ![s] = @ + 1]
        /\ value'   = [value EXCEPT ![o] = Append(@, s)]
        /\ \/ /\ c.i + 1 < c.index
              /\ Go(t, [c EXCEPT !.i = @ + 1])
              /\ UNCHANGED data
           \/ /\ c.i + 1 = c.index
              /\ data' = [data EXCEPT ![c.self] = o]
              /\ Go(t, Idle)
        /\ UNCHANGED <<live, counter, last, held>>
    BY <1>p DEF SliceString
  <2>2. value' = [value EXCEPT ![o] = items]
    BY <1>q, <1>2, <1>t, <2>1
  <2>3. ~(c.i + 1 = c.index /\ c.i + 1 < c.index)
    BY <1>2
  <2> QED  BY <1>r, <2>1, <2>2, <2>3 DEF Go
<1>i. /\ items \in Seq(String) /\ Len(items) = Len(value[o]) + 1 /\ Len(value[o]) \in Nat
      /\ items # <<>>
  BY <1>q, <1>2, <1>s, AppendedItems
<1>k. value'[o] = items /\ \A x \in Cell \ {o} : value'[x] = value[x]
  BY <1>1, <1>2, <1>t
<1>f. /\ Len(value[o]) + (c.index - c.i) <= MaxLength
      /\ Len(value[o]) + (c.index - c.i) <= last[o] + 1
  BY <1>0, <1>2 DEF CallShape, SliceShape
<1>l. Len(items) <= MaxLength /\ Len(items) <= last[o] + 1
  <2> PICK n : n = Len(value[o])
    OBVIOUS
  <2> PICK m : m = last[o]
    OBVIOUS
  <2>1. n \in Nat /\ m \in Nat /\ c.i \in Nat /\ c.index \in Nat /\ MaxLength \in Nat /\ c.i < c.index
    BY <1>2, <1>i, VectorsAssumption
  <2>2. n + (c.index - c.i) <= MaxLength /\ n + (c.index - c.i) <= m + 1
    BY <1>f
  <2>3. n + 1 <= MaxLength /\ n + 1 <= m + 1
    BY ONLY <2>1, <2>2
  <2> QED  BY <1>i, <2>3
<1>3. /\ r \in Calls /\ CallShape(r)' /\ r.pc \in {"slice", "idle"}
      /\ r.self \in {c.self, Null} /\ r.from \in {c.from, Null}
      /\ r.pc = "slice" => r.target = o /\ data' = data
      /\ r.pc = "idle" => data' = [data EXCEPT ![c.self] = o]
  <2>1. CASE c.i + 1 < c.index /\ r = [c EXCEPT !.i = @ + 1] /\ data' = data
    <3>1. r \in Calls /\ r.pc = "slice" /\ r.op = c.op /\ r.self = c.self /\ r.from = c.from
          /\ r.item = c.item /\ r.other = c.other /\ r.index = c.index /\ r.source = c.source
          /\ r.target = o /\ r.i = c.i + 1
      <4>1. c.i + 1 \in Nat /\ r = [c EXCEPT !.i = c.i + 1] /\ c \in Calls
        BY <1>2, <2>1
      <4>2. c.pc = "slice" /\ c.target = o
        BY <1>0
      <4>3. /\ r \in Calls /\ r.pc = c.pc /\ r.op = c.op /\ r.self = c.self
            /\ r.from = c.from /\ r.item = c.item
        BY ONLY <4>1 DEF Calls
      <4>4. /\ r.other = c.other /\ r.index = c.index /\ r.source = c.source
            /\ r.target = c.target /\ r.i = c.i + 1
        BY ONLY <4>1 DEF Calls
      <4> QED  BY ONLY <4>2, <4>3, <4>4
    <3>2. OperandShape(r)' /\ ShareShape(r)' /\ EditShape(r)'
      BY <1>0, <1>1, <1>2, <2>1, <3>1
      DEF CallShape, OperandShape, ShareShape, EditShape, Edits
    <3>3. FitShape(r)' /\ SourceShape(r)' /\ StoredShape(r)'
      BY <3>1 DEF FitShape, SourceShape, StoredShape, Leaving
    <3>4. SliceShape(r)'
      <4>1. /\ r.i < r.index
            /\ Len(items) + (r.index - r.i) <= MaxLength
            /\ Len(items) + (r.index - r.i) <= last[o] + 1
        <5> PICK n : n = Len(value[o])
          OBVIOUS
        <5> PICK m : m = last[o]
          OBVIOUS
        <5>1. n \in Nat /\ m \in Nat /\ c.i \in Nat /\ c.index \in Nat /\ MaxLength \in Nat
          BY <1>2, <1>i, VectorsAssumption
        <5>2. n + (c.index - c.i) <= MaxLength /\ n + (c.index - c.i) <= m + 1
          BY <1>f
        <5>3. c.i + 1 < c.index
          BY <2>1
        <5>4. /\ c.i + 1 < c.index /\ n + 1 + (c.index - (c.i + 1)) <= MaxLength
              /\ n + 1 + (c.index - (c.i + 1)) <= m + 1
          BY ONLY <5>1, <5>2, <5>3
        <5>5. Len(items) = n + 1 /\ r.i = c.i + 1 /\ r.index = c.index
          BY <1>i, <3>1
        <5>6. m = last[o]
          OBVIOUS
        <5> QED  BY ONLY <5>4, <5>5, <5>6
      <4>2. /\ r.pc = "slice" /\ r.op = "slice" /\ r.self = c.self /\ r.from = c.from
            /\ r.source = c.source /\ r.target = o /\ r.index = c.index
            /\ UNCHANGED <<data, live, counter, last>>
        BY <1>0, <1>1, <1>2, <2>1, <3>1
      <4>3. /\ data[c.self] = Null /\ c.from \in Vector /\ c.source = data[c.from]
            /\ c.source \in Cell /\ o \in live /\ counter[o] = 1
            /\ c.index <= Len(value[c.source])
        BY <1>0, <1>2 DEF CallShape, SliceShape
      <4>4. value'[o] = items /\ value'[c.source] = value[c.source]
        BY <1>2, <1>k
      <4> QED  BY ONLY <4>1, <4>2, <4>3, <4>4 DEF SliceShape
    <3> QED  BY <2>1, <3>1, <3>2, <3>3, <3>4 DEF CallShape
  <2>2. CASE c.i + 1 = c.index /\ r = Idle /\ data' = [data EXCEPT ![c.self] = o]
    <3>1. r \in Calls /\ r.pc = "idle" /\ r.self = Null /\ r.from = Null /\ CallShape(r)'
      BY <2>2, IdleShape
    <3> QED  BY <2>2, <3>1
  <2> QED  BY <1>1, <2>1, <2>2
<1>d. \/ r.pc = "slice" /\ data' = data
      \/ r.pc = "idle" /\ data'[c.self] = o /\ \A u \in Vector \ {c.self} : data'[u] = data[u]
  BY <1>2, <1>3, <1>t
<1>4. Discipline'
  BY <1>1, <1>3, DisciplineKept DEF VectorsInv
<1>5. Typed'
  <2>1. value' \in [Cell -> Seq(String)]
    BY <1>1, <1>t, <1>i
  <2>2. call' \in [Task -> Calls]
    BY <1>1, <1>3, <1>t
  <2>3. data' \in [Vector -> Ref]
    BY <1>2, <1>3, <1>t DEF Ref
  <2>4. strings' \in [String -> Int]
    BY <1>1, StringsInt
  <2> QED  BY <1>1, <2>1, <2>2, <2>3, <2>4 DEF VectorsInv, Typed
<1>6. CallShapes' /\ Others(t)
  <2>1. ASSUME NEW u \in Task \ {t} PROVE Undisturbed(call[u])
    <3>1. \A x \in live \ {o} : Same(x)
      BY <1>1, <1>k, <1>t DEF Same
    <3>2. held \subseteq held' /\ \A x \in Cell : counter'[x] = counter[x]
      BY <1>1
    <3>3. ~Reads(call[u], o)
      BY <1>2, <1>n, NotRead
    <3>4. /\ call[u].self \in Vector => data'[call[u].self] = data[call[u].self]
          /\ call[u].from \in Vector => data'[call[u].from] = data[call[u].from]
      <4>1. c.self \notin {call[u].self, call[u].from}
        BY <1>0, OthersUse
      <4> QED  BY <1>d, <4>1
    <3> QED  BY <3>1, <3>2, <3>3, <3>4, ItemsHeld, UndisturbedBy
  <2> QED  BY <1>1, <1>3, <2>1, StepFrame
<1>7. LiveData' /\ RoomForItems' /\ LengthsBounded' /\ Deallocated'
  <2>1. LiveData'
    BY <1>1, <1>2, <1>d DEF VectorsInv, LiveData
  <2>2. RoomForItems'
    BY <1>1, <1>k, <1>l, <1>t DEF VectorsInv, RoomForItems
  <2>3. LengthsBounded'
    BY <1>k, <1>l DEF VectorsInv, LengthsBounded
  <2>4. Deallocated'
    BY <1>1, <1>2, <1>k DEF VectorsInv, Deallocated
  <2> QED  BY <2>1, <2>2, <2>3, <2>4
<1>8. NotEmpty'
  <2>1. ASSUME NEW w \in Vector, data'[w] \in Cell
        PROVE  \/ value'[data'[w]] # <<>>
               \/ data'[w] = data[w] /\ value'[data[w]] = value[data[w]]
    BY <1>d, <1>i, <1>k, <2>1
  <2>2. c.pc # "store"
    BY <1>0
  <2> QED  BY <1>1, <2>1, <2>2, NotEmptyStep
<1>9. ReleasedOnce'
  BY <1>1, <1>3, ReleasedOnceStep
<1>10. CountersExact' /\ NoVectorLost'
  <2>o. ASSUME NEW x PROVE Owns(c, x) <=> x = o
    BY <1>0 DEF Owns
  <2>1. ASSUME NEW x \in Cell PROVE Cardinality(Holders(x)') = Cardinality(Holders(x))
    <3>1. CASE r.pc = "slice"
      <4>1. Owns(r, x) <=> Owns(c, x)
        BY <1>3, <2>o, <3>1 DEF Owns
      <4>2. data' = data
        BY <1>d, <3>1
      <4>3. Holders(x)' = Holders(x)
        BY <1>1, <4>1, <4>2, HoldersKept DEF VectorsInv
      <4> QED  BY <4>3
    <3>2. CASE r.pc = "idle" /\ x # o
      <4>1. ~Owns(r, x) /\ ~Owns(c, x)
        BY <2>o, <3>2 DEF Owns
      <4>2. \A w \in Vector : data'[w] = x <=> data[w] = x
        BY <1>2, <1>d, <1>n, <3>2
      <4>3. Holders(x)' = Holders(x)
        BY <1>1, <4>1, <4>2, HoldersKept DEF VectorsInv
      <4> QED  BY <4>3
    <3>3. CASE r.pc = "idle" /\ x = o
      <4>0. call'[t] = r /\ \A u \in Task \ {t} : call'[u] = call[u]
        BY <1>1, <1>t
      <4>1. c.self \notin Holders(o) /\ c.self \in Holders(o)'
        BY <1>2, <1>d, <1>n, <3>3, HoldersNow, HoldersNext
      <4>2. t \notin Holders(o)'
        BY <3>3, <4>0, HoldersNext DEF Owns
      <4>3. ASSUME NEW y \in Vector \cup Task, y \notin {t, c.self}
            PROVE  y \in Holders(o)' <=> y \in Holders(o)
        <5>1. CASE y \in Vector
          BY <1>d, <3>3, <4>3, <5>1, HoldersNow, HoldersNext
        <5>2. CASE y \in Task
          <6>1. Owns(call'[y], o) <=> Owns(call[y], o)
            BY <4>0, <4>3, <5>2
          <6> QED  BY <5>2, <6>1, HoldersNow, HoldersNext
        <5> QED  BY <5>1, <5>2
      <4> QED  BY <1>2, <3>3, <4>1, <4>2, <4>3, HolderReplaced
    <3> QED  BY <1>3, <3>1, <3>2, <3>3
  <2>2. live' \subseteq (live \cup {Null}) \cap Cell /\ Null \notin live'
    BY <1>1, <1>t, <1>n
  <2>3. c.pc \notin {"strings", "free"} /\ \A x \in Cell : counter'[x] = counter[x]
    BY <1>0, <1>1
  <2>4. call' = [call EXCEPT ![t] = r] /\ Null \notin Cell
    BY <1>1, <1>n
  <2>5. \A x \in Cell \ {Null} :
          counter'[x] = counter[x] /\ Cardinality(Holders(x)') = Cardinality(Holders(x))
    BY <2>1, <2>3
  <2> QED  BY <2>2, <2>3, <2>4, <2>5, CountersStep
<1> QED  BY <1>4, <1>5, <1>6, <1>7, <1>8, <1>9, <1>10 DEF VectorsInv

\* A vector that is not allocated is nobody's.
LEMMA FreshVector ==
  ASSUME VectorsInv, NEW o \in Cell, o \notin live
  PROVE  /\ Holders(o) = {}
         /\ \A u \in Task : ~Reads(call[u], o) /\ ~Relies(call[u], o)
<1>n. Empty \notin Cell /\ Null \notin Cell
  BY VectorsAssumption
<1>1. \A u \in Task : ~Reads(call[u], o)
  BY ReadsLive
<1>2. \A u \in Task : Relies(call[u], o) => Reads(call[u], o)
  BY DEF Relies, Reads, Leaving
<1>3. \A v \in Vector : data[v] # o
  BY <1>n DEF VectorsInv, LiveData
<1>4. \A u \in Task : Owns(call[u], o) => Reads(call[u], o)
  BY DEF Owns, Reads, Leaving
<1> QED  BY <1>1, <1>2, <1>3, <1>4, HoldersNow

\* Allocate makes one vector, with room for what is asked for.
LEMMA AllocateKeeps ==
  ASSUME VectorsInv, NEW o \in Cell, NEW size \in Nat, NEW s, s \in Seq(String),
         Len(s) <= size, Len(s) <= MaxLength, Allocate(o, size, s)
  PROVE  /\ o \notin live /\ live' = live \cup {o} /\ live' \subseteq Cell
         /\ counter' \in [Cell -> Int] /\ last' \in [Cell -> Nat]
         /\ value' \in [Cell -> Seq(String)]
         /\ counter'[o] = 1 /\ last'[o] >= size /\ value'[o] = s
         /\ \A x \in Cell \ {o} :
              counter'[x] = counter[x] /\ last'[x] = last[x] /\ value'[x] = value[x]
         /\ RoomForItems' /\ LengthsBounded' /\ Deallocated'
<1>1. /\ o \notin live /\ live' = live \cup {o}
      /\ counter' = [counter EXCEPT ![o] = 1]
      /\ last'    = [last    EXCEPT ![o] = AlignedSize(size)]
      /\ value'   = [value   EXCEPT ![o] = s]
  BY DEF Allocate
<1>2. AlignedSize(size) \in Nat /\ AlignedSize(size) >= size
  BY AlignedSizeRoom
<1>3. /\ counter \in [Cell -> Int] /\ last \in [Cell -> Nat] /\ live \subseteq Cell
      /\ value \in [Cell -> Seq(String)]
  BY DEF VectorsInv, Typed
<1> PICK a : a = AlignedSize(size)
  OBVIOUS
<1>4. counter' \in [Cell -> Int] /\ last' \in [Cell -> Nat] /\ live' \subseteq Cell
  BY <1>1, <1>2, <1>3
<1>5. value' \in [Cell -> Seq(String)]
  BY <1>1, <1>3
<1>6. counter'[o] = 1 /\ last'[o] = a /\ value'[o] = s
  BY <1>1, <1>3
<1>7. \A x \in Cell \ {o} :
        counter'[x] = counter[x] /\ last'[x] = last[x] /\ value'[x] = value[x]
  BY <1>1, <1>3
<1>8. RoomForItems'
  <2>1. ASSUME NEW x \in live' PROVE Len(value'[x]) <= last'[x] + 1
    <3>1. CASE x = o
      <4>1. Len(s) \in Nat /\ a \in Nat /\ a >= size
        BY <1>2
      <4>2. Len(s) <= a + 1
        BY <4>1
      <4> QED  BY <1>6, <3>1, <4>2
    <3>2. CASE x # o
      <4>1. x \in live /\ x \in Cell
        BY <1>1, <1>3, <2>1, <3>2
      <4> QED  BY <1>7, <3>2, <4>1 DEF VectorsInv, RoomForItems
    <3> QED  BY <3>1, <3>2
  <2> QED  BY <2>1 DEF RoomForItems
<1>9. LengthsBounded' /\ Deallocated'
  BY <1>1, <1>6, <1>7 DEF VectorsInv, LengthsBounded, Deallocated
<1> QED  BY <1>1, <1>2, <1>4, <1>5, <1>6, <1>7, <1>8, <1>9

\* A slice begins: its vector is the call's until Self is declared.
LEMMA DeclareSliceKeeps ==
  ASSUME VectorsInv, NEW t \in Task, NEW v \in Vector, NEW w \in Vector,
         NEW first \in Nat, NEW final \in Nat, DeclareSlice(t, v, w, first, final)
  PROVE  VectorsInv' /\ Others(t)
<1>n. Empty \notin Cell /\ Null \notin Cell /\ Null \notin Vector /\ Null \notin String
      /\ Task \cap Vector = {}
  BY VectorsAssumption
<1>o. PICK o \in Cell :
       /\ Allocate(o, final - first, <<>>)
       /\ Go(t, [Idle EXCEPT !.pc = "slice", !.op = "slice", !.self = v, !.from = w,
                             !.source = data[w], !.target = o, !.index = final,
                             !.i = first])
  BY DEF DeclareSlice
<1>r. PICK r : r = [Idle EXCEPT !.pc = "slice", !.op = "slice", !.self = v, !.from = w,
                                !.source = data[w], !.target = o, !.index = final,
                                !.i = first]
  OBVIOUS
<1>1. /\ MayWrite(t, v) /\ data[v] = Null /\ MayRead(t, w) /\ data[w] # Null
      /\ first < final /\ final <= Len(Items(data[w]))
      /\ call' = [call EXCEPT ![t] = r]
      /\ UNCHANGED <<data, strings, held>>
  BY <1>o, <1>r DEF DeclareSlice, Go, MayRead
<1>t. /\ data \in [Vector -> Ref] /\ call \in [Task -> Calls] /\ live \subseteq Cell
      /\ value \in [Cell -> Seq(String)]
  BY DEF VectorsInv, Typed
<1>p. call[t].pc = "idle"
  BY <1>1 DEF MayWrite
<1>2. data[w] \in Cell /\ Items(data[w]) = value[data[w]] /\ w # v
  <2>1. Len(Items(data[w])) > 0 => data[w] \in Cell
    BY DEF Items
  <2>2. data[w] \in Cell => Len(value[data[w]]) \in Nat
    BY <1>t
  <2>3. data[w] \in Cell
    BY <1>1, <2>1 DEF Items
  <2> QED  BY <1>1, <2>3 DEF Items
<1>3. /\ data[w] \in live /\ value[data[w]] \in Seq(String)
      /\ Len(value[data[w]]) \in Nat /\ Len(value[data[w]]) <= MaxLength
      /\ final <= Len(value[data[w]])
  BY <1>1, <1>2, <1>n, <1>t DEF VectorsInv, LiveData, LengthsBounded
<1>a. /\ o \notin live /\ live' = live \cup {o} /\ live' \subseteq Cell
      /\ counter' \in [Cell -> Int] /\ last' \in [Cell -> Nat]
      /\ value' \in [Cell -> Seq(String)]
      /\ counter'[o] = 1 /\ last'[o] >= final - first /\ value'[o] = <<>>
      /\ \A x \in Cell \ {o} :
           counter'[x] = counter[x] /\ last'[x] = last[x] /\ value'[x] = value[x]
      /\ RoomForItems' /\ LengthsBounded' /\ Deallocated'
  <2>1. final - first \in Nat
    BY <1>1
  <2>2. <<>> \in Seq(String) /\ Len(<<>>) <= final - first /\ Len(<<>>) <= MaxLength
    BY <2>1, VectorsAssumption
  <2> PICK e : e = <<>>
    OBVIOUS
  <2> QED  BY <1>o, <2>1, <2>2, AllocateKeeps
<1>4. /\ r \in Calls /\ r.pc = "slice" /\ r.op = "slice" /\ r.self = v /\ r.from = w
      /\ r.item = Null /\ r.source = data[w] /\ r.target = o /\ r.index = final /\ r.i = first
  <2>1. Idle \in Calls
    BY DEF Idle, Calls, Ref
  <2>2. data[w] \in Ref /\ o \in Ref
    BY <1>t DEF Ref
  <2> QED  BY <2>1, <2>2, <1>r DEF Idle, Calls
<1>5. CallShape(r)'
  <2>1. OperandShape(r)' /\ ShareShape(r)' /\ EditShape(r)'
    BY <1>1, <1>2, <1>4, <1>n DEF OperandShape, ShareShape, EditShape, Edits
  <2>2. FitShape(r)' /\ SourceShape(r)' /\ StoredShape(r)'
    BY <1>4 DEF FitShape, SourceShape, StoredShape, Leaving
  <2>3. SliceShape(r)'
    <3>1. value'[data[w]] = value[data[w]]
      BY <1>2, <1>3, <1>a
    <3>2. last'[o] \in Nat
      BY <1>a
    <3>3. 0 + (final - first) <= MaxLength /\ 0 + (final - first) <= last'[o] + 1
      <4> PICK n, l : n = Len(value[data[w]]) /\ l = last'[o]
        OBVIOUS
      <4>1. /\ first < final /\ final <= n /\ n <= MaxLength /\ l >= final - first
            /\ n \in Nat /\ l \in Nat /\ MaxLength \in Nat /\ first \in Nat /\ final \in Nat
        BY <1>1, <1>3, <1>a, <3>2, VectorsAssumption
      <4>2. 0 + (final - first) <= MaxLength /\ 0 + (final - first) <= l + 1
        BY ONLY <4>1
      <4> QED  BY <4>2
    <3>4. Len(value'[o]) = 0
      BY <1>a
    <3> QED  BY <1>1, <1>2, <1>3, <1>4, <1>a, <3>1, <3>3, <3>4 DEF SliceShape
  <2> QED  BY <2>1, <2>2, <2>3 DEF CallShape
<1>6. Discipline'
  BY <1>1, <1>4, StartDiscipline
<1>7. Typed'
  BY <1>1, <1>t, <1>a, <1>4 DEF VectorsInv, Typed
<1>8. CallShapes' /\ Others(t)
  <2>1. ASSUME NEW u \in Task \ {t} PROVE Undisturbed(call[u])
    <3>1. \A x \in live \ {o} : Same(x)
      BY <1>a, <1>t DEF Same
    <3>2. held \subseteq held' /\ \A x \in Cell \ {o} : counter'[x] = counter[x]
      BY <1>1, <1>a
    <3>3. ~Reads(call[u], o) /\ ~Relies(call[u], o)
      BY <1>a, FreshVector
    <3> QED  BY <1>1, <3>1, <3>2, <3>3, ItemsHeld, UndisturbedBy
  <2> QED  BY <1>1, <1>5, <2>1, StepFrame
<1>9. LiveData'
  BY <1>1, <1>a DEF VectorsInv, LiveData
<1>10. NotEmpty'
  <2>1. ASSUME NEW x \in Vector, data'[x] \in Cell
        PROVE  data'[x] = data[x] /\ value'[data[x]] = value[data[x]]
    BY <1>1, <1>a, <1>n, <2>1 DEF VectorsInv, LiveData
  <2> QED  BY <1>1, <1>p, <2>1, NotEmptyStep
<1>11. ReleasedOnce'
  BY <1>1, <1>4, ReleasedOnceStep
<1>12. CountersExact' /\ NoVectorLost'
  <2>0. call'[t] = r /\ \A u \in Task \ {t} : call'[u] = call[u]
    BY <1>1, <1>t
  <2>1. ASSUME NEW x \in Cell \ {o} PROVE Holders(x)' = Holders(x)
    <3>1. Owns(r, x) <=> Owns(call[t], x)
      BY <1>4, <1>p, <2>1 DEF Owns
    <3> QED  BY <1>1, <3>1, HoldersKept DEF VectorsInv
  <2>2. Holders(o)' = {t}
    <3>1. \A x \in Vector : x \notin Holders(o)'
      <4>1. \A x \in Vector : data[x] # o
        BY <1>a, FreshVector, HoldersNow
      <4> QED  BY <1>1, <4>1, HoldersNext
    <3>2. \A u \in Task : u \in Holders(o)' <=> u = t
      <4> TAKE u \in Task
      <4>1. CASE u = t
        <5>1. Owns(call'[t], o)
          BY <1>4, <2>0 DEF Owns
        <5> QED  BY <4>1, <5>1, HoldersNext
      <4>2. CASE u # t
        <5>1. ~Owns(call[u], o)
          BY <1>a, FreshVector, HoldersNow
        <5>2. ~Owns(call'[u], o)
          BY <2>0, <4>2, <5>1
        <5> QED  BY <4>2, <5>2, HoldersNext
      <4> QED  BY <4>1, <4>2
    <3>3. Holders(o)' \subseteq Vector \cup Task
      BY HoldersNext
    <3> QED  BY <3>1, <3>2, <3>3
  <2>3. counter'[o] = Cardinality(Holders(o)')
    BY <1>a, <2>2, FS_Singleton
  <2>4. live' \subseteq (live \cup {o}) \cap Cell /\ call[t].pc \notin {"strings", "free"}
    BY <1>a, <1>p
  <2>5. \A x \in Cell \ {o} :
          counter'[x] = counter[x] /\ Cardinality(Holders(x)') = Cardinality(Holders(x))
    BY <1>a, <2>1
  <2> QED  BY <1>1, <2>2, <2>3, <2>4, <2>5, CountersStep
<1> QED  BY <1>a, <1>6, <1>7, <1>8, <1>9, <1>10, <1>11, <1>12 DEF VectorsInv

\* The edit c is ready for Detach to give its object a vector for size strings.
Ready(c, size) ==
  /\ c \in Calls /\ c.op \in Edits /\ c.self \in Vector /\ data[c.self] # Null
  /\ c.target = Null /\ c.i = 0 /\ size \in Nat
  /\ c.from \in Vector => c.from # c.self /\ data[c.from] # Null
  /\ c.item \in String => c.item \in held
  /\ c.op # "prepend" => c.item \in String
  /\ c.op = "prepend" =>
       /\ c.from \in Vector /\ c.other \in Cell /\ c.other = data[c.from]
       /\ Len(Items(data[c.self])) + Len(value[c.other]) <= MaxLength
       /\ Len(Items(data[c.self])) + Len(value[c.other]) <= size
  /\ Len(Items(data[c.self])) <= size
  /\ c.op \in {"append", "insert"} => Len(Items(data[c.self])) < MaxLength
  /\ c.op = "insert"  => c.index <= Len(Items(data[c.self]))
  /\ c.op = "replace" => c.index < Len(Items(data[c.self]))

\* Detach finds the vector reusable.
LEMMA DetachReuses ==
  ASSUME VectorsInv, NEW t \in Task, NEW c, NEW size, Ready(c, size),
         call[t].pc \in {"idle", "detach"}, Suffices(data[c.self], size),
         NEW r, r = [c EXCEPT !.pc = "store"], call' = [call EXCEPT ![t] = r],
         UNCHANGED <<data, live, counter, last, value, strings, held>>, Discipline'
  PROVE  VectorsInv' /\ Others(t)
<1> PICK o : o = data[c.self]
  OBVIOUS
<1>n. Empty \notin Cell /\ Null \notin Cell
  BY VectorsAssumption
<1>1. /\ o \in Cell /\ o \in live /\ counter[o] = 1 /\ last[o] >= size /\ last[o] \in Nat
      /\ Items(o) = value[o] /\ Len(value[o]) \in Nat
  <2>1. o \in Cell /\ last[o] >= size /\ counter[o] = 1
    BY DEF Suffices
  <2>2. o \in live
    BY <1>n, <2>1 DEF VectorsInv, LiveData, Ready
  <2> QED  BY <2>1, <2>2 DEF Items, VectorsInv, Typed
<1>2. /\ r \in Calls /\ r.pc = "store" /\ r.op = c.op /\ r.self = c.self /\ r.from = c.from
      /\ r.item = c.item /\ r.other = c.other /\ r.index = c.index /\ r.target = Null
      /\ r.i = 0 /\ c.op \in Edits
  BY DEF Ready, Calls
<1>3. CallShape(r)'
  <2>a. OperandShape(r)'
    BY <1>2 DEF Ready, OperandShape, Edits
  <2>b. ShareShape(r)' /\ SliceShape(r)'
    BY <1>2 DEF ShareShape, SliceShape, Edits
  <2>c. EditShape(r)'
    <3>1. data'[r.self] = o /\ o \in live' /\ counter'[o] = 1 /\ data'[r.from] = data[c.from]
      BY <1>1, <1>2
    <3>2. r.op = "prepend" => r.from \in Vector /\ r.other \in Cell /\ r.other = data'[r.from]
      BY <1>2, <3>1 DEF Ready
    <3>3. r.op # "prepend" => r.item \in String
      BY <1>2 DEF Ready
    <3> QED  BY <1>2, <3>1, <3>2, <3>3 DEF EditShape, Edits
  <2>2. SourceShape(r)' /\ StoredShape(r)'
    BY <1>2 DEF SourceShape, StoredShape, Leaving
  <2>3. FitShape(r)'
    <3>1. /\ c.op \in {"append", "insert"} => Len(value[o]) < MaxLength
          /\ Len(value[o]) <= last[o]
          /\ c.op = "insert"  => c.index <= Len(value[o])
          /\ c.op = "replace" => c.index < Len(value[o])
      BY <1>1 DEF Ready
    <3>2. c.op = "prepend" => /\ Len(value[o]) + Len(value[c.other]) <= MaxLength
                              /\ Len(value[o]) + Len(value[c.other]) <= last[o] + 1
      <4>1. SUFFICES ASSUME c.op = "prepend"
                     PROVE  /\ Len(value[o]) + Len(value[c.other]) <= MaxLength
                            /\ Len(value[o]) + Len(value[c.other]) <= last[o] + 1
        OBVIOUS
      <4> PICK n : n = Len(value[o])
        OBVIOUS
      <4> PICK m : m = Len(value[c.other])
        OBVIOUS
      <4>2. n + m <= MaxLength /\ n + m <= size /\ size \in Nat
        BY <1>1, <4>1 DEF Ready
      <4>3. m \in Nat /\ n \in Nat
        BY <1>1, <4>1 DEF Ready, VectorsInv, Typed
      <4>4. n + m <= last[o] + 1
        <5> PICK l : l = last[o]
          OBVIOUS
        <5>1. l \in Nat /\ l >= size /\ size \in Nat /\ n + m <= size /\ n \in Nat /\ m \in Nat
          BY <1>1, <4>2, <4>3
        <5>2. n + m <= l + 1
          BY ONLY <5>1
        <5> QED  BY <5>2
      <4> QED  BY <4>2, <4>4
    <3> QED  BY <1>2, <3>1, <3>2 DEF FitShape
  <2> QED  BY <2>a, <2>b, <2>c, <2>2, <2>3 DEF CallShape
<1>4. \A x \in Cell : Owns(r, x) <=> Owns(call[t], x)
  BY <1>2 DEF Owns
<1>5. strings' \in [String -> Int] /\ held' \subseteq String /\ held \subseteq held'
  BY DEF VectorsInv, Typed
<1> QED  BY <1>2, <1>3, <1>4, <1>5, CallOnly

\* Detach allocates a vector, and the call has the old one.
LEMMA DetachAllocates ==
  ASSUME VectorsInv, NEW t \in Task, NEW c, NEW size, Ready(c, size),
         call[t].pc \in {"idle", "detach"},
         \A u \in Task \ {t} : c.self \notin {call[u].self, call[u].from},
         NEW o \in Cell, Allocate(o, size, Items(data[c.self])),
         data' = [data EXCEPT ![c.self] = o],
         NEW r,
         r = IF data[c.self] = Empty THEN [c EXCEPT !.pc = "store"]
                                     ELSE [c EXCEPT !.pc = "look", !.source = data[c.self]],
         call' = [call EXCEPT ![t] = r],
         UNCHANGED <<strings, held>>, Discipline'
  PROVE  VectorsInv' /\ Others(t)
<1> PICK v : v = c.self
  OBVIOUS
<1> PICK s : s = data[v]
  OBVIOUS
<1>n. /\ Empty \notin Cell /\ Null \notin Cell /\ Null \notin Vector /\ Task \cap Vector = {}
      /\ MaxLength \in Nat
  BY VectorsAssumption
<1>t. /\ data \in [Vector -> Ref] /\ call \in [Task -> Calls] /\ live \subseteq Cell
      /\ value \in [Cell -> Seq(String)]
  BY DEF VectorsInv, Typed
<1>1. /\ v \in Vector /\ s # Null /\ c.op \in Edits /\ c \in Calls /\ size \in Nat
      /\ c.target = Null /\ c.i = 0
  BY DEF Ready
<1>s. s = Empty \/ (s \in live /\ s \in Cell /\ Items(s) = value[s] /\ value[s] # <<>>)
  <2>1. ASSUME s \in Cell PROVE s \in live /\ value[s] # <<>>
    <3>1. \A u \in Task : call[u].pc = "store" => call[u].self # v
      OBVIOUS
    <3> QED  BY <1>1, <2>1, <3>1, HasStrings
  <2>2. s \in Cell \/ s = Empty
    BY <1>1, <1>t DEF Ref
  <2> QED  BY <2>1, <2>2 DEF Items
<1>i. /\ Items(s) \in Seq(String) /\ Len(Items(s)) \in Nat /\ Len(Items(s)) <= size
      /\ Len(Items(s)) <= MaxLength
  <2>1. CASE s = Empty
    <3>1. Items(s) = <<>>
      BY <1>n, <2>1 DEF Items
    <3> QED  BY <1>1, <1>n, <3>1
  <2>2. CASE s \in Cell
    BY <1>t, <2>2 DEF Items, Ready, VectorsInv, LengthsBounded
  <2> QED  BY <1>s, <2>1, <2>2
<1>a. /\ o \notin live /\ live' = live \cup {o} /\ live' \subseteq Cell
      /\ counter' \in [Cell -> Int] /\ last' \in [Cell -> Nat]
      /\ value' \in [Cell -> Seq(String)]
      /\ counter'[o] = 1 /\ last'[o] >= size /\ value'[o] = Items(s)
      /\ \A x \in Cell \ {o} :
           counter'[x] = counter[x] /\ last'[x] = last[x] /\ value'[x] = value[x]
      /\ RoomForItems' /\ LengthsBounded' /\ Deallocated'
  BY <1>1, <1>i, AllocateKeeps
<1>d. data'[v] = o /\ \A x \in Vector \ {v} : data'[x] = data[x]
  BY <1>1, <1>t
<1>o. s # o
  BY <1>a, <1>n, <1>s
<1>2. /\ r \in Calls /\ r.op = c.op /\ r.self = v /\ r.from = c.from
      /\ r.item = c.item /\ r.other = c.other /\ r.index = c.index /\ r.target = Null
      /\ r.i = 0
      /\ \/ r.pc = "store" /\ s = Empty
         \/ r.pc = "look" /\ r.source = s /\ s \in live /\ s \in Cell
  <2>1. CASE s = Empty
    <3>1. r = [c EXCEPT !.pc = "store"]
      BY <2>1
    <3> QED  BY <1>1, <2>1, <3>1 DEF Calls
  <2>2. CASE s # Empty
    <3>1. r = [c EXCEPT !.pc = "look", !.source = s]
      BY <2>2
    <3>2. s \in Ref /\ s \in live /\ s \in Cell
      BY <1>s, <2>2 DEF Ref
    <3>3. c \in Calls /\ c.target = Null /\ c.i = 0
      BY <1>1
    <3>4. /\ r \in Calls /\ r.op = c.op /\ r.self = c.self /\ r.from = c.from
          /\ r.item = c.item /\ r.other = c.other /\ r.index = c.index /\ r.target = Null
          /\ r.i = 0 /\ r.pc = "look" /\ r.source = s
      BY ONLY <3>1, <3>2, <3>3 DEF Calls
    <3> QED  BY <3>2, <3>4
  <2> QED  BY <2>1, <2>2
<1>3. CallShape(r)'
  <2>1. OperandShape(r)'
    <3>1. c.from \in Vector => c.from # v /\ data'[c.from] # Null
      BY <1>d DEF Ready
    <3> QED  BY <1>1, <1>2, <3>1 DEF Ready, OperandShape, Edits
  <2>2. ShareShape(r)' /\ SliceShape(r)'
    BY <1>1, <1>2 DEF ShareShape, SliceShape, Edits
  <2>3. EditShape(r)'
    <3>1. c.op = "prepend" =>
            c.from \in Vector /\ c.other \in Cell /\ c.other = data'[c.from]
      BY <1>d DEF Ready
    <3>2. c.op # "prepend" => c.item \in String
      BY DEF Ready
    <3> QED  BY <1>1, <1>2, <1>a, <1>d, <3>1, <3>2 DEF EditShape, Edits
  <2>4. StoredShape(r)'
    BY <1>2 DEF StoredShape
  <2>5. SourceShape(r)'
    BY <1>2, <1>a, <1>d, <1>s, <1>o DEF SourceShape, Leaving
  <2>6. FitShape(r)'
    <3> PICK n : n = Len(Items(s))
      OBVIOUS
    <3>1. Len(value'[data'[v]]) = n /\ n \in Nat
      BY <1>a, <1>d, <1>i
    <3>2. /\ c.op \in {"append", "insert"} => n < MaxLength
          /\ n <= size
          /\ c.op = "insert"  => c.index <= n
          /\ c.op = "replace" => c.index < n
          /\ c.op = "prepend" => /\ n + Len(value[c.other]) <= MaxLength
                                 /\ n + Len(value[c.other]) <= size
      BY DEF Ready
    <3>3. last'[data'[v]] \in Nat /\ last'[data'[v]] >= size
      BY <1>a, <1>d
    <3>4. n <= last'[data'[v]]
      BY <1>1, <3>1, <3>2, <3>3
    <3>5. c.op = "prepend" =>
            /\ n + Len(value'[c.other]) <= MaxLength
            /\ n + Len(value'[c.other]) <= last'[data'[v]] + 1
      <4>1. SUFFICES ASSUME c.op = "prepend"
                     PROVE  /\ n + Len(value'[c.other]) <= MaxLength
                            /\ n + Len(value'[c.other]) <= last'[data'[v]] + 1
        OBVIOUS
      <4>2. c.from \in Vector /\ c.other \in Cell /\ c.other = data[c.from]
        BY <4>1 DEF Ready
      <4>3. c.other \in live
        BY <1>n, <4>2 DEF VectorsInv, LiveData
      <4> PICK m : m = Len(value[c.other])
        OBVIOUS
      <4>4. Len(value'[c.other]) = m /\ m \in Nat
        <5>1. value'[c.other] = value[c.other]
          BY <1>a, <4>2, <4>3
        <5> QED  BY <1>t, <4>2, <5>1
      <4>5. n + m <= MaxLength /\ n + m <= size
        BY <3>2, <4>1
      <4>6. n + m <= last'[data'[v]] + 1
        <5> PICK l : l = last'[data'[v]]
          OBVIOUS
        <5>1. n \in Nat /\ m \in Nat /\ l \in Nat /\ size \in Nat /\ l >= size /\ n + m <= size
          BY <1>1, <3>1, <3>3, <4>4, <4>5
        <5>2. n + m <= l + 1
          BY ONLY <5>1
        <5> QED  BY <5>2
      <4> QED  BY <4>4, <4>5, <4>6
    <3> QED  BY <1>2, <3>1, <3>2, <3>4, <3>5 DEF FitShape
  <2> QED  BY <2>1, <2>2, <2>3, <2>4, <2>5, <2>6 DEF CallShape
<1>7. Typed'
  <2>1. data' \in [Vector -> Ref]
    BY <1>t DEF Ref
  <2>2. call' \in [Task -> Calls]
    BY <1>t, <1>2
  <2> QED  BY <1>a, <2>1, <2>2 DEF VectorsInv, Typed
<1>8. CallShapes' /\ Others(t)
  <2>1. ASSUME NEW u \in Task \ {t} PROVE Undisturbed(call[u])
    <3>1. \A x \in live \ {o} : Same(x)
      BY <1>a, <1>t DEF Same
    <3>2. held \subseteq held' /\ \A x \in Cell \ {o} : counter'[x] = counter[x]
      BY <1>a
    <3>3. ~Reads(call[u], o) /\ ~Relies(call[u], o)
      BY <1>a, FreshVector
    <3>4. v \notin {call[u].self, call[u].from}
      OBVIOUS
    <3> QED  BY <1>1, <3>1, <3>2, <3>3, <3>4, OthersObjects, ItemsHeld, UndisturbedBy
  <2> QED  BY <1>3, <2>1, StepFrame
<1>9. LiveData'
  BY <1>a, <1>d DEF VectorsInv, LiveData
<1>10. NotEmpty'
  <2>0. call'[t] = r /\ \A u \in Task \ {t} : call'[u] = call[u]
    BY <1>t
  <2>1. ASSUME NEW x \in Vector, data'[x] \in Cell, value'[data'[x]] = <<>>
        PROVE  \E u \in Task : call'[u].pc = "store" /\ call'[u].self = x
    <3>1. CASE x = v
      <4>1. value'[data'[x]] = Items(s)
        BY <1>a, <1>d, <3>1
      <4>2. r.pc = "store"
        BY <1>2, <1>s, <2>1, <4>1
      <4> QED  BY <1>2, <2>0, <3>1, <4>2
    <3>2. CASE x # v
      <4>1. data'[x] = data[x] /\ value'[data[x]] = value[data[x]]
        BY <1>a, <1>d, <1>n, <2>1, <3>2 DEF VectorsInv, LiveData
      <4>2. PICK u \in Task : call[u].pc = "store" /\ call[u].self = x
        BY <2>1, <4>1 DEF VectorsInv, NotEmpty
      <4>3. u # t
        BY <4>2
      <4> QED  BY <2>0, <4>2, <4>3
    <3> QED  BY <3>1, <3>2
  <2> QED  BY <2>1 DEF NotEmpty
<1>11. ReleasedOnce'
  BY <1>2, ReleasedOnceStep
<1>12. CountersExact' /\ NoVectorLost'
  <2>0. call'[t] = r /\ \A u \in Task \ {t} : call'[u] = call[u]
    BY <1>t
  <2>p. \A x : ~Owns(call[t], x)
    BY DEF Owns
  <2>1. ASSUME NEW x \in Cell \ {o} PROVE Cardinality(Holders(x)') = Cardinality(Holders(x))
    <3>1. CASE x = s
      <4>1. v \in Holders(x) /\ v \notin Holders(x)'
        BY <1>1, <1>d, <1>o, <3>1, HoldersNow, HoldersNext
      <4>2. t \notin Holders(x)
        BY <2>p, HoldersNow
      <4>3. t \in Holders(x)'
        <5>1. Owns(call'[t], x)
          BY <1>2, <1>n, <2>0, <2>1, <3>1 DEF Owns
        <5> QED  BY <5>1, HoldersNext
      <4>4. ASSUME NEW y \in Vector \cup Task, y \notin {v, t}
            PROVE  y \in Holders(x)' <=> y \in Holders(x)
        <5>1. CASE y \in Vector
          BY <1>d, <4>4, <5>1, HoldersNow, HoldersNext
        <5>2. CASE y \in Task
          <6>1. Owns(call'[y], x) <=> Owns(call[y], x)
            BY <2>0, <4>4, <5>2
          <6> QED  BY <5>2, <6>1, HoldersNow, HoldersNext
        <5> QED  BY <5>1, <5>2
      <4> QED  BY <4>1, <4>2, <4>3, <4>4, HolderReplaced
    <3>2. CASE x # s
      <4>1. \A w \in Vector : data'[w] = x <=> data[w] = x
        BY <1>d, <2>1, <3>2
      <4>2. Owns(r, x) <=> Owns(call[t], x)
        BY <1>2, <2>p, <3>2 DEF Owns
      <4>3. Holders(x)' = Holders(x)
        BY <4>1, <4>2, HoldersKept DEF VectorsInv
      <4> QED  BY <4>3
    <3> QED  BY <3>1, <3>2
  <2>2. Holders(o)' = {v}
    <3>1. \A x \in Vector : x \in Holders(o)' <=> x = v
      <4>1. \A x \in Vector : data[x] # o
        BY <1>a, FreshVector, HoldersNow
      <4> QED  BY <1>1, <1>d, <4>1, HoldersNext
    <3>2. \A u \in Task : u \notin Holders(o)'
      <4> TAKE u \in Task
      <4>1. ~Owns(call[u], o)
        BY <1>a, FreshVector, HoldersNow
      <4>2. ~Owns(r, o)
        BY <1>2, <1>o DEF Owns
      <4>3. ~Owns(call'[u], o)
        BY <2>0, <4>1, <4>2
      <4> QED  BY <4>3, HoldersNext
    <3>3. Holders(o)' \subseteq Vector \cup Task
      BY HoldersNext
    <3> QED  BY <1>1, <3>1, <3>2, <3>3
  <2>3. counter'[o] = Cardinality(Holders(o)')
    <3>1. Cardinality({v}) = 1
      BY FS_Singleton
    <3> QED  BY <1>a, <2>2, <3>1
  <2>4. live' \subseteq (live \cup {o}) \cap Cell /\ call[t].pc \notin {"strings", "free"}
    BY <1>a
  <2>5. \A x \in Cell \ {o} :
          counter'[x] = counter[x] /\ Cardinality(Holders(x)') = Cardinality(Holders(x))
    BY <1>a, <2>1
  <2> QED  BY <2>2, <2>3, <2>4, <2>5, CountersStep
<1> QED  BY <1>a, <1>3, <1>7, <1>8, <1>9, <1>10, <1>11, <1>12 DEF VectorsInv

\* Detach, for an edit that begins or, in Insert, goes on.
LEMMA DetachKeeps ==
  ASSUME VectorsInv, NEW t \in Task, NEW c, NEW size, Ready(c, size), Detach(t, c, size),
         \/ MayWrite(t, c.self) /\ (c.from = Null \/ MayRead(t, c.from))
         \/ c = call[t] /\ c.pc = "detach",
         UNCHANGED <<strings, held>>
  PROVE  VectorsInv' /\ Others(t)
<1> PICK s : s = data[c.self]
  OBVIOUS
<1>1. c \in Calls /\ call[t].pc \in {"idle", "detach"}
  BY DEF Ready, MayWrite
<1>2. \A u \in Task \ {t} : c.self \notin {call[u].self, call[u].from}
  <2>1. CASE MayWrite(t, c.self)
    BY <2>1 DEF MayWrite
  <2>2. CASE c = call[t] /\ c.pc = "detach"
    BY <2>2, OthersUse
  <2> QED  BY <2>1, <2>2
<1>3. ASSUME NEW r, r.self = c.self, r.from = c.from, call' = [call EXCEPT ![t] = r]
      PROVE  Discipline'
  <2>1. CASE MayWrite(t, c.self) /\ (c.from = Null \/ MayRead(t, c.from))
    BY <1>3, <2>1, StartDiscipline
  <2>2. CASE c = call[t] /\ c.pc = "detach"
    BY <1>3, <2>2, DisciplineKept DEF VectorsInv
  <2> QED  BY <2>1, <2>2
<1>4. CASE Suffices(s, size) /\ Go(t, [c EXCEPT !.pc = "store"]) /\ UNCHANGED <<data, vectors>>
  <2>r. PICK r : r = [c EXCEPT !.pc = "store"]
    OBVIOUS
  <2>1. /\ call' = [call EXCEPT ![t] = r]
        /\ UNCHANGED <<data, live, counter, last, value, strings, held>>
    BY <1>4, <2>r DEF Go, vectors
  <2>2. r.self = c.self /\ r.from = c.from
    BY <1>1, <2>r DEF Calls
  <2>3. Discipline'
    BY <1>3, <2>1, <2>2
  <2> QED  BY <1>1, <1>4, <2>r, <2>1, <2>3, DetachReuses
<1>5. CASE /\ \E o \in Cell : /\ Allocate(o, size, Items(s))
                              /\ data' = [data EXCEPT ![c.self] = o]
           /\ Go(t, IF s = Empty THEN [c EXCEPT !.pc = "store"]
                                 ELSE [c EXCEPT !.pc = "look", !.source = s])
  <2>r. PICK r : r = IF s = Empty THEN [c EXCEPT !.pc = "store"]
                                  ELSE [c EXCEPT !.pc = "look", !.source = s]
    OBVIOUS
  <2>1. PICK o \in Cell : Allocate(o, size, Items(s)) /\ data' = [data EXCEPT ![c.self] = o]
    BY <1>5
  <2>2. call' = [call EXCEPT ![t] = r]
    BY <1>5, <2>r DEF Go
  <2>3. r.self = c.self /\ r.from = c.from
    BY <1>1, <2>r DEF Calls
  <2>4. Discipline'
    BY <1>3, <2>2, <2>3
  <2> QED  BY <1>1, <1>2, <2>r, <2>1, <2>2, <2>4, DetachAllocates
<1> QED  BY <1>4, <1>5 DEF Detach

\* The strings that an object's vector has.
LEMMA ItemsOf ==
  ASSUME VectorsInv, NEW r
  PROVE  /\ Items(r) \in Seq(String) /\ Len(Items(r)) \in Nat /\ Len(Items(r)) <= MaxLength
         /\ r \in Cell => Items(r) = value[r]
<1>1. CASE r \in Cell
  <2>1. Items(r) = value[r] /\ value[r] \in Seq(String)
    BY <1>1 DEF Items, VectorsInv, Typed
  <2> QED  BY <1>1, <2>1 DEF VectorsInv, LengthsBounded
<1>2. CASE r \notin Cell
  <2>1. Items(r) = <<>>
    BY <1>2 DEF Items
  <2> QED  BY <1>2, <2>1, VectorsAssumption
<1> QED  BY <1>1, <1>2

\* Insert comes to Detach.
LEMMA DetachForInsertKeeps ==
  ASSUME VectorsInv, NEW t \in Task, DetachForInsert(t)
  PROVE  VectorsInv' /\ Others(t)
<1> PICK c : c = call[t]
  OBVIOUS
<1> PICK n : n = Len(Items(data[c.self]))
  OBVIOUS
<1> PICK size : size = IF n = 0 THEN 1 ELSE n
  OBVIOUS
<1>1. c.pc = "detach" /\ Detach(t, c, size) /\ UNCHANGED <<strings, held>>
  BY DEF DetachForInsert
<1>2. /\ c \in Calls /\ CallShape(c)
  BY DEF VectorsInv, Typed, CallShapes
<1>3. n \in Nat /\ size \in Nat /\ n <= size
  BY ItemsOf
<1>4. /\ c.op = "insert" /\ c.self \in Vector /\ data[c.self] # Null /\ c.target = Null
      /\ c.from \in Vector => c.from # c.self /\ data[c.from] # Null
      /\ c.item \in String /\ c.item \in held
      /\ c.index <= n /\ n < MaxLength
  BY <1>1, <1>2
  DEF CallShape, OperandShape, ShareShape, EditShape, FitShape, Edits
<1>5. c.i = 0
  BY <1>1, <1>2 DEF CallShape, FitShape
<1>6. Ready(c, size)
  BY <1>2, <1>3, <1>4, <1>5 DEF Ready, Edits
<1> QED  BY <1>1, <1>6, DetachKeeps

\* Append.
LEMMA AppendItemKeeps ==
  ASSUME VectorsInv, NEW t \in Task, NEW v \in Vector, NEW s \in String, AppendItem(t, v, s)
  PROVE  VectorsInv' /\ Others(t)
<1> PICK n : n = Len(Items(data[v]))
  OBVIOUS
<1> PICK c : c = [Idle EXCEPT !.op = "append", !.self = v, !.item = s]
  OBVIOUS
<1>n. Null \notin Vector
  BY VectorsAssumption
<1>1. /\ MayWrite(t, v) /\ data[v] # Null /\ s \in held /\ n + 1 <= MaxLength
      /\ Detach(t, c, n + 1) /\ UNCHANGED <<strings, held>>
  BY DEF AppendItem
<1>2. /\ c \in Calls /\ c.op = "append" /\ c.self = v /\ c.from = Null /\ c.item = s
      /\ c.target = Null /\ c.i = 0
  BY DEF Idle, Calls, Ref, Edits
<1>3. n \in Nat /\ n + 1 \in Nat /\ n <= n + 1 /\ n < MaxLength
  BY <1>1, ItemsOf, VectorsAssumption
<1>4. Ready(c, n + 1)
  BY <1>n, <1>1, <1>2, <1>3 DEF Ready, Edits
<1> QED  BY <1>1, <1>2, <1>4, DetachKeeps

\* Replace.
LEMMA ReplaceKeeps ==
  ASSUME VectorsInv, NEW t \in Task, NEW v \in Vector, NEW i \in Nat, NEW s \in String,
         Replace(t, v, i, s)
  PROVE  VectorsInv' /\ Others(t)
<1> PICK n : n = Len(Items(data[v]))
  OBVIOUS
<1> PICK c : c = [Idle EXCEPT !.op = "replace", !.self = v, !.item = s, !.index = i]
  OBVIOUS
<1>n. Null \notin Vector
  BY VectorsAssumption
<1>1. /\ MayWrite(t, v) /\ data[v] # Null /\ s \in held /\ i < n
      /\ Detach(t, c, n) /\ UNCHANGED <<strings, held>>
  BY DEF Replace
<1>2. /\ c \in Calls /\ c.op = "replace" /\ c.self = v /\ c.from = Null /\ c.item = s
      /\ c.index = i /\ c.target = Null /\ c.i = 0
  BY DEF Idle, Calls, Ref, Edits
<1>3. n \in Nat /\ n <= n
  BY ItemsOf
<1>4. Ready(c, n)
  BY <1>n, <1>1, <1>2, <1>3 DEF Ready, Edits
<1> QED  BY <1>1, <1>2, <1>4, DetachKeeps

\* Prepend, of another vector: Self takes it over or makes room for it.
LEMMA PrependKeeps ==
  ASSUME VectorsInv, ~SelfPrepend, NEW t \in Task, NEW v \in Vector, NEW w \in Vector,
         Prepend(t, v, w)
  PROVE  VectorsInv' /\ Others(t)
<1> PICK n : n = Len(Items(data[v]))
  OBVIOUS
<1> PICK m : m = Len(Items(data[w]))
  OBVIOUS
<1> PICK c : c = [Idle EXCEPT !.op = "prepend", !.self = v, !.from = w, !.other = data[w]]
  OBVIOUS
<1>n. Null \notin Vector /\ Null \notin String
  BY VectorsAssumption
<1>1. /\ MayWrite(t, v) /\ data[v] # Null /\ MayRead(t, w) /\ w # v
      /\ data[w] # Empty /\ n + m <= MaxLength
      /\ \/ data[v] = Empty /\ Share(t, v, w, data[w])
         \/ Detach(t, c, n + m) /\ UNCHANGED <<strings, held>>
  BY DEF Prepend
<1>2. CASE data[v] = Empty /\ Share(t, v, w, data[w])
  BY <1>1, <1>2, ShareKeeps
<1>3. CASE Detach(t, c, n + m) /\ UNCHANGED <<strings, held>>
  <2>1. data[w] \in Cell /\ data[w] # Null /\ data[w] \in Ref
    BY <1>1 DEF MayRead, VectorsInv, Typed, Ref
  <2>2. m = Len(value[data[w]]) /\ m \in Nat /\ n \in Nat
    BY <2>1, ItemsOf
  <2>3. /\ c \in Calls /\ c.op = "prepend" /\ c.self = v /\ c.from = w /\ c.item = Null
        /\ c.other = data[w] /\ c.target = Null /\ c.i = 0
    BY <2>1 DEF Idle, Calls, Ref, Edits
  <2>4. n + m \in Nat /\ n <= n + m /\ n + m <= n + m
    BY ONLY <2>2
  <2>5. Ready(c, n + m)
    BY <1>n, <1>1, <2>1, <2>2, <2>3, <2>4 DEF Ready, Edits
  <2> QED  BY <1>1, <1>3, <2>3, <2>5, DetachKeeps
<1> QED  BY <1>1, <1>2, <1>3

-----------------------------------------------------------------------------
(***************************************************************************)
(* The counters of the vectors.                                            *)
(***************************************************************************)

\* No object has a vector at first.
LEMMA VectorsInit == Init => VectorsInv
<1> SUFFICES ASSUME Init PROVE VectorsInv
  OBVIOUS
<1> USE DEF Init
<1>n. Empty \notin Cell /\ Null \notin Cell /\ Null \notin Vector /\ MaxLength \in Nat
  BY VectorsAssumption
<1>c. \A t \in Task : call[t] = Idle
  OBVIOUS
<1>i. Idle \in Calls /\ Idle.pc = "idle" /\ Idle.self = Null /\ Idle.from = Null
      /\ Idle.item = Null /\ Idle.op = "none" /\ Idle.target = Null
  BY DEF Idle, Calls, Ref
<1>1. Typed
  <2>1. data \in [Vector -> Ref] /\ counter \in [Cell -> Int] /\ last \in [Cell -> Nat]
        /\ strings \in [String -> Int] /\ call \in [Task -> Calls]
    BY <1>i DEF Ref
  <2>2. value \in [Cell -> Seq(String)]
    <3>1. <<>> \in Seq(String)
      OBVIOUS
    <3> QED  BY <3>1
  <2> QED  BY <2>1, <2>2 DEF Typed
<1>2. Discipline
  BY <1>c, <1>i DEF Discipline
<1>3. CallShapes
  <2>1. ASSUME NEW r, r = Idle PROVE CallShape(r)
    <3>1. /\ r.pc = "idle" /\ r.self = Null /\ r.from = Null /\ r.item = Null
          /\ r.op = "none" /\ r.target = Null
      BY <1>i, <2>1
    <3>2. OperandShape(r) /\ ShareShape(r) /\ EditShape(r) /\ SliceShape(r)
      BY <1>n, <3>1, VectorsAssumption DEF OperandShape, ShareShape, EditShape, SliceShape, Edits
    <3>3. FitShape(r) /\ SourceShape(r) /\ StoredShape(r)
      BY <3>1 DEF FitShape, SourceShape, StoredShape, Leaving
    <3> QED  BY <3>2, <3>3 DEF CallShape
  <2> QED  BY <1>c, <2>1 DEF CallShapes
<1>4. LiveData /\ NotEmpty /\ RoomForItems /\ Deallocated
  BY <1>n DEF LiveData, NotEmpty, RoomForItems, Deallocated
<1>5. LengthsBounded
  BY <1>n DEF LengthsBounded
<1>6. ReleasedOnce /\ NoVectorLost
  BY <1>c, <1>i DEF ReleasedOnce, NoVectorLost
<1>7. CountersExact
  <2>1. ASSUME NEW o \in Cell PROVE Holders(o) = {}
    <3>1. \A v \in Vector : data[v] # o
      BY <1>n
    <3>2. \A t \in Task : ~Owns(call[t], o)
      BY <1>c, <1>i DEF Owns
    <3> QED  BY <3>1, <3>2 DEF Holders
  <2> QED  BY <2>1, FS_EmptySet DEF CountersExact
<1> QED  BY <1>1, <1>2, <1>3, <1>4, <1>5, <1>6, <1>7 DEF VectorsInv

\* Every step keeps the counters of the vectors.
LEMMA VectorsStep ==
  ASSUME VectorsInv, ~SelfPrepend, [Next]_vars
  PROVE  VectorsInv'
<1>b. 0 .. MaxLength \subseteq Nat
  BY VectorsAssumption
<1>1. CASE UNCHANGED vars
  <2>1. UNCHANGED <<data, live, counter, last, value, call>> /\ UNCHANGED <<strings, held>>
    BY <1>1 DEF vars, vectors
  <2>2. strings' \in [String -> Int] /\ held' \subseteq String
    BY <2>1 DEF VectorsInv, Typed
  <2> QED  BY <2>1, <2>2, StringsOnly
<1>2. ASSUME NEW s \in String, NewString(s) \/ ReleaseString(s) PROVE VectorsInv'
  BY <1>2, NewStringKeeps, ReleaseStringKeeps
<1>3. ASSUME NEW t \in Task, Start(t) PROVE VectorsInv'
  <2> PICK v \in Vector :
        \/ Declare(t, v)
        \/ Share(t, v, Null, Null)
        \/ Share(t, v, Null, Empty)
        \/ \E w \in Vector : Assign(t, v, w)
        \/ \E s \in String : AppendItem(t, v, s)
        \/ \E s \in String, i \in 0 .. MaxLength : Insert(t, v, i, s)
        \/ \E s \in String, i \in 0 .. MaxLength : Replace(t, v, i, s)
        \/ \E w \in Vector : Prepend(t, v, w)
        \/ \E w \in Vector, i, j \in 0 .. MaxLength : DeclareSlice(t, v, w, i, j)
        \/ \E i \in 0 .. MaxLength : Element(t, v, i)
    BY <1>3 DEF Start
  <2>1. CASE Declare(t, v)
    BY <2>1, DeclareKeeps
  <2>2. CASE Share(t, v, Null, Null) \/ Share(t, v, Null, Empty)
    <3> PICK e \in {Empty, Null} : Share(t, v, Null, e)
      BY <2>2
    <3> QED  BY ShareKeeps
  <2>3. CASE \E w \in Vector : Assign(t, v, w)
    BY <2>3, ShareKeeps DEF Assign
  <2>4. CASE \E s \in String : AppendItem(t, v, s)
    BY <2>4, AppendItemKeeps
  <2>5. CASE \E s \in String, i \in 0 .. MaxLength : Insert(t, v, i, s)
    BY <2>5, InsertKeeps
  <2>6. CASE \E s \in String, i \in 0 .. MaxLength : Replace(t, v, i, s)
    BY <1>b, <2>6, ReplaceKeeps
  <2>7. CASE \E w \in Vector : Prepend(t, v, w)
    BY <2>7, PrependKeeps
  <2>8. CASE \E w \in Vector, i, j \in 0 .. MaxLength : DeclareSlice(t, v, w, i, j)
    BY <1>b, <2>8, DeclareSliceKeeps
  <2>9. CASE \E i \in 0 .. MaxLength : Element(t, v, i)
    BY <2>9, ElementKeeps
  <2> QED  BY <2>1, <2>2, <2>3, <2>4, <2>5, <2>6, <2>7, <2>8, <2>9
<1>4. ASSUME NEW t \in Task, Step(t) PROVE VectorsInv'
  <2>1. CASE DetachForInsert(t) \/ Look(t) \/ CopyString(t) \/ Drop(t) \/ DropString(t)
    BY <2>1, DetachForInsertKeeps, LookKeeps, CopyStringKeeps, DropKeeps, DropStringKeeps
  <2>2. CASE Free(t) \/ Bind(t) \/ StoreAppended(t) \/ StoreInserted(t) \/ StoreReplaced(t)
    BY <2>2, FreeKeeps, BindKeeps, StoreAppendedKeeps, StoreInsertedKeeps, StoreReplacedKeeps
  <2>3. CASE StorePrepended(t) \/ Refer(t) \/ ReferPrepended(t) \/ SliceString(t)
    BY <2>3, StorePrependedKeeps, ReferKeeps, ReferPrependedKeeps, SliceStringKeeps
  <2> QED  BY <1>4, <2>1, <2>2, <2>3 DEF Step
<1> QED  BY <1>1, <1>2, <1>3, <1>4 DEF Next

\* However the calls of the tasks interleave, the counter of every vector is
\* exact and a vector that is being edited has one holder, unless a vector is
\* prepended to itself.
THEOREM VectorsInvariance ==
  ASSUME ~SelfPrepend
  PROVE  Spec => []VectorsInv
<1>1. VectorsInv /\ [Next]_vars => VectorsInv'
  BY VectorsStep
<1> QED  BY <1>1, VectorsInit, PTL DEF Spec

\* A vector that an object has, or that a call will still read or release, is
\* allocated.
LEMMA LiveVectors == VectorsInv => VectorsAreAllocated
<1> SUFFICES ASSUME VectorsInv PROVE VectorsAreAllocated
  OBVIOUS
<1>1. \A v \in Vector : data[v] \in live \cup {Empty, Null}
  BY DEF VectorsInv, LiveData
<1>2. ASSUME NEW t \in Task
      PROVE  LET c == call[t]
             IN  /\ c.pc \in Leaving \cup {"slice"} => c.source \in live
                 /\ c.op = "prepend" => c.other \in live
                 /\ c.target \in live \cup {Empty, Null}
  <2> PICK c : c = call[t]
    OBVIOUS
  <2>0. c \in Calls /\ EditShape(c) /\ ShareShape(c) /\ SourceShape(c) /\ SliceShape(c)
    BY DEF VectorsInv, Typed, CallShapes, CallShape
  <2>n. Empty \notin Cell /\ Null \notin Cell
    BY VectorsAssumption
  <2>1. c.pc \in Leaving \cup {"slice"} => c.source \in live
    BY <1>1, <2>0, <2>n DEF SourceShape, SliceShape
  <2>2. c.op = "prepend" => c.other \in live
    BY <1>1, <2>0, <2>n DEF EditShape
  <2>3. c.target \in live \cup {Empty, Null}
    <3>1. c.op \in Edits \cup {"none", "share", "slice"}
      BY <2>0 DEF Calls
    <3> QED  BY <1>1, <2>0, <3>1 DEF ShareShape, SliceShape
  <2> QED  BY <2>1, <2>2, <2>3
<1> QED  BY <1>1, <1>2 DEF VectorsAreAllocated, Leaving

\* Taking a vector apart, by whichever call, never frees one that an object
\* has or that a call still uses.
THEOREM VectorsStayAllocated ==
  ASSUME ~SelfPrepend
  PROVE  Spec => []VectorsAreAllocated
BY VectorsInvariance, LiveVectors, PTL

\* What Append, Insert, Prepend and Slice store has room in the vector that
\* Detach or Allocate provided.
THEOREM VectorsHaveRoom ==
  ASSUME ~SelfPrepend
  PROVE  Spec => []RoomForItems
<1>1. VectorsInv => RoomForItems
  BY DEF VectorsInv
<1> QED  BY <1>1, VectorsInvariance, PTL
===============================================================================
