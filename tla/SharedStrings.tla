---------------------------- MODULE SharedStrings ----------------------------
(***************************************************************************)
(* League's implicitly shared strings: Universal_String objects that point *)
(* at reference counted, copy-on-write Shared_String segments, used by     *)
(* several tasks at once.                                                  *)
(*                                                                         *)
(* A Universal_String (a Var) is never used by one task while another one  *)
(* changes it: that is Ada's rule for shared variables and the library     *)
(* leaves it to its users.  The segments behind different Universal_Strings*)
(* are shared freely between tasks, and only the atomic counter and the    *)
(* atomic index map pointer protect them.  Each step below is one atomic   *)
(* access to such a shared cell, or a use of memory the step's task may    *)
(* believe to be its own.                                                  *)
(***************************************************************************)
EXTENDS Integers, Sequences, FiniteSets

CONSTANTS
  Task,           \* Ada tasks
  Var,            \* Universal_String objects of the program
  Object,         \* heap cells that can hold a Shared_String
  Char,           \* characters
  Empty,          \* Shared_Empty, the segment that is never counted
  Null,           \* the null access value
  MaxLength,      \* bound: longest text of the model
  MaxCounter,     \* bound: largest counter (leaked counts can add up)
  StaticSize,     \* Aligned_Size: size of a segment without its Value
  GrowthFactor,   \* Aligned_Size: 1/GrowthFactor of extra space
  MinMulAlloc,    \* Aligned_Size: allocation unit, in code units
  SelfReplace     \* may a program Replace all of a string by that very object?

ASSUME ConstantsAssumption ==
  /\ IsFiniteSet(Task) /\ IsFiniteSet(Var)
  /\ Task \cap Var = {}
  /\ Empty \notin Object /\ Null \notin Object /\ Empty # Null
  /\ Null \notin Var /\ Null \notin Seq(Char)
  /\ MaxLength \in Nat /\ MaxCounter \in Nat
  /\ StaticSize \in Nat /\ GrowthFactor \in Nat \ {0}
  /\ MinMulAlloc \in Nat \ {0} /\ StaticSize % MinMulAlloc = 0
  /\ SelfReplace \in BOOLEAN

Shared == Object \cup {Empty}
Ref    == Shared \cup {Null}
Texts  == Seq(Char)

VARIABLES
  data,           \* Universal_String.Data; Null while out of scope or released
  live,           \* the heap cells that are allocated
  counter,        \* Shared_String.Counter
  value,          \* Shared_String.Value (0 .. Unused - 1)
  capacity,       \* Shared_String.Capacity
  indexMap,       \* Shared_String.Index_Map: the text it indexes, or Null
  call            \* what each task is doing

heap == <<live, counter, value, capacity, indexMap>>
vars == <<data, heap, call>>

(***************************************************************************)
(* An edit replaces size characters after the first ones by other text     *)
(* ("append" is the edit of Append (Code), which also copies the spare     *)
(* room of the old segment), or keeps only those size characters.          *)
(***************************************************************************)
Edit   == [kind : {"splice", "append", "slice"},
           first : Nat, size : Nat, code : Texts]
NoEdit == [kind |-> "slice", first |-> 0, size |-> 0, code |-> <<>>]

Idle == [pc   |-> "idle", self |-> Null, item |-> Null, from |-> Null,
         old  |-> Null, new |-> Null, edit |-> NoEdit, map |-> <<>>]

Text(r)       == IF r \in Object THEN value[r] ELSE <<>>
CapacityOf(r) == IF r \in Object THEN capacity[r] ELSE MinMulAlloc - 1

Spliced(s, e, by) ==
  SubSeq(s, 1, e.first) \o by \o SubSeq(s, e.first + e.size + 1, Len(s))

Kept(s, e) == SubSeq(s, e.first + 1, e.first + e.size)

\* The text that the call of task t stores into its destination.
Result(t) ==
  LET c  == call[t]
      by == IF c.item = Null THEN c.edit.code ELSE Text(data[c.item])
  IN  IF c.edit.kind = "slice" THEN Kept(Text(c.from), c.edit)
                               ELSE Spliced(Text(c.from), c.edit, by)

-----------------------------------------------------------------------------
(***************************************************************************)
(* The primitives of Matreshka.Internals.Strings.                          *)
(***************************************************************************)

\* Mutation of AlignedSize: the unit that rounding down loses is not added.
AlignedSizeTight(size) ==
  ((StaticSize + size + size \div GrowthFactor) \div MinMulAlloc) * MinMulAlloc
    - StaticSize

AlignedSize(size) ==
  ((StaticSize + size + size \div GrowthFactor) \div MinMulAlloc + 1)
    * MinMulAlloc - StaticSize

\* Mutation of CanBeReused: the counter is not looked at.
CanBeReusedShared(r, size) ==
  /\ r \in Object
  /\ capacity[r] > size

CanBeReused(r, size) ==
  /\ r \in Object
  /\ capacity[r] > size
  /\ counter[r] = 1

Allocate(o, size) ==
  /\ o \notin live
  /\ live'     = live \cup {o}
  /\ counter'  = [counter  EXCEPT ![o] = 1]
  /\ value'    = [value    EXCEPT ![o] = <<>>]
  /\ capacity' = [capacity EXCEPT ![o] = AlignedSize(size) - 1]
  /\ indexMap' = [indexMap EXCEPT ![o] = Null]

\* Ada's rule: a task may start to write v, or to read w, when no call of
\* another task is writing it (or, to write v, reading it).
MayWrite(t, v) ==
  /\ call[t].pc = "idle"
  /\ \A u \in Task : v \notin {call[u].self, call[u].item}

MayRead(t, w) ==
  /\ call[t].pc = "idle"
  /\ data[w] # Null
  /\ \A u \in Task : call[u].self # w

\* Self is about to point at target: its segment is dereferenced first.
Rebind(t, v, w, target) ==
  /\ call' = [call EXCEPT ![t] =
       [Idle EXCEPT !.pc   = IF data[v] \in Object THEN "drop" ELSE "bind",
                    !.self = v, !.item = w, !.old = data[v], !.new = target]]
  /\ data' = [data EXCEPT ![v] = Null]
  /\ UNCHANGED heap

\* The call c of task t goes on with a new segment for size characters.
CopyTo(t, c, size) ==
  \E o \in Object :
    /\ Allocate(o, size)
    /\ call' = [call EXCEPT ![t] = [c EXCEPT !.pc = "copy", !.new = o]]
    /\ UNCHANGED data

\* Self keeps its segment when it can be reused, else gets a new one.
Mutate(t, v, w, size, e) ==
  LET c == [Idle EXCEPT !.self = v, !.item = w, !.from = data[v], !.edit = e]
  IN  \/ /\ CanBeReused(data[v], size)
         /\ call' = [call EXCEPT ![t] = [c EXCEPT !.pc = "edit", !.new = data[v]]]
         /\ UNCHANGED <<data, heap>>
      \/ /\ ~CanBeReused(data[v], size)
         /\ CopyTo(t, [c EXCEPT !.old = data[v]], size)

-----------------------------------------------------------------------------
(***************************************************************************)
(* Calls.  What the code does before its first access to a shared cell is  *)
(* part of the step that starts the call.                                  *)
(***************************************************************************)

\* A Universal_String is declared; it shares Shared_Empty.
Declare(t, v) ==
  /\ MayWrite(t, v) /\ data[v] = Null
  /\ data' = [data EXCEPT ![v] = Empty]
  /\ UNCHANGED <<heap, call>>

\* Finalize, at the end of the object's scope.
Finalize(t, v) ==
  /\ MayWrite(t, v) /\ data[v] # Null
  /\ Rebind(t, v, Null, Null)

\* v := w is Finalize (v), a bitwise copy and Adjust (v).
Assign(t, v, w) ==
  /\ MayWrite(t, v) /\ data[v] # Null
  /\ MayRead(t, w) /\ w # v
  /\ Rebind(t, v, w, data[w])

Clear(t, v) ==
  /\ MayWrite(t, v) /\ data[v] # Null
  /\ Rebind(t, v, Null, Empty)

\* Append (Self, Item); v and w may be one object.
AppendItem(t, v, w) ==
  LET s == Text(data[v])
      i == Text(data[w])
  IN  /\ MayWrite(t, v) /\ MayRead(t, v) /\ MayRead(t, w)
      /\ Len(s) + Len(i) <= MaxLength
      /\ \/ /\ Len(s) + Len(i) = 0
            /\ data[v] # Empty
            /\ Rebind(t, v, w, Empty)
         \/ /\ i # <<>> /\ s = <<>>
            /\ Rebind(t, v, w, data[w])
         \/ /\ i # <<>> /\ s # <<>>
            /\ Mutate(t, v, w, Len(s) + Len(i),
                 [kind |-> "splice", first |-> Len(s), size |-> 0, code |-> <<>>])

\* Append (Self, Code).
AppendCode(t, v, c) ==
  LET s == Text(data[v])
  IN  /\ MayWrite(t, v) /\ MayRead(t, v)
      /\ Len(s) < MaxLength
      /\ Mutate(t, v, Null, Len(s) + 1,
           [kind |-> "append", first |-> Len(s), size |-> 0, code |-> <<c>>])

\* Prepend (Target, Item).
PrependItem(t, v, w) ==
  LET s == Text(data[v])
      i == Text(data[w])
  IN  /\ MayWrite(t, v) /\ MayRead(t, v) /\ MayRead(t, w)
      /\ Len(s) + Len(i) <= MaxLength
      /\ i # <<>>
      /\ \/ /\ s = <<>>
            /\ Rebind(t, v, w, data[w])
         \/ /\ s # <<>>
            /\ Mutate(t, v, w, Len(s) + Len(i),
                 [kind |-> "splice", first |-> 0, size |-> 0, code |-> <<>>])

\* Prepend (Target, Code).  An empty target is given a new segment, and the
\* one it had is not dereferenced.
PrependCode(t, v, c) ==
  LET s == Text(data[v])
      e == [kind |-> "splice", first |-> 0, size |-> 0, code |-> <<c>>]
  IN  /\ MayWrite(t, v) /\ MayRead(t, v)
      /\ Len(s) < MaxLength
      /\ \/ /\ s # <<>>
            /\ Mutate(t, v, Null, Len(s) + 1, e)
         \/ /\ s = <<>>
            /\ CopyTo(t, [Idle EXCEPT !.self = v, !.from = data[v], !.edit = e], 2)

\* Replace (String, First, Size, Length, By).
Replace(t, v, w, first, size) ==
  LET s       == Text(data[v])
      by      == Text(data[w])
      newSize == Len(s) - size + Len(by)
  IN  /\ MayWrite(t, v) /\ MayRead(t, v) /\ MayRead(t, w)
      /\ first + size <= Len(s) /\ newSize <= MaxLength
      /\ v = w /\ s # <<>> /\ size = Len(s) => SelfReplace
      /\ \/ /\ newSize = 0
            /\ data[v] # Empty
            /\ Rebind(t, v, w, Empty)
         \/ /\ newSize # 0 /\ Len(by) = newSize
            /\ Rebind(t, v, w, data[w])
         \/ /\ newSize # 0 /\ Len(by) # newSize
            /\ Mutate(t, v, w, newSize,
                 [kind |-> "splice", first |-> first, size |-> size, code |-> <<>>])

\* Universal_String's procedure Slice: never in place.  The slice that is the
\* whole string is the segment itself, referenced once more and released.
SliceSelf(t, v, first, size) ==
  LET s == Text(data[v])
      c == [Idle EXCEPT !.self = v, !.from = data[v], !.old = data[v],
              !.edit = [kind |-> "slice", first |-> first, size |-> size, code |-> <<>>]]
  IN  /\ MayWrite(t, v) /\ MayRead(t, v)
      /\ size > 0 /\ first + size <= Len(s)
      /\ \/ /\ size = Len(s)
            /\ counter' = [counter EXCEPT ![data[v]] = @ + 1]
            /\ call' = [call EXCEPT ![t] = [c EXCEPT !.pc = "drop", !.new = data[v]]]
            /\ UNCHANGED <<data, live, value, capacity, indexMap>>
         \/ /\ size # Len(s)
            /\ CopyTo(t, c, size)

\* A Universal_String is declared with the result of function Slice.
DeclareSlice(t, v, w, first, size) ==
  LET s == Text(data[w])
  IN  /\ MayWrite(t, v) /\ data[v] = Null
      /\ MayRead(t, w)
      /\ size > 0 /\ first + size <= Len(s)
      /\ \/ /\ size = Len(s)
            /\ Rebind(t, v, w, data[w])
         \/ /\ size # Len(s)
            /\ CopyTo(t, [Idle EXCEPT !.self = v, !.item = w, !.from = data[w],
                  !.edit = [kind |-> "slice", first |-> first, size |-> size,
                            code |-> <<>>]], size)

\* From_Position and its like find no index map: Compute_Index_Map builds one.
ComputeIndexMap(t, w) ==
  /\ MayRead(t, w) /\ Text(data[w]) # <<>>
  /\ indexMap[data[w]] = Null
  /\ call' = [call EXCEPT ![t] =
       [Idle EXCEPT !.pc = "publish", !.item = w, !.from = data[w],
                    !.map = value[data[w]]]]
  /\ UNCHANGED <<data, heap>>

-----------------------------------------------------------------------------
(***************************************************************************)
(* The rest of a call, one step per access to a shared cell.               *)
(***************************************************************************)

\* Mutation of EditInPlace: the index map is not freed.
EditUnderIndexMap(t) ==
  /\ call[t].pc = "edit"
  /\ value' = [value EXCEPT ![call[t].new] = Result(t)]
  /\ call'  = [call EXCEPT ![t] = Idle]
  /\ UNCHANGED <<data, live, counter, capacity, indexMap>>

\* The new text is stored over the old one and the index map is freed.
EditInPlace(t) ==
  LET o == call[t].new
  IN  /\ call[t].pc = "edit"
      /\ value'    = [value    EXCEPT ![o] = Result(t)]
      /\ indexMap' = [indexMap EXCEPT ![o] = Null]
      /\ call'     = [call EXCEPT ![t] = Idle]
      /\ UNCHANGED <<data, live, counter, capacity>>

\* Append (Code) copies all of Old.Value, used or not.
CopyFits(t) ==
  call[t].edit.kind = "append" =>
    CapacityOf(call[t].old) <= capacity[call[t].new]

\* The text is stored into the new segment, which becomes Self's.
CopyOut(t) ==
  LET c == call[t]
  IN  /\ c.pc = "copy" /\ CopyFits(t)
      /\ value' = [value EXCEPT ![c.new] = Result(t)]
      /\ data'  = [data EXCEPT ![c.self] = c.new]
      /\ call'  = [call EXCEPT ![t] =
           IF c.old \in Object THEN [c EXCEPT !.pc = "drop"] ELSE Idle]
      /\ UNCHANGED <<live, counter, capacity, indexMap>>

\* Constraint_Error leaves Append.  Self, an access value, was passed by copy
\* and is not copied back: the object keeps its segment, and nothing refers to
\* the new one.  The model follows the task no further.
RaiseInAppend(t) ==
  LET c == call[t]
  IN  /\ c.pc = "copy" /\ ~CopyFits(t)
      /\ call' = [call EXCEPT ![t] = [Idle EXCEPT !.pc = "raised", !.new = c.new]]
      /\ UNCHANGED <<data, heap>>

\* Mutation of Continue: a new segment, counted by Allocate, is referenced again.
ContinueTwice(c) == [c EXCEPT !.pc = "bind"]

\* After a Dereference: Self is assigned, or the call is over.
Continue(c) == IF data[c.self] = Null THEN [c EXCEPT !.pc = "bind"] ELSE Idle

\* Dereference: the atomic decrement.
Dereference(t) ==
  LET c == call[t]
  IN  /\ c.pc = "drop"
      /\ counter' = [counter EXCEPT ![c.old] = @ - 1]
      /\ call' = [call EXCEPT ![t] =
           IF counter[c.old] = 1 THEN [c EXCEPT !.pc = "free"] ELSE Continue(c)]
      /\ UNCHANGED <<data, live, value, capacity, indexMap>>

\* Dereference: the decrement reached zero, so the segment is deallocated.
Free(t) ==
  LET c == call[t]
  IN  /\ c.pc = "free"
      /\ live'     = live \ {c.old}
      /\ value'    = [value    EXCEPT ![c.old] = <<>>]
      /\ capacity' = [capacity EXCEPT ![c.old] = 0]
      /\ indexMap' = [indexMap EXCEPT ![c.old] = Null]
      /\ call'     = [call EXCEPT ![t] = Continue(c)]
      /\ UNCHANGED <<data, counter>>

\* Mutation of Reference: the counter stays.
ReferenceUncounted(t) ==
  /\ call[t].pc = "bind"
  /\ data' = [data EXCEPT ![call[t].self] = call[t].new]
  /\ call' = [call EXCEPT ![t] = Idle]
  /\ UNCHANGED heap

\* Self is assigned and its segment referenced.
Reference(t) ==
  LET c == call[t]
  IN  /\ c.pc = "bind"
      /\ c.new \in Object => counter[c.new] < MaxCounter
      /\ data' = [data EXCEPT ![c.self] = c.new]
      /\ counter' = IF c.new \in Object
                    THEN [counter EXCEPT ![c.new] = @ + 1] ELSE counter
      /\ call' = [call EXCEPT ![t] = Idle]
      /\ UNCHANGED <<live, value, capacity, indexMap>>

\* Test_And_Set: the first index map wins, a later one is dropped.
PublishIndexMap(t) ==
  LET c == call[t]
  IN  /\ c.pc = "publish"
      /\ indexMap' = IF indexMap[c.from] = Null
                     THEN [indexMap EXCEPT ![c.from] = c.map] ELSE indexMap
      /\ call' = [call EXCEPT ![t] = Idle]
      /\ UNCHANGED <<data, live, counter, value, capacity>>

-----------------------------------------------------------------------------
Init ==
  /\ data     = [v \in Var |-> Null]
  /\ live     = {}
  /\ counter  = [o \in Object |-> 0]
  /\ value    = [o \in Object |-> <<>>]
  /\ capacity = [o \in Object |-> 0]
  /\ indexMap = [o \in Object |-> Null]
  /\ call     = [t \in Task |-> Idle]

Start(t) ==
  \E v \in Var :
    \/ Declare(t, v)
    \/ Finalize(t, v)
    \/ Clear(t, v)
    \/ ComputeIndexMap(t, v)
    \/ \E c \in Char : AppendCode(t, v, c)
    \/ \E c \in Char : PrependCode(t, v, c)
    \/ \E w \in Var : Assign(t, v, w)
    \/ \E w \in Var : AppendItem(t, v, w)
    \/ \E w \in Var : PrependItem(t, v, w)
    \/ \E first, size \in 0 .. MaxLength : SliceSelf(t, v, first, size)
    \/ \E w \in Var, first, size \in 0 .. MaxLength : Replace(t, v, w, first, size)
    \/ \E w \in Var, first, size \in 0 .. MaxLength : DeclareSlice(t, v, w, first, size)

Step(t) ==
  \/ EditInPlace(t)
  \/ CopyOut(t)
  \/ RaiseInAppend(t)
  \/ Dereference(t)
  \/ Free(t)
  \/ Reference(t)
  \/ PublishIndexMap(t)

Next == \E t \in Task : Start(t) \/ Step(t)

Spec == Init /\ [][Next]_vars

-----------------------------------------------------------------------------
(***************************************************************************)
(* Properties.                                                             *)
(***************************************************************************)

Calls ==
  [pc   : {"idle", "edit", "copy", "drop", "free", "bind", "publish", "raised"},
   self : Var \cup {Null}, item : Var \cup {Null},
   from : Ref, old : Ref, new : Ref, edit : Edit, map : Texts]

\* Every variable keeps the type its declaration in the source gives it.
TypeOK ==
  /\ data     \in [Var -> Ref]
  /\ live     \subseteq Object
  /\ counter  \in [Object -> Nat]
  /\ value    \in [Object -> Texts]
  /\ capacity \in [Object -> Nat]
  /\ indexMap \in [Object -> Texts \cup {Null}]
  /\ call     \in [Task -> Calls]

\* The program objects and the running calls that own a count of segment o: a
\* call owns that of the segment it has yet to release or to hand to Self, and
\* one that raised keeps that of the segment it has lost.
Holders(o) ==
  {v \in Var : data[v] = o}
    \cup {t \in Task : \/ call[t].pc = "drop" /\ call[t].old = o
                       \/ call[t].pc \in {"copy", "raised"} /\ call[t].new = o}

\* A segment's counter is never less than the number of its holders: no
\* interleaving of Reference, Dereference and Can_Be_Reused loses a count.
CounterCoversHolders ==
  \A o \in live : counter[o] >= Cardinality(Holders(o))

\* Nothing refers to a deallocated segment, neither a Universal_String nor a
\* running call that will still read, write, release or reference it.
NoDangling ==
  /\ \A v \in Var : data[v] \in live \cup {Empty, Null}
  /\ \A t \in Task :
       LET c == call[t]
       IN  /\ c.pc \in {"drop", "free"} => c.old \in live
           /\ c.pc \in {"edit", "copy"} => c.new \in live
           /\ c.pc \in {"edit", "copy", "publish"} => c.from \in live \cup {Empty, Null}
           /\ c.pc \in {"drop", "free", "bind"} => c.new \in live \cup {Empty, Null}

\* What a task does with segment o other than owning a count of it.
Uses(t, o) ==
  \/ call[t].pc \in {"edit", "copy", "publish"} /\ call[t].from = o
  \/ call[t].pc \in {"edit", "copy", "drop", "free", "bind"} /\ call[t].new = o
  \/ call[t].pc \in {"drop", "free"} /\ call[t].old = o
  \/ call[t].pc \in {"edit", "copy"} /\ call[t].item # Null /\ data[call[t].item] = o

\* A task that changes a segment in place is alone with it, from the moment it
\* found the counter to be one until the text is stored: no other object has
\* the segment as its data and no other task reads, releases or indexes it.
ExclusiveEdit ==
  \A t \in Task : call[t].pc = "edit" =>
    /\ {v \in Var : data[v] = call[t].new} = {call[t].self}
    /\ \A u \in Task \ {t} : ~Uses(u, call[t].new)

\* A published index map is that of the text the segment holds now.
IndexMapIsCurrent ==
  \A o \in live : indexMap[o] # Null => indexMap[o] = value[o]

\* The null terminator, stored at Value (Unused), is inside the segment.
RoomForTerminator ==
  \A o \in live : Len(value[o]) <= capacity[o]

\* Counts are exact: a segment is allocated as long as it has a holder, or while
\* the call that released it frees it.  None is lost but the new segment of an
\* Append that raised.
NoLeak ==
  \A o \in live :
    /\ counter[o] = Cardinality(Holders(o))
    /\ Holders(o) = {} => \E t \in Task : call[t].pc = "free" /\ call[t].old = o

\* A step never changes the text of a segment that two objects share.
SharedTextIsConstant ==
  [][\A o \in live \cap live' :
       Cardinality({v \in Var : data[v] = o}) > 1 => value'[o] = value[o]]_vars

\* Appending a character to a string is not documented to fail.
AppendNeverRaises ==
  \A t \in Task : call[t].pc # "raised"
=============================================================================
