---------------------------- MODULE StringVectors ----------------------------
(***************************************************************************)
(* Universal_String_Vector objects: counted, copy-on-write vectors of      *)
(* counted strings, used by several tasks at once.                         *)
(*                                                                         *)
(* Two levels of counters have to agree: that of a Shared_String_Vector    *)
(* says how many objects have it, that of a string how many vectors and    *)
(* Universal_String objects do.  Taking a vector apart touches both, one   *)
(* atomic access at a time, and each step below is one such access.        *)
(*                                                                         *)
(* As in SharedStrings, no task uses a Universal_String_Vector or a        *)
(* Universal_String while another one changes that very object.            *)
(***************************************************************************)
EXTENDS Integers, Sequences, FiniteSets

CONSTANTS
  Task,           \* Ada tasks
  Vector,         \* Universal_String_Vector objects of the program
  Cell,           \* heap cells that can hold a Shared_String_Vector
  String,         \* Shared_String segments
  Empty,          \* Empty_Shared_String_Vector, which is never counted
  Null,           \* the null access value
  MaxLength,      \* bound: longest vector of the model
  StaticSize,     \* Aligned_Size: size of a vector without its Value
  GrowthFactor,   \* Aligned_Size: 1/GrowthFactor of extra space
  MinMulAlloc,    \* Aligned_Size: allocation unit, in access values
  SelfPrepend     \* may a program Prepend a vector to itself?

ASSUME VectorsAssumption ==
  /\ IsFiniteSet(Task) /\ IsFiniteSet(Vector) /\ IsFiniteSet(Cell)
  /\ Task \cap Vector = {}
  /\ Empty \notin Cell /\ Null \notin Cell /\ Empty # Null
  /\ Null \notin Vector /\ Null \notin String /\ Null \notin Seq(String)
  /\ MaxLength \in Nat /\ StaticSize \in Nat
  /\ GrowthFactor \in Nat \ {0} /\ MinMulAlloc \in Nat \ {0}
  /\ SelfPrepend \in BOOLEAN

VARIABLES
  data,      \* Universal_String_Vector.Data; Null while out of scope or released
  live,      \* the heap cells that are allocated
  counter,   \* Shared_String_Vector.Counter
  last,      \* Shared_String_Vector.Last
  value,     \* Shared_String_Vector.Value (0 .. Unused - 1)
  strings,   \* the counters of the strings; 0 is a deallocated one
  held,      \* the strings the program has a Universal_String of
  call       \* what each task is doing

vectors == <<live, counter, last, value>>
vars == <<data, vectors, strings, held, call>>

Items(r) == IF r \in Cell THEN value[r] ELSE <<>>

\* A call's op is what becomes of Self: an edit with item or other, or a share.
Idle == [pc     |-> "idle", op |-> "none", self |-> Null, from |-> Null,
         item   |-> Null,  other |-> Null, index |-> 0,
         source |-> Null,  target |-> Null, i |-> 0]

Go(t, c) == call' = [call EXCEPT ![t] = c]

Inserted(s, i, x) == SubSeq(s, 1, i) \o <<x>> \o SubSeq(s, i + 1, Len(s))

-----------------------------------------------------------------------------
\* Mutation of AlignedSize: the unit that rounding down loses is not added.
AlignedSizeTight(size) ==
  ((StaticSize + size + size \div GrowthFactor) \div MinMulAlloc) * MinMulAlloc
    - StaticSize

AlignedSize(size) ==
  ((StaticSize + size + size \div GrowthFactor) \div MinMulAlloc + 1)
    * MinMulAlloc - StaticSize

\* A new vector for size strings, with a copy of the access values of s.
Allocate(o, size, s) ==
  /\ o \notin live
  /\ live'    = live \cup {o}
  /\ counter' = [counter EXCEPT ![o] = 1]
  /\ last'    = [last    EXCEPT ![o] = AlignedSize(size)]
  /\ value'   = [value   EXCEPT ![o] = s]

\* Mutation of Suffices: the counter is not looked at.
SufficesShared(r, size) == r \in Cell /\ last[r] >= size

\* Detach does nothing: the vector has room and one reference.
Suffices(r, size) == r \in Cell /\ last[r] >= size /\ counter[r] = 1

\* Detach (Self, Size) up to its first look at the counter, of the call c.
Detach(t, c, size) ==
  LET s == data[c.self]
  IN  \/ /\ Suffices(s, size)
         /\ Go(t, [c EXCEPT !.pc = "store"])
         /\ UNCHANGED <<data, vectors>>
      \/ /\ ~Suffices(s, size)
         /\ \E o \in Cell :
              /\ Allocate(o, size, Items(s))
              /\ data' = [data EXCEPT ![c.self] = o]
         /\ Go(t, IF s = Empty THEN [c EXCEPT !.pc = "store"]
                               ELSE [c EXCEPT !.pc = "look", !.source = s])

-----------------------------------------------------------------------------
(***************************************************************************)
(* Calls.                                                                  *)
(***************************************************************************)
MayWrite(t, v) ==
  /\ call[t].pc = "idle"
  /\ \A u \in Task : v \notin {call[u].self, call[u].from}

MayRead(t, w) ==
  /\ call[t].pc = "idle"
  /\ data[w] # Null
  /\ \A u \in Task : call[u].self # w

\* A Universal_String is made of a new string.
NewString(s) ==
  /\ strings[s] = 0 /\ s \notin held
  /\ strings' = [strings EXCEPT ![s] = 1]
  /\ held'    = held \cup {s}
  /\ UNCHANGED <<data, vectors, call>>

\* A Universal_String, which no call has as its operand, is finalized.
ReleaseString(s) ==
  /\ s \in held
  /\ \A t \in Task : call[t].item # s
  /\ strings' = [strings EXCEPT ![s] = @ - 1]
  /\ held'    = held \ {s}
  /\ UNCHANGED <<data, vectors, call>>

\* Element: a Universal_String of a string in the vector.
Element(t, w, i) ==
  /\ MayRead(t, w)
  /\ i < Len(Items(data[w]))
  /\ LET s == Items(data[w])[i + 1]
     IN  /\ s \notin held
         /\ strings' = [strings EXCEPT ![s] = @ + 1]
         /\ held'    = held \cup {s}
  /\ UNCHANGED <<data, vectors, call>>

Declare(t, v) ==
  /\ MayWrite(t, v) /\ data[v] = Null
  /\ data' = [data EXCEPT ![v] = Empty]
  /\ UNCHANGED <<vectors, strings, held, call>>

\* Finalize (target Null), Clear (Empty) or v := w (that of w, referenced
\* afterwards): the vector of v is dereferenced first.
Share(t, v, w, target) ==
  /\ MayWrite(t, v) /\ data[v] # Null
  /\ Go(t, [Idle EXCEPT !.pc   = IF data[v] \in Cell THEN "drop" ELSE "bind",
                        !.op   = "share", !.self = v, !.from = w,
                        !.source = data[v], !.target = target])
  /\ data' = [data EXCEPT ![v] = Null]
  /\ UNCHANGED <<vectors, strings, held>>

Assign(t, v, w) == w # v /\ MayRead(t, w) /\ Share(t, v, w, data[w])

AppendItem(t, v, s) ==
  LET size == Len(Items(data[v])) + 1
  IN  /\ MayWrite(t, v) /\ data[v] # Null /\ s \in held
      /\ size <= MaxLength
      /\ Detach(t, [Idle EXCEPT !.op = "append", !.self = v, !.item = s], size)
      /\ UNCHANGED <<strings, held>>

\* Mutation of Insert: the string is not referenced.
InsertUncounted(t, v, i, s) ==
  /\ MayWrite(t, v) /\ data[v] # Null /\ s \in held
  /\ i <= Len(Items(data[v])) /\ Len(Items(data[v])) < MaxLength
  /\ Go(t, [Idle EXCEPT !.pc = "detach", !.op = "insert", !.self = v,
                        !.item = s, !.index = i])
  /\ UNCHANGED <<data, vectors, strings, held>>

\* Insert references the string first, and asks Detach for no more room than
\* the vector has in use: Value is one longer than Last.
Insert(t, v, i, s) ==
  /\ MayWrite(t, v) /\ data[v] # Null /\ s \in held
  /\ i <= Len(Items(data[v])) /\ Len(Items(data[v])) < MaxLength
  /\ strings' = [strings EXCEPT ![s] = @ + 1]
  /\ Go(t, [Idle EXCEPT !.pc = "detach", !.op = "insert", !.self = v,
                        !.item = s, !.index = i])
  /\ UNCHANGED <<data, vectors, held>>

DetachForInsert(t) ==
  LET c == call[t]
      n == Len(Items(data[c.self]))
  IN  /\ c.pc = "detach"
      /\ Detach(t, c, IF n = 0 THEN 1 ELSE n)
      /\ UNCHANGED <<strings, held>>

Replace(t, v, i, s) ==
  /\ MayWrite(t, v) /\ data[v] # Null /\ s \in held
  /\ i < Len(Items(data[v]))
  /\ Detach(t, [Idle EXCEPT !.op = "replace", !.self = v, !.item = s, !.index = i],
            Len(Items(data[v])))
  /\ UNCHANGED <<strings, held>>

\* Prepend (Self, Item); the operand is the vector Item has at the call.
Prepend(t, v, w) ==
  LET size == Len(Items(data[v])) + Len(Items(data[w]))
  IN  /\ MayWrite(t, v) /\ data[v] # Null /\ MayRead(t, w)
      /\ v = w => SelfPrepend
      /\ data[w] # Empty /\ size <= MaxLength
      /\ \/ /\ data[v] = Empty
            /\ Share(t, v, w, data[w])
         \/ /\ data[v] # Empty
            /\ Detach(t, [Idle EXCEPT !.op = "prepend", !.self = v, !.from = w,
                                      !.other = data[w]], size)
            /\ UNCHANGED <<strings, held>>

\* A Universal_String_Vector is declared with the strings first .. final - 1.
DeclareSlice(t, v, w, first, final) ==
  /\ MayWrite(t, v) /\ data[v] = Null /\ MayRead(t, w)
  /\ first < final /\ final <= Len(Items(data[w]))
  /\ \E o \in Cell :
       /\ Allocate(o, final - first, <<>>)
       /\ Go(t, [Idle EXCEPT !.pc = "slice", !.op = "slice", !.self = v, !.from = w,
                             !.source = data[w], !.target = o, !.index = final,
                             !.i = first])
  /\ UNCHANGED <<data, strings, held>>

-----------------------------------------------------------------------------
(***************************************************************************)
(* The rest of a call, one step per access to a shared cell.               *)
(***************************************************************************)

\* Mutation of Look: the strings are never referenced, whoever has them.
LookMoves(t) ==
  /\ call[t].pc = "look"
  /\ Go(t, [call[t] EXCEPT !.pc = "move"])
  /\ UNCHANGED <<data, vectors, strings, held>>

\* Detach's second look at the counter: with one reference left, the strings
\* are moved to the new vector, else they are copied.
Look(t) ==
  LET c == call[t]
  IN  /\ c.pc = "look"
      /\ Go(t, IF counter[c.source] = 1 THEN [c EXCEPT !.pc = "move"]
                                        ELSE [c EXCEPT !.pc = "copy", !.i = 0])
      /\ UNCHANGED <<data, vectors, strings, held>>

\* Detach references one of the strings it has copied.
CopyString(t) ==
  LET c == call[t]
      s == value[data[c.self]]
  IN  /\ c.pc = "copy"
      /\ strings' = [strings EXCEPT ![s[c.i + 1]] = @ + 1]
      /\ Go(t, [c EXCEPT !.i = @ + 1,
                         !.pc = IF c.i + 1 = Len(s) THEN "drop" ELSE "copy"])
      /\ UNCHANGED <<data, vectors, held>>

\* After a vector is dereferenced: Self is assigned, or the edit goes on.
Continue(c) ==
  [c EXCEPT !.pc = IF c.op = "share" THEN "bind" ELSE "store", !.source = Null, !.i = 0]

\* Mutation of Drop: the strings of a released vector keep their references.
DropLeaking(t) ==
  LET c == call[t]
  IN  /\ c.pc \in {"drop", "move"}
      /\ counter' = [counter EXCEPT ![c.source] = @ - 1]
      /\ Go(t, IF counter[c.source] # 1 THEN Continue(c) ELSE [c EXCEPT !.pc = "free"])
      /\ UNCHANGED <<data, live, last, value, strings, held>>

\* The atomic decrement of Dereference, and of Unsafe_Dereference ("move").
Drop(t) ==
  LET c == call[t]
  IN  /\ c.pc \in {"drop", "move"}
      /\ counter' = [counter EXCEPT ![c.source] = @ - 1]
      /\ Go(t, IF counter[c.source] # 1 THEN Continue(c)
               ELSE IF c.pc = "drop" THEN [c EXCEPT !.pc = "strings", !.i = 0]
                                     ELSE [c EXCEPT !.pc = "free"])
      /\ UNCHANGED <<data, live, last, value, strings, held>>

\* Dereference of a vector without references dereferences one of its strings.
DropString(t) ==
  LET c == call[t]
      s == value[c.source]
  IN  /\ c.pc = "strings"
      /\ strings' = [strings EXCEPT ![s[c.i + 1]] = @ - 1]
      /\ Go(t, [c EXCEPT !.i = @ + 1,
                         !.pc = IF c.i + 1 = Len(s) THEN "free" ELSE "strings"])
      /\ UNCHANGED <<data, vectors, held>>

Free(t) ==
  LET c == call[t]
  IN  /\ c.pc = "free"
      /\ live'  = live \ {c.source}
      /\ last'  = [last  EXCEPT ![c.source] = 0]
      /\ value' = [value EXCEPT ![c.source] = <<>>]
      /\ Go(t, Continue(c))
      /\ UNCHANGED <<data, counter, strings, held>>

\* Mutation of Bind: the vector is not referenced.
BindUncounted(t) ==
  /\ call[t].pc = "bind"
  /\ data' = [data EXCEPT ![call[t].self] = call[t].target]
  /\ Go(t, Idle)
  /\ UNCHANGED <<vectors, strings, held>>

\* Self is assigned and its vector referenced.
Bind(t) ==
  LET c == call[t]
  IN  /\ c.pc = "bind"
      /\ data'    = [data EXCEPT ![c.self] = c.target]
      /\ counter' = IF c.target \in Cell
                    THEN [counter EXCEPT ![c.target] = @ + 1] ELSE counter
      /\ Go(t, Idle)
      /\ UNCHANGED <<live, last, value, strings, held>>

\* Detach is over, and the vector is Self's own.
Storing(t, op) == call[t].pc = "store" /\ call[t].op = op

\* The items are stored in it, and the call goes on at pc.
Store(t, items, pc) ==
  LET c == call[t]
  IN  /\ value' = [value EXCEPT ![data[c.self]] = items]
      /\ Go(t, IF pc = "idle" THEN Idle ELSE [c EXCEPT !.pc = pc, !.index = 0])
      /\ UNCHANGED <<data, live, counter, last, held>>

StoreAppended(t) ==
  /\ Storing(t, "append")
  /\ Store(t, Append(value[data[call[t].self]], call[t].item), "refer")
  /\ UNCHANGED strings

StoreInserted(t) ==
  /\ Storing(t, "insert")
  /\ Store(t, Inserted(value[data[call[t].self]], call[t].index, call[t].item), "idle")
  /\ UNCHANGED strings

\* The string that is replaced, if it is another one, is dereferenced first.
StoreReplaced(t) ==
  LET c == call[t]
      s == value[data[c.self]]
      n == c.index + 1
  IN  /\ Storing(t, "replace")
      /\ \/ /\ s[n] = c.item
            /\ Store(t, s, "idle")
            /\ UNCHANGED strings
         \/ /\ s[n] # c.item
            /\ Store(t, [s EXCEPT ![n] = c.item], "refer")
            /\ strings' = [strings EXCEPT ![s[n]] = @ - 1]

StorePrepended(t) ==
  /\ Storing(t, "prepend")
  /\ Store(t, Items(call[t].other) \o value[data[call[t].self]], "spread")
  /\ UNCHANGED strings

\* Append and Replace reference the string they have stored.
Refer(t) ==
  LET c == call[t]
  IN  /\ c.pc = "refer"
      /\ strings' = [strings EXCEPT ![c.item] = @ + 1]
      /\ Go(t, Idle)
      /\ UNCHANGED <<data, vectors, held>>

\* Prepend references one of the strings that it has stored.
ReferPrepended(t) ==
  LET c == call[t]
  IN  /\ c.pc = "spread"
      /\ strings' = [strings EXCEPT ![value[data[c.self]][c.i + 1]] = @ + 1]
      /\ Go(t, IF c.i + 1 = Len(Items(c.other)) THEN Idle ELSE [c EXCEPT !.i = @ + 1])
      /\ UNCHANGED <<data, vectors, held>>

\* Slice references a string and stores it; with the last one, Self is declared.
SliceString(t) ==
  LET c == call[t]
      s == Items(c.source)[c.i + 1]
  IN  /\ c.pc = "slice"
      /\ strings' = [strings EXCEPT ![s] = @ + 1]
      /\ value'   = [value EXCEPT ![c.target] = Append(@, s)]
      /\ \/ /\ c.i + 1 < c.index
            /\ Go(t, [c EXCEPT !.i = @ + 1])
            /\ UNCHANGED data
         \/ /\ c.i + 1 = c.index
            /\ data' = [data EXCEPT ![c.self] = c.target]
            /\ Go(t, Idle)
      /\ UNCHANGED <<live, counter, last, held>>

-----------------------------------------------------------------------------
Init ==
  /\ data    = [v \in Vector |-> Null]
  /\ live    = {}
  /\ counter = [o \in Cell |-> 0]
  /\ last    = [o \in Cell |-> 0]
  /\ value   = [o \in Cell |-> <<>>]
  /\ strings = [s \in String |-> 0]
  /\ held    = {}
  /\ call    = [t \in Task |-> Idle]

Start(t) ==
  \E v \in Vector :
    \/ Declare(t, v)
    \/ Share(t, v, Null, Null)
    \/ Share(t, v, Null, Empty)
    \/ \E w \in Vector : Assign(t, v, w)
    \/ \E s \in String : AppendItem(t, v, s)
    \/ \E s \in String, i \in 0 .. MaxLength : Insert(t, v, i, s)
    \/ \E s \in String, i \in 0 .. MaxLength : Replace(t, v, i, s)
    \/ \E w \in Vector : Prepend(t, v, w)
    \/ \E w \in Vector, i, j \in 0 .. MaxLength : DeclareSlice(t, v, w, i, j)
    \/ \E i \in 0 .. MaxLength : Element(t, v, i)

Step(t) ==
  \/ DetachForInsert(t) \/ Look(t) \/ CopyString(t)
  \/ Drop(t) \/ DropString(t) \/ Free(t) \/ Bind(t)
  \/ StoreAppended(t) \/ StoreInserted(t) \/ StoreReplaced(t) \/ StorePrepended(t)
  \/ Refer(t) \/ ReferPrepended(t) \/ SliceString(t)

Next ==
  \/ \E s \in String : NewString(s) \/ ReleaseString(s)
  \/ \E t \in Task : Start(t) \/ Step(t)

Spec == Init /\ [][Next]_vars

-----------------------------------------------------------------------------
(***************************************************************************)
(* Properties.                                                             *)
(***************************************************************************)

\* Every variable keeps the type its declaration in the source gives it.
TypeOK ==
  LET Ref == Cell \cup {Empty, Null}
  IN  /\ data \in [Vector -> Ref]
      /\ live \subseteq Cell
      /\ counter \in [Cell -> Nat] /\ last \in [Cell -> Nat]
      /\ \A o \in Cell : value[o] \in Seq(String)
      /\ strings \in [String -> Nat]
      /\ held \subseteq String
      /\ \A t \in Task :
           /\ call[t].self \in Vector \cup {Null} /\ call[t].from \in Vector \cup {Null}
           /\ call[t].item \in String \cup {Null}
           /\ {call[t].other, call[t].source, call[t].target} \subseteq Ref

\* A vector that an object has, or that a running call will still read or
\* release, is allocated.
VectorsAreAllocated ==
  /\ \A v \in Vector : data[v] \in live \cup {Empty, Null}
  /\ \A t \in Task :
       LET c == call[t]
       IN  /\ c.pc \in {"look", "copy", "drop", "move", "strings", "free", "slice"} =>
                c.source \in live
           /\ c.pc \in {"look", "copy", "drop", "move", "strings", "free", "store",
                        "spread"} /\ c.op = "prepend" => c.other \in live
           /\ c.target \in live \cup {Empty, Null}

\* Every string that an object, directly or in its vector, gives access to is
\* allocated, whichever calls are taking vectors apart.
StringsAreAllocated ==
  /\ \A s \in held : strings[s] > 0
  /\ \A v \in Vector : \A i \in 1 .. Len(Items(data[v])) : strings[Items(data[v])[i]] > 0

\* A store stays inside of the vector, whose Value has Last + 1 components.
RoomForItems == \A o \in live : Len(value[o]) <= last[o] + 1

\* Whenever no call is running, both levels of counters are exact.
CountersAgree ==
  (\A t \in Task : call[t].pc = "idle") =>
    /\ \A o \in Cell :
         /\ o \in live => counter[o] > 0
         /\ counter[o] = Cardinality({v \in Vector : data[v] = o})
    /\ \A s \in String :
         strings[s] = Cardinality({p \in Cell \X (1 .. MaxLength) :
                                     p[2] <= Len(value[p[1]]) /\ value[p[1]][p[2]] = s})
                        + (IF s \in held THEN 1 ELSE 0)
=============================================================================
