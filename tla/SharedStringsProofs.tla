------------------------- MODULE SharedStringsProofs -------------------------
(***************************************************************************)
(* The safety of the shared strings, for any number of tasks, objects and  *)
(* segments and for texts of any length: no segment is used after it is    *)
(* deallocated and no shared segment is changed, unless a program replaces *)
(* a whole string by that very object.  Then, as long as no Append raises, *)
(* nothing leaks, and every string is a value of its own.                  *)
(***************************************************************************)
EXTENDS StringsRefinement, SharedStringsInvariant, FiniteSetTheorems, TLAPS

-----------------------------------------------------------------------------
(***************************************************************************)
(* Counting holders.                                                       *)
(***************************************************************************)

\* A part of a finite set has no more elements than the set.
LEMMA CardSubset ==
  ASSUME NEW T, IsFiniteSet(T), NEW S, S \subseteq T
  PROVE  IsFiniteSet(S) /\ Cardinality(S) \in Nat /\ Cardinality(S) <= Cardinality(T)
BY FS_Subset, FS_CardinalityType

\* Taking an element away makes a set smaller.
LEMMA CardRemove ==
  ASSUME NEW T, IsFiniteSet(T), NEW x \in T, NEW S, S \subseteq T \ {x}
  PROVE  Cardinality(S) <= Cardinality(T) - 1
<1>1. /\ IsFiniteSet(T \ {x})
      /\ Cardinality(T \ {x}) = Cardinality(T) - 1
  BY FS_RemoveElement
<1> QED  BY <1>1, CardSubset, FS_CardinalityType

\* One new element makes a set larger by one at most.
LEMMA CardAdd ==
  ASSUME NEW T, IsFiniteSet(T), NEW x, NEW S, S \subseteq T \cup {x}
  PROVE  Cardinality(S) <= Cardinality(T) + 1
<1>1. /\ IsFiniteSet(T \cup {x})
      /\ Cardinality(T \cup {x}) <= Cardinality(T) + 1
  <2>1. /\ IsFiniteSet(T \cup {x})
        /\ Cardinality(T \cup {x}) =
             IF x \in T THEN Cardinality(T) ELSE Cardinality(T) + 1
    BY FS_AddElement, Zenon
  <2>2. Cardinality(T) \in Nat
    BY FS_CardinalityType
  <2> QED  BY <2>1, <2>2
<1> QED  BY <1>1, CardSubset, FS_CardinalityType

\* One element in the place of another makes a set no larger.
LEMMA CardReplace ==
  ASSUME NEW T, IsFiniteSet(T), NEW x \in T, NEW y, NEW S,
         S \subseteq (T \ {x}) \cup {y}
  PROVE  Cardinality(S) <= Cardinality(T)
<1>1. /\ IsFiniteSet(T \ {x})
      /\ Cardinality(T \ {x}) = Cardinality(T) - 1
  BY FS_RemoveElement
<1>2. Cardinality(S) <= Cardinality(T \ {x}) + 1
  BY <1>1, CardAdd
<1> QED  BY <1>1, <1>2, CardAdd, CardSubset, FS_CardinalityType, FS_AddElement, FS_Subset

\* A set with two elements has a cardinality of two or more.
LEMMA CardTwo ==
  ASSUME NEW T, IsFiniteSet(T), NEW x \in T, NEW y \in T, x # y
  PROVE  Cardinality(T) >= 2
<1>1. /\ IsFiniteSet(T \ {x})
      /\ Cardinality(T \ {x}) = Cardinality(T) - 1
  BY FS_RemoveElement
<1>2. Cardinality(T \ {x}) >= 1
  BY <1>1, FS_EmptySet, FS_CardinalityType
<1> QED  BY <1>1, <1>2, FS_CardinalityType

\* The holders of a segment are finitely many.
LEMMA HoldersFinite ==
  ASSUME NEW o
  PROVE  IsFiniteSet(Holders(o)) /\ Cardinality(Holders(o)) \in Nat
<1>1. IsFiniteSet(Var \cup Task)
  BY ConstantsAssumption, FS_Union
<1>2. Holders(o) \subseteq Var \cup Task
  BY DEF Holders
<1> QED  BY <1>1, <1>2, FS_Subset, FS_CardinalityType

\* The same in the next state.
LEMMA HoldersFinitePrime ==
  ASSUME NEW o
  PROVE  IsFiniteSet(Holders(o)') /\ Cardinality(Holders(o)') \in Nat
<1>1. IsFiniteSet(Var \cup Task)
  BY ConstantsAssumption, FS_Union
<1>2. Holders(o)' \subseteq Var \cup Task
  BY DEF Holders
<1> QED  BY <1>1, <1>2, FS_Subset, FS_CardinalityType

-----------------------------------------------------------------------------
(***************************************************************************)
(* Aligned_Size and the texts.                                             *)
(***************************************************************************)

\* Aligned_Size, which rounds the bytes of a segment up to the allocation unit
\* with some room to grow, always leaves room for the null terminator.
LEMMA AlignedSizeRoom ==
  ASSUME NEW size \in Nat
  PROVE  AlignedSize(size) \in Int /\ AlignedSize(size) > size
<1> DEFINE bytes == StaticSize + size + size \div GrowthFactor
<1>1. size \div GrowthFactor \in Nat
  BY ConstantsAssumption
<1>2. bytes \in Nat /\ bytes >= StaticSize + size
  BY <1>1, ConstantsAssumption
<1>3. ASSUME NEW b \in Nat
      PROVE  /\ b \div MinMulAlloc \in Nat
             /\ (b \div MinMulAlloc + 1) * MinMulAlloc \in Int
             /\ (b \div MinMulAlloc + 1) * MinMulAlloc > b
  BY ConstantsAssumption
<1> HIDE DEF bytes
<1>4. (bytes \div MinMulAlloc + 1) * MinMulAlloc > StaticSize + size
  BY <1>2, <1>3, ConstantsAssumption
<1>5. AlignedSize(size) = (bytes \div MinMulAlloc + 1) * MinMulAlloc - StaticSize
  BY DEF AlignedSize, bytes
<1> QED  BY <1>2, <1>3, <1>4, <1>5, ConstantsAssumption

\* An edit of a part that is there makes a text out of texts.
LEMMA EditedText ==
  ASSUME NEW s \in Texts, NEW by \in Texts, NEW e \in Edit,
         e.first + e.size <= Len(s)
  PROVE  Spliced(s, e, by) \in Texts /\ Kept(s, e) \in Texts
<1>1. e.first \in Nat /\ e.size \in Nat
  BY DEF Edit
<1>2. SubSeq(s, 1, e.first) \in Seq(Char)
  BY <1>1 DEF Texts
<1>3. SubSeq(s, e.first + e.size + 1, Len(s)) \in Seq(Char)
  BY <1>1 DEF Texts
<1>4. SubSeq(s, e.first + 1, e.first + e.size) \in Seq(Char)
  BY <1>1 DEF Texts
<1> QED  BY <1>2, <1>3, <1>4 DEF Texts, Spliced, Kept

\* It has the length that New_Size is set to, or that of the slice.
LEMMA EditedLength ==
  ASSUME NEW s \in Texts, NEW by \in Texts, NEW e \in Edit,
         e.first + e.size <= Len(s)
  PROVE  /\ Len(Spliced(s, e, by)) = Len(s) - e.size + Len(by)
         /\ Len(Kept(s, e)) = e.size
<1>1. e.first \in Nat /\ e.size \in Nat /\ Len(s) \in Nat /\ Len(by) \in Nat
  BY DEF Edit, Texts
<1>2. SubSeq(s, 1, e.first) \in Seq(Char) /\ Len(SubSeq(s, 1, e.first)) = e.first
  BY <1>1 DEF Texts
<1>3. /\ SubSeq(s, e.first + e.size + 1, Len(s)) \in Seq(Char)
      /\ Len(SubSeq(s, e.first + e.size + 1, Len(s))) = Len(s) - e.first - e.size
  BY <1>1 DEF Texts
<1>4. Len(SubSeq(s, e.first + 1, e.first + e.size)) = e.size
  BY <1>1 DEF Texts
<1>5. \A p, q, r \in Seq(Char) : Len(p \o q \o r) = Len(p) + Len(q) + Len(r)
  OBVIOUS
<1>6. Len(Spliced(s, e, by)) = e.first + Len(by) + (Len(s) - e.first - e.size)
  BY <1>2, <1>3, <1>5 DEF Texts, Spliced
<1> QED  BY <1>1, <1>4, <1>6 DEF Kept

\* So the length of what a call will store is known when the call starts.
LEMMA OutcomeLength ==
  ASSUME TypeOK, NEW from \in Ref, NEW w \in Var \cup {Null}, NEW e \in Edit,
         e.first + e.size <= Len(Text(from))
  PROVE  /\ e.kind = "slice" => Len(Outcome(from, w, e)) = e.size
         /\ e.kind # "slice" /\ w = Null =>
              Len(Outcome(from, w, e)) = Len(Text(from)) - e.size + Len(e.code)
         /\ e.kind # "slice" /\ w # Null =>
              Len(Outcome(from, w, e)) = Len(Text(from)) - e.size + Len(Text(data[w]))
<1>1. Text(from) \in Texts /\ e.code \in Texts
  BY DEF TypeOK, Text, Texts, Ref, Shared, Edit
<1>2. w # Null => Text(data[w]) \in Texts
  BY DEF TypeOK, Text, Texts
<1>3. CASE e.kind = "slice"
  BY <1>1, <1>3, EditedLength DEF Outcome
<1>4. CASE e.kind # "slice"
  BY <1>1, <1>2, <1>4, EditedLength DEF Outcome
<1> QED  BY <1>3, <1>4

\* The same for a call without an operand.
LEMMA OutcomeLengthCode ==
  ASSUME TypeOK, NEW from \in Ref, NEW e \in Edit,
         e.first + e.size <= Len(Text(from))
  PROVE  /\ e.kind = "slice" => Len(Outcome(from, Null, e)) = e.size
         /\ e.kind # "slice" =>
              Len(Outcome(from, Null, e)) = Len(Text(from)) - e.size + Len(e.code)
<1>1. PICK w \in Var \cup {Null} : w = Null
  OBVIOUS
<1> QED  BY <1>1, OutcomeLength

-----------------------------------------------------------------------------
(***************************************************************************)
(* Every call starts in one of six ways.                                   *)
(***************************************************************************)

\* The operand w, if the call has one, may be read.
Readable(t, w) == w \in Var => MayRead(t, w)

\* An edit that is no slice changes the text of v itself, which is in scope, and
\* puts in the text of the operand or, when there is none, a character.
EditAsked(v, w, e, from) ==
  e.kind # "slice" =>
    /\ from = data[v] /\ data[v] # Null
    /\ w = Null => \E ch \in Char : e.code = <<ch>>
    /\ e.kind = "append" => w = Null /\ e.first = Len(Text(data[v])) /\ e.size = 0

SharesTarget(t) ==
  \E v \in Var, w \in Var \cup {Null}, target \in Ref :
    /\ MayWrite(t, v) /\ Readable(t, w)
    /\ target \in {Empty, Null} \/ (w \in Var /\ w # v /\ target = data[w])
    /\ Rebind(t, v, w, target)

EditsAlone(t) ==
  \E v \in Var, w \in Var \cup {Null}, e \in Edit :
    /\ MayWrite(t, v) /\ Readable(t, w)
    /\ data[v] \in Object /\ counter[data[v]] = 1
    /\ EditAsked(v, w, e, data[v])
    /\ e.first + e.size <= Len(Text(data[v]))
    /\ Len(Outcome(data[v], w, e)) \in 1 .. capacity[data[v]]
    /\ call' = [call EXCEPT ![t] =
         [Idle EXCEPT !.pc = "edit", !.self = v, !.item = w,
                      !.from = data[v], !.new = data[v], !.edit = e]]
    /\ UNCHANGED <<data, heap>>

Copies(t) ==
  \E c \in Calls, size \in Nat :
    /\ c.self \in Var /\ MayWrite(t, c.self) /\ Readable(t, c.item)
    /\ c.from = data[c.self] \/ (c.item \in Var /\ c.from = data[c.item])
    /\ c.old = data[c.self] \/ (c.old = Null /\ Text(data[c.self]) = <<>>)
    /\ EditAsked(c.self, c.item, c.edit, c.from)
    /\ c.edit.first + c.edit.size <= Len(Text(c.from))
    /\ Len(Outcome(c.from, c.item, c.edit)) \in 1 .. size
    /\ CopyTo(t, c, size)

ReferencesAll(t) ==
  \E v \in Var, e \in Edit :
    /\ MayWrite(t, v) /\ data[v] \in Object
    /\ counter' = [counter EXCEPT ![data[v]] = @ + 1]
    /\ call' = [call EXCEPT ![t] =
         [Idle EXCEPT !.pc = "drop", !.self = v, !.from = data[v],
                      !.old = data[v], !.new = data[v], !.edit = e]]
    /\ UNCHANGED <<data, live, value, capacity, indexMap>>

\* The idle call, and the call records made of typed values, are typed.
LEMMA IdleIsCall == Idle \in Calls
<1>1. <<>> \in Texts /\ Null \in Ref
  BY DEF Texts, Ref
<1>2. NoEdit \in Edit
  BY <1>1 DEF NoEdit, Edit
<1> QED  BY <1>1, <1>2 DEF Idle, Calls

\* So is an idle call with some of its fields set, which every call starts as.
LEMMA IdleType ==
  ASSUME NEW v \in Var, NEW w \in Var \cup {Null}, NEW e \in Edit,
         NEW from \in Ref, NEW old \in Ref
  PROVE  /\ [Idle EXCEPT !.self = v, !.item = w, !.from = from, !.edit = e] \in Calls
         /\ [Idle EXCEPT !.self = v, !.from = from, !.edit = e] \in Calls
         /\ [Idle EXCEPT !.self = v, !.from = from, !.old = old, !.edit = e] \in Calls
         /\ [Idle EXCEPT !.self = v, !.item = w, !.from = from, !.edit = e,
                         !.old = old] \in Calls
BY IdleIsCall DEF Calls

\* Mutate edits in place or copies.
LEMMA MutateForms ==
  ASSUME TypeOK, NEW t \in Task, NEW v \in Var, NEW w \in Var \cup {Null},
         NEW size \in Nat, NEW e \in Edit,
         MayWrite(t, v), Readable(t, w), EditAsked(v, w, e, data[v]),
         e.first + e.size <= Len(Text(data[v])),
         Len(Outcome(data[v], w, e)) \in 1 .. size,
         Mutate(t, v, w, size, e)
  PROVE  EditsAlone(t) \/ Copies(t)
<1>1. data[v] \in Ref
  BY DEF TypeOK
<1>2. CASE CanBeReused(data[v], size)
  <2>1. /\ data[v] \in Object /\ counter[data[v]] = 1 /\ capacity[data[v]] \in Nat
        /\ Len(Outcome(data[v], w, e)) \in 1 .. capacity[data[v]]
    BY <1>2 DEF CanBeReused, TypeOK
  <2> QED  BY <1>2, <2>1 DEF Mutate, EditsAlone, Idle
<1>3. CASE ~CanBeReused(data[v], size)
  <2> DEFINE c == [Idle EXCEPT !.self = v, !.item = w, !.from = data[v], !.edit = e,
                               !.old = data[v]]
  <2>1. CopyTo(t, c, size)
    BY <1>3 DEF Mutate, Idle
  <2>2. c \in Calls
    BY <1>1, IdleType
  <2>3. c.self = v /\ c.item = w /\ c.from = data[v] /\ c.old = data[v] /\ c.edit = e
    BY DEF Idle
  <2> HIDE DEF c
  <2> QED  BY <1>1, <2>1, <2>2, <2>3 DEF Copies
<1> QED  BY <1>2, <1>3

\* The text of an object is a text.
LEMMA TextType ==
  ASSUME TypeOK, NEW r \in Ref
  PROVE  Text(r) \in Texts /\ Len(Text(r)) \in Nat
BY DEF TypeOK, Text, Texts, Ref, Shared

\* A call that starts shares a segment, edits one in place, copies one, or
\* references its own once more.
LEMMA StartForms ==
  ASSUME ~SelfReplace, TypeOK, NEW t \in Task, Start(t)
  PROVE  \/ \E v \in Var : Declare(t, v)
         \/ \E w \in Var : ComputeIndexMap(t, w)
         \/ SharesTarget(t) \/ EditsAlone(t) \/ Copies(t) \/ ReferencesAll(t)
<1> DEFINE Form == \/ \E v \in Var : Declare(t, v)
                   \/ \E w \in Var : ComputeIndexMap(t, w)
                   \/ SharesTarget(t) \/ EditsAlone(t) \/ Copies(t) \/ ReferencesAll(t)
<1> SUFFICES Form
  OBVIOUS
<1> HIDE DEF Form
<1>typ. \A v \in Var : data[v] \in Ref /\ Text(data[v]) \in Texts /\ Len(Text(data[v])) \in Nat
  BY TextType DEF TypeOK
<1>null. Null \in Ref /\ Empty \in Ref /\ Null \in Var \cup {Null}
  BY DEF Ref, Shared
<1>max. \A n \in 0 .. MaxLength : n \in Nat
  BY ConstantsAssumption
<1>empty. <<>> \in Texts
  BY DEF Texts
<1>1. ASSUME NEW v \in Var, Finalize(t, v) \/ Clear(t, v)
      PROVE  Form
  BY <1>1, <1>null, ConstantsAssumption DEF Finalize, Clear, SharesTarget, Readable, Form
<1>2. ASSUME NEW v \in Var, NEW c \in Char, AppendCode(t, v, c)
      PROVE  Form
  <2> DEFINE e == [kind |-> "append", first |-> Len(Text(data[v])), size |-> 0, code |-> <<c>>]
  <2>1. e \in Edit
    BY <1>typ DEF Edit, Texts
  <2>2. /\ e.first + e.size <= Len(Text(data[v]))
        /\ e.kind # "slice" /\ e.size = 0 /\ Len(e.code) = 1
    BY <1>typ
  <2>3. MayWrite(t, v) /\ Readable(t, Null) /\ Mutate(t, v, Null, Len(Text(data[v])) + 1, e)
    BY <1>2, ConstantsAssumption DEF AppendCode, Readable
  <2>5. EditAsked(v, Null, e, data[v])
    BY <1>2 DEF EditAsked, AppendCode, MayRead
  <2> HIDE DEF e
  <2>4. Len(Outcome(data[v], Null, e)) \in 1 .. Len(Text(data[v])) + 1
    <3>1. data[v] \in Ref /\ Len(Text(data[v])) \in Nat
      BY <1>typ
    <3>2. Len(Outcome(data[v], Null, e)) = Len(Text(data[v])) - e.size + Len(e.code)
      BY <2>1, <2>2, <3>1, OutcomeLengthCode
    <3> QED  BY <2>2, <3>1, <3>2
  <2> QED  BY <1>typ, <2>1, <2>2, <2>3, <2>4, <2>5, MutateForms DEF Form
<1>3. ASSUME NEW v \in Var, NEW c \in Char, PrependCode(t, v, c)
      PROVE  Form
  <2> DEFINE e == [kind |-> "splice", first |-> 0, size |-> 0, code |-> <<c>>]
  <2>1. e \in Edit
    BY DEF Edit, Texts
  <2>2. /\ e.first + e.size <= Len(Text(data[v]))
        /\ e.kind # "slice" /\ e.size = 0 /\ Len(e.code) = 1
    BY <1>typ
  <2>3. MayWrite(t, v) /\ Readable(t, Null)
    BY <1>3, ConstantsAssumption DEF PrependCode, Readable
  <2>4. \/ Mutate(t, v, Null, Len(Text(data[v])) + 1, e)
        \/ /\ Text(data[v]) = <<>>
           /\ CopyTo(t, [Idle EXCEPT !.self = v, !.from = data[v], !.edit = e], 2)
    BY <1>3 DEF PrependCode
  <2>8. EditAsked(v, Null, e, data[v])
    BY <1>3 DEF EditAsked, PrependCode, MayRead
  <2> HIDE DEF e
  <2>5. Len(Outcome(data[v], Null, e)) \in 1 .. Len(Text(data[v])) + 1
    <3>1. data[v] \in Ref /\ Len(Text(data[v])) \in Nat
      BY <1>typ
    <3>2. Len(Outcome(data[v], Null, e)) = Len(Text(data[v])) - e.size + Len(e.code)
      BY <2>1, <2>2, <3>1, OutcomeLengthCode
    <3> QED  BY <2>2, <3>1, <3>2
  <2>6. CASE Mutate(t, v, Null, Len(Text(data[v])) + 1, e)
    BY <1>typ, <2>1, <2>2, <2>3, <2>5, <2>6, <2>8, MutateForms DEF Form
  <2>7. CASE /\ Text(data[v]) = <<>>
             /\ CopyTo(t, [Idle EXCEPT !.self = v, !.from = data[v], !.edit = e], 2)
    <3> DEFINE k == [Idle EXCEPT !.self = v, !.from = data[v], !.edit = e]
    <3>1. k \in Calls
      BY <1>typ, <1>null, <2>1, IdleType
    <3>2. k.self = v /\ k.item = Null /\ k.from = data[v] /\ k.old = Null /\ k.edit = e
      BY DEF Idle
    <3>3. CopyTo(t, k, 2)
      BY <2>7
    <3>4. Len(Outcome(data[v], Null, e)) \in 1 .. 2
      <4>1. Len(Text(data[v])) = 0
        BY <2>7
      <4> QED  BY <2>5, <4>1
    <3> HIDE DEF k
    <3>5. Copies(t)
      BY <2>2, <2>3, <2>7, <2>8, <3>1, <3>2, <3>3, <3>4 DEF Copies
    <3> QED  BY <3>5 DEF Form
  <2> QED  BY <2>4, <2>6, <2>7
<1>4. ASSUME NEW v \in Var, NEW w \in Var, Assign(t, v, w)
      PROVE  Form
  BY <1>4, <1>typ DEF Assign, SharesTarget, Readable, Form
<1>5. ASSUME NEW v \in Var, NEW w \in Var, AppendItem(t, v, w)
      PROVE  Form
  <2> DEFINE s == Text(data[v])
             i == Text(data[w])
             e == [kind |-> "splice", first |-> Len(s), size |-> 0, code |-> <<>>]
  <2>1. e \in Edit /\ e.first + e.size <= Len(s)
    BY <1>typ, <1>empty DEF Edit
  <2>2. MayWrite(t, v) /\ Readable(t, w)
    BY <1>5 DEF AppendItem, Readable
  <2>3. \/ Rebind(t, v, w, Empty)
        \/ i # <<>> /\ s = <<>> /\ Rebind(t, v, w, data[w])
        \/ i # <<>> /\ Mutate(t, v, w, Len(s) + Len(i), e)
    BY <1>5 DEF AppendItem
  <2>4. CASE Rebind(t, v, w, Empty)
    BY <1>null, <2>2, <2>4 DEF SharesTarget, Form
  <2>5. CASE i # <<>> /\ s = <<>> /\ Rebind(t, v, w, data[w])
    BY <1>typ, <2>2, <2>5 DEF SharesTarget, Form
  <2>6. CASE i # <<>> /\ Mutate(t, v, w, Len(s) + Len(i), e)
    <3>1. e.kind # "slice" /\ e.size = 0 /\ w # Null
      BY ConstantsAssumption
    <3>3. EditAsked(v, w, e, data[v])
      BY <1>5, <3>1 DEF EditAsked, AppendItem, MayRead
    <3> HIDE DEF e
    <3>2. Len(Outcome(data[v], w, e)) \in 1 .. Len(s) + Len(i)
      BY <1>typ, <2>1, <2>6, <3>1, OutcomeLength DEF Texts
    <3> QED  BY <1>typ, <2>1, <2>2, <2>6, <3>2, <3>3, MutateForms DEF Form
  <2> QED  BY <2>3, <2>4, <2>5, <2>6
<1>6. ASSUME NEW v \in Var, NEW w \in Var, PrependItem(t, v, w)
      PROVE  Form
  <2> DEFINE s == Text(data[v])
             i == Text(data[w])
             e == [kind |-> "splice", first |-> 0, size |-> 0, code |-> <<>>]
  <2>1. e \in Edit /\ e.first + e.size <= Len(s)
    BY <1>typ, <1>empty DEF Edit
  <2>2. MayWrite(t, v) /\ Readable(t, w)
    BY <1>6 DEF PrependItem, Readable
  <2>3. \/ i # <<>> /\ s = <<>> /\ Rebind(t, v, w, data[w])
        \/ i # <<>> /\ Mutate(t, v, w, Len(s) + Len(i), e)
    BY <1>6 DEF PrependItem
  <2>4. CASE i # <<>> /\ s = <<>> /\ Rebind(t, v, w, data[w])
    BY <1>typ, <2>2, <2>4 DEF SharesTarget, Form
  <2>5. CASE i # <<>> /\ Mutate(t, v, w, Len(s) + Len(i), e)
    <3>1. e.kind # "slice" /\ e.size = 0 /\ w # Null
      BY ConstantsAssumption
    <3>3. EditAsked(v, w, e, data[v])
      BY <1>6, <3>1 DEF EditAsked, PrependItem, MayRead
    <3> HIDE DEF e
    <3>2. Len(Outcome(data[v], w, e)) \in 1 .. Len(s) + Len(i)
      BY <1>typ, <2>1, <2>5, <3>1, OutcomeLength DEF Texts
    <3> QED  BY <1>typ, <2>1, <2>2, <2>5, <3>2, <3>3, MutateForms DEF Form
  <2> QED  BY <2>3, <2>4, <2>5
<1>7. ASSUME NEW v \in Var, NEW w \in Var,
             NEW first \in 0 .. MaxLength, NEW size \in 0 .. MaxLength,
             Replace(t, v, w, first, size)
      PROVE  Form
  <2> DEFINE s       == Text(data[v])
             by      == Text(data[w])
             newSize == Len(s) - size + Len(by)
             e == [kind |-> "splice", first |-> first, size |-> size, code |-> <<>>]
  <2>1. e \in Edit
    BY <1>max, <1>empty DEF Edit
  <2>2. /\ MayWrite(t, v) /\ Readable(t, w)
        /\ first + size <= Len(s)
        /\ v = w /\ s # <<>> => size # Len(s)
    BY <1>7 DEF Replace, Readable
  <2>3. \/ Rebind(t, v, w, Empty)
        \/ newSize # 0 /\ Len(by) = newSize /\ Rebind(t, v, w, data[w])
        \/ newSize # 0 /\ Mutate(t, v, w, newSize, e)
    BY <1>7 DEF Replace
  <2>4. CASE Rebind(t, v, w, Empty)
    BY <1>null, <2>2, <2>4 DEF SharesTarget, Form
  <2>5. CASE newSize # 0 /\ Len(by) = newSize /\ Rebind(t, v, w, data[w])
    <3>1. size = Len(s) /\ Len(by) # 0
      BY <1>typ, <1>max, <2>5
    <3>2. v = w => s = <<>> /\ Len(s) # 0
      BY <2>2, <3>1
    <3>3. v # w
      BY <3>2
    <3> QED  BY <1>typ, <2>2, <2>5, <3>3 DEF SharesTarget, Form
  <2>6. CASE newSize # 0 /\ Mutate(t, v, w, newSize, e)
    <3>1. newSize \in Nat
      BY <1>typ, <1>max, <2>2
    <3>2. e.first + e.size <= Len(s) /\ e.kind # "slice" /\ e.size = size /\ w # Null
      BY <2>2, ConstantsAssumption
    <3>6. EditAsked(v, w, e, data[v])
      BY <1>7, <3>2 DEF EditAsked, Replace, MayRead
    <3>3. newSize = Len(s) - size + Len(by)
      OBVIOUS
    <3> HIDE DEF e, newSize
    <3>4. Len(Outcome(data[v], w, e)) = newSize
      BY <1>typ, <2>1, <3>2, <3>3, OutcomeLength
    <3>5. Len(Outcome(data[v], w, e)) \in 1 .. newSize
      BY <2>6, <3>1, <3>4
    <3> QED  BY <2>1, <2>2, <2>6, <3>1, <3>2, <3>5, <3>6, MutateForms DEF Form
  <2> QED  BY <2>3, <2>4, <2>5, <2>6
<1>8. ASSUME NEW v \in Var, NEW first \in 0 .. MaxLength, NEW size \in 0 .. MaxLength,
             SliceSelf(t, v, first, size)
      PROVE  Form
  <2> DEFINE s == Text(data[v])
             e == [kind |-> "slice", first |-> first, size |-> size, code |-> <<>>]
             c == [Idle EXCEPT !.self = v, !.from = data[v], !.old = data[v], !.edit = e]
  <2>1. e \in Edit /\ e.first + e.size <= Len(s) /\ e.kind = "slice" /\ e.size = size
    BY <1>8, <1>max, <1>empty DEF Edit, SliceSelf
  <2>0. size > 0
    BY <1>8 DEF SliceSelf
  <2>2. MayWrite(t, v) /\ Readable(t, Null) /\ s # <<>>
    BY <1>8, <1>max, ConstantsAssumption DEF SliceSelf, Readable
  <2>3. data[v] \in Object
    BY <2>2 DEF Text
  <2>4. CASE size = Len(s)
    <3>1. [c EXCEPT !.pc = "drop", !.new = data[v]]
            = [Idle EXCEPT !.pc = "drop", !.self = v, !.from = data[v],
                           !.old = data[v], !.new = data[v], !.edit = e]
      BY DEF Idle
    <3>2. /\ counter' = [counter EXCEPT ![data[v]] = @ + 1]
          /\ call' = [call EXCEPT ![t] = [c EXCEPT !.pc = "drop", !.new = data[v]]]
          /\ UNCHANGED <<data, live, value, capacity, indexMap>>
      BY <1>8, <2>4 DEF SliceSelf
    <3> HIDE DEF e, c
    <3>3. ReferencesAll(t)
      BY <2>1, <2>2, <2>3, <3>1, <3>2 DEF ReferencesAll
    <3> QED  BY <3>3 DEF Form
  <2>5. CASE size # Len(s)
    <3>1. c.self = v /\ c.item = Null /\ c.from = data[v] /\ c.old = data[v] /\ c.edit = e
      BY DEF Idle
    <3>2. CopyTo(t, c, size)
      BY <1>8, <2>5 DEF SliceSelf
    <3> HIDE DEF e
    <3>4. c \in Calls
      BY <1>typ, <2>1, IdleType
    <3>5. Len(Outcome(data[v], Null, e)) \in 1 .. size
      BY <1>typ, <1>max, <2>0, <2>1, OutcomeLengthCode
    <3> HIDE DEF c
    <3>3. Copies(t)
      BY <1>max, <2>1, <2>2, <3>1, <3>2, <3>4, <3>5 DEF Copies, EditAsked
    <3> QED  BY <3>3 DEF Form
  <2> QED  BY <2>4, <2>5
<1>9. ASSUME NEW v \in Var, NEW w \in Var,
             NEW first \in 0 .. MaxLength, NEW size \in 0 .. MaxLength,
             DeclareSlice(t, v, w, first, size)
      PROVE  Form
  <2> DEFINE s == Text(data[w])
             e == [kind |-> "slice", first |-> first, size |-> size, code |-> <<>>]
  <2>1. e \in Edit /\ e.first + e.size <= Len(s) /\ e.kind = "slice" /\ e.size = size
    BY <1>9, <1>max, <1>empty DEF Edit, DeclareSlice
  <2>0. size > 0 /\ data[v] = Null
    BY <1>9 DEF DeclareSlice
  <2>2. MayWrite(t, v) /\ Readable(t, w) /\ v # w
    BY <1>9 DEF DeclareSlice, Readable, MayRead
  <2>3. CASE size = Len(s)
    <3>1. Rebind(t, v, w, data[w])
      BY <1>9, <2>3 DEF DeclareSlice
    <3> QED  BY <1>typ, <2>2, <3>1 DEF SharesTarget, Form
  <2>4. CASE size # Len(s)
    <3> DEFINE c == [Idle EXCEPT !.self = v, !.item = w, !.from = data[w], !.edit = e]
    <3>1. c.self = v /\ c.item = w /\ c.from = data[w] /\ c.old = Null /\ c.edit = e
      BY DEF Idle
    <3>2. CopyTo(t, c, size)
      BY <1>9, <2>4 DEF DeclareSlice
    <3> HIDE DEF e
    <3>4. c \in Calls
      BY <1>typ, <1>null, <2>1, IdleType
    <3>5. Len(Outcome(data[w], w, e)) \in 1 .. size
      BY <1>typ, <1>max, <2>0, <2>1, OutcomeLength
    <3> HIDE DEF c
    <3>3. Copies(t)
      BY <1>max, <2>0, <2>1, <2>2, <3>1, <3>2, <3>4, <3>5 DEF Copies, EditAsked
    <3> QED  BY <3>3 DEF Form
  <2> QED  BY <2>3, <2>4
<1> QED
  BY <1>1, <1>2, <1>3, <1>4, <1>5, <1>6, <1>7, <1>8, <1>9 DEF Start, Form

-----------------------------------------------------------------------------
(***************************************************************************)
(* The invariant holds at first, and each form of step keeps it.           *)
(***************************************************************************)

\* The invariant holds before the program declares its first object.
LEMMA InitIInv == Init => IInv
<1> SUFFICES ASSUME Init PROVE IInv
  OBVIOUS
<1>1. TypeOK
  BY IdleIsCall, ConstantsAssumption DEF Init, TypeOK, Ref, Texts
<1>2. Discipline /\ CallShapes /\ EditsFit /\ LiveData /\ FreeOnce /\ CounterCoversHolders
  BY ConstantsAssumption
  DEF Init, Discipline, CallShapes, CallShape, IdleShape, PublishShape, WriterShape,
      EditShape, CopyShape, ReleaseShape, TargetShape, EditsFit, EditFits, LiveData,
      FreeOnce, CounterCoversHolders, Idle
<1> QED  BY <1>1, <1>2 DEF IInv

\* A step leaves alone a call of another task: its record, its two objects, and
\* the segments it holds and reads.
Undisturbed(c) ==
  /\ c.item \in Var => data'[c.item] = data[c.item]
  /\ c.self \in Var => data'[c.self] = data[c.self]
  /\ c.pc \in {"edit", "copy"} => counter'[c.new] = counter[c.new]
  /\ c.pc \in {"copy", "raised"} => c.new \in live'
  /\ c.pc \in {"drop", "free"} => c.old \in live'
  /\ c.pc = "free" => counter'[c.old] = counter[c.old]
  /\ c.pc \in {"edit", "copy"} /\ c.from \in Object => value'[c.from] = value[c.from]

\* A call that a step of another task leaves alone keeps its shape, when the
\* step keeps what the call relies on: its object, its operand, its segments.
LEMMA CallFrame ==
  ASSUME NEW c, CallShape(c), EditFits(c), Undisturbed(c)
  PROVE  CallShape(c)' /\ EditFits(c)'
<1>1. CallShape(c)'
  BY DEF CallShape, IdleShape, PublishShape, WriterShape, EditShape, CopyShape,
         ReleaseShape, TargetShape, Undisturbed
<1>2. EditFits(c)'
  BY DEF EditFits, Text, Undisturbed
<1> QED  BY <1>1, <1>2

\* A step of t is left with its own call to be looked at, when it leaves the
\* calls of the others alone.
LEMMA StepFrame ==
  ASSUME TypeOK, CallShapes, EditsFit, NEW t \in Task, NEW r \in Calls,
         call' = [call EXCEPT ![t] = r], CallShape(r)', EditFits(r)',
         \A u \in Task \ {t} : Undisturbed(call[u])
  PROVE  CallShapes' /\ EditsFit'
<1> SUFFICES ASSUME NEW u \in Task
             PROVE  CallShape(call[u])' /\ EditFits(call[u])'
  BY DEF CallShapes, EditsFit
<1> PICK c : c = call'[u]
  OBVIOUS
<1>1. CallShape(c)' /\ EditFits(c)'
  <2>1. CASE u = t
    BY <2>1 DEF TypeOK
  <2>2. CASE u # t
    <3>1. c = call[u]
      BY <2>2 DEF TypeOK
    <3>2. CallShape(c) /\ EditFits(c) /\ Undisturbed(c)
      BY <2>2, <3>1 DEF CallShapes, EditsFit
    <3> QED  BY <3>2, CallFrame
  <2> QED  BY <2>1, <2>2
<1>2. EditFits(call[u])'
  BY <1>1 DEF EditFits, Text
<1>3. CallShape(call[u])'
  BY <1>1
  DEF CallShape, IdleShape, PublishShape, WriterShape, EditShape, CopyShape,
      ReleaseShape, TargetShape
<1> QED  BY <1>2, <1>3

\* The data of an object in scope is allocated, if it is counted at all.
LEMMA DataIsLive ==
  ASSUME IInv, NEW v \in Var, data[v] \in Object
  PROVE  data[v] \in live
BY ConstantsAssumption DEF IInv, LiveData

\* A segment whose counter is one has one holder at most, and one whose
\* counter is zero has none.
LEMMA SoleHolder ==
  ASSUME IInv, NEW o \in live, counter[o] = 1,
         NEW x \in Holders(o), NEW y \in Holders(o)
  PROVE  x = y
<1>1. counter[o] >= Cardinality(Holders(o))
  BY DEF IInv, CounterCoversHolders
<1>2. x # y => Cardinality(Holders(o)) >= 2
  BY HoldersFinite, CardTwo
<1> QED  BY <1>1, <1>2, HoldersFinite

\* A segment whose counter is zero has no holder: Dereference may free it.
LEMMA NoHolder ==
  ASSUME IInv, NEW o \in live, counter[o] = 0
  PROVE  Holders(o) = {}
<1>1. counter[o] >= Cardinality(Holders(o))
  BY DEF IInv, CounterCoversHolders
<1> QED  BY <1>1, HoldersFinite, FS_EmptySet

\* What a step does to the holders of a segment bounds what it may do to the
\* segment's counter.
LEMMA HoldersShrink ==
  ASSUME TypeOK, CounterCoversHolders, NEW o \in live,
         Holders(o)' \subseteq Holders(o)
  PROVE  counter[o] >= Cardinality(Holders(o)')
<1>1. counter[o] >= Cardinality(Holders(o)) /\ counter[o] \in Nat
  BY DEF CounterCoversHolders, TypeOK
<1> QED  BY <1>1, HoldersFinite, HoldersFinitePrime, CardSubset

\* A holder that takes the place of another one leaves their number.
LEMMA HoldersSwap ==
  ASSUME TypeOK, CounterCoversHolders, NEW o \in live, NEW x \in Holders(o), NEW y,
         Holders(o)' \subseteq (Holders(o) \ {x}) \cup {y}
  PROVE  counter[o] >= Cardinality(Holders(o)')
<1>1. counter[o] >= Cardinality(Holders(o)) /\ counter[o] \in Nat
  BY DEF CounterCoversHolders, TypeOK
<1>2. Cardinality(Holders(o)') <= Cardinality(Holders(o))
  BY HoldersFinite, CardReplace
<1> QED  BY <1>1, <1>2, HoldersFinite, HoldersFinitePrime

\* One new holder is at most one holder more.
LEMMA HoldersGrow ==
  ASSUME TypeOK, CounterCoversHolders, NEW o \in live, NEW y,
         Holders(o)' \subseteq Holders(o) \cup {y}
  PROVE  counter[o] + 1 >= Cardinality(Holders(o)')
<1>1. counter[o] >= Cardinality(Holders(o)) /\ counter[o] \in Nat
  BY DEF CounterCoversHolders, TypeOK
<1>2. Cardinality(Holders(o)') <= Cardinality(Holders(o)) + 1
  BY HoldersFinite, CardAdd
<1> QED  BY <1>1, <1>2, HoldersFinite, HoldersFinitePrime

\* One holder less leaves room for the counter to go down by one.
LEMMA HoldersLose ==
  ASSUME TypeOK, CounterCoversHolders, NEW o \in live, NEW x \in Holders(o),
         Holders(o)' \subseteq Holders(o) \ {x}
  PROVE  counter[o] - 1 >= Cardinality(Holders(o)')
<1>1. counter[o] >= Cardinality(Holders(o)) /\ counter[o] \in Nat
  BY DEF CounterCoversHolders, TypeOK
<1>2. Cardinality(Holders(o)') <= Cardinality(Holders(o)) - 1
  BY HoldersFinite, CardRemove
<1> QED  BY <1>1, <1>2, HoldersFinite, HoldersFinitePrime

\* Declaring an object, which shares Shared_Empty, preserves the invariant.
LEMMA DeclareKeeps ==
  ASSUME IInv, NEW t \in Task, NEW v \in Var, Declare(t, v)
  PROVE  IInv'
<1> USE DEF IInv
<1>1. /\ data' = [data EXCEPT ![v] = Empty] /\ data[v] = Null
      /\ UNCHANGED <<live, counter, value, capacity, indexMap, call>>
      /\ \A u \in Task : v \notin {call[u].self, call[u].item}
  BY DEF Declare, MayWrite, heap
<1>2. TypeOK'
  BY <1>1 DEF TypeOK, Ref, Shared
<1>3. Discipline' /\ FreeOnce'
  BY <1>1 DEF Discipline, FreeOnce
<1>4. \A u \in Task : Undisturbed(call[u])
  BY <1>1 DEF Undisturbed, TypeOK, CallShapes, CallShape, CopyShape, ReleaseShape
<1>5. CallShapes' /\ EditsFit'
  <2> PICK r : r = call[t]
    OBVIOUS
  <2>1. r \in Calls /\ call' = [call EXCEPT ![t] = r]
    BY <1>1 DEF TypeOK
  <2>2. CallShape(r) /\ EditFits(r) /\ Undisturbed(r)
    BY <1>4 DEF CallShapes, EditsFit
  <2> QED  BY <1>4, <2>1, <2>2, CallFrame, StepFrame
<1>6. LiveData'
  BY <1>1 DEF LiveData, TypeOK
<1>7. CounterCoversHolders'
  <2> SUFFICES ASSUME NEW o \in live PROVE counter[o] >= Cardinality(Holders(o)')
    BY <1>1 DEF CounterCoversHolders
  <2>1. Holders(o)' \subseteq Holders(o)
    BY <1>1, ConstantsAssumption DEF Holders, TypeOK
  <2> QED  BY <2>1, HoldersShrink
<1> QED  BY <1>2, <1>3, <1>4, <1>5, <1>6, <1>7

\* Starting to build an index map preserves the invariant.
LEMMA ComputeIndexMapKeeps ==
  ASSUME IInv, NEW t \in Task, NEW w \in Var, ComputeIndexMap(t, w)
  PROVE  IInv'
<1> USE DEF IInv
<1> PICK r : r = [Idle EXCEPT !.pc = "publish", !.item = w, !.from = data[w],
                              !.map = value[data[w]]]
  OBVIOUS
<1>1. /\ data[w] \in Object
      /\ call' = [call EXCEPT ![t] = r]
      /\ UNCHANGED <<data, live, counter, value, capacity, indexMap>>
      /\ \A u \in Task : call[u].self # w
  BY DEF ComputeIndexMap, MayRead, heap, Text
<1>2. r \in Calls
  BY <1>1, IdleIsCall DEF TypeOK, Calls
<1>3. r.pc = "publish" /\ r.self = Null /\ r.item = w /\ r.from = data[w]
  BY DEF Idle
<1>4. \A u \in Task : call'[u] = IF u = t THEN r ELSE call[u]
  BY <1>1 DEF TypeOK
<1>5. TypeOK'
  BY <1>1, <1>2 DEF TypeOK
<1>6. Discipline' /\ FreeOnce' /\ LiveData'
  BY <1>1, <1>3, <1>4 DEF Discipline, FreeOnce, LiveData
<1>7. CallShapes' /\ EditsFit'
  <2>1. CallShape(r)' /\ EditFits(r)'
    BY <1>1, <1>3, ConstantsAssumption
    DEF CallShape, IdleShape, PublishShape, WriterShape, EditShape, CopyShape,
        ReleaseShape, TargetShape, EditFits
  <2>2. \A u \in Task : Undisturbed(call[u])
    BY <1>1 DEF Undisturbed, TypeOK, CallShapes, CallShape, CopyShape, ReleaseShape
  <2> QED  BY <1>1, <1>2, <2>1, <2>2, StepFrame
<1>8. CounterCoversHolders'
  <2> SUFFICES ASSUME NEW o \in live PROVE counter[o] >= Cardinality(Holders(o)')
    BY <1>1 DEF CounterCoversHolders
  <2>1. Holders(o)' \subseteq Holders(o)
    BY <1>1, <1>3, <1>4 DEF Holders
  <2> QED  BY <2>1, HoldersShrink
<1> QED  BY <1>5, <1>6, <1>7, <1>8

\* A call that starts by releasing its object's segment for another one
\* (Finalize, Clear, Assign, and the shortcuts of the edits) preserves it.
LEMMA SharesTargetKeeps ==
  ASSUME IInv, NEW t \in Task, SharesTarget(t)
  PROVE  IInv'
<1> USE DEF IInv
<1> PICK v \in Var, w \in Var \cup {Null}, target \in Ref :
         /\ MayWrite(t, v) /\ Readable(t, w)
         /\ target \in {Empty, Null} \/ (w \in Var /\ w # v /\ target = data[w])
         /\ Rebind(t, v, w, target)
  BY DEF SharesTarget
<1> PICK r : r = [Idle EXCEPT !.pc   = IF data[v] \in Object THEN "drop" ELSE "bind",
                              !.self = v, !.item = w, !.old = data[v], !.new = target]
  OBVIOUS
<1>1. /\ call' = [call EXCEPT ![t] = r]
      /\ data' = [data EXCEPT ![v] = Null]
      /\ UNCHANGED <<live, counter, value, capacity, indexMap>>
      /\ \A u \in Task : v \notin {call[u].self, call[u].item}
      /\ w \in Var => data[w] # Null /\ \A u \in Task : call[u].self # w
  BY DEF Rebind, heap, MayWrite, MayRead, Readable
<1>2. r \in Calls
  BY IdleIsCall DEF TypeOK, Calls
<1>3. /\ r.pc = IF data[v] \in Object THEN "drop" ELSE "bind"
      /\ r.self = v /\ r.item = w /\ r.old = data[v] /\ r.new = target
  BY DEF Idle
<1>4. \A u \in Task : call'[u] = IF u = t THEN r ELSE call[u]
  BY <1>1 DEF TypeOK
<1>d. \A x \in Var : data'[x] = IF x = v THEN Null ELSE data[x]
  BY <1>1 DEF TypeOK
<1>5. TypeOK'
  BY <1>1, <1>2 DEF TypeOK, Ref
<1>6. Discipline' /\ FreeOnce' /\ LiveData'
  BY <1>1, <1>3, <1>4, <1>d, ConstantsAssumption DEF Discipline, FreeOnce, LiveData
<1>7. CallShapes' /\ EditsFit'
  <2>1. CallShape(r)' /\ EditFits(r)'
    BY <1>1, <1>3, <1>d, DataIsLive, ConstantsAssumption
    DEF CallShape, IdleShape, PublishShape, WriterShape, EditShape, CopyShape,
        ReleaseShape, TargetShape, EditFits, TypeOK, Ref
  <2>2. \A u \in Task : Undisturbed(call[u])
    BY <1>1, <1>d DEF Undisturbed, TypeOK, CallShapes, CallShape, CopyShape, ReleaseShape
  <2> QED  BY <1>1, <1>2, <2>1, <2>2, StepFrame
<1>8. CounterCoversHolders'
  <2> SUFFICES ASSUME NEW o \in live PROVE counter[o] >= Cardinality(Holders(o)')
    BY <1>1 DEF CounterCoversHolders
  <2>1. CASE o = data[v]
    <3>1. v \in Holders(o) /\ Holders(o)' \subseteq (Holders(o) \ {v}) \cup {t}
      BY <1>1, <1>3, <1>4, <1>d, <2>1, ConstantsAssumption DEF Holders, TypeOK
    <3> QED  BY <3>1, HoldersSwap
  <2>2. CASE o # data[v]
    <3>1. Holders(o)' \subseteq Holders(o)
      BY <1>1, <1>3, <1>4, <1>d, <2>2, ConstantsAssumption DEF Holders, TypeOK
    <3> QED  BY <3>1, HoldersShrink
  <2> QED  BY <2>1, <2>2
<1> QED  BY <1>5, <1>6, <1>7, <1>8

\* What a running call reads, and what it edits, is allocated.
LEMMA SourceIsLive ==
  ASSUME IInv, NEW u \in Task
  PROVE  /\ call[u].pc \in {"edit", "copy", "publish"} /\ call[u].from \in Object
              => call[u].from \in live
         /\ call[u].pc \in {"edit", "copy"} => call[u].new \in live
<1>1. CallShape(call[u])
  BY DEF IInv, CallShapes
<1> QED
  BY <1>1, DataIsLive
  DEF CallShape, PublishShape, WriterShape, EditShape, CopyShape

\* While another one holds a segment, a call neither edits, fills nor frees it.
LEMMA Unclaimed ==
  ASSUME IInv, NEW u \in Task, NEW o \in live, NEW x \in Holders(o),
         x \notin {u, call[u].self}
  PROVE  /\ call[u].pc \in {"edit", "copy"} => call[u].new # o
         /\ call[u].pc = "free" => call[u].old # o
<1>1. CallShape(call[u])
  BY DEF IInv, CallShapes
<1>2. CASE call[u].pc = "edit" /\ call[u].new = o
  <2>1. call[u].self \in Holders(o) /\ counter[o] = 1
    BY <1>1, <1>2 DEF CallShape, WriterShape, EditShape, Holders
  <2> QED  BY <2>1, SoleHolder
<1>3. CASE call[u].pc = "copy" /\ call[u].new = o
  <2>1. u \in Holders(o) /\ counter[o] = 1
    BY <1>1, <1>3 DEF CallShape, CopyShape, Holders
  <2> QED  BY <2>1, SoleHolder
<1>4. CASE call[u].pc = "free" /\ call[u].old = o
  <2>1. counter[o] = 0
    BY <1>1, <1>4 DEF CallShape, ReleaseShape
  <2> QED  BY <2>1, NoHolder
<1> QED  BY <1>2, <1>3, <1>4

\* A call that found its segment reusable, and will edit it in place, preserves
\* the invariant: the one count is that of the object the call is made on.
LEMMA EditsAloneKeeps ==
  ASSUME IInv, NEW t \in Task, EditsAlone(t)
  PROVE  IInv'
<1> USE DEF IInv
<1> PICK v \in Var, w \in Var \cup {Null}, e \in Edit :
         /\ MayWrite(t, v) /\ Readable(t, w)
         /\ data[v] \in Object /\ counter[data[v]] = 1
         /\ EditAsked(v, w, e, data[v])
         /\ e.first + e.size <= Len(Text(data[v]))
         /\ Len(Outcome(data[v], w, e)) \in 1 .. capacity[data[v]]
         /\ call' = [call EXCEPT ![t] =
              [Idle EXCEPT !.pc = "edit", !.self = v, !.item = w,
                           !.from = data[v], !.new = data[v], !.edit = e]]
         /\ UNCHANGED <<data, heap>>
  BY DEF EditsAlone
<1> PICK r : r = [Idle EXCEPT !.pc = "edit", !.self = v, !.item = w,
                              !.from = data[v], !.new = data[v], !.edit = e]
  OBVIOUS
<1>1. /\ call' = [call EXCEPT ![t] = r]
      /\ UNCHANGED <<data, live, counter, value, capacity, indexMap>>
      /\ call[t].pc = "idle"
      /\ \A u \in Task : v \notin {call[u].self, call[u].item}
      /\ w \in Var => data[w] # Null /\ \A u \in Task : call[u].self # w
  BY DEF heap, MayWrite, MayRead, Readable
<1>2. r \in Calls
  BY IdleIsCall DEF TypeOK, Calls
<1>3. /\ r.pc = "edit" /\ r.self = v /\ r.item = w
      /\ r.from = data[v] /\ r.new = data[v] /\ r.edit = e
  BY DEF Idle
<1>4. \A u \in Task : call'[u] = IF u = t THEN r ELSE call[u]
  BY <1>1 DEF TypeOK
<1>5. TypeOK'
  BY <1>1, <1>2 DEF TypeOK
<1>6. Discipline' /\ FreeOnce' /\ LiveData'
  BY <1>1, <1>3, <1>4, ConstantsAssumption DEF Discipline, FreeOnce, LiveData
<1>7. CallShapes' /\ EditsFit'
  <2>1. CallShape(r)' /\ EditFits(r)'
    BY <1>1, <1>3
    DEF CallShape, IdleShape, PublishShape, WriterShape, EditShape, CopyShape,
        ReleaseShape, TargetShape, EditFits, EditAsked, Text
  <2>2. \A u \in Task : Undisturbed(call[u])
    BY <1>1 DEF Undisturbed, TypeOK, CallShapes, CallShape, CopyShape, ReleaseShape
  <2> QED  BY <1>1, <1>2, <2>1, <2>2, StepFrame
<1>8. CounterCoversHolders'
  <2> SUFFICES ASSUME NEW o \in live PROVE counter[o] >= Cardinality(Holders(o)')
    BY <1>1 DEF CounterCoversHolders
  <2>1. Holders(o)' \subseteq Holders(o)
    BY <1>1, <1>3, <1>4 DEF Holders
  <2> QED  BY <2>1, HoldersShrink
<1> QED  BY <1>5, <1>6, <1>7, <1>8

\* A call that allocates a segment to copy into preserves the invariant.
LEMMA CopiesKeeps ==
  ASSUME IInv, NEW t \in Task, Copies(t)
  PROVE  IInv'
<1> USE DEF IInv
<1> PICK c \in Calls, size \in Nat :
         /\ c.self \in Var /\ MayWrite(t, c.self) /\ Readable(t, c.item)
         /\ c.from = data[c.self] \/ (c.item \in Var /\ c.from = data[c.item])
         /\ c.old \in {Null, data[c.self]}
         /\ EditAsked(c.self, c.item, c.edit, c.from)
         /\ c.edit.first + c.edit.size <= Len(Text(c.from))
         /\ CopyTo(t, c, size)
  BY DEF Copies
<1> PICK o \in Object :
         /\ Allocate(o, size)
         /\ call' = [call EXCEPT ![t] = [c EXCEPT !.pc = "copy", !.new = o]]
         /\ UNCHANGED data
  BY DEF CopyTo
<1> PICK r : r = [c EXCEPT !.pc = "copy", !.new = o]
  OBVIOUS
<1>1. /\ call' = [call EXCEPT ![t] = r]
      /\ UNCHANGED data
      /\ o \notin live /\ live' = live \cup {o}
      /\ call[t].pc = "idle"
      /\ \A u \in Task : c.self \notin {call[u].self, call[u].item}
      /\ c.item \in Var => data[c.item] # Null /\ \A u \in Task : call[u].self # c.item
  BY DEF MayWrite, MayRead, Readable, Allocate
<1>2. r \in Calls
  BY DEF Calls, Ref, Shared
<1>3. /\ r.pc = "copy" /\ r.self = c.self /\ r.item = c.item
      /\ r.from = c.from /\ r.old = c.old /\ r.new = o /\ r.edit = c.edit
  BY DEF Calls
<1>4. \A u \in Task : call'[u] = IF u = t THEN r ELSE call[u]
  BY <1>1 DEF TypeOK
<1>5. TypeOK'
  <2>1. <<>> \in Texts /\ AlignedSize(size) - 1 \in Nat
    BY AlignedSizeRoom DEF Texts
  <2>2. /\ counter' \in [Object -> Nat] /\ value' \in [Object -> Texts]
        /\ capacity' \in [Object -> Nat] /\ indexMap' \in [Object -> Texts \cup {Null}]
    BY <2>1 DEF Allocate, TypeOK
  <2> QED  BY <1>1, <1>2, <2>2 DEF TypeOK
<1>6. \A x \in Object : x # o => counter'[x] = counter[x] /\ value'[x] = value[x]
  BY DEF Allocate, TypeOK
<1>7. counter'[o] = 1
  BY DEF Allocate, TypeOK
<1>8. Discipline' /\ FreeOnce' /\ LiveData'
  BY <1>1, <1>3, <1>4, ConstantsAssumption DEF Discipline, FreeOnce, LiveData, Calls
<1>9. CallShapes' /\ EditsFit'
  <2>1. c.from \in Object => c.from \in live
    BY DataIsLive
  <2>2. Text(c.from)' = Text(c.from)
    BY <1>1, <1>6, <2>1 DEF Text
  <2>3. EditFits(r)'
    BY <1>3, <2>2 DEF EditFits, EditAsked
  <2>4. CallShape(r)'
    BY <1>1, <1>3, <1>7
    DEF CallShape, IdleShape, PublishShape, WriterShape, EditShape, CopyShape,
        ReleaseShape, TargetShape
  <2>5. ASSUME NEW u \in Task PROVE Undisturbed(call[u])
    <3>1. CallShape(call[u])
      BY DEF CallShapes
    <3> QED
      BY <1>1, <1>6, <3>1, SourceIsLive DEF Undisturbed, TypeOK, CallShape, CopyShape, ReleaseShape
  <2> QED  BY <1>1, <1>2, <2>3, <2>4, <2>5, StepFrame
<1>10. CounterCoversHolders'
  <2> SUFFICES ASSUME NEW x \in live' PROVE counter'[x] >= Cardinality(Holders(x)')
    BY DEF CounterCoversHolders
  <2>1. CASE x = o
    <3>1. Holders(o)' \subseteq {t}
      BY <1>1, <1>3, <1>4, ConstantsAssumption
      DEF Holders, LiveData, CallShapes, CallShape, ReleaseShape, CopyShape
    <3>2. IsFiniteSet({t}) /\ Cardinality({t}) = 1
      BY FS_Singleton
    <3>3. Cardinality(Holders(o)') <= 1
      BY <3>1, <3>2, CardSubset
    <3> QED  BY <1>7, <2>1, <3>3
  <2>2. CASE x # o
    <3>1. x \in live /\ counter'[x] = counter[x]
      BY <1>1, <1>6, <2>2 DEF TypeOK
    <3>2. Holders(x)' \subseteq Holders(x)
      BY <1>1, <1>3, <1>4, <2>2 DEF Holders
    <3> QED  BY <3>1, <3>2, HoldersShrink
  <2> QED  BY <2>1, <2>2
<1> QED  BY <1>5, <1>8, <1>9, <1>10

\* Slicing all of an object, which references its own segment, preserves it.
LEMMA ReferencesAllKeeps ==
  ASSUME IInv, NEW t \in Task, ReferencesAll(t)
  PROVE  IInv'
<1> USE DEF IInv
<1> PICK v \in Var, e \in Edit :
         /\ MayWrite(t, v) /\ data[v] \in Object
         /\ counter' = [counter EXCEPT ![data[v]] = @ + 1]
         /\ call' = [call EXCEPT ![t] =
              [Idle EXCEPT !.pc = "drop", !.self = v, !.from = data[v],
                           !.old = data[v], !.new = data[v], !.edit = e]]
         /\ UNCHANGED <<data, live, value, capacity, indexMap>>
  BY DEF ReferencesAll
<1> PICK r : r = [Idle EXCEPT !.pc = "drop", !.self = v, !.from = data[v],
                              !.old = data[v], !.new = data[v], !.edit = e]
  OBVIOUS
<1>1. /\ call' = [call EXCEPT ![t] = r]
      /\ UNCHANGED <<data, live, value, capacity, indexMap>>
      /\ call[t].pc = "idle"
      /\ \A u \in Task : v \notin {call[u].self, call[u].item}
      /\ data[v] \in live /\ v \in Holders(data[v])
  BY DataIsLive DEF MayWrite, Holders
<1>2. r \in Calls
  BY IdleIsCall DEF TypeOK, Calls
<1>3. /\ r.pc = "drop" /\ r.self = v /\ r.item = Null
      /\ r.from = data[v] /\ r.old = data[v] /\ r.new = data[v]
  BY DEF Idle
<1>4. \A u \in Task : call'[u] = IF u = t THEN r ELSE call[u]
  BY <1>1 DEF TypeOK
<1>5. TypeOK'
  BY <1>1, <1>2 DEF TypeOK
<1>6. \A x \in Object : counter'[x] = IF x = data[v] THEN counter[x] + 1 ELSE counter[x]
  BY DEF TypeOK
<1>7. Discipline' /\ FreeOnce' /\ LiveData'
  BY <1>1, <1>3, <1>4, ConstantsAssumption DEF Discipline, FreeOnce, LiveData
<1>8. CallShapes' /\ EditsFit'
  <2>1. CallShape(r)' /\ EditFits(r)'
    BY <1>1, <1>3, ConstantsAssumption
    DEF CallShape, IdleShape, PublishShape, WriterShape, EditShape, CopyShape,
        ReleaseShape, TargetShape, EditFits
  <2>2. ASSUME NEW u \in Task \ {t} PROVE Undisturbed(call[u])
    <3>1. CallShape(call[u])
      BY DEF CallShapes
    <3>2. v \notin {u, call[u].self}
      BY <1>1, ConstantsAssumption
    <3>3. /\ call[u].pc \in {"edit", "copy"} => call[u].new # data[v]
          /\ call[u].pc = "free" => call[u].old # data[v]
      BY <1>1, <3>2, Unclaimed
    <3> QED
      BY <1>1, <1>6, <3>1, <3>3, SourceIsLive
      DEF Undisturbed, TypeOK, CallShape, CopyShape, ReleaseShape
  <2> QED  BY <1>1, <1>2, <2>1, <2>2, StepFrame
<1>9. CounterCoversHolders'
  <2> SUFFICES ASSUME NEW o \in live PROVE counter'[o] >= Cardinality(Holders(o)')
    BY <1>1 DEF CounterCoversHolders
  <2>1. CASE o = data[v]
    <3>1. Holders(o)' \subseteq Holders(o) \cup {t}
      BY <1>1, <1>3, <1>4 DEF Holders
    <3> QED  BY <1>6, <2>1, <3>1, HoldersGrow DEF TypeOK
  <2>2. CASE o # data[v]
    <3>1. Holders(o)' \subseteq Holders(o)
      BY <1>1, <1>3, <1>4, <2>2 DEF Holders
    <3>2. counter'[o] = counter[o]
      BY <1>6, <2>2 DEF TypeOK
    <3> QED  BY <3>1, <3>2, HoldersShrink
  <2> QED  BY <2>1, <2>2
<1> QED  BY <1>5, <1>7, <1>8, <1>9

-----------------------------------------------------------------------------
(***************************************************************************)
(* The steps of a running call keep the invariant.                         *)
(***************************************************************************)

\* Nobody reads the segment that a call edits or fills.
LEMMA NotRead ==
  ASSUME IInv, NEW t \in Task, NEW u \in Task, t # u,
         call[t].pc \in {"edit", "copy"}
  PROVE  /\ call[u].pc \in {"edit", "copy", "publish"} => call[u].from # call[t].new
         /\ \A x \in Var : data[x] = call[t].new => call[t].pc = "edit" /\ x = call[t].self
<1>1. CallShape(call[t]) /\ CallShape(call[u])
  BY DEF IInv, CallShapes
<1> DEFINE o == call[t].new
<1>2. o \in live /\ counter[o] = 1 /\ call[t].self \in Var
  BY <1>1, SourceIsLive DEF CallShape, EditShape, CopyShape, WriterShape
<1>3. IF call[t].pc = "edit" THEN call[t].self \in Holders(o) ELSE t \in Holders(o)
  BY <1>1 DEF CallShape, EditShape, CopyShape, WriterShape, Holders
<1>4. \A x \in Var : data[x] = o => x \in Holders(o)
  BY DEF Holders
<1> HIDE DEF o
<1>5. ASSUME NEW x \in Var, data[x] = o PROVE call[t].pc = "edit" /\ x = call[t].self
  BY <1>2, <1>3, <1>4, <1>5, SoleHolder, ConstantsAssumption
<1>6. call[u].pc \in {"edit", "copy", "publish"} =>
        \E x \in Var : x \in {call[u].self, call[u].item} /\ data[x] = call[u].from
  BY <1>1 DEF CallShape, PublishShape, WriterShape, EditShape, CopyShape
<1>7. call[t].self \notin {call[u].self, call[u].item}
  BY <1>2, ConstantsAssumption DEF IInv, Discipline
<1> QED  BY <1>5, <1>6, <1>7 DEF o

\* What an edit or a copy stores is a text.
LEMMA ResultType ==
  ASSUME IInv, NEW t \in Task, call[t].pc \in {"edit", "copy"}
  PROVE  Result(t) \in Texts
<1> USE DEF IInv
<1>1. /\ call[t].from \in Ref /\ call[t].edit \in Edit
      /\ call[t].item \in Var \cup {Null} /\ call[t].edit.code \in Texts
  BY DEF TypeOK, Calls, Edit
<1>2. call[t].edit.first + call[t].edit.size <= Len(Text(call[t].from))
  BY DEF EditsFit, EditFits
<1>3. Text(call[t].from) \in Texts
  BY <1>1, TextType
<1>4. call[t].item # Null => Text(data[call[t].item]) \in Texts
  BY <1>1, TextType DEF TypeOK
<1>5. PICK by \in Texts :
        by = IF call[t].item = Null THEN call[t].edit.code ELSE Text(data[call[t].item])
  BY <1>1, <1>4
<1> QED  BY <1>1, <1>2, <1>3, <1>5, EditedText DEF Result

\* Storing the edited text in place preserves the invariant.
LEMMA EditInPlaceKeeps ==
  ASSUME IInv, NEW t \in Task, EditInPlace(t)
  PROVE  IInv'
<1> USE DEF IInv
<1> PICK o : o = call[t].new
  OBVIOUS
<1>1. /\ call[t].pc = "edit"
      /\ value'    = [value    EXCEPT ![o] = Result(t)]
      /\ indexMap' = [indexMap EXCEPT ![o] = Null]
      /\ call'     = [call EXCEPT ![t] = Idle]
      /\ UNCHANGED <<data, live, counter, capacity>>
  BY DEF EditInPlace
<1>2. \A u \in Task : call'[u] = IF u = t THEN Idle ELSE call[u]
  BY <1>1 DEF TypeOK
<1>3. Idle.pc = "idle" /\ Idle.self = Null /\ Idle.item = Null
  BY DEF Idle
<1>4. TypeOK'
  BY <1>1, IdleIsCall, ResultType DEF TypeOK
<1>5. Discipline' /\ FreeOnce' /\ LiveData'
  BY <1>1, <1>2, <1>3 DEF Discipline, FreeOnce, LiveData
<1>6. CallShapes' /\ EditsFit'
  <2>1. CallShape(Idle)' /\ EditFits(Idle)'
    BY <1>3, ConstantsAssumption
    DEF CallShape, IdleShape, PublishShape, WriterShape, EditShape, CopyShape,
        ReleaseShape, TargetShape, EditFits
  <2>2. ASSUME NEW u \in Task \ {t} PROVE Undisturbed(call[u])
    <3>1. CallShape(call[u])
      BY DEF CallShapes
    <3>2. call[u].pc \in {"edit", "copy"} => call[u].from # o
      BY <1>1, NotRead
    <3> QED
      BY <1>1, <3>1, <3>2 DEF Undisturbed, TypeOK, CallShape, CopyShape, ReleaseShape
  <2> QED  BY <1>1, <2>1, <2>2, StepFrame, IdleIsCall
<1>7. CounterCoversHolders'
  <2> SUFFICES ASSUME NEW x \in live PROVE counter[x] >= Cardinality(Holders(x)')
    BY <1>1 DEF CounterCoversHolders
  <2>1. Holders(x)' \subseteq Holders(x)
    BY <1>1, <1>2, <1>3 DEF Holders
  <2> QED  BY <2>1, HoldersShrink
<1> QED  BY <1>4, <1>5, <1>6, <1>7

\* A call that keeps or gives up the objects it uses leaves the discipline.
LEMMA DisciplineStep ==
  ASSUME Discipline, NEW t \in Task, NEW r,
         \A u \in Task : call'[u] = IF u = t THEN r ELSE call[u],
         r.self \in {call[t].self, Null}, r.item \in {call[t].item, Null}
  PROVE  Discipline'
<1> SUFFICES ASSUME NEW x \in Task, NEW y \in Task, x # y, call'[x].self # Null
             PROVE  call'[x].self \notin {call'[y].self, call'[y].item}
  BY DEF Discipline
<1>1. call'[x].self = call[x].self
  OBVIOUS
<1>2. call[x].self \notin {call[y].self, call[y].item}
  BY <1>1 DEF Discipline
<1>3. call'[y].self \in {call[y].self, Null} /\ call'[y].item \in {call[y].item, Null}
  OBVIOUS
<1> QED  BY <1>1, <1>2, <1>3

\* Only one call frees a segment, when a step is not the one that begins it.
LEMMA FreeOnceStep ==
  ASSUME FreeOnce, NEW t \in Task, NEW r, r.pc # "free",
         \A u \in Task : call'[u] = IF u = t THEN r ELSE call[u]
  PROVE  FreeOnce'
BY DEF FreeOnce

\* Storing the text into the new segment, and handing that one to the object,
\* preserves the invariant.
LEMMA CopyOutKeeps ==
  ASSUME IInv, NEW t \in Task, CopyOut(t)
  PROVE  IInv'
<1> USE DEF IInv
<1> PICK c : c = call[t]
  OBVIOUS
<1> PICK r : r = IF c.old \in Object THEN [c EXCEPT !.pc = "drop"] ELSE Idle
  OBVIOUS
<1>1. /\ c.pc = "copy"
      /\ value' = [value EXCEPT ![c.new] = Result(t)]
      /\ data'  = [data EXCEPT ![c.self] = c.new]
      /\ call'  = [call EXCEPT ![t] = r]
      /\ UNCHANGED <<live, counter, capacity, indexMap>>
  BY DEF CopyOut
<1>2. c \in Calls /\ CallShape(c)
  BY DEF TypeOK, CallShapes
<1>3. /\ c.self \in Var /\ c.new \in live /\ c.new \in Object /\ t \in Holders(c.new)
      /\ c.old \in {Null, data[c.self]}
      /\ c.old \in Object => c.old \in live
      /\ \A x \in Var : data[x] # c.new
  <2>1. /\ c.self \in Var /\ c.new \in live /\ c.new \in Object /\ counter[c.new] = 1
        /\ c.old \in {Null, data[c.self]}
    BY <1>1, <1>2 DEF CallShape, WriterShape, CopyShape, TypeOK
  <2>2. c.old \in Object => c.old \in live
    BY <2>1, DataIsLive, ConstantsAssumption
  <2>3. t \in Holders(c.new)
    BY <1>1, <2>1 DEF Holders
  <2>4. \A x \in Var : data[x] # c.new
    <3>1. \A x \in Var : data[x] = c.new => x \in Holders(c.new)
      BY DEF Holders
    <3>2. \A x \in Var : x # t
      BY ConstantsAssumption
    <3> QED  BY <2>1, <2>3, <3>1, <3>2, SoleHolder
  <2> QED  BY <2>1, <2>2, <2>3, <2>4
<1>4. r \in Calls
  BY <1>2, IdleIsCall DEF Calls
<1>5. /\ c.old \in Object => /\ r.pc = "drop" /\ r.self = c.self /\ r.item = c.item
                             /\ r.old = c.old /\ r.new = c.new
      /\ c.old \notin Object => r.pc = "idle" /\ r.self = Null /\ r.item = Null
  BY <1>2 DEF Calls, Idle
<1>6. \A u \in Task : call'[u] = IF u = t THEN r ELSE call[u]
  BY <1>1 DEF TypeOK
<1>d. \A x \in Var : data'[x] = IF x = c.self THEN c.new ELSE data[x]
  BY <1>1 DEF TypeOK
<1>u. \A u \in Task \ {t} : c.self \notin {call[u].self, call[u].item}
  BY <1>3, ConstantsAssumption DEF Discipline
<1>7. TypeOK'
  <2>1. Result(t) \in Texts
    BY <1>1, ResultType
  <2> QED  BY <1>1, <1>2, <1>4, <2>1 DEF TypeOK, Calls
<1>8. Discipline' /\ FreeOnce' /\ LiveData'
  <2>1. Discipline'
    <3>1. r.self \in {call[t].self, Null} /\ r.item \in {call[t].item, Null}
      BY <1>5
    <3> QED  BY <1>6, <3>1, DisciplineStep
  <2>2. FreeOnce'
    <3>1. r.pc # "free"
      BY <1>5
    <3> QED  BY <1>6, <3>1, FreeOnceStep
  <2>3. LiveData'
    <3>1. \A x \in Var : data[x] \in live \cup {Empty, Null}
      BY DEF LiveData
    <3> HIDE DEF IInv
    <3> QED  BY <1>1, <1>3, <1>d, <3>1 DEF LiveData
  <2> QED  BY <2>1, <2>2, <2>3
<1>9. CallShapes' /\ EditsFit'
  <2>1. CallShape(r)' /\ EditFits(r)'
    <3>1. CASE c.old \in Object
      <4>1. /\ r.pc = "drop" /\ r.self \in Var /\ r.old \in live'
            /\ data'[r.self] = r.new /\ data'[r.self] # Null
        BY <1>1, <1>3, <1>5, <1>d, <3>1, ConstantsAssumption
      <4>2. r.item \in Var => r.item = r.self \/ data'[r.item] # Null
        <5>1. c.item \in Var => c.item = c.self \/ data[c.item] # Null
          BY <1>2 DEF CallShape, WriterShape
        <5> QED  BY <1>5, <1>d, <3>1, <5>1
      <4> QED
        BY <4>1, <4>2
        DEF CallShape, IdleShape, PublishShape, WriterShape, EditShape, CopyShape,
            ReleaseShape, TargetShape, EditFits
    <3>2. CASE c.old \notin Object
      BY <1>5, <3>2, ConstantsAssumption
      DEF CallShape, IdleShape, PublishShape, WriterShape, EditShape, CopyShape,
          ReleaseShape, TargetShape, EditFits
    <3> QED  BY <3>1, <3>2
  <2>2. ASSUME NEW u \in Task \ {t} PROVE Undisturbed(call[u])
    <3>1. CallShape(call[u])
      BY DEF CallShapes
    <3>2. call[u].pc \in {"edit", "copy"} => call[u].from # c.new
      BY <1>1, NotRead
    <3> QED
      BY <1>1, <1>u, <1>d, <3>1, <3>2 DEF Undisturbed, TypeOK, CallShape, CopyShape, ReleaseShape
  <2> QED  BY <1>1, <1>4, <2>1, <2>2, StepFrame
<1>10. CounterCoversHolders'
  <2> SUFFICES ASSUME NEW o \in live PROVE counter[o] >= Cardinality(Holders(o)')
    BY <1>1 DEF CounterCoversHolders
  <2>1. CASE o = c.new
    <3>1. Holders(o)' \subseteq (Holders(o) \ {t}) \cup {c.self}
      <4>1. t \notin Var /\ t \notin Holders(o)'
        <5>1. t \notin Var
          BY ConstantsAssumption
        <5>2. call'[t] = r /\ ~(r.pc = "drop" /\ r.old = o) /\ r.pc \notin {"copy", "raised"}
          BY <1>3, <1>5, <1>6, <2>1, ConstantsAssumption
        <5> QED  BY <5>1, <5>2 DEF Holders
      <4>2. Holders(o)' \subseteq Holders(o) \cup {c.self}
        BY <1>3, <1>6, <1>d, <2>1, <4>1 DEF Holders
      <4> QED  BY <4>1, <4>2
    <3> QED  BY <1>3, <2>1, <3>1, HoldersSwap
  <2>2. CASE o # c.new /\ o = c.old
    <3>1. c.old \in Object
      BY <2>2 DEF TypeOK
    <3>2. c.self \in Holders(o)
      BY <1>3, <2>2, <3>1, ConstantsAssumption DEF Holders
    <3>3. Holders(o)' \subseteq (Holders(o) \ {c.self}) \cup {t}
      BY <1>1, <1>3, <1>6, <1>d, <2>2, ConstantsAssumption DEF Holders
    <3> QED  BY <3>2, <3>3, HoldersSwap
  <2>3. CASE o # c.new /\ o # c.old
    <3>1. Holders(o)' \subseteq Holders(o)
      BY <1>1, <1>3, <1>5, <1>6, <1>d, <2>3 DEF Holders
    <3> QED  BY <3>1, HoldersShrink
  <2> QED  BY <2>1, <2>2, <2>3
<1> QED  BY <1>7, <1>8, <1>9, <1>10

\* An Append left by Constraint_Error preserves the invariant: the count of its
\* new segment stays with the call.
LEMMA RaiseInAppendKeeps ==
  ASSUME IInv, NEW t \in Task, RaiseInAppend(t)
  PROVE  IInv'
<1> USE DEF IInv
<1> PICK c : c = call[t]
  OBVIOUS
<1> PICK r : r = [Idle EXCEPT !.pc = "raised", !.new = c.new]
  OBVIOUS
<1>1. /\ c.pc = "copy"
      /\ call' = [call EXCEPT ![t] = r]
      /\ UNCHANGED <<data, live, counter, value, capacity, indexMap>>
  BY DEF RaiseInAppend, heap
<1>2. c \in Calls /\ CallShape(c)
  BY DEF TypeOK, CallShapes
<1>3. c.new \in live /\ c.new \in Ref
  BY <1>1, <1>2 DEF CallShape, CopyShape, Calls
<1>4. r \in Calls
  BY <1>3, IdleIsCall DEF Calls
<1>5. r.pc = "raised" /\ r.self = Null /\ r.item = Null /\ r.new = c.new
  BY DEF Idle
<1>6. \A u \in Task : call'[u] = IF u = t THEN r ELSE call[u]
  BY <1>1 DEF TypeOK
<1>7. TypeOK'
  BY <1>1, <1>4 DEF TypeOK
<1>8. Discipline' /\ FreeOnce' /\ LiveData'
  BY <1>1, <1>5, <1>6 DEF Discipline, FreeOnce, LiveData
<1>9. CallShapes' /\ EditsFit'
  <2>1. CallShape(r)' /\ EditFits(r)'
    BY <1>1, <1>3, <1>5, ConstantsAssumption
    DEF CallShape, IdleShape, PublishShape, WriterShape, EditShape, CopyShape,
        ReleaseShape, TargetShape, EditFits
  <2>2. ASSUME NEW u \in Task \ {t} PROVE Undisturbed(call[u])
    BY <1>1 DEF Undisturbed, TypeOK, CallShapes, CallShape, CopyShape, ReleaseShape
  <2> QED  BY <1>1, <1>4, <2>1, <2>2, StepFrame
<1>10. CounterCoversHolders'
  <2> SUFFICES ASSUME NEW o \in live PROVE counter[o] >= Cardinality(Holders(o)')
    BY <1>1 DEF CounterCoversHolders
  <2>1. Holders(o)' \subseteq Holders(o)
    BY <1>1, <1>5, <1>6 DEF Holders
  <2> QED  BY <2>1, HoldersShrink
<1> QED  BY <1>7, <1>8, <1>9, <1>10

\* After a Dereference the call is over, or its object is yet to be assigned.
LEMMA ContinueShape ==
  ASSUME NEW c \in Calls, CallShape(c), c.pc \in {"drop", "free"}
  PROVE  /\ Continue(c) \in Calls
         /\ CallShape(Continue(c)) /\ EditFits(Continue(c))
         /\ Continue(c).pc \in {"bind", "idle"}
         /\ Continue(c).self \in {c.self, Null} /\ Continue(c).item \in {c.item, Null}
<1>1. CASE data[c.self] = Null
  <2> PICK r : r = [c EXCEPT !.pc = "bind"]
    OBVIOUS
  <2>1. Continue(c) = r /\ r \in Calls
    BY <1>1 DEF Continue, Calls
  <2>2. /\ r.pc = "bind" /\ r.self = c.self /\ r.item = c.item
        /\ r.new = c.new
    BY DEF Calls
  <2>3. CallShape(r) /\ EditFits(r)
    BY <1>1, <2>2 DEF CallShape, IdleShape, PublishShape, WriterShape, EditShape,
       CopyShape, ReleaseShape, TargetShape, EditFits
  <2> QED  BY <2>1, <2>2, <2>3
<1>2. CASE data[c.self] # Null
  <2>1. Continue(c) = Idle
    BY <1>2 DEF Continue
  <2>2. Idle.pc = "idle" /\ Idle.self = Null /\ Idle.item = Null
    BY DEF Idle
  <2>3. CallShape(Idle) /\ EditFits(Idle)
    BY <2>2, ConstantsAssumption
    DEF CallShape, IdleShape, PublishShape, WriterShape, EditShape,
        CopyShape, ReleaseShape, TargetShape, EditFits
  <2> QED  BY <2>1, <2>2, <2>3, IdleIsCall
<1> QED  BY <1>1, <1>2

\* The atomic decrement preserves the invariant.
LEMMA DereferenceKeeps ==
  ASSUME IInv, NEW t \in Task, Dereference(t)
  PROVE  IInv'
<1> USE DEF IInv
<1> PICK c : c = call[t]
  OBVIOUS
<1> PICK r : r = IF counter[c.old] = 1 THEN [c EXCEPT !.pc = "free"] ELSE Continue(c)
  OBVIOUS
<1>1. /\ c.pc = "drop"
      /\ counter' = [counter EXCEPT ![c.old] = @ - 1]
      /\ call' = [call EXCEPT ![t] = r]
      /\ UNCHANGED <<data, live, value, capacity, indexMap>>
  BY DEF Dereference
<1>2. c \in Calls /\ CallShape(c)
  BY DEF TypeOK, CallShapes
<1>3. /\ c.self \in Var /\ c.old \in live /\ c.old \in Object /\ t \in Holders(c.old)
      /\ data[c.self] # Null => data[c.self] = c.new
  BY <1>1, <1>2 DEF CallShape, WriterShape, ReleaseShape, Holders, TypeOK
<1>4. \A u \in Task : call'[u] = IF u = t THEN r ELSE call[u]
  BY <1>1 DEF TypeOK
<1>5. counter[c.old] \in Nat /\ counter[c.old] # 0
  BY <1>3, NoHolder DEF TypeOK
<1>6. \A x \in Object : counter'[x] = IF x = c.old THEN counter[x] - 1 ELSE counter[x]
  BY <1>1 DEF TypeOK
<1>7. /\ r \in Calls /\ r.self \in {c.self, Null} /\ r.item \in {c.item, Null}
      /\ r.pc \in {"free", "bind", "idle"} /\ (r.pc = "free" => r.old = c.old)
      /\ CallShape(r)' /\ EditFits(r)'
  <2>1. CASE counter[c.old] = 1
    <3>1. r = [c EXCEPT !.pc = "free"]
      BY <2>1
    <3>2. /\ r \in Calls /\ r.pc = "free" /\ r.self = c.self /\ r.item = c.item
          /\ r.old = c.old /\ r.new = c.new
      BY <1>2, <3>1 DEF Calls
    <3>3. counter'[c.old] = 0
      BY <1>3, <1>6, <2>1
    <3>4. CallShape(r)' /\ EditFits(r)'
      <4>1. /\ r.pc = "free" /\ r.self \in Var /\ r.old \in live' /\ counter'[r.old] = 0
            /\ data'[r.self] # Null => data'[r.self] = r.new
        BY <1>1, <1>3, <3>2, <3>3
      <4>2. /\ r.item \in Var => r.item = r.self \/ data'[r.item] # Null
            /\ data'[r.self] = Null =>
                 \/ r.new \in {Empty, Null}
                 \/ r.item \in Var /\ r.item # r.self /\ r.new = data'[r.item]
        BY <1>1, <1>2, <3>2 DEF CallShape, WriterShape, TargetShape
      <4> QED
        BY <4>1, <4>2
        DEF CallShape, IdleShape, PublishShape, WriterShape, EditShape, CopyShape,
            ReleaseShape, TargetShape, EditFits
    <3> QED  BY <3>2, <3>4
  <2>2. CASE counter[c.old] # 1
    <3>1. r = Continue(c)
      BY <2>2
    <3>2. /\ r \in Calls /\ CallShape(r) /\ EditFits(r)
          /\ r.pc \in {"bind", "idle"}
          /\ r.self \in {c.self, Null} /\ r.item \in {c.item, Null}
      BY <1>1, <1>2, <3>1, ContinueShape
    <3>3. CallShape(r)' /\ EditFits(r)'
      BY <1>1, <3>2
      DEF CallShape, IdleShape, PublishShape, WriterShape, EditShape, CopyShape,
          ReleaseShape, TargetShape, EditFits
    <3> QED  BY <3>2, <3>3
  <2> QED  BY <2>1, <2>2
<1>u. ASSUME NEW u \in Task \ {t}
      PROVE  /\ call[u].pc \in {"edit", "copy"} => call[u].new # c.old
             /\ call[u].pc = "free" => call[u].old # c.old
  <2>1. CallShape(call[u])
    BY DEF CallShapes
  <2>2. call[u].pc \in {"edit", "copy", "free"} => t \notin {u, call[u].self}
    BY <2>1, ConstantsAssumption DEF CallShape, WriterShape
  <2> QED  BY <1>3, <2>2, Unclaimed
<1>8. TypeOK'
  <2>1. counter' \in [Object -> Nat]
    BY <1>1, <1>3, <1>5 DEF TypeOK
  <2> QED  BY <1>1, <1>7, <2>1 DEF TypeOK
<1>9. Discipline' /\ LiveData'
  <2>1. Discipline'
    <3>1. r.self \in {call[t].self, Null} /\ r.item \in {call[t].item, Null}
      BY <1>7
    <3> QED  BY <1>4, <3>1, DisciplineStep
  <2>2. LiveData'
    BY <1>1 DEF LiveData
  <2> QED  BY <2>1, <2>2
<1>10. FreeOnce'
  <2> SUFFICES ASSUME NEW x \in Task, NEW y \in Task, x # y,
                      call'[x].pc = "free", call'[y].pc = "free"
               PROVE  call'[x].old # call'[y].old
    BY DEF FreeOnce
  <2>1. CASE x # t /\ y # t
    BY <1>4, <2>1 DEF FreeOnce
  <2>2. CASE x = t
    <3>1. call'[x] = r /\ r.old = c.old
      BY <1>4, <1>7, <2>2
    <3>2. y \in Task \ {t} /\ call'[y] = call[y] /\ call[y].old # c.old
      BY <1>4, <1>u, <2>2
    <3> QED  BY <3>1, <3>2
  <2>3. CASE y = t
    <3>1. call'[y] = r /\ r.old = c.old
      BY <1>4, <1>7, <2>3
    <3>2. x \in Task \ {t} /\ call'[x] = call[x] /\ call[x].old # c.old
      BY <1>4, <1>u, <2>3
    <3> QED  BY <3>1, <3>2
  <2> QED  BY <2>1, <2>2, <2>3
<1>11. CallShapes' /\ EditsFit'
  <2>1. ASSUME NEW u \in Task \ {t} PROVE Undisturbed(call[u])
    <3>1. CallShape(call[u])
      BY DEF CallShapes
    <3> QED
      BY <1>1, <1>6, <1>u, <3>1, SourceIsLive
      DEF Undisturbed, TypeOK, CallShape, CopyShape, ReleaseShape
  <2> QED  BY <1>1, <1>7, <2>1, StepFrame
<1>12. CounterCoversHolders'
  <2> SUFFICES ASSUME NEW o \in live PROVE counter'[o] >= Cardinality(Holders(o)')
    BY <1>1 DEF CounterCoversHolders
  <2>1. CASE o = c.old
    <3>1. Holders(o)' \subseteq Holders(o) \ {t}
      <4>1. t \notin Var /\ r.pc \notin {"drop", "copy", "raised"}
        BY <1>7, ConstantsAssumption
      <4>2. /\ data' = data /\ call'[t] = r
            /\ \A u \in Task \ {t} : call'[u] = call[u]
        BY <1>1, <1>4
      <4> HIDE DEF IInv
      <4> QED  BY <4>1, <4>2 DEF Holders
    <3> QED  BY <1>3, <1>6, <2>1, <3>1, HoldersLose DEF TypeOK
  <2>2. CASE o # c.old
    <3>1. Holders(o)' \subseteq Holders(o)
      <4>1. r.pc \notin {"drop", "copy", "raised"} /\ data' = data
        BY <1>1, <1>7
      <4> QED  BY <1>4, <4>1 DEF Holders
    <3>2. counter'[o] = counter[o]
      BY <1>6, <2>2 DEF TypeOK
    <3> QED  BY <3>1, <3>2, HoldersShrink
  <2> QED  BY <2>1, <2>2
<1> QED  BY <1>8, <1>9, <1>10, <1>11, <1>12

\* Deallocating the segment whose counter reached zero preserves the invariant.
LEMMA FreeKeeps ==
  ASSUME IInv, NEW t \in Task, Free(t)
  PROVE  IInv'
<1> USE DEF IInv
<1> PICK c : c = call[t]
  OBVIOUS
<1> PICK r : r = Continue(c)
  OBVIOUS
<1>1. /\ c.pc = "free"
      /\ live'     = live \ {c.old}
      /\ value'    = [value    EXCEPT ![c.old] = <<>>]
      /\ capacity' = [capacity EXCEPT ![c.old] = 0]
      /\ indexMap' = [indexMap EXCEPT ![c.old] = Null]
      /\ call'     = [call EXCEPT ![t] = r]
      /\ UNCHANGED <<data, counter>>
  BY DEF Free
<1>2. c \in Calls /\ CallShape(c)
  BY DEF TypeOK, CallShapes
<1>3. /\ c.old \in live /\ c.old \in Object
      /\ Holders(c.old) = {}
  BY <1>1, <1>2, NoHolder DEF CallShape, ReleaseShape, TypeOK
<1>4. \A u \in Task : call'[u] = IF u = t THEN r ELSE call[u]
  BY <1>1 DEF TypeOK
<1>5. /\ r \in Calls /\ CallShape(r) /\ EditFits(r)
      /\ r.pc \in {"bind", "idle"}
      /\ r.self \in {c.self, Null} /\ r.item \in {c.item, Null}
  BY <1>1, <1>2, ContinueShape
<1>6. TypeOK'
  <2>1. <<>> \in Texts
    BY DEF Texts
  <2> QED  BY <1>1, <1>5, <2>1 DEF TypeOK
<1>7. Discipline' /\ FreeOnce'
  BY <1>1, <1>4, <1>5, ConstantsAssumption DEF Discipline, FreeOnce
<1>8. LiveData'
  BY <1>1, <1>3 DEF LiveData, Holders
<1>9. CallShapes' /\ EditsFit'
  <2>1. CallShape(r)' /\ EditFits(r)'
    BY <1>1, <1>5
    DEF CallShape, IdleShape, PublishShape, WriterShape, EditShape, CopyShape,
        ReleaseShape, TargetShape, EditFits
  <2>2. ASSUME NEW u \in Task \ {t} PROVE Undisturbed(call[u])
    <3>1. CallShape(call[u])
      BY DEF CallShapes
    <3>2. call[u].pc \in {"edit", "copy"} => call[u].from # c.old
      <4>1. call[u].pc \in {"edit", "copy"} => \E x \in Var : data[x] = call[u].from
        BY <3>1 DEF CallShape, WriterShape, EditShape, CopyShape
      <4> QED  BY <1>3, <4>1 DEF Holders
    <3>3. /\ call[u].pc \in {"copy", "raised"} => call[u].new # c.old
          /\ call[u].pc = "drop" => call[u].old # c.old
      BY <1>3 DEF Holders
    <3>4. call[u].pc = "free" => call[u].old # c.old
      BY <1>1 DEF FreeOnce
    <3> QED
      BY <1>1, <3>1, <3>2, <3>3, <3>4 DEF Undisturbed, TypeOK, CallShape, CopyShape, ReleaseShape
  <2> QED  BY <1>1, <1>5, <2>1, <2>2, StepFrame
<1>10. CounterCoversHolders'
  <2> SUFFICES ASSUME NEW o \in live PROVE counter[o] >= Cardinality(Holders(o)')
    BY <1>1 DEF CounterCoversHolders
  <2>1. Holders(o)' \subseteq Holders(o)
    BY <1>1, <1>4, <1>5 DEF Holders
  <2> QED  BY <2>1, HoldersShrink
<1> QED  BY <1>6, <1>7, <1>8, <1>9, <1>10

\* Assigning the object and referencing its segment preserves the invariant.
LEMMA ReferenceKeeps ==
  ASSUME IInv, NEW t \in Task, Reference(t)
  PROVE  IInv'
<1> USE DEF IInv
<1> PICK c : c = call[t]
  OBVIOUS
<1>1. /\ c.pc = "bind"
      /\ data' = [data EXCEPT ![c.self] = c.new]
      /\ counter' = IF c.new \in Object
                    THEN [counter EXCEPT ![c.new] = @ + 1] ELSE counter
      /\ call' = [call EXCEPT ![t] = Idle]
      /\ UNCHANGED <<live, value, capacity, indexMap>>
  BY DEF Reference
<1>2. c \in Calls /\ CallShape(c)
  BY DEF TypeOK, CallShapes
<1>3. /\ c.self \in Var
      /\ c.new \in {Empty, Null} \/ (c.item \in Var /\ c.new = data[c.item])
  BY <1>1, <1>2 DEF CallShape, WriterShape, ReleaseShape, TargetShape
<1>4. c.new \in Object => c.item \in Holders(c.new) /\ c.new \in live
  BY <1>3, DataIsLive, ConstantsAssumption DEF Holders
<1>5. Idle.pc = "idle" /\ Idle.self = Null /\ Idle.item = Null
  BY DEF Idle
<1>6. \A u \in Task : call'[u] = IF u = t THEN Idle ELSE call[u]
  BY <1>1 DEF TypeOK
<1>d. \A x \in Var : data'[x] = IF x = c.self THEN c.new ELSE data[x]
  BY <1>1 DEF TypeOK
<1>7. \A x \in Object : counter'[x] = IF x = c.new THEN counter[x] + 1 ELSE counter[x]
  BY <1>1 DEF TypeOK
<1>8. TypeOK'
  <2>1. data' \in [Var -> Ref]
    BY <1>1, <1>2 DEF TypeOK, Calls
  <2>2. counter' \in [Object -> Nat]
    BY <1>1 DEF TypeOK
  <2>3. call' \in [Task -> Calls]
    BY <1>1, IdleIsCall DEF TypeOK
  <2> QED  BY <1>1, <2>1, <2>2, <2>3 DEF TypeOK
<1>9. Discipline' /\ FreeOnce'
  BY <1>5, <1>6 DEF Discipline, FreeOnce
<1>10. LiveData'
  BY <1>1, <1>2, <1>4, <1>d DEF LiveData, Calls, Ref, Shared
<1>11. CallShapes' /\ EditsFit'
  <2>1. CallShape(Idle)' /\ EditFits(Idle)'
    BY <1>5, ConstantsAssumption
    DEF CallShape, IdleShape, PublishShape, WriterShape, EditShape, CopyShape,
        ReleaseShape, TargetShape, EditFits
  <2>2. ASSUME NEW u \in Task \ {t} PROVE Undisturbed(call[u])
    <3>1. CallShape(call[u])
      BY DEF CallShapes
    <3>2. c.self \notin {call[u].self, call[u].item}
      BY <1>3, ConstantsAssumption DEF Discipline
    <3>3. c.new \in Object => c.item \in Var /\ c.item \notin {u, call[u].self}
      BY <1>3, ConstantsAssumption DEF Discipline
    <3>4. c.new \in Object =>
            /\ call[u].pc \in {"edit", "copy"} => call[u].new # c.new
            /\ call[u].pc = "free" => call[u].old # c.new
      BY <1>4, <3>3, Unclaimed
    <3> QED
      BY <1>1, <1>d, <1>7, <3>1, <3>2, <3>4, SourceIsLive
      DEF Undisturbed, TypeOK, CallShape, CopyShape, ReleaseShape
  <2> QED  BY <1>1, <2>1, <2>2, StepFrame, IdleIsCall
<1>12. CounterCoversHolders'
  <2> SUFFICES ASSUME NEW o \in live PROVE counter'[o] >= Cardinality(Holders(o)')
    BY <1>1 DEF CounterCoversHolders
  <2>1. CASE o = c.new
    <3>1. Holders(o)' \subseteq Holders(o) \cup {c.self}
      BY <1>1, <1>5, <1>6, <1>d, <2>1 DEF Holders
    <3> QED  BY <1>7, <2>1, <3>1, HoldersGrow DEF TypeOK
  <2>2. CASE o # c.new
    <3>1. Holders(o)' \subseteq Holders(o)
      BY <1>1, <1>5, <1>6, <1>d, <2>2 DEF Holders
    <3>2. counter'[o] = counter[o]
      BY <1>7, <2>2 DEF TypeOK
    <3> QED  BY <3>1, <3>2, HoldersShrink
  <2> QED  BY <2>1, <2>2
<1> QED  BY <1>8, <1>9, <1>10, <1>11, <1>12

\* Publishing an index map, or losing the race for it, preserves the invariant.
LEMMA PublishIndexMapKeeps ==
  ASSUME IInv, NEW t \in Task, PublishIndexMap(t)
  PROVE  IInv'
<1> USE DEF IInv
<1>1. /\ call[t].pc = "publish"
      /\ indexMap' = IF indexMap[call[t].from] = Null
                     THEN [indexMap EXCEPT ![call[t].from] = call[t].map] ELSE indexMap
      /\ call' = [call EXCEPT ![t] = Idle]
      /\ UNCHANGED <<data, live, counter, value, capacity>>
  BY DEF PublishIndexMap
<1>2. call[t] \in Calls /\ CallShape(call[t])
  BY DEF TypeOK, CallShapes
<1>3. Idle.pc = "idle" /\ Idle.self = Null /\ Idle.item = Null
  BY DEF Idle
<1>4. \A u \in Task : call'[u] = IF u = t THEN Idle ELSE call[u]
  BY <1>1 DEF TypeOK
<1>5. TypeOK'
  <2>1. call[t].from \in Object /\ call[t].map \in Texts
    BY <1>1, <1>2 DEF CallShape, PublishShape, Calls
  <2>2. indexMap' \in [Object -> Texts \cup {Null}]
    BY <1>1, <2>1 DEF TypeOK
  <2> QED  BY <1>1, <2>2, IdleIsCall DEF TypeOK
<1>6. Discipline' /\ FreeOnce' /\ LiveData'
  BY <1>1, <1>3, <1>4 DEF Discipline, FreeOnce, LiveData
<1>7. CallShapes' /\ EditsFit'
  <2>1. CallShape(Idle)' /\ EditFits(Idle)'
    BY <1>3, ConstantsAssumption
    DEF CallShape, IdleShape, PublishShape, WriterShape, EditShape, CopyShape,
        ReleaseShape, TargetShape, EditFits
  <2>2. \A u \in Task : Undisturbed(call[u])
    BY <1>1 DEF Undisturbed, TypeOK, CallShapes, CallShape, CopyShape, ReleaseShape
  <2> QED  BY <1>1, <2>1, <2>2, StepFrame, IdleIsCall
<1>8. CounterCoversHolders'
  <2> SUFFICES ASSUME NEW o \in live PROVE counter[o] >= Cardinality(Holders(o)')
    BY <1>1 DEF CounterCoversHolders
  <2>1. Holders(o)' \subseteq Holders(o)
    BY <1>1, <1>3, <1>4 DEF Holders
  <2> QED  BY <2>1, HoldersShrink
<1> QED  BY <1>5, <1>6, <1>7, <1>8

-----------------------------------------------------------------------------
(***************************************************************************)
(* The theorems.                                                           *)
(***************************************************************************)

\* A stuttering step preserves the invariant.
LEMMA StutterKeeps ==
  ASSUME IInv, UNCHANGED vars
  PROVE  IInv'
<1>1. /\ data' = data /\ live' = live /\ counter' = counter /\ value' = value
      /\ capacity' = capacity /\ indexMap' = indexMap /\ call' = call
  BY DEF vars, heap
<1>2. TypeOK' /\ Discipline' /\ FreeOnce' /\ LiveData'
  BY <1>1 DEF IInv, TypeOK, Discipline, FreeOnce, LiveData
<1>3. CallShapes'
  BY <1>1 DEF IInv, CallShapes, CallShape, IdleShape, PublishShape, WriterShape, EditShape,
              CopyShape, ReleaseShape, TargetShape
<1>4. EditsFit'
  BY <1>1 DEF IInv, EditsFit, EditFits, Text
<1>5. CounterCoversHolders'
  BY <1>1 DEF IInv, CounterCoversHolders, Holders
<1> QED  BY <1>2, <1>3, <1>4, <1>5 DEF IInv

\* The invariant is inductive.
LEMMA NextKeeps ==
  ASSUME ~SelfReplace, IInv, [Next]_vars
  PROVE  IInv'
<1>1. ASSUME NEW t \in Task, Start(t) PROVE IInv'
  <2>1. TypeOK
    BY DEF IInv
  <2>2. \/ \E v \in Var : Declare(t, v)
        \/ \E w \in Var : ComputeIndexMap(t, w)
        \/ SharesTarget(t) \/ EditsAlone(t) \/ Copies(t) \/ ReferencesAll(t)
    BY <1>1, <2>1, StartForms
  <2> QED
    BY <2>2, DeclareKeeps, ComputeIndexMapKeeps, SharesTargetKeeps, EditsAloneKeeps,
       CopiesKeeps, ReferencesAllKeeps
<1>2. ASSUME NEW t \in Task, Step(t) PROVE IInv'
  BY <1>2, EditInPlaceKeeps, CopyOutKeeps, RaiseInAppendKeeps, DereferenceKeeps,
     FreeKeeps, ReferenceKeeps, PublishIndexMapKeeps DEF Step
<1>3. CASE UNCHANGED vars
  BY <1>3, StutterKeeps
<1> QED  BY <1>1, <1>2, <1>3 DEF Next

\* The inductive invariant holds in every state of a program that does not
\* replace all of a string by that very object.
THEOREM Invariance ==
  ASSUME ~SelfReplace
  PROVE  Spec => []IInv
<1>1. Init => IInv
  BY InitIInv
<1>2. IInv /\ [Next]_vars => IInv'
  BY NextKeeps
<1> QED  BY <1>1, <1>2, PTL DEF Spec

\* Every variable has its type.
THEOREM TypeCorrect ==
  ASSUME ~SelfReplace
  PROVE  Spec => []TypeOK
<1>1. IInv => TypeOK
  BY DEF IInv
<1> QED  BY <1>1, Invariance, PTL

\* Matreshka.Internals.Strings never loses a count: Reference, Dereference and
\* Can_Be_Reused, interleaved in any way, leave every counter at least as high
\* as the number of the objects and calls that hold the segment.
THEOREM CountersAreSafe ==
  ASSUME ~SelfReplace
  PROVE  Spec => []CounterCoversHolders
<1>1. IInv => CounterCoversHolders
  BY DEF IInv
<1> QED  BY <1>1, Invariance, PTL

\* No Universal_String and no running call refers to a deallocated segment.
THEOREM NothingDangles ==
  ASSUME ~SelfReplace
  PROVE  Spec => []NoDangling
<1>1. IInv => NoDangling
  <2> SUFFICES ASSUME IInv PROVE NoDangling
    OBVIOUS
  <2>1. \A v \in Var : data[v] \in live \cup {Empty, Null}
    BY DEF IInv, LiveData
  <2>2. ASSUME NEW t \in Task
        PROVE  /\ call[t].pc \in {"drop", "free"} => call[t].old \in live
               /\ call[t].pc \in {"edit", "copy"} => call[t].new \in live
               /\ call[t].pc \in {"edit", "copy", "publish"} =>
                    call[t].from \in live \cup {Empty, Null}
               /\ call[t].pc \in {"drop", "free", "bind"} =>
                    call[t].new \in live \cup {Empty, Null}
    <3>1. CallShape(call[t]) /\ call[t].from \in Ref
      BY DEF IInv, CallShapes, TypeOK, Calls
    <3>2. call[t].pc \in {"drop", "free"} => call[t].old \in live
      BY <3>1 DEF CallShape, ReleaseShape
    <3>3. /\ call[t].pc \in {"edit", "copy"} => call[t].new \in live
          /\ call[t].pc \in {"edit", "copy", "publish"} =>
               call[t].from \in live \cup {Empty, Null}
      BY <3>1, SourceIsLive DEF Ref, Shared
    <3>4. call[t].pc \in {"drop", "free", "bind"} =>
            call[t].new \in live \cup {Empty, Null}
      BY <2>1, <3>1 DEF CallShape, WriterShape, ReleaseShape, TargetShape
    <3> QED  BY <3>2, <3>3, <3>4
  <2> QED  BY <2>1, <2>2 DEF NoDangling
<1> QED  BY <1>1, Invariance, PTL

\* A task that edits a segment in place is alone with it.
LEMMA EditsAreExclusive == IInv => ExclusiveEdit
<1> SUFFICES ASSUME IInv, NEW t \in Task, call[t].pc = "edit"
             PROVE  /\ {v \in Var : data[v] = call[t].new} = {call[t].self}
                    /\ \A u \in Task \ {t} : ~Uses(u, call[t].new)
  BY DEF ExclusiveEdit
<1> PICK o : o = call[t].new
  OBVIOUS
<1> PICK s : s = call[t].self
  OBVIOUS
<1>1. /\ CallShape(call[t]) /\ o \in live /\ counter[o] = 1
      /\ s \in Var /\ data[s] = o /\ s \in Holders(o)
  BY SourceIsLive DEF IInv, CallShapes, CallShape, WriterShape, EditShape, Holders
<1>2. \A x \in Holders(o) : x = s
  BY <1>1, SoleHolder
<1>3. {v \in Var : data[v] = o} = {s}
  BY <1>1, <1>2 DEF Holders
<1>4. ASSUME NEW u \in Task \ {t} PROVE ~Uses(u, o)
  <2>1. CallShape(call[u])
    BY DEF IInv, CallShapes
  <2>2. s \notin {u, call[u].self, call[u].item}
    BY <1>1, ConstantsAssumption DEF IInv, Discipline
  <2>3. \A x \in Var : x # s => data[x] # o
    BY <1>2 DEF Holders
  <2>4. ~(call[u].pc \in {"edit", "copy", "publish"} /\ call[u].from = o)
    BY NotRead
  <2>5. /\ ~(call[u].pc \in {"edit", "copy"} /\ call[u].new = o)
        /\ ~(call[u].pc = "free" /\ call[u].old = o)
    BY <1>1, <2>2, Unclaimed
  <2>6. ~(call[u].pc = "drop" /\ call[u].old = o)
    BY <1>2, <2>2 DEF Holders
  <2>7. ~(call[u].pc \in {"drop", "free", "bind"} /\ call[u].new = o)
    BY <1>1, <2>1, <2>2, <2>3, ConstantsAssumption
    DEF CallShape, WriterShape, ReleaseShape, TargetShape, IInv, TypeOK
  <2>8. call[u].item # Null => data[call[u].item] # o
    BY <2>2, <2>3 DEF IInv, TypeOK, Calls
  <2> QED  BY <2>4, <2>5, <2>6, <2>7, <2>8 DEF Uses
<1> QED  BY <1>3, <1>4

\* What Can_Be_Reused promises: in every state, a task that edits a segment in
\* place is alone with it.
THEOREM EditsExclusive ==
  ASSUME ~SelfReplace
  PROVE  Spec => []ExclusiveEdit
BY Invariance, EditsAreExclusive, PTL

\* Copy-on-write: no step changes the text of a segment that two objects share.
THEOREM SharingIsSafe ==
  ASSUME ~SelfReplace
  PROVE  Spec => SharedTextIsConstant
<1>1. ASSUME IInv, Next
      PROVE  \A o \in live \cap live' :
               Cardinality({v \in Var : data[v] = o}) > 1 => value'[o] = value[o]
  <2> SUFFICES ASSUME NEW o \in live, o \in live', value'[o] # value[o]
               PROVE  ~(Cardinality({v \in Var : data[v] = o}) > 1)
    OBVIOUS
  <2>1. o \in Object /\ value \in [Object -> Texts] /\ TypeOK
    BY <1>1 DEF IInv, TypeOK
  <2>2. PICK t \in Task : Start(t) \/ Step(t)
    BY <1>1 DEF Next
  <2>3. ~Start(t)
    <3> SUFFICES ASSUME Start(t) PROVE value'[o] = value[o]
      OBVIOUS
    <3>1. \/ \E v \in Var : Declare(t, v)
          \/ \E w \in Var : ComputeIndexMap(t, w)
          \/ SharesTarget(t) \/ EditsAlone(t) \/ Copies(t) \/ ReferencesAll(t)
      BY <2>1, StartForms
    <3>2. CASE Copies(t)
      BY <2>1, <3>2 DEF Copies, CopyTo, Allocate
    <3> QED
      BY <3>1, <3>2
      DEF Declare, ComputeIndexMap, SharesTarget, Rebind, EditsAlone, ReferencesAll, heap
  <2>4. \/ EditInPlace(t) /\ o = call[t].new
        \/ CopyOut(t) /\ o = call[t].new
    BY <2>1, <2>2, <2>3
    DEF Step, EditInPlace, CopyOut, RaiseInAppend, Dereference, Free, Reference,
        PublishIndexMap, heap
  <2>5. CASE EditInPlace(t) /\ o = call[t].new
    <3>1. {v \in Var : data[v] = o} = {call[t].self}
      BY <1>1, <2>5, EditsAreExclusive DEF EditInPlace, ExclusiveEdit
    <3>2. Cardinality({call[t].self}) = 1
      BY FS_Singleton
    <3> QED  BY <3>1, <3>2
  <2>6. CASE CopyOut(t) /\ o = call[t].new
    <3>1. t \in Holders(o) /\ counter[o] = 1
      BY <1>1, <2>6 DEF CopyOut, Holders, IInv, CallShapes, CallShape, CopyShape
    <3>2. \A x \in Var : data[x] # o
      BY <1>1, <3>1, SoleHolder, ConstantsAssumption DEF Holders
    <3>3. {v \in Var : data[v] = o} = {}
      BY <3>2
    <3> QED  BY <3>3, FS_EmptySet
  <2> QED  BY <2>4, <2>5, <2>6
<1> QED  BY <1>1, Invariance, PTL DEF Spec, SharedTextIsConstant

-----------------------------------------------------------------------------
(***************************************************************************)
(* What the segments hold.                                                 *)
(***************************************************************************)

\* A step leaves alone what a call of another task will store or has indexed.
Spared(c) ==
  /\ c.item \in Var => data'[c.item] = data[c.item]
  /\ c.pc \in {"edit", "copy"} => capacity'[c.new] = capacity[c.new]
  /\ c.pc = "copy" => indexMap'[c.new] = indexMap[c.new]
  /\ c.pc \in {"edit", "copy", "publish"} /\ c.from \in Object =>
       value'[c.from] = value[c.from]
  /\ c.pc \in {"edit", "copy"} /\ c.item \in Var /\ data[c.item] \in Object =>
       value'[data[c.item]] = value[data[c.item]]

\* What a call will store stays the same as long as its sources do.
LEMMA OutcomeFrame ==
  ASSUME NEW c \in Calls,
         c.item \in Var => data'[c.item] = data[c.item],
         c.from \in Object => value'[c.from] = value[c.from],
         c.item \in Var /\ data[c.item] \in Object =>
           value'[data[c.item]] = value[data[c.item]]
  PROVE  Outcome(c.from, c.item, c.edit)' = Outcome(c.from, c.item, c.edit)
<1>1. Text(c.from)' = Text(c.from)
  BY DEF Text
<1>2. c.item # Null => Text(data[c.item])' = Text(data[c.item])
  BY DEF Text, Calls
<1> QED  BY <1>1, <1>2 DEF Outcome

\* So a spared call keeps its shape.
LEMMA SegmentFrame ==
  ASSUME NEW c \in Calls, CallShape(c), SegmentShape(c), Spared(c)
  PROVE  SegmentShape(c)'
<1>1. c.pc = "publish" => c.map = value'[c.from]
  BY DEF CallShape, PublishShape, SegmentShape, Spared
<1>2. ASSUME c.pc \in {"edit", "copy"}
      PROVE  Len(Outcome(c.from, c.item, c.edit)') \in 1 .. capacity'[c.new]
  <2>1. Outcome(c.from, c.item, c.edit)' = Outcome(c.from, c.item, c.edit)
    BY <1>2, OutcomeFrame DEF Spared
  <2> QED  BY <1>2, <2>1 DEF SegmentShape, Spared
<1>3. c.pc = "copy" => indexMap'[c.new] = Null
  BY DEF SegmentShape, Spared
<1> QED  BY <1>1, <1>2, <1>3 DEF SegmentShape

\* A step of t is left with its own call and the segment it changes.
LEMMA SegmentsStep ==
  ASSUME IInv, SegmentsInv, NEW t \in Task, NEW r, NEW o,
         call' = [call EXCEPT ![t] = r], SegmentShape(r)',
         \A u \in Task \ {t} : Spared(call[u]),
         live' \subseteq live \cup {o},
         \A x \in Object \ {o} : /\ value'[x] = value[x] /\ capacity'[x] = capacity[x]
                                 /\ indexMap'[x] = indexMap[x],
         o \in live' => /\ indexMap'[o] # Null => indexMap'[o] = value'[o]
                        /\ Len(value'[o]) <= capacity'[o]
  PROVE  SegmentsInv'
<1>1. \A u \in Task : SegmentShape(call[u])'
  <2> TAKE u \in Task
  <2> PICK c : c = call'[u]
    OBVIOUS
  <2>1. SegmentShape(c)'
    <3>1. CASE u = t
      BY <3>1 DEF IInv, TypeOK
    <3>2. CASE u # t
      <4>1. c = call[u] /\ c \in Calls /\ CallShape(c) /\ SegmentShape(c) /\ Spared(c)
        BY <3>2 DEF IInv, TypeOK, CallShapes, SegmentsInv
      <4> QED  BY <4>1, SegmentFrame
    <3> QED  BY <3>1, <3>2
  <2> QED  BY <2>1 DEF SegmentShape, Outcome, Text
<1>2. \A x \in live' : /\ indexMap'[x] # Null => indexMap'[x] = value'[x]
                       /\ Len(value'[x]) <= capacity'[x]
  <2> TAKE x \in live'
  <2>1. CASE x = o
    BY <2>1
  <2>2. CASE x # o
    <3>1. x \in live /\ x \in Object
      BY <2>2 DEF IInv, TypeOK
    <3>2. /\ indexMap[x] # Null => indexMap[x] = value[x]
          /\ Len(value[x]) <= capacity[x]
      BY <3>1 DEF SegmentsInv, IndexMapIsCurrent, RoomForTerminator
    <3> QED  BY <2>2, <3>1, <3>2
  <2> QED  BY <2>1, <2>2
<1>3. IndexMapIsCurrent'
  BY <1>2 DEF IndexMapIsCurrent
<1>4. RoomForTerminator'
  <2>1. \A x \in live' : Len(value'[x]) <= capacity'[x]
    BY <1>2
  <2> QED  BY ONLY <2>1, Zenon DEF RoomForTerminator
<1> QED  BY <1>1, <1>3, <1>4 DEF SegmentsInv

\* A step that changes no segment is left with its own call.
LEMMA SegmentsKept ==
  ASSUME IInv, SegmentsInv, NEW t \in Task, NEW r,
         call' = [call EXCEPT ![t] = r], SegmentShape(r)',
         \A u \in Task \ {t} : call[u].item \in Var => data'[call[u].item] = data[call[u].item],
         UNCHANGED <<live, value, capacity, indexMap>>
  PROVE  SegmentsInv'
<1>1. \A u \in Task \ {t} : Spared(call[u])
  BY DEF Spared
<1>2. Null \notin live
  BY ConstantsAssumption DEF IInv, TypeOK
<1> QED  BY <1>1, <1>2, SegmentsStep

\* A call that neither stores nor indexes has nothing to keep.
LEMMA NoSegmentShape ==
  ASSUME NEW c, c.pc \notin {"edit", "copy", "publish"}
  PROVE  SegmentShape(c)'
BY DEF SegmentShape

\* A step that changes segment o spares the calls that do not use it.
LEMMA SparedBy ==
  ASSUME IInv, NEW u \in Task, NEW o,
         \A x \in Object \ {o} : /\ value'[x] = value[x] /\ capacity'[x] = capacity[x]
                                 /\ indexMap'[x] = indexMap[x],
         call[u].item \in Var => data'[call[u].item] = data[call[u].item],
         call[u].pc \in {"edit", "copy", "publish"} => call[u].from # o,
         call[u].pc \in {"edit", "copy"} => call[u].new # o,
         call[u].pc \in {"edit", "copy"} /\ call[u].item \in Var => data[call[u].item] # o
  PROVE  Spared(call[u])
<1>1. call[u].pc \in {"edit", "copy"} => call[u].new \in Object
  BY SourceIsLive DEF IInv, TypeOK
<1> QED  BY <1>1 DEF Spared

\* The segments are in order before the program declares its first object.
LEMMA InitSegments == Init => SegmentsInv
BY DEF Init, SegmentsInv, IndexMapIsCurrent, RoomForTerminator, SegmentShape, Idle

\* A call that starts keeps them in order.
LEMMA StartSegments ==
  ASSUME ~SelfReplace, IInv, SegmentsInv, NEW t \in Task, Start(t)
  PROVE  SegmentsInv'
<1>t. TypeOK
  BY DEF IInv
<1>1. ASSUME NEW v \in Var, Declare(t, v) PROVE SegmentsInv'
  <2>1. /\ UNCHANGED <<live, value, capacity, indexMap, call>> /\ call[t].pc = "idle"
        /\ \A u \in Task : call[u].item # v
        /\ data' = [data EXCEPT ![v] = Empty]
    BY <1>1 DEF Declare, MayWrite, heap
  <2>2. \A u \in Task : call[u].item \in Var => data'[call[u].item] = data[call[u].item]
    BY <1>t, <2>1 DEF TypeOK
  <2>3. call' = [call EXCEPT ![t] = call[t]]
    BY <1>t, <2>1 DEF TypeOK
  <2>4. PICK r : r = call[t]
    OBVIOUS
  <2> QED  BY <2>1, <2>2, <2>3, <2>4, NoSegmentShape, SegmentsKept
<1>2. ASSUME NEW w \in Var, ComputeIndexMap(t, w) PROVE SegmentsInv'
  <2> PICK r : r = [Idle EXCEPT !.pc = "publish", !.item = w, !.from = data[w],
                                !.map = value[data[w]]]
    OBVIOUS
  <2>1. UNCHANGED <<data, live, value, capacity, indexMap>> /\ call' = [call EXCEPT ![t] = r]
    BY <1>2 DEF ComputeIndexMap, heap
  <2>2. r.pc = "publish" /\ r.map = value[r.from]
    BY DEF Idle
  <2>3. SegmentShape(r)'
    BY <2>1, <2>2 DEF SegmentShape
  <2> QED  BY <2>1, <2>3, SegmentsKept
<1>3. ASSUME SharesTarget(t) PROVE SegmentsInv'
  <2>1. PICK v \in Var, w \in Var \cup {Null}, target \in Ref :
             MayWrite(t, v) /\ Rebind(t, v, w, target)
    BY <1>3 DEF SharesTarget
  <2> PICK r : r = [Idle EXCEPT !.pc   = IF data[v] \in Object THEN "drop" ELSE "bind",
                                !.self = v, !.item = w, !.old = data[v], !.new = target]
    OBVIOUS
  <2>2. /\ UNCHANGED <<live, value, capacity, indexMap>> /\ call' = [call EXCEPT ![t] = r]
        /\ data' = [data EXCEPT ![v] = Null] /\ \A u \in Task : call[u].item # v
    BY <2>1 DEF Rebind, MayWrite, heap
  <2>3. r.pc \in {"drop", "bind"}
    BY DEF Idle
  <2>4. \A u \in Task : call[u].item \in Var => data'[call[u].item] = data[call[u].item]
    BY <1>t, <2>2 DEF TypeOK
  <2> QED  BY <2>2, <2>3, <2>4, NoSegmentShape, SegmentsKept
<1>4. ASSUME EditsAlone(t) PROVE SegmentsInv'
  <2>1. PICK v \in Var, w \in Var \cup {Null}, e \in Edit :
             /\ Len(Outcome(data[v], w, e)) \in 1 .. capacity[data[v]]
             /\ call' = [call EXCEPT ![t] =
                  [Idle EXCEPT !.pc = "edit", !.self = v, !.item = w,
                               !.from = data[v], !.new = data[v], !.edit = e]]
             /\ UNCHANGED <<data, heap>>
    BY <1>4 DEF EditsAlone
  <2> PICK r : r = [Idle EXCEPT !.pc = "edit", !.self = v, !.item = w,
                                !.from = data[v], !.new = data[v], !.edit = e]
    OBVIOUS
  <2>2. UNCHANGED <<data, live, value, capacity, indexMap>> /\ call' = [call EXCEPT ![t] = r]
    BY <2>1 DEF heap
  <2>3. r.pc = "edit" /\ r.item = w /\ r.from = data[v] /\ r.new = data[v] /\ r.edit = e
    BY DEF Idle
  <2>4. Len(Outcome(r.from, r.item, r.edit)) \in 1 .. capacity[r.new]
    BY <2>1, <2>3
  <2>5. SegmentShape(r)'
    BY <2>2, <2>3, <2>4 DEF SegmentShape, Outcome, Text
  <2> QED  BY <2>2, <2>5, SegmentsKept
<1>5. ASSUME Copies(t) PROVE SegmentsInv'
  <2>1. PICK c \in Calls, size \in Nat :
             /\ c.from = data[c.self] \/ (c.item \in Var /\ c.from = data[c.item])
             /\ c.self \in Var
             /\ Len(Outcome(c.from, c.item, c.edit)) \in 1 .. size
             /\ CopyTo(t, c, size)
    BY <1>5 DEF Copies
  <2>2. PICK o \in Object :
             /\ Allocate(o, size)
             /\ call' = [call EXCEPT ![t] = [c EXCEPT !.pc = "copy", !.new = o]]
             /\ UNCHANGED data
    BY <2>1 DEF CopyTo
  <2> PICK r : r = [c EXCEPT !.pc = "copy", !.new = o]
    OBVIOUS
  <2>3. /\ r.pc = "copy" /\ r.item = c.item /\ r.from = c.from /\ r.new = o /\ r.edit = c.edit
        /\ r \in Calls
    BY DEF Calls, Ref, Shared
  <2>4. /\ o \notin live /\ live' = live \cup {o}
        /\ \A x \in Object \ {o} : /\ value'[x] = value[x] /\ capacity'[x] = capacity[x]
                                   /\ indexMap'[x] = indexMap[x]
        /\ value'[o] = <<>> /\ capacity'[o] = AlignedSize(size) - 1 /\ indexMap'[o] = Null
    BY <1>t, <2>2 DEF Allocate, TypeOK
  <2>5. \A x \in Var : data[x] # o
    BY <2>4, DataIsLive
  <2>6. SegmentShape(r)'
    <3>1. /\ c.from \in Object => value'[c.from] = value[c.from]
          /\ c.item \in Var /\ data[c.item] \in Object =>
               value'[data[c.item]] = value[data[c.item]]
      BY <2>1, <2>4, <2>5
    <3>2. Outcome(r.from, r.item, r.edit)' = Outcome(r.from, r.item, r.edit)
      BY <2>2, <2>3, <3>1, OutcomeFrame
    <3>3. AlignedSize(size) \in Int /\ AlignedSize(size) > size
      BY AlignedSizeRoom
    <3>4. Len(Outcome(r.from, r.item, r.edit)') \in 1 .. capacity'[r.new]
      BY <2>1, <2>3, <2>4, <3>2, <3>3
    <3> QED  BY <2>3, <2>4, <3>4 DEF SegmentShape
  <2>7. \A u \in Task \ {t} : Spared(call[u])
    <3> TAKE u \in Task \ {t}
    <3>1. /\ call[u].pc \in {"edit", "copy", "publish"} => call[u].from # o
          /\ call[u].pc \in {"edit", "copy"} => call[u].new # o
      BY <2>4, SourceIsLive
    <3> QED  BY <2>2, <2>4, <2>5, <3>1, SparedBy
  <2>8. Len(value'[o]) <= capacity'[o]
    <3>1. Len(<<>>) = 0 /\ AlignedSize(size) \in Int /\ AlignedSize(size) > size
      BY AlignedSizeRoom
    <3> QED  BY <2>4, <3>1
  <2> QED  BY <2>2, <2>4, <2>6, <2>7, <2>8, SegmentsStep
<1>6. ASSUME ReferencesAll(t) PROVE SegmentsInv'
  <2>1. PICK v \in Var, e \in Edit :
             /\ call' = [call EXCEPT ![t] =
                  [Idle EXCEPT !.pc = "drop", !.self = v, !.from = data[v],
                               !.old = data[v], !.new = data[v], !.edit = e]]
             /\ UNCHANGED <<data, live, value, capacity, indexMap>>
    BY <1>6 DEF ReferencesAll
  <2> PICK r : r = [Idle EXCEPT !.pc = "drop", !.self = v, !.from = data[v],
                                !.old = data[v], !.new = data[v], !.edit = e]
    OBVIOUS
  <2>2. r.pc = "drop" /\ call' = [call EXCEPT ![t] = r]
    BY <2>1 DEF Idle
  <2> QED  BY <2>1, <2>2, NoSegmentShape, SegmentsKept
<1> QED  BY <1>t, <1>1, <1>2, <1>3, <1>4, <1>5, <1>6, StartForms

\* A running call keeps them in order, above all one that edits in place: no
\* other call has yet to store, or to publish, what it read there.
LEMMA StepSegments ==
  ASSUME IInv, SegmentsInv, NEW t \in Task, Step(t)
  PROVE  SegmentsInv'
<1> PICK c : c = call[t]
  OBVIOUS
<1>t. TypeOK /\ c \in Calls /\ CallShape(c) /\ SegmentShape(c)
  BY DEF IInv, TypeOK, CallShapes, SegmentsInv
<1>i. Idle.pc = "idle"
  BY DEF Idle
<1>s. ASSUME c.self \in Var, NEW x, data' = [data EXCEPT ![c.self] = x], NEW u \in Task \ {t}
      PROVE  call[u].item \in Var => data'[call[u].item] = data[call[u].item]
  <2>1. c.self # call[u].item
    BY <1>s, ConstantsAssumption DEF IInv, Discipline
  <2> QED  BY <1>t, <1>s, <2>1 DEF TypeOK
<1>1. ASSUME EditInPlace(t) PROVE SegmentsInv'
  <2> PICK o : o = c.new
    OBVIOUS
  <2>1. /\ c.pc = "edit" /\ UNCHANGED <<data, live, counter, capacity>>
        /\ value' = [value EXCEPT ![o] = Result(t)]
        /\ indexMap' = [indexMap EXCEPT ![o] = Null]
        /\ call' = [call EXCEPT ![t] = Idle]
    BY <1>1 DEF EditInPlace
  <2>2. o \in Object /\ \A x \in Object \ {o} : /\ value'[x] = value[x]
                                                /\ capacity'[x] = capacity[x]
                                                /\ indexMap'[x] = indexMap[x]
    BY <1>t, <2>1 DEF TypeOK, CallShape, EditShape
  <2>3. Len(value'[o]) <= capacity'[o] /\ indexMap'[o] = Null
    <3>1. value'[o] = Outcome(c.from, c.item, c.edit) /\ indexMap'[o] = Null
      BY <1>t, <2>1, <2>2 DEF TypeOK, Result, Outcome
    <3>2. Len(Outcome(c.from, c.item, c.edit)) \in 1 .. capacity[o]
      BY <1>t, <2>1 DEF SegmentShape
    <3> QED  BY <2>1, <3>1, <3>2
  <2>4. \A u \in Task \ {t} : Spared(call[u])
    <3> TAKE u \in Task \ {t}
    <3>1. ~Uses(u, o)
      BY <2>1, EditsAreExclusive DEF ExclusiveEdit
    <3>2. call[u].item \in Var => call[u].item # Null
      BY ConstantsAssumption
    <3> QED  BY <2>1, <2>2, <3>1, <3>2, SparedBy DEF Uses
  <2> PICK r : r = Idle
    OBVIOUS
  <2>5. SegmentShape(r)' /\ call' = [call EXCEPT ![t] = r]
    BY <1>i, <2>1, NoSegmentShape
  <2>6. live' \subseteq live \cup {o}
    BY <2>1
  <2> QED  BY <2>2, <2>3, <2>4, <2>5, <2>6, SegmentsStep
<1>2. ASSUME CopyOut(t) PROVE SegmentsInv'
  <2> PICK o : o = c.new
    OBVIOUS
  <2> PICK r : r = IF c.old \in Object THEN [c EXCEPT !.pc = "drop"] ELSE Idle
    OBVIOUS
  <2>1. /\ c.pc = "copy" /\ UNCHANGED <<live, counter, capacity, indexMap>>
        /\ value' = [value EXCEPT ![o] = Result(t)]
        /\ data' = [data EXCEPT ![c.self] = o]
        /\ call' = [call EXCEPT ![t] = r]
    BY <1>2 DEF CopyOut
  <2>2. /\ o \in Object /\ o \in live /\ c.self \in Var /\ t \in Holders(o)
        /\ \A x \in Object \ {o} : value'[x] = value[x]
    BY <1>t, <2>1 DEF TypeOK, IInv, CallShape, CopyShape, WriterShape, Holders
  <2>3. Len(value'[o]) <= capacity'[o] /\ indexMap'[o] = Null
    <3>1. value'[o] = Outcome(c.from, c.item, c.edit)
      BY <1>t, <2>1, <2>2 DEF TypeOK, Result, Outcome
    <3>2. Len(Outcome(c.from, c.item, c.edit)) \in 1 .. capacity[o] /\ indexMap[o] = Null
      BY <1>t, <2>1 DEF SegmentShape
    <3> QED  BY <2>1, <3>1, <3>2
  <2>4. \A u \in Task \ {t} : Spared(call[u])
    <3> TAKE u \in Task \ {t}
    <3>1. /\ call[u].pc \in {"edit", "copy", "publish"} => call[u].from # o
          /\ \A x \in Var : data[x] # o
      BY <2>1, NotRead
    <3>2. call[u].pc \in {"edit", "copy"} => t \notin {u, call[u].self}
      BY ConstantsAssumption DEF IInv, CallShapes, CallShape, WriterShape
    <3>3. call[u].pc \in {"edit", "copy"} => call[u].new # o
      BY <2>2, <3>2, Unclaimed
    <3>4. call[u].item \in Var => data'[call[u].item] = data[call[u].item]
      BY <1>s, <2>1, <2>2
    <3> QED  BY <2>1, <2>2, <3>1, <3>3, <3>4, SparedBy
  <2>5. SegmentShape(r)'
    <3>1. r.pc \in {"drop", "idle"}
      BY <1>t, <1>i DEF Calls
    <3> QED  BY <3>1, NoSegmentShape
  <2> QED  BY <2>1, <2>2, <2>3, <2>4, <2>5, SegmentsStep
<1>3. ASSUME RaiseInAppend(t) PROVE SegmentsInv'
  <2> PICK r : r = [Idle EXCEPT !.pc = "raised", !.new = c.new]
    OBVIOUS
  <2>1. /\ UNCHANGED <<data, live, value, capacity, indexMap>>
        /\ call' = [call EXCEPT ![t] = r]
    BY <1>3 DEF RaiseInAppend, heap
  <2>2. r.pc = "raised"
    BY DEF Idle
  <2> QED  BY <2>1, <2>2, NoSegmentShape, SegmentsKept
<1>c. c.pc \in {"drop", "free"} => Continue(c).pc \in {"bind", "idle"}
  BY <1>t, ContinueShape
<1>4. ASSUME Dereference(t) PROVE SegmentsInv'
  <2> PICK r : r = IF counter[c.old] = 1 THEN [c EXCEPT !.pc = "free"] ELSE Continue(c)
    OBVIOUS
  <2>1. /\ c.pc = "drop" /\ UNCHANGED <<data, live, value, capacity, indexMap>>
        /\ call' = [call EXCEPT ![t] = r]
    BY <1>4 DEF Dereference
  <2>2. [c EXCEPT !.pc = "free"].pc = "free"
    BY <1>t DEF Calls
  <2>3. r.pc \in {"free", "bind", "idle"}
    BY <1>c, <2>1, <2>2
  <2> QED  BY <2>1, <2>3, NoSegmentShape, SegmentsKept
<1>5. ASSUME Free(t) PROVE SegmentsInv'
  <2> PICK o : o = c.old
    OBVIOUS
  <2> PICK r : r = Continue(c)
    OBVIOUS
  <2>1. /\ c.pc = "free" /\ UNCHANGED <<data, counter>>
        /\ live' = live \ {o} /\ call' = [call EXCEPT ![t] = r]
        /\ value' = [value EXCEPT ![o] = <<>>] /\ capacity' = [capacity EXCEPT ![o] = 0]
        /\ indexMap' = [indexMap EXCEPT ![o] = Null]
    BY <1>5 DEF Free
  <2>2. /\ \A x \in Object \ {o} : /\ value'[x] = value[x] /\ capacity'[x] = capacity[x]
                                   /\ indexMap'[x] = indexMap[x]
        /\ Holders(o) = {}
    BY <1>t, <2>1, NoHolder DEF TypeOK, CallShape, ReleaseShape
  <2>3. \A u \in Task \ {t} : Spared(call[u])
    <3> TAKE u \in Task \ {t}
    <3>1. CallShape(call[u]) /\ \A x \in Var : data[x] # o
      BY <2>2 DEF IInv, CallShapes, Holders
    <3>2. call[u].pc \in {"edit", "copy", "publish"} => call[u].from # o
      BY <3>1 DEF CallShape, PublishShape, WriterShape, EditShape, CopyShape
    <3>3. call[u].pc \in {"edit", "copy"} => call[u].new # o
      BY <2>2, <3>1 DEF CallShape, WriterShape, EditShape, Holders
    <3> QED  BY <2>1, <2>2, <3>1, <3>2, <3>3, SparedBy
  <2> QED  BY <1>c, <2>1, <2>2, <2>3, NoSegmentShape, SegmentsStep
<1>6. ASSUME Reference(t) PROVE SegmentsInv'
  <2>1. /\ c.pc = "bind" /\ UNCHANGED <<live, value, capacity, indexMap>>
        /\ data' = [data EXCEPT ![c.self] = c.new] /\ call' = [call EXCEPT ![t] = Idle]
    BY <1>6 DEF Reference
  <2>2. c.self \in Var
    BY <1>t, <2>1 DEF CallShape, WriterShape
  <2> QED  BY <1>i, <1>s, <2>1, <2>2, NoSegmentShape, SegmentsKept
<1>7. ASSUME PublishIndexMap(t) PROVE SegmentsInv'
  <2> PICK o : o = c.from
    OBVIOUS
  <2>1. /\ c.pc = "publish" /\ UNCHANGED <<data, live, counter, value, capacity>>
        /\ indexMap' = IF indexMap[o] = Null THEN [indexMap EXCEPT ![o] = c.map] ELSE indexMap
        /\ call' = [call EXCEPT ![t] = Idle]
    BY <1>7 DEF PublishIndexMap
  <2>2. /\ o \in Object /\ o \in live /\ c.map = value[o]
        /\ \A x \in Object \ {o} : indexMap'[x] = indexMap[x]
        /\ indexMap'[o] # Null => indexMap'[o] = value'[o]
    <3>1. o \in Object /\ o \in live /\ c.map = value[o]
      BY <1>t, <2>1, SourceIsLive DEF CallShape, PublishShape, SegmentShape
    <3>2. indexMap[o] # Null => indexMap[o] = value[o]
      BY <3>1 DEF SegmentsInv, IndexMapIsCurrent
    <3> QED  BY <1>t, <2>1, <3>1, <3>2 DEF TypeOK
  <2>3. \A u \in Task \ {t} : Spared(call[u])
    <3> TAKE u \in Task \ {t}
    <3>1. call[u].pc = "copy" => call[u].new # o /\ call[u].new \in Object
      BY <1>t, <2>1, NotRead, SourceIsLive DEF TypeOK
    <3> QED  BY <2>1, <2>2, <3>1 DEF Spared
  <2>4. Len(value'[o]) <= capacity'[o]
    BY <2>1, <2>2 DEF SegmentsInv, RoomForTerminator
  <2> PICK r : r = Idle
    OBVIOUS
  <2>5. SegmentShape(r)' /\ call' = [call EXCEPT ![t] = r]
    BY <1>i, <2>1, NoSegmentShape
  <2>6. /\ live' \subseteq live \cup {o}
        /\ indexMap'[o] # Null => indexMap'[o] = value'[o]
        /\ \A x \in Object \ {o} : /\ value'[x] = value[x] /\ capacity'[x] = capacity[x]
                                   /\ indexMap'[x] = indexMap[x]
    BY <2>1, <2>2
  <2> QED  BY <2>3, <2>4, <2>5, <2>6, SegmentsStep
<1> QED  BY <1>1, <1>2, <1>3, <1>4, <1>5, <1>6, <1>7 DEF Step

\* Each step keeps the segments in order.
LEMMA NextSegments ==
  ASSUME ~SelfReplace, IInv, SegmentsInv, [Next]_vars
  PROVE  SegmentsInv'
<1>1. CASE UNCHANGED vars
  BY <1>1 DEF vars, heap, SegmentsInv, IndexMapIsCurrent, RoomForTerminator, SegmentShape,
              Outcome, Text
<1>2. CASE Next
  BY <1>2, StartSegments, StepSegments DEF Next
<1> QED  BY <1>1, <1>2

\* The segments are in order in every state.
THEOREM SegmentsInvariance ==
  ASSUME ~SelfReplace
  PROVE  Spec => []SegmentsInv
<1>1. IInv /\ SegmentsInv /\ [Next]_vars => SegmentsInv'
  BY NextSegments
<1> QED  BY <1>1, InitSegments, Invariance, PTL DEF Spec

\* The terminator that follows each stored text is inside the segment, for
\* every allocation unit and growth factor of Aligned_Size.
THEOREM TerminatorsFit ==
  ASSUME ~SelfReplace
  PROVE  Spec => []RoomForTerminator
<1>1. SegmentsInv => RoomForTerminator
  BY DEF SegmentsInv
<1> QED  BY <1>1, SegmentsInvariance, PTL

\* A published index map is never that of an earlier text, although any reader
\* of the segment may publish one, some time after it has read the text.
THEOREM IndexMapsAreCurrent ==
  ASSUME ~SelfReplace
  PROVE  Spec => []IndexMapIsCurrent
<1>1. SegmentsInv => IndexMapIsCurrent
  BY DEF SegmentsInv
<1> QED  BY <1>1, SegmentsInvariance, PTL

-----------------------------------------------------------------------------
(***************************************************************************)
(* The counters are exact, so no segment is lost but the new one of an     *)
(* Append that raises.                                                     *)
(***************************************************************************)

\* One element less, one more, or one in the place of another.
LEMMA CardLess ==
  ASSUME NEW T, IsFiniteSet(T), NEW x \in T
  PROVE  Cardinality(T \ {x}) = Cardinality(T) - 1
BY FS_RemoveElement

LEMMA CardMore ==
  ASSUME NEW T, IsFiniteSet(T), NEW y, y \notin T
  PROVE  Cardinality(T \cup {y}) = Cardinality(T) + 1
BY FS_AddElement

LEMMA CardSame ==
  ASSUME NEW T, IsFiniteSet(T), NEW x \in T, NEW y, y \notin T
  PROVE  Cardinality((T \ {x}) \cup {y}) = Cardinality(T)
<1>1. IsFiniteSet(T \ {x}) /\ Cardinality(T \ {x}) = Cardinality(T) - 1
  BY FS_RemoveElement
<1>2. Cardinality((T \ {x}) \cup {y}) = Cardinality(T \ {x}) + 1
  BY <1>1, CardMore
<1> QED  BY <1>1, <1>2, FS_CardinalityType

\* Who holds a segment.
LEMMA HoldersNow ==
  ASSUME NEW o
  PROVE  /\ Holders(o) \subseteq Var \cup Task
         /\ \A x \in Var : x \in Holders(o) <=> data[x] = o
BY ConstantsAssumption DEF Holders

\* Who holds it in the next state.
LEMMA HoldersNext ==
  ASSUME NEW o
  PROVE  /\ Holders(o)' \subseteq Var \cup Task
         /\ \A x \in Var : x \in Holders(o)' <=> data'[x] = o
         /\ \A u \in Task : u \in Holders(o)' <=> \/ call'[u].pc = "drop" /\ call'[u].old = o
                                                  \/ call'[u].pc \in {"copy", "raised"} /\ call'[u].new = o
BY ConstantsAssumption DEF Holders

\* A task whose call stays as it is holds what it held.
LEMMA HoldersStay ==
  ASSUME NEW o, NEW u \in Task, call'[u] = call[u]
  PROVE  u \in Holders(o)' <=> u \in Holders(o)
BY ConstantsAssumption DEF Holders

\* What NoLeak says of one segment.
Counted(o) ==
  /\ counter[o] = Cardinality(Holders(o))
  /\ Holders(o) = {} => \E t \in Task : call[t].pc = "free" /\ call[t].old = o

\* A step of t that leaves a segment its holders and its count, and was not
\* about to free it, leaves it counted.
LEMMA CountedFrame ==
  ASSUME TypeOK, NoLeak, NEW t \in Task, NEW r, call' = [call EXCEPT ![t] = r],
         NEW o \in live, call[t].pc = "free" => call[t].old # o,
         counter'[o] = counter[o], Holders(o)' = Holders(o)
  PROVE  Counted(o)'
<1>1. counter'[o] = Cardinality(Holders(o)')
  BY DEF NoLeak
<1>2. ASSUME Holders(o)' = {}
      PROVE  \E u \in Task : call'[u].pc = "free" /\ call'[u].old = o
  <2>1. PICK u \in Task : call[u].pc = "free" /\ call[u].old = o
    BY <1>2 DEF NoLeak
  <2>2. u # t /\ call'[u] = call[u]
    BY <2>1 DEF TypeOK
  <2> QED  BY <2>1, <2>2
<1> QED  BY <1>1, <1>2 DEF Counted

\* A step of t is left with its own call, its object and the segments whose
\* holders it changes, x and y at most.
LEMMA ExactStep ==
  ASSUME IInv, ExactInv, NEW t \in Task, NEW r, call' = [call EXCEPT ![t] = r],
         ExactShape(r)',
         \A u \in Task \ {t} : call[u].self \in Var =>
           data'[call[u].self] = data[call[u].self],
         NotEmpty',
         NEW x, NEW y, x \in live' => Counted(x)', y \in live' => Counted(y)',
         \A o \in live' \ {x, y} :
           /\ o \in live /\ counter'[o] = counter[o] /\ Holders(o)' = Holders(o)
           /\ call[t].pc = "free" => call[t].old # o
  PROVE  ExactInv'
<1>1. NoLeak'
  <2>1. ASSUME NEW o \in live' PROVE Counted(o)'
    <3>1. CASE o = x
      BY <3>1
    <3>2. CASE o = y
      BY <3>2
    <3>3. CASE o \notin {x, y}
      BY <3>3, CountedFrame DEF IInv, ExactInv
    <3> QED  BY <3>1, <3>2, <3>3
  <2> QED  BY <2>1 DEF NoLeak, Counted
<1>2. \A u \in Task : ExactShape(call[u])'
  <2> TAKE u \in Task
  <2> PICK c : c = call'[u]
    OBVIOUS
  <2>1. ExactShape(c)'
    <3>1. CASE u = t
      BY <3>1 DEF IInv, TypeOK
    <3>2. CASE u # t
      <4>1. c = call[u] /\ CallShape(c) /\ ExactShape(c)
        BY <3>2 DEF IInv, TypeOK, CallShapes, ExactInv
      <4>2. c.pc = "copy" => c.self \in Var /\ data'[c.self] = data[c.self]
        BY <3>2, <4>1 DEF CallShape, WriterShape
      <4> QED  BY <4>1, <4>2 DEF ExactShape
    <3> QED  BY <3>1, <3>2
  <2> QED  BY <2>1 DEF ExactShape
<1> QED  BY <1>1, <1>2 DEF ExactInv

\* A call that is not copying has nothing to give up.
LEMMA NoExactShape ==
  ASSUME NEW c, c.pc # "copy"
  PROVE  ExactShape(c)'
BY DEF ExactShape

\* A step that changes neither the counters nor what the objects and the calls
\* hold is left with the texts.
LEMMA ExactKept ==
  ASSUME IInv, ExactInv, NEW t \in Task, NEW r, call' = [call EXCEPT ![t] = r],
         call[t].pc \in {"idle", "edit", "publish"}, r.pc \notin {"copy", "drop", "raised"},
         UNCHANGED <<live, counter>>,
         \A v \in Var : data'[v] = data[v] \/ (data[v] = Null /\ data'[v] = Empty),
         \A u \in Task \ {t} : call[u].self \in Var =>
           data'[call[u].self] = data[call[u].self],
         NotEmpty'
  PROVE  ExactInv'
<1>1. \A o \in live : Holders(o)' = Holders(o)
  <2> TAKE o \in live
  <2>1. o \in Object /\ o # Empty /\ o # Null
    BY ConstantsAssumption DEF IInv, TypeOK
  <2>2. \A u \in Task : call'[u] = IF u = t THEN r ELSE call[u]
    BY DEF IInv, TypeOK
  <2>3. \A v \in Var : data'[v] = o <=> data[v] = o
    BY <2>1
  <2> QED  BY <2>2, <2>3 DEF Holders
<1>2. ExactShape(r)'
  BY NoExactShape
<1>3. Null \notin live
  BY ConstantsAssumption DEF IInv, TypeOK
<1>4. \A o \in live' \ {Null, Null} :
        /\ o \in live /\ counter'[o] = counter[o] /\ Holders(o)' = Holders(o)
        /\ call[t].pc = "free" => call[t].old # o
  BY <1>1
<1> QED  BY <1>2, <1>3, <1>4, ExactStep

\* There is nothing to lose before the program declares its first object.
LEMMA InitExact == Init => ExactInv
BY ConstantsAssumption DEF Init, ExactInv, NoLeak, NotEmpty, ExactShape, Idle

\* The texts of the objects stay, as long as the segments and the objects do.
LEMMA NotEmptyFrame ==
  ASSUME IInv, ExactInv,
         \A v \in Var : \/ data'[v] \notin Object
                        \/ \E w \in Var : data'[v] = data[w] /\ value'[data[w]] = value[data[w]]
  PROVE  NotEmpty'
BY DEF ExactInv, NotEmpty

\* A call that starts keeps the counters exact.
LEMMA StartExact ==
  ASSUME ~SelfReplace, IInv, ExactInv, NEW t \in Task, Start(t)
  PROVE  ExactInv'
<1>t. TypeOK
  BY DEF IInv
<1>n. Empty \notin Object /\ Null \notin Object /\ Null \notin Var /\ Task \cap Var = {}
  BY ConstantsAssumption
<1>w. ASSUME NEW v \in Var, MayWrite(t, v), NEW x, data' = [data EXCEPT ![v] = x]
      PROVE  \A u \in Task \ {t} : call[u].self \in Var =>
               data'[call[u].self] = data[call[u].self]
  BY <1>t, <1>w DEF TypeOK, MayWrite
<1>1. ASSUME NEW v \in Var, Declare(t, v) PROVE ExactInv'
  <2> PICK r : r = call[t]
    OBVIOUS
  <2>1. /\ MayWrite(t, v) /\ data[v] = Null /\ r.pc = "idle"
        /\ data' = [data EXCEPT ![v] = Empty]
        /\ UNCHANGED <<live, counter, value, call>> /\ call' = [call EXCEPT ![t] = r]
    BY <1>t, <1>1 DEF Declare, MayWrite, heap, TypeOK
  <2>2. \A x \in Var : data'[x] = IF x = v THEN Empty ELSE data[x]
    BY <1>t, <2>1 DEF TypeOK
  <2>3. NotEmpty'
    BY <1>n, <2>1, <2>2, NotEmptyFrame
  <2>4. \A x \in Var : data'[x] = data[x] \/ (data[x] = Null /\ data'[x] = Empty)
    BY <2>1, <2>2
  <2>5. \A u \in Task \ {t} : call[u].self \in Var =>
          data'[call[u].self] = data[call[u].self]
    BY <1>w, <2>1
  <2>6. call[t].pc \in {"idle", "edit", "publish"} /\ r.pc \notin {"copy", "drop", "raised"}
    BY <2>1
  <2> QED  BY <2>1, <2>3, <2>4, <2>5, <2>6, ExactKept
<1>2. ASSUME NEW w \in Var, ComputeIndexMap(t, w) PROVE ExactInv'
  <2> PICK r : r = [Idle EXCEPT !.pc = "publish", !.item = w, !.from = data[w],
                                !.map = value[data[w]]]
    OBVIOUS
  <2>1. /\ UNCHANGED <<data, live, counter, value>> /\ call' = [call EXCEPT ![t] = r]
        /\ call[t].pc = "idle"
    BY <1>2 DEF ComputeIndexMap, MayRead, heap
  <2>2. r.pc = "publish"
    BY DEF Idle
  <2>3. NotEmpty'
    BY <2>1, NotEmptyFrame
  <2> QED  BY <2>1, <2>2, <2>3, ExactKept
<1>3. ASSUME SharesTarget(t) PROVE ExactInv'
  <2>1. PICK v \in Var, w \in Var \cup {Null}, target \in Ref :
             MayWrite(t, v) /\ Rebind(t, v, w, target)
    BY <1>3 DEF SharesTarget
  <2>r. PICK r : r = [Idle EXCEPT !.pc   = IF data[v] \in Object THEN "drop" ELSE "bind",
                                  !.self = v, !.item = w, !.old = data[v], !.new = target]
    OBVIOUS
  <2>2. /\ UNCHANGED <<live, counter, value>> /\ call' = [call EXCEPT ![t] = r]
        /\ data' = [data EXCEPT ![v] = Null] /\ call[t].pc = "idle"
    BY <2>1, <2>r DEF Rebind, MayWrite, heap
  <2>3. r.pc = (IF data[v] \in Object THEN "drop" ELSE "bind") /\ r.old = data[v]
    BY <2>r DEF Idle
  <2>4. \A x \in Var : data'[x] = IF x = v THEN Null ELSE data[x]
    BY <1>t, <2>2 DEF TypeOK
  <2>5. \A u \in Task : call'[u] = IF u = t THEN r ELSE call[u]
    BY <1>t, <2>2 DEF TypeOK
  <2>6. \A o \in live : o \in Object
    BY <1>t DEF TypeOK
  <2>7. NotEmpty'
    BY <1>n, <2>2, <2>4, NotEmptyFrame
  <2>8. ASSUME NEW o \in live, o # data[v] PROVE Holders(o)' = Holders(o)
    BY <1>n, <2>2, <2>3, <2>4, <2>5, <2>6, <2>8 DEF Holders
  <2>9. ASSUME NEW o \in live, o = data[v] PROVE Counted(o)'
    <3>1. v \in Holders(o) /\ t \notin Holders(o)
      BY <1>n, <2>2, <2>9 DEF Holders
    <3>2. Holders(o)' = (Holders(o) \ {v}) \cup {t}
      <4>1. \A x \in Var : data'[x] = o <=> data[x] = o /\ x # v
        BY <1>n, <2>4, <2>6, <2>9
      <4>2. r.pc = "drop" /\ r.old = o
        BY <2>3, <2>6, <2>9
      <4>3. t \in Holders(o)'
        <5>1. call'[t].pc = "drop" /\ call'[t].old = o
          BY <2>5, <4>2
        <5> QED  BY <5>1, HoldersNext
      <4>4. \A u \in Task \ {t} : u \in Holders(o)' <=> u \in Holders(o)
        BY <2>5, HoldersStay
      <4>5. \A x \in Var : x \in Holders(o)' <=> x \in Holders(o) /\ x # v
        BY <4>1, HoldersNext, HoldersNow
      <4>6. Holders(o)' \subseteq Var \cup Task /\ Holders(o) \subseteq Var \cup Task
        BY HoldersNext, HoldersNow
      <4> QED  BY <1>n, <4>3, <4>4, <4>5, <4>6
    <3>3. Cardinality(Holders(o)') = Cardinality(Holders(o))
      <4> PICK H : H = Holders(o)
        OBVIOUS
      <4>1. Cardinality((H \ {v}) \cup {t}) = Cardinality(H)
        <5>1. IsFiniteSet(H)
          BY HoldersFinite
        <5> QED  BY <3>1, <5>1, CardSame
      <4> QED  BY <3>2, <4>1
    <3>4. counter[o] = Cardinality(Holders(o)) /\ Holders(o)' # {}
      BY <3>2 DEF ExactInv, NoLeak
    <3> QED  BY <2>2, <3>3, <3>4 DEF Counted
  <2>10. ExactShape(r)'
    <3>1. r.pc # "copy"
      BY <2>3
    <3> QED  BY <3>1, NoExactShape
  <2> PICK p : p = data[v]
    OBVIOUS
  <2>11. \A o \in live' \ {p, p} :
           /\ o \in live /\ counter'[o] = counter[o] /\ Holders(o)' = Holders(o)
           /\ call[t].pc = "free" => call[t].old # o
    BY <2>2, <2>8
  <2>12. p \in live' => Counted(p)'
    <3>1. ASSUME NEW o \in live, o = p PROVE Counted(o)'
      BY <2>9, <3>1
    <3> QED  BY <2>2, <3>1
  <2>13. \A u \in Task \ {t} : call[u].self \in Var =>
           data'[call[u].self] = data[call[u].self]
    BY <1>w, <2>1, <2>2
  <2> QED  BY <2>2, <2>7, <2>10, <2>11, <2>12, <2>13, ExactStep
<1>4. ASSUME EditsAlone(t) PROVE ExactInv'
  <2>1. PICK v \in Var, w \in Var \cup {Null}, e \in Edit :
             /\ MayWrite(t, v)
             /\ call' = [call EXCEPT ![t] =
                  [Idle EXCEPT !.pc = "edit", !.self = v, !.item = w,
                               !.from = data[v], !.new = data[v], !.edit = e]]
             /\ UNCHANGED <<data, heap>>
    BY <1>4 DEF EditsAlone
  <2> PICK r : r = [Idle EXCEPT !.pc = "edit", !.self = v, !.item = w,
                                !.from = data[v], !.new = data[v], !.edit = e]
    OBVIOUS
  <2>2. /\ UNCHANGED <<data, live, counter, value>> /\ call' = [call EXCEPT ![t] = r]
        /\ call[t].pc = "idle"
    BY <2>1 DEF heap, MayWrite
  <2>3. r.pc = "edit"
    BY DEF Idle
  <2>4. NotEmpty'
    BY <2>2, NotEmptyFrame
  <2> QED  BY <2>2, <2>3, <2>4, ExactKept
<1>5. ASSUME Copies(t) PROVE ExactInv'
  <2>1. PICK c \in Calls, size \in Nat :
             /\ c.self \in Var /\ MayWrite(t, c.self)
             /\ c.old = data[c.self] \/ (c.old = Null /\ Text(data[c.self]) = <<>>)
             /\ CopyTo(t, c, size)
    BY <1>5 DEF Copies
  <2>2. PICK o \in Object :
             /\ Allocate(o, size)
             /\ call' = [call EXCEPT ![t] = [c EXCEPT !.pc = "copy", !.new = o]]
             /\ UNCHANGED data
    BY <2>1 DEF CopyTo
  <2> PICK r : r = [c EXCEPT !.pc = "copy", !.new = o]
    OBVIOUS
  <2>3. r.pc = "copy" /\ r.self = c.self /\ r.old = c.old /\ r.new = o
    BY DEF Calls
  <2>4. /\ o \notin live /\ live' = live \cup {o} /\ call[t].pc = "idle"
        /\ \A x \in Object : /\ x # o => value'[x] = value[x]
                             /\ counter'[x] = IF x = o THEN 1 ELSE counter[x]
    BY <1>t, <2>1, <2>2 DEF Allocate, MayWrite, TypeOK
  <2>5. \A u \in Task : call'[u] = IF u = t THEN r ELSE call[u]
    BY <1>t, <2>2 DEF TypeOK
  <2>6. \A x \in Var : data[x] # o
    BY <2>4, DataIsLive
  <2>7. ExactShape(r)'
    <3>1. data[c.self] \in Object => Text(data[c.self]) # <<>>
      BY <2>1 DEF ExactInv, NotEmpty, Text
    <3> QED  BY <2>1, <2>2, <2>3, <3>1 DEF ExactShape
  <2>8. NotEmpty'
    BY <2>2, <2>4, <2>6, NotEmptyFrame
  <2>9. Counted(o)'
    <3>1. \A u \in Task : CallShape(call[u])
      BY DEF IInv, CallShapes
    <3>2. \A u \in Task \ {t} : /\ call'[u].pc = "drop" => call'[u].old # o
                                /\ call'[u].pc \in {"copy", "raised"} => call'[u].new # o
      BY <2>4, <2>5, <3>1 DEF CallShape, ReleaseShape, CopyShape
    <3>3. call'[t] = r /\ \A x \in Var : data'[x] # o
      BY <2>2, <2>5, <2>6
    <3>4. Holders(o)' = {t}
      <4>1. {x \in Var : data'[x] = o} = {}
        BY <3>3
      <4>2. {u \in Task : \/ call'[u].pc = "drop" /\ call'[u].old = o
                          \/ call'[u].pc \in {"copy", "raised"} /\ call'[u].new = o} = {t}
        <5>1. \A u \in Task :
                \/ call'[u].pc = "drop" /\ call'[u].old = o
                \/ call'[u].pc \in {"copy", "raised"} /\ call'[u].new = o
                <=> u = t
          BY <2>3, <3>2, <3>3
        <5> QED  BY <5>1
      <4> QED  BY <4>1, <4>2 DEF Holders
    <3> QED  BY <2>4, <3>4, FS_Singleton DEF Counted
  <2>10. ASSUME NEW x \in live PROVE counter'[x] = counter[x] /\ Holders(x)' = Holders(x)
    <3>1. x # o /\ x \in Object
      BY <1>t, <2>4 DEF TypeOK
    <3> QED  BY <2>2, <2>3, <2>4, <2>5, <3>1 DEF Holders
  <2>11. \A x \in live' \ {o, o} :
           /\ x \in live /\ counter'[x] = counter[x] /\ Holders(x)' = Holders(x)
           /\ call[t].pc = "free" => call[t].old # x
    BY <2>4, <2>10
  <2> QED  BY <2>2, <2>7, <2>8, <2>9, <2>11, ExactStep
<1>6. ASSUME ReferencesAll(t) PROVE ExactInv'
  <2>1. PICK v \in Var, e \in Edit :
             /\ MayWrite(t, v) /\ data[v] \in Object
             /\ counter' = [counter EXCEPT ![data[v]] = @ + 1]
             /\ call' = [call EXCEPT ![t] =
                  [Idle EXCEPT !.pc = "drop", !.self = v, !.from = data[v],
                               !.old = data[v], !.new = data[v], !.edit = e]]
             /\ UNCHANGED <<data, live, value, capacity, indexMap>>
    BY <1>6 DEF ReferencesAll
  <2> PICK r : r = [Idle EXCEPT !.pc = "drop", !.self = v, !.from = data[v],
                                !.old = data[v], !.new = data[v], !.edit = e]
    OBVIOUS
  <2> PICK o : o = data[v]
    OBVIOUS
  <2>2. /\ r.pc = "drop" /\ r.old = o /\ call' = [call EXCEPT ![t] = r]
        /\ call[t].pc = "idle"
    BY <2>1 DEF Idle, MayWrite
  <2>3. /\ o \in Object /\ counter[o] \in Nat /\ counter'[o] = counter[o] + 1
        /\ \A x \in Object \ {o} : counter'[x] = counter[x]
    BY <1>t, <2>1 DEF TypeOK
  <2>4. \A u \in Task : call'[u] = IF u = t THEN r ELSE call[u]
    BY <1>t, <2>2 DEF TypeOK
  <2>5. NotEmpty'
    BY <2>1, NotEmptyFrame
  <2>6. ASSUME NEW x \in live, x # o
        PROVE  counter'[x] = counter[x] /\ Holders(x)' = Holders(x)
    <3>1. x \in Object
      BY <1>t DEF TypeOK
    <3> QED  BY <2>1, <2>2, <2>3, <2>4, <2>6, <3>1 DEF Holders
  <2>7. o \in live => Counted(o)'
    <3>1. t \notin Holders(o)
      BY <1>n, <2>2 DEF Holders
    <3>2. Holders(o)' = Holders(o) \cup {t}
      BY <2>1, <2>2, <2>4 DEF Holders
    <3>3. Cardinality(Holders(o)') = Cardinality(Holders(o)) + 1
      BY <3>1, <3>2, HoldersFinite, CardMore
    <3>4. o \in live => counter[o] = Cardinality(Holders(o))
      BY DEF ExactInv, NoLeak
    <3> QED  BY <2>3, <3>2, <3>3, <3>4 DEF Counted
  <2>8. ExactShape(r)'
    BY <2>2, NoExactShape
  <2>9. \A x \in live' \ {o, o} :
          /\ x \in live /\ counter'[x] = counter[x] /\ Holders(x)' = Holders(x)
          /\ call[t].pc = "free" => call[t].old # x
    BY <2>1, <2>2, <2>6
  <2> QED  BY <2>1, <2>2, <2>5, <2>7, <2>8, <2>9, ExactStep
<1> QED  BY <1>t, <1>1, <1>2, <1>3, <1>4, <1>5, <1>6, StartForms

\* A running call keeps them exact.
LEMMA StepExact ==
  ASSUME IInv, SegmentsInv, ExactInv, NEW t \in Task, Step(t)
  PROVE  ExactInv'
<1> PICK c : c = call[t]
  OBVIOUS
<1>t. TypeOK /\ c \in Calls /\ CallShape(c) /\ SegmentShape(c)
  BY DEF IInv, TypeOK, CallShapes, SegmentsInv
<1>n. Empty \notin Object /\ Null \notin Object /\ Null \notin Var /\ Task \cap Var = {}
  BY ConstantsAssumption
<1>i. Idle.pc = "idle"
  BY DEF Idle
<1>l. \A o \in live : o \in Object
  BY <1>t DEF TypeOK
<1>w. ASSUME c.self \in Var, NEW x, data' = [data EXCEPT ![c.self] = x]
      PROVE  \A u \in Task \ {t} : call[u].self \in Var =>
               data'[call[u].self] = data[call[u].self]
  <2>1. \A u \in Task \ {t} : c.self # call[u].self
    BY <1>n, <1>w DEF IInv, Discipline
  <2> QED  BY <1>t, <1>w, <2>1 DEF TypeOK
<1>1. ASSUME EditInPlace(t) PROVE ExactInv'
  <2> PICK r : r = Idle
    OBVIOUS
  <2>1. /\ c.pc = "edit" /\ r.pc = "idle" /\ UNCHANGED <<data, live, counter>>
        /\ value' = [value EXCEPT ![c.new] = Result(t)]
        /\ call' = [call EXCEPT ![t] = r]
    BY <1>i, <1>1 DEF EditInPlace
  <2>2. Len(Result(t)) \in 1 .. capacity[c.new]
    BY <1>t, <2>1 DEF SegmentShape, Result, Outcome
  <2>3. NotEmpty'
    <3>1. Result(t) # <<>>
      BY <2>2
    <3> QED  BY <1>t, <2>1, <3>1 DEF TypeOK, ExactInv, NotEmpty
  <2> QED  BY <2>1, <2>3, ExactKept
<1>2. ASSUME CopyOut(t) PROVE ExactInv'
  <2>r. PICK r : r = IF c.old \in Object THEN [c EXCEPT !.pc = "drop"] ELSE Idle
    OBVIOUS
  <2> PICK n : n = c.new
    OBVIOUS
  <2> PICK p : p = data[c.self]
    OBVIOUS
  <2>1. /\ c.pc = "copy" /\ UNCHANGED <<live, counter>>
        /\ value' = [value EXCEPT ![n] = Result(t)]
        /\ data' = [data EXCEPT ![c.self] = n]
        /\ call' = [call EXCEPT ![t] = r]
    BY <1>2, <2>r DEF CopyOut
  <2>2. /\ c.self \in Var /\ n \in live /\ n \in Object
        /\ p \in Object => c.old = p
        /\ c.old \in Object => c.old = p
    <3>1. ExactShape(c)
      BY DEF ExactInv
    <3> QED  BY <1>t, <1>l, <1>n, <2>1, <3>1 DEF CallShape, CopyShape, WriterShape, ExactShape
  <2>3. r.pc \in {"drop", "idle"} /\ (p \in Object => r.pc = "drop" /\ r.old = p)
        /\ (p \notin Object => r.pc = "idle")
    BY <1>t, <1>i, <2>2, <2>r DEF Calls
  <2>4. \A x \in Var : data'[x] = IF x = c.self THEN n ELSE data[x]
    BY <1>t, <2>1 DEF TypeOK
  <2>5. \A u \in Task : call'[u] = IF u = t THEN r ELSE call[u]
    BY <1>t, <2>1 DEF TypeOK
  <2>6. \A x \in Var : data[x] # n
    <3>1. t \in Holders(n) /\ counter[n] = 1
      BY <1>t, <2>1 DEF CallShape, CopyShape, Holders
    <3>2. ASSUME NEW x \in Var, data[x] = n PROVE FALSE
      <4>1. x \in Holders(n) /\ x # t
        BY <1>n, <3>2 DEF Holders
      <4> QED  BY <2>2, <3>1, <4>1, SoleHolder
    <3> QED  BY <3>2
  <2>7. NotEmpty'
    <3>1. Len(Result(t)) \in 1 .. capacity[n]
      BY <1>t, <2>1 DEF SegmentShape, Result, Outcome
    <3>2. Result(t) # <<>>
      BY <3>1
    <3> QED  BY <1>t, <2>1, <2>2, <2>4, <2>6, <3>2 DEF TypeOK, ExactInv, NotEmpty
  <2>8. Counted(n)'
    <3> PICK H : H = Holders(n)
      OBVIOUS
    <3>1. t \in H /\ c.self \notin H
      BY <1>n, <2>1, <2>2, <2>6 DEF Holders
    <3>2. Holders(n)' = (H \ {t}) \cup {c.self}
      <4>1. \A x \in Var : data'[x] = n <=> x = c.self
        BY <2>2, <2>4, <2>6
      <4>2. t \notin Holders(n)'
        <5>1. r.pc = "idle" \/ (r.pc = "drop" /\ r.old # n)
          BY <2>2, <2>3, <2>6
        <5>2. call'[t].pc \notin {"drop", "copy", "raised"} \/ (call'[t].pc = "drop" /\ call'[t].old # n)
          BY <2>5, <5>1
        <5> QED  BY <5>2, HoldersNext
      <4>3. \A u \in Task \ {t} : u \in Holders(n)' <=> u \in H
        BY <2>5, HoldersStay
      <4>4. \A x \in Var : x \in Holders(n)' <=> x = c.self
        <5>1. \A x \in Var : x \in Holders(n)' <=> data'[x] = n
          BY HoldersNext
        <5> QED  BY <4>1, <5>1
      <4>5. Holders(n)' \subseteq Var \cup Task
        BY HoldersNext
      <4>6. H \subseteq Var \cup Task /\ \A x \in Var : x \notin H
        BY <2>6, HoldersNow
      <4> QED  BY <1>n, <2>2, <4>2, <4>3, <4>4, <4>5, <4>6
    <3>3. Cardinality((H \ {t}) \cup {c.self}) = Cardinality(H)
      <4>1. IsFiniteSet(H)
        BY HoldersFinite
      <4> QED  BY <3>1, <4>1, CardSame
    <3>4. counter[n] = Cardinality(H) /\ Holders(n)' # {}
      BY <2>2, <3>2 DEF ExactInv, NoLeak
    <3> QED  BY <2>1, <3>2, <3>3, <3>4 DEF Counted
  <2>9. p \in live => Counted(p)'
    <3> SUFFICES ASSUME p \in live PROVE Counted(p)'
      OBVIOUS
    <3> PICK H : H = Holders(p)
      OBVIOUS
    <3>1. c.self \in H /\ t \notin H
      BY <1>n, <2>1, <2>2, <2>6 DEF Holders
    <3>2. Holders(p)' = (H \ {c.self}) \cup {t}
      <4>1. \A x \in Var : data'[x] = p <=> data[x] = p /\ x # c.self
        BY <2>2, <2>4, <2>6
      <4>2. call'[t].pc = "drop" /\ call'[t].old = p
        BY <1>l, <2>3, <2>5
      <4>3. \A u \in Task \ {t} : call'[u] = call[u]
        BY <2>5
      <4>4. t \notin Var /\ c.self \in Var /\ c.self \notin Task
        BY <1>n, <2>2
      <4>5. \A x \in Var : x \in Holders(p)' <=> x \in H /\ x # c.self
        BY <1>n, <4>1 DEF Holders
      <4>6. \A u \in Task : u \in Holders(p)' <=> u \in H \/ u = t
        BY <1>n, <4>2, <4>3 DEF Holders
      <4>7. H \subseteq Var \cup Task /\ Holders(p)' \subseteq Var \cup Task
        BY DEF Holders
      <4> QED  BY <4>4, <4>5, <4>6, <4>7
    <3>3. Cardinality((H \ {c.self}) \cup {t}) = Cardinality(H)
      <4>1. IsFiniteSet(H)
        BY HoldersFinite
      <4> QED  BY <3>1, <4>1, CardSame
    <3>4. counter[p] = Cardinality(H) /\ Holders(p)' # {}
      BY <3>2 DEF ExactInv, NoLeak
    <3> QED  BY <2>1, <3>2, <3>3, <3>4 DEF Counted
  <2>10. \A o \in live' \ {n, p} :
           /\ o \in live /\ counter'[o] = counter[o] /\ Holders(o)' = Holders(o)
           /\ call[t].pc = "free" => call[t].old # o
    <3> TAKE o \in live' \ {n, p}
    <3>1. Holders(o)' = Holders(o)
      BY <1>l, <1>n, <2>1, <2>2, <2>3, <2>4, <2>5 DEF Holders
    <3> QED  BY <2>1, <3>1
  <2>11. ExactShape(r)'
    <3>1. r.pc # "copy"
      BY <2>3
    <3> QED  BY <3>1, NoExactShape
  <2>12. \A u \in Task \ {t} : call[u].self \in Var =>
           data'[call[u].self] = data[call[u].self]
    BY <1>w, <2>1, <2>2
  <2> QED  BY <2>1, <2>7, <2>8, <2>9, <2>10, <2>11, <2>12, ExactStep
<1>3. ASSUME RaiseInAppend(t) PROVE ExactInv'
  <2> PICK r : r = [Idle EXCEPT !.pc = "raised", !.new = c.new]
    OBVIOUS
  <2> PICK o : o = c.new
    OBVIOUS
  <2>1. /\ c.pc = "copy" /\ UNCHANGED <<data, live, counter, value>>
        /\ call' = [call EXCEPT ![t] = r]
    BY <1>3 DEF RaiseInAppend, heap
  <2>2. r.pc = "raised" /\ r.new = o
    BY DEF Idle
  <2>3. \A u \in Task : call'[u] = IF u = t THEN r ELSE call[u]
    BY <1>t, <2>1 DEF TypeOK
  <2>4. \A x \in live : Holders(x)' = Holders(x)
    <3> TAKE x \in live
    <3>1. t \in Holders(x)' <=> t \in Holders(x)
      BY <1>n, <2>1, <2>2, <2>3 DEF Holders
    <3>2. \A u \in Task \ {t} : u \in Holders(x)' <=> u \in Holders(x)
      BY <2>3, HoldersStay
    <3>3. Holders(x)' \subseteq Var \cup Task /\ Holders(x) \subseteq Var \cup Task
      BY HoldersNow, HoldersNext
    <3>4. \A v \in Var : v \in Holders(x)' <=> v \in Holders(x)
      BY <2>1, HoldersNow, HoldersNext
    <3> QED  BY <3>1, <3>2, <3>3, <3>4
  <2>5. \A x \in live' \ {Null, Null} :
          /\ x \in live /\ counter'[x] = counter[x] /\ Holders(x)' = Holders(x)
          /\ call[t].pc = "free" => call[t].old # x
    BY <2>1, <2>4
  <2>6. Null \notin live'
    BY <1>l, <1>n, <2>1
  <2>7. NotEmpty'
    BY <2>1, NotEmptyFrame
  <2>8. ExactShape(r)'
    BY <2>2, NoExactShape
  <2> QED  BY <2>1, <2>5, <2>6, <2>7, <2>8, ExactStep
<1>c. c.pc \in {"drop", "free"} => Continue(c).pc \in {"bind", "idle"}
  BY <1>t, ContinueShape
<1>4. ASSUME Dereference(t) PROVE ExactInv'
  <2> PICK r : r = IF counter[c.old] = 1 THEN [c EXCEPT !.pc = "free"] ELSE Continue(c)
    OBVIOUS
  <2> PICK o : o = c.old
    OBVIOUS
  <2>1. /\ c.pc = "drop" /\ UNCHANGED <<data, live, value>>
        /\ counter' = [counter EXCEPT ![o] = @ - 1]
        /\ call' = [call EXCEPT ![t] = r]
    BY <1>4 DEF Dereference
  <2>2. /\ IF counter[o] = 1 THEN r.pc = "free" /\ r.old = o ELSE r.pc \in {"bind", "idle"}
        /\ r.pc \notin {"drop", "copy", "raised"}
    <3>1. [c EXCEPT !.pc = "free"].pc = "free" /\ [c EXCEPT !.pc = "free"].old = o
      BY <1>t DEF Calls
    <3> QED  BY <1>c, <2>1, <3>1
  <2>3. /\ o \in live /\ o \in Object /\ counter[o] \in Nat /\ counter'[o] = counter[o] - 1
        /\ \A x \in Object \ {o} : counter'[x] = counter[x]
    BY <1>t, <1>l, <2>1 DEF TypeOK, CallShape, ReleaseShape
  <2>4. \A u \in Task : call'[u] = IF u = t THEN r ELSE call[u]
    BY <1>t, <2>1 DEF TypeOK
  <2>5. Counted(o)'
    <3> PICK H : H = Holders(o)
      OBVIOUS
    <3>1. t \in H
      BY <2>1 DEF Holders
    <3>2. Holders(o)' = H \ {t}
      <4>1. data' = data /\ t \notin Var
        BY <1>n, <2>1
      <4>2. call'[t].pc \notin {"drop", "copy", "raised"} /\ \A u \in Task \ {t} : call'[u] = call[u]
        BY <2>2, <2>4
      <4> QED  BY <4>1, <4>2 DEF Holders
    <3>3. Cardinality(H \ {t}) = Cardinality(H) - 1
      <4>1. IsFiniteSet(H)
        BY HoldersFinite
      <4> QED  BY <3>1, <4>1, CardLess
    <3>4. counter[o] = Cardinality(H)
      BY <2>3 DEF ExactInv, NoLeak
    <3>5. ASSUME Holders(o)' = {} PROVE \E u \in Task : call'[u].pc = "free" /\ call'[u].old = o
      <4>0. Cardinality(H \ {t}) = 0
        BY <3>2, <3>5, FS_EmptySet
      <4>1. counter[o] = 1
        BY <2>3, <3>3, <3>4, <4>0
      <4> QED  BY <2>2, <2>4, <4>1
    <3> QED  BY <2>3, <3>2, <3>3, <3>4, <3>5 DEF Counted
  <2>6. \A x \in live' \ {o, o} :
          /\ x \in live /\ counter'[x] = counter[x] /\ Holders(x)' = Holders(x)
          /\ call[t].pc = "free" => call[t].old # x
    <3> TAKE x \in live' \ {o, o}
    <3>1. Holders(x)' = Holders(x)
      BY <2>1, <2>2, <2>4 DEF Holders
    <3> QED  BY <1>l, <2>1, <2>3, <3>1
  <2>7. NotEmpty'
    BY <2>1, NotEmptyFrame
  <2>8. ExactShape(r)'
    BY <2>2, NoExactShape
  <2> QED  BY <2>1, <2>5, <2>6, <2>7, <2>8, ExactStep
<1>5. ASSUME Free(t) PROVE ExactInv'
  <2> PICK r : r = Continue(c)
    OBVIOUS
  <2> PICK o : o = c.old
    OBVIOUS
  <2>1. /\ c.pc = "free" /\ r.pc \in {"bind", "idle"} /\ UNCHANGED <<data, counter>>
        /\ live' = live \ {o} /\ value' = [value EXCEPT ![o] = <<>>]
        /\ call' = [call EXCEPT ![t] = r]
    BY <1>c, <1>5 DEF Free
  <2>2. Holders(o) = {} /\ \A x \in Object \ {o} : value'[x] = value[x]
    BY <1>t, <2>1, NoHolder DEF TypeOK, CallShape, ReleaseShape
  <2>3. \A u \in Task : call'[u] = IF u = t THEN r ELSE call[u]
    BY <1>t, <2>1 DEF TypeOK
  <2>4. \A x \in live' \ {o, o} :
          /\ x \in live /\ counter'[x] = counter[x] /\ Holders(x)' = Holders(x)
          /\ call[t].pc = "free" => call[t].old # x
    <3> TAKE x \in live' \ {o, o}
    <3>1. Holders(x)' = Holders(x)
      BY <2>1, <2>3 DEF Holders
    <3> QED  BY <2>1, <3>1
  <2>5. o \notin live'
    BY <2>1
  <2>6. NotEmpty'
    <3>1. \A v \in Var : data[v] # o
      BY <2>2 DEF Holders
    <3> QED  BY <2>1, <2>2, <3>1, NotEmptyFrame
  <2>7. ExactShape(r)'
    BY <2>1, NoExactShape
  <2> QED  BY <2>1, <2>4, <2>5, <2>6, <2>7, ExactStep
<1>6. ASSUME Reference(t) PROVE ExactInv'
  <2> PICK r : r = Idle
    OBVIOUS
  <2> PICK o : o = c.new
    OBVIOUS
  <2>1. /\ c.pc = "bind" /\ r.pc = "idle" /\ UNCHANGED <<live, value>>
        /\ data' = [data EXCEPT ![c.self] = o]
        /\ counter' = IF o \in Object THEN [counter EXCEPT ![o] = @ + 1] ELSE counter
        /\ call' = [call EXCEPT ![t] = r]
    BY <1>i, <1>6 DEF Reference
  <2>2. /\ c.self \in Var /\ data[c.self] = Null
        /\ o \in Object => c.item \in Var /\ o = data[c.item]
    BY <1>t, <1>n, <2>1 DEF CallShape, WriterShape, ReleaseShape, TargetShape
  <2>3. \A x \in Var : data'[x] = IF x = c.self THEN o ELSE data[x]
    BY <1>t, <2>1, <2>2 DEF TypeOK
  <2>4. \A u \in Task : call'[u] = IF u = t THEN r ELSE call[u]
    BY <1>t, <2>1 DEF TypeOK
  <2>5. \A x \in live : x # o => counter'[x] = counter[x]
    BY <1>t, <1>l, <2>1 DEF TypeOK
  <2>6. o \in live' => Counted(o)'
    <3> SUFFICES ASSUME o \in live PROVE Counted(o)'
      BY <2>1
    <3> PICK H : H = Holders(o)
      OBVIOUS
    <3>1. c.self \notin H /\ o \in Object
      BY <1>l, <1>n, <2>2 DEF Holders
    <3>2. Holders(o)' = H \cup {c.self}
      BY <2>1, <2>2, <2>3, <2>4 DEF Holders
    <3>3. Cardinality(H \cup {c.self}) = Cardinality(H) + 1
      <4>1. IsFiniteSet(H)
        BY HoldersFinite
      <4> QED  BY <3>1, <4>1, CardMore
    <3>4. counter[o] = Cardinality(H) /\ Holders(o)' # {}
      BY <3>2 DEF ExactInv, NoLeak
    <3>5. counter'[o] = counter[o] + 1
      BY <1>t, <2>1, <3>1 DEF TypeOK
    <3> QED  BY <3>2, <3>3, <3>4, <3>5 DEF Counted
  <2>7. \A x \in live' \ {o, o} :
          /\ x \in live /\ counter'[x] = counter[x] /\ Holders(x)' = Holders(x)
          /\ call[t].pc = "free" => call[t].old # x
    <3> TAKE x \in live' \ {o, o}
    <3>1. Holders(x)' = Holders(x)
      BY <1>l, <1>n, <2>1, <2>2, <2>3, <2>4 DEF Holders
    <3> QED  BY <2>1, <2>5, <3>1
  <2>8. NotEmpty'
    BY <2>1, <2>2, <2>3 DEF ExactInv, NotEmpty
  <2>9. ExactShape(r)'
    BY <2>1, NoExactShape
  <2>10. \A u \in Task \ {t} : call[u].self \in Var =>
           data'[call[u].self] = data[call[u].self]
    BY <1>w, <2>1, <2>2
  <2> QED  BY <2>1, <2>6, <2>7, <2>8, <2>9, <2>10, ExactStep
<1>7. ASSUME PublishIndexMap(t) PROVE ExactInv'
  <2> PICK r : r = Idle
    OBVIOUS
  <2>1. /\ c.pc = "publish" /\ r.pc = "idle" /\ UNCHANGED <<data, live, counter, value>>
        /\ call' = [call EXCEPT ![t] = r]
    BY <1>i, <1>7 DEF PublishIndexMap
  <2>2. NotEmpty'
    BY <2>1, NotEmptyFrame
  <2> QED  BY <2>1, <2>2, ExactKept
<1> QED  BY <1>1, <1>2, <1>3, <1>4, <1>5, <1>6, <1>7 DEF Step

\* Each step keeps the counters exact.
LEMMA NextExact ==
  ASSUME ~SelfReplace, IInv, SegmentsInv, ExactInv, [Next]_vars
  PROVE  ExactInv'
<1>1. CASE UNCHANGED vars
  BY <1>1 DEF vars, heap, ExactInv, NoLeak, NotEmpty, ExactShape, Holders
<1>2. CASE Next
  BY <1>2, StartExact, StepExact DEF Next
<1> QED  BY <1>1, <1>2

\* No interleaving of the calls loses a segment, but an Append that raises its
\* new one: a segment's counter is the number of its holders, and when the last
\* one is gone a call is about to deallocate it.
THEOREM NothingLeaks ==
  ASSUME ~SelfReplace
  PROVE  Spec => []NoLeak
<1>1. IInv /\ SegmentsInv /\ ExactInv /\ [Next]_vars => ExactInv'
  BY NextExact
<1>2. ExactInv => NoLeak
  BY DEF ExactInv
<1> QED  BY <1>1, <1>2, InitExact, Invariance, SegmentsInvariance, PTL DEF Spec

-----------------------------------------------------------------------------
(***************************************************************************)
(* SharedStrings implements StringValues, as long as no program replaces   *)
(* all of a string by that very object.                                    *)
(***************************************************************************)

\* The call of t that the values show: what it has yet to do, if anything.
Pend(t) == IF Waiting(t)
           THEN [self |-> call[t].self,
                 result |-> IF Sharing(t) THEN ValueAt(call[t].new) ELSE Result(t)]
           ELSE [self |-> Null,
                 result |-> IF call[t].pc = "raised" THEN Null ELSE <<>>]

\* The value of the object that the call of t writes.
Held(t) == IF Sharing(t)
           THEN ValueAt(IF Waiting(t) THEN call[t].old ELSE call[t].new)
           ELSE ValueAt(data[call[t].self])

\* The values of the objects are a function of them, now and next.
LEMMA AbstractValIsFunction ==
  /\ AbstractVal = [x \in Var |-> AbstractVal[x]]
  /\ AbstractVal' = [x \in Var |-> AbstractVal'[x]]
BY DEF AbstractVal

\* An object's value is where its writer has it, or else in its own segment.
ValuesRead ==
  \A v \in Var :
    /\ \A t \in Task : call[t].self = v => AbstractVal[v] = Held(t)
    /\ (\A t \in Task : call[t].self # v) => AbstractVal[v] = ValueAt(data[v])

\* An object has one writer at most, so this determines every value.
LEMMA ValuesAreRead == IInv => ValuesRead
<1> SUFFICES ASSUME IInv, NEW v \in Var
             PROVE  /\ \A t \in Task : call[t].self = v => AbstractVal[v] = Held(t)
                    /\ (\A t \in Task : call[t].self # v) => AbstractVal[v] = ValueAt(data[v])
  BY DEF ValuesRead
<1>1. AbstractVal[v] =
        IF \E t \in Task : Sharing(t) /\ call[t].self = v
        THEN LET t == CHOOSE t \in Task : Sharing(t) /\ call[t].self = v
             IN  ValueAt(IF Waiting(t) THEN call[t].old ELSE call[t].new)
        ELSE ValueAt(data[v])
  BY DEF AbstractVal
<1>2. ASSUME NEW t \in Task, call[t].self = v PROVE AbstractVal[v] = Held(t)
  <2>1. \A u \in Task : call[u].self = v => u = t
    BY <1>2, ConstantsAssumption DEF IInv, Discipline
  <2>2. CASE Sharing(t)
    <3>1. (CHOOSE u \in Task : Sharing(u) /\ call[u].self = v) = t
      BY <1>2, <2>1, <2>2
    <3>2. \E u \in Task : Sharing(u) /\ call[u].self = v
      BY <1>2, <2>2
    <3> QED  BY <1>1, <2>2, <3>1, <3>2 DEF Held
  <2>3. CASE ~Sharing(t)
    BY <1>1, <1>2, <2>1, <2>3 DEF Held
  <2> QED  BY <2>2, <2>3
<1>3. ASSUME \A t \in Task : call[t].self # v PROVE AbstractVal[v] = ValueAt(data[v])
  BY <1>1, <1>3
<1> QED  BY <1>2, <1>3

\* The same of the next state.
LEMMA ValuesAreReadNext == IInv' => ValuesRead'
BY ValuesAreRead, PTL

\* So an object that a call writes next has the value that the call holds,
LEMMA WrittenNext ==
  ASSUME IInv', NEW s \in Var, NEW t \in Task, call'[t].self = s
  PROVE  AbstractVal'[s] = Held(t)'
BY ValuesAreReadNext DEF ValuesRead

\* and one that no call writes next has that of its segment.
LEMMA UnwrittenNext ==
  ASSUME IInv', NEW s \in Var, \A t \in Task : call'[t].self # s
  PROVE  AbstractVal'[s] = ValueAt(data[s])'
BY ValuesAreReadNext DEF ValuesRead

\* What the values show of a call that a step leaves alone, as the objects and
\* the texts that the call reads stay.
LEMMA PendFrame ==
  ASSUME IInv, NEW u \in Task, call'[u] = call[u],
         \A x \in Var \cap {call[u].self, call[u].item} :
           data'[x] = data[x] /\ Text(data[x])' = Text(data[x]),
         call[u].pc = "drop" => Text(call[u].old)' = Text(call[u].old)
  PROVE  /\ Pend(u)' = Pend(u)
         /\ call[u].self \in Var => Held(u)' = Held(u)
<1> PICK c : c = call[u]
  OBVIOUS
<1>1. c \in Calls /\ CallShape(c) /\ c = call'[u]
  BY DEF IInv, TypeOK, CallShapes
<1>2. \A x \in Var \cap {c.self, c.item} : ValueAt(data[x])' = ValueAt(data[x])
  BY DEF ValueAt
<1>3. Sharing(u)' <=> Sharing(u)
  BY <1>1 DEF Sharing, CallShape, WriterShape
<1>4. Waiting(u)' <=> Waiting(u)
  BY <1>1 DEF Waiting, CallShape, WriterShape
<1>5. ASSUME Sharing(u) PROVE ValueAt(c.new)' = ValueAt(c.new)
  <2>1. \/ c.new \in {Empty, Null}
        \/ c.item \in Var /\ c.new = data[c.item]
    BY <1>1, <1>5 DEF Sharing, CallShape, TargetShape
  <2> QED  BY <1>2, <2>1, ConstantsAssumption DEF ValueAt, Text
<1>6. ASSUME Sharing(u), Waiting(u) PROVE ValueAt(c.old)' = ValueAt(c.old)
  BY <1>6, ConstantsAssumption DEF ValueAt, Text, Sharing, Waiting
<1>7. ASSUME Waiting(u), ~Sharing(u) PROVE Result(u)' = Result(u)
  <2>1. c.pc \in {"edit", "copy"}
    BY <1>1, <1>7 DEF Waiting, Sharing, CallShape, ReleaseShape
  <2>2. \E x \in Var \cap {c.self, c.item} : c.from = data[x]
    BY <1>1, <2>1 DEF CallShape, WriterShape, EditShape, CopyShape
  <2>3. Text(c.from)' = Text(c.from)
    BY <2>2
  <2>4. c.item # Null => Text(data[c.item])' = Text(data[c.item])
    BY <1>1 DEF Calls
  <2> QED  BY <1>1, <2>3, <2>4 DEF Result
<1>8. Pend(u)' = Pend(u)
  BY <1>1, <1>3, <1>4, <1>5, <1>7 DEF Pend
<1>9. c.self \in Var => Held(u)' = Held(u)
  BY <1>1, <1>2, <1>3, <1>4, <1>5, <1>6 DEF Held
<1> QED  BY <1>8, <1>9

-----------------------------------------------------------------------------
(***************************************************************************)
(* A step of t, which concerns the object s, is left with the value of s   *)
(* and with the call of t.                                                 *)
(***************************************************************************)

\* The step of t changes only s of the objects, which nobody else uses, and no
\* text of another object or of a segment that another call gives up.
Concerns(t, s) ==
  /\ \A u \in Task \ {t} : call'[u] = call[u]
  /\ s \in Var => \A u \in Task \ {t} : s \notin {call[u].self, call[u].item}
  /\ call[t].self \in {Null, s} /\ call'[t].self \in {Null, s}
  /\ \A x \in Var \ {s} : data'[x] = data[x] /\ Text(data[x])' = Text(data[x])
  /\ \A u \in Task \ {t} :
       call[u].pc = "drop" => Text(call[u].old)' = Text(call[u].old)

\* Such a step changes no other value and no other call.
LEMMA ConcernsFrame ==
  ASSUME IInv, IInv', NEW t \in Task, NEW s, Concerns(t, s)
  PROVE  /\ \A u \in Task \ {t} : Pend(u)' = Pend(u)
         /\ \A x \in Var \ {s} : AbstractVal'[x] = AbstractVal[x]
<1>1. \A x \in Var \ {s} : data'[x] = data[x] /\ Text(data[x])' = Text(data[x])
  BY DEF Concerns
<1>2. ASSUME NEW u \in Task \ {t}
      PROVE  /\ Pend(u)' = Pend(u)
             /\ call[u].self \in Var => Held(u)' = Held(u)
  <2>1. call'[u] = call[u]
    BY DEF Concerns
  <2>2. \A x \in Var \cap {call[u].self, call[u].item} :
          data'[x] = data[x] /\ Text(data[x])' = Text(data[x])
    BY <1>1 DEF Concerns
  <2>3. call[u].pc = "drop" => Text(call[u].old)' = Text(call[u].old)
    BY DEF Concerns
  <2> QED  BY <2>1, <2>2, <2>3, PendFrame
<1>3. ASSUME NEW x \in Var \ {s} PROVE AbstractVal'[x] = AbstractVal[x]
  <2>1. x # Null
    BY ConstantsAssumption
  <2>2. CASE \E u \in Task : call[u].self = x
    <3> PICK u \in Task : call[u].self = x
      BY <2>2
    <3>1. u # t /\ call'[u].self = x
      BY <2>1 DEF Concerns
    <3>2. AbstractVal[x] = Held(u)
      BY ValuesAreRead DEF ValuesRead
    <3>3. AbstractVal'[x] = Held(u)'
      BY <3>1, WrittenNext
    <3> QED  BY <1>2, <3>1, <3>2, <3>3
  <2>3. CASE \A u \in Task : call[u].self # x
    <3>1. \A u \in Task : call'[u].self # x
      BY <2>1, <2>3 DEF Concerns
    <3>2. AbstractVal[x] = ValueAt(data[x])
      BY <2>3, ValuesAreRead DEF ValuesRead
    <3>3. AbstractVal'[x] = ValueAt(data[x])'
      BY <3>1, UnwrittenNext
    <3>4. ValueAt(data[x])' = ValueAt(data[x])
      BY <1>1 DEF ValueAt
    <3> QED  BY <3>2, <3>3, <3>4
  <2> QED  BY <2>2, <2>3
<1> QED  BY <1>2, <1>3

\* A call on s that starts and leaves its value is a request for what the call
\* will store, when that is a text that may be asked for.
LEMMA Requests ==
  ASSUME IInv, IInv', NEW t \in Task, NEW s \in Var, Concerns(t, s),
         NEW y, y \in Values!Promised(s),
         call[t].self = Null, call[t].pc # "raised", ~Waiting(t),
         Pend(t)' = [self |-> s, result |-> y],
         AbstractVal'[s] = AbstractVal[s]
  PROVE  Values!Request(t, s)
<1>1. /\ \A u \in Task \ {t} : Pend(u)' = Pend(u)
      /\ \A x \in Var \ {s} : AbstractVal'[x] = AbstractVal[x]
  BY ConcernsFrame
<1>2. AbstractVal' = AbstractVal
  BY <1>1, AbstractValIsFunction
<1>3. Pend(t) = [self |-> Null, result |-> <<>>]
  BY DEF Pend
<1>4. \A u \in Task : Pend(u).self # s
  BY <1>3, ConstantsAssumption DEF Concerns, Pend
<1>5. [u \in Task |-> Pend(u)]' =
        [[u \in Task |-> Pend(u)] EXCEPT ![t] = [self |-> s, result |-> y]]
  BY <1>1
<1>6. [u \in Task |-> Pend(u)]'[t].result = y
  OBVIOUS
<1> QED  BY <1>2, <1>3, <1>4, <1>5, <1>6 DEF Values!Request, Values!NoCall, Pend

\* A call whose value takes effect.
LEMMA Performs ==
  ASSUME IInv, IInv', NEW t \in Task, NEW s \in Var, Concerns(t, s),
         NEW y, Pend(t) = [self |-> s, result |-> y],
         ~Waiting(t)', call'[t].pc # "raised",
         AbstractVal'[s] = y
  PROVE  Values!Perform(t)
<1>1. /\ \A u \in Task \ {t} : Pend(u)' = Pend(u)
      /\ \A x \in Var \ {s} : AbstractVal'[x] = AbstractVal[x]
  BY ConcernsFrame
<1>2. AbstractVal' = [AbstractVal EXCEPT ![s] = y]
  <2>1. /\ AbstractVal = [x \in Var |-> AbstractVal[x]]
        /\ AbstractVal' = [x \in Var |-> AbstractVal'[x]]
    BY AbstractValIsFunction
  <2> QED  BY <1>1, <2>1
<1>3. [u \in Task |-> Pend(u)]' =
        [[u \in Task |-> Pend(u)] EXCEPT ![t] = [self |-> Null, result |-> <<>>]]
  BY <1>1 DEF Pend
<1>4. [u \in Task |-> Pend(u)][t] = [self |-> s, result |-> y]
  OBVIOUS
<1>5. [self |-> s, result |-> y] \notin
        {[self |-> Null, result |-> <<>>], [self |-> Null, result |-> Null]}
  BY ConstantsAssumption
<1> QED
  BY <1>2, <1>3, <1>4, <1>5 DEF Values!Perform, Values!NoCall, Values!Failed, Pend

\* A call that raises: it has changed nothing.
LEMMA Fails ==
  ASSUME IInv, IInv', NEW t \in Task, NEW s \in Var, Concerns(t, s),
         NEW c \in Char, Values!InScope(s),
         Pend(t) = [self |-> s, result |-> Append(AbstractVal[s], c)],
         Pend(t)' = [self |-> Null, result |-> Null],
         AbstractVal'[s] = AbstractVal[s]
  PROVE  Values!Fail(t)
<1>1. /\ \A u \in Task \ {t} : Pend(u)' = Pend(u)
      /\ \A x \in Var \ {s} : AbstractVal'[x] = AbstractVal[x]
  BY ConcernsFrame
<1>2. AbstractVal' = AbstractVal
  BY <1>1, AbstractValIsFunction
<1>3. [u \in Task |-> Pend(u)]' =
        [[u \in Task |-> Pend(u)] EXCEPT ![t] = [self |-> Null, result |-> Null]]
  BY <1>1
<1> PICK y : y = Append(AbstractVal[s], c)
  OBVIOUS
<1>4. [u \in Task |-> Pend(u)][t] = [self |-> s, result |-> y]
  OBVIOUS
<1>5. [self |-> s, result |-> y] \notin
        {[self |-> Null, result |-> <<>>], [self |-> Null, result |-> Null]}
  BY ConstantsAssumption
<1> QED
  BY <1>2, <1>3, <1>4, <1>5 DEF Values!Fail, Values!NoCall, Values!Failed, Pend

\* A step that does not show.
LEMMA Stutters ==
  ASSUME IInv, IInv', NEW t \in Task, NEW s, Concerns(t, s),
         Pend(t)' = Pend(t), s \in Var => AbstractVal'[s] = AbstractVal[s]
  PROVE  UNCHANGED Values!vars
<1>1. /\ \A u \in Task \ {t} : Pend(u)' = Pend(u)
      /\ \A x \in Var \ {s} : AbstractVal'[x] = AbstractVal[x]
  BY ConcernsFrame
<1>2. AbstractVal' = AbstractVal
  BY <1>1, AbstractValIsFunction
<1>3. [u \in Task |-> Pend(u)]' = [u \in Task |-> Pend(u)]
  BY <1>1
<1> QED  BY <1>2, <1>3 DEF Values!vars, Pend

\* A call that neither waits nor has raised does not show.
LEMMA PendQuiet ==
  ASSUME NEW t \in Task, ~Waiting(t), ~Waiting(t)',
         call[t].pc # "raised", call'[t].pc # "raised"
  PROVE  Pend(t)' = Pend(t)
BY DEF Pend

-----------------------------------------------------------------------------
(***************************************************************************)
(* The calls that start.                                                   *)
(***************************************************************************)

\* An object that no call writes has the value in its segment.
LEMMA Unwritten ==
  ASSUME IInv, NEW v \in Var, \A u \in Task : call[u].self # v
  PROVE  /\ AbstractVal[v] = ValueAt(data[v])
         /\ data[v] # Null => /\ Values!InScope(v) /\ AbstractVal[v] = Text(data[v])
         /\ data[v] = Null => AbstractVal[v] = Null
<1>1. AbstractVal[v] = ValueAt(data[v])
  BY ValuesAreRead DEF ValuesRead
<1>2. Text(data[v]) \in Texts
  BY TextType DEF IInv, TypeOK
<1>3. Null \notin Texts
  BY ConstantsAssumption DEF Texts
<1> QED  BY <1>1, <1>2, <1>3 DEF ValueAt, Values!InScope

\* A part of a text is a slice of it.
LEMMA SliceOf ==
  ASSUME NEW s \in Seq(Char), NEW first \in 0 .. Len(s), NEW size \in 0 .. Len(s),
         first + size \in 0 .. Len(s)
  PROVE  SubSeq(s, first + 1, first + size) \in Values!Slices(s)
BY DEF Values!Slices

\* Append, Prepend and Replace may be asked for.
LEMMA SplicePromised ==
  ASSUME NEW v \in Var, Values!InScope(v),
         NEW first \in 0 .. Len(AbstractVal[v]), NEW size \in 0 .. Len(AbstractVal[v]),
         NEW by \in {AbstractVal[x] : x \in {x \in Var : Values!InScope(x)}}
                      \cup {<<c>> : c \in Char}
  PROVE  Values!Splice(AbstractVal[v], first, size, by) \in Values!Promised(v)
BY DEF Values!Promised

\* What a call that edits or copies will store is a text that may be asked for.
LEMMA OutcomePromised ==
  ASSUME IInv, NEW t \in Task, NEW v \in Var, NEW w \in Var \cup {Null}, NEW e \in Edit,
         NEW from, from = data[v] \/ (w \in Var /\ from = data[w]),
         MayWrite(t, v), Readable(t, w), EditAsked(v, w, e, from),
         e.first + e.size <= Len(Text(from)), Outcome(from, w, e) # <<>>
  PROVE  Outcome(from, w, e) \in Values!Promised(v)
<1> DEFINE others == {AbstractVal[x] : x \in {x \in Var : Values!InScope(x)}}
           s      == AbstractVal[v]
<1>1. \A x \in Var : x \in {v, w} => \A u \in Task : call[u].self # x
  BY DEF MayWrite, Readable, MayRead
<1>2. \A x \in Var : x \in {v, w} /\ data[x] # Null =>
        Values!InScope(x) /\ AbstractVal[x] = Text(data[x]) /\ Text(data[x]) \in others
  <2> TAKE x \in Var
  <2> HAVE x \in {v, w} /\ data[x] # Null
  <2>1. Values!InScope(x) /\ AbstractVal[x] = Text(data[x])
    BY <1>1, Unwritten
  <2> QED  BY <2>1
<1>3. from \in Ref /\ Text(from) \in Texts /\ Len(Text(from)) \in Nat
  BY TextType DEF IInv, TypeOK
<1>4. e.first \in 0 .. Len(Text(from)) /\ e.size \in 0 .. Len(Text(from))
      /\ e.first + e.size \in 0 .. Len(Text(from))
  BY <1>3 DEF Edit
<1>5. CASE e.kind = "slice"
  <2>1. Outcome(from, w, e) = Kept(Text(from), e)
    BY <1>5 DEF Outcome
  <2>2. from # Null
    <3> SUFFICES ASSUME from = Null PROVE FALSE
      OBVIOUS
    <3>1. Text(from) = <<>>
      BY ConstantsAssumption DEF Text
    <3>2. Kept(Text(from), e) = <<>>
      BY <1>4, <3>1 DEF Kept
    <3> QED  BY <2>1, <3>2
  <2>3. Text(from) \in others
    BY <1>2, <2>2
  <2>4. Kept(Text(from), e) \in Values!Slices(Text(from))
    BY <1>3, <1>4, SliceOf DEF Kept, Texts
  <2>5. Outcome(from, w, e) \in UNION {Values!Slices(x) : x \in others}
    BY <2>1, <2>3, <2>4
  <2> QED  BY <2>5 DEF Values!Promised
<1>6. CASE e.kind # "slice"
  <2>1. from = data[v] /\ Values!InScope(v) /\ s = Text(from)
    BY <1>2, <1>6 DEF EditAsked
  <2>2. PICK by : by = IF w = Null THEN e.code ELSE Text(data[w])
    OBVIOUS
  <2>3. by \in others \cup {<<c>> : c \in Char}
    <3>1. CASE w = Null
      BY <1>6, <2>2, <3>1 DEF EditAsked
    <3>2. CASE w # Null
      BY <1>2, <2>2, <3>2 DEF Readable, MayRead
    <3> QED  BY <3>1, <3>2
  <2>4. Outcome(from, w, e) = Values!Splice(s, e.first, e.size, by)
    BY <1>6, <2>1, <2>2 DEF Outcome, Spliced, Values!Splice
  <2>5. /\ e.first \in 0 .. Len(s) /\ e.size \in 0 .. Len(s)
        /\ by \in {AbstractVal[x] : x \in {x \in Var : Values!InScope(x)}}
                   \cup {<<c>> : c \in Char}
    BY <1>4, <2>1, <2>3
  <2> QED  BY <2>1, <2>4, <2>5, SplicePromised
<1> QED  BY <1>5, <1>6

\* A call that starts to share a segment asks for the value that is there.
LEMMA SharesTargetImplements ==
  ASSUME IInv, IInv', NEW t \in Task, SharesTarget(t)
  PROVE  \E s \in Var : Values!Request(t, s)
<1> PICK v \in Var, w \in Var \cup {Null}, target \in Ref :
         /\ MayWrite(t, v) /\ Readable(t, w)
         /\ target \in {Empty, Null} \/ (w \in Var /\ w # v /\ target = data[w])
         /\ Rebind(t, v, w, target)
  BY DEF SharesTarget
<1> PICK r : r = [Idle EXCEPT !.pc   = IF data[v] \in Object THEN "drop" ELSE "bind",
                              !.self = v, !.item = w, !.old = data[v], !.new = target]
  OBVIOUS
<1>1. /\ call' = [call EXCEPT ![t] = r] /\ data' = [data EXCEPT ![v] = Null]
      /\ value' = value /\ call[t].pc = "idle"
      /\ \A u \in Task : v \notin {call[u].self, call[u].item}
  BY DEF Rebind, heap, MayWrite
<1>2. /\ r.pc = IF data[v] \in Object THEN "drop" ELSE "bind"
      /\ r.self = v /\ r.old = data[v] /\ r.new = target
  BY DEF Idle
<1>3. call'[t] = r /\ data'[v] = Null
  BY <1>1 DEF IInv, TypeOK
<1>4. call[t].self = Null /\ ~Waiting(t)
  BY <1>1 DEF IInv, CallShapes, CallShape, IdleShape, Waiting
<1>5. Concerns(t, v)
  BY <1>1, <1>2, <1>3, <1>4 DEF Concerns, Text, IInv, TypeOK
<1>6. Sharing(t)' /\ Waiting(t)'
  BY <1>2, <1>3 DEF Sharing, Waiting
<1>7. AbstractVal'[v] = AbstractVal[v]
  <2>1. AbstractVal[v] = ValueAt(data[v])
    BY <1>1, Unwritten
  <2>2. AbstractVal'[v] = Held(t)'
    BY <1>2, <1>3, WrittenNext
  <2>3. Held(t)' = ValueAt(call[t].old)'
    BY <1>6 DEF Held
  <2>4. ValueAt(call[t].old)' = ValueAt(data[v])
    <3>1. call'[t].old = data[v] /\ value' = value
      BY <1>1, <1>2, <1>3
    <3> QED  BY ONLY <3>1 DEF ValueAt, Text
  <2> QED  BY <2>1, <2>2, <2>3, <2>4
<1>8. Pend(t)' = [self |-> v, result |-> ValueAt(target)]
  <2>1. Pend(t)' = [self |-> call'[t].self, result |-> ValueAt(call[t].new)']
    BY <1>6 DEF Pend
  <2>2. ValueAt(call[t].new)' = ValueAt(target)
    <3>1. call'[t].new = target /\ value' = value
      BY <1>1, <1>2, <1>3
    <3> QED  BY ONLY <3>1 DEF ValueAt, Text
  <2> QED  BY <1>2, <1>3, <2>1, <2>2
<1>9. ValueAt(target) \in Values!Promised(v)
  <2>1. CASE target \in {Empty, Null}
    BY <2>1, ConstantsAssumption DEF ValueAt, Text, Values!Promised
  <2>2. CASE w \in Var /\ w # v /\ target = data[w]
    <3>1. data[w] # Null /\ \A u \in Task : call[u].self # w
      BY <2>2 DEF Readable, MayRead
    <3>2. Values!InScope(w) /\ AbstractVal[w] = ValueAt(target)
      BY <2>2, <3>1, Unwritten
    <3> QED  BY <2>2, <3>2 DEF Values!Promised
  <2> QED  BY <2>1, <2>2
<1>10. call[t].pc # "raised"
  BY <1>1 DEF MayWrite
<1> QED  BY <1>4, <1>5, <1>7, <1>8, <1>9, <1>10, Requests

\* What a call that starts to edit or to copy makes of the text of its source.
LEMMA EditRequests ==
  ASSUME IInv, IInv', NEW t \in Task, NEW r \in Calls, r.pc \in {"edit", "copy"},
         call' = [call EXCEPT ![t] = r], data' = data,
         \A x \in live : value'[x] = value[x],
         r.self \in Var, MayWrite(t, r.self), Readable(t, r.item),
         r.from = data[r.self] \/ (r.item \in Var /\ r.from = data[r.item]),
         EditAsked(r.self, r.item, r.edit, r.from),
         r.edit.first + r.edit.size <= Len(Text(r.from)),
         Outcome(r.from, r.item, r.edit) # <<>>
  PROVE  Values!Request(t, r.self)
<1> DEFINE y == Outcome(r.from, r.item, r.edit)
<1>1. /\ call'[t] = r /\ call[t].pc = "idle"
      /\ \A u \in Task : r.self \notin {call[u].self, call[u].item}
      /\ r.item \in Var \cup {Null} /\ r.edit \in Edit
  BY DEF IInv, TypeOK, MayWrite, Calls
<1>2. \A x \in Var : Text(data[x])' = Text(data[x])
  BY DataIsLive DEF Text
<1>3. ASSUME NEW u \in Task \ {t}, call[u].pc = "drop"
      PROVE  Text(call[u].old)' = Text(call[u].old)
  <2>1. CallShape(call[u]) /\ call'[u] = call[u]
    BY DEF IInv, CallShapes, TypeOK
  <2>2. call[u].old \in live
    BY <1>3, <2>1 DEF CallShape, ReleaseShape
  <2> QED  BY <2>1, <2>2 DEF Text
<1>4. call[t].self = Null /\ ~Waiting(t)
  BY <1>1 DEF IInv, CallShapes, CallShape, IdleShape, Waiting
<1>5. Concerns(t, r.self)
  BY <1>1, <1>2, <1>3, <1>4 DEF Concerns, IInv, TypeOK
<1>6. Waiting(t)' /\ ~Sharing(t)'
  BY <1>1 DEF Waiting, Sharing
<1>7. AbstractVal'[r.self] = AbstractVal[r.self]
  <2>1. AbstractVal[r.self] = ValueAt(data[r.self])
    BY <1>1, Unwritten
  <2>2. AbstractVal'[r.self] = Held(t)'
    BY <1>1, WrittenNext
  <2>3. Held(t)' = ValueAt(data[r.self])'
    BY <1>1, <1>6 DEF Held, ValueAt, Text
  <2> QED  BY <1>2, <2>1, <2>2, <2>3 DEF ValueAt
<1>8. Pend(t)' = [self |-> r.self, result |-> y]
  <2>1. Text(r.from)' = Text(r.from)
    BY <1>2
  <2>2. r.item # Null => Text(data[r.item])' = Text(data[r.item])
    BY <1>1, <1>2
  <2>3. Result(t)' = y
    BY <1>1, <2>1, <2>2 DEF Result, Outcome
  <2> QED  BY <1>1, <1>6, <2>3 DEF Pend
<1>9. y \in Values!Promised(r.self)
  BY <1>1, OutcomePromised
<1>10. call[t].pc # "raised"
  BY <1>1
<1> HIDE DEF y
<1> QED  BY <1>4, <1>5, <1>7, <1>8, <1>9, <1>10, Requests

\* Every call that starts is a declaration or a request, or does not show.
LEMMA StartImplements ==
  ASSUME ~SelfReplace, IInv, IInv', NEW t \in Task, Start(t)
  PROVE  Values!Next \/ UNCHANGED Values!vars
<1>1. ASSUME NEW v \in Var, Declare(t, v) PROVE Values!Declare(v)
  <2>1. /\ \A u \in Task : v \notin {call[u].self, call[u].item}
        /\ data[v] = Null /\ data' = [data EXCEPT ![v] = Empty]
        /\ value' = value /\ call' = call /\ call[t].pc = "idle"
    BY <1>1 DEF Declare, MayWrite, heap
  <2>2. Concerns(t, v)
    BY <2>1 DEF Concerns, Text, IInv, TypeOK, CallShapes, CallShape, IdleShape
  <2>3. /\ \A u \in Task \ {t} : Pend(u)' = Pend(u)
        /\ \A x \in Var \ {v} : AbstractVal'[x] = AbstractVal[x]
    BY <2>2, ConcernsFrame
  <2>4. AbstractVal[v] = Null
    BY <2>1, Unwritten
  <2>5. AbstractVal'[v] = <<>>
    <3>1. AbstractVal'[v] = ValueAt(data[v])'
      BY <2>1, UnwrittenNext
    <3>2. data'[v] = Empty
      BY <2>1 DEF IInv, TypeOK
    <3> QED  BY <3>1, <3>2, ConstantsAssumption DEF ValueAt, Text
  <2>6. Pend(t) = [self |-> Null, result |-> <<>>] /\ Pend(t)' = Pend(t)
    BY <2>1 DEF Pend, Waiting
  <2>7. [u \in Task |-> Pend(u)]' = [u \in Task |-> Pend(u)]
    BY <2>3, <2>6
  <2>8. AbstractVal' = [AbstractVal EXCEPT ![v] = <<>>]
    <3>1. /\ AbstractVal = [x \in Var |-> AbstractVal[x]]
          /\ AbstractVal' = [x \in Var |-> AbstractVal'[x]]
      BY AbstractValIsFunction
    <3> QED  BY <2>3, <2>5, <3>1
  <2>9. \A u \in Task : Pend(u).self # v
    BY <2>1, ConstantsAssumption DEF Pend
  <2> QED  BY <2>4, <2>7, <2>8, <2>9 DEF Values!Declare, Values!InScope, Pend
<1>2. ASSUME NEW w \in Var, ComputeIndexMap(t, w) PROVE UNCHANGED Values!vars
  <2>1. /\ call[t].pc = "idle" /\ call'[t].pc = "publish" /\ call'[t].self = Null
        /\ \A u \in Task \ {t} : call'[u] = call[u]
        /\ data' = data /\ value' = value
    BY <1>2 DEF ComputeIndexMap, MayRead, heap, IInv, TypeOK, Idle
  <2>3. Concerns(t, Null)
    BY <2>1, ConstantsAssumption DEF Concerns, Text, IInv, CallShapes, CallShape, IdleShape
  <2>4. Pend(t)' = Pend(t)
    BY <2>1 DEF Pend, Waiting
  <2> QED  BY <2>3, <2>4, ConstantsAssumption, Stutters
<1>3. ASSUME EditsAlone(t) PROVE \E s \in Var : Values!Request(t, s)
  <2> PICK v \in Var, w \in Var \cup {Null}, e \in Edit :
         /\ MayWrite(t, v) /\ Readable(t, w)
         /\ data[v] \in Object
         /\ EditAsked(v, w, e, data[v])
         /\ e.first + e.size <= Len(Text(data[v]))
         /\ Len(Outcome(data[v], w, e)) \in 1 .. capacity[data[v]]
         /\ call' = [call EXCEPT ![t] =
              [Idle EXCEPT !.pc = "edit", !.self = v, !.item = w,
                           !.from = data[v], !.new = data[v], !.edit = e]]
         /\ UNCHANGED <<data, heap>>
    BY <1>3 DEF EditsAlone
  <2> PICK r : r = [Idle EXCEPT !.pc = "edit", !.self = v, !.item = w,
                                !.from = data[v], !.new = data[v], !.edit = e]
    OBVIOUS
  <2>1. /\ r.pc = "edit" /\ r.self = v /\ r.item = w /\ r.from = data[v] /\ r.edit = e
        /\ call' = [call EXCEPT ![t] = r] /\ data' = data /\ value' = value
    BY DEF Idle, heap
  <2>2. r \in Calls
    BY IdleIsCall DEF IInv, TypeOK, Calls
  <2>3. Outcome(data[v], w, e) # <<>>
    <3>1. ASSUME Outcome(data[v], w, e) = <<>> PROVE FALSE
      <4>1. Len(<<>>) \in 1 .. capacity[data[v]]
        BY <3>1
      <4> QED  BY ONLY <4>1
    <3> QED  BY <3>1
  <2>4. Values!Request(t, r.self)
    BY <2>1, <2>2, <2>3, EditRequests
  <2> QED  BY <2>1, <2>4
<1>4. ASSUME Copies(t) PROVE \E s \in Var : Values!Request(t, s)
  <2> PICK c \in Calls, size \in Nat :
         /\ c.self \in Var /\ MayWrite(t, c.self) /\ Readable(t, c.item)
         /\ c.from = data[c.self] \/ (c.item \in Var /\ c.from = data[c.item])
         /\ EditAsked(c.self, c.item, c.edit, c.from)
         /\ c.edit.first + c.edit.size <= Len(Text(c.from))
         /\ Len(Outcome(c.from, c.item, c.edit)) \in 1 .. size
         /\ CopyTo(t, c, size)
    BY <1>4 DEF Copies
  <2> PICK o \in Object :
         /\ Allocate(o, size)
         /\ call' = [call EXCEPT ![t] = [c EXCEPT !.pc = "copy", !.new = o]]
         /\ UNCHANGED data
    BY DEF CopyTo
  <2> PICK r : r = [c EXCEPT !.pc = "copy", !.new = o]
    OBVIOUS
  <2>1. /\ r.pc = "copy" /\ r.self = c.self /\ r.item = c.item /\ r.from = c.from
        /\ r.edit = c.edit /\ r \in Calls
        /\ call' = [call EXCEPT ![t] = r] /\ data' = data
    BY DEF Calls, Ref, Shared
  <2>2. \A x \in live : value'[x] = value[x]
    BY DEF Allocate, IInv, TypeOK
  <2>3. Outcome(c.from, c.item, c.edit) # <<>>
    <3>1. ASSUME Outcome(c.from, c.item, c.edit) = <<>> PROVE FALSE
      <4>1. Len(<<>>) \in 1 .. size
        BY <3>1
      <4> QED  BY ONLY <4>1
    <3> QED  BY <3>1
  <2>4. Values!Request(t, r.self)
    BY <2>1, <2>2, <2>3, EditRequests
  <2> QED  BY <2>1, <2>4
<1>5. ASSUME ReferencesAll(t) PROVE UNCHANGED Values!vars
  <2> PICK v \in Var, e \in Edit :
         /\ MayWrite(t, v) /\ data[v] \in Object
         /\ call' = [call EXCEPT ![t] =
              [Idle EXCEPT !.pc = "drop", !.self = v, !.from = data[v],
                           !.old = data[v], !.new = data[v], !.edit = e]]
         /\ UNCHANGED <<data, live, value, capacity, indexMap>>
    BY <1>5 DEF ReferencesAll
  <2>1. /\ call[t].pc = "idle" /\ call'[t].pc = "drop" /\ call'[t].self = v
        /\ \A u \in Task : v \notin {call[u].self, call[u].item}
        /\ \A u \in Task \ {t} : call'[u] = call[u]
        /\ data' = data /\ value' = value /\ data[v] # Null
    BY ConstantsAssumption DEF MayWrite, IInv, TypeOK, Idle
  <2>2. Concerns(t, v)
    BY <2>1 DEF Concerns, Text, IInv, CallShapes, CallShape, IdleShape
  <2>3. ~Waiting(t) /\ ~Waiting(t)' /\ ~Sharing(t)'
    BY <2>1 DEF Waiting, Sharing
  <2>4. Pend(t)' = Pend(t)
    BY <2>1, <2>3, PendQuiet
  <2>5. AbstractVal'[v] = AbstractVal[v]
    <3>1. AbstractVal[v] = ValueAt(data[v])
      BY <2>1, Unwritten
    <3>2. AbstractVal'[v] = Held(t)'
      BY <2>1, WrittenNext
    <3>3. Held(t)' = ValueAt(data[v])
      BY <2>1, <2>3 DEF Held, ValueAt, Text
    <3> QED  BY <3>1, <3>2, <3>3
  <2> QED  BY <2>2, <2>4, <2>5, Stutters
<1>6. \/ \E v \in Var : Declare(t, v)
      \/ \E w \in Var : ComputeIndexMap(t, w)
      \/ SharesTarget(t) \/ EditsAlone(t) \/ Copies(t) \/ ReferencesAll(t)
  BY StartForms DEF IInv
<1> QED
  BY <1>1, <1>2, <1>3, <1>4, <1>5, <1>6, SharesTargetImplements DEF Values!Next

-----------------------------------------------------------------------------
(***************************************************************************)
(* The steps of a running call.                                            *)
(***************************************************************************)

\* A running call has its object to itself.
LEMMA OwnObject ==
  ASSUME IInv, NEW t \in Task, call[t].pc \in {"edit", "copy", "drop", "free", "bind"}
  PROVE  /\ call[t].self \in Var
         /\ \A u \in Task \ {t} : call[t].self \notin {call[u].self, call[u].item}
<1>1. call[t].self \in Var
  BY DEF IInv, CallShapes, CallShape, WriterShape
<1> QED  BY <1>1, ConstantsAssumption DEF IInv, Discipline

\* Nobody else has the segment that a call edits or fills, or gives it up.
LEMMA OwnSegment ==
  ASSUME IInv, NEW t \in Task, call[t].pc \in {"edit", "copy"}
  PROVE  /\ \A x \in Var \ {call[t].self} : data[x] # call[t].new
         /\ \A u \in Task \ {t} : call[u].pc = "drop" => call[u].old # call[t].new
<1> PICK o : o = call[t].new
  OBVIOUS
<1>1. CallShape(call[t]) /\ call[t].self \in Var
  BY OwnObject DEF IInv, CallShapes
<1>2. o \in live /\ counter[o] = 1
  BY <1>1, SourceIsLive DEF CallShape, EditShape, CopyShape
<1>3. PICK h \in {t, call[t].self} : h \in Holders(o)
  BY <1>1 DEF CallShape, EditShape, Holders
<1>4. \A x \in Holders(o) : x = h
  BY <1>2, <1>3, SoleHolder
<1> QED  BY <1>1, <1>3, <1>4, ConstantsAssumption DEF Holders

\* The text is stored in place: the object takes its new value.
LEMMA EditInPlaceImplements ==
  ASSUME IInv, IInv', NEW t \in Task, EditInPlace(t)
  PROVE  Values!Perform(t)
<1> PICK o : o = call[t].new
  OBVIOUS
<1> PICK s : s = call[t].self
  OBVIOUS
<1>1. /\ call[t].pc = "edit" /\ CallShape(call[t])
      /\ value' = [value EXCEPT ![o] = Result(t)] /\ data' = data
      /\ call'[t] = Idle /\ \A u \in Task \ {t} : call'[u] = call[u]
  BY DEF EditInPlace, IInv, TypeOK, CallShapes
<1>2. /\ s \in Var /\ \A u \in Task \ {t} : s \notin {call[u].self, call[u].item}
      /\ \A x \in Var \ {s} : data[x] # o
      /\ \A u \in Task \ {t} : call[u].pc = "drop" => call[u].old # o
  BY <1>1, OwnObject, OwnSegment
<1>3. o \in Object /\ data[s] = o
  BY <1>1 DEF CallShape, EditShape
<1>4. \A x \in Object : value'[x] = IF x = o THEN Result(t) ELSE value[x]
  BY <1>1 DEF IInv, TypeOK
<1>5. Idle.self = Null /\ Idle.pc = "idle"
  BY DEF Idle
<1>6. Concerns(t, s)
  BY <1>1, <1>2, <1>4, <1>5 DEF Concerns, Text
<1>7. Waiting(t) /\ ~Sharing(t) /\ ~Waiting(t)'
  BY <1>1, <1>5 DEF Waiting, Sharing
<1>8. AbstractVal'[s] = Result(t)
  <2>1. \A u \in Task : call'[u].self # s
    BY <1>1, <1>2, <1>5, ConstantsAssumption
  <2>2. AbstractVal'[s] = ValueAt(data[s])'
    BY <1>2, <2>1, UnwrittenNext
  <2> QED  BY <1>1, <1>3, <1>4, <2>2, ConstantsAssumption DEF ValueAt, Text
<1> QED  BY <1>1, <1>2, <1>5, <1>6, <1>7, <1>8, Performs DEF Pend

\* The text is stored into the new segment, which becomes the object's.
LEMMA CopyOutImplements ==
  ASSUME IInv, IInv', NEW t \in Task, CopyOut(t)
  PROVE  Values!Perform(t)
<1> PICK c : c = call[t]
  OBVIOUS
<1> PICK o : o = c.new
  OBVIOUS
<1> PICK s : s = c.self
  OBVIOUS
<1> PICK r : r = IF c.old \in Object THEN [c EXCEPT !.pc = "drop"] ELSE Idle
  OBVIOUS
<1>1. /\ c.pc = "copy" /\ CallShape(c) /\ c \in Calls
      /\ value' = [value EXCEPT ![o] = Result(t)] /\ data' = [data EXCEPT ![s] = o]
      /\ call'[t] = r /\ \A u \in Task \ {t} : call'[u] = call[u]
  BY DEF CopyOut, IInv, TypeOK, CallShapes
<1>2. /\ s \in Var /\ \A u \in Task \ {t} : s \notin {call[u].self, call[u].item}
      /\ \A x \in Var \ {s} : data[x] # o
      /\ \A u \in Task \ {t} : call[u].pc = "drop" => call[u].old # o
  BY <1>1, OwnObject, OwnSegment
<1>3. o \in Object /\ \A x \in Var : data'[x] = IF x = s THEN o ELSE data[x]
  BY <1>1 DEF CallShape, CopyShape, IInv, TypeOK
<1>4. \A x \in Object : value'[x] = IF x = o THEN Result(t) ELSE value[x]
  BY <1>1 DEF IInv, TypeOK
<1>5. r.self \in {s, Null} /\ r.pc \in {"drop", "idle"} /\ (r.self = s \/ r.pc = "idle")
  BY <1>1 DEF Idle, Calls
<1>6. Concerns(t, s)
  BY <1>1, <1>2, <1>3, <1>4, <1>5 DEF Concerns, Text
<1>7. Waiting(t) /\ ~Sharing(t)
  BY <1>1 DEF Waiting, Sharing
<1>8. ~Waiting(t)' /\ ~Sharing(t)'
  <2>1. r.pc = "drop" => data'[r.self] # Null
    BY <1>2, <1>3, <1>5, ConstantsAssumption
  <2> QED  BY <1>1, <1>5, <2>1 DEF Waiting, Sharing
<1>9. AbstractVal'[s] = Result(t)
  <2>1. AbstractVal'[s] = ValueAt(data[s])'
    <3>1. CASE r.self = s
      <4>3. call'[t].self = s
        BY <1>1, <3>1
      <4>1. AbstractVal'[s] = Held(t)'
        BY <1>2, <4>3, WrittenNext
      <4>2. Held(t)' = ValueAt(data[call[t].self])'
        BY <1>8 DEF Held
      <4>4. ValueAt(data[call[t].self])' = ValueAt(data[s])'
        BY ONLY <4>3 DEF ValueAt, Text
      <4> QED  BY <4>1, <4>2, <4>4
    <3>2. CASE r.self # s
      <4>1. \A u \in Task : call'[u].self # s
        BY <1>1, <1>2, <3>2
      <4> QED  BY <1>2, <4>1, UnwrittenNext
    <3> QED  BY <3>1, <3>2
  <2> QED  BY <1>2, <1>3, <1>4, <2>1, ConstantsAssumption DEF ValueAt, Text
<1> QED  BY <1>1, <1>2, <1>5, <1>6, <1>7, <1>8, <1>9, Performs DEF Pend

\* What Append (Code) would have stored.
LEMMA AppendResult ==
  ASSUME NEW s \in Seq(Char), NEW ch \in Char, NEW e,
         e.first = Len(s), e.size = 0
  PROVE  Spliced(s, e, <<ch>>) = Append(s, ch)
<1>1. SubSeq(s, 1, e.first) = s /\ SubSeq(s, e.first + e.size + 1, Len(s)) = <<>>
  OBVIOUS
<1>2. s \o <<ch>> \o <<>> = Append(s, ch)
  OBVIOUS
<1> QED  BY <1>1, <1>2 DEF Spliced

\* An Append left by Constraint_Error has changed nothing.
LEMMA RaiseInAppendImplements ==
  ASSUME IInv, IInv', NEW t \in Task, RaiseInAppend(t)
  PROVE  Values!Fail(t)
<1> PICK c : c = call[t]
  OBVIOUS
<1> PICK s : s = c.self
  OBVIOUS
<1> PICK r : r = [Idle EXCEPT !.pc = "raised", !.new = c.new]
  OBVIOUS
<1>1. /\ c.pc = "copy" /\ CallShape(c) /\ EditFits(c) /\ c \in Calls
      /\ c.edit.kind = "append"
      /\ data' = data /\ value' = value
      /\ call'[t] = r /\ \A u \in Task \ {t} : call'[u] = call[u]
  BY DEF RaiseInAppend, CopyFits, heap, IInv, TypeOK, CallShapes, EditsFit
<1>2. s \in Var /\ \A u \in Task \ {t} : s \notin {call[u].self, call[u].item}
  BY <1>1, OwnObject
<1>3. r.pc = "raised" /\ r.self = Null
  BY DEF Idle
<1>4. Concerns(t, s)
  BY <1>1, <1>2, <1>3 DEF Concerns, Text
<1>5. Waiting(t) /\ ~Sharing(t) /\ ~Waiting(t)' /\ ~Sharing(t)'
  BY <1>1, <1>3 DEF Waiting, Sharing
<1>6. /\ c.item = Null /\ c.from = data[s] /\ data[s] # Null
      /\ c.edit.first = Len(Text(data[s])) /\ c.edit.size = 0
      /\ \E ch \in Char : c.edit.code = <<ch>>
  BY <1>1, ConstantsAssumption DEF EditFits, CallShape, CopyShape
<1> PICK ch \in Char : c.edit.code = <<ch>>
  BY <1>6
<1>7. Text(data[s]) \in Texts /\ Text(data[s]) # Null
  <2>1. data[s] \in Ref
    BY <1>2 DEF IInv, TypeOK
  <2> QED  BY <2>1, TextType, ConstantsAssumption DEF IInv, Texts
<1>8. AbstractVal[s] = Text(data[s])
  <2>1. AbstractVal[s] = Held(t)
    BY <1>2, ValuesAreRead DEF ValuesRead
  <2> QED  BY <1>5, <1>6, <2>1 DEF Held, ValueAt
<1>9. AbstractVal'[s] = AbstractVal[s]
  <2>1. \A u \in Task : call'[u].self # s
    BY <1>1, <1>2, <1>3, ConstantsAssumption
  <2>2. AbstractVal'[s] = ValueAt(data[s])'
    BY <1>2, <2>1, UnwrittenNext
  <2> QED  BY <1>1, <1>6, <1>8, <2>2 DEF ValueAt, Text
<1>10. Result(t) = Append(AbstractVal[s], ch)
  <2>1. Result(t) = Spliced(Text(data[s]), c.edit, <<ch>>)
    BY <1>1, <1>6 DEF Result
  <2> QED  BY <1>6, <1>7, <1>8, <2>1, AppendResult DEF Texts
<1>11. Pend(t) = [self |-> s, result |-> Append(AbstractVal[s], ch)]
  BY <1>5, <1>10 DEF Pend
<1>12. Pend(t)' = [self |-> Null, result |-> Null]
  BY <1>1, <1>3, <1>5 DEF Pend
<1>13. Values!InScope(s)
  BY <1>7, <1>8 DEF Values!InScope
<1> QED  BY <1>2, <1>4, <1>9, <1>11, <1>12, <1>13, Fails

\* The old segment is given up: an object that shares a segment has its value.
LEMMA DereferenceImplements ==
  ASSUME IInv, IInv', NEW t \in Task, Dereference(t)
  PROVE  Values!Perform(t) \/ UNCHANGED Values!vars
<1> PICK c : c = call[t]
  OBVIOUS
<1> PICK s : s = c.self
  OBVIOUS
<1> PICK r : r = IF counter[c.old] = 1 THEN [c EXCEPT !.pc = "free"] ELSE Continue(c)
  OBVIOUS
<1>1. /\ c.pc = "drop" /\ CallShape(c) /\ c \in Calls
      /\ value' = value /\ data' = data
      /\ call'[t] = r /\ \A u \in Task \ {t} : call'[u] = call[u]
  BY DEF Dereference, IInv, TypeOK, CallShapes
<1>2. s \in Var /\ \A u \in Task \ {t} : s \notin {call[u].self, call[u].item}
  BY <1>1, OwnObject
<1>3. /\ data[s] = Null => r.pc \in {"free", "bind"} /\ r.self = s /\ r.new = c.new
                            /\ r.old = c.old
      /\ data[s] # Null => (r.pc = "free" /\ r.self = s) \/ (r.pc = "idle" /\ r.self = Null)
  BY <1>1 DEF Continue, Idle, Calls
<1>4. c.old \in Object
  BY <1>1 DEF CallShape, ReleaseShape, IInv, TypeOK
<1>5. Concerns(t, s)
  BY <1>1, <1>2, <1>3 DEF Concerns, Text
<1>6. CASE data[s] = Null
  <2>1. Waiting(t) /\ Sharing(t) /\ Sharing(t)' /\ ~Waiting(t)'
    BY <1>1, <1>3, <1>4, <1>6 DEF Waiting, Sharing
  <2>2. AbstractVal'[s] = Held(t)'
    BY <1>1, <1>2, <1>3, <1>6, WrittenNext
  <2>3. Held(t)' = ValueAt(call[t].new)'
    BY <2>1 DEF Held
  <2>4. ValueAt(call[t].new)' = ValueAt(c.new)
    <3>1. call'[t].new = c.new /\ value' = value
      BY <1>1, <1>3, <1>6
    <3> QED  BY ONLY <3>1 DEF ValueAt, Text
  <2>5. Values!Perform(t)
    BY <1>1, <1>2, <1>3, <1>5, <1>6, <2>1, <2>2, <2>3, <2>4, Performs DEF Pend
  <2> QED  BY <2>5
<1>7. CASE data[s] # Null
  <2>1. ~Waiting(t) /\ ~Sharing(t) /\ ~Sharing(t)' /\ ~Waiting(t)'
    BY <1>1, <1>3, <1>7 DEF Waiting, Sharing
  <2>2. AbstractVal[s] = ValueAt(data[s])
    <3>1. AbstractVal[s] = Held(t)
      BY <1>2, ValuesAreRead DEF ValuesRead
    <3> QED  BY <2>1, <3>1 DEF Held
  <2>3. AbstractVal'[s] = ValueAt(data[s])'
    <3>1. CASE r.self = s
      <4>3. call'[t].self = s
        BY <1>1, <3>1
      <4>1. AbstractVal'[s] = Held(t)'
        BY <1>2, <4>3, WrittenNext
      <4>2. Held(t)' = ValueAt(data[call[t].self])'
        BY <2>1 DEF Held
      <4>4. ValueAt(data[call[t].self])' = ValueAt(data[s])'
        BY ONLY <4>3 DEF ValueAt, Text
      <4> QED  BY <4>1, <4>2, <4>4
    <3>2. CASE r.self # s
      <4>1. \A u \in Task : call'[u].self # s
        BY <1>1, <1>2, <3>2
      <4> QED  BY <1>2, <4>1, UnwrittenNext
    <3> QED  BY <3>1, <3>2
  <2>4. ValueAt(data[s])' = ValueAt(data[s])
    BY <1>1 DEF ValueAt, Text
  <2>5. Pend(t)' = Pend(t)
    BY <1>1, <1>3, <1>7, <2>1, PendQuiet
  <2> QED  BY <1>2, <1>5, <2>2, <2>3, <2>4, <2>5, Stutters
<1> QED  BY <1>6, <1>7

\* The old segment is deallocated, which does not show: nobody has it.
LEMMA FreeImplements ==
  ASSUME IInv, IInv', NEW t \in Task, Free(t)
  PROVE  UNCHANGED Values!vars
<1> PICK c : c = call[t]
  OBVIOUS
<1> PICK s : s = c.self
  OBVIOUS
<1> PICK r : r = Continue(c)
  OBVIOUS
<1>1. /\ c.pc = "free" /\ CallShape(c) /\ c \in Calls
      /\ value' = [value EXCEPT ![c.old] = <<>>] /\ data' = data
      /\ call'[t] = r /\ \A u \in Task \ {t} : call'[u] = call[u]
  BY DEF Free, IInv, TypeOK, CallShapes
<1>2. s \in Var /\ \A u \in Task \ {t} : s \notin {call[u].self, call[u].item}
  BY <1>1, OwnObject
<1>3. /\ data[s] = Null => r.pc = "bind" /\ r.self = s /\ r.new = c.new /\ r.old = c.old
      /\ data[s] # Null => r.pc = "idle" /\ r.self = Null
  BY <1>1 DEF Continue, Idle, Calls
<1>4. c.old \in Object /\ Holders(c.old) = {}
  <2>1. c.old \in live /\ counter[c.old] = 0
    BY <1>1 DEF CallShape, ReleaseShape
  <2> QED  BY <2>1, NoHolder DEF IInv, TypeOK
<1>5. /\ \A x \in Var : data[x] # c.old
      /\ \A u \in Task : call[u].pc = "drop" => call[u].old # c.old
  BY <1>4 DEF Holders
<1>6. \A x \in Object : x # c.old => value'[x] = value[x]
  BY <1>1 DEF IInv, TypeOK
<1>7. \A x \in Var : ValueAt(data[x])' = ValueAt(data[x])
  BY <1>1, <1>5, <1>6 DEF ValueAt, Text
<1>8. Concerns(t, s)
  BY <1>1, <1>2, <1>3, <1>5, <1>6 DEF Concerns, Text
<1>9. CASE data[s] = Null
  <2>1. ~Waiting(t) /\ Sharing(t) /\ Sharing(t)' /\ ~Waiting(t)'
    BY <1>1, <1>3, <1>4, <1>9 DEF Waiting, Sharing
  <2>2. AbstractVal[s] = ValueAt(c.new)
    <3>1. AbstractVal[s] = Held(t)
      BY <1>2, ValuesAreRead DEF ValuesRead
    <3> QED  BY <2>1, <3>1 DEF Held
  <2>3. AbstractVal'[s] = ValueAt(call[t].new)'
    <3>1. AbstractVal'[s] = Held(t)'
      BY <1>1, <1>2, <1>3, <1>9, WrittenNext
    <3> QED  BY <2>1, <3>1 DEF Held
  <2>4. c.new # c.old
    <3>1. c.new \in {Empty, Null} \/ (c.item \in Var /\ c.new = data[c.item])
      BY <1>1, <1>9 DEF CallShape, TargetShape
    <3> QED  BY <1>4, <1>5, <3>1, ConstantsAssumption
  <2>5. ValueAt(call[t].new)' = ValueAt(c.new)
    <3>1. call'[t].new = c.new /\ (c.new \in Object => value'[c.new] = value[c.new])
      BY <1>1, <1>3, <1>6, <1>9, <2>4
    <3> QED  BY ONLY <3>1 DEF ValueAt, Text
  <2>6. Pend(t)' = Pend(t)
    BY <1>1, <1>3, <1>9, <2>1, PendQuiet
  <2> QED  BY <1>8, <2>2, <2>3, <2>5, <2>6, Stutters
<1>10. CASE data[s] # Null
  <2>1. ~Waiting(t) /\ ~Sharing(t) /\ ~Waiting(t)'
    BY <1>1, <1>3, <1>10 DEF Waiting, Sharing
  <2>2. AbstractVal[s] = ValueAt(data[s])
    <3>1. AbstractVal[s] = Held(t)
      BY <1>2, ValuesAreRead DEF ValuesRead
    <3> QED  BY <2>1, <3>1 DEF Held
  <2>3. AbstractVal'[s] = ValueAt(data[s])'
    <3>1. \A u \in Task : call'[u].self # s
      BY <1>1, <1>2, <1>3, <1>10, ConstantsAssumption
    <3> QED  BY <1>2, <3>1, UnwrittenNext
  <2>4. Pend(t)' = Pend(t)
    BY <1>1, <1>3, <1>10, <2>1, PendQuiet
  <2> QED  BY <1>2, <1>7, <1>8, <2>2, <2>3, <2>4, Stutters
<1> QED  BY <1>9, <1>10

\* The object is assigned: it takes its new value, unless it did when its old
\* segment was given up.
LEMMA ReferenceImplements ==
  ASSUME IInv, IInv', NEW t \in Task, Reference(t)
  PROVE  Values!Perform(t) \/ UNCHANGED Values!vars
<1> PICK c : c = call[t]
  OBVIOUS
<1> PICK s : s = c.self
  OBVIOUS
<1>1. /\ c.pc = "bind" /\ CallShape(c) /\ c \in Calls
      /\ value' = value /\ data' = [data EXCEPT ![s] = c.new]
      /\ call'[t] = Idle /\ \A u \in Task \ {t} : call'[u] = call[u]
  BY DEF Reference, IInv, TypeOK, CallShapes
<1>2. s \in Var /\ \A u \in Task \ {t} : s \notin {call[u].self, call[u].item}
  BY <1>1, OwnObject
<1>3. Idle.self = Null /\ Idle.pc = "idle"
  BY DEF Idle
<1>4. \A x \in Var : data'[x] = IF x = s THEN c.new ELSE data[x]
  BY <1>1 DEF IInv, TypeOK
<1>5. Concerns(t, s)
  BY <1>1, <1>2, <1>3, <1>4 DEF Concerns, Text
<1>6. Sharing(t) /\ ~Waiting(t)'
  BY <1>1, <1>3 DEF Waiting, Sharing, CallShape, ReleaseShape
<1>7. AbstractVal'[s] = ValueAt(c.new)
  <2>1. \A u \in Task : call'[u].self # s
    BY <1>1, <1>2, <1>3, ConstantsAssumption
  <2>2. AbstractVal'[s] = ValueAt(data[s])'
    BY <1>2, <2>1, UnwrittenNext
  <2>3. data'[s] = c.new /\ value' = value
    BY <1>1, <1>2, <1>4
  <2>4. ValueAt(data[s])' = ValueAt(c.new)
    BY ONLY <2>3 DEF ValueAt, Text
  <2> QED  BY <2>2, <2>4
<1>8. CASE Waiting(t)
  <2>1. Values!Perform(t)
    BY <1>1, <1>2, <1>3, <1>5, <1>6, <1>7, <1>8, Performs DEF Pend
  <2> QED  BY <2>1
<1>9. CASE ~Waiting(t)
  <2>1. AbstractVal[s] = ValueAt(c.new)
    <3>1. AbstractVal[s] = Held(t)
      BY <1>2, ValuesAreRead DEF ValuesRead
    <3> QED  BY <1>6, <1>9, <3>1 DEF Held
  <2>2. Pend(t)' = Pend(t)
    BY <1>1, <1>3, <1>6, <1>9, PendQuiet
  <2> QED  BY <1>5, <1>7, <2>1, <2>2, Stutters
<1> QED  BY <1>8, <1>9

\* Publishing an index map does not show.
LEMMA PublishIndexMapImplements ==
  ASSUME IInv, IInv', NEW t \in Task, PublishIndexMap(t)
  PROVE  UNCHANGED Values!vars
<1>1. /\ call[t].pc = "publish" /\ call'[t] = Idle
      /\ \A u \in Task \ {t} : call'[u] = call[u]
      /\ data' = data /\ value' = value
  BY DEF PublishIndexMap, IInv, TypeOK
<1>2. Idle.self = Null /\ Idle.pc = "idle"
  BY DEF Idle
<1>3. Concerns(t, Null)
  BY <1>1, <1>2, ConstantsAssumption
  DEF Concerns, Text, IInv, CallShapes, CallShape, PublishShape
<1>4. Pend(t)' = Pend(t)
  BY <1>1, <1>2 DEF Pend, Waiting
<1> QED  BY <1>3, <1>4, ConstantsAssumption, Stutters

-----------------------------------------------------------------------------
(***************************************************************************)
(* The refinement.                                                         *)
(***************************************************************************)

\* No object is in scope at first, and no call is running.
LEMMA InitImplements == Init => Values!Init
<1> SUFFICES ASSUME Init PROVE Values!Init
  OBVIOUS
<1>1. \A t \in Task : call[t].pc = "idle"
  BY DEF Init, Idle
<1>2. \A t \in Task : ~Waiting(t) /\ ~Sharing(t)
  BY <1>1 DEF Waiting, Sharing
<1>3. AbstractVal = [v \in Var |-> Null]
  BY <1>2 DEF AbstractVal, Init, ValueAt
<1> QED  BY <1>1, <1>2, <1>3 DEF Values!Init, Values!NoCall

\* Every step is a step of the values or does not show.
LEMMA NextImplements ==
  ASSUME ~SelfReplace, IInv, IInv', [Next]_vars
  PROVE  [Values!Next]_(Values!vars)
<1>1. CASE UNCHANGED vars
  <2>1. data' = data /\ value' = value /\ call' = call
    BY <1>1 DEF vars, heap
  <2>2. AbstractVal' = AbstractVal
    BY <2>1 DEF AbstractVal, ValueAt, Text, Waiting, Sharing
  <2>3. [t \in Task |-> Pend(t)]' = [t \in Task |-> Pend(t)]
    BY <2>1 DEF Pend, ValueAt, Text, Waiting, Sharing, Result
  <2> QED  BY <2>2, <2>3 DEF Values!vars, Pend
<1>2. ASSUME NEW t \in Task, Start(t) PROVE [Values!Next]_(Values!vars)
  BY <1>2, StartImplements
<1>3. ASSUME NEW t \in Task, Step(t) PROVE [Values!Next]_(Values!vars)
  <2>1. CASE RaiseInAppend(t)
    BY <2>1, RaiseInAppendImplements DEF Values!Next
  <2>2. CASE EditInPlace(t) \/ CopyOut(t)
    BY <2>2, EditInPlaceImplements, CopyOutImplements DEF Values!Next
  <2>3. CASE Dereference(t) \/ Reference(t)
    BY <2>3, DereferenceImplements, ReferenceImplements DEF Values!Next
  <2>4. CASE Free(t) \/ PublishIndexMap(t)
    BY <2>4, FreeImplements, PublishIndexMapImplements
  <2> QED  BY <1>3, <2>1, <2>2, <2>3, <2>4 DEF Step
<1> QED  BY <1>1, <1>2, <1>3 DEF Next

\* Copy-on-write is invisible: the shared segments implement independent values,
\* each call on an object taking effect at once and on it alone, or, when it is
\* an Append that raises, not at all, whatever the tasks do at the same time.
THEOREM ValuesAreImplemented ==
  ASSUME ~SelfReplace
  PROVE  Spec => ImplementsValues
<1>1. Init => Values!Init
  BY InitImplements
<1>2. IInv /\ IInv' /\ [Next]_vars => [Values!Next]_(Values!vars)
  BY NextImplements
<1> QED  BY <1>1, <1>2, Invariance, PTL DEF Spec, ImplementsValues, Values!Spec
=============================================================================
