------------------------- MODULE VectorStringsProofs -------------------------
(***************************************************************************)
(* Proofs about the strings of StringVectors and about the values of its   *)
(* objects, for any number of tasks, objects, vectors and strings.         *)
(*                                                                         *)
(* StringsInv, about the counters of the strings, follows step by step     *)
(* from how a step changes the places of the vectors that count for a      *)
(* string: none, one more, one less, or all of them moved.                 *)
(***************************************************************************)
EXTENDS VectorsRefinement, StringVectorsProofs, FunctionTheorems, SequenceTheorems

-----------------------------------------------------------------------------
(***************************************************************************)
(* The places that count for a string.                                     *)
(***************************************************************************)

\* String s is at place k of vector o.
Has(s, o, k) == k \in 1 .. Len(value[o]) /\ value[o][k] = s

\* The call c leaves that place counted.
Counts(c, s, o, k) == Has(s, o, k) /\ ~Uncounted(c, o, k)

\* A call of another task than t does not count place k of vector o.
Loose(t, o, k) == \E u \in Task \ {t} : Uncounted(call[u], o, k)

\* The places of a string are finitely many.
LEMMA PlacesFinite ==
  ASSUME NEW s
  PROVE  IsFiniteSet(Places(s)) /\ Cardinality(Places(s)) \in Nat
<1>1. IsFiniteSet(1 .. MaxLength)
  BY VectorsAssumption, FS_Interval
<1>2. IsFiniteSet(Cell \X (1 .. MaxLength))
  BY <1>1, VectorsAssumption, FS_Product
<1>3. Places(s) \subseteq Cell \X (1 .. MaxLength)
  BY DEF Places
<1> QED  BY <1>2, <1>3, FS_Subset, FS_CardinalityType

\* Which places count for a string.
LEMMA PlacesNow ==
  ASSUME VectorsInv, NEW t \in Task, NEW s
  PROVE  /\ Places(s) \subseteq Cell \X (1 .. MaxLength)
         /\ \A o \in Cell, k \in 1 .. MaxLength :
              <<o, k>> \in Places(s) <=> Counts(call[t], s, o, k) /\ ~Loose(t, o, k)
<1>1. Places(s) \subseteq Cell \X (1 .. MaxLength)
  BY DEF Places
<1>2. ASSUME NEW o \in Cell, NEW k \in 1 .. MaxLength
      PROVE  <<o, k>> \in Places(s) <=> Counts(call[t], s, o, k) /\ ~Loose(t, o, k)
  <2>1. <<o, k>> \in Places(s) <=>
          k <= Len(value[o]) /\ value[o][k] = s /\ \A u \in Task : ~Uncounted(call[u], o, k)
    BY DEF Places
  <2>2. k \in 1 .. Len(value[o]) <=> k <= Len(value[o])
    <3>1. Len(value[o]) \in Nat
      BY DEF VectorsInv, Typed
    <3> QED  BY <3>1, VectorsAssumption
  <2>3. (\A u \in Task : ~Uncounted(call[u], o, k)) <=>
          ~Uncounted(call[t], o, k) /\ ~Loose(t, o, k)
    BY DEF Loose
  <2> QED  BY <2>1, <2>2, <2>3 DEF Counts, Has
<1> QED  BY <1>1, <1>2

\* A call that leaves a place uncounted reads the vector and relies on its
\* counter.
LEMMA UncountedOwns ==
  ASSUME VectorsInv, NEW u \in Task, NEW o \in Cell, NEW k, Uncounted(call[u], o, k)
  PROVE  /\ Reads(call[u], o) /\ Relies(call[u], o)
         /\ call[u].pc \in {"strings", "free"} \/ call[u].op \in Edits
<1> PICK c : c = call[u]
  OBVIOUS
<1>0. c \in Calls /\ EditShape(c)
  BY DEF VectorsInv, Typed, CallShapes, CallShape
<1>1. CASE c.pc \in {"look", "move", "copy", "spread", "refer"} /\ data[c.self] = o
  <2>1. c.op \in Edits /\ c.pc # "detach"
    BY <1>0, <1>1 DEF EditShape
  <2> QED  BY <1>1, <2>1 DEF Reads, Relies
<1>2. CASE c.pc \in {"strings", "free"} /\ c.source = o
  BY <1>2 DEF Reads, Relies, Leaving
<1> QED  BY <1>1, <1>2 DEF Uncounted

\* A step that leaves the other calls alone leaves alone what they count.
LEMMA LooseKept ==
  ASSUME VectorsInv, NEW t \in Task, NEW r, call' = [call EXCEPT ![t] = r], Others(t),
         NEW o \in Cell, NEW k
  PROVE  Loose(t, o, k)' <=> Loose(t, o, k)
<1> SUFFICES ASSUME NEW u \in Task \ {t}
             PROVE  Uncounted(call[u], o, k)' <=> Uncounted(call[u], o, k)
  BY DEF Loose
<1> PICK c : c = call[u]
  OBVIOUS
<1>1. call'[u] = c /\ Undisturbed(c)
  BY DEF VectorsInv, Typed, Others
<1>2. c \in Calls /\ OperandShape(c) /\ EditShape(c) /\ SourceShape(c) /\ StoredShape(c)
  BY DEF VectorsInv, Typed, CallShapes, CallShape
<1>3. CASE c.pc \in {"look", "move", "copy", "spread", "refer"}
  <2>1. c.op \in Edits /\ c.self \in Vector
    BY <1>2, <1>3 DEF EditShape, OperandShape
  <2>2. data'[c.self] = data[c.self]
    BY <1>1, <2>1 DEF Undisturbed
  <2>3. data[c.self] = o => value'[o] = value[o]
    BY <1>1, <2>1 DEF Undisturbed, Reads, Same
  <2>4. c.pc = "spread" => value'[c.other] = value[c.other]
    <3>1. c.pc = "spread" => c.op = "prepend" /\ c.other \in Cell
      BY <1>2 DEF EditShape
    <3> QED  BY <1>1, <3>1 DEF Undisturbed, Reads, Same
  <2> QED  BY <1>1, <1>3, <2>2, <2>3, <2>4 DEF Uncounted
<1>4. CASE c.pc \notin {"look", "move", "copy", "spread", "refer"}
  BY <1>1, <1>4 DEF Uncounted
<1> QED  BY <1>3, <1>4

\* Which places count for a string in the next state.
LEMMA PlacesNext ==
  ASSUME VectorsInv, VectorsInv', NEW t \in Task, NEW r, call' = [call EXCEPT ![t] = r],
         Others(t), NEW s
  PROVE  /\ Places(s)' \subseteq Cell \X (1 .. MaxLength)
         /\ \A o \in Cell, k \in 1 .. MaxLength :
              <<o, k>> \in Places(s)' <=> Counts(r, s, o, k)' /\ ~Loose(t, o, k)
<1>1. Places(s)' \subseteq Cell \X (1 .. MaxLength)
  BY DEF Places
<1>2. ASSUME NEW o \in Cell, NEW k \in 1 .. MaxLength
      PROVE  <<o, k>> \in Places(s)' <=> Counts(r, s, o, k)' /\ ~Loose(t, o, k)
  <2>1. <<o, k>> \in Places(s)' <=>
          /\ k <= Len(value'[o]) /\ value'[o][k] = s
          /\ \A u \in Task : ~Uncounted(call[u], o, k)'
    BY DEF Places
  <2>2. k \in 1 .. Len(value'[o]) <=> k <= Len(value'[o])
    <3>1. Len(value'[o]) \in Nat
      BY DEF VectorsInv, Typed
    <3> QED  BY <3>1, VectorsAssumption
  <2>3. (\A u \in Task : ~Uncounted(call[u], o, k)') <=>
          ~Uncounted(call[t], o, k)' /\ ~Loose(t, o, k)'
    BY DEF Loose
  <2>4. Uncounted(call[t], o, k)' <=> Uncounted(r, o, k)'
    <3>1. call'[t] = r
      BY DEF VectorsInv, Typed
    <3> QED  BY <3>1 DEF Uncounted
  <2>5. Loose(t, o, k)' <=> Loose(t, o, k)
    BY LooseKept
  <2> QED  BY <2>1, <2>2, <2>3, <2>4, <2>5 DEF Counts, Has
<1> QED  BY <1>1, <1>2

\* What a call counts lies within the bounds.
LEMMA CountsWithin ==
  ASSUME VectorsInv, NEW c, NEW s, NEW o \in Cell, NEW k, Counts(c, s, o, k)
  PROVE  k \in 1 .. MaxLength
<1>1. k \in 1 .. Len(value[o]) /\ Len(value[o]) \in Nat /\ Len(value[o]) <= MaxLength
  BY DEF Counts, Has, VectorsInv, Typed, LengthsBounded
<1> QED  BY <1>1, VectorsAssumption

\* In the next state too.
LEMMA CountsWithinNext ==
  ASSUME VectorsInv', NEW c, NEW s, NEW o \in Cell, NEW k, Counts(c, s, o, k)'
  PROVE  k \in 1 .. MaxLength
<1>1. k \in 1 .. Len(value'[o]) /\ Len(value'[o]) \in Nat /\ Len(value'[o]) <= MaxLength
  BY DEF Counts, Has, VectorsInv, Typed, LengthsBounded
<1> QED  BY <1>1, VectorsAssumption

\* Two sets of places with the same vectors and indices are one.
LEMMA SamePlaces ==
  ASSUME NEW P, NEW Q, P \subseteq Cell \X (1 .. MaxLength),
         Q \subseteq Cell \X (1 .. MaxLength),
         \A o \in Cell, k \in 1 .. MaxLength : <<o, k>> \in P <=> <<o, k>> \in Q
  PROVE  P = Q
<1>1. ASSUME NEW p \in Cell \X (1 .. MaxLength) PROVE p \in P <=> p \in Q
  <2>1. p = <<p[1], p[2]>> /\ p[1] \in Cell /\ p[2] \in 1 .. MaxLength
    OBVIOUS
  <2> QED  BY <2>1
<1> QED  BY <1>1

\* Where a step of t leaves every place of s counted or not, as it was.
LEMMA PlacesKept ==
  ASSUME VectorsInv, VectorsInv', NEW t \in Task, NEW r, call' = [call EXCEPT ![t] = r],
         Others(t), NEW s,
         \A o \in Cell, k \in 1 .. MaxLength :
           Counts(r, s, o, k)' <=> Counts(call[t], s, o, k)
  PROVE  Places(s)' = Places(s)
<1>1. \A o \in Cell, k \in 1 .. MaxLength : <<o, k>> \in Places(s)' <=> <<o, k>> \in Places(s)
  BY PlacesNow, PlacesNext
<1>2. /\ Places(s) \subseteq Cell \X (1 .. MaxLength)
      /\ Places(s)' \subseteq Cell \X (1 .. MaxLength)
  BY PlacesNow, PlacesNext
<1> PICK P, Q : P = Places(s) /\ Q = Places(s)'
  OBVIOUS
<1>3. P = Q
  BY <1>1, <1>2, SamePlaces
<1> QED  BY <1>3

\* Where it makes one more place of s count, in a vector that no other call
\* leaves uncounted places of.
LEMMA PlaceAdded ==
  ASSUME VectorsInv, VectorsInv', NEW t \in Task, NEW r, call' = [call EXCEPT ![t] = r],
         Others(t), NEW s, NEW o \in Cell, NEW k, ~Loose(t, o, k),
         ~Counts(call[t], s, o, k), Counts(r, s, o, k)',
         \A x \in Cell, j \in 1 .. MaxLength :
           x # o \/ j # k => (Counts(r, s, x, j)' <=> Counts(call[t], s, x, j))
  PROVE  Cardinality(Places(s)') = Cardinality(Places(s)) + 1
<1>k. k \in 1 .. MaxLength
  BY CountsWithinNext
<1>1. \A x \in Cell, j \in 1 .. MaxLength :
        <<x, j>> \in Places(s)' <=> <<x, j>> \in Places(s) \/ (x = o /\ j = k)
  BY PlacesNow, PlacesNext
<1>2. /\ Places(s) \subseteq Cell \X (1 .. MaxLength)
      /\ Places(s)' \subseteq Cell \X (1 .. MaxLength)
  BY PlacesNow, PlacesNext
<1>3. <<o, k>> \notin Places(s)
  BY <1>k, PlacesNow
<1> PICK P, Q : P = Places(s) /\ Q = Places(s)'
  OBVIOUS
<1> PICK R : R = P \cup {<<o, k>>}
  OBVIOUS
<1>4. Q = R
  <2>1. R \subseteq Cell \X (1 .. MaxLength)
    BY <1>k, <1>2
  <2>2. \A x \in Cell, j \in 1 .. MaxLength : <<x, j>> \in Q <=> <<x, j>> \in R
    BY <1>1
  <2> QED  BY <1>2, <2>1, <2>2, SamePlaces
<1>5. IsFiniteSet(P)
  BY PlacesFinite
<1> QED  BY <1>3, <1>4, <1>5, CardMore

\* Where it makes one place of s count no more.
LEMMA PlaceRemoved ==
  ASSUME VectorsInv, VectorsInv', NEW t \in Task, NEW r, call' = [call EXCEPT ![t] = r],
         Others(t), NEW s, NEW o \in Cell, NEW k, ~Loose(t, o, k),
         Counts(call[t], s, o, k), ~Counts(r, s, o, k)',
         \A x \in Cell, j \in 1 .. MaxLength :
           x # o \/ j # k => (Counts(r, s, x, j)' <=> Counts(call[t], s, x, j))
  PROVE  Cardinality(Places(s)') = Cardinality(Places(s)) - 1
<1>k. k \in 1 .. MaxLength
  BY CountsWithin
<1>1. \A x \in Cell, j \in 1 .. MaxLength :
        <<x, j>> \in Places(s)' <=> <<x, j>> \in Places(s) /\ ~(x = o /\ j = k)
  BY PlacesNow, PlacesNext
<1>2. /\ Places(s) \subseteq Cell \X (1 .. MaxLength)
      /\ Places(s)' \subseteq Cell \X (1 .. MaxLength)
  BY PlacesNow, PlacesNext
<1>3. <<o, k>> \in Places(s)
  BY <1>k, PlacesNow
<1> PICK P, Q : P = Places(s) /\ Q = Places(s)'
  OBVIOUS
<1> PICK R : R = P \ {<<o, k>>}
  OBVIOUS
<1>4. Q = R
  <2>1. R \subseteq Cell \X (1 .. MaxLength)
    BY <1>2
  <2>2. \A x \in Cell, j \in 1 .. MaxLength : <<x, j>> \in Q <=> <<x, j>> \in R
    BY <1>1
  <2> QED  BY <1>2, <2>1, <2>2, SamePlaces
<1>5. IsFiniteSet(P)
  BY PlacesFinite
<1> QED  BY <1>3, <1>4, <1>5, CardLess

\* The calls c, before a step, and r, after it, count the same places of s, but
\* for the places k and n of vector o.
SameButTwo(c, r, s, o, k, n) ==
  \A x \in Cell, j \in 1 .. MaxLength :
    x # o \/ (j # k /\ j # n) => (Counts(r, s, x, j)' <=> Counts(c, s, x, j))

\* Where one place of s counts instead of another one of the same vector.
LEMMA PlaceSwapped ==
  ASSUME VectorsInv, VectorsInv', NEW t \in Task, NEW r, call' = [call EXCEPT ![t] = r],
         Others(t), NEW s, NEW o \in Cell, NEW k, NEW n, k # n,
         ~Loose(t, o, k), ~Loose(t, o, n),
         Counts(call[t], s, o, k), ~Counts(r, s, o, k)',
         ~Counts(call[t], s, o, n), Counts(r, s, o, n)',
         SameButTwo(call[t], r, s, o, k, n)
  PROVE  Cardinality(Places(s)') = Cardinality(Places(s))
<1>k. k \in 1 .. MaxLength /\ n \in 1 .. MaxLength
  BY CountsWithin, CountsWithinNext
<1>1. \A x \in Cell, j \in 1 .. MaxLength :
        <<x, j>> \in Places(s)' <=> \/ <<x, j>> \in Places(s) /\ ~(x = o /\ j = k)
                                    \/ x = o /\ j = n
  BY PlacesNow, PlacesNext DEF SameButTwo
<1>2. /\ Places(s) \subseteq Cell \X (1 .. MaxLength)
      /\ Places(s)' \subseteq Cell \X (1 .. MaxLength)
  BY PlacesNow, PlacesNext
<1>3. <<o, k>> \in Places(s) /\ <<o, n>> \notin Places(s)
  BY <1>k, PlacesNow
<1> PICK P, Q : P = Places(s) /\ Q = Places(s)'
  OBVIOUS
<1> PICK R : R = (P \ {<<o, k>>}) \cup {<<o, n>>}
  OBVIOUS
<1>4. Q = R
  <2>1. R \subseteq Cell \X (1 .. MaxLength)
    BY <1>k, <1>2
  <2>2. \A x \in Cell, j \in 1 .. MaxLength : <<x, j>> \in Q <=> <<x, j>> \in R
    BY <1>1
  <2> QED  BY <1>2, <2>1, <2>2, SamePlaces
<1>5. IsFiniteSet(P)
  BY PlacesFinite
<1> QED  BY <1>3, <1>4, <1>5, CardSame

\* Two finite sets that functions lead from and to each other have one size.
LEMMA SameSize ==
  ASSUME NEW S, NEW T, IsFiniteSet(S), NEW g, NEW h,
         \A p \in S : g[p] \in T /\ h[g[p]] = p,
         \A q \in T : h[q] \in S /\ g[h[q]] = q
  PROVE  Cardinality(T) = Cardinality(S)
<1> DEFINE f == [p \in S |-> g[p]]
<1>1. f \in [S -> T] /\ \A p \in S : f[p] = g[p]
  OBVIOUS
<1> HIDE DEF f
<1>2. \A a, b \in S : f[a] = f[b] => a = b
  BY <1>1
<1>3. \A q \in T : \E p \in S : f[p] = q
  <2> TAKE q \in T
  <2>1. h[q] \in S /\ f[h[q]] = q
    BY <1>1
  <2> QED  BY <2>1
<1>4. f \in Bijection(S, T)
  BY <1>1, <1>2, <1>3, Fun_IsBij
<1>5. ExistsBijection(S, T)
  BY <1>4 DEF ExistsBijection
<1> QED  BY <1>5, FS_Bijection

-----------------------------------------------------------------------------
(***************************************************************************)
(* What a step does to the counters of the strings.                        *)
(***************************************************************************)

\* The calls that have referenced their item are finitely many.
LEMMA InsertersFinite ==
  ASSUME NEW s
  PROVE  IsFiniteSet(Inserters(s)) /\ Cardinality(Inserters(s)) \in Nat
<1>1. Inserters(s) \subseteq Task
  BY DEF Inserters
<1> QED  BY <1>1, VectorsAssumption, FS_Subset, FS_CardinalityType

\* They are the same when a call goes on.
LEMMA InsertersKept ==
  ASSUME Typed, NEW t \in Task, NEW r, call' = [call EXCEPT ![t] = r], NEW s,
         r.op = "insert" /\ r.item = s <=> call[t].op = "insert" /\ call[t].item = s
  PROVE  Inserters(s)' = Inserters(s)
<1>1. \A u \in Task : call'[u] = IF u = t THEN r ELSE call[u]
  BY DEF Typed
<1>2. \A u \in Task : u \in Inserters(s)' <=> u \in Inserters(s)
  BY <1>1 DEF Inserters
<1>3. Inserters(s) \subseteq Task /\ Inserters(s)' \subseteq Task
  BY DEF Inserters
<1> QED  BY <1>2, <1>3

\* The counter of a string follows its places.
LEMMA StringCounted ==
  ASSUME VectorsInv, StringsInv, NEW s \in String, strings'[s] \in Int,
         Inserters(s)' = Inserters(s), s \in held' <=> s \in held,
         strings'[s] - strings[s] = Cardinality(Places(s)') - Cardinality(Places(s))
  PROVE  strings'[s] = Cardinality(Places(s)') + Cardinality(Inserters(s)')
                         + (IF s \in held' THEN 1 ELSE 0)
<1> PICK a, b : a = strings[s] /\ b = strings'[s]
  OBVIOUS
<1> PICK p, q : p = Cardinality(Places(s)) /\ q = Cardinality(Places(s)')
  OBVIOUS
<1> PICK n, h : n = Cardinality(Inserters(s)) /\ h = IF s \in held THEN 1 ELSE 0
  OBVIOUS
<1>1. a = p + n + h
  BY DEF StringsInv
<1>2. a \in Int /\ b \in Int /\ p \in Nat /\ n \in Nat /\ h \in Nat
  BY PlacesFinite, InsertersFinite DEF VectorsInv, Typed
<1>3. IsFiniteSet(Places(s)') /\ q \in Nat
  <2>1. Places(s)' \subseteq Cell \X (1 .. MaxLength)
    BY DEF Places
  <2>2. IsFiniteSet(1 .. MaxLength)
    BY VectorsAssumption, FS_Interval
  <2>3. IsFiniteSet(Cell \X (1 .. MaxLength))
    BY <2>2, VectorsAssumption, FS_Product
  <2> QED  BY <2>1, <2>3, FS_Subset, FS_CardinalityType
<1>4. b - a = q - p
  OBVIOUS
<1>5. b = q + n + h
  BY ONLY <1>1, <1>2, <1>3, <1>4
<1> QED  BY <1>5

\* The calls c, before a step, and r, after it, count the same places.
AllSame(c, r) ==
  \A s \in String, y \in Cell, j \in 1 .. MaxLength :
    Counts(r, s, y, j)' <=> Counts(c, s, y, j)

\* The calls c, before a step, and r, after it, count the same places, but for
\* place k of vector o, where string x is.
AllSameBut(c, r, x, o, k) ==
  \A s \in String, y \in Cell, j \in 1 .. MaxLength :
    s # x \/ y # o \/ j # k => (Counts(r, s, y, j)' <=> Counts(c, s, y, j))

\* A call that has referenced its item has done so before and after a step.
SameItem(c, r) ==
  r.op = "insert" \/ c.op = "insert" => r.op = c.op /\ r.item = c.item

\* Then the calls that have referenced a string are the same.
LEMMA InsertersSame ==
  ASSUME VectorsInv, NEW t \in Task, NEW r, call' = [call EXCEPT ![t] = r],
         SameItem(call[t], r), NEW s
  PROVE  Inserters(s)' = Inserters(s)
<1>1. Typed
  BY DEF VectorsInv
<1>2. r.op = "insert" /\ r.item = s <=> call[t].op = "insert" /\ call[t].item = s
  BY ONLY SameItem(call[t], r) DEF SameItem
<1> QED  BY ONLY <1>1, <1>2, t \in Task, call' = [call EXCEPT ![t] = r], InsertersKept

\* A step that leaves every place of every string counted or not, as it was,
\* and no counter of a string changed.
LEMMA StringsKept ==
  ASSUME VectorsInv, VectorsInv', StringsInv, NEW t \in Task, NEW r,
         call' = [call EXCEPT ![t] = r], Others(t), UNCHANGED <<strings, held>>,
         SameItem(call[t], r), AllSame(call[t], r)
  PROVE  StringsInv'
<1> SUFFICES ASSUME NEW s \in String
             PROVE  strings'[s] = Cardinality(Places(s)') + Cardinality(Inserters(s)')
                                    + (IF s \in held' THEN 1 ELSE 0)
  BY DEF StringsInv
<1>1. Places(s)' = Places(s)
  BY PlacesKept DEF AllSame
<1>2. Inserters(s)' = Inserters(s)
  BY ONLY VectorsInv, t \in Task, call' = [call EXCEPT ![t] = r], SameItem(call[t], r),
          InsertersSame
<1>3. strings[s] \in Int /\ strings'[s] = strings[s] /\ Cardinality(Places(s)) \in Nat
  BY PlacesFinite DEF VectorsInv, Typed
<1> QED  BY <1>1, <1>2, <1>3, StringCounted

\* A step that references string x when it makes one more place of it count.
LEMMA StringAdded ==
  ASSUME VectorsInv, VectorsInv', StringsInv, NEW t \in Task, NEW r,
         call' = [call EXCEPT ![t] = r], Others(t), SameItem(call[t], r),
         NEW x \in String, strings' = [strings EXCEPT ![x] = @ + 1], UNCHANGED held,
         NEW o \in Cell, NEW k, ~Loose(t, o, k),
         ~Counts(call[t], x, o, k), Counts(r, x, o, k)',
         AllSameBut(call[t], r, x, o, k)
  PROVE  StringsInv'
<1> DEFINE Exact(s) == strings'[s] = Cardinality(Places(s)') + Cardinality(Inserters(s)')
                                        + (IF s \in held' THEN 1 ELSE 0)
<1>1. /\ VectorsInv /\ VectorsInv' /\ t \in Task /\ call' = [call EXCEPT ![t] = r] /\ Typed
      /\ Others(t) /\ o \in Cell /\ ~Loose(t, o, k) /\ SameItem(call[t], r)
      /\ ~Counts(call[t], x, o, k) /\ Counts(r, x, o, k)'
  BY DEF VectorsInv
<1>2. ASSUME NEW s \in String PROVE Inserters(s)' = Inserters(s)
  BY ONLY <1>1, InsertersSame
<1>3. strings \in [String -> Int] /\ \A s \in String : Cardinality(Places(s)) \in Nat
  BY PlacesFinite DEF VectorsInv, Typed
<1>4. Exact(x)
  <2>1. \A y \in Cell, j \in 1 .. MaxLength :
          y # o \/ j # k => (Counts(r, x, y, j)' <=> Counts(call[t], x, y, j))
    BY DEF AllSameBut
  <2>2. Cardinality(Places(x)') = Cardinality(Places(x)) + 1
    BY ONLY <1>1, <2>1, PlaceAdded
  <2>3. strings'[x] = strings[x] + 1 /\ strings[x] \in Int
    BY <1>3
  <2> QED  BY <1>2, <1>3, <2>2, <2>3, StringCounted
<1>5. ASSUME NEW s \in String, s # x PROVE Exact(s)
  <2>0. \A y \in Cell, j \in 1 .. MaxLength :
          Counts(r, s, y, j)' <=> Counts(call[t], s, y, j)
    BY <1>5 DEF AllSameBut
  <2>1. Places(s)' = Places(s)
    BY ONLY <1>1, <2>0, PlacesKept
  <2>2. strings'[s] = strings[s] /\ strings[s] \in Int
    BY <1>3, <1>5
  <2> QED  BY <1>2, <1>3, <2>1, <2>2, StringCounted
<1> QED  BY <1>4, <1>5 DEF StringsInv

\* A step that dereferences string x when one place of it counts no more.
LEMMA StringRemoved ==
  ASSUME VectorsInv, VectorsInv', StringsInv, NEW t \in Task, NEW r,
         call' = [call EXCEPT ![t] = r], Others(t), SameItem(call[t], r),
         NEW x \in String, strings' = [strings EXCEPT ![x] = @ - 1], UNCHANGED held,
         NEW o \in Cell, NEW k, ~Loose(t, o, k),
         Counts(call[t], x, o, k), ~Counts(r, x, o, k)',
         AllSameBut(call[t], r, x, o, k)
  PROVE  StringsInv'
<1> DEFINE Exact(s) == strings'[s] = Cardinality(Places(s)') + Cardinality(Inserters(s)')
                                        + (IF s \in held' THEN 1 ELSE 0)
<1>1. /\ VectorsInv /\ VectorsInv' /\ t \in Task /\ call' = [call EXCEPT ![t] = r] /\ Typed
      /\ Others(t) /\ o \in Cell /\ ~Loose(t, o, k) /\ SameItem(call[t], r)
      /\ Counts(call[t], x, o, k) /\ ~Counts(r, x, o, k)'
  BY DEF VectorsInv
<1>2. ASSUME NEW s \in String PROVE Inserters(s)' = Inserters(s)
  BY ONLY <1>1, InsertersSame
<1>3. strings \in [String -> Int] /\ \A s \in String : Cardinality(Places(s)) \in Nat
  BY PlacesFinite DEF VectorsInv, Typed
<1>4. Exact(x)
  <2>1. \A y \in Cell, j \in 1 .. MaxLength :
          y # o \/ j # k => (Counts(r, x, y, j)' <=> Counts(call[t], x, y, j))
    BY DEF AllSameBut
  <2>2. Cardinality(Places(x)') = Cardinality(Places(x)) - 1
    BY ONLY <1>1, <2>1, PlaceRemoved
  <2>3. strings'[x] = strings[x] - 1 /\ strings[x] \in Int
    BY <1>3
  <2> QED  BY <1>2, <1>3, <2>2, <2>3, StringCounted
<1>5. ASSUME NEW s \in String, s # x PROVE Exact(s)
  <2>0. \A y \in Cell, j \in 1 .. MaxLength :
          Counts(r, s, y, j)' <=> Counts(call[t], s, y, j)
    BY <1>5 DEF AllSameBut
  <2>1. Places(s)' = Places(s)
    BY ONLY <1>1, <2>0, PlacesKept
  <2>2. strings'[s] = strings[s] /\ strings[s] \in Int
    BY <1>3, <1>5
  <2> QED  BY <1>2, <1>3, <2>1, <2>2, StringCounted
<1> QED  BY <1>4, <1>5 DEF StringsInv

\* No call of another task leaves uncounted places of a vector that a call of t
\* holds, is taking apart or allocates.
LEMMA NotLoose ==
  ASSUME VectorsInv, NEW t \in Task, NEW o \in Cell, NEW k,
         \/ call[t].self \in Vector /\ data[call[t].self] = o
         \/ Owns(call[t], o)
         \/ call[t].pc \in {"strings", "free"} /\ call[t].source = o
         \/ o \notin live
  PROVE  ~Loose(t, o, k)
<1> SUFFICES ASSUME NEW u \in Task \ {t} PROVE ~Uncounted(call[u], o, k)
  BY DEF Loose
<1>1. CASE call[t].self \in Vector /\ data[call[t].self] = o
  <2>1. call[t].self \in Holders(o)
    BY <1>1, HoldersNow
  <2>2. call[u].self # call[t].self /\ call[t].self # u
    BY <1>1, VectorsAssumption DEF VectorsInv, Discipline
  <2>3. ~Relies(call[u], o)
    BY <2>1, <2>2, NotRelied
  <2> QED  BY <2>3, UncountedOwns
<1>2. CASE Owns(call[t], o)
  <2>1. t \in Holders(o)
    BY <1>2, HoldersNow
  <2>2. call[u].self \in Vector => t # call[u].self
    BY VectorsAssumption
  <2>3. ~Relies(call[u], o)
    BY <2>1, <2>2, NotRelied
  <2> QED  BY <2>3, UncountedOwns
<1>3. CASE call[t].pc \in {"strings", "free"} /\ call[t].source = o
  <2>1. Holders(o) = {}
    BY <1>3, ReleasedHasNoHolder
  <2>2. ASSUME Uncounted(call[u], o, k) PROVE FALSE
    <3>1. Relies(call[u], o)
      BY <2>2, UncountedOwns
    <3>2. ~(call[u].pc \in {"strings", "free"} /\ call[u].source = o)
      BY <1>3 DEF VectorsInv, ReleasedOnce
    <3>3. ~Owns(call[u], o)
      BY <2>1, HoldersNow
    <3>4. call[u].self \in Vector => data[call[u].self] # o
      BY <2>1, HoldersNow
    <3>5. call[u].op \in Edits => call[u].self \in Vector
      BY DEF VectorsInv, Typed, CallShapes, CallShape, OperandShape, Calls, Edits
    <3> QED  BY <3>1, <3>2, <3>3, <3>4, <3>5 DEF Relies, Owns
  <2> QED  BY <2>2
<1>4. CASE o \notin live
  BY <1>4, FreshVector, UncountedOwns
<1> QED  BY <1>1, <1>2, <1>3, <1>4

\* A step that changes only which strings the program has an object of.
LEMMA HeldCounted ==
  ASSUME VectorsInv, StringsInv, UNCHANGED <<data, value, call>>,
         strings' \in [String -> Int],
         \A s \in String :
           strings'[s] - strings[s] = (IF s \in held' THEN 1 ELSE 0) - (IF s \in held THEN 1 ELSE 0)
  PROVE  StringsInv'
<1> SUFFICES ASSUME NEW s \in String
             PROVE  strings'[s] = Cardinality(Places(s)') + Cardinality(Inserters(s)')
                                    + (IF s \in held' THEN 1 ELSE 0)
  BY DEF StringsInv
<1>1. Places(s)' = Places(s) /\ Inserters(s)' = Inserters(s)
  BY DEF Places, Uncounted, Inserters
<1> PICK a, b : a = strings[s] /\ b = strings'[s]
  OBVIOUS
<1> PICK p, n : p = Cardinality(Places(s)) /\ n = Cardinality(Inserters(s))
  OBVIOUS
<1> PICK h, q : h = (IF s \in held THEN 1 ELSE 0) /\ q = (IF s \in held' THEN 1 ELSE 0)
  OBVIOUS
<1>2. a = p + n + h /\ b - a = q - h
  BY DEF StringsInv
<1>3. a \in Int /\ b \in Int /\ p \in Nat /\ n \in Nat /\ h \in Nat /\ q \in Nat
  BY PlacesFinite, InsertersFinite DEF VectorsInv, Typed
<1>4. b = p + n + q
  BY ONLY <1>2, <1>3
<1> QED  BY <1>1, <1>4

\* A new string counts for its object.
LEMMA NewStringCounted ==
  ASSUME VectorsInv, StringsInv, NEW x \in String, NewString(x)
  PROVE  StringsInv'
<1>1. strings \in [String -> Int] /\ strings[x] = 0 /\ x \notin held
      /\ strings' = [strings EXCEPT ![x] = 1] /\ held' = held \cup {x}
      /\ UNCHANGED <<data, value, call>>
  BY DEF NewString, vectors, VectorsInv, Typed
<1>2. strings' \in [String -> Int]
  BY <1>1
<1>3. \A s \in String :
        strings'[s] - strings[s] = (IF s \in held' THEN 1 ELSE 0) - (IF s \in held THEN 1 ELSE 0)
  BY <1>1
<1> QED  BY <1>1, <1>2, <1>3, HeldCounted

\* A string that an object releases does not count for it.
LEMMA ReleaseStringCounted ==
  ASSUME VectorsInv, StringsInv, NEW x \in String, ReleaseString(x)
  PROVE  StringsInv'
<1>1. strings \in [String -> Int] /\ x \in held
      /\ strings' = [strings EXCEPT ![x] = @ - 1] /\ held' = held \ {x}
      /\ UNCHANGED <<data, value, call>>
  BY DEF ReleaseString, vectors, VectorsInv, Typed
<1>2. strings' \in [String -> Int]
  BY <1>1
<1>3. \A s \in String :
        strings'[s] - strings[s] = (IF s \in held' THEN 1 ELSE 0) - (IF s \in held THEN 1 ELSE 0)
  BY <1>1
<1> QED  BY <1>1, <1>2, <1>3, HeldCounted

\* An element of a vector that becomes an object counts for it.
LEMMA ElementCounted ==
  ASSUME VectorsInv, StringsInv, NEW t \in Task, NEW w \in Vector, NEW i \in 0 .. MaxLength,
         Element(t, w, i)
  PROVE  StringsInv'
<1>i. i \in Nat
  BY VectorsAssumption
<1> PICK x : x = Items(data[w])[i + 1]
  OBVIOUS
<1>x. x \in String
  BY <1>i, ItemIsString DEF Element
<1>1. strings \in [String -> Int] /\ x \notin held
      /\ strings' = [strings EXCEPT ![x] = @ + 1] /\ held' = held \cup {x}
      /\ UNCHANGED <<data, value, call>>
  BY DEF Element, vectors, VectorsInv, Typed
<1>2. strings' \in [String -> Int]
  BY <1>1, <1>x
<1>3. \A s \in String :
        strings'[s] - strings[s] = (IF s \in held' THEN 1 ELSE 0) - (IF s \in held THEN 1 ELSE 0)
  BY <1>1, <1>x
<1> QED  BY <1>1, <1>2, <1>3, HeldCounted

\* The string that Detach references is in the copy, and counts with it.
LEMMA CopyStringCounted ==
  ASSUME VectorsInv, StringsInv, NEW t \in Task, CopyString(t), VectorsInv', Others(t)
  PROVE  StringsInv'
<1> PICK c, d : c = call[t] /\ d = data[c.self]
  OBVIOUS
<1> PICK k, x : k = c.i + 1 /\ x = value[d][k]
  OBVIOUS
<1>p. PICK p : p = IF c.i + 1 = Len(value[d]) THEN "drop" ELSE "copy"
  OBVIOUS
<1>r. PICK r : r = [c EXCEPT !.pc = p, !.i = k]
  OBVIOUS
<1>2. c \in Calls /\ CallShape(c)
  BY DEF VectorsInv, Typed, CallShapes
<1>1. /\ c.pc = "copy" /\ call' = [call EXCEPT ![t] = r]
      /\ UNCHANGED <<data, value, held>> /\ strings' = [strings EXCEPT ![x] = @ + 1]
  <2>1. r = [c EXCEPT !.i = @ + 1, !.pc = IF c.i + 1 = Len(value[d]) THEN "drop" ELSE "copy"]
    BY <1>2, <1>p, <1>r DEF Calls
  <2> QED  BY <2>1 DEF CopyString, Go, vectors
<1>3. Resumes(r, c) /\ r.i = k /\ r.pc = p
  <2>1. c \in Calls /\ k \in Nat /\ p \in {"copy", "drop", "strings", "free", "spread"}
    BY <1>2, <1>p DEF Calls
  <2> QED  BY ONLY <1>r, <2>1 DEF Resumes, Calls
<1>4. /\ d \in Cell /\ c.self \in Vector /\ value[d] \in Seq(String)
      /\ c.i \in Nat /\ Len(value[d]) \in Nat /\ c.i < Len(value[d])
  <2>1. c.self \in Vector /\ d \in live /\ c.i < Len(value[d]) /\ c.i \in Nat
    BY <1>1, <1>2 DEF CallShape, OperandShape, EditShape, SourceShape, Leaving, Calls
  <2> QED  BY <2>1 DEF VectorsInv, Typed
<1>5. k \in 1 .. Len(value[d]) /\ x \in String
  BY <1>4
<1>6. ASSUME NEW y, NEW j
      PROVE  /\ Uncounted(c, y, j) <=> y = d /\ j > c.i
             /\ Uncounted(r, y, j)' <=> p = "copy" /\ y = d /\ j > k
  BY <1>1, <1>3, <1>p DEF Uncounted, Resumes
<1>7. ~Counts(c, x, d, k) /\ Counts(r, x, d, k)'
  <2>1. Has(x, d, k) /\ Has(x, d, k)'
    BY <1>1, <1>5 DEF Has
  <2>2. k > c.i /\ ~(k > k)
    BY <1>4
  <2>3. Uncounted(c, d, k) /\ ~Uncounted(r, d, k)'
    BY <1>6, <2>2
  <2> QED  BY ONLY <2>1, <2>3 DEF Counts
<1>8. ASSUME NEW s \in String, NEW y \in Cell, NEW j \in 1 .. MaxLength,
             s # x \/ y # d \/ j # k
      PROVE  Counts(r, s, y, j)' <=> Counts(c, s, y, j)
  <2>1. Has(s, y, j)' <=> Has(s, y, j)
    BY <1>1 DEF Has
  <2>2. Has(s, y, j) /\ y = d => j # k /\ j \in 1 .. Len(value[d])
    BY <1>8 DEF Has
  <2>3. j \in 1 .. Len(value[d]) /\ j # k => (j > c.i <=> p = "copy" /\ j > k)
    BY <1>4, <1>p
  <2> QED  BY <1>6, <2>1, <2>2, <2>3 DEF Counts
<1>9. ~Loose(t, d, k)
  BY <1>4, NotLoose
<1>10. SameItem(c, r)
  BY <1>3 DEF Resumes, SameItem
<1>11. AllSameBut(c, r, x, d, k)
  BY <1>8 DEF AllSameBut
<1> QED  BY <1>1, <1>4, <1>5, <1>7, <1>9, <1>10, <1>11, StringAdded

\* The string that Dereference releases does not count in the vector any more.
LEMMA DropStringCounted ==
  ASSUME VectorsInv, StringsInv, NEW t \in Task, DropString(t), VectorsInv', Others(t)
  PROVE  StringsInv'
<1> PICK c, d : c = call[t] /\ d = c.source
  OBVIOUS
<1> PICK k, x : k = c.i + 1 /\ x = value[d][k]
  OBVIOUS
<1>p. PICK p : p = IF c.i + 1 = Len(value[d]) THEN "free" ELSE "strings"
  OBVIOUS
<1>r. PICK r : r = [c EXCEPT !.pc = p, !.i = k]
  OBVIOUS
<1>2. c \in Calls /\ CallShape(c)
  BY DEF VectorsInv, Typed, CallShapes
<1>1. /\ c.pc = "strings" /\ call' = [call EXCEPT ![t] = r]
      /\ UNCHANGED <<data, value, held>> /\ strings' = [strings EXCEPT ![x] = @ - 1]
  <2>1. r = [c EXCEPT !.i = @ + 1, !.pc = IF c.i + 1 = Len(value[d]) THEN "free" ELSE "strings"]
    BY <1>2, <1>p, <1>r DEF Calls
  <2> QED  BY <2>1 DEF DropString, Go, vectors
<1>3. Resumes(r, c) /\ r.i = k /\ r.pc = p
  <2>1. c \in Calls /\ k \in Nat /\ p \in {"copy", "drop", "strings", "free", "spread"}
    BY <1>2, <1>p DEF Calls
  <2> QED  BY ONLY <1>r, <2>1 DEF Resumes, Calls
<1>4. /\ d \in Cell /\ value[d] \in Seq(String)
      /\ c.i \in Nat /\ Len(value[d]) \in Nat /\ c.i < Len(value[d])
  <2>1. d \in live /\ c.i < Len(value[d]) /\ c.i \in Nat
    BY <1>1, <1>2 DEF CallShape, SourceShape, Leaving, Calls
  <2> QED  BY <2>1 DEF VectorsInv, Typed
<1>5. k \in 1 .. Len(value[d]) /\ x \in String
  BY <1>4
<1>6. ASSUME NEW y, NEW j
      PROVE  /\ Uncounted(c, y, j) <=> d = y /\ j <= c.i
             /\ Uncounted(r, y, j)' <=> d = y /\ (p = "free" \/ j <= k)
  BY <1>1, <1>3, <1>p DEF Uncounted, Resumes
<1>7. Counts(c, x, d, k) /\ ~Counts(r, x, d, k)'
  <2>1. Has(x, d, k) /\ Has(x, d, k)'
    BY <1>1, <1>5 DEF Has
  <2> QED  BY <1>4, <1>6, <2>1 DEF Counts
<1>8. ASSUME NEW s \in String, NEW y \in Cell, NEW j \in 1 .. MaxLength,
             s # x \/ y # d \/ j # k
      PROVE  Counts(r, s, y, j)' <=> Counts(c, s, y, j)
  <2>1. Has(s, y, j)' <=> Has(s, y, j)
    BY <1>1 DEF Has
  <2>2. Has(s, y, j) /\ y = d => j # k /\ j \in 1 .. Len(value[d])
    BY <1>8 DEF Has
  <2>3. j \in 1 .. Len(value[d]) /\ j # k => (j <= c.i <=> p = "free" \/ j <= k)
    BY <1>4, <1>p
  <2> QED  BY <1>6, <2>1, <2>2, <2>3 DEF Counts
<1>9. ~Loose(t, d, k)
  BY <1>1, <1>4, NotLoose
<1>10. SameItem(c, r)
  BY <1>3 DEF Resumes, SameItem
<1>11. AllSameBut(c, r, x, d, k)
  BY <1>8 DEF AllSameBut
<1> QED  BY <1>1, <1>4, <1>5, <1>7, <1>9, <1>10, <1>11, StringRemoved

\* A string that is among others has a place there.
LEMMA PlaceFound ==
  ASSUME NEW s, NEW x, \E k \in 1 .. Len(s) : s[k] = x
  PROVE  PlaceOf(s, x) \in 1 .. Len(s) /\ s[PlaceOf(s, x)] = x
BY DEF PlaceOf

\* The string that Append or Replace references is the one it has stored.
LEMMA ReferCounted ==
  ASSUME VectorsInv, StringsInv, NEW t \in Task, Refer(t), VectorsInv', Others(t)
  PROVE  StringsInv'
<1> PICK c, d, x : c = call[t] /\ d = data[c.self] /\ x = c.item
  OBVIOUS
<1> PICK k : k = PlaceOf(value[d], x)
  OBVIOUS
<1>r. PICK r : r = Idle
  OBVIOUS
<1>1. /\ c.pc = "refer" /\ call' = [call EXCEPT ![t] = r]
      /\ UNCHANGED <<data, value, held>> /\ strings' = [strings EXCEPT ![x] = @ + 1]
  BY <1>r DEF Refer, Go, vectors
<1>2. c \in Calls /\ CallShape(c)
  BY DEF VectorsInv, Typed, CallShapes
<1>3. r.pc = "idle" /\ r.op = "none"
  BY <1>r DEF Idle
<1>4. d \in Cell /\ c.self \in Vector /\ x \in String /\ c.op \in {"append", "replace"}
  <2>1. c.op \in {"append", "replace"}
    BY <1>1, <1>2 DEF CallShape, EditShape
  <2>2. c.self \in Vector /\ d \in live /\ x \in String
    BY <1>1, <1>2, <2>1 DEF CallShape, OperandShape, EditShape, Edits
  <2> QED  BY <2>1, <2>2 DEF VectorsInv, Typed
<1>5. k \in 1 .. Len(value[d]) /\ value[d][k] = x
  <2>1. \E j \in 1 .. Len(value[d]) : value[d][j] = x
    BY <1>1, <1>2 DEF CallShape, StoredShape
  <2> QED  BY <2>1, PlaceFound
<1>6. ASSUME NEW y, NEW j
      PROVE  (Uncounted(c, y, j) <=> y = d /\ j = k) /\ ~Uncounted(r, y, j)'
  BY <1>1, <1>3 DEF Uncounted
<1>7. ~Counts(c, x, d, k) /\ Counts(r, x, d, k)'
  <2>1. Has(x, d, k) /\ Has(x, d, k)'
    BY <1>1, <1>5 DEF Has
  <2> QED  BY <1>6, <2>1 DEF Counts
<1>8. ASSUME NEW s \in String, NEW y \in Cell, NEW j \in 1 .. MaxLength,
             s # x \/ y # d \/ j # k
      PROVE  Counts(r, s, y, j)' <=> Counts(c, s, y, j)
  <2>1. Has(s, y, j)' <=> Has(s, y, j)
    BY <1>1 DEF Has
  <2>2. Has(s, y, j) /\ y = d => j # k
    BY <1>5, <1>8 DEF Has
  <2> QED  BY <1>6, <2>1, <2>2 DEF Counts
<1>9. ~Loose(t, d, k)
  BY <1>4, NotLoose
<1>10. SameItem(c, r)
  BY <1>3, <1>4 DEF SameItem
<1>11. AllSameBut(c, r, x, d, k)
  BY <1>8 DEF AllSameBut
<1> QED  BY <1>1, <1>4, <1>7, <1>9, <1>10, <1>11, StringAdded

\* The string that Prepend references is the next one of those it has stored.
LEMMA ReferPrependedCounted ==
  ASSUME VectorsInv, StringsInv, NEW t \in Task, ReferPrepended(t), VectorsInv', Others(t)
  PROVE  StringsInv'
<1> PICK c, d : c = call[t] /\ d = data[c.self]
  OBVIOUS
<1> PICK k, x, m : k = c.i + 1 /\ x = value[d][k] /\ m = Len(value[c.other])
  OBVIOUS
<1>r. PICK r : r = IF k = m THEN Idle ELSE [c EXCEPT !.i = k]
  OBVIOUS
<1>2. c \in Calls /\ CallShape(c)
  BY DEF VectorsInv, Typed, CallShapes
<1>0. c.pc = "spread"
  BY DEF ReferPrepended
<1>4. /\ d \in Cell /\ c.self \in Vector /\ value[d] \in Seq(String) /\ c.op = "prepend"
      /\ c.i \in Nat /\ m \in Nat /\ c.i < m /\ m <= Len(value[d]) /\ Len(value[d]) \in Nat
      /\ Items(c.other) = value[c.other]
  <2>1. c.op = "prepend"
    BY <1>0, <1>2 DEF CallShape, EditShape
  <2>2. c.self \in Vector /\ d \in live /\ c.other \in Cell
    BY <1>0, <1>2, <2>1 DEF CallShape, OperandShape, EditShape, Edits
  <2>3. c.i < m /\ m <= Len(value[d]) /\ c.i \in Nat
    BY <1>0, <1>2 DEF CallShape, StoredShape, Calls
  <2>4. d \in Cell /\ value[d] \in Seq(String) /\ value[c.other] \in Seq(String)
    BY <2>2 DEF VectorsInv, Typed
  <2>5. Items(c.other) = value[c.other]
    BY <2>2 DEF Items
  <2> QED  BY <2>1, <2>2, <2>3, <2>4, <2>5
<1>1. /\ call' = [call EXCEPT ![t] = r]
      /\ UNCHANGED <<data, value, held>> /\ strings' = [strings EXCEPT ![x] = @ + 1]
  <2>1. r = IF c.i + 1 = Len(Items(c.other)) THEN Idle ELSE [c EXCEPT !.i = @ + 1]
    BY <1>2, <1>4, <1>r DEF Calls
  <2> QED  BY <2>1 DEF ReferPrepended, Go, vectors
<1>3. \/ k = m /\ r.pc = "idle" /\ r.op = "none"
      \/ /\ k # m /\ r.pc = "spread" /\ r.i = k /\ r.op = c.op
         /\ r.self = c.self /\ r.other = c.other
  BY <1>0, <1>2, <1>r DEF Idle, Calls
<1>5. k \in 1 .. Len(value[d]) /\ k \in 1 .. m /\ x \in String
  <2> PICK n : n = Len(value[d])
    OBVIOUS
  <2>1. c.i \in Nat /\ m \in Nat /\ n \in Nat /\ c.i < m /\ m <= n /\ k = c.i + 1
    BY <1>4
  <2>2. k \in 1 .. n /\ k \in 1 .. m
    BY ONLY <2>1
  <2> QED  BY <1>4, <2>2
<1>6. ASSUME NEW y, NEW j
      PROVE  /\ Uncounted(c, y, j) <=> y = d /\ j \in c.i + 1 .. m
             /\ Uncounted(r, y, j)' <=> k # m /\ y = d /\ j \in k + 1 .. m
  BY <1>0, <1>1, <1>3 DEF Uncounted
<1>7. ~Counts(c, x, d, k) /\ Counts(r, x, d, k)'
  <2>1. Has(x, d, k) /\ Has(x, d, k)'
    BY <1>1, <1>5 DEF Has
  <2>2. k \in c.i + 1 .. m /\ k \notin k + 1 .. m
    BY <1>4
  <2> QED  BY <1>6, <2>1, <2>2 DEF Counts
<1>8. ASSUME NEW s \in String, NEW y \in Cell, NEW j \in 1 .. MaxLength,
             s # x \/ y # d \/ j # k
      PROVE  Counts(r, s, y, j)' <=> Counts(c, s, y, j)
  <2>1. Has(s, y, j)' <=> Has(s, y, j)
    BY <1>1 DEF Has
  <2>2. Has(s, y, j) /\ y = d => j # k /\ j \in 1 .. Len(value[d])
    BY <1>8 DEF Has
  <2>3. j \in 1 .. Len(value[d]) /\ j # k =>
          (j \in c.i + 1 .. m <=> k # m /\ j \in k + 1 .. m)
    BY <1>4
  <2> QED  BY <1>6, <2>1, <2>2, <2>3 DEF Counts
<1>9. ~Loose(t, d, k)
  BY <1>4, NotLoose
<1>10. SameItem(c, r)
  BY <1>3, <1>4 DEF SameItem
<1>11. AllSameBut(c, r, x, d, k)
  BY <1>8 DEF AllSameBut
<1> QED  BY <1>1, <1>4, <1>5, <1>7, <1>9, <1>10, <1>11, StringAdded

\* A call that is not about to reference or release strings counts every place.
Plain(c) == c.pc \notin {"look", "move", "copy", "strings", "free", "spread", "refer"}

\* Two such calls count the same places while no vector changes.
LEMMA PlainKept ==
  ASSUME UNCHANGED value, NEW c, Plain(c), NEW r, Plain(r)
  PROVE  AllSame(c, r)
BY DEF AllSame, Counts, Has, Uncounted, Plain

\* Declaring a vector references nothing.
LEMMA DeclareCounted ==
  ASSUME VectorsInv, StringsInv, NEW t \in Task, NEW v \in Vector, Declare(t, v)
  PROVE  StringsInv'
<1>1. /\ data[v] = Null /\ call[t].pc = "idle" /\ \A u \in Task : v # call[u].self
      /\ data' = [data EXCEPT ![v] = Empty] /\ UNCHANGED <<value, strings, held, call>>
  BY DEF Declare, MayWrite, vectors
<1>2. /\ data \in [Vector -> Ref] /\ Empty \notin Cell /\ Null \notin Cell
  BY VectorsAssumption DEF VectorsInv, Typed
<1>3. ASSUME NEW u \in Task, NEW o \in Cell, NEW k
      PROVE  Uncounted(call[u], o, k)' <=> Uncounted(call[u], o, k)
  <2> PICK c : c = call[u]
    OBVIOUS
  <2>1. c \in Calls /\ c.self # v /\ (c.op \in Edits => c.self \in Vector) /\ EditShape(c)
    BY <1>1 DEF VectorsInv, Typed, CallShapes, CallShape, OperandShape, Edits
  <2>2. c.op \in Edits => data'[c.self] = data[c.self]
    BY <1>1, <1>2, <2>1
  <2>3. c.pc \in {"look", "move", "copy", "spread", "refer"} => data'[c.self] = data[c.self]
    BY <2>1, <2>2 DEF EditShape
  <2>4. Uncounted(c, o, k)' <=> Uncounted(c, o, k)
    BY <1>1, <2>3 DEF Uncounted
  <2> QED  BY <1>1, <2>4
<1>4. \A s : Places(s)' = Places(s) /\ Inserters(s)' = Inserters(s)
  BY <1>1, <1>3 DEF Places, Inserters
<1> QED  BY <1>1, <1>4 DEF StringsInv

\* Neither does taking away the vector of an object.
LEMMA ShareCounted ==
  ASSUME VectorsInv, StringsInv, NEW t \in Task, NEW v \in Vector, NEW w, NEW target,
         Share(t, v, w, target), VectorsInv', Others(t)
  PROVE  StringsInv'
<1>r. PICK r : r = [Idle EXCEPT !.pc   = IF data[v] \in Cell THEN "drop" ELSE "bind",
                                !.op   = "share", !.self = v, !.from = w,
                                !.source = data[v], !.target = target]
  OBVIOUS
<1>1. call' = [call EXCEPT ![t] = r] /\ call[t].pc = "idle" /\ UNCHANGED <<value, strings, held>>
  BY <1>r DEF Share, Go, MayWrite, vectors
<1>2. r.pc \in {"drop", "bind"} /\ r.op = "share" /\ call[t].op = "none"
  BY <1>r, <1>1 DEF Idle, VectorsInv, CallShapes, CallShape, OperandShape
<1>3. AllSame(call[t], r)
  BY <1>1, <1>2, PlainKept DEF Plain
<1>4. SameItem(call[t], r)
  BY <1>2 DEF SameItem
<1> QED  BY <1>1, <1>3, <1>4, StringsKept

\* Nor giving it another one.
LEMMA BindCounted ==
  ASSUME VectorsInv, StringsInv, NEW t \in Task, Bind(t), VectorsInv', Others(t)
  PROVE  StringsInv'
<1>r. PICK r : r = Idle
  OBVIOUS
<1>1. call' = [call EXCEPT ![t] = r] /\ call[t].pc = "bind" /\ UNCHANGED <<value, strings, held>>
  BY <1>r DEF Bind, Go
<1>2. r.pc = "idle" /\ r.op = "none" /\ call[t].op = "share"
  BY <1>r, <1>1 DEF Idle, VectorsInv, CallShapes, CallShape, ShareShape
<1>3. AllSame(call[t], r)
  BY <1>1, <1>2, PlainKept DEF Plain
<1>4. SameItem(call[t], r)
  BY <1>2 DEF SameItem
<1> QED  BY <1>1, <1>3, <1>4, StringsKept

\* The second look at the counter finds every string of the copy uncounted.
LEMMA LookCounted ==
  ASSUME VectorsInv, StringsInv, NEW t \in Task, Look(t), VectorsInv', Others(t)
  PROVE  StringsInv'
<1> PICK c : c = call[t]
  OBVIOUS
<1>r. PICK r : r = IF counter[c.source] = 1 THEN [c EXCEPT !.pc = "move"]
                                            ELSE [c EXCEPT !.pc = "copy", !.i = 0]
  OBVIOUS
<1>1. /\ call' = [call EXCEPT ![t] = r] /\ c.pc = "look"
      /\ UNCHANGED <<data, value, strings, held>>
  BY <1>r DEF Look, Go, vectors
<1>2. c \in Calls
  BY DEF VectorsInv, Typed
<1>3. /\ r.self = c.self /\ r.op = c.op /\ r.item = c.item
      /\ r.pc = "move" \/ (r.pc = "copy" /\ r.i = 0)
  BY <1>r, <1>2 DEF Calls
<1>4. ASSUME NEW y, NEW j \in 1 .. MaxLength
      PROVE  Uncounted(r, y, j)' <=> Uncounted(c, y, j)
  <2>1. j > 0
    BY VectorsAssumption
  <2> QED  BY <1>1, <1>3, <2>1 DEF Uncounted
<1>5. AllSame(c, r)
  BY <1>1, <1>4 DEF AllSame, Counts, Has
<1>6. SameItem(c, r)
  BY <1>3 DEF SameItem
<1> QED  BY <1>1, <1>5, <1>6, StringsKept

\* The strings of the vector that is freed have been released.
LEMMA FreeCounted ==
  ASSUME VectorsInv, StringsInv, NEW t \in Task, Free(t), VectorsInv', Others(t)
  PROVE  StringsInv'
<1> PICK c, d : c = call[t] /\ d = c.source
  OBVIOUS
<1>r. PICK r : r = Continue(c)
  OBVIOUS
<1>1. /\ call' = [call EXCEPT ![t] = r] /\ c.pc = "free"
      /\ value' = [value EXCEPT ![d] = <<>>] /\ UNCHANGED <<strings, held>>
  BY <1>r DEF Free, Go
<1>2. c \in Calls /\ value \in [Cell -> Seq(String)] /\ d \in Cell
  BY <1>1, SourceIsOther DEF VectorsInv, Typed, Leaving
<1>3. r.op = c.op /\ r.item = c.item /\ r.pc \in {"bind", "store"}
  BY <1>r, <1>2 DEF Continue, Calls
<1>4. ASSUME NEW s \in String, NEW y \in Cell, NEW j \in 1 .. MaxLength
      PROVE  Counts(r, s, y, j)' <=> Counts(c, s, y, j)
  <2>1. ~Uncounted(r, y, j)'
    BY <1>3 DEF Uncounted
  <2>2. Uncounted(c, y, j) <=> y = d
    BY <1>1 DEF Uncounted
  <2>3. ~Has(s, d, j)'
    <3>1. value'[d] = <<>> /\ j \notin 1 .. 0
      BY <1>1, <1>2
    <3> QED  BY <3>1 DEF Has
  <2>4. y # d => (Has(s, y, j)' <=> Has(s, y, j))
    BY <1>1, <1>2 DEF Has
  <2> QED  BY <2>1, <2>2, <2>3, <2>4 DEF Counts
<1>5. AllSame(c, r)
  BY <1>4 DEF AllSame
<1>6. SameItem(c, r)
  BY <1>3 DEF SameItem
<1> QED  BY <1>1, <1>5, <1>6, StringsKept

\* A new vector has no strings.
LEMMA DeclareSliceCounted ==
  ASSUME VectorsInv, StringsInv, NEW t \in Task, NEW v \in Vector, NEW w \in Vector,
         NEW first, NEW final, DeclareSlice(t, v, w, first, final), VectorsInv', Others(t)
  PROVE  StringsInv'
<1>o. PICK o \in Cell :
       /\ Allocate(o, final - first, <<>>)
       /\ Go(t, [Idle EXCEPT !.pc = "slice", !.op = "slice", !.self = v, !.from = w,
                             !.source = data[w], !.target = o, !.index = final,
                             !.i = first])
  BY DEF DeclareSlice
<1>r. PICK r : r = [Idle EXCEPT !.pc = "slice", !.op = "slice", !.self = v, !.from = w,
                                !.source = data[w], !.target = o, !.index = final,
                                !.i = first]
  OBVIOUS
<1>1. call' = [call EXCEPT ![t] = r] /\ call[t].pc = "idle" /\ UNCHANGED <<strings, held>>
  BY <1>o, <1>r DEF DeclareSlice, Go, MayWrite
<1>2. r.pc = "slice" /\ r.op = "slice" /\ call[t].op = "none"
  BY <1>r, <1>1 DEF Idle, VectorsInv, CallShapes, CallShape, OperandShape
<1>3. UNCHANGED value
  <2>1. value \in [Cell -> Seq(String)] /\ value[o] = <<>>
    BY <1>o DEF Allocate, VectorsInv, Typed, Deallocated
  <2>2. value' = [value EXCEPT ![o] = <<>>]
    BY <1>o DEF Allocate
  <2> QED  BY <2>1, <2>2
<1>4. AllSame(call[t], r)
  BY <1>1, <1>2, <1>3, PlainKept DEF Plain
<1>5. SameItem(call[t], r)
  BY <1>2 DEF SameItem
<1> QED  BY <1>1, <1>4, <1>5, StringsKept

\* The vector that Detach allocates counts for no string yet.
LEMMA DetachCounted ==
  ASSUME VectorsInv, StringsInv, NEW t \in Task, NEW c, NEW size, Detach(t, c, size),
         c \in Calls, c.self \in Vector, SameItem(call[t], c),
         call[t].pc \in {"idle", "detach"}, UNCHANGED <<strings, held>>,
         VectorsInv', Others(t)
  PROVE  StringsInv'
<1> PICK s : s = data[c.self]
  OBVIOUS
<1>1. CASE Suffices(s, size) /\ Go(t, [c EXCEPT !.pc = "store"]) /\ UNCHANGED <<data, vectors>>
  <2>r. PICK r : r = [c EXCEPT !.pc = "store"]
    OBVIOUS
  <2>1. call' = [call EXCEPT ![t] = r] /\ UNCHANGED value
    BY <1>1, <2>r DEF Go, vectors
  <2>2. r.pc = "store" /\ r.op = c.op /\ r.item = c.item
    BY <2>r DEF Calls
  <2>3. AllSame(call[t], r)
    BY <2>1, <2>2, PlainKept DEF Plain
  <2>4. SameItem(call[t], r)
    BY <2>2 DEF SameItem
  <2> QED  BY <2>1, <2>3, <2>4, StringsKept
<1>2. CASE /\ \E o \in Cell : /\ Allocate(o, size, Items(s))
                              /\ data' = [data EXCEPT ![c.self] = o]
           /\ Go(t, IF s = Empty THEN [c EXCEPT !.pc = "store"]
                                 ELSE [c EXCEPT !.pc = "look", !.source = s])
  <2>r. PICK r : r = IF s = Empty THEN [c EXCEPT !.pc = "store"]
                                  ELSE [c EXCEPT !.pc = "look", !.source = s]
    OBVIOUS
  <2>o. PICK o \in Cell : Allocate(o, size, Items(s)) /\ data' = [data EXCEPT ![c.self] = o]
    BY <1>2
  <2>1. call' = [call EXCEPT ![t] = r]
    BY <1>2, <2>r DEF Go
  <2>2. /\ r.self = c.self /\ r.op = c.op /\ r.item = c.item
        /\ (s = Empty /\ r.pc = "store") \/ r.pc = "look"
    BY <2>r DEF Calls
  <2>3. /\ value[o] = <<>> /\ value'[o] = Items(s) /\ data'[c.self] = o
        /\ \A y \in Cell \ {o} : value'[y] = value[y]
    BY <2>o DEF Allocate, VectorsInv, Typed, Deallocated
  <2>4. ASSUME NEW x \in String, NEW y \in Cell, NEW j \in 1 .. MaxLength
        PROVE  Counts(r, x, y, j)' <=> Counts(call[t], x, y, j)
    <3>1. ~Uncounted(call[t], y, j)
      BY DEF Uncounted
    <3>2. Uncounted(r, y, j)' <=> r.pc = "look" /\ y = o
      BY <2>2, <2>3 DEF Uncounted
    <3>3. ~Has(x, o, j)
      <4>1. j \notin 1 .. 0 /\ Len(<<>>) = 0
        BY VectorsAssumption
      <4> QED  BY <2>3, <4>1 DEF Has
    <3>4. r.pc = "look" \/ ~Has(x, o, j)'
      <4>1. j \notin 1 .. 0 /\ Len(<<>>) = 0
        BY VectorsAssumption
      <4>2. s = Empty => Items(s) = <<>>
        BY VectorsAssumption DEF Items
      <4> QED  BY <2>2, <2>3, <4>1, <4>2 DEF Has
    <3>5. y # o => (Has(x, y, j)' <=> Has(x, y, j))
      BY <2>3 DEF Has
    <3> QED  BY <3>1, <3>2, <3>3, <3>4, <3>5 DEF Counts
  <2>5. AllSame(call[t], r)
    BY <2>4 DEF AllSame
  <2>6. SameItem(call[t], r)
    BY <2>2 DEF SameItem
  <2> QED  BY <2>1, <2>5, <2>6, StringsKept
<1> QED  BY <1>1, <1>2 DEF Detach

\* A call that does not run has no operation.
LEMMA IdleHasNoOp ==
  ASSUME VectorsInv, NEW t \in Task, call[t].pc = "idle"
  PROVE  call[t].op = "none"
BY DEF VectorsInv, CallShapes, CallShape, OperandShape

\* Append.
LEMMA AppendItemCounted ==
  ASSUME VectorsInv, StringsInv, NEW t \in Task, NEW v \in Vector, NEW s \in String,
         AppendItem(t, v, s), VectorsInv', Others(t)
  PROVE  StringsInv'
<1> PICK n, c : n = Len(Items(data[v])) /\ c = [Idle EXCEPT !.op = "append", !.self = v, !.item = s]
  OBVIOUS
<1>1. Detach(t, c, n + 1) /\ UNCHANGED <<strings, held>> /\ call[t].pc = "idle"
  BY DEF AppendItem, MayWrite
<1>2. c \in Calls /\ c.op = "append" /\ c.self = v
  BY DEF Idle, Calls, Ref, Edits
<1>3. SameItem(call[t], c)
  BY <1>1, <1>2, IdleHasNoOp DEF SameItem
<1> QED  BY <1>1, <1>2, <1>3, DetachCounted

\* Replace.
LEMMA ReplaceCounted ==
  ASSUME VectorsInv, StringsInv, NEW t \in Task, NEW v \in Vector, NEW i \in Nat,
         NEW s \in String, Replace(t, v, i, s), VectorsInv', Others(t)
  PROVE  StringsInv'
<1> PICK n, c : /\ n = Len(Items(data[v]))
                /\ c = [Idle EXCEPT !.op = "replace", !.self = v, !.item = s, !.index = i]
  OBVIOUS
<1>1. Detach(t, c, n) /\ UNCHANGED <<strings, held>> /\ call[t].pc = "idle"
  BY DEF Replace, MayWrite
<1>2. c \in Calls /\ c.op = "replace" /\ c.self = v
  BY DEF Idle, Calls, Ref, Edits
<1>3. SameItem(call[t], c)
  BY <1>1, <1>2, IdleHasNoOp DEF SameItem
<1> QED  BY <1>1, <1>2, <1>3, DetachCounted

\* Prepend.
LEMMA PrependCounted ==
  ASSUME VectorsInv, StringsInv, NEW t \in Task, NEW v \in Vector, NEW w \in Vector,
         Prepend(t, v, w), VectorsInv', Others(t)
  PROVE  StringsInv'
<1> PICK n, c : /\ n = Len(Items(data[v])) + Len(Items(data[w]))
                /\ c = [Idle EXCEPT !.op = "prepend", !.self = v, !.from = w, !.other = data[w]]
  OBVIOUS
<1>1. /\ call[t].pc = "idle"
      /\ \/ Share(t, v, w, data[w])
         \/ Detach(t, c, n) /\ UNCHANGED <<strings, held>>
  BY DEF Prepend, MayWrite
<1>2. CASE Share(t, v, w, data[w])
  BY <1>2, ShareCounted
<1>3. CASE Detach(t, c, n) /\ UNCHANGED <<strings, held>>
  <2>1. data[w] \in Ref
    BY DEF VectorsInv, Typed
  <2>2. c \in Calls /\ c.op = "prepend" /\ c.self = v
    BY <2>1 DEF Idle, Calls, Ref, Edits
  <2>3. SameItem(call[t], c)
    BY <1>1, <2>2, IdleHasNoOp DEF SameItem
  <2> QED  BY <1>1, <1>3, <2>2, <2>3, DetachCounted
<1> QED  BY <1>1, <1>2, <1>3

\* The Detach of Insert.
LEMMA DetachForInsertCounted ==
  ASSUME VectorsInv, StringsInv, NEW t \in Task, DetachForInsert(t), VectorsInv', Others(t)
  PROVE  StringsInv'
<1> PICK c : c = call[t]
  OBVIOUS
<1> PICK n : n = Len(Items(data[c.self]))
  OBVIOUS
<1> PICK size : size = IF n = 0 THEN 1 ELSE n
  OBVIOUS
<1>1. c.pc = "detach" /\ Detach(t, c, size) /\ UNCHANGED <<strings, held>>
  BY DEF DetachForInsert
<1>2. c \in Calls /\ c.self \in Vector
  BY <1>1 DEF VectorsInv, Typed, CallShapes, CallShape, OperandShape
<1>3. SameItem(call[t], c)
  BY DEF SameItem
<1> QED  BY <1>1, <1>2, <1>3, DetachCounted

\* Insert references its item, which no vector has from it yet.
LEMMA InsertCounted ==
  ASSUME VectorsInv, StringsInv, NEW t \in Task, NEW v \in Vector, NEW i,
         NEW x \in String, Insert(t, v, i, x), VectorsInv', Others(t)
  PROVE  StringsInv'
<1>r. PICK r : r = [Idle EXCEPT !.pc = "detach", !.op = "insert", !.self = v,
                                !.item = x, !.index = i]
  OBVIOUS
<1>1. /\ call' = [call EXCEPT ![t] = r] /\ call[t].pc = "idle" /\ UNCHANGED <<value, held>>
      /\ strings' = [strings EXCEPT ![x] = @ + 1]
  BY <1>r DEF Insert, Go, MayWrite, vectors
<1>2. r.pc = "detach" /\ r.op = "insert" /\ r.item = x /\ call[t].op = "none"
  BY <1>r, <1>1, IdleHasNoOp DEF Idle
<1>3. AllSame(call[t], r)
  BY <1>1, <1>2, PlainKept DEF Plain
<1>4. strings \in [String -> Int] /\ call \in [Task -> Calls]
  BY DEF VectorsInv, Typed
<1>5. ASSUME NEW s \in String
      PROVE  Places(s)' = Places(s) /\ Cardinality(Places(s)) \in Nat
  <2>1. \A o \in Cell, k \in 1 .. MaxLength : Counts(r, s, o, k)' <=> Counts(call[t], s, o, k)
    BY <1>3 DEF AllSame
  <2> QED  BY <1>1, <2>1, PlacesKept, PlacesFinite
<1>c. \A u \in Task : call'[u] = IF u = t THEN r ELSE call[u]
  BY <1>1, <1>4
<1>6. ASSUME NEW s \in String, s # x
      PROVE  strings'[s] = Cardinality(Places(s)') + Cardinality(Inserters(s)')
                             + (IF s \in held' THEN 1 ELSE 0)
  <2>1. Inserters(s)' = Inserters(s)
    BY <1>2, <1>6, <1>c DEF Inserters
  <2>2. strings'[s] = strings[s] /\ strings[s] \in Int
    BY <1>1, <1>4, <1>6
  <2> QED  BY <1>1, <1>5, <2>1, <2>2, StringCounted
<1>7. strings'[x] = Cardinality(Places(x)') + Cardinality(Inserters(x)')
                      + (IF x \in held' THEN 1 ELSE 0)
  <2>1. Inserters(x)' = Inserters(x) \cup {t} /\ t \notin Inserters(x)
    BY <1>2, <1>c DEF Inserters
  <2>2. Cardinality(Inserters(x)') = Cardinality(Inserters(x)) + 1
    BY <2>1, InsertersFinite, CardMore
  <2>3. strings'[x] = strings[x] + 1
    BY <1>1, <1>4
  <2> PICK p, n, h : /\ p = Cardinality(Places(x)) /\ n = Cardinality(Inserters(x))
                     /\ h = IF x \in held THEN 1 ELSE 0
    OBVIOUS
  <2>4. strings[x] = p + n + h /\ p \in Nat /\ n \in Nat /\ h \in Nat
    BY PlacesFinite, InsertersFinite DEF StringsInv
  <2>5. strings'[x] = p + (n + 1) + h
    BY ONLY <2>3, <2>4
  <2> QED  BY <1>1, <1>5, <2>2, <2>5
<1> QED  BY <1>6, <1>7 DEF StringsInv

\* The string that Slice references is in the slice.
LEMMA SliceStringCounted ==
  ASSUME VectorsInv, StringsInv, NEW t \in Task, SliceString(t), VectorsInv', Others(t)
  PROVE  StringsInv'
<1> PICK c, d : c = call[t] /\ d = c.target
  OBVIOUS
<1> PICK x : x = Items(c.source)[c.i + 1]
  OBVIOUS
<1> PICK k : k = Len(value[d]) + 1
  OBVIOUS
<1>0. c.pc = "slice"
  BY DEF SliceString
<1>2. /\ c \in Calls /\ c.source \in Cell /\ d \in Cell /\ value[d] \in Seq(String)
      /\ c.i \in Nat /\ c.index \in Nat /\ c.i < c.index /\ c.index <= Len(value[c.source])
      /\ value \in [Cell -> Seq(String)] /\ c.op = "slice"
  BY <1>0, SliceFacts DEF VectorsInv, Typed
<1>x. x \in String
  <2>1. Items(c.source) = value[c.source] /\ Len(value[c.source]) \in Nat
    BY <1>2 DEF Items
  <2>2. c.i < Len(Items(c.source))
    BY <1>2, <2>1
  <2> QED  BY <1>2, <2>2, ItemIsString
<1>r. PICK r : r = IF c.i + 1 < c.index THEN [c EXCEPT !.i = @ + 1] ELSE Idle
  OBVIOUS
<1>1. /\ call' = [call EXCEPT ![t] = r]
      /\ value' = [value EXCEPT ![d] = Append(value[d], x)]
      /\ strings' = [strings EXCEPT ![x] = @ + 1] /\ UNCHANGED held
  BY <1>2, <1>r DEF SliceString, Go
<1>3. r.pc \in {"slice", "idle"} /\ r.op # "insert"
  BY <1>0, <1>2, <1>r DEF Idle, Calls
<1>4. /\ k \in 1 .. k /\ k \notin 1 .. Len(value[d])
      /\ value'[d][k] = x /\ Len(value'[d]) = k
      /\ \A j \in 1 .. Len(value[d]) : value'[d][j] = value[d][j] /\ j \in 1 .. k
      /\ \A j \in 1 .. k : j # k => j \in 1 .. Len(value[d])
  <2>z. PICK z : z = Append(value[d], x)
    OBVIOUS
  <2>1. /\ Len(z) = Len(value[d]) + 1 /\ z[Len(value[d]) + 1] = x
        /\ \A j \in 1 .. Len(value[d]) : z[j] = value[d][j]
    BY ONLY <1>2, <1>x, <2>z, AppendedItems
  <2>2. value'[d] = z /\ Len(value[d]) \in Nat
    BY <1>1, <1>2, <2>z
  <2> QED  BY <2>1, <2>2
<1>5. ASSUME NEW y, NEW j
      PROVE  ~Uncounted(c, y, j) /\ ~Uncounted(r, y, j)'
  BY <1>0, <1>3 DEF Uncounted
<1>7. ~Counts(c, x, d, k) /\ Counts(r, x, d, k)'
  BY <1>4, <1>5 DEF Counts, Has
<1>8. ASSUME NEW s \in String, NEW y \in Cell, NEW j \in 1 .. MaxLength,
             s # x \/ y # d \/ j # k
      PROVE  Counts(r, s, y, j)' <=> Counts(c, s, y, j)
  <2>1. CASE y # d
    BY <1>1, <1>2, <1>5, <2>1 DEF Counts, Has
  <2>2. CASE y = d
    <3>1. Has(s, d, j)' <=> Has(s, d, j)
      BY <1>4, <1>8, <2>2 DEF Has
    <3> QED  BY <1>5, <2>2, <3>1 DEF Counts
  <2> QED  BY <2>1, <2>2
<1>9. ~Loose(t, d, k)
  BY <1>0, <1>2, NotLoose DEF Owns
<1>10. SameItem(c, r)
  BY <1>2, <1>3 DEF SameItem
<1>11. AllSameBut(c, r, x, d, k)
  BY <1>8 DEF AllSameBut
<1> QED  BY <1>1, <1>2, <1>x, <1>7, <1>9, <1>10, <1>11, StringAdded

\* A step that leaves as many places of every string counted as before.
LEMMA StringsMoved ==
  ASSUME VectorsInv, VectorsInv', StringsInv, NEW t \in Task, NEW r,
         call' = [call EXCEPT ![t] = r], UNCHANGED <<strings, held>>,
         SameItem(call[t], r),
         \A s \in String : Cardinality(Places(s)') = Cardinality(Places(s))
  PROVE  StringsInv'
<1> SUFFICES ASSUME NEW s \in String
             PROVE  strings'[s] = Cardinality(Places(s)') + Cardinality(Inserters(s)')
                                    + (IF s \in held' THEN 1 ELSE 0)
  BY DEF StringsInv
<1>1. Inserters(s)' = Inserters(s)
  BY ONLY VectorsInv, t \in Task, call' = [call EXCEPT ![t] = r], SameItem(call[t], r),
          InsertersSame
<1> QED  BY <1>1 DEF StringsInv

\* When the strings of the old vector are moved, the copy counts instead of it.
LEMMA MoveCounted ==
  ASSUME VectorsInv, StringsInv, NEW t \in Task, Drop(t), call[t].pc = "move",
         VectorsInv', Others(t)
  PROVE  StringsInv'
<1> PICK c, d : c = call[t] /\ d = data[c.self]
  OBVIOUS
<1> PICK o : o = c.source
  OBVIOUS
<1>2. /\ c \in Calls /\ CallShape(c) /\ c.self \in Vector /\ d \in Cell /\ o \in Cell /\ d # o
      /\ value[d] = value[o] /\ counter[o] = 1
  <2>1. c \in Calls /\ CallShape(c) /\ c.self \in Vector /\ value[d] = value[o] /\ counter[o] = 1
        /\ c.op \in Edits
    BY DEF VectorsInv, Typed, CallShapes, CallShape, OperandShape, SourceShape, EditShape
  <2>2. d \in live /\ o \in Cell /\ d # o
    BY <2>1, SourceIsOther DEF Leaving
  <2> QED  BY <2>1, <2>2 DEF VectorsInv, Typed
<1>r. PICK r : r = [c EXCEPT !.pc = "free"]
  OBVIOUS
<1>1. call' = [call EXCEPT ![t] = r] /\ UNCHANGED <<data, value, strings, held>>
  BY <1>2, <1>r DEF Drop, Go
<1>3. r.pc = "free" /\ r.source = o /\ r.op = c.op /\ r.item = c.item
  BY <1>2, <1>r DEF Calls
<1>4. ASSUME NEW s \in String
      PROVE  Cardinality(Places(s)') = Cardinality(Places(s))
  <2>g. PICK g : g = [p \in Cell \X (1 .. MaxLength) |->
                        IF p[1] = d THEN <<o, p[2]>> ELSE IF p[1] = o THEN <<d, p[2]>> ELSE p]
    OBVIOUS
  <2>1. ASSUME NEW y \in Cell, NEW k \in 1 .. MaxLength
        PROVE  /\ <<y, k>> \in Places(s) <=> Has(s, y, k) /\ ~Loose(t, y, k) /\ y # d
               /\ <<y, k>> \in Places(s)' <=> Has(s, y, k) /\ ~Loose(t, y, k) /\ y # o
    <3>1. Uncounted(c, y, k) <=> y = d
      BY DEF Uncounted
    <3>2. Uncounted(r, y, k)' <=> y = o
      BY <1>3 DEF Uncounted
    <3>3. Has(s, y, k)' <=> Has(s, y, k)
      BY <1>1 DEF Has
    <3>4. <<y, k>> \in Places(s) <=> Counts(call[t], s, y, k) /\ ~Loose(t, y, k)
      BY PlacesNow
    <3>5. <<y, k>> \in Places(s)' <=> Counts(r, s, y, k)' /\ ~Loose(t, y, k)
      BY <1>1, PlacesNext
    <3> QED  BY <3>1, <3>2, <3>3, <3>4, <3>5 DEF Counts
  <2>2. ASSUME NEW k PROVE ~Loose(t, d, k) /\ ~Loose(t, o, k) /\ (Has(s, d, k) <=> Has(s, o, k))
    BY <1>2, NotLoose DEF Owns, Has
  <2>3. /\ Places(s) \subseteq Cell \X (1 .. MaxLength)
        /\ Places(s)' \subseteq Cell \X (1 .. MaxLength)
    BY DEF Places
  <2>4. ASSUME NEW p \in Cell \X (1 .. MaxLength)
        PROVE  /\ p \in Places(s) => g[p] \in Places(s)' /\ g[g[p]] = p
               /\ p \in Places(s)' => g[p] \in Places(s) /\ g[g[p]] = p
    <3>1. PICK y \in Cell, k \in 1 .. MaxLength : p = <<y, k>>
      <4>1. p = <<p[1], p[2]>> /\ p[1] \in Cell /\ p[2] \in 1 .. MaxLength
        OBVIOUS
      <4> QED  BY <4>1
    <3>2. g[<<y, k>>] = IF y = d THEN <<o, k>> ELSE IF y = o THEN <<d, k>> ELSE <<y, k>>
      BY <2>g
    <3>3. g[<<d, k>>] = <<o, k>> /\ g[<<o, k>>] = <<d, k>>
      BY <1>2, <2>g
    <3>4. g[g[<<y, k>>]] = <<y, k>>
      BY ONLY <3>2, <3>3, <1>2
    <3>5. /\ <<y, k>> \in Places(s) => g[<<y, k>>] \in Places(s)'
          /\ <<y, k>> \in Places(s)' => g[<<y, k>>] \in Places(s)
      <4>1. CASE y = d
        BY <1>2, <2>1, <2>2, <3>2, <4>1
      <4>2. CASE y = o
        BY <1>2, <2>1, <2>2, <3>2, <4>2
      <4>3. CASE y # d /\ y # o
        BY <2>1, <3>2, <4>3
      <4> QED  BY <4>1, <4>2, <4>3
    <3> QED  BY <3>1, <3>4, <3>5
  <2> PICK P, Q : P = Places(s) /\ Q = Places(s)'
    OBVIOUS
  <2>5. (\A p \in P : g[p] \in Q /\ g[g[p]] = p) /\ (\A q \in Q : g[q] \in P /\ g[g[q]] = q)
    BY <2>3, <2>4
  <2>6. IsFiniteSet(P)
    BY PlacesFinite
  <2>7. Cardinality(Q) = Cardinality(P)
    BY ONLY <2>5, <2>6, SameSize
  <2> QED  BY <2>7
<1>5. SameItem(c, r)
  BY <1>3 DEF SameItem
<1> QED  BY <1>1, <1>4, <1>5, StringsMoved

\* Dereferencing the old vector counts nothing in another way.
LEMMA DropCounted ==
  ASSUME VectorsInv, StringsInv, NEW t \in Task, Drop(t), VectorsInv', Others(t)
  PROVE  StringsInv'
<1> PICK c : c = call[t]
  OBVIOUS
<1>1. CASE c.pc = "move"
  BY <1>1, MoveCounted
<1>2. CASE c.pc = "drop"
  <2>r. PICK r : r = IF counter[c.source] # 1 THEN Continue(c)
                     ELSE [c EXCEPT !.pc = "strings", !.i = 0]
    OBVIOUS
  <2>1. call' = [call EXCEPT ![t] = r] /\ UNCHANGED <<data, value, strings, held>>
    BY <1>2, <2>r DEF Drop, Go
  <2>2. c \in Calls
    BY DEF VectorsInv, Typed
  <2>3. /\ r.op = c.op /\ r.item = c.item
        /\ r.pc \in {"bind", "store"} \/ (r.pc = "strings" /\ r.i = 0)
    BY <2>r, <2>2 DEF Continue, Calls
  <2>4. ASSUME NEW y, NEW j \in 1 .. MaxLength
        PROVE  ~Uncounted(c, y, j) /\ ~Uncounted(r, y, j)'
    <3>1. ~(j <= 0)
      BY VectorsAssumption
    <3> QED  BY <1>2, <2>3, <3>1 DEF Uncounted
  <2>5. AllSame(c, r)
    BY <2>1, <2>4 DEF AllSame, Counts, Has
  <2>6. SameItem(c, r)
    BY <2>3 DEF SameItem
  <2> QED  BY <2>1, <2>5, <2>6, StringsKept
<1> QED  BY <1>1, <1>2 DEF Drop

\* The strings z are those of vector d, but for x, which is at place n.
Puts(z, d, n, x) ==
  /\ d \in Cell /\ n \in 1 .. Len(z) /\ z[n] = x /\ ~Has(x, d, n)
  /\ \A j : j # n => /\ j \in 1 .. Len(z) <=> j \in 1 .. Len(value[d])
                     /\ j \in 1 .. Len(z) => z[j] = value[d][j]

\* The call c goes on as r, which has stored x there and will reference it.
Stores(c, r, z, d, n, x) ==
  /\ c.pc = "store" /\ c.self \in Vector /\ d = data[c.self] /\ Puts(z, d, n, x)
  /\ value' = [value EXCEPT ![d] = z] /\ data' = data
  /\ r.pc = "refer" /\ r.self = c.self /\ r.item = x

\* When a string is stored at a place and not yet referenced, the string that
\* was there counts once less, and no other string in another way: a place of
\* the new one is uncounted until it is referenced.
LEMMA StoredUncounted ==
  ASSUME VectorsInv, VectorsInv', NEW t \in Task, NEW r, call' = [call EXCEPT ![t] = r],
         Others(t), NEW z, NEW d, NEW n, NEW x, Stores(call[t], r, z, d, n, x), NEW s
  PROVE  /\ Has(s, d, n) => Cardinality(Places(s)') = Cardinality(Places(s)) - 1
         /\ ~Has(s, d, n) => Cardinality(Places(s)') = Cardinality(Places(s))
<1> PICK c, k : c = call[t] /\ k = PlaceOf(z, x)
  OBVIOUS
<1>s. /\ c.pc = "store" /\ c.self \in Vector /\ d = data[c.self] /\ Puts(z, d, n, x)
      /\ value' = [value EXCEPT ![d] = z] /\ data' = data
      /\ r.pc = "refer" /\ r.self = c.self /\ r.item = x
  BY DEF Stores
<1>0. /\ d \in Cell /\ n \in 1 .. Len(z) /\ z[n] = x /\ ~Has(x, d, n)
      /\ \A j : j # n => /\ j \in 1 .. Len(z) <=> j \in 1 .. Len(value[d])
                         /\ j \in 1 .. Len(z) => z[j] = value[d][j]
  BY <1>s DEF Puts
<1>k. k \in 1 .. Len(z) /\ z[k] = x
  BY <1>0, PlaceFound
<1>1. value'[d] = z /\ \A y \in Cell \ {d} : value'[y] = value[y]
  BY <1>0, <1>s DEF VectorsInv, Typed
<1>2. ASSUME NEW y \in Cell, NEW j
      PROVE  ~Uncounted(c, y, j) /\ (Uncounted(r, y, j)' <=> y = d /\ j = k)
  BY <1>1, <1>s DEF Uncounted
<1>3. ASSUME NEW y \in Cell, NEW j, y # d \/ j # n
      PROVE  Has(s, y, j)' <=> Has(s, y, j)
  BY <1>0, <1>1, <1>3 DEF Has
<1>4. Has(s, d, n)' <=> s = x
  BY <1>0, <1>1 DEF Has
<1>5. ~Loose(t, d, n) /\ ~Loose(t, d, k)
  BY <1>0, <1>s, NotLoose
<1>6. VectorsInv /\ VectorsInv' /\ t \in Task /\ call' = [call EXCEPT ![t] = r] /\ Others(t)
  OBVIOUS
<1>f. Cardinality(Places(s)) \in Nat
  BY PlacesFinite
<1>7. CASE Has(s, d, n)
  <2>1. s # x
    BY <1>0, <1>7
  <2>2. Counts(call[t], s, d, n) /\ ~Counts(r, s, d, n)'
    BY <1>0, <1>2, <1>4, <1>7, <2>1 DEF Counts
  <2>3. ~Has(s, d, k)'
    BY <1>k, <1>1, <2>1 DEF Has
  <2>4. \A y \in Cell, j \in 1 .. MaxLength :
          y # d \/ j # n => (Counts(r, s, y, j)' <=> Counts(call[t], s, y, j))
    BY <1>2, <1>3, <2>3 DEF Counts
  <2>5. Cardinality(Places(s)') = Cardinality(Places(s)) - 1
    <3>1. d \in Cell
      BY <1>0
    <3> QED  BY ONLY <1>5, <1>6, <2>2, <2>4, <3>1, PlaceRemoved
  <2> QED  BY <1>7, <2>5
<1>8. CASE ~Has(s, d, n) /\ (s # x \/ k = n)
  <2>1. Has(s, d, n)' => k = n
    BY <1>4, <1>8
  <2>2. Has(s, d, k)' => k = n
    BY <1>k, <1>1, <1>8 DEF Has
  <2>3. \A y \in Cell, j \in 1 .. MaxLength : Counts(r, s, y, j)' <=> Counts(call[t], s, y, j)
    BY <1>2, <1>3, <1>8, <2>1, <2>2 DEF Counts
  <2>4. Places(s)' = Places(s)
    BY ONLY <1>6, <2>3, PlacesKept
  <2> QED  BY <1>f, <1>8, <2>4
<1>9. CASE s = x /\ k # n
  <2>1. Has(s, d, k) /\ Has(s, d, n)' /\ ~Has(s, d, n)
    BY <1>0, <1>k, <1>4, <1>9 DEF Has
  <2>2. /\ Counts(call[t], s, d, k) /\ ~Counts(r, s, d, k)'
        /\ ~Counts(call[t], s, d, n) /\ Counts(r, s, d, n)'
    BY <1>0, <1>2, <1>9, <2>1 DEF Counts
  <2>3. SameButTwo(call[t], r, s, d, k, n)
    BY <1>2, <1>3 DEF Counts, SameButTwo
  <2>4. d \in Cell /\ k # n
    BY <1>0, <1>9
  <2>5. Cardinality(Places(s)') = Cardinality(Places(s))
    BY ONLY <1>5, <1>6, <2>2, <2>3, <2>4, PlaceSwapped
  <2> QED  BY <1>f, <2>1, <2>5
<1> QED  BY <1>0, <1>7, <1>8, <1>9

\* Append stores its item before it references it.
LEMMA StoreAppendedCounted ==
  ASSUME VectorsInv, StringsInv, NEW t \in Task, StoreAppended(t), VectorsInv', Others(t)
  PROVE  StringsInv'
<1> PICK c, d : c = call[t] /\ d = data[c.self]
  OBVIOUS
<1> PICK x, n : x = c.item /\ n = Len(value[d]) + 1
  OBVIOUS
<1>z. PICK z : z = Append(value[d], x)
  OBVIOUS
<1>r. PICK r : r = [c EXCEPT !.pc = "refer", !.index = 0]
  OBVIOUS
<1>1. /\ c.pc = "store" /\ c.op = "append" /\ call' = [call EXCEPT ![t] = r]
      /\ value' = [value EXCEPT ![d] = z] /\ UNCHANGED <<data, strings, held>>
  BY <1>r, <1>z DEF StoreAppended, Storing, Store, Go
<1>2. /\ c \in Calls /\ CallShape(c) /\ c.self \in Vector /\ d \in Cell
      /\ value[d] \in Seq(String)
  BY <1>1, StoringFacts
<1>x. x \in String
  BY <1>1, <1>2 DEF CallShape, EditShape, Edits
<1>3. r.pc = "refer" /\ r.self = c.self /\ r.item = x /\ r.op = "append"
  BY <1>1, <1>2, <1>r DEF Calls
<1>4. Puts(z, d, n, x)
  <2>1. /\ Len(z) = Len(value[d]) + 1 /\ z[Len(value[d]) + 1] = x
        /\ \A j \in 1 .. Len(value[d]) : z[j] = value[d][j]
    BY ONLY <1>2, <1>x, <1>z, AppendedItems
  <2>2. Len(value[d]) \in Nat
    BY <1>2
  <2>3. n \in 1 .. Len(z) /\ n \notin 1 .. Len(value[d])
    BY <2>1, <2>2
  <2>4. \A j : j # n => (j \in 1 .. Len(z) <=> j \in 1 .. Len(value[d]))
    BY <2>1, <2>2
  <2> QED  BY <1>2, <2>1, <2>3, <2>4 DEF Puts, Has
<1>5. ASSUME NEW s \in String PROVE Cardinality(Places(s)') = Cardinality(Places(s))
  <2>1. ~Has(s, d, n)
    <3>1. Len(value[d]) \in Nat
      BY <1>2
    <3> QED  BY <3>1 DEF Has
  <2>2. ~Has(s, d, n) => Cardinality(Places(s)') = Cardinality(Places(s))
    <3>1. VectorsInv /\ VectorsInv' /\ t \in Task /\ call' = [call EXCEPT ![t] = r] /\ Others(t)
      BY <1>1
    <3>2. Stores(call[t], r, z, d, n, x)
      BY <1>1, <1>2, <1>3, <1>4 DEF Stores
    <3> QED  BY ONLY <3>1, <3>2, StoredUncounted
  <2> QED  BY <2>1, <2>2, PlacesFinite
<1>6. SameItem(c, r)
  BY <1>1, <1>3 DEF SameItem
<1> QED  BY <1>1, <1>5, <1>6, StringsMoved

\* Replace releases the string that it replaces by another one.
LEMMA StoreReplacedCounted ==
  ASSUME VectorsInv, StringsInv, NEW t \in Task, StoreReplaced(t), VectorsInv', Others(t)
  PROVE  StringsInv'
<1> PICK c, d : c = call[t] /\ d = data[c.self]
  OBVIOUS
<1> PICK x, n : x = c.item /\ n = c.index + 1
  OBVIOUS
<1> PICK old : old = value[d][n]
  OBVIOUS
<1>1. c.pc = "store" /\ c.op = "replace"
  BY DEF StoreReplaced, Storing
<1>2. /\ c \in Calls /\ CallShape(c) /\ c.self \in Vector /\ d \in Cell
      /\ value[d] \in Seq(String) /\ value \in [Cell -> Seq(String)]
  BY <1>1, StoringFacts DEF VectorsInv, Typed
<1>3. x \in String /\ n \in 1 .. Len(value[d]) /\ old \in String
  <2>1. c.index \in Nat /\ c.index < Len(value[d])
    BY <1>1, <1>2 DEF CallShape, FitShape, Calls
  <2>2. Len(value[d]) \in Nat
    BY <1>2
  <2> QED  BY <1>1, <1>2, <2>1, <2>2 DEF CallShape, EditShape, Edits
<1>4. CASE old = x
  <2>r. PICK r : r = Idle
    OBVIOUS
  <2>1. value' = value /\ call' = [call EXCEPT ![t] = r] /\ UNCHANGED <<strings, held>>
    BY <1>2, <1>4, <2>r DEF StoreReplaced, Store, Go
  <2>2. r.pc = "idle" /\ r.op = "none"
    BY <2>r DEF Idle
  <2>3. AllSame(c, r)
    BY <1>1, <2>1, <2>2, PlainKept DEF Plain
  <2>4. SameItem(c, r)
    BY <1>1, <2>2 DEF SameItem
  <2> QED  BY <2>1, <2>3, <2>4, StringsKept
<1>5. CASE old # x
  <2>z. PICK z : z = [value[d] EXCEPT ![n] = x]
    OBVIOUS
  <2>r. PICK r : r = [c EXCEPT !.pc = "refer", !.index = 0]
    OBVIOUS
  <2>1. /\ value' = [value EXCEPT ![d] = z] /\ call' = [call EXCEPT ![t] = r]
        /\ UNCHANGED <<data, held>> /\ strings' = [strings EXCEPT ![old] = @ - 1]
    BY <1>5, <2>z, <2>r DEF StoreReplaced, Store, Go
  <2>2. r.pc = "refer" /\ r.self = c.self /\ r.item = x /\ r.op = "replace"
    BY <1>1, <1>2, <2>r DEF Calls
  <2>3. Puts(z, d, n, x)
    <3>1. Len(z) = Len(value[d]) /\ z[n] = x /\ \A j : j # n /\ j \in 1 .. Len(z) => z[j] = value[d][j]
      BY ONLY <1>2, <1>3, <2>z
    <3> QED  BY <1>2, <1>3, <1>5, <3>1 DEF Puts, Has
  <2>4. Stores(call[t], r, z, d, n, x)
    BY <1>1, <1>2, <2>1, <2>2, <2>3 DEF Stores
  <2>5. VectorsInv /\ VectorsInv' /\ t \in Task /\ call' = [call EXCEPT ![t] = r] /\ Others(t)
    BY <2>1
  <2>6. SameItem(c, r)
    BY <1>1, <2>2 DEF SameItem
  <2>7. strings \in [String -> Int]
    BY DEF VectorsInv, Typed
  <2>8. ASSUME NEW s \in String
        PROVE  strings'[s] = Cardinality(Places(s)') + Cardinality(Inserters(s)')
                               + (IF s \in held' THEN 1 ELSE 0)
    <3>1. /\ Has(s, d, n) => Cardinality(Places(s)') = Cardinality(Places(s)) - 1
          /\ ~Has(s, d, n) => Cardinality(Places(s)') = Cardinality(Places(s))
      BY ONLY <2>4, <2>5, StoredUncounted
    <3>2. Has(s, d, n) <=> s = old
      BY <1>3 DEF Has
    <3>3. strings'[s] = strings[s] - (IF s = old THEN 1 ELSE 0) /\ strings[s] \in Int
      BY ONLY <1>3, <2>1, <2>7, s \in String
    <3>4. Cardinality(Places(s)) \in Nat
      BY PlacesFinite
    <3>5. strings'[s] - strings[s] = Cardinality(Places(s)') - Cardinality(Places(s))
      BY <3>1, <3>2, <3>3, <3>4
    <3>6. strings'[s] \in Int
      BY <3>3
    <3>7. Inserters(s)' = Inserters(s)
      BY ONLY <2>5, <2>6, c = call[t], InsertersSame
    <3> QED  BY <2>1, <3>5, <3>6, <3>7, StringCounted
  <2> QED  BY <2>8 DEF StringsInv
<1> QED  BY <1>4, <1>5

\* Which places count before and after a step of a call that references and
\* releases nothing before it.
LEMMA PlainPlaces ==
  ASSUME VectorsInv, VectorsInv', NEW t \in Task, NEW r, call' = [call EXCEPT ![t] = r],
         Others(t), Plain(call[t]), NEW s
  PROVE  /\ Places(s) \subseteq Cell \X Int /\ Places(s)' \subseteq Cell \X Int
         /\ \A y \in Cell : \A k : <<y, k>> \in Places(s) <=> Has(s, y, k) /\ ~Loose(t, y, k)
         /\ \A y \in Cell : \A k :
              <<y, k>> \in Places(s)' <=> Has(s, y, k)' /\ ~Uncounted(r, y, k)' /\ ~Loose(t, y, k)
<1>1. /\ Places(s) \subseteq Cell \X (1 .. MaxLength)
      /\ Places(s)' \subseteq Cell \X (1 .. MaxLength)
  BY DEF Places
<1>2. 1 .. MaxLength \subseteq Int
  BY VectorsAssumption
<1>3. ASSUME NEW y \in Cell, NEW k
      PROVE  <<y, k>> \in Places(s) <=> Has(s, y, k) /\ ~Loose(t, y, k)
  <2>1. ~Uncounted(call[t], y, k)
    BY DEF Plain, Uncounted
  <2>2. Counts(call[t], s, y, k) <=> Has(s, y, k)
    BY <2>1 DEF Counts
  <2>3. Counts(call[t], s, y, k) => k \in 1 .. MaxLength
    BY CountsWithin
  <2>4. k \in 1 .. MaxLength => (<<y, k>> \in Places(s) <=> Counts(call[t], s, y, k) /\ ~Loose(t, y, k))
    BY PlacesNow
  <2> QED  BY <1>1, <2>2, <2>3, <2>4
<1>4. ASSUME NEW y \in Cell, NEW k
      PROVE  <<y, k>> \in Places(s)' <=> Has(s, y, k)' /\ ~Uncounted(r, y, k)' /\ ~Loose(t, y, k)
  <2>1. Counts(r, s, y, k)' => k \in 1 .. MaxLength
    BY CountsWithinNext
  <2>2. k \in 1 .. MaxLength => (<<y, k>> \in Places(s)' <=> Counts(r, s, y, k)' /\ ~Loose(t, y, k))
    BY PlacesNext
  <2>3. Counts(r, s, y, k)' <=> Has(s, y, k)' /\ ~Uncounted(r, y, k)'
    BY DEF Counts
  <2> QED  BY <1>1, <2>1, <2>2, <2>3
<1> QED  BY <1>1, <1>2, <1>3, <1>4

\* The call c is over as r, with x put behind the first i strings of vector d.
InsertsAt(c, r, z, d, i, x) ==
  /\ c.pc = "store" /\ c.self \in Vector /\ r.pc = "idle"
  /\ d \in Cell /\ d = data[c.self] /\ i \in Nat /\ i <= Len(value[d])
  /\ value' = [value EXCEPT ![d] = z] /\ IsInserted(z, value[d], i, x)

\* Insert moves the strings behind the index by one place, and its item, which
\* it has referenced, counts at the index.
LEMMA InsertedPlaces ==
  ASSUME VectorsInv, VectorsInv', NEW t \in Task, NEW r, call' = [call EXCEPT ![t] = r],
         Others(t), NEW z, NEW d, NEW i, NEW x, InsertsAt(call[t], r, z, d, i, x), NEW s
  PROVE  /\ s # x => Cardinality(Places(s)') = Cardinality(Places(s))
         /\ s = x => Cardinality(Places(s)') = Cardinality(Places(s)) + 1
<1> PICK n, e : n = Len(value[d]) /\ e = <<d, i + 1>>
  OBVIOUS
<1>s. /\ call[t].pc = "store" /\ call[t].self \in Vector /\ r.pc = "idle"
      /\ d \in Cell /\ d = data[call[t].self] /\ i \in Nat /\ i <= Len(value[d])
      /\ value' = [value EXCEPT ![d] = z] /\ IsInserted(z, value[d], i, x)
  BY DEF InsertsAt
<1>i. /\ i \in Nat /\ d \in Cell /\ z \in Seq(String) /\ Len(z) = n + 1 /\ n \in Nat /\ i <= n
      /\ \A k \in 1 .. i : z[k] = value[d][k]
      /\ z[i + 1] = x
      /\ \A k \in i + 1 .. n : z[k + 1] = value[d][k]
  BY <1>s DEF IsInserted, VectorsInv, Typed
<1>1. value'[d] = z /\ \A y \in Cell \ {d} : value'[y] = value[y]
  BY <1>s DEF VectorsInv, Typed
<1>2. ASSUME NEW k PROVE ~Loose(t, d, k)
  BY <1>s, NotLoose
<1>3. Plain(call[t]) /\ \A y, k : ~Uncounted(r, y, k)'
  BY <1>s DEF Plain, Uncounted
<1>4. /\ Places(s) \subseteq Cell \X Int /\ Places(s)' \subseteq Cell \X Int
      /\ \A y \in Cell : \A k : <<y, k>> \in Places(s) <=> Has(s, y, k) /\ ~Loose(t, y, k)
      /\ \A y \in Cell : \A k : <<y, k>> \in Places(s)' <=> Has(s, y, k)' /\ ~Loose(t, y, k)
  BY <1>3, PlainPlaces
<1>5. ASSUME NEW y \in Cell, NEW k, y # d
      PROVE  <<y, k>> \in Places(s)' <=> <<y, k>> \in Places(s)
  BY <1>1, <1>4, <1>5 DEF Has
<1>6. ASSUME NEW k \in Int
      PROVE  /\ <<d, k>> \in Places(s) <=> k \in 1 .. n /\ value[d][k] = s
             /\ <<d, k>> \in Places(s)' <=> k \in 1 .. n + 1 /\ z[k] = s
  BY <1>i, <1>1, <1>2, <1>4 DEF Has
<1>7. e \in Places(s)' <=> s = x
  <2>1. i + 1 \in 1 .. n + 1
    BY <1>i
  <2> QED  BY <1>i, <1>6, <2>1
<1>8. /\ \A k \in 1 .. i : <<d, k>> \in Places(s) <=> <<d, k>> \in Places(s)'
      /\ \A k \in i + 1 .. n : <<d, k>> \in Places(s) <=> <<d, k + 1>> \in Places(s)'
      /\ \A k \in Int : <<d, k>> \in Places(s) => k \in 1 .. n
      /\ \A k \in Int : <<d, k>> \in Places(s)' => k \in 1 .. n + 1
  <2>1. ASSUME NEW k \in 1 .. i PROVE <<d, k>> \in Places(s) <=> <<d, k>> \in Places(s)'
    <3>1. i \in Nat /\ n \in Nat /\ i <= n /\ z[k] = value[d][k]
      BY <1>i
    <3>2. k \in Int /\ k \in 1 .. n /\ k \in 1 .. n + 1
      BY ONLY <3>1, k \in 1 .. i
    <3> QED  BY <1>6, <3>1, <3>2
  <2>2. ASSUME NEW k \in i + 1 .. n PROVE <<d, k>> \in Places(s) <=> <<d, k + 1>> \in Places(s)'
    <3>1. i \in Nat /\ n \in Nat /\ i <= n /\ z[k + 1] = value[d][k]
      BY <1>i
    <3>2. k \in Int /\ k + 1 \in Int /\ k \in 1 .. n /\ k + 1 \in 1 .. n + 1
      BY ONLY <3>1, k \in i + 1 .. n
    <3> QED  BY <1>6, <3>1, <3>2
  <2> QED  BY <1>6, <2>1, <2>2
<1> PICK P, Q : P = Places(s) /\ Q = Places(s)' \ {e}
  OBVIOUS
<1>g. PICK g : g = [p \in Cell \X Int |-> IF p[1] = d /\ p[2] > i THEN <<d, p[2] + 1>> ELSE p]
  OBVIOUS
<1>h. PICK h : h = [p \in Cell \X Int |-> IF p[1] = d /\ p[2] > i + 1 THEN <<d, p[2] - 1>> ELSE p]
  OBVIOUS
<1>9. \A p \in P : g[p] \in Q /\ h[g[p]] = p
  <2>1. ASSUME NEW y \in Cell, NEW k \in Int, <<y, k>> \in P
        PROVE  g[<<y, k>>] \in Q /\ h[g[<<y, k>>]] = <<y, k>>
    <3>1. CASE y # d
      BY <1>5, <1>g, <1>h, <2>1, <3>1
    <3>2. CASE y = d /\ k <= i
      <4>1. k \in 1 .. i /\ ~(k > i) /\ ~(k > i + 1) /\ k # i + 1
        BY <1>i, <1>8, <2>1, <3>2
      <4>2. g[<<d, k>>] = <<d, k>> /\ h[<<d, k>>] = <<d, k>>
        BY <1>i, <1>g, <1>h, <4>1
      <4> QED  BY <1>8, <2>1, <3>2, <4>1, <4>2
    <3>3. CASE y = d /\ k > i
      <4>1. k \in i + 1 .. n /\ k + 1 > i + 1 /\ k + 1 # i + 1 /\ (k + 1) - 1 = k /\ k + 1 \in Int
        BY <1>i, <1>8, <2>1, <3>3
      <4>2. g[<<d, k>>] = <<d, k + 1>>
        BY <1>i, <1>g, <3>3
      <4>3. h[<<d, k + 1>>] = <<d, k>>
        BY <1>i, <1>h, <4>1
      <4> QED  BY <1>8, <2>1, <3>3, <4>1, <4>2, <4>3
    <3>4. y # d \/ (y = d /\ k <= i) \/ (y = d /\ k > i)
      BY <1>i
    <3> QED  BY ONLY <3>1, <3>2, <3>3, <3>4
  <2> TAKE p \in P
  <2>2. PICK y \in Cell, k \in Int : p = <<y, k>>
    BY <1>4
  <2>3. <<y, k>> \in P
    BY <2>2
  <2> QED  BY ONLY <2>1, <2>2, <2>3, y \in Cell, k \in Int
<1>10. \A q \in Q : h[q] \in P /\ g[h[q]] = q
  <2>1. ASSUME NEW y \in Cell, NEW k \in Int, <<y, k>> \in Q
        PROVE  h[<<y, k>>] \in P /\ g[h[<<y, k>>]] = <<y, k>>
    <3>1. CASE y # d
      BY <1>5, <1>g, <1>h, <2>1, <3>1
    <3>2. CASE y = d /\ k <= i
      <4>1. k \in 1 .. i /\ ~(k > i) /\ ~(k > i + 1)
        BY <1>i, <1>8, <2>1, <3>2
      <4>2. g[<<d, k>>] = <<d, k>> /\ h[<<d, k>>] = <<d, k>>
        BY <1>i, <1>g, <1>h, <4>1
      <4> QED  BY <1>8, <2>1, <3>2, <4>1, <4>2
    <3>3. CASE y = d /\ k > i
      <4> PICK j : j = k - 1
        OBVIOUS
      <4>1. k # i + 1
        BY <2>1, <3>3
      <4>2. k \in 1 .. n + 1
        BY <1>i, <1>8, <2>1, <3>3
      <4>3. j \in i + 1 .. n /\ k > i + 1 /\ j > i /\ j + 1 = k /\ j \in Int
        BY <1>i, <3>3, <4>1, <4>2
      <4>4. h[<<d, k>>] = <<d, j>>
        BY <1>i, <1>h, <4>3
      <4>5. g[<<d, j>>] = <<d, k>>
        BY <1>i, <1>g, <4>3
      <4> QED  BY <1>8, <2>1, <3>3, <4>3, <4>4, <4>5
    <3>4. y # d \/ (y = d /\ k <= i) \/ (y = d /\ k > i)
      BY <1>i
    <3> QED  BY ONLY <3>1, <3>2, <3>3, <3>4
  <2> TAKE q \in Q
  <2>2. PICK y \in Cell, k \in Int : q = <<y, k>>
    BY <1>4
  <2>3. <<y, k>> \in Q
    BY <2>2
  <2> QED  BY ONLY <2>1, <2>2, <2>3, y \in Cell, k \in Int
<1>11. IsFiniteSet(P) /\ Cardinality(Q) = Cardinality(P)
  <2>1. IsFiniteSet(P)
    BY PlacesFinite
  <2> QED  BY ONLY <1>9, <1>10, <2>1, SameSize
<1>12. IsFiniteSet(Places(s)')
  <2>1. Places(s)' \subseteq Cell \X (1 .. MaxLength)
    BY DEF Places
  <2>2. IsFiniteSet(1 .. MaxLength)
    BY VectorsAssumption, FS_Interval
  <2>3. IsFiniteSet(Cell \X (1 .. MaxLength))
    BY <2>2, VectorsAssumption, FS_Product
  <2> QED  BY <2>1, <2>3, FS_Subset
<1>13. CASE s # x
  <2>1. Q = Places(s)'
    BY <1>7, <1>13
  <2> QED  BY <1>11, <1>13, <2>1
<1>14. CASE s = x
  <2>1. Places(s)' = Q \cup {e} /\ e \notin Q
    BY <1>7, <1>14
  <2>2. IsFiniteSet(Q)
    BY <1>12, FS_Subset
  <2>3. Cardinality(Places(s)') = Cardinality(Q) + 1
    BY <2>1, <2>2, CardMore
  <2> QED  BY <1>11, <1>14, <2>3
<1> QED  BY <1>13, <1>14

\* What Insert has referenced for itself now counts for the vector.
LEMMA StoreInsertedCounted ==
  ASSUME VectorsInv, StringsInv, NEW t \in Task, StoreInserted(t), VectorsInv', Others(t)
  PROVE  StringsInv'
<1> PICK c, d : c = call[t] /\ d = data[c.self]
  OBVIOUS
<1> PICK x, i : x = c.item /\ i = c.index
  OBVIOUS
<1>z. PICK z : z = Inserted(value[d], i, x)
  OBVIOUS
<1>r. PICK r : r = Idle
  OBVIOUS
<1>1. /\ c.pc = "store" /\ c.op = "insert"
      /\ value' = [value EXCEPT ![d] = z] /\ call' = [call EXCEPT ![t] = r]
      /\ UNCHANGED <<strings, held>>
  BY <1>z, <1>r DEF StoreInserted, Storing, Store, Go
<1>2. /\ c \in Calls /\ CallShape(c) /\ c.self \in Vector /\ d \in Cell
      /\ value[d] \in Seq(String)
  BY <1>1, StoringFacts
<1>3. x \in String /\ i <= Len(value[d]) /\ i \in Nat
  BY <1>1, <1>2 DEF CallShape, EditShape, FitShape, Edits, Calls
<1>4. IsInserted(z, value[d], i, x)
  BY <1>z, <1>2, <1>3, InsertedItems
<1>5. r.pc = "idle" /\ r.op = "none"
  BY <1>r DEF Idle
<1>c. Typed /\ \A u \in Task : call'[u] = IF u = t THEN r ELSE call[u]
  BY <1>1 DEF VectorsInv, Typed
<1>6. ASSUME NEW s \in String
      PROVE  /\ s # x => Cardinality(Places(s)') = Cardinality(Places(s))
             /\ s = x => Cardinality(Places(s)') = Cardinality(Places(s)) + 1
  <2>1. VectorsInv /\ VectorsInv' /\ t \in Task /\ call' = [call EXCEPT ![t] = r] /\ Others(t)
    BY <1>1
  <2>2. InsertsAt(call[t], r, z, d, i, x)
    BY <1>1, <1>2, <1>3, <1>4, <1>5 DEF InsertsAt
  <2> QED  BY ONLY <2>1, <2>2, InsertedPlaces
<1>7. ASSUME NEW s \in String, s # x
      PROVE  strings'[s] = Cardinality(Places(s)') + Cardinality(Inserters(s)')
                             + (IF s \in held' THEN 1 ELSE 0)
  <2>1. Inserters(s)' = Inserters(s)
    BY <1>1, <1>5, <1>7, <1>c DEF Inserters
  <2> QED  BY <1>1, <1>6, <1>7, <2>1 DEF StringsInv
<1>8. strings'[x] = Cardinality(Places(x)') + Cardinality(Inserters(x)')
                      + (IF x \in held' THEN 1 ELSE 0)
  <2>1. Inserters(x)' = Inserters(x) \ {t} /\ t \in Inserters(x)
    BY <1>1, <1>5, <1>c DEF Inserters
  <2>2. Cardinality(Inserters(x)') = Cardinality(Inserters(x)) - 1
    BY <2>1, InsertersFinite, CardLess
  <2> PICK p, n, h : /\ p = Cardinality(Places(x)) /\ n = Cardinality(Inserters(x))
                     /\ h = IF x \in held THEN 1 ELSE 0
    OBVIOUS
  <2>3. strings[x] = p + n + h /\ p \in Nat /\ n \in Nat /\ h \in Nat
    BY <1>3, PlacesFinite, InsertersFinite DEF StringsInv
  <2>4. strings[x] = (p + 1) + (n - 1) + h
    BY ONLY <2>3
  <2> QED  BY <1>1, <1>3, <1>6, <2>2, <2>4
<1> QED  BY <1>7, <1>8 DEF StringsInv

\* Prepend moves the strings of its vector behind those of the operand, which
\* do not count yet.
LEMMA PrependedPlaces ==
  ASSUME VectorsInv, VectorsInv', NEW t \in Task, NEW r, call' = [call EXCEPT ![t] = r],
         Others(t), call[t].pc = "store", call[t].self \in Vector,
         NEW d \in Cell, d = data[call[t].self], NEW a \in Seq(String),
         NEW z, value' = [value EXCEPT ![d] = z], data' = data, IsJoined(z, a, value[d]),
         r.pc = "spread", r.i = 0, r.self = call[t].self, value'[r.other] = a,
         NEW s
  PROVE  Cardinality(Places(s)') = Cardinality(Places(s))
<1> PICK n, m : n = Len(value[d]) /\ m = Len(a)
  OBVIOUS
<1>i. /\ z \in Seq(String) /\ Len(z) = m + n /\ m \in Nat /\ n \in Nat
      /\ \A k \in 1 .. n : z[m + k] = value[d][k]
  BY DEF IsJoined, VectorsInv, Typed
<1>1. value'[d] = z /\ \A y \in Cell \ {d} : value'[y] = value[y]
  BY DEF VectorsInv, Typed
<1>2. ASSUME NEW k PROVE ~Loose(t, d, k)
  BY NotLoose
<1>3. Plain(call[t])
  BY DEF Plain
<1>4. /\ Places(s) \subseteq Cell \X Int /\ Places(s)' \subseteq Cell \X Int
      /\ \A y \in Cell : \A k : <<y, k>> \in Places(s) <=> Has(s, y, k) /\ ~Loose(t, y, k)
      /\ \A y \in Cell : \A k :
           <<y, k>> \in Places(s)' <=> Has(s, y, k)' /\ ~Uncounted(r, y, k)' /\ ~Loose(t, y, k)
  BY <1>3, PlainPlaces
<1>u. ASSUME NEW y, NEW k PROVE Uncounted(r, y, k)' <=> y = d /\ k \in 1 .. m
  <2>1. 0 + 1 .. m = 1 .. m
    OBVIOUS
  <2> QED  BY <2>1 DEF Uncounted
<1>5. ASSUME NEW y \in Cell, NEW k, y # d
      PROVE  <<y, k>> \in Places(s)' <=> <<y, k>> \in Places(s)
  BY <1>1, <1>4, <1>5, <1>u DEF Has
<1>6. ASSUME NEW k \in Int
      PROVE  /\ <<d, k>> \in Places(s) <=> k \in 1 .. n /\ value[d][k] = s
             /\ <<d, k>> \in Places(s)' <=> k \in m + 1 .. m + n /\ z[k] = s
  <2>1. k \in 1 .. m + n /\ k \notin 1 .. m <=> k \in m + 1 .. m + n
    BY <1>i
  <2>2. <<d, k>> \in Places(s) <=> Has(s, d, k)
    BY <1>2, <1>4
  <2>3. <<d, k>> \in Places(s)' <=> Has(s, d, k)' /\ k \notin 1 .. m
    BY <1>2, <1>4, <1>u
  <2>4. Has(s, d, k)' <=> k \in 1 .. m + n /\ z[k] = s
    BY <1>i, <1>1 DEF Has
  <2>5. Has(s, d, k) <=> k \in 1 .. n /\ value[d][k] = s
    BY DEF Has
  <2> QED  BY ONLY <2>1, <2>2, <2>3, <2>4, <2>5
<1>8. /\ \A k \in 1 .. n : <<d, k>> \in Places(s) <=> <<d, m + k>> \in Places(s)'
      /\ \A k \in Int : <<d, k>> \in Places(s) => k \in 1 .. n
      /\ \A k \in Int : <<d, k>> \in Places(s)' => k \in m + 1 .. m + n
  <2>1. ASSUME NEW k \in 1 .. n PROVE <<d, k>> \in Places(s) <=> <<d, m + k>> \in Places(s)'
    <3>1. m \in Nat /\ n \in Nat /\ z[m + k] = value[d][k]
      BY <1>i
    <3>2. k \in Int /\ m + k \in Int /\ m + k \in m + 1 .. m + n
      BY ONLY <3>1, k \in 1 .. n
    <3> QED  BY <1>6, <3>1, <3>2
  <2> QED  BY <1>6, <2>1
<1> PICK P, Q : P = Places(s) /\ Q = Places(s)'
  OBVIOUS
<1>g. PICK g : g = [p \in Cell \X Int |-> IF p[1] = d THEN <<d, m + p[2]>> ELSE p]
  OBVIOUS
<1>h. PICK h : h = [p \in Cell \X Int |-> IF p[1] = d THEN <<d, p[2] - m>> ELSE p]
  OBVIOUS
<1>9. \A p \in P : g[p] \in Q /\ h[g[p]] = p
  <2>1. ASSUME NEW y \in Cell, NEW k \in Int, <<y, k>> \in P
        PROVE  g[<<y, k>>] \in Q /\ h[g[<<y, k>>]] = <<y, k>>
    <3>1. CASE y # d
      BY <1>5, <1>g, <1>h, <2>1, <3>1
    <3>2. CASE y = d
      <4>1. k \in 1 .. n /\ m + k \in Int /\ (m + k) - m = k
        <5>1. k \in 1 .. n
          BY <1>8, <2>1, <3>2
        <5>2. m \in Nat /\ n \in Nat
          BY <1>i
        <5> QED  BY ONLY <5>1, <5>2
      <4>l. PICK l : l = m + k
        OBVIOUS
      <4>2. g[<<d, k>>] = <<d, l>>
        BY <1>g, <4>l
      <4>3. h[<<d, l>>] = <<d, k>>
        <5>1. h[<<d, l>>] = <<d, l - m>>
          <6>1. <<d, l>> \in Cell \X Int
            BY <4>1, <4>l
          <6> QED  BY ONLY <1>h, <6>1
        <5> QED  BY <4>1, <4>l, <5>1
      <4> QED  BY <1>8, <2>1, <3>2, <4>1, <4>l, <4>2, <4>3
    <3> QED  BY <3>1, <3>2
  <2> TAKE p \in P
  <2>2. PICK y \in Cell, k \in Int : p = <<y, k>>
    BY <1>4
  <2>3. <<y, k>> \in P
    BY <2>2
  <2> QED  BY ONLY <2>1, <2>2, <2>3, y \in Cell, k \in Int
<1>10. \A q \in Q : h[q] \in P /\ g[h[q]] = q
  <2>1. ASSUME NEW y \in Cell, NEW k \in Int, <<y, k>> \in Q
        PROVE  h[<<y, k>>] \in P /\ g[h[<<y, k>>]] = <<y, k>>
    <3>1. CASE y # d
      BY <1>5, <1>g, <1>h, <2>1, <3>1
    <3>2. CASE y = d
      <4>j. PICK j : j = k - m
        OBVIOUS
      <4>1. k \in m + 1 .. m + n
        BY <1>8, <2>1, <3>2
      <4>2. j \in 1 .. n /\ j \in Int /\ m + j = k
        BY <1>i, <4>1, <4>j
      <4>3. h[<<d, k>>] = <<d, j>>
        BY <1>h, <4>j
      <4>4. g[<<d, j>>] = <<d, k>>
        <5>1. g[<<d, j>>] = <<d, m + j>>
          BY <1>g, <4>2
        <5> QED  BY <4>2, <5>1
      <4> QED  BY <1>8, <2>1, <3>2, <4>2, <4>3, <4>4
    <3> QED  BY <3>1, <3>2
  <2> TAKE q \in Q
  <2>2. PICK y \in Cell, k \in Int : q = <<y, k>>
    BY <1>4
  <2>3. <<y, k>> \in Q
    BY <2>2
  <2> QED  BY ONLY <2>1, <2>2, <2>3, y \in Cell, k \in Int
<1>11. IsFiniteSet(P)
  BY PlacesFinite
<1>12. Cardinality(Q) = Cardinality(P)
  BY ONLY <1>9, <1>10, <1>11, SameSize
<1> QED  BY <1>12

\* What Prepend stores counts as it is referenced.
LEMMA StorePrependedCounted ==
  ASSUME VectorsInv, StringsInv, NEW t \in Task, StorePrepended(t), VectorsInv', Others(t)
  PROVE  StringsInv'
<1> PICK c, d : c = call[t] /\ d = data[c.self]
  OBVIOUS
<1>d. PICK a : a = Items(c.other)
  OBVIOUS
<1>z. PICK z : z = a \o value[d]
  OBVIOUS
<1>r. PICK r : r = [c EXCEPT !.pc = "spread", !.index = 0]
  OBVIOUS
<1>1. /\ c.pc = "store" /\ c.op = "prepend"
      /\ value' = [value EXCEPT ![d] = z] /\ call' = [call EXCEPT ![t] = r]
      /\ UNCHANGED <<data, strings, held>>
  BY <1>d, <1>z, <1>r DEF StorePrepended, Storing, Store, Go
<1>2. /\ c \in Calls /\ CallShape(c) /\ c.self \in Vector /\ d \in Cell
      /\ value[d] \in Seq(String) /\ c.i = 0 /\ counter[d] = 1
  BY <1>1, StoringFacts DEF CallShape, EditShape, Edits
<1>3. c.from \in Vector /\ c.from # c.self /\ c.other \in Cell /\ c.other = data[c.from]
  BY <1>1, <1>2 DEF CallShape, OperandShape, EditShape
<1>4. c.other # d
  <2>1. c.self \in Holders(d) /\ (c.other = d => c.from \in Holders(d))
    BY <1>2, <1>3, HoldersNow
  <2> QED  BY <1>2, <1>3, <2>1, SoleHolder
<1>5. a \in Seq(String) /\ value'[c.other] = a
  BY <1>1, <1>2, <1>3, <1>4, <1>d DEF Items, VectorsInv, Typed
<1>6. IsJoined(z, a, value[d])
  BY <1>z, <1>2, <1>5, PrependedItems
<1>7. r.pc = "spread" /\ r.i = 0 /\ r.self = c.self /\ r.other = c.other /\ r.op = "prepend"
  BY <1>1, <1>2, <1>r DEF Calls
<1>8. ASSUME NEW s \in String PROVE Cardinality(Places(s)') = Cardinality(Places(s))
  <2>1. /\ VectorsInv /\ VectorsInv' /\ t \in Task /\ call' = [call EXCEPT ![t] = r] /\ Others(t)
        /\ call[t].pc = "store" /\ call[t].self \in Vector
        /\ d \in Cell /\ d = data[call[t].self] /\ a \in Seq(String)
        /\ value' = [value EXCEPT ![d] = z] /\ data' = data /\ IsJoined(z, a, value[d])
        /\ r.pc = "spread" /\ r.i = 0 /\ r.self = call[t].self /\ value'[r.other] = a
    BY <1>1, <1>2, <1>5, <1>6, <1>7
  <2> QED  BY ONLY <2>1, PrependedPlaces
<1>9. SameItem(c, r)
  BY <1>1, <1>7 DEF SameItem
<1> QED  BY <1>1, <1>8, <1>9, StringsMoved

-----------------------------------------------------------------------------
(***************************************************************************)
(* The counters of the strings.                                            *)
(***************************************************************************)

\* Nothing refers to a string at first.
LEMMA StringsInit == Init => StringsInv
<1> SUFFICES ASSUME Init, NEW s \in String PROVE strings[s] =
      Cardinality(Places(s)) + Cardinality(Inserters(s)) + (IF s \in held THEN 1 ELSE 0)
  BY DEF StringsInv
<1>1. strings[s] = 0 /\ s \notin held /\ \A o \in Cell : value[o] = <<>>
  BY DEF Init
<1>2. Places(s) = {}
  <2>1. ASSUME NEW o \in Cell, NEW k \in 1 .. MaxLength PROVE ~(k <= Len(value[o]))
    <3>1. Len(value[o]) = 0 /\ ~(k <= 0)
      BY <1>1, VectorsAssumption
    <3> QED  BY <3>1
  <2>2. \A p \in Cell \X (1 .. MaxLength) : ~(p[2] <= Len(value[p[1]]))
    BY <2>1
  <2> QED  BY <2>2 DEF Places
<1>3. Inserters(s) = {}
  BY DEF Init, Inserters, Idle
<1> QED  BY <1>1, <1>2, <1>3, FS_EmptySet

\* Every step keeps the counters of the vectors and of the strings.
LEMMA IInvStep ==
  ASSUME IInv, ~SelfPrepend, [Next]_vars
  PROVE  IInv'
<1>0. VectorsInv /\ StringsInv /\ VectorsInv'
  BY VectorsStep DEF IInv
<1>b. 0 .. MaxLength \subseteq Nat
  BY VectorsAssumption
<1> SUFFICES StringsInv'
  BY <1>0 DEF IInv
<1>1. CASE UNCHANGED vars
  <2>1. /\ UNCHANGED <<data, value, call>> /\ UNCHANGED <<strings, held>>
        /\ strings \in [String -> Int]
    BY <1>0, <1>1 DEF vars, vectors, VectorsInv, Typed
  <2>2. \A s \in String :
          strings'[s] - strings[s] = (IF s \in held' THEN 1 ELSE 0) - (IF s \in held THEN 1 ELSE 0)
    BY <2>1
  <2> QED  BY <1>0, <2>1, <2>2, HeldCounted
<1>2. ASSUME NEW s \in String, NewString(s) \/ ReleaseString(s) PROVE StringsInv'
  BY <1>0, <1>2, NewStringCounted, ReleaseStringCounted
<1>3. ASSUME NEW t \in Task, Start(t) PROVE StringsInv'
  <2> PICK v \in Vector :
        \/ Declare(t, v)
        \/ Share(t, v, Null, Null)
        \/ Share(t, v, Null, Empty)
        \/ \E w \in Vector : Assign(t, v, w)
        \/ \E s \in String : AppendItem(t, v, s)
        \/ \E s \in String, i \in 0 .. MaxLength : Insert(t, v, i, s)
        \/ \E s \in String, i \in 0 .. MaxLength : Replace(t, v, i, s)
        \/ \E w \in Vector : Prepend(t, v, w)
        \/ \E w \in Vector, i, j \in 0 .. MaxLength : DeclareSlice(t, v, w, i, j)
        \/ \E i \in 0 .. MaxLength : Element(t, v, i)
    BY <1>3 DEF Start
  <2>1. CASE Declare(t, v)
    BY <1>0, <2>1, DeclareCounted
  <2>2. CASE Share(t, v, Null, Null) \/ Share(t, v, Null, Empty)
    <3> PICK e \in {Empty, Null} : Share(t, v, Null, e)
      BY <2>2
    <3>1. Others(t)
      BY <1>0, ShareKeeps
    <3> QED  BY <1>0, <3>1, ShareCounted
  <2>3. CASE \E w \in Vector : Assign(t, v, w)
    <3> PICK w \in Vector : w # v /\ MayRead(t, w) /\ Share(t, v, w, data[w])
      BY <2>3 DEF Assign
    <3>1. Others(t)
      BY <1>0, ShareKeeps
    <3> QED  BY <1>0, <3>1, ShareCounted
  <2>4. CASE \E s \in String : AppendItem(t, v, s)
    BY <1>0, <2>4, AppendItemKeeps, AppendItemCounted
  <2>5. CASE \E s \in String, i \in 0 .. MaxLength : Insert(t, v, i, s)
    <3> PICK s \in String, i \in 0 .. MaxLength : Insert(t, v, i, s)
      BY <2>5
    <3>1. Others(t)
      BY <1>0, InsertKeeps
    <3> QED  BY <1>0, <3>1, InsertCounted
  <2>6. CASE \E s \in String, i \in 0 .. MaxLength : Replace(t, v, i, s)
    <3> PICK s \in String, i \in Nat : Replace(t, v, i, s)
      BY <1>b, <2>6
    <3>1. Others(t)
      BY <1>0, ReplaceKeeps
    <3> QED  BY <1>0, <3>1, ReplaceCounted
  <2>7. CASE \E w \in Vector : Prepend(t, v, w)
    BY <1>0, <2>7, PrependKeeps, PrependCounted
  <2>8. CASE \E w \in Vector, i, j \in 0 .. MaxLength : DeclareSlice(t, v, w, i, j)
    <3> PICK w \in Vector, i \in Nat, j \in Nat : DeclareSlice(t, v, w, i, j)
      BY <1>b, <2>8
    <3>1. Others(t)
      BY <1>0, DeclareSliceKeeps
    <3> QED  BY <1>0, <3>1, DeclareSliceCounted
  <2>9. CASE \E i \in 0 .. MaxLength : Element(t, v, i)
    BY <1>0, <2>9, ElementCounted
  <2> QED  BY <2>1, <2>2, <2>3, <2>4, <2>5, <2>6, <2>7, <2>8, <2>9
<1>4. ASSUME NEW t \in Task, Step(t) PROVE StringsInv'
  <2>1. CASE DetachForInsert(t)
    BY <1>0, <2>1, DetachForInsertKeeps, DetachForInsertCounted
  <2>2. CASE Look(t)
    BY <1>0, <2>2, LookKeeps, LookCounted
  <2>3. CASE CopyString(t)
    BY <1>0, <2>3, CopyStringKeeps, CopyStringCounted
  <2>4. CASE Drop(t)
    BY <1>0, <2>4, DropKeeps, DropCounted
  <2>5. CASE DropString(t)
    BY <1>0, <2>5, DropStringKeeps, DropStringCounted
  <2>6. CASE Free(t)
    BY <1>0, <2>6, FreeKeeps, FreeCounted
  <2>7. CASE Bind(t)
    BY <1>0, <2>7, BindKeeps, BindCounted
  <2>8. CASE StoreAppended(t)
    BY <1>0, <2>8, StoreAppendedKeeps, StoreAppendedCounted
  <2>9. CASE StoreInserted(t)
    BY <1>0, <2>9, StoreInsertedKeeps, StoreInsertedCounted
  <2>10. CASE StoreReplaced(t)
    BY <1>0, <2>10, StoreReplacedKeeps, StoreReplacedCounted
  <2>11. CASE StorePrepended(t)
    BY <1>0, <2>11, StorePrependedKeeps, StorePrependedCounted
  <2>12. CASE Refer(t)
    BY <1>0, <2>12, ReferKeeps, ReferCounted
  <2>13. CASE ReferPrepended(t)
    BY <1>0, <2>13, ReferPrependedKeeps, ReferPrependedCounted
  <2>14. CASE SliceString(t)
    BY <1>0, <2>14, SliceStringKeeps, SliceStringCounted
  <2> QED
    BY <1>4, <2>1, <2>2, <2>3, <2>4, <2>5, <2>6, <2>7, <2>8, <2>9, <2>10, <2>11, <2>12, <2>13,
       <2>14 DEF Step
<1>5. [Next]_vars
  OBVIOUS
<1> QED  BY <1>1, <1>2, <1>3, <1>4, <1>5 DEF Next

\* However the calls of the tasks interleave, the counters of the vectors are
\* exact, and those of the strings but for the places that a call has yet to
\* count or has released, unless a vector is prepended to itself.
THEOREM Invariance ==
  ASSUME ~SelfPrepend
  PROVE  Spec => []IInv
<1>1. Init => IInv
  BY VectorsInit, StringsInit DEF IInv
<1>2. IInv /\ [Next]_vars => IInv'
  BY IInvStep
<1> QED  BY <1>1, <1>2, PTL DEF Spec

-----------------------------------------------------------------------------
(***************************************************************************)
(* What the invariant says of the strings.                                 *)
(***************************************************************************)

\* The counter of a string is positive if an object or a place counts for it.
LEMMA CountIsPositive ==
  ASSUME IInv, NEW s \in String
  PROVE  /\ strings[s] \in Nat
         /\ s \in held \/ Places(s) # {} => strings[s] > 0
<1> PICK p, n : p = Cardinality(Places(s)) /\ n = Cardinality(Inserters(s))
  OBVIOUS
<1> PICK h : h = IF s \in held THEN 1 ELSE 0
  OBVIOUS
<1>1. strings[s] = p + n + h
  BY DEF IInv, StringsInv
<1>2. p \in Nat /\ n \in Nat /\ h \in Nat
  BY PlacesFinite, InsertersFinite
<1>3. s \in held => h > 0
  OBVIOUS
<1>4. Places(s) # {} => p > 0
  <2>1. p = 0 <=> Places(s) = {}
    BY PlacesFinite, FS_EmptySet
  <2> QED  BY <1>2, <2>1
<1>5. p > 0 \/ h > 0 => p + n + h > 0
  BY ONLY <1>2
<1>6. p + n + h \in Nat
  BY ONLY <1>2
<1> QED  BY <1>1, <1>3, <1>4, <1>5, <1>6

\* Only the call that changes an object leaves places of its vector uncounted.
LEMMA UncountedIsOwn ==
  ASSUME VectorsInv, NEW u \in Task, NEW o \in Cell, NEW k, Uncounted(call[u], o, k),
         NEW v \in Vector, data[v] = o
  PROVE  call[u].self = v /\ call[u].pc \in {"look", "move", "copy", "spread", "refer"}
<1>1. v \in Holders(o)
  BY HoldersNow
<1>2. call[u].self = v
  <2>1. Relies(call[u], o)
    BY UncountedOwns
  <2>2. v # u
    BY VectorsAssumption
  <2> QED  BY <1>1, <2>1, <2>2, NotRelied
<1>3. ~(call[u].pc \in {"strings", "free"} /\ call[u].source = o)
  BY <1>1, ReleasedHasNoHolder
<1> QED  BY <1>2, <1>3 DEF Uncounted

\* A place that every call counts is one of its string.
LEMMA CountedPlace ==
  ASSUME VectorsInv, NEW o \in Cell, NEW k \in 1 .. Len(value[o]),
         \A t \in Task : ~Uncounted(call[t], o, k)
  PROVE  value[o][k] \in String /\ Places(value[o][k]) # {}
<1>1. value[o] \in Seq(String) /\ Len(value[o]) \in Nat /\ Len(value[o]) <= MaxLength
  BY DEF VectorsInv, Typed, LengthsBounded
<1>2. value[o][k] \in String
  BY <1>1
<1>3. k \in 1 .. MaxLength /\ k <= Len(value[o])
  BY <1>1, VectorsAssumption
<1>4. <<o, k>> \in Places(value[o][k])
  BY <1>3 DEF Places
<1> QED  BY <1>2, <1>4

\* A string of an object's vector has a positive counter, even if the call that
\* makes the vector has not referenced it yet: the vector that it is copied or
\* moved from, the operand or the item still counts for it.
LEMMA StringOfVector ==
  ASSUME IInv, NEW v \in Vector, NEW o \in Cell, data[v] = o, NEW k \in 1 .. Len(value[o])
  PROVE  strings[value[o][k]] > 0
<1>i. VectorsInv
  BY DEF IInv
<1> PICK s : s = value[o][k]
  OBVIOUS
<1>s. s \in String /\ k \in Nat
  <2>1. value[o] \in Seq(String)
    BY <1>i DEF VectorsInv, Typed
  <2> QED  BY <2>1
<1>1. CASE \A t \in Task : ~Uncounted(call[t], o, k)
  BY <1>i, <1>1, CountedPlace, CountIsPositive
<1>2. ASSUME NEW u \in Task, Uncounted(call[u], o, k) PROVE strings[s] > 0
  <2> PICK c : c = call[u]
    OBVIOUS
  <2>1. c.self = v /\ c.pc \in {"look", "move", "copy", "spread", "refer"}
    BY <1>i, <1>2, UncountedIsOwn
  <2>2. c \in Calls /\ CallShape(c)
    BY <1>i DEF VectorsInv, Typed, CallShapes
  <2>3. CASE c.pc \in {"look", "move", "copy"}
    <3> PICK q : q = c.source
      OBVIOUS
    <3>1. q \in Cell /\ q # o /\ value[q] = value[o]
      <4>1. c.op \in Edits
        BY <2>2, <2>3 DEF CallShape, EditShape
      <4>2. q \in Cell /\ q # data[c.self]
        BY <1>i, <2>3, <4>1, SourceIsOther DEF Leaving
      <4>3. value[data[c.self]] = value[q]
        BY <2>2, <2>3 DEF CallShape, SourceShape
      <4> QED  BY <2>1, <4>2, <4>3
    <3>2. ~Loose(u, q, k)
      <4>1. Owns(call[u], q)
        BY <2>3 DEF Owns
      <4> QED  BY <1>i, <3>1, <4>1, NotLoose
    <3>3. ~Uncounted(c, q, k)
      BY <2>1, <2>3, <3>1 DEF Uncounted
    <3>4. \A t \in Task : ~Uncounted(call[t], q, k)
      BY <3>2, <3>3 DEF Loose
    <3>5. k \in 1 .. Len(value[q]) /\ value[q][k] = s
      BY <3>1
    <3> QED  BY <1>i, <3>1, <3>4, <3>5, CountedPlace, CountIsPositive
  <2>4. CASE c.pc = "spread"
    <3> PICK q : q = c.other
      OBVIOUS
    <3>1. /\ c.from \in Vector /\ q \in Cell /\ data[c.from] = q /\ c.from # c.self
          /\ \A j \in 1 .. Len(value[q]) : value[o][j] = value[q][j]
      BY <2>1, <2>2, <2>4 DEF CallShape, EditShape, OperandShape, StoredShape
    <3>2. k \in 1 .. Len(value[q]) /\ value[q][k] = s
      <4>1. k \in c.i + 1 .. Len(value[q]) /\ c.i \in Nat
        BY <1>2, <2>2, <2>4 DEF Uncounted, Calls
      <4>2. k \in 1 .. Len(value[q])
        <5>1. Len(value[q]) \in Nat
          BY <1>i, <3>1 DEF VectorsInv, Typed
        <5> QED  BY <1>s, <4>1, <5>1
      <4> QED  BY <3>1, <4>2
    <3>3. ASSUME NEW t \in Task, Uncounted(call[t], q, k) PROVE FALSE
      <4>1. call[t].self = c.from
        BY <1>i, <3>1, <3>3, UncountedIsOwn
      <4>2. t # u
        BY <3>1, <4>1
      <4> QED  BY <1>i, <3>1, <4>1, <4>2, VectorsAssumption DEF VectorsInv, Discipline
    <3> QED  BY <1>i, <3>1, <3>2, <3>3, CountedPlace, CountIsPositive
  <2>5. CASE c.pc = "refer"
    <3>1. c.item \in String /\ c.item \in held
      BY <2>2, <2>5 DEF CallShape, EditShape, OperandShape, Edits
    <3>2. \E j \in 1 .. Len(value[o]) : value[o][j] = c.item
      BY <2>1, <2>2, <2>5 DEF CallShape, StoredShape
    <3>3. k = PlaceOf(value[o], c.item)
      BY <1>2, <2>5 DEF Uncounted
    <3>4. s = c.item
      BY <3>2, <3>3, PlaceFound
    <3> QED  BY <3>1, <3>4, CountIsPositive
  <2> QED  BY <2>1, <2>3, <2>4, <2>5
<1> QED  BY <1>1, <1>2

\* Whatever gives access to a string keeps it.
LEMMA LiveStrings == IInv => StringsAreAllocated
<1> SUFFICES ASSUME IInv PROVE StringsAreAllocated
  OBVIOUS
<1>1. \A s \in held : strings[s] > 0
  BY CountIsPositive DEF IInv, VectorsInv, Typed
<1>2. ASSUME NEW v \in Vector, NEW i \in 1 .. Len(Items(data[v]))
      PROVE  strings[Items(data[v])[i]] > 0
  <2>1. CASE data[v] \in Cell
    BY <2>1, StringOfVector DEF Items
  <2>2. CASE data[v] \notin Cell
    BY <2>2 DEF Items
  <2> QED  BY <2>1, <2>2
<1> QED  BY <1>1, <1>2 DEF StringsAreAllocated

\* At rest nothing is on its way to be counted.
LEMMA CountersAtRest == IInv => CountersAgree
<1> SUFFICES ASSUME IInv, \A t \in Task : call[t].pc = "idle"
             PROVE  /\ \A o \in Cell :
                         /\ o \in live => counter[o] > 0
                         /\ counter[o] = Cardinality({v \in Vector : data[v] = o})
                    /\ \A s \in String :
                         strings[s] = Cardinality({p \in Cell \X (1 .. MaxLength) :
                                        p[2] <= Len(value[p[1]]) /\ value[p[1]][p[2]] = s})
                                      + (IF s \in held THEN 1 ELSE 0)
  BY DEF CountersAgree
<1>i. VectorsInv
  BY DEF IInv
<1>1. ASSUME NEW o \in Cell
      PROVE  /\ o \in live => counter[o] > 0
             /\ counter[o] = Cardinality({v \in Vector : data[v] = o})
  <2>1. Holders(o) = {v \in Vector : data[v] = o}
    BY DEF Holders, Owns
  <2>2. counter[o] = Cardinality(Holders(o))
    BY <1>i DEF VectorsInv, CountersExact
  <2>3. o \in live => Holders(o) # {}
    BY <1>i DEF VectorsInv, NoVectorLost
  <2>4. Cardinality(Holders(o)) \in Nat /\ (Cardinality(Holders(o)) = 0 <=> Holders(o) = {})
    BY HoldersFinite, FS_EmptySet
  <2> QED  BY <2>1, <2>2, <2>3, <2>4
<1>2. ASSUME NEW s \in String
      PROVE  strings[s] = Cardinality({p \in Cell \X (1 .. MaxLength) :
                             p[2] <= Len(value[p[1]]) /\ value[p[1]][p[2]] = s})
                           + (IF s \in held THEN 1 ELSE 0)
  <2>1. Places(s) = {p \in Cell \X (1 .. MaxLength) :
                       p[2] <= Len(value[p[1]]) /\ value[p[1]][p[2]] = s}
    BY DEF Places, Uncounted
  <2>2. Inserters(s) = {}
    BY <1>i, IdleHasNoOp DEF Inserters
  <2>3. Cardinality(Inserters(s)) = 0
    BY <2>2, FS_EmptySet
  <2> PICK P : P = {p \in Cell \X (1 .. MaxLength) :
                       p[2] <= Len(value[p[1]]) /\ value[p[1]][p[2]] = s}
    OBVIOUS
  <2>4. strings[s] = Cardinality(P) + Cardinality(Inserters(s)) + (IF s \in held THEN 1 ELSE 0)
    BY <2>1 DEF IInv, StringsInv
  <2>5. Cardinality(P) \in Nat
    BY <2>1, PlacesFinite
  <2>6. Cardinality(P) + 0 = Cardinality(P)
    BY ONLY <2>5
  <2> QED  BY <2>3, <2>4, <2>6
<1> QED  BY <1>1, <1>2

\* The variables keep their types.
LEMMA Types == IInv => TypeOK
<1> SUFFICES ASSUME IInv PROVE TypeOK
  OBVIOUS
<1>1. Typed /\ CountersExact
  BY DEF IInv, VectorsInv
<1>2. counter \in [Cell -> Nat]
  <2>1. \A o \in Cell : counter[o] \in Nat
    BY <1>1, HoldersFinite DEF CountersExact
  <2> QED  BY <1>1, <2>1 DEF Typed
<1>3. strings \in [String -> Nat]
  <2>1. \A s \in String : strings[s] \in Nat
    BY CountIsPositive
  <2> QED  BY <1>1, <2>1 DEF Typed
<1>4. \A o \in Cell : value[o] \in Seq(String)
  BY <1>1 DEF Typed
<1>5. \A t \in Task : call[t] \in Calls
  BY <1>1 DEF Typed
<1>6. \A c \in Calls :
        /\ c.self \in Vector \cup {Null} /\ c.from \in Vector \cup {Null}
        /\ c.item \in String \cup {Null}
        /\ {c.other, c.source, c.target} \subseteq Ref
  BY DEF Calls
<1> QED  BY <1>1, <1>2, <1>3, <1>4, <1>5, <1>6 DEF TypeOK, Typed, Ref

\* No string that an object or its vector gives access to is deallocated,
\* whichever calls are taking vectors apart, copying or moving them.
THEOREM StringsStayAllocated ==
  ASSUME ~SelfPrepend
  PROVE  Spec => []StringsAreAllocated
BY Invariance, LiveStrings, PTL

\* When no call runs, every vector has an object, and the counters of vectors
\* and strings are the numbers of what refers to them: nothing is lost.
THEOREM CountersAgreeAtRest ==
  ASSUME ~SelfPrepend
  PROVE  Spec => []CountersAgree
BY Invariance, CountersAtRest, PTL

\* The counters never become negative, and every variable keeps its type.
THEOREM TypesHold ==
  ASSUME ~SelfPrepend
  PROVE  Spec => []TypeOK
BY Invariance, Types, PTL

-----------------------------------------------------------------------------
(***************************************************************************)
(* StringVectors implements StringValues, as long as no vector is          *)
(* prepended to itself.                                                    *)
(***************************************************************************)

\* The call of t that the values show: what it has yet to do, if anything.
Pend(t) == IF Waiting(t) THEN [self |-> call[t].self, result |-> Result(t)]
                         ELSE [self |-> Null, result |-> <<>>]

\* The value of the object that the call of t writes.
Held(t) == IF call[t].op = "share"
           THEN ValueAt(IF Waiting(t) THEN call[t].source ELSE call[t].target)
           ELSE ValueAt(data[call[t].self])

\* The values of the objects are a function of them, now and next.
LEMMA AbstractValIsFunction ==
  /\ AbstractVal = [x \in Vector |-> AbstractVal[x]]
  /\ AbstractVal' = [x \in Vector |-> AbstractVal'[x]]
BY DEF AbstractVal

\* An object's value is where its writer has it, or else in its own vector.
ValuesRead ==
  \A v \in Vector :
    /\ \A t \in Task : call[t].self = v => AbstractVal[v] = Held(t)
    /\ (\A t \in Task : call[t].self # v) => AbstractVal[v] = ValueAt(data[v])

\* An object has one writer at most, so this determines every value.
LEMMA ValuesAreRead == VectorsInv => ValuesRead
<1> SUFFICES ASSUME VectorsInv, NEW v \in Vector
             PROVE  /\ \A t \in Task : call[t].self = v => AbstractVal[v] = Held(t)
                    /\ (\A t \in Task : call[t].self # v) => AbstractVal[v] = ValueAt(data[v])
  BY DEF ValuesRead
<1>1. AbstractVal[v] =
        IF \E t \in Task : call[t].self = v /\ call[t].op = "share"
        THEN LET t == CHOOSE t \in Task : call[t].self = v
             IN  ValueAt(IF Waiting(t) THEN call[t].source ELSE call[t].target)
        ELSE ValueAt(data[v])
  BY DEF AbstractVal
<1>2. ASSUME NEW t \in Task, call[t].self = v PROVE AbstractVal[v] = Held(t)
  <2>1. \A u \in Task : call[u].self = v => u = t
    BY <1>2, VectorsAssumption DEF VectorsInv, Discipline
  <2>2. CASE call[t].op = "share"
    <3>1. (CHOOSE u \in Task : call[u].self = v) = t
      BY <1>2, <2>1
    <3>2. \E u \in Task : call[u].self = v /\ call[u].op = "share"
      BY <1>2, <2>2
    <3> QED  BY <1>1, <2>2, <3>1, <3>2 DEF Held
  <2>3. CASE call[t].op # "share"
    BY <1>1, <1>2, <2>1, <2>3 DEF Held
  <2> QED  BY <2>2, <2>3
<1>3. ASSUME \A t \in Task : call[t].self # v PROVE AbstractVal[v] = ValueAt(data[v])
  BY <1>1, <1>3
<1> QED  BY <1>2, <1>3

\* The same of the next state.
LEMMA ValuesAreReadNext == VectorsInv' => ValuesRead'
BY ValuesAreRead, PTL

\* So an object that a call writes, now or next, has the value that the call
\* holds,
LEMMA Written ==
  ASSUME VectorsInv, NEW s \in Vector, NEW t \in Task, call[t].self = s
  PROVE  AbstractVal[s] = Held(t)
BY ValuesAreRead DEF ValuesRead

\* in the next state as well,
LEMMA WrittenNext ==
  ASSUME VectorsInv', NEW s \in Vector, NEW t \in Task, call'[t].self = s
  PROVE  AbstractVal'[s] = Held(t)'
BY ValuesAreReadNext DEF ValuesRead

\* and one that no call writes next has that of its vector.
LEMMA UnwrittenNext ==
  ASSUME VectorsInv', NEW s \in Vector, \A t \in Task : call'[t].self # s
  PROVE  AbstractVal'[s] = ValueAt(data[s])'
BY ValuesAreReadNext DEF ValuesRead

\* What the calls make of their objects, one operation at a time.
ResultsRead ==
  \A t \in Task :
    /\ call[t].op = "share"   => Result(t) = ValueAt(call[t].target)
    /\ call[t].op = "append"  => Result(t) = Append(Items(data[call[t].self]), call[t].item)
    /\ call[t].op = "insert"  => Result(t) = Inserted(Items(data[call[t].self]),
                                                      call[t].index, call[t].item)
    /\ call[t].op = "replace" => Result(t) = [Items(data[call[t].self]) EXCEPT
                                                ![call[t].index + 1] = call[t].item]
    /\ call[t].op = "prepend" => Result(t) = Items(call[t].other) \o Items(data[call[t].self])
    /\ call[t].op = "slice"   => Result(t) = value[call[t].target]
                                   \o SubSeq(Items(call[t].source), call[t].i + 1, call[t].index)

\* This is what Result says,
LEMMA ResultsAreRead == ResultsRead
BY DEF ResultsRead, Result

\* of the next state as well.
LEMMA ResultsAreReadNext == ResultsRead'
BY ResultsAreRead, PTL

\* The result of an edit is determined by the items of the object and of the
\* operand: it stays as they do.
LEMMA ResultFrame ==
  ASSUME NEW u \in Task,
         call[u].op \in Edits, call'[u].op = call[u].op, call'[u].self = call[u].self,
         call'[u].item = call[u].item, call'[u].index = call[u].index,
         call'[u].other = call[u].other,
         Items(data[call[u].self])' = Items(data[call[u].self]),
         call[u].op = "prepend" => Items(call[u].other)' = Items(call[u].other)
  PROVE  Result(u)' = Result(u)
<1> PICK c : c = call[u]
  OBVIOUS
<1> PICK s : s = Items(data[c.self])
  OBVIOUS
<1>1. s = Items(data[call[u].self])'
  OBVIOUS
<1>2. CASE c.op = "append"
  <2>1. Result(u) = Append(s, c.item)
    BY <1>2, ResultsAreRead DEF ResultsRead
  <2>2. Result(u)' = Append(s, c.item)
    BY <1>1, <1>2, ResultsAreReadNext DEF ResultsRead
  <2> QED  BY ONLY <2>1, <2>2
<1>3. CASE c.op = "insert"
  <2>1. Result(u) = Inserted(s, c.index, c.item)
    BY <1>3, ResultsAreRead DEF ResultsRead, Inserted
  <2>2. Result(u)' = Inserted(s, c.index, c.item)
    BY <1>1, <1>3, ResultsAreReadNext DEF ResultsRead, Inserted
  <2> QED  BY ONLY <2>1, <2>2
<1>4. CASE c.op = "replace"
  <2>1. Result(u) = [s EXCEPT ![c.index + 1] = c.item]
    BY <1>4, ResultsAreRead DEF ResultsRead
  <2>2. Result(u)' = [s EXCEPT ![c.index + 1] = c.item]
    BY <1>1, <1>4, ResultsAreReadNext DEF ResultsRead
  <2> QED  BY ONLY <2>1, <2>2
<1>5. CASE c.op = "prepend"
  <2>1. Result(u) = Items(c.other) \o s
    BY <1>5, ResultsAreRead DEF ResultsRead
  <2>2. Result(u)' = Items(c.other)' \o s
    BY <1>1, <1>5, ResultsAreReadNext DEF ResultsRead
  <2> QED  BY <1>5, <2>1, <2>2
<1> QED  BY <1>2, <1>3, <1>4, <1>5 DEF Edits

-----------------------------------------------------------------------------
(***************************************************************************)
(* A step of t, which concerns the object s, is left with the value of s   *)
(* and with the call of t.                                                 *)
(***************************************************************************)

\* What a call of another task reads stays: its objects with their items, the
\* vector that it gives up or the slice that it makes.
Kept(c) ==
  /\ \A x \in Vector \cap {c.self, c.from} :
       data'[x] = data[x] /\ Items(data[x])' = Items(data[x])
  /\ c.op = "share" /\ c.pc = "drop" => Items(c.source)' = Items(c.source)
  /\ c.op = "slice" => value'[c.target] = value[c.target]

\* So what the values show of the call stays.
LEMMA PendFrame ==
  ASSUME VectorsInv, NEW u \in Task, call'[u] = call[u], Kept(call[u])
  PROVE  /\ Pend(u)' = Pend(u)
         /\ call[u].self \in Vector => Held(u)' = Held(u)
<1> PICK c : c = call[u]
  OBVIOUS
<1>1. c \in Calls /\ CallShape(c) /\ c = call'[u] /\ Kept(c)
  BY DEF VectorsInv, Typed, CallShapes
<1>2. Waiting(u)' <=> Waiting(u)
  BY <1>1 DEF Waiting
<1>3. CASE c.op = "none"
  <2>1. c.pc = "idle" /\ c.self = Null
    BY <1>1, <1>3 DEF CallShape, OperandShape
  <2>2. ~Waiting(u)
    BY <1>3, <2>1 DEF Waiting
  <2> QED  BY <1>2, <2>1, <2>2, VectorsAssumption DEF Pend
<1>4. CASE c.op = "share"
  <2>1. c.target \in {Empty, Null} \/ (c.from \in Vector /\ c.target = data[c.from])
    BY <1>1, <1>4 DEF CallShape, ShareShape
  <2>2. Items(c.target)' = Items(c.target)
    BY <1>1, <2>1, VectorsAssumption DEF Items, Kept
  <2>3. Waiting(u) => Items(c.source)' = Items(c.source)
    BY <1>1, <1>4, VectorsAssumption DEF Waiting, Kept, Items
  <2>4. ValueAt(c.target)' = ValueAt(c.target)
    BY <2>2 DEF ValueAt
  <2>5. Waiting(u) => ValueAt(c.source)' = ValueAt(c.source)
    BY <2>3 DEF ValueAt
  <2>6. Result(u) = ValueAt(c.target) /\ Result(u)' = ValueAt(call[u].target)'
    BY <1>1, <1>4, ResultsAreRead, ResultsAreReadNext DEF ResultsRead
  <2>7. ValueAt(call[u].target)' = ValueAt(c.target)' /\ ValueAt(call[u].source)' = ValueAt(c.source)'
    BY <1>1 DEF ValueAt, Items
  <2>8. Pend(u)' = Pend(u)
    BY <1>1, <1>2, <2>4, <2>6, <2>7 DEF Pend
  <2>9. Held(u)' = Held(u)
    BY <1>1, <1>2, <1>4, <2>4, <2>5, <2>7 DEF Held
  <2> QED  BY <2>8, <2>9
<1>5. CASE c.op \in Edits \cup {"slice"}
  <2>1. c.self \in Vector /\ c.op # "share"
    BY <1>1, <1>5 DEF CallShape, OperandShape, Edits
  <2>2. Items(data[c.self])' = Items(data[c.self]) /\ data'[c.self] = data[c.self]
    BY <1>1, <2>1 DEF Kept
  <2>3. Items(data[call[u].self])' = Items(data[c.self])
    BY <1>1, <2>2 DEF Items
  <2>4. ValueAt(data[call[u].self])' = ValueAt(data[c.self])
    BY <1>1, <2>2, <2>3 DEF ValueAt
  <2>5. Result(u)' = Result(u)
    <3>1. CASE c.op \in Edits
      <4>1. c.op = "prepend" => c.from \in Vector /\ c.other = data[c.from]
        BY <1>1 DEF CallShape, EditShape
      <4>2. c.op = "prepend" => Items(call[u].other)' = Items(c.other)
        BY <1>1, <4>1 DEF Items, Kept
      <4> QED  BY <1>1, <2>3, <3>1, <4>2, ResultFrame
    <3>2. CASE c.op = "slice"
      <4>1. c.from \in Vector /\ c.source = data[c.from]
        BY <1>1, <3>2 DEF CallShape, SliceShape
      <4>2. Items(call[u].source)' = Items(c.source)
        BY <1>1, <4>1 DEF Items, Kept
      <4>3. value'[c.target] = value[c.target]
        BY <1>1, <3>2 DEF Kept
      <4>4. Result(u) = value[c.target] \o SubSeq(Items(c.source), c.i + 1, c.index)
        BY <3>2, ResultsAreRead DEF ResultsRead
      <4>5. Result(u)' = value'[c.target]
                           \o SubSeq(Items(call[u].source)', c.i + 1, c.index)
        BY <1>1, <3>2, ResultsAreReadNext DEF ResultsRead
      <4> QED  BY ONLY <4>2, <4>3, <4>4, <4>5
    <3> QED  BY <1>5, <3>1, <3>2
  <2>6. Pend(u)' = Pend(u)
    BY <1>1, <1>2, <2>5 DEF Pend
  <2>7. Held(u)' = Held(u)
    BY <1>1, <2>1, <2>4 DEF Held
  <2> QED  BY <2>6, <2>7
<1> QED  BY <1>1, <1>3, <1>4, <1>5 DEF Calls

\* The step of t changes only s of the objects, which nobody else uses, and
\* nothing that another call reads or another object has.
Concerns(t, s) ==
  /\ \A u \in Task \ {t} : call'[u] = call[u] /\ Kept(call[u])
  /\ call[t].self \in {Null, s} /\ call'[t].self \in {Null, s}
  /\ \A x \in Vector \ {s} : data'[x] = data[x] /\ Items(data[x])' = Items(data[x])

\* Such a step changes no other value and no other call.
LEMMA ConcernsFrame ==
  ASSUME VectorsInv, VectorsInv', NEW t \in Task, NEW s, Concerns(t, s)
  PROVE  /\ \A u \in Task \ {t} : Pend(u)' = Pend(u)
         /\ \A x \in Vector \ {s} : AbstractVal'[x] = AbstractVal[x]
<1>1. \A x \in Vector \ {s} : data'[x] = data[x] /\ Items(data[x])' = Items(data[x])
  BY DEF Concerns
<1>2. ASSUME NEW u \in Task \ {t}
      PROVE  /\ Pend(u)' = Pend(u)
             /\ call[u].self \in Vector => Held(u)' = Held(u)
  BY PendFrame DEF Concerns
<1>3. ASSUME NEW x \in Vector \ {s} PROVE AbstractVal'[x] = AbstractVal[x]
  <2>1. x # Null
    BY VectorsAssumption
  <2>2. CASE \E u \in Task : call[u].self = x
    <3> PICK u \in Task : call[u].self = x
      BY <2>2
    <3>1. u # t /\ call'[u].self = x
      BY <2>1 DEF Concerns
    <3> QED  BY <1>2, <3>1, Written, WrittenNext
  <2>3. CASE \A u \in Task : call[u].self # x
    <3>1. \A u \in Task : call'[u].self # x
      BY <2>1, <2>3 DEF Concerns
    <3>2. AbstractVal[x] = ValueAt(data[x])
      BY <2>3, ValuesAreRead DEF ValuesRead
    <3>3. AbstractVal'[x] = ValueAt(data[x])'
      BY <3>1, UnwrittenNext
    <3>4. ValueAt(data[x])' = ValueAt(data[x])
      BY <1>1 DEF ValueAt
    <3> QED  BY <3>2, <3>3, <3>4
  <2> QED  BY <2>2, <2>3
<1> QED  BY <1>2, <1>3

\* A step that changes one vector, which has no holders but t and s, leaves to
\* the others what they read.
LEMMA ConcernsBy ==
  ASSUME VectorsInv, NEW t \in Task, NEW s, NEW o,
         \A u \in Task \ {t} : call'[u] = call[u],
         s \in Vector => \A u \in Task \ {t} : s \notin {call[u].self, call[u].from},
         call[t].self \in {Null, s}, call'[t].self \in {Null, s},
         \A x \in Vector \ {s} : data'[x] = data[x],
         \A x \in Cell \ {o} : value'[x] = value[x],
         o \in Cell => Holders(o) \subseteq {t} \cup ({s} \cap Vector)
  PROVE  Concerns(t, s)
<1>1. \A x \in Vector \ {s} : data[x] \in Cell => data[x] # o
  BY VectorsAssumption DEF Holders
<1>2. \A x \in Vector \ {s} : Items(data[x])' = Items(data[x])
  BY <1>1 DEF Items
<1>3. ASSUME NEW u \in Task \ {t} PROVE Kept(call[u])
  <2> PICK c : c = call[u]
    OBVIOUS
  <2>1. \A x \in Vector \cap {c.self, c.from} : x # s
    OBVIOUS
  <2>2. o \in Cell => ~Owns(c, o)
    <3>1. u \notin {t} \cup ({s} \cap Vector)
      BY VectorsAssumption
    <3> QED  BY <3>1 DEF Holders
  <2>3. c.op = "share" /\ c.pc = "drop" => Items(c.source)' = Items(c.source)
    BY <2>2 DEF Items, Owns
  <2>4. c.op = "slice" => value'[c.target] = value[c.target]
    <3> HAVE c.op = "slice"
    <3>1. c.pc = "slice" /\ c.target \in Cell
      BY DEF VectorsInv, CallShapes, CallShape, SliceShape, Typed
    <3> QED  BY <2>2, <3>1 DEF Owns
  <2> QED  BY <1>2, <2>1, <2>3, <2>4 DEF Kept
<1> QED  BY <1>2, <1>3 DEF Concerns

\* A step that stores nothing leaves to the others what they read.
LEMMA ConcernsCall ==
  ASSUME VectorsInv, NEW t \in Task, NEW s,
         \A u \in Task \ {t} : call'[u] = call[u],
         s \in Vector => \A u \in Task \ {t} : s \notin {call[u].self, call[u].from},
         call[t].self \in {Null, s}, call'[t].self \in {Null, s},
         \A x \in Vector \ {s} : data'[x] = data[x],
         value' = value
  PROVE  Concerns(t, s)
<1> PICK o : o = Null
  OBVIOUS
<1>1. o \notin Cell
  BY VectorsAssumption
<1>2. \A x \in Cell \ {o} : value'[x] = value[x]
  OBVIOUS
<1> QED  BY <1>1, <1>2, ConcernsBy

\* A call on s that starts and leaves its value is a request for what the call
\* will store, when that is a text that may be asked for.
LEMMA Requests ==
  ASSUME VectorsInv, VectorsInv', NEW t \in Task, NEW s \in Vector, Concerns(t, s),
         NEW y, y \in Values!Promised(s),
         \A u \in Task : call[u].self # s,
         call[t].self = Null, ~Waiting(t),
         Pend(t)' = [self |-> s, result |-> y],
         AbstractVal'[s] = AbstractVal[s]
  PROVE  Values!Request(t, s)
<1>1. /\ \A u \in Task \ {t} : Pend(u)' = Pend(u)
      /\ \A x \in Vector \ {s} : AbstractVal'[x] = AbstractVal[x]
  BY ConcernsFrame
<1>2. AbstractVal' = AbstractVal
  BY <1>1, AbstractValIsFunction
<1>3. Pend(t) = [self |-> Null, result |-> <<>>]
  BY DEF Pend
<1>4. \A u \in Task : Pend(u).self # s
  BY VectorsAssumption DEF Pend
<1>5. [u \in Task |-> Pend(u)]' =
        [[u \in Task |-> Pend(u)] EXCEPT ![t] = [self |-> s, result |-> y]]
  BY <1>1
<1>6. [u \in Task |-> Pend(u)]'[t].result = y
  OBVIOUS
<1> QED  BY <1>2, <1>3, <1>4, <1>5, <1>6 DEF Values!Request, Values!NoCall, Pend

\* A call whose value takes effect.
LEMMA Performs ==
  ASSUME VectorsInv, VectorsInv', NEW t \in Task, NEW s \in Vector, Concerns(t, s),
         NEW y, Pend(t) = [self |-> s, result |-> y],
         Pend(t)' = [self |-> Null, result |-> <<>>],
         AbstractVal'[s] = y
  PROVE  Values!Perform(t)
<1>1. /\ \A u \in Task \ {t} : Pend(u)' = Pend(u)
      /\ \A x \in Vector \ {s} : AbstractVal'[x] = AbstractVal[x]
  BY ConcernsFrame
<1>2. AbstractVal' = [AbstractVal EXCEPT ![s] = y]
  <2>1. /\ AbstractVal = [x \in Vector |-> AbstractVal[x]]
        /\ AbstractVal' = [x \in Vector |-> AbstractVal'[x]]
    BY AbstractValIsFunction
  <2> QED  BY <1>1, <2>1
<1>3. [u \in Task |-> Pend(u)]' =
        [[u \in Task |-> Pend(u)] EXCEPT ![t] = [self |-> Null, result |-> <<>>]]
  BY <1>1
<1>4. [u \in Task |-> Pend(u)][t] = [self |-> s, result |-> y]
  OBVIOUS
<1>5. [self |-> s, result |-> y] \notin
        {[self |-> Null, result |-> <<>>], [self |-> Null, result |-> Null]}
  BY VectorsAssumption
<1> QED
  BY <1>2, <1>3, <1>4, <1>5 DEF Values!Perform, Values!NoCall, Values!Failed, Pend

\* A step that does not show.
LEMMA Stutters ==
  ASSUME VectorsInv, VectorsInv', NEW t \in Task, NEW s, Concerns(t, s),
         Pend(t)' = Pend(t), s \in Vector => AbstractVal'[s] = AbstractVal[s]
  PROVE  UNCHANGED Values!vars
<1>1. /\ \A u \in Task \ {t} : Pend(u)' = Pend(u)
      /\ \A x \in Vector \ {s} : AbstractVal'[x] = AbstractVal[x]
  BY ConcernsFrame
<1>2. AbstractVal' = AbstractVal
  BY <1>1, AbstractValIsFunction
<1>3. [u \in Task |-> Pend(u)]' = [u \in Task |-> Pend(u)]
  BY <1>1
<1> QED  BY <1>2, <1>3 DEF Values!vars, Pend


-----------------------------------------------------------------------------
(***************************************************************************)
(* The calls that start.                                                   *)
(***************************************************************************)

\* An object that no call writes has the value in its vector.
LEMMA Unwritten ==
  ASSUME VectorsInv, NEW v \in Vector, \A u \in Task : call[u].self # v
  PROVE  /\ AbstractVal[v] = ValueAt(data[v])
         /\ data[v] # Null => /\ Values!InScope(v) /\ AbstractVal[v] = Items(data[v])
         /\ data[v] = Null => AbstractVal[v] = Null
<1>1. AbstractVal[v] = ValueAt(data[v])
  BY ValuesAreRead DEF ValuesRead
<1>2. Items(data[v]) \in Seq(String)
  BY ItemsOf
<1>3. Null \notin Seq(String)
  BY VectorsAssumption
<1> QED  BY <1>1, <1>2, <1>3 DEF ValueAt, Values!InScope

\* A part of a vector is a slice of it.
LEMMA SliceOf ==
  ASSUME NEW s \in Seq(String), NEW first \in 0 .. Len(s), NEW final \in 0 .. Len(s)
  PROVE  SubSeq(s, first + 1, final) \in Values!Slices(s)
BY DEF Values!Slices

\* Insert, Replace and Prepend may be asked for.
LEMMA SplicePromised ==
  ASSUME NEW v \in Vector, Values!InScope(v),
         NEW first \in 0 .. Len(AbstractVal[v]), NEW size \in 0 .. Len(AbstractVal[v]),
         NEW by \in {AbstractVal[x] : x \in {x \in Vector : Values!InScope(x)}}
                      \cup {<<c>> : c \in String}
  PROVE  Values!Splice(AbstractVal[v], first, size, by) \in Values!Promised(v)
BY DEF Values!Promised

\* z has the items of a, the item x and the items of b.
IsAround(z, a, x, b) ==
  /\ z \in Seq(String) /\ Len(z) = Len(a) + 1 + Len(b)
  /\ \A k \in 1 .. Len(a) : z[k] = a[k]
  /\ z[Len(a) + 1] = x
  /\ \A k \in 1 .. Len(b) : z[Len(a) + 1 + k] = b[k]

\* a and b are the parts of s around item n.
AreParts(s, n, a, b) ==
  /\ a \in Seq(String) /\ Len(a) = n - 1 /\ \A k \in 1 .. n - 1 : a[k] = s[k]
  /\ b \in Seq(String) /\ Len(b) = Len(s) - n /\ \A k \in 1 .. Len(s) - n : b[k] = s[n + k]

\* e is s with x for item n.
IsReplaced(e, s, n, x) ==
  /\ e \in Seq(String) /\ Len(e) = Len(s)
  /\ \A k \in 1 .. Len(s) : e[k] = IF k = n THEN x ELSE s[k]

\* What comes before an item, the item, and what comes behind it.
LEMMA AroundItem ==
  ASSUME NEW a, a \in Seq(String), NEW x, x \in String, NEW b, b \in Seq(String)
  PROVE  IsAround(a \o <<x>> \o b, a, x, b)
<1>x. <<x>> \in Seq(String) /\ Len(<<x>>) = 1 /\ <<x>>[1] = x
  OBVIOUS
<1> PICK ax : ax = a \o <<x>>
  OBVIOUS
<1> PICK z : z = ax \o b
  OBVIOUS
<1>1. /\ ax \in Seq(String) /\ Len(ax) = Len(a) + 1
      /\ \A k \in 1 .. Len(a) : ax[k] = a[k]
      /\ ax[Len(a) + 1] = x
  BY <1>x
<1>2. /\ z \in Seq(String) /\ Len(z) = Len(a) + 1 + Len(b)
      /\ \A k \in 1 .. Len(ax) : z[k] = ax[k]
      /\ \A k \in 1 .. Len(b) : z[Len(a) + 1 + k] = b[k]
  BY <1>1
<1>3. \A k \in 1 .. Len(a) : z[k] = a[k]
  BY <1>1, <1>2
<1>4. z[Len(a) + 1] = x
  BY <1>1, <1>2
<1>5. IsAround(z, a, x, b)
  BY <1>2, <1>3, <1>4 DEF IsAround
<1> QED  BY <1>5

\* The parts of a sequence around item n.
LEMMA PartsAround ==
  ASSUME NEW s \in Seq(String), NEW n \in 1 .. Len(s)
  PROVE  AreParts(s, n, SubSeq(s, 1, n - 1), SubSeq(s, n + 1, Len(s)))
<1>1. Len(s) \in Nat /\ n \in Nat /\ n >= 1 /\ n <= Len(s)
  OBVIOUS
<1>2. /\ SubSeq(s, 1, n - 1) \in Seq(String) /\ Len(SubSeq(s, 1, n - 1)) = n - 1
      /\ \A k \in 1 .. n - 1 : SubSeq(s, 1, n - 1)[k] = s[k]
  BY <1>1
<1>3. /\ SubSeq(s, n + 1, Len(s)) \in Seq(String)
      /\ Len(SubSeq(s, n + 1, Len(s))) = Len(s) - n
      /\ \A k \in 1 .. Len(s) - n : SubSeq(s, n + 1, Len(s))[k] = s[n + k]
  BY <1>1
<1> QED  BY <1>2, <1>3 DEF AreParts

\* Two sequences with the items of a, x and the items of b are the same.
LEMMA SameItems ==
  ASSUME NEW s, s \in Seq(String), NEW n, n \in 1 .. Len(s), NEW x, NEW a, NEW b, NEW z, NEW e,
         AreParts(s, n, a, b), IsAround(z, a, x, b), IsReplaced(e, s, n, x)
  PROVE  e = z
<1>0. /\ a \in Seq(String) /\ Len(a) = n - 1 /\ \A k \in 1 .. n - 1 : a[k] = s[k]
      /\ b \in Seq(String) /\ Len(b) = Len(s) - n /\ \A k \in 1 .. Len(s) - n : b[k] = s[n + k]
      /\ z \in Seq(String) /\ Len(z) = Len(a) + 1 + Len(b)
      /\ \A k \in 1 .. Len(a) : z[k] = a[k]
      /\ z[Len(a) + 1] = x
      /\ \A k \in 1 .. Len(b) : z[Len(a) + 1 + k] = b[k]
      /\ e \in Seq(String) /\ Len(e) = Len(s)
      /\ \A k \in 1 .. Len(s) : e[k] = IF k = n THEN x ELSE s[k]
  BY DEF AreParts, IsAround, IsReplaced
<1>1. Len(a) + 1 = n /\ Len(a) + 1 + Len(b) = Len(s)
  BY <1>0
<1>2. ASSUME NEW k \in 1 .. Len(s) PROVE e[k] = z[k]
  <2>1. CASE k < n
    <3>1. k \in 1 .. n - 1 /\ k \in 1 .. Len(a)
      BY <1>0, <2>1
    <3> QED  BY <1>0, <2>1, <3>1
  <2>2. CASE k = n
    BY <1>0, <1>1, <2>2
  <2>3. CASE k > n
    <3>1. k - n \in 1 .. Len(s) - n /\ k - n \in 1 .. Len(b) /\ n + (k - n) = k
      BY <1>0, <2>3
    <3>2. z[Len(a) + 1 + (k - n)] = b[k - n] /\ b[k - n] = s[n + (k - n)]
      BY <1>0, <3>1
    <3>3. Len(a) + 1 + (k - n) = k
      BY <1>1
    <3> QED  BY <1>0, <2>3, <3>1, <3>2, <3>3
  <2> QED  BY <2>1, <2>2, <2>3
<1> QED  BY <1>0, <1>1, <1>2, SeqEqual

\* An item is replaced between what is before it and what is behind it.
LEMMA ReplacedBetween ==
  ASSUME NEW s \in Seq(String), NEW n \in 1 .. Len(s), NEW x \in String
  PROVE  [s EXCEPT ![n] = x] = SubSeq(s, 1, n - 1) \o <<x>> \o SubSeq(s, n + 1, Len(s))
<1> DEFINE a == SubSeq(s, 1, n - 1)
           b == SubSeq(s, n + 1, Len(s))
           e == [s EXCEPT ![n] = x]
<1>1. AreParts(s, n, a, b)
  BY PartsAround
<1>2. IsReplaced(e, s, n, x)
  BY ExceptSeq DEF IsReplaced
<1> HIDE DEF a, b, e
<1>3. a \in Seq(String) /\ b \in Seq(String)
  BY <1>1 DEF AreParts
<1>4. IsAround(a \o <<x>> \o b, a, x, b)
  BY <1>3, AroundItem
<1>5. e = a \o <<x>> \o b
  BY <1>1, <1>2, <1>4, SameItems
<1> QED  BY <1>5 DEF a, b, e

\* Every edit is a splice: what it keeps of the vector is around what it puts in.
LEMMA EditsAreSplices ==
  ASSUME NEW s \in Seq(String), NEW x \in String, NEW i \in Nat, i <= Len(s),
         NEW by \in Seq(String)
  PROVE  /\ Append(s, x) = Values!Splice(s, Len(s), 0, <<x>>)
         /\ Inserted(s, i, x) = Values!Splice(s, i, 0, <<x>>)
         /\ i < Len(s) => [s EXCEPT ![i + 1] = x] = Values!Splice(s, i, 1, <<x>>)
         /\ by \o s = Values!Splice(s, 0, 0, by)
<1>s. /\ SubSeq(s, 1, Len(s)) = s /\ SubSeq(s, Len(s) + 1, Len(s)) = <<>>
      /\ SubSeq(s, 1, 0) = <<>> /\ Len(s) \in Nat
  BY SubSeqFull, SubSeqEmpty
<1>x. <<x>> \in Seq(String) /\ Len(<<x>>) = 1 /\ <<x>>[1] = x
  OBVIOUS
<1>v. \A first \in Nat, size \in Nat, z \in Seq(String) :
        Values!Splice(s, first, size, z)
          = SubSeq(s, 1, first) \o z \o SubSeq(s, first + size + 1, Len(s))
  BY DEF Values!Splice
<1>1. Append(s, x) = Values!Splice(s, Len(s), 0, <<x>>)
  <2>1. Len(s) + 0 + 1 = Len(s) + 1
    BY <1>s
  <2>2. Values!Splice(s, Len(s), 0, <<x>>)
          = SubSeq(s, 1, Len(s)) \o <<x>> \o SubSeq(s, Len(s) + 0 + 1, Len(s))
    BY <1>s, <1>x, <1>v
  <2>3. Values!Splice(s, Len(s), 0, <<x>>) = s \o <<x>> \o <<>>
    BY ONLY <1>s, <2>1, <2>2
  <2>4. s \o <<x>> \in Seq(String) /\ s \o <<x>> = Append(s, x)
    BY <1>x, AppendIsConcat, ConcatProperties
  <2>5. s \o <<x>> \o <<>> = s \o <<x>>
    BY <2>4, ConcatEmptySeq
  <2> QED  BY <2>3, <2>4, <2>5
<1>2. Inserted(s, i, x) = Values!Splice(s, i, 0, <<x>>)
  <2>1. i + 0 + 1 = i + 1
    OBVIOUS
  <2>2. Values!Splice(s, i, 0, <<x>>)
          = SubSeq(s, 1, i) \o <<x>> \o SubSeq(s, i + 0 + 1, Len(s))
    BY <1>x, <1>v
  <2> QED  BY ONLY <2>1, <2>2 DEF Inserted
<1>3. ASSUME i < Len(s)
      PROVE  [s EXCEPT ![i + 1] = x] = Values!Splice(s, i, 1, <<x>>)
  <2>1. i + 1 \in 1 .. Len(s) /\ (i + 1) - 1 = i
    BY <1>3, <1>s
  <2>2. [s EXCEPT ![i + 1] = x]
          = SubSeq(s, 1, (i + 1) - 1) \o <<x>> \o SubSeq(s, i + 1 + 1, Len(s))
    BY <2>1, ReplacedBetween
  <2>3. Values!Splice(s, i, 1, <<x>>)
          = SubSeq(s, 1, i) \o <<x>> \o SubSeq(s, i + 1 + 1, Len(s))
    BY <1>v, <1>x
  <2> QED  BY ONLY <2>1, <2>2, <2>3
<1>4. by \o s = Values!Splice(s, 0, 0, by)
  <2>1. 0 + 0 + 1 = 1
    OBVIOUS
  <2>2. Values!Splice(s, 0, 0, by) = SubSeq(s, 1, 0) \o by \o SubSeq(s, 0 + 0 + 1, Len(s))
    BY <1>v
  <2>3. Values!Splice(s, 0, 0, by) = <<>> \o by \o s
    BY ONLY <1>s, <2>1, <2>2
  <2>4. <<>> \o by = by
    BY ConcatEmptySeq
  <2> QED  BY <2>3, <2>4
<1> QED  BY <1>1, <1>2, <1>3, <1>4

\* So every edit of an object that nobody writes may be asked for.
LEMMA EditsPromised ==
  ASSUME VectorsInv, NEW v \in Vector, data[v] # Null, \A u \in Task : call[u].self # v,
         NEW s, s = Items(data[v])
  PROVE  /\ \A x \in String : Append(s, x) \in Values!Promised(v)
         /\ \A x \in String, i \in 0 .. Len(s) :
              /\ Inserted(s, i, x) \in Values!Promised(v)
              /\ i < Len(s) => [s EXCEPT ![i + 1] = x] \in Values!Promised(v)
         /\ \A w \in Vector : data[w] # Null /\ (\A u \in Task : call[u].self # w) =>
              Items(data[w]) \o s \in Values!Promised(v)
<1>1. Values!InScope(v) /\ AbstractVal[v] = s /\ s \in Seq(String) /\ Len(s) \in Nat
  BY Unwritten, ItemsOf
<1>2. 0 \in 0 .. Len(s) /\ Len(s) \in 0 .. Len(s)
  BY <1>1
<1>3. ASSUME NEW x \in String, NEW i \in 0 .. Len(s)
      PROVE  /\ Append(s, x) \in Values!Promised(v)
             /\ Inserted(s, i, x) \in Values!Promised(v)
             /\ i < Len(s) => [s EXCEPT ![i + 1] = x] \in Values!Promised(v)
  <2>1. <<x>> \in {AbstractVal[y] : y \in {y \in Vector : Values!InScope(y)}}
                    \cup {<<c>> : c \in String}
    OBVIOUS
  <2>2. /\ Values!Splice(s, Len(s), 0, <<x>>) \in Values!Promised(v)
        /\ Values!Splice(s, i, 0, <<x>>) \in Values!Promised(v)
    BY <1>1, <1>2, <2>1, SplicePromised
  <2>3. i < Len(s) => Values!Splice(s, i, 1, <<x>>) \in Values!Promised(v)
    <3> HAVE i < Len(s)
    <3>1. 1 \in 0 .. Len(s)
      BY <1>1
    <3> QED  BY <1>1, <2>1, <3>1, SplicePromised
  <2>4. <<x>> \in Seq(String) /\ i \in Nat /\ i <= Len(s)
    BY <1>1
  <2>5. /\ Append(s, x) = Values!Splice(s, Len(s), 0, <<x>>)
        /\ Inserted(s, i, x) = Values!Splice(s, i, 0, <<x>>)
        /\ i < Len(s) => [s EXCEPT ![i + 1] = x] = Values!Splice(s, i, 1, <<x>>)
    <3>1. s \in Seq(String)
      BY <1>1
    <3> QED  BY ONLY <2>4, <3>1, x \in String, EditsAreSplices
  <2> QED  BY ONLY <2>2, <2>3, <2>5
<1>4. ASSUME NEW w \in Vector, data[w] # Null, \A u \in Task : call[u].self # w
      PROVE  Items(data[w]) \o s \in Values!Promised(v)
  <2> PICK a : a = Items(data[w])
    OBVIOUS
  <2>1. Values!InScope(w) /\ AbstractVal[w] = a /\ a \in Seq(String)
    BY <1>4, Unwritten, ItemsOf
  <2>2. a \in {AbstractVal[y] : y \in {y \in Vector : Values!InScope(y)}}
                \cup {<<c>> : c \in String}
    BY <2>1
  <2>3. Values!Splice(s, 0, 0, a) \in Values!Promised(v)
    BY <1>1, <1>2, <2>2, SplicePromised
  <2>4. a \o s = Values!Splice(s, 0, 0, a)
    <3>1. \A x \in String, i \in Nat : i <= Len(s) => a \o s = Values!Splice(s, 0, 0, a)
      BY <1>1, <2>1, EditsAreSplices
    <3>2. (\E x : x \in String) => a \o s = Values!Splice(s, 0, 0, a)
      BY <1>1, <3>1
    <3>3. String = {} => a = <<>> /\ s = <<>>
      BY <1>1, <2>1
    <3>4. Values!Splice(<<>>, 0, 0, <<>>) = <<>> \o <<>>
      BY DEF Values!Splice
    <3> QED  BY <3>2, <3>3, <3>4
  <2> QED  BY <2>3, <2>4
<1>5. \A x \in String : Append(s, x) \in Values!Promised(v)
  BY <1>2, <1>3
<1> QED  BY <1>3, <1>4, <1>5

\* What a call that starts to edit is given.
EditAsked(t, r) ==
  /\ r.self \in Vector /\ MayWrite(t, r.self) /\ data[r.self] # Null
  /\ r.op \in Edits \ {"prepend"} => r.item \in String
  /\ r.op = "insert"  => r.index \in Nat /\ r.index <= Len(Items(data[r.self]))
  /\ r.op = "replace" => r.index \in Nat /\ r.index < Len(Items(data[r.self]))
  /\ r.op = "prepend" => /\ r.from \in Vector \ {r.self} /\ MayRead(t, r.from)
                         /\ r.other = data[r.from]

\* A call that starts to edit requests that.
LEMMA EditRequests ==
  ASSUME VectorsInv, VectorsInv', NEW t \in Task, NEW r \in Calls,
         r.op \in Edits, r.pc \in {"detach", "store", "look"}, EditAsked(t, r),
         call' = [call EXCEPT ![t] = r], Concerns(t, r.self),
         data'[r.self] # Null, Items(data[r.self])' = Items(data[r.self])
  PROVE  Values!Request(t, r.self)
<1> PICK v \in Vector : v = r.self
  BY DEF EditAsked
<1> PICK s : s = Items(data[v])
  OBVIOUS
<1>1. /\ call'[t] = r /\ call[t].pc = "idle" /\ data[v] # Null
      /\ \A u \in Task : v \notin {call[u].self, call[u].from}
  BY DEF EditAsked, MayWrite, VectorsInv, Typed
<1>2. call[t].self = Null /\ call[t].op = "none" /\ ~Waiting(t)
  <2>1. call[t].self = Null /\ call[t].op = "none"
    BY <1>1 DEF VectorsInv, CallShapes, CallShape, OperandShape
  <2> QED  BY <1>1, <2>1 DEF Waiting
<1>3. Waiting(t)' /\ r.op # "share"
  BY <1>1 DEF Waiting, Edits
<1>4. AbstractVal'[v] = AbstractVal[v]
  <2>1. AbstractVal[v] = ValueAt(data[v])
    BY <1>1, Unwritten
  <2>2. AbstractVal'[v] = Held(t)'
    BY <1>1, WrittenNext
  <2>3. Held(t)' = ValueAt(data[v])'
    BY <1>1, <1>3 DEF Held, ValueAt, Items
  <2>4. ValueAt(data[v])' = ValueAt(data[v])
    BY <1>1 DEF ValueAt
  <2> QED  BY <2>1, <2>2, <2>3, <2>4
<1> PICK y : y = Result(t)'
  OBVIOUS
<1>5. Pend(t)' = [self |-> v, result |-> y]
  BY <1>1, <1>3 DEF Pend
<1>6. y \in Values!Promised(v)
  <2>0. Len(s) \in Nat
    BY ItemsOf
  <2>1. Items(data[call[t].self])' = s
    BY <1>1 DEF Items
  <2>2. CASE r.op = "append"
    <3>1. y = Append(s, r.item) /\ r.item \in String
      BY <1>1, <2>1, <2>2, ResultsAreReadNext DEF ResultsRead, EditAsked, Edits
    <3> QED  BY <1>1, <3>1, EditsPromised
  <2>3. CASE r.op = "insert"
    <3>1. r.item \in String /\ r.index \in 0 .. Len(s)
      BY <1>1, <2>0, <2>3 DEF EditAsked, Edits
    <3>2. y = Inserted(Items(data[call[t].self])', r.index, r.item)
      BY <1>1, <2>3, ResultsAreReadNext DEF ResultsRead, Inserted
    <3>3. y = Inserted(s, r.index, r.item)
      BY ONLY <2>1, <3>2
    <3>4. Inserted(s, r.index, r.item) \in Values!Promised(v)
      BY <1>1, <3>1, EditsPromised
    <3> QED  BY ONLY <3>3, <3>4
  <2>4. CASE r.op = "replace"
    <3>1. /\ y = [s EXCEPT ![r.index + 1] = r.item] /\ r.item \in String
          /\ r.index \in 0 .. Len(s) /\ r.index < Len(s)
      <4>1. r.item \in String /\ r.index \in 0 .. Len(s) /\ r.index < Len(s)
        BY <1>1, <2>0, <2>4 DEF EditAsked, Edits
      <4>2. y = [Items(data[call[t].self])' EXCEPT ![r.index + 1] = r.item]
        BY <1>1, <2>4, ResultsAreReadNext DEF ResultsRead
      <4> QED  BY ONLY <2>1, <4>1, <4>2
    <3> QED  BY <1>1, <3>1, EditsPromised
  <2>5. CASE r.op = "prepend"
    <3> PICK w \in Vector : w = r.from /\ w # v /\ data[w] # Null /\ r.other = data[w]
                            /\ \A u \in Task : call[u].self # w
      BY <2>5 DEF EditAsked, MayRead
    <3>1. data'[w] = data[w] /\ Items(data[w])' = Items(data[w])
      BY DEF Concerns
    <3>2. Items(call[t].other)' = Items(data[w])
      BY <1>1, <3>1 DEF Items
    <3>3. y = Items(data[w]) \o s
      BY <1>1, <2>1, <2>5, <3>2, ResultsAreReadNext DEF ResultsRead
    <3> QED  BY <1>1, <3>3, EditsPromised
  <2> QED  BY <2>2, <2>3, <2>4, <2>5 DEF Edits
<1> QED  BY <1>1, <1>2, <1>4, <1>5, <1>6, Requests

\* A task that starts a call has no other, and the object is its own.
LEMMA StartFacts ==
  ASSUME VectorsInv, NEW t \in Task, NEW v \in Vector, MayWrite(t, v)
  PROVE  /\ call[t].pc = "idle" /\ call[t].self = Null /\ call[t].from = Null
         /\ call[t].op = "none" /\ ~Waiting(t)
         /\ \A u \in Task : v \notin {call[u].self, call[u].from}
<1>1. call[t].pc = "idle" /\ \A u \in Task : v \notin {call[u].self, call[u].from}
  BY DEF MayWrite
<1>2. call[t].self = Null /\ call[t].from = Null /\ call[t].op = "none"
  BY <1>1 DEF VectorsInv, CallShapes, CallShape, OperandShape
<1> QED  BY <1>1, <1>2 DEF Waiting

\* Detach gives the object a vector of its own with the items that it had.
DetachedAs(t, c, r) ==
  /\ r \in Calls /\ r.pc \in {"store", "look"}
  /\ r.op = c.op /\ r.self = c.self /\ r.from = c.from
  /\ r.item = c.item /\ r.index = c.index /\ r.other = c.other
  /\ call' = [call EXCEPT ![t] = r] /\ Concerns(t, c.self)
  /\ data'[c.self] # Null /\ Items(data[c.self])' = Items(data[c.self])

\* It does, whether it copies the vector or not.
LEMMA DetachFrame ==
  ASSUME VectorsInv, NEW t \in Task, NEW c \in Calls, NEW size, Detach(t, c, size),
         c.self \in Vector, data[c.self] # Null, call[t].self \in {Null, c.self},
         \A u \in Task \ {t} : c.self \notin {call[u].self, call[u].from}
  PROVE  \E r : DetachedAs(t, c, r)
<1> PICK v \in Vector : v = c.self
  OBVIOUS
<1>1. /\ call[t].self \in {Null, v} /\ data[v] # Null
      /\ \A u \in Task \ {t} : v \notin {call[u].self, call[u].from}
  OBVIOUS
<1>2. CASE Suffices(data[v], size) /\ Go(t, [c EXCEPT !.pc = "store"])
           /\ UNCHANGED <<data, vectors>>
  <2> PICK r : r = [c EXCEPT !.pc = "store"]
    OBVIOUS
  <2>1. /\ r \in Calls /\ r.pc = "store" /\ r.op = c.op /\ r.self = v /\ r.from = c.from
        /\ r.item = c.item /\ r.index = c.index /\ r.other = c.other
    BY DEF Calls
  <2>2. call' = [call EXCEPT ![t] = r] /\ data' = data /\ value' = value
    BY <1>2 DEF Go, vectors
  <2>3. call'[t] = r /\ \A u \in Task \ {t} : call'[u] = call[u]
    BY <2>2 DEF VectorsInv, Typed
  <2>4. Concerns(t, v)
    BY <1>1, <2>1, <2>2, <2>3, ConcernsCall
  <2>6. data'[v] # Null /\ Items(data[v])' = Items(data[v])
    BY <1>1, <2>2 DEF Items
  <2> QED  BY <2>1, <2>2, <2>4, <2>6 DEF DetachedAs
<1>3. CASE \E o \in Cell :
              /\ Allocate(o, size, Items(data[v]))
              /\ data' = [data EXCEPT ![v] = o]
              /\ Go(t, IF data[v] = Empty THEN [c EXCEPT !.pc = "store"]
                                          ELSE [c EXCEPT !.pc = "look", !.source = data[v]])
  <2> PICK o \in Cell :
         /\ Allocate(o, size, Items(data[v]))
         /\ data' = [data EXCEPT ![v] = o]
         /\ Go(t, IF data[v] = Empty THEN [c EXCEPT !.pc = "store"]
                                     ELSE [c EXCEPT !.pc = "look", !.source = data[v]])
    BY <1>3
  <2> PICK r : r = IF data[v] = Empty THEN [c EXCEPT !.pc = "store"]
                                      ELSE [c EXCEPT !.pc = "look", !.source = data[v]]
    OBVIOUS
  <2>1. /\ r \in Calls /\ r.pc \in {"store", "look"} /\ r.op = c.op /\ r.self = v
        /\ r.from = c.from /\ r.item = c.item /\ r.index = c.index /\ r.other = c.other
    BY DEF Calls, VectorsInv, Typed
  <2>2. call' = [call EXCEPT ![t] = r] /\ \A x \in Vector \ {v} : data'[x] = data[x]
    BY DEF Go, VectorsInv, Typed
  <2>3. call'[t] = r /\ \A u \in Task \ {t} : call'[u] = call[u]
    BY <2>2 DEF VectorsInv, Typed
  <2>4. /\ o \notin live /\ \A x \in Cell \ {o} : value'[x] = value[x]
        /\ value'[o] = Items(data[v]) /\ data'[v] = o
    BY DEF Allocate, VectorsInv, Typed
  <2>5. Holders(o) = {}
    BY <2>4, FreshVector
  <2>6. Concerns(t, v)
    <3>1. call[t].self \in {Null, v} /\ call'[t].self \in {Null, v}
      BY <1>1, <2>1, <2>3
    <3>2. o \in Cell => Holders(o) \subseteq {t} \cup ({v} \cap Vector)
      BY <2>5
    <3>3. v \in Vector => \A u \in Task \ {t} : v \notin {call[u].self, call[u].from}
      BY <1>1
    <3> QED  BY <2>2, <2>3, <2>4, <3>1, <3>2, <3>3, ConcernsBy
  <2>8. data'[v] # Null /\ Items(data[v])' = Items(data[v])
    BY <2>4, VectorsAssumption DEF Items
  <2> QED  BY <2>1, <2>2, <2>6, <2>8 DEF DetachedAs
<1> QED  BY <1>2, <1>3 DEF Detach

\* An edit that comes to Detach at once requests what it will store.
LEMMA DetachRequests ==
  ASSUME VectorsInv, VectorsInv', NEW t \in Task, NEW c \in Calls, NEW size,
         c.op \in Edits, EditAsked(t, c), Detach(t, c, size)
  PROVE  Values!Request(t, c.self)
<1>1. /\ call[t].self = Null /\ c.self \in Vector /\ data[c.self] # Null
      /\ \A u \in Task : c.self \notin {call[u].self, call[u].from}
  BY StartFacts DEF EditAsked
<1> PICK r : DetachedAs(t, c, r)
  BY <1>1, DetachFrame
<1>2. EditAsked(t, r)
  BY DEF DetachedAs, EditAsked
<1>3. /\ r \in Calls /\ r.pc \in {"store", "look"} /\ r.op = c.op /\ r.self = c.self
      /\ call' = [call EXCEPT ![t] = r] /\ Concerns(t, r.self)
      /\ data'[r.self] # Null /\ Items(data[r.self])' = Items(data[r.self])
  BY DEF DetachedAs, Items
<1>4. Values!Request(t, r.self)
  BY <1>2, <1>3, EditRequests
<1> QED  BY <1>3, <1>4

\* Finalize, Clear, an assignment and Prepend to nothing request the value of
\* the vector that the object will have.
LEMMA ShareRequests ==
  ASSUME VectorsInv, VectorsInv', NEW t \in Task, NEW v \in Vector, NEW w, NEW target,
         Share(t, v, w, target),
         \/ w = Null /\ target \in {Empty, Null}
         \/ w \in Vector /\ w # v /\ MayRead(t, w) /\ target = data[w]
  PROVE  Values!Request(t, v)
<1> PICK r : r = [Idle EXCEPT !.pc   = IF data[v] \in Cell THEN "drop" ELSE "bind",
                              !.op   = "share", !.self = v, !.from = w,
                              !.source = data[v], !.target = target]
  OBVIOUS
<1>1. /\ r.pc = (IF data[v] \in Cell THEN "drop" ELSE "bind") /\ r.op = "share"
      /\ r.self = v /\ r.from = w /\ r.source = data[v] /\ r.target = target
  BY DEF Idle
<1>2. /\ MayWrite(t, v) /\ data[v] # Null
      /\ call' = [call EXCEPT ![t] = r]
      /\ data' = [data EXCEPT ![v] = Null] /\ value' = value
  BY DEF Share, Go, vectors
<1>3. /\ call[t].self = Null /\ ~Waiting(t)
      /\ \A u \in Task : v \notin {call[u].self, call[u].from}
  BY <1>2, StartFacts
<1>4. /\ call'[t] = r /\ \A u \in Task \ {t} : call'[u] = call[u]
      /\ \A x \in Vector \ {v} : data'[x] = data[x]
  BY <1>2 DEF VectorsInv, Typed
<1>5. Concerns(t, v)
  BY <1>1, <1>2, <1>3, <1>4, ConcernsCall
<1>6. Waiting(t)'
  <2>1. data[v] \in Cell \cup {Empty}
    BY <1>2 DEF VectorsInv, LiveData, Typed
  <2> QED  BY <1>1, <1>4, <2>1 DEF Waiting
<1>7. AbstractVal'[v] = AbstractVal[v]
  <2>1. AbstractVal[v] = ValueAt(data[v])
    BY <1>3, Unwritten
  <2>0. call'[t].self = v
    BY <1>1, <1>4
  <2>2. AbstractVal'[v] = Held(t)'
    BY <2>0, WrittenNext
  <2>3. Held(t)' = ValueAt(call[t].source)'
    BY <1>1, <1>4, <1>6 DEF Held
  <2>4. call'[t].source = data[v] /\ value' = value
    BY <1>1, <1>2, <1>4
  <2>5. ValueAt(call[t].source)' = ValueAt(data[v])
    BY ONLY <2>4 DEF ValueAt, Items
  <2> QED  BY <2>1, <2>2, <2>3, <2>5
<1>8. Pend(t)' = [self |-> v, result |-> ValueAt(target)]
  <2>1. Result(t)' = ValueAt(call[t].target)'
    BY <1>1, <1>4, ResultsAreReadNext DEF ResultsRead
  <2>2. call'[t].target = target /\ value' = value
    BY <1>1, <1>2, <1>4
  <2>3. ValueAt(call[t].target)' = ValueAt(target)
    BY ONLY <2>2 DEF ValueAt, Items
  <2> QED  BY <1>1, <1>4, <1>6, <2>1, <2>3 DEF Pend
<1>9. ValueAt(target) \in Values!Promised(v)
  <2>1. CASE target \in {Empty, Null}
    BY <2>1, VectorsAssumption DEF ValueAt, Items, Values!Promised
  <2>2. CASE w \in Vector /\ w # v /\ MayRead(t, w) /\ target = data[w]
    <3>1. data[w] # Null /\ \A u \in Task : call[u].self # w
      BY <2>2 DEF MayRead
    <3>2. Values!InScope(w) /\ AbstractVal[w] = ValueAt(target)
      BY <2>2, <3>1, Unwritten
    <3> QED  BY <2>2, <3>2 DEF Values!Promised
  <2> QED  BY <2>1, <2>2
<1> QED  BY <1>3, <1>5, <1>7, <1>8, <1>9, Requests

\* A slice that is declared requests the strings that it will have.
LEMMA SliceRequests ==
  ASSUME VectorsInv, VectorsInv', NEW t \in Task, NEW v \in Vector, NEW w \in Vector,
         NEW first \in Nat, NEW final \in Nat, DeclareSlice(t, v, w, first, final)
  PROVE  Values!Request(t, v)
<1>o. PICK o \in Cell :
       /\ Allocate(o, final - first, <<>>)
       /\ Go(t, [Idle EXCEPT !.pc = "slice", !.op = "slice", !.self = v, !.from = w,
                             !.source = data[w], !.target = o, !.index = final,
                             !.i = first])
  BY DEF DeclareSlice
<1> PICK r : r = [Idle EXCEPT !.pc = "slice", !.op = "slice", !.self = v, !.from = w,
                              !.source = data[w], !.target = o, !.index = final,
                              !.i = first]
  OBVIOUS
<1> PICK s : s = Items(data[w])
  OBVIOUS
<1>1. /\ r.pc = "slice" /\ r.op = "slice" /\ r.self = v /\ r.from = w
      /\ r.source = data[w] /\ r.target = o /\ r.index = final /\ r.i = first
  BY DEF Idle
<1>2. /\ MayWrite(t, v) /\ data[v] = Null /\ MayRead(t, w)
      /\ first < final /\ final <= Len(s)
      /\ call' = [call EXCEPT ![t] = r] /\ data' = data
  BY <1>o DEF DeclareSlice, Go
<1>3. /\ o \notin live /\ value'[o] = <<>>
      /\ \A x \in Cell \ {o} : value'[x] = value[x]
  BY <1>o DEF Allocate, VectorsInv, Typed
<1>4. /\ call[t].self = Null /\ ~Waiting(t)
      /\ \A u \in Task : v \notin {call[u].self, call[u].from}
  BY <1>2, StartFacts
<1>5. call'[t] = r /\ \A u \in Task \ {t} : call'[u] = call[u]
  BY <1>2 DEF VectorsInv, Typed
<1>6. Holders(o) = {}
  BY <1>3, FreshVector
<1>7. Concerns(t, v)
  BY <1>1, <1>2, <1>3, <1>4, <1>5, <1>6, VectorsAssumption, ConcernsBy
<1>8. w # v /\ data'[w] = data[w] /\ Items(data[w])' = s
  <2>1. w # v
    BY <1>2 DEF MayRead
  <2> QED  BY <1>7, <2>1 DEF Concerns
<1>9. Waiting(t)'
  BY <1>1, <1>5 DEF Waiting
<1>10. AbstractVal'[v] = AbstractVal[v]
  <2>1. AbstractVal[v] = Null
    BY <1>2, <1>4, Unwritten
  <2>2. AbstractVal'[v] = Held(t)'
    BY <1>1, <1>5, WrittenNext
  <2>3. Held(t)' = ValueAt(data[v])'
    BY <1>1, <1>5 DEF Held, ValueAt, Items
  <2>4. data'[v] = Null
    BY <1>2
  <2>5. ValueAt(data[v])' = Null
    BY ONLY <2>4 DEF ValueAt
  <2> QED  BY <2>1, <2>2, <2>3, <2>5
<1> PICK y : y = SubSeq(s, first + 1, final)
  OBVIOUS
<1>11. Pend(t)' = [self |-> v, result |-> y]
  <2>1. Items(call[t].source)' = s
    BY <1>1, <1>5, <1>8 DEF Items
  <2>2. Result(t)' = value'[o] \o SubSeq(Items(call[t].source)', first + 1, final)
    BY <1>1, <1>5, ResultsAreReadNext DEF ResultsRead
  <2>3. s \in Seq(String)
    BY ItemsOf
  <2>4. y \in Seq(String)
    BY <1>2, <2>3
  <2>5. <<>> \o y = y
    BY <2>4, ConcatEmptySeq
  <2>6. Result(t)' = y
    BY <1>3, <2>1, <2>2, <2>5
  <2> QED  BY <1>1, <1>5, <1>9, <2>6 DEF Pend
<1>12. y \in Values!Promised(v)
  <2>1. data[w] # Null /\ \A u \in Task : call[u].self # w
    BY <1>2 DEF MayRead
  <2>2. Values!InScope(w) /\ AbstractVal[w] = s
    BY <2>1, Unwritten
  <2>3. s \in Seq(String) /\ first \in 0 .. Len(s) /\ final \in 0 .. Len(s)
    BY <1>2, ItemsOf
  <2>4. y \in Values!Slices(s)
    BY <2>3, SliceOf
  <2> QED  BY <2>2, <2>4 DEF Values!Promised
<1> QED  BY <1>4, <1>7, <1>10, <1>11, <1>12, Requests

\* A step after which the program has all that it had does not show.
LEMMA UnseenStep ==
  ASSUME data' = data, value' = value, call' = call
  PROVE  UNCHANGED Values!vars
<1>1. AbstractVal' = AbstractVal
  BY DEF AbstractVal, ValueAt, Items, Waiting
<1>2. \A t \in Task : Pend(t)' = Pend(t)
  <2> TAKE t \in Task
  <2>2. Result(t)' = Result(t)
    BY DEF Result, ValueAt, Items, Inserted
  <2>3. Waiting(t)' <=> Waiting(t)
    BY DEF Waiting
  <2> QED  BY <2>2, <2>3 DEF Pend
<1>3. [t \in Task |-> Pend(t)]' = [t \in Task |-> Pend(t)]
  BY <1>2
<1> QED  BY <1>1, <1>3 DEF Values!vars, Pend

\* An object that is declared is empty.
LEMMA DeclareImplements ==
  ASSUME VectorsInv, VectorsInv', NEW t \in Task, NEW v \in Vector, Declare(t, v)
  PROVE  Values!Declare(v)
<1>1. /\ \A u \in Task : v \notin {call[u].self, call[u].from}
      /\ data[v] = Null /\ data' = [data EXCEPT ![v] = Empty]
      /\ value' = value /\ call' = call /\ call[t].self = Null /\ ~Waiting(t)
  BY StartFacts DEF Declare, vectors
<1>2. \A x \in Vector : data'[x] = IF x = v THEN Empty ELSE data[x]
  BY <1>1 DEF VectorsInv, Typed
<1>3. Concerns(t, v)
  BY <1>1, <1>2, ConcernsCall
<1>4. /\ \A u \in Task \ {t} : Pend(u)' = Pend(u)
      /\ \A x \in Vector \ {v} : AbstractVal'[x] = AbstractVal[x]
  BY <1>3, ConcernsFrame
<1>5. AbstractVal[v] = Null
  BY <1>1, Unwritten
<1>6. AbstractVal'[v] = <<>>
  <2>1. AbstractVal'[v] = ValueAt(data[v])'
    BY <1>1, UnwrittenNext
  <2> QED  BY <1>2, <2>1, VectorsAssumption DEF ValueAt, Items
<1>7. Pend(t)' = Pend(t)
  BY <1>1 DEF Pend, Waiting
<1>8. [u \in Task |-> Pend(u)]' = [u \in Task |-> Pend(u)]
  BY <1>4, <1>7
<1>9. AbstractVal' = [AbstractVal EXCEPT ![v] = <<>>]
  <2>1. /\ AbstractVal = [x \in Vector |-> AbstractVal[x]]
        /\ AbstractVal' = [x \in Vector |-> AbstractVal'[x]]
    BY AbstractValIsFunction
  <2> QED  BY <1>4, <1>6, <2>1
<1>10. \A u \in Task : Pend(u).self # v
  BY <1>1, VectorsAssumption DEF Pend
<1> QED  BY <1>5, <1>8, <1>9, <1>10 DEF Values!Declare, Values!InScope, Pend

\* Insert requests what it will store, before it comes to Detach.
LEMMA InsertRequests ==
  ASSUME VectorsInv, VectorsInv', NEW t \in Task, NEW v \in Vector,
         NEW i \in Nat, NEW s \in String, Insert(t, v, i, s)
  PROVE  Values!Request(t, v)
<1> PICK r : r = [Idle EXCEPT !.pc = "detach", !.op = "insert", !.self = v,
                              !.item = s, !.index = i]
  OBVIOUS
<1>1. /\ r.pc = "detach" /\ r.op = "insert" /\ r.self = v /\ r.item = s /\ r.index = i
      /\ r \in Calls
  BY DEF Idle, Calls, Ref, Edits
<1>2. /\ MayWrite(t, v) /\ data[v] # Null /\ i <= Len(Items(data[v]))
      /\ call' = [call EXCEPT ![t] = r] /\ data' = data /\ value' = value
  BY DEF Insert, Go, vectors
<1>3. /\ call[t].self = Null /\ \A u \in Task : v \notin {call[u].self, call[u].from}
  BY <1>2, StartFacts
<1>4. call'[t] = r /\ \A u \in Task \ {t} : call'[u] = call[u]
  BY <1>2 DEF VectorsInv, Typed
<1>5. Concerns(t, r.self)
  BY <1>1, <1>2, <1>3, <1>4, ConcernsCall
<1>6. r.op \in Edits /\ EditAsked(t, r)
  BY <1>1, <1>2 DEF EditAsked, Edits
<1>7. data'[r.self] # Null /\ Items(data[r.self])' = Items(data[r.self])
  BY <1>1, <1>2 DEF Items
<1>8. Values!Request(t, r.self)
  BY <1>1, <1>2, <1>5, <1>6, <1>7, EditRequests
<1> QED  BY <1>1, <1>8

\* Every call that starts is a declaration or a request, or does not show.
LEMMA StartImplements ==
  ASSUME ~SelfPrepend, VectorsInv, VectorsInv', NEW t \in Task, Start(t)
  PROVE  Values!Next \/ UNCHANGED Values!vars
<1>0. 0 .. MaxLength \subseteq Nat
  BY VectorsAssumption
<1> PICK v \in Vector :
    \/ Declare(t, v)
    \/ Share(t, v, Null, Null)
    \/ Share(t, v, Null, Empty)
    \/ \E w \in Vector : Assign(t, v, w)
    \/ \E s \in String : AppendItem(t, v, s)
    \/ \E s \in String, i \in 0 .. MaxLength : Insert(t, v, i, s)
    \/ \E s \in String, i \in 0 .. MaxLength : Replace(t, v, i, s)
    \/ \E w \in Vector : Prepend(t, v, w)
    \/ \E w \in Vector, i, j \in 0 .. MaxLength : DeclareSlice(t, v, w, i, j)
    \/ \E i \in 0 .. MaxLength : Element(t, v, i)
  BY DEF Start
<1>1. CASE Declare(t, v)
  BY <1>1, DeclareImplements DEF Values!Next
<1>2. CASE Share(t, v, Null, Null) \/ Share(t, v, Null, Empty)
  <2>1. Values!Request(t, v)
    BY <1>2, ShareRequests
  <2> QED  BY <2>1 DEF Values!Next
<1>3. ASSUME NEW w \in Vector, Assign(t, v, w) PROVE Values!Request(t, v)
  BY <1>3, ShareRequests DEF Assign
<1>4. ASSUME NEW s \in String, AppendItem(t, v, s) PROVE Values!Request(t, v)
  <2> PICK c : c = [Idle EXCEPT !.op = "append", !.self = v, !.item = s]
    OBVIOUS
  <2>1. c \in Calls /\ c.op = "append" /\ c.self = v /\ c.item = s
    BY DEF Idle, Calls, Ref, Edits
  <2>2. c.op \in Edits /\ EditAsked(t, c) /\ Detach(t, c, Len(Items(data[v])) + 1)
    BY <1>4, <2>1 DEF AppendItem, EditAsked, Edits
  <2>3. Values!Request(t, c.self)
    BY <2>1, <2>2, DetachRequests
  <2> QED  BY <2>1, <2>3
<1>5. ASSUME NEW s \in String, NEW i \in Nat, Replace(t, v, i, s)
      PROVE  Values!Request(t, v)
  <2> PICK c : c = [Idle EXCEPT !.op = "replace", !.self = v, !.item = s, !.index = i]
    OBVIOUS
  <2>1. c \in Calls /\ c.op = "replace" /\ c.self = v /\ c.item = s /\ c.index = i
    BY DEF Idle, Calls, Ref, Edits
  <2>2. c.op \in Edits /\ EditAsked(t, c) /\ Detach(t, c, Len(Items(data[v])))
    BY <1>5, <2>1 DEF Replace, EditAsked, Edits
  <2>3. Values!Request(t, c.self)
    BY <2>1, <2>2, DetachRequests
  <2> QED  BY <2>1, <2>3
<1>6. ASSUME NEW w \in Vector, Prepend(t, v, w) PROVE Values!Request(t, v)
  <2>1. MayWrite(t, v) /\ data[v] # Null /\ MayRead(t, w) /\ w # v
    BY <1>6 DEF Prepend
  <2>2. CASE Share(t, v, w, data[w])
    BY <2>1, <2>2, ShareRequests
  <2> PICK c : c = [Idle EXCEPT !.op = "prepend", !.self = v, !.from = w, !.other = data[w]]
    OBVIOUS
  <2>3. CASE Detach(t, c, Len(Items(data[v])) + Len(Items(data[w])))
    <3>1. c \in Calls /\ c.op = "prepend" /\ c.self = v /\ c.from = w /\ c.other = data[w]
      BY DEF Idle, Calls, Ref, Edits, VectorsInv, Typed
    <3>2. c.op \in Edits /\ EditAsked(t, c)
      BY <2>1, <3>1 DEF EditAsked, Edits
    <3>3. Values!Request(t, c.self)
      BY <2>3, <3>1, <3>2, DetachRequests
    <3> QED  BY <3>1, <3>3
  <2> QED  BY <1>6, <2>2, <2>3 DEF Prepend
<1>7. ASSUME NEW w \in Vector, NEW i \in Nat, NEW j \in Nat, DeclareSlice(t, v, w, i, j)
      PROVE  Values!Request(t, v)
  BY <1>7, SliceRequests
<1>8. ASSUME NEW i, Element(t, v, i) PROVE UNCHANGED Values!vars
  <2>1. data' = data /\ value' = value /\ call' = call
    BY <1>8 DEF Element, vectors
  <2> QED  BY <2>1, UnseenStep
<1>9. ASSUME NEW i \in Nat, NEW s \in String, Insert(t, v, i, s) PROVE Values!Request(t, v)
  BY <1>9, InsertRequests
<1> QED
  BY <1>0, <1>1, <1>2, <1>3, <1>4, <1>5, <1>6, <1>7, <1>8, <1>9 DEF Values!Next

-----------------------------------------------------------------------------
(***************************************************************************)
(* The steps of a running call.                                            *)
(***************************************************************************)

\* A running call has its object to itself, and reads another one's vector.
LEMMA RunningFacts ==
  ASSUME VectorsInv, NEW t \in Task, call[t].pc # "idle"
  PROVE  /\ call[t] \in Calls /\ CallShape(call[t]) /\ call[t].self \in Vector
         /\ \A u \in Task \ {t} : call[t].self \notin {call[u].self, call[u].from}
         /\ call[t].op = "prepend" =>
              call[t].from \in Vector \ {call[t].self} /\ call[t].other = data[call[t].from]
<1>1. call[t] \in Calls /\ CallShape(call[t])
  BY DEF VectorsInv, Typed, CallShapes
<1>2. /\ call[t].self \in Vector
      /\ \A u \in Task \ {t} : call[t].self \notin {call[u].self, call[u].from}
  BY OthersUse, <1>1 DEF CallShape, OperandShape
<1>3. call[t].op = "prepend" =>
        call[t].from \in Vector \ {call[t].self} /\ call[t].other = data[call[t].from]
  BY <1>1 DEF CallShape, OperandShape, EditShape
<1> QED  BY <1>1, <1>2, <1>3

\* The call r goes on with the edit of c.
GoesOn(c, r) ==
  /\ r.op = c.op /\ r.self = c.self /\ r.item = c.item
  /\ r.index = c.index /\ r.other = c.other
  /\ c.pc \notin {"idle", "refer", "spread"} /\ r.pc \notin {"idle", "refer", "spread"}

\* While an edit waits, and its object keeps its items, it does not show.
LEMMA EditWaits ==
  ASSUME VectorsInv, VectorsInv', NEW t \in Task, call[t].op \in Edits,
         NEW r, call' = [call EXCEPT ![t] = r], GoesOn(call[t], r),
         Concerns(t, call[t].self),
         data[call[t].self] # Null, data'[call[t].self] # Null,
         Items(data[call[t].self])' = Items(data[call[t].self])
  PROVE  UNCHANGED Values!vars
<1> PICK c : c = call[t]
  OBVIOUS
<1> PICK v : v = c.self
  OBVIOUS
<1>1. call'[t] = r /\ c.pc # "idle" /\ c.op \in Edits
  BY DEF GoesOn, VectorsInv, Typed
<1>2. /\ v \in Vector
      /\ c.op = "prepend" => c.from \in Vector \ {v} /\ c.other = data[c.from]
  BY <1>1, RunningFacts
<1>3. /\ Waiting(t) /\ Waiting(t)' /\ c.op # "share" /\ r.op # "share"
      /\ r.self = v
  BY <1>1 DEF Waiting, GoesOn, Edits
<1>4. c.op = "prepend" => Items(call[t].other)' = Items(c.other)
  <2> HAVE c.op = "prepend"
  <2>1. data'[c.from] = data[c.from] /\ Items(data[c.from])' = Items(data[c.from])
    BY <1>2 DEF Concerns
  <2>2. call'[t].other = data'[c.from]
    BY <1>1, <1>2, <2>1 DEF GoesOn
  <2> QED  BY <1>2, <2>1, <2>2 DEF Items
<1>5. Items(data[call[t].self])' = Items(data[v])
  BY <1>1, <1>3 DEF Items
<1>6. Result(t)' = Result(t)
  BY <1>1, <1>4, <1>5, ResultFrame DEF GoesOn
<1>7. Pend(t)' = Pend(t)
  BY <1>1, <1>3, <1>6 DEF Pend
<1>8. AbstractVal'[v] = AbstractVal[v]
  <2>1. AbstractVal[v] = Held(t) /\ AbstractVal'[v] = Held(t)'
    BY <1>1, <1>2, <1>3, Written, WrittenNext
  <2>2. Held(t) = ValueAt(data[v]) /\ Held(t)' = ValueAt(data[call[t].self])'
    BY <1>1, <1>3 DEF Held
  <2>3. ValueAt(data[call[t].self])' = ValueAt(data[v])
    <3>1. data'[call'[t].self] # Null
      BY <1>1, <1>3
    <3> QED  BY <1>5, <3>1 DEF ValueAt
  <2> QED  BY <2>1, <2>2, <2>3
<1> QED  BY <1>2, <1>7, <1>8, Stutters

\* Detach of an Insert does not show.
LEMMA DetachForInsertImplements ==
  ASSUME VectorsInv, VectorsInv', NEW t \in Task, DetachForInsert(t)
  PROVE  UNCHANGED Values!vars
<1> PICK c : c = call[t]
  OBVIOUS
<1> PICK size : c.pc = "detach" /\ Detach(t, c, size)
  BY DEF DetachForInsert
<1>1. /\ c \in Calls /\ CallShape(c) /\ c.self \in Vector
      /\ \A u \in Task \ {t} : c.self \notin {call[u].self, call[u].from}
  BY RunningFacts
<1>2. c.op = "insert" /\ data[c.self] # Null
  BY <1>1 DEF CallShape, EditShape
<1> PICK r : DetachedAs(t, c, r)
  BY <1>1, <1>2, DetachFrame
<1>3. GoesOn(c, r)
  BY DEF GoesOn, DetachedAs
<1>4. /\ c.op \in Edits /\ call' = [call EXCEPT ![t] = r] /\ Concerns(t, c.self)
      /\ data'[c.self] # Null /\ Items(data[c.self])' = Items(data[c.self])
      /\ r.self = c.self
  BY <1>2 DEF DetachedAs, Edits
<1>5. call'[t].self = c.self
  BY <1>4 DEF VectorsInv, Typed
<1>6. Items(data[call[t].self])' = Items(data[c.self])
  BY <1>4, <1>5 DEF Items
<1> QED  BY <1>2, <1>3, <1>4, <1>6, EditWaits

\* A step of Detach that stores nothing does not show: the object has its new
\* vector, with the items that it had, and the edit still waits.
LEMMA DetachWaits ==
  ASSUME VectorsInv, VectorsInv', NEW t \in Task, call[t].op \in Edits,
         NEW r, call' = [call EXCEPT ![t] = r], GoesOn(call[t], r), call[t].pc \in Leaving,
         data' = data,
         \A x \in Cell : x # call[t].source \/ call[t].pc # "free" => value'[x] = value[x]
  PROVE  UNCHANGED Values!vars
<1> PICK c : c = call[t]
  OBVIOUS
<1> PICK v : v = c.self
  OBVIOUS
<1> PICK o : o = IF c.pc = "free" THEN c.source ELSE Null
  OBVIOUS
<1>1. /\ call'[t] = r /\ \A u \in Task \ {t} : call'[u] = call[u]
      /\ c.pc # "idle" /\ r.self = v
  BY DEF GoesOn, VectorsInv, Typed
<1>2. v \in Vector /\ \A u \in Task \ {t} : v \notin {call[u].self, call[u].from}
  BY <1>1, RunningFacts
<1>3. data[v] \in live /\ data[v] \in Cell /\ data[v] # c.source
  BY SourceIsOther DEF VectorsInv, Typed
<1>4. o \in Cell => Holders(o) = {}
  BY ReleasedHasNoHolder, VectorsAssumption
<1>5. \A x \in Cell \ {o} : value'[x] = value[x]
  OBVIOUS
<1>6. Concerns(t, v)
  <2>1. o \in Cell => Holders(o) \subseteq {t} \cup ({v} \cap Vector)
    BY <1>4
  <2>2. call[t].self = v /\ call'[t].self = v
    BY <1>1
  <2>3. \A x \in Vector \ {v} : data'[x] = data[x]
    OBVIOUS
  <2>4. VectorsInv /\ t \in Task
    OBVIOUS
  <2>5. v \in Vector => \A u \in Task \ {t} : v \notin {call[u].self, call[u].from}
    BY <1>2
  <2>6. call[t].self \in {Null, v} /\ call'[t].self \in {Null, v}
    BY <2>2
  <2>7. \A u \in Task \ {t} : call'[u] = call[u]
    BY <1>1
  <2> QED  BY ONLY <1>5, <2>1, <2>3, <2>4, <2>5, <2>6, <2>7, ConcernsBy
<1>7. /\ data'[call[t].self] # Null /\ data[call[t].self] # Null
      /\ Items(data[call[t].self])' = Items(data[v])
  <2>1. data[v] # Null /\ value'[data[v]] = value[data[v]] /\ data'[v] = data[v]
    BY <1>3, <1>5, VectorsAssumption
  <2>2. call'[t].self = call[t].self
    BY <1>1
  <2> QED  BY <1>3, <2>1, <2>2 DEF Items
<1>8. Items(data[v])' = Items(data[v])
  BY <1>3, <1>5 DEF Items
<1> QED  BY <1>6, <1>7, <1>8, EditWaits

\* A call that shares a vector, and its object's value meanwhile: the old one
\* as long as it waits, then that of the vector that it will have.
LEMMA ShareFacts ==
  ASSUME VectorsInv, NEW t \in Task, call[t].op = "share"
  PROVE  /\ call[t] \in Calls /\ call[t].pc \in {"drop", "strings", "free", "bind"}
         /\ call[t].self \in Vector /\ data[call[t].self] = Null
         /\ \A u \in Task \ {t} : call[t].self \notin {call[u].self, call[u].from}
         /\ call[t].pc # "bind" => call[t].source \in Cell
         /\ \/ call[t].target \in {Empty, Null}
            \/ call[t].from \in Vector /\ call[t].target = data[call[t].from]
         /\ AbstractVal[call[t].self]
              = ValueAt(IF Waiting(t) THEN call[t].source ELSE call[t].target)
         /\ Result(t) = ValueAt(call[t].target)
<1>1. call[t].pc # "idle"
  BY DEF VectorsInv, CallShapes, CallShape, ShareShape
<1>2. /\ call[t] \in Calls /\ CallShape(call[t]) /\ call[t].self \in Vector
      /\ \A u \in Task \ {t} : call[t].self \notin {call[u].self, call[u].from}
  BY <1>1, RunningFacts
<1>3. /\ call[t].pc \in {"drop", "strings", "free", "bind"} /\ data[call[t].self] = Null
      /\ \/ call[t].target \in {Empty, Null}
         \/ call[t].from \in Vector /\ call[t].target = data[call[t].from]
  BY <1>2 DEF CallShape, ShareShape
<1>4. call[t].pc # "bind" => call[t].source \in Cell
  BY <1>3, SourceIsOther DEF Leaving
<1>5. AbstractVal[call[t].self]
        = ValueAt(IF Waiting(t) THEN call[t].source ELSE call[t].target)
  BY <1>2, Written DEF Held
<1>6. Result(t) = ValueAt(call[t].target)
  BY ResultsAreRead DEF ResultsRead
<1> QED  BY <1>2, <1>3, <1>4, <1>5, <1>6

\* What such a call's next step leaves of that.
LEMMA ShareGoesOn ==
  ASSUME VectorsInv, VectorsInv', NEW t \in Task, call[t].op = "share",
         call[t].pc \in {"drop", "strings", "free"},
         NEW r, call' = [call EXCEPT ![t] = r],
         r.op = "share", r.self = call[t].self, r.target = call[t].target,
         r.pc # "drop", r.source # Empty,
         data' = data,
         \A x \in Cell : x # call[t].source \/ call[t].pc # "free" => value'[x] = value[x]
  PROVE  Values!Perform(t) \/ UNCHANGED Values!vars
<1> PICK c : c = call[t]
  OBVIOUS
<1> PICK v : v = c.self
  OBVIOUS
<1> PICK o : o = IF c.pc = "free" THEN c.source ELSE Null
  OBVIOUS
<1>1. /\ call'[t] = r /\ \A u \in Task \ {t} : call'[u] = call[u]
  BY DEF VectorsInv, Typed
<1>2. /\ v \in Vector /\ data[v] = Null /\ c.source \in Cell
      /\ \A u \in Task \ {t} : v \notin {call[u].self, call[u].from}
      /\ c.target \in {Empty, Null} \/ (c.from \in Vector /\ c.target = data[c.from])
      /\ AbstractVal[v] = ValueAt(IF Waiting(t) THEN c.source ELSE c.target)
      /\ Result(t) = ValueAt(c.target)
  BY ShareFacts
<1>3. o \in Cell => Holders(o) = {}
  BY ReleasedHasNoHolder, VectorsAssumption
<1>4. \A x \in Cell \ {o} : value'[x] = value[x]
  OBVIOUS
<1>5. Concerns(t, v)
  <2>1. o \in Cell => Holders(o) \subseteq {t} \cup ({v} \cap Vector)
    BY <1>3
  <2>2. call[t].self = v /\ call'[t].self = v
    BY <1>1
  <2>3. \A x \in Vector \ {v} : data'[x] = data[x]
    OBVIOUS
  <2>4. VectorsInv /\ t \in Task
    OBVIOUS
  <2>5. v \in Vector => \A u \in Task \ {t} : v \notin {call[u].self, call[u].from}
    BY <1>2
  <2>6. call[t].self \in {Null, v} /\ call'[t].self \in {Null, v}
    BY <2>2
  <2>7. \A u \in Task \ {t} : call'[u] = call[u]
    BY <1>1
  <2> QED  BY ONLY <1>4, <2>1, <2>3, <2>4, <2>5, <2>6, <2>7, ConcernsBy
<1>6. ~Waiting(t)' /\ (Waiting(t) <=> c.pc = "drop")
  <2>1. c.source # Empty
    BY <1>2, VectorsAssumption
  <2> QED  BY <1>1, <2>1 DEF Waiting
<1>7. AbstractVal'[v] = ValueAt(c.target)
  <2>1. c.target \in Cell => c.target # o
    <3>1. o \in Cell => \A x \in Vector : data[x] # o
      BY <1>3 DEF Holders
    <3> QED  BY <1>2, <3>1, VectorsAssumption
  <2>2. call'[t].target = c.target /\ (c.target \in Cell => value'[c.target] = value[c.target])
    BY <1>1, <1>4, <2>1
  <2>3. ValueAt(call[t].target)' = ValueAt(c.target)
    BY ONLY <2>2 DEF ValueAt, Items
  <2>4. call'[t].self = v /\ call'[t].op = "share"
    BY <1>1
  <2>5. AbstractVal'[v] = Held(t)'
    BY <1>2, <2>4, WrittenNext
  <2>6. Held(t)' = ValueAt(call[t].target)'
    BY <1>6, <2>4 DEF Held
  <2> QED  BY <2>3, <2>5, <2>6
<1>8. CASE Waiting(t)
  <2>1. Values!Perform(t)
    BY <1>2, <1>5, <1>6, <1>7, <1>8, Performs DEF Pend
  <2> QED  BY <2>1
<1>9. CASE ~Waiting(t)
  <2>1. Pend(t)' = Pend(t)
    BY <1>6, <1>9 DEF Pend
  <2> QED  BY <1>2, <1>5, <1>7, <1>9, <2>1, Stutters
<1> QED  BY <1>8, <1>9

\* The call c after a step of Detach that does not release anything.
Copies(c) == {[c EXCEPT !.pc = "move"], [c EXCEPT !.pc = "copy", !.i = 0],
              [c EXCEPT !.i = c.i + 1, !.pc = "drop"], [c EXCEPT !.i = c.i + 1, !.pc = "copy"]}

\* It goes on with the arguments it had.
LEMMA CopyingCall ==
  ASSUME NEW c \in Calls, c.pc \in {"look", "copy"}, NEW r \in Copies(c)
  PROVE  GoesOn(c, r)
<1>1. CASE r = [c EXCEPT !.pc = "move"]
  BY <1>1 DEF GoesOn, Calls
<1>2. CASE r = [c EXCEPT !.pc = "copy", !.i = 0]
  BY <1>2 DEF GoesOn, Calls
<1>3. CASE r = [c EXCEPT !.i = c.i + 1, !.pc = "drop"]
  BY <1>3 DEF GoesOn, Calls
<1>4. CASE r = [c EXCEPT !.i = c.i + 1, !.pc = "copy"]
  BY <1>4 DEF GoesOn, Calls
<1> QED  BY <1>1, <1>2, <1>3, <1>4 DEF Copies

\* Detach looks at the counter and references the strings, which does not show.
LEMMA CopyingImplements ==
  ASSUME VectorsInv, VectorsInv', NEW t \in Task, Look(t) \/ CopyString(t)
  PROVE  UNCHANGED Values!vars
<1> PICK c : c = call[t]
  OBVIOUS
<1>1. c.pc \in {"look", "copy"} /\ c.pc \in Leaving
  BY DEF Look, CopyString, Leaving
<1>2. c \in Calls /\ c.op \in Edits
  BY <1>1, RunningFacts DEF CallShape, EditShape
<1> PICK r \in Copies(c) : call' = [call EXCEPT ![t] = r] /\ data' = data /\ value' = value
  <2>1. CASE Look(t)
    BY <2>1 DEF Look, Go, vectors, Copies
  <2>2. CASE CopyString(t)
    BY <2>2 DEF CopyString, Go, vectors, Copies
  <2> QED  BY <2>1, <2>2
<1>3. GoesOn(c, r)
  BY <1>1, <1>2, CopyingCall
<1> QED  BY <1>1, <1>2, <1>3, DetachWaits

\* The call c after a step of the release of its old vector.
Releases(c) == {Continue(c), [c EXCEPT !.pc = "strings", !.i = 0], [c EXCEPT !.pc = "free"],
                [c EXCEPT !.i = c.i + 1, !.pc = "free"], [c EXCEPT !.i = c.i + 1, !.pc = "strings"]}

\* It has the arguments it had.
LEMMA ReleasingCall ==
  ASSUME NEW c \in Calls, NEW r \in Releases(c)
  PROVE  /\ r.op = c.op /\ r.self = c.self /\ r.item = c.item /\ r.index = c.index
         /\ r.other = c.other /\ r.target = c.target /\ r.source \in {c.source, Null}
         /\ r.pc \in {"strings", "free", "store", "bind"}
<1>1. CASE r = Continue(c)
  BY <1>1 DEF Continue, Calls
<1>2. CASE r = [c EXCEPT !.pc = "strings", !.i = 0]
  BY <1>2 DEF Calls
<1>3. CASE r = [c EXCEPT !.pc = "free"]
  BY <1>3 DEF Calls
<1>4. CASE r = [c EXCEPT !.i = c.i + 1, !.pc = "free"]
  BY <1>4 DEF Calls
<1>5. CASE r = [c EXCEPT !.i = c.i + 1, !.pc = "strings"]
  BY <1>5 DEF Calls
<1> QED  BY <1>1, <1>2, <1>3, <1>4, <1>5 DEF Releases

\* The old vector is dereferenced, taken apart and deallocated.  In an edit that
\* does not show; an object that shares a vector gives up its value first.
LEMMA LeavingImplements ==
  ASSUME VectorsInv, VectorsInv', NEW t \in Task, Drop(t) \/ DropString(t) \/ Free(t)
  PROVE  Values!Perform(t) \/ UNCHANGED Values!vars
<1> PICK c : c = call[t]
  OBVIOUS
<1> PICK r \in Releases(c) :
       /\ call' = [call EXCEPT ![t] = r] /\ data' = data
       /\ \A x \in Cell : x # c.source \/ c.pc # "free" => value'[x] = value[x]
  <2>1. CASE Drop(t)
    BY <2>1 DEF Drop, Go, Releases
  <2>2. CASE DropString(t)
    BY <2>2 DEF DropString, Go, vectors, Releases
  <2>3. CASE Free(t)
    BY <2>3 DEF Free, Go, VectorsInv, Typed, Releases
  <2> QED  BY <2>1, <2>2, <2>3
<1>1. c.pc \in {"drop", "move", "strings", "free"} /\ c.pc \in Leaving
  BY DEF Drop, DropString, Free, Leaving
<1>2. c \in Calls /\ c.op \in Edits \cup {"share"} /\ c.source \in Cell
  BY <1>1, RunningFacts, SourceIsOther
<1>3. CASE c.op \in Edits
  <2>1. GoesOn(c, r)
    BY <1>1, <1>2, ReleasingCall DEF GoesOn
  <2> QED  BY <1>1, <1>3, <2>1, DetachWaits
<1>4. CASE c.op = "share"
  <2>1. c.pc \in {"drop", "strings", "free"}
    BY <1>1, <1>4, ShareFacts
  <2>2. /\ r.op = "share" /\ r.self = c.self /\ r.target = c.target
        /\ r.pc # "drop" /\ r.source # Empty
    BY <1>2, <1>4, ReleasingCall, VectorsAssumption
  <2>3. /\ call' = [call EXCEPT ![t] = r] /\ data' = data
        /\ \A x \in Cell : x # call[t].source \/ call[t].pc # "free" => value'[x] = value[x]
    OBVIOUS
  <2>4. VectorsInv /\ VectorsInv' /\ t \in Task /\ call[t] = c
    OBVIOUS
  <2> QED  BY ONLY <1>4, <2>1, <2>2, <2>3, <2>4, ShareGoesOn
<1> QED  BY <1>2, <1>3, <1>4

\* The object is assigned: it takes its new value, unless it did when its old
\* vector was given up.
LEMMA BindImplements ==
  ASSUME VectorsInv, VectorsInv', NEW t \in Task, Bind(t)
  PROVE  Values!Perform(t) \/ UNCHANGED Values!vars
<1> PICK c : c = call[t]
  OBVIOUS
<1> PICK v : v = c.self
  OBVIOUS
<1>1. /\ c.pc = "bind" /\ value' = value /\ data' = [data EXCEPT ![v] = c.target]
      /\ call'[t] = Idle /\ \A u \in Task \ {t} : call'[u] = call[u]
  BY DEF Bind, Go, VectorsInv, Typed
<1>2. c.op = "share"
  BY <1>1, RunningFacts DEF CallShape, ShareShape
<1>3. /\ v \in Vector /\ \A u \in Task \ {t} : v \notin {call[u].self, call[u].from}
      /\ AbstractVal[v] = ValueAt(IF Waiting(t) THEN c.source ELSE c.target)
      /\ Result(t) = ValueAt(c.target)
  BY <1>2, ShareFacts
<1>4. Idle.self = Null /\ Idle.pc = "idle" /\ Idle.op # "share"
  BY DEF Idle
<1>5. \A x \in Vector : data'[x] = IF x = v THEN c.target ELSE data[x]
  BY <1>1 DEF VectorsInv, Typed
<1>6. Concerns(t, v)
  BY <1>1, <1>3, <1>4, <1>5, ConcernsCall
<1>7. ~Waiting(t)'
  BY <1>1, <1>4 DEF Waiting
<1>8. AbstractVal'[v] = ValueAt(c.target)
  <2>1. \A u \in Task : call'[u].self # v
    BY <1>1, <1>3, <1>4, VectorsAssumption
  <2>2. AbstractVal'[v] = ValueAt(data[v])'
    BY <1>3, <2>1, UnwrittenNext
  <2>3. data'[v] = c.target /\ value' = value
    BY <1>1, <1>3, <1>5
  <2>4. ValueAt(data[v])' = ValueAt(c.target)
    BY ONLY <2>3 DEF ValueAt, Items
  <2> QED  BY <2>2, <2>4
<1>9. CASE Waiting(t)
  <2>1. Values!Perform(t)
    BY <1>3, <1>6, <1>7, <1>8, <1>9, Performs DEF Pend
  <2> QED  BY <2>1
<1>10. CASE ~Waiting(t)
  <2>1. Pend(t)' = Pend(t)
    BY <1>7, <1>10 DEF Pend
  <2> QED  BY <1>3, <1>6, <1>8, <1>10, <2>1, Stutters
<1> QED  BY <1>9, <1>10

\* The items are stored: the object takes its new value.
LEMMA StorePerforms ==
  ASSUME VectorsInv, VectorsInv', NEW t \in Task, call[t].pc = "store",
         NEW pc \in {"idle", "refer", "spread"}, Store(t, Result(t), pc)
  PROVE  Values!Perform(t)
<1> PICK c : c = call[t]
  OBVIOUS
<1> PICK v : v = c.self
  OBVIOUS
<1> PICK o : o = data[v]
  OBVIOUS
<1> PICK r : r = IF pc = "idle" THEN Idle ELSE [c EXCEPT !.pc = pc, !.index = 0]
  OBVIOUS
<1>1. /\ value' = [value EXCEPT ![o] = Result(t)] /\ data' = data
      /\ call'[t] = r /\ \A u \in Task \ {t} : call'[u] = call[u]
  BY DEF Store, Go, VectorsInv, Typed
<1>2. /\ c \in Calls /\ CallShape(c) /\ v \in Vector /\ c.op \in Edits
      /\ o \in Cell /\ \A u \in Task \ {t} : v \notin {call[u].self, call[u].from}
  BY StoringFacts, RunningFacts
<1>3. \A x \in Cell : value'[x] = IF x = o THEN Result(t) ELSE value[x]
  BY <1>1 DEF VectorsInv, Typed
<1>4. /\ r.self \in {v, Null} /\ r.pc = pc /\ (r.self = v \/ r.self = Null)
      /\ r.op # "share"
  BY <1>2 DEF Idle, Calls, Edits
<1>5. Holders(o) \subseteq {v}
  <2>1. counter[o] = 1 /\ v \in Holders(o)
    BY <1>2, HoldersNow DEF CallShape, EditShape
  <2> QED  BY <1>2, <2>1, SoleHolder
<1>6. Concerns(t, v)
  <2>1. o \in Cell => Holders(o) \subseteq {t} \cup ({v} \cap Vector)
    BY <1>2, <1>5
  <2>2. call[t].self \in {Null, v} /\ call'[t].self \in {Null, v}
    BY <1>1, <1>4
  <2>3. \A x \in Cell \ {o} : value'[x] = value[x]
    BY <1>3
  <2>4. \A x \in Vector \ {v} : data'[x] = data[x]
    BY <1>1
  <2>5. v \in Vector => \A u \in Task \ {t} : v \notin {call[u].self, call[u].from}
    BY <1>2
  <2>6. \A u \in Task \ {t} : call'[u] = call[u]
    BY <1>1
  <2>7. VectorsInv /\ t \in Task
    OBVIOUS
  <2> QED  BY ONLY <2>1, <2>2, <2>3, <2>4, <2>5, <2>6, <2>7, ConcernsBy
<1>7. Waiting(t) /\ ~Waiting(t)'
  BY <1>1, <1>2, <1>4 DEF Waiting, Edits
<1>8. AbstractVal'[v] = Result(t)
  <2>1. AbstractVal'[v] = ValueAt(data[v])'
    <3>1. CASE r.self = v
      <4>1. call'[t].self = v /\ call'[t].op # "share"
        BY <1>1, <1>4, <3>1
      <4>2. AbstractVal'[v] = Held(t)'
        BY <1>2, <4>1, WrittenNext
      <4>3. Held(t)' = ValueAt(data[call[t].self])'
        BY <4>1 DEF Held
      <4>4. ValueAt(data[call[t].self])' = ValueAt(data[v])'
        BY ONLY <4>1 DEF ValueAt, Items
      <4> QED  BY <4>2, <4>3, <4>4
    <3>2. CASE r.self = Null
      <4>1. \A u \in Task : call'[u].self # v
        BY <1>1, <1>2, <3>2, VectorsAssumption
      <4> QED  BY <1>2, <4>1, UnwrittenNext
    <3> QED  BY <1>4, <3>1, <3>2
  <2>2. data'[v] = o /\ value'[o] = Result(t) /\ o # Null
    BY <1>1, <1>2, <1>3, VectorsAssumption
  <2>3. ValueAt(data[v])' = Result(t)
    BY <1>2, <2>2 DEF ValueAt, Items
  <2> QED  BY <2>1, <2>3
<1> QED  BY <1>2, <1>6, <1>7, <1>8, Performs DEF Pend

\* So is what Append, Insert, Replace and Prepend make of it.
LEMMA StoresImplement ==
  ASSUME VectorsInv, VectorsInv', NEW t \in Task,
         \/ StoreAppended(t) \/ StoreInserted(t)
         \/ StoreReplaced(t) \/ StorePrepended(t)
  PROVE  Values!Perform(t)
<1> PICK c : c = call[t]
  OBVIOUS
<1> PICK s : s = value[data[c.self]]
  OBVIOUS
<1>1. c.pc = "store"
  BY DEF StoreAppended, StoreInserted, StoreReplaced, StorePrepended, Storing
<1>2. s = Items(data[c.self]) /\ s \in Seq(String) /\ c \in Calls /\ CallShape(c)
  BY <1>1, StoringFacts DEF Items
<1>3. CASE StoreAppended(t)
  <2>1. Result(t) = Append(s, c.item)
    BY <1>2, <1>3, ResultsAreRead DEF ResultsRead, StoreAppended, Storing
  <2> QED  BY <1>1, <1>3, <2>1, StorePerforms DEF StoreAppended
<1>4. CASE StoreInserted(t)
  <2>1. Result(t) = Inserted(s, c.index, c.item)
    BY <1>2, <1>4, ResultsAreRead DEF ResultsRead, StoreInserted, Storing
  <2> QED  BY <1>1, <1>4, <2>1, StorePerforms DEF StoreInserted
<1>5. CASE StoreReplaced(t)
  <2> PICK n : n = c.index + 1
    OBVIOUS
  <2>1. Result(t) = [s EXCEPT ![n] = c.item]
    BY <1>2, <1>5, ResultsAreRead DEF ResultsRead, StoreReplaced, Storing
  <2>2. s[n] = c.item => [s EXCEPT ![n] = c.item] = s
    BY <1>2
  <2>3. Store(t, Result(t), "idle") \/ Store(t, Result(t), "refer")
    BY <1>5, <2>1, <2>2 DEF StoreReplaced
  <2> QED  BY <1>1, <2>3, StorePerforms
<1>6. CASE StorePrepended(t)
  <2>1. Result(t) = Items(c.other) \o s
    BY <1>2, <1>6, ResultsAreRead DEF ResultsRead, StorePrepended, Storing
  <2> QED  BY <1>1, <1>6, <2>1, StorePerforms DEF StorePrepended
<1> QED  BY <1>3, <1>4, <1>5, <1>6

\* What has been stored is referenced, which does not show.
LEMMA ReferImplements ==
  ASSUME VectorsInv, VectorsInv', NEW t \in Task, Refer(t) \/ ReferPrepended(t)
  PROVE  UNCHANGED Values!vars
<1> PICK c : c = call[t]
  OBVIOUS
<1> PICK v : v = c.self
  OBVIOUS
<1> PICK r : /\ call' = [call EXCEPT ![t] = r] /\ data' = data /\ value' = value
             /\ r \in {Idle, [c EXCEPT !.i = c.i + 1]}
  <2>1. CASE Refer(t)
    BY <2>1 DEF Refer, Go, vectors
  <2>2. CASE ReferPrepended(t)
    BY <2>2 DEF ReferPrepended, Go, vectors
  <2> QED  BY <2>1, <2>2
<1>1. c.pc \in {"refer", "spread"}
  BY DEF Refer, ReferPrepended
<1>2. /\ c \in Calls /\ CallShape(c) /\ v \in Vector /\ c.op \in Edits
      /\ \A u \in Task \ {t} : v \notin {call[u].self, call[u].from}
  BY <1>1, RunningFacts DEF CallShape, EditShape
<1>3. call'[t] = r /\ \A u \in Task \ {t} : call'[u] = call[u]
  BY DEF VectorsInv, Typed
<1>4. /\ (r.self = v /\ r.pc = c.pc) \/ (r.self = Null /\ r.pc = "idle")
      /\ r.op # "share" /\ c.op # "share"
  BY <1>2 DEF Idle, Calls, Edits
<1>5. Concerns(t, v)
  BY <1>2, <1>3, <1>4, ConcernsCall
<1>6. ~Waiting(t) /\ ~Waiting(t)'
  BY <1>1, <1>3, <1>4 DEF Waiting
<1>7. AbstractVal[v] = ValueAt(data[v])
  BY <1>2, <1>4, Written DEF Held
<1>8. AbstractVal'[v] = ValueAt(data[v])'
  <2>1. CASE r.self = v
    <3>1. call'[t].self = v /\ call'[t].op # "share"
      BY <1>3, <1>4, <2>1
    <3>2. AbstractVal'[v] = Held(t)'
      BY <1>2, <3>1, WrittenNext
    <3>3. Held(t)' = ValueAt(data[call[t].self])'
      BY <3>1 DEF Held
    <3>4. ValueAt(data[call[t].self])' = ValueAt(data[v])'
      BY ONLY <3>1 DEF ValueAt, Items
    <3> QED  BY <3>2, <3>3, <3>4
  <2>2. CASE r.self = Null
    <3>1. \A u \in Task : call'[u].self # v
      BY <1>2, <1>3, <2>2, VectorsAssumption
    <3> QED  BY <1>2, <3>1, UnwrittenNext
  <2> QED  BY <1>4, <2>1, <2>2
<1>9. ValueAt(data[v])' = ValueAt(data[v])
  BY DEF ValueAt, Items
<1>10. Pend(t)' = Pend(t)
  BY <1>6 DEF Pend
<1> QED  BY <1>2, <1>5, <1>7, <1>8, <1>9, <1>10, Stutters

\* An item between two sequences belongs to the one or to the other.
LEMMA ItemBetween ==
  ASSUME NEW x \in Seq(String), NEW y \in String, NEW z \in Seq(String)
  PROVE  Append(x, y) \o z = x \o (<<y>> \o z)
OBVIOUS

\* A slice from item m on starts with that item.
LEMMA SliceStarts ==
  ASSUME NEW x \in Seq(String), NEW s \in Seq(String),
         NEW m \in 1 .. Len(s), NEW n \in m .. Len(s)
  PROVE  x \o SubSeq(s, m, n) = Append(x, s[m]) \o SubSeq(s, m + 1, n)
<1> PICK y : y = s[m]
  OBVIOUS
<1> PICK z : z = SubSeq(s, m + 1, n)
  OBVIOUS
<1>1. y \in String /\ z \in Seq(String)
  OBVIOUS
<1>2. SubSeq(s, m, n) = <<y>> \o z
  OBVIOUS
<1>3. Append(x, y) \o z = x \o (<<y>> \o z)
  BY <1>1, ItemBetween
<1> QED  BY <1>2, <1>3

\* Slice stores a string, which shows with the last one only.
LEMMA SliceStringImplements ==
  ASSUME VectorsInv, VectorsInv', NEW t \in Task, SliceString(t)
  PROVE  Values!Perform(t) \/ UNCHANGED Values!vars
<1> PICK c : c = call[t]
  OBVIOUS
<1> PICK v : v = c.self
  OBVIOUS
<1> PICK o : o = c.target
  OBVIOUS
<1> PICK s : s = Items(c.source)
  OBVIOUS
<1> PICK x : x = value[o]
  OBVIOUS
<1>1. /\ c.pc = "slice" /\ c.op = "slice" /\ c \in Calls /\ CallShape(c)
      /\ v \in Vector /\ data[v] = Null /\ c.source \in Cell /\ o \in Cell
      /\ counter[o] = 1 /\ o # c.source /\ t \in Holders(o)
      /\ s \in Seq(String) /\ x \in Seq(String) /\ s = value[c.source]
      /\ c.i \in Nat /\ c.index \in Nat /\ c.i < c.index /\ c.index <= Len(s)
      /\ \A u \in Task \ {t} : v \notin {call[u].self, call[u].from}
  BY SliceFacts, RunningFacts DEF SliceString, Items
<1>2. \A y \in Cell : value'[y] = IF y = o THEN Append(x, s[c.i + 1]) ELSE value[y]
  BY <1>1 DEF SliceString, VectorsInv, Typed
<1>3. c.from \in Vector \ {v} /\ c.source = data[c.from]
  BY <1>1 DEF CallShape, SliceShape, OperandShape
<1>4. Holders(o) \subseteq {t}
  BY <1>1, SoleHolder
<1>5. Waiting(t) /\ Result(t) = x \o SubSeq(s, c.i + 1, c.index)
  BY <1>1, ResultsAreRead DEF ResultsRead, Waiting
<1>6. c.i + 1 \in 1 .. Len(s) /\ c.index \in c.i + 1 .. Len(s)
  BY <1>1
<1>7. Result(t) = Append(x, s[c.i + 1]) \o SubSeq(s, c.i + 1 + 1, c.index)
  <2> PICK m : m = c.i + 1
    OBVIOUS
  <2>1. x \in Seq(String) /\ s \in Seq(String) /\ m \in 1 .. Len(s) /\ c.index \in m .. Len(s)
    BY <1>1, <1>6
  <2>2. x \o SubSeq(s, m, c.index) = Append(x, s[m]) \o SubSeq(s, m + 1, c.index)
    BY ONLY <2>1, SliceStarts
  <2> QED  BY <1>5, <2>2
<1>8. CASE c.i + 1 < c.index /\ Go(t, [c EXCEPT !.i = @ + 1]) /\ UNCHANGED data
  <2> PICK r : r = [c EXCEPT !.i = @ + 1]
    OBVIOUS
  <2>1. /\ r.pc = "slice" /\ r.op = "slice" /\ r.self = v /\ r.i = c.i + 1 /\ r.source = c.source
        /\ r.index = c.index /\ r.target = o
    BY <1>1 DEF Calls
  <2>2. /\ call'[t] = r /\ \A u \in Task \ {t} : call'[u] = call[u]
        /\ data' = data
    BY <1>8 DEF Go, VectorsInv, Typed
  <2>3. Concerns(t, v)
    <3>1. o \in Cell => Holders(o) \subseteq {t} \cup ({v} \cap Vector)
      BY <1>4
    <3>2. call[t].self \in {Null, v} /\ call'[t].self \in {Null, v}
      BY <2>1, <2>2
    <3>3. \A y \in Cell \ {o} : value'[y] = value[y]
      BY <1>2
    <3>4. \A y \in Vector \ {v} : data'[y] = data[y]
      BY <2>2
    <3>5. VectorsInv /\ t \in Task
      OBVIOUS
    <3>6. /\ \A u \in Task \ {t} : call'[u] = call[u]
          /\ v \in Vector => \A u \in Task \ {t} : v \notin {call[u].self, call[u].from}
      BY <1>1, <2>2
    <3> QED  BY ONLY <3>1, <3>2, <3>3, <3>4, <3>5, <3>6, ConcernsBy
  <2>4. Waiting(t)'
    BY <2>1, <2>2 DEF Waiting
  <2>5. AbstractVal[v] = Null
    BY <1>1, Written DEF Held, ValueAt
  <2>6. AbstractVal'[v] = Null
    <3>1. call'[t].self = v /\ call'[t].op = "slice" /\ data'[v] = Null
      BY <1>1, <2>1, <2>2
    <3>2. AbstractVal'[v] = Held(t)'
      BY <1>1, <3>1, WrittenNext
    <3>3. Held(t)' = ValueAt(data[call[t].self])'
      BY <3>1 DEF Held
    <3> QED  BY <3>1, <3>2, <3>3 DEF ValueAt
  <2>7. Result(t)' = Result(t)
    <3>1. Items(call[t].source)' = s
      BY <1>1, <1>2, <2>1, <2>2 DEF Items
    <3>4. Result(t)' = value'[call'[t].target]
            \o SubSeq(Items(call[t].source)', call'[t].i + 1, call'[t].index)
      BY <2>1, <2>2, ResultsAreReadNext DEF ResultsRead
    <3>5. call'[t].target = o /\ call'[t].i = c.i + 1 /\ call'[t].index = c.index
      BY <2>1, <2>2
    <3>2. Result(t)' = value'[o] \o SubSeq(Items(call[t].source)', (c.i + 1) + 1, c.index)
      BY ONLY <3>4, <3>5
    <3>3. value'[o] = Append(x, s[c.i + 1])
      BY <1>1, <1>2
    <3> QED  BY ONLY <1>7, <3>1, <3>2, <3>3
  <2>8. Pend(t)' = Pend(t)
    <3>1. call'[t].self = call[t].self
      BY <2>1, <2>2
    <3> QED  BY <1>5, <2>4, <2>7, <3>1 DEF Pend
  <2> QED  BY <1>1, <2>3, <2>5, <2>6, <2>8, Stutters
<1>9. CASE c.i + 1 = c.index /\ data' = [data EXCEPT ![v] = o] /\ Go(t, Idle)
  <2>1. Idle.self = Null /\ Idle.pc = "idle" /\ Idle.op # "share"
    BY DEF Idle
  <2>2. /\ call'[t] = Idle /\ \A u \in Task \ {t} : call'[u] = call[u]
        /\ \A y \in Vector : data'[y] = IF y = v THEN o ELSE data[y]
    BY <1>9 DEF Go, VectorsInv, Typed
  <2>3. Concerns(t, v)
    <3>1. o \in Cell => Holders(o) \subseteq {t} \cup ({v} \cap Vector)
      BY <1>4
    <3>2. call[t].self \in {Null, v} /\ call'[t].self \in {Null, v}
      BY <2>1, <2>2
    <3>3. \A y \in Cell \ {o} : value'[y] = value[y]
      BY <1>2
    <3>4. \A y \in Vector \ {v} : data'[y] = data[y]
      BY <2>2
    <3>5. VectorsInv /\ t \in Task
      OBVIOUS
    <3>6. /\ \A u \in Task \ {t} : call'[u] = call[u]
          /\ v \in Vector => \A u \in Task \ {t} : v \notin {call[u].self, call[u].from}
      BY <1>1, <2>2
    <3> QED  BY ONLY <3>1, <3>2, <3>3, <3>4, <3>5, <3>6, ConcernsBy
  <2>4. ~Waiting(t)'
    BY <2>1, <2>2 DEF Waiting
  <2>5. Result(t) = Append(x, s[c.i + 1])
    <3>1. SubSeq(s, c.i + 1 + 1, c.index) = <<>>
      BY <1>1, <1>9, SubSeqEmpty
    <3>2. Append(x, s[c.i + 1]) \in Seq(String)
      BY <1>1, <1>6
    <3>3. Append(x, s[c.i + 1]) \o <<>> = Append(x, s[c.i + 1])
      BY <3>2, ConcatEmptySeq
    <3> QED  BY ONLY <1>7, <3>1, <3>3
  <2>6. AbstractVal'[v] = Result(t)
    <3>1. \A u \in Task : call'[u].self # v
      BY <1>1, <2>1, <2>2, VectorsAssumption
    <3>2. AbstractVal'[v] = ValueAt(data[v])'
      BY <1>1, <3>1, UnwrittenNext
    <3>3. data'[v] = o /\ value'[o] = Result(t) /\ o # Null
      BY <1>1, <1>2, <2>2, <2>5, VectorsAssumption
    <3>4. ValueAt(data[v])' = Result(t)
      BY <1>1, <3>3 DEF ValueAt, Items
    <3> QED  BY <3>2, <3>4
  <2>7. Values!Perform(t)
    BY <1>1, <1>5, <2>3, <2>4, <2>6, Performs DEF Pend
  <2> QED  BY <2>7
<1> QED  BY <1>8, <1>9 DEF SliceString

-----------------------------------------------------------------------------
(***************************************************************************)
(* The refinement.                                                         *)
(***************************************************************************)

\* No object is in scope at first, and no call is running.
LEMMA InitImplements == Init => Values!Init
<1> SUFFICES ASSUME Init PROVE Values!Init
  OBVIOUS
<1>1. \A t \in Task : call[t].pc = "idle" /\ call[t].op = "none"
  BY DEF Init, Idle
<1>2. \A t \in Task : ~Waiting(t)
  BY <1>1 DEF Waiting
<1>3. AbstractVal = [v \in Vector |-> Null]
  BY <1>1 DEF AbstractVal, Init, ValueAt
<1> QED  BY <1>2, <1>3 DEF Values!Init, Values!NoCall

\* Every step is a step of the values or does not show.
LEMMA NextImplements ==
  ASSUME ~SelfPrepend, VectorsInv, VectorsInv', [Next]_vars
  PROVE  [Values!Next]_(Values!vars)
<1>1. CASE UNCHANGED vars
  <2>1. data' = data /\ value' = value /\ call' = call
    BY <1>1 DEF vars, vectors
  <2> QED  BY <2>1, UnseenStep
<1>2. ASSUME NEW s \in String, NewString(s) \/ ReleaseString(s)
      PROVE  [Values!Next]_(Values!vars)
  <2>1. data' = data /\ value' = value /\ call' = call
    BY <1>2 DEF NewString, ReleaseString, vectors
  <2> QED  BY <2>1, UnseenStep
<1>3. ASSUME NEW t \in Task, Start(t) PROVE [Values!Next]_(Values!vars)
  BY <1>3, StartImplements
<1>4. ASSUME NEW t \in Task, Step(t) PROVE [Values!Next]_(Values!vars)
  <2>1. CASE DetachForInsert(t) \/ Look(t) \/ CopyString(t)
    BY <2>1, DetachForInsertImplements, CopyingImplements
  <2>2. CASE Drop(t) \/ DropString(t) \/ Free(t) \/ Bind(t)
    BY <2>2, LeavingImplements, BindImplements DEF Values!Next
  <2>3. CASE \/ StoreAppended(t) \/ StoreInserted(t)
             \/ StoreReplaced(t) \/ StorePrepended(t)
    BY <2>3, StoresImplement DEF Values!Next
  <2>4. CASE Refer(t) \/ ReferPrepended(t)
    BY <2>4, ReferImplements
  <2>5. CASE SliceString(t)
    BY <2>5, SliceStringImplements DEF Values!Next
  <2> QED  BY <1>4, <2>1, <2>2, <2>3, <2>4, <2>5 DEF Step
<1> QED  BY <1>1, <1>2, <1>3, <1>4 DEF Next

\* Sharing does not show: as long as no vector is prepended to itself, the
\* vectors implement independent values, each call on an object taking effect
\* at once and on it alone, however the counters of vectors and strings are
\* accessed by other tasks meanwhile.
THEOREM VectorValuesAreImplemented ==
  ASSUME ~SelfPrepend
  PROVE  Spec => ImplementsValues
<1>1. VectorsInv /\ VectorsInv' /\ [Next]_vars => [Values!Next]_(Values!vars)
  BY NextImplements
<1> QED  BY <1>1, InitImplements, VectorsInvariance, PTL DEF Spec, ImplementsValues, Values!Spec
===============================================================================
