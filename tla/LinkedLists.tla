----------------------------- MODULE LinkedLists -----------------------------
(***************************************************************************)
(* Doubly linked lists, as the database keeps of its queries and the DOM   *)
(* of its nodes: components previous and next of the nodes on a list, and  *)
(* its head and tail.  S is the set of the nodes on a list, D that of all, *)
(* nil is the null pointer, links the nodes' components.                   *)
(***************************************************************************)
EXTENDS Integers, FiniteSets, FiniteSetTheorems, WellFoundedInduction, TLAPS

\* In the order of rank, n comes next after q in S, or q is last.
Follower(S, rank, q, n, nil) ==
  \/ n = nil /\ \A x \in S : rank[x] <= rank[q]
  \/ n \in S /\ rank[q] < rank[n] /\ \A x \in S : rank[x] <= rank[q] \/ rank[n] <= rank[x]

\* And p comes last before q, or q is first.
Leader(S, rank, q, p, nil) ==
  \/ p = nil /\ \A x \in S : rank[q] <= rank[x]
  \/ p \in S /\ rank[p] < rank[q] /\ \A x \in S : rank[x] <= rank[p] \/ rank[q] <= rank[x]

\* The links of S are those of a list in the order of rank.
InOrder(S, rank, links, head, tail, nil) ==
  /\ \A p, q \in S : rank[p] = rank[q] => p = q
  /\ \A q \in S : Follower(S, rank, q, links[q].next, nil)
  /\ \A q \in S : Leader(S, rank, q, links[q].previous, nil)
  /\ IF S = {} THEN head = nil
               ELSE head \in S /\ \A x \in S : rank[head] <= rank[x]
  /\ IF S = {} THEN tail = nil
               ELSE tail \in S /\ \A x \in S : rank[x] <= rank[tail]

\* The links agree with each other and with the ends.
Linked(S, links, head, tail, nil) ==
  /\ (head = nil) <=> (S = {})
  /\ (tail = nil) <=> (S = {})
  /\ {head, tail} \subseteq S \cup {nil}
  /\ \A q \in S : /\ {links[q].previous, links[q].next} \subseteq S \cup {nil}
                  /\ links[q].previous = nil <=> head = q
                  /\ links[q].next = nil <=> tail = q
  /\ \A p, q \in S : links[p].next = q <=> links[q].previous = p

-----------------------------------------------------------------------------
(***************************************************************************)
(* Links, and how they change.                                             *)
(***************************************************************************)

\* The links of a list agree.
LEMMA ListLinks ==
  ASSUME NEW D, NEW S \in SUBSET D, NEW rank \in [D -> Int], NEW nil, nil \notin D,
         NEW links, NEW head, NEW tail, InOrder(S, rank, links, head, tail, nil)
  PROVE  Linked(S, links, head, tail, nil)
<1>1. nil \notin S /\ \A x \in S : rank[x] \in Int
  OBVIOUS
<1>2. /\ (head = nil) <=> (S = {})
      /\ (tail = nil) <=> (S = {})
      /\ {head, tail} \subseteq S \cup {nil}
  BY <1>1 DEF InOrder
<1>3. ASSUME NEW q \in S
      PROVE  /\ {links[q].previous, links[q].next} \subseteq S \cup {nil}
             /\ links[q].previous = nil <=> head = q
             /\ links[q].next = nil <=> tail = q
  <2>1. Follower(S, rank, q, links[q].next, nil) /\ Leader(S, rank, q, links[q].previous, nil)
    BY DEF InOrder
  <2>2. /\ head \in S /\ \A x \in S : rank[head] <= rank[x]
        /\ tail \in S /\ \A x \in S : rank[x] <= rank[tail]
        /\ \A x, y \in S : rank[x] = rank[y] => x = y
    BY DEF InOrder
  <2>3. {links[q].previous, links[q].next} \subseteq S \cup {nil}
    BY <2>1 DEF Follower, Leader
  <2>4. links[q].previous = nil <=> head = q
    BY <1>1, <2>1, <2>2 DEF Leader
  <2>5. links[q].next = nil <=> tail = q
    BY <1>1, <2>1, <2>2 DEF Follower
  <2> QED  BY <2>3, <2>4, <2>5
<1>4. ASSUME NEW q \in S, NEW p \in S
      PROVE  links[p].next = q <=> links[q].previous = p
  <2>1. /\ Follower(S, rank, p, links[p].next, nil) /\ Leader(S, rank, q, links[q].previous, nil)
        /\ \A x, y \in S : rank[x] = rank[y] => x = y
    BY DEF InOrder
  <2>2. ASSUME links[p].next = q PROVE links[q].previous = p
    BY <1>1, <2>1, <2>2 DEF Follower, Leader
  <2>3. ASSUME links[q].previous = p PROVE links[p].next = q
    BY <1>1, <2>1, <2>3 DEF Follower, Leader
  <2> QED  BY <2>2, <2>3
<1> QED  BY <1>2, <1>3, <1>4 DEF Linked

\* The list does not notice what leaves its links as they are.
LEMMA SameList ==
  ASSUME NEW S, NEW rank, NEW links, NEW head, NEW tail, NEW nil,
         InOrder(S, rank, links, head, tail, nil),
         NEW after, NEW r,
         \A x \in S : /\ after[x].previous = links[x].previous
                      /\ after[x].next = links[x].next /\ r[x] = rank[x]
  PROVE  InOrder(S, r, after, head, tail, nil)
<1>1. ASSUME NEW q \in S
      PROVE  Follower(S, r, q, after[q].next, nil) /\ Leader(S, r, q, after[q].previous, nil)
  BY DEF InOrder, Follower, Leader
<1> QED  BY <1>1 DEF InOrder

\* A node that joins at the tail comes last.
LEMMA JoinsList ==
  ASSUME NEW D, NEW nil, nil \notin D,
         NEW S \in SUBSET D, NEW rank \in [D -> Int], NEW links, NEW head, NEW tail,
         InOrder(S, rank, links, head, tail, nil),
         NEW q \in D \ S, NEW after,
         after[q].previous = tail, after[q].next = nil,
         \A x \in S : after[x].previous = links[x].previous,
         \A x \in S : after[x].next = IF x = tail THEN q ELSE links[x].next
  PROVE  \E top \in Int :
           InOrder(S \cup {q}, [rank EXCEPT ![q] = top], after,
                   IF head = nil THEN q ELSE head, q, nil)
<1> DEFINE top == IF S = {} THEN 0 ELSE rank[tail] + 1
           r == [rank EXCEPT ![q] = top]
<1>1. nil \notin S /\ q \notin S /\ nil # q /\ \A x \in S : rank[x] \in Int
  OBVIOUS
<1>2. \A x \in S : rank[x] < top
  BY <1>1 DEF InOrder
<1>3. top \in Int
  BY <1>1 DEF InOrder
<1>4. /\ r \in [D -> Int] /\ r[q] = top
      /\ \A x \in S : r[x] = rank[x]
  BY <1>3
<1> HIDE DEF top, r
<1>5. \A x, y \in S \cup {q} : r[x] = r[y] => x = y
  BY <1>1, <1>2, <1>3, <1>4 DEF InOrder
<1>6. ASSUME NEW x \in S
      PROVE  /\ Follower(S \cup {q}, r, x, after[x].next, nil)
             /\ Leader(S \cup {q}, r, x, after[x].previous, nil)
  <2>1. /\ Follower(S, rank, x, links[x].next, nil) /\ Leader(S, rank, x, links[x].previous, nil)
        /\ tail \in S /\ \A y \in S : rank[y] <= rank[tail]
        /\ \A y, z \in S : rank[y] = rank[z] => y = z
    BY DEF InOrder
  <2>2. Leader(S \cup {q}, r, x, after[x].previous, nil)
    BY <1>1, <1>2, <1>3, <1>4, <2>1 DEF Leader
  <2>3. ASSUME x = tail
        PROVE  Follower(S \cup {q}, r, x, after[x].next, nil)
    BY <1>1, <1>2, <1>3, <1>4, <2>1, <2>3 DEF Follower
  <2>4. ASSUME x # tail
        PROVE  Follower(S \cup {q}, r, x, after[x].next, nil)
    BY <1>1, <1>2, <1>3, <1>4, <2>1, <2>4 DEF Follower
  <2> QED  BY <2>2, <2>3, <2>4
<1>7. Follower(S \cup {q}, r, q, after[q].next, nil)
  BY <1>1, <1>2, <1>3, <1>4 DEF Follower
<1>8. Leader(S \cup {q}, r, q, after[q].previous, nil)
  BY <1>1, <1>2, <1>3, <1>4 DEF Leader, InOrder
<1>9. /\ IF head = nil THEN S = {} ELSE head \in S /\ \A x \in S : rank[head] <= rank[x]
      /\ q \in S \cup {q}
  BY <1>1 DEF InOrder
<1>10. LET h == IF head = nil THEN q ELSE head
       IN  h \in S \cup {q} /\ \A x \in S \cup {q} : r[h] <= r[x]
  BY <1>1, <1>2, <1>3, <1>4, <1>9
<1>11. \A x \in S \cup {q} : r[x] <= r[q]
  BY <1>1, <1>2, <1>3, <1>4
<1>12. InOrder(S \cup {q}, r, after, IF head = nil THEN q ELSE head, q, nil)
  BY <1>5, <1>6, <1>7, <1>8, <1>10, <1>11 DEF InOrder
<1> QED  BY <1>3, <1>12 DEF r

\* The neighbours of a node that leaves become neighbours.
LEMMA LeavesList ==
  ASSUME NEW D, NEW nil, nil \notin D,
         NEW S \in SUBSET D, NEW rank \in [D -> Int], NEW links, NEW head, NEW tail,
         InOrder(S, rank, links, head, tail, nil),
         NEW q \in S, NEW after,
         \A x \in S \ {q} :
           /\ after[x].next = IF x = links[q].previous THEN links[q].next ELSE links[x].next
           /\ after[x].previous = IF x = links[q].next THEN links[q].previous
                                                       ELSE links[x].previous
  PROVE  InOrder(S \ {q}, rank, after,
                 IF head = q THEN links[q].next ELSE head,
                 IF tail = q THEN links[q].previous ELSE tail, nil)
<1> DEFINE n == links[q].next
           p == links[q].previous
<1>1. nil \notin S /\ \A x \in S : rank[x] \in Int
  OBVIOUS
<1>2. \A x, y \in S : rank[x] = rank[y] => x = y
  BY DEF InOrder
<1>3. Follower(S, rank, q, n, nil) /\ Leader(S, rank, q, p, nil)
  BY DEF InOrder
<1>4. /\ head \in S /\ \A x \in S : rank[head] <= rank[x]
      /\ tail \in S /\ \A x \in S : rank[x] <= rank[tail]
  BY DEF InOrder
<1> HIDE DEF n, p
<1>5. ASSUME NEW x \in S \ {q}
      PROVE  Follower(S \ {q}, rank, x, after[x].next, nil)
  <2>1. Follower(S, rank, x, links[x].next, nil)
    BY DEF InOrder
  <2>2. CASE x = p
    <3>1. after[x].next = n
      BY <2>2 DEF n, p
    <3>2. Leader(S, rank, q, x, nil) /\ x # nil
      BY <1>1, <1>3, <2>2
    <3> QED  BY <1>1, <1>2, <1>3, <3>1, <3>2 DEF Follower, Leader
  <2>3. CASE x # p
    <3>1. after[x].next = links[x].next
      BY <2>3 DEF p
    <3>2. links[x].next # q
      BY <1>1, <1>2, <1>3, <2>1, <2>3 DEF Follower, Leader
    <3> QED  BY <1>1, <2>1, <3>1, <3>2 DEF Follower
  <2> QED  BY <2>2, <2>3
<1>6. ASSUME NEW x \in S \ {q}
      PROVE  Leader(S \ {q}, rank, x, after[x].previous, nil)
  <2>1. Leader(S, rank, x, links[x].previous, nil)
    BY DEF InOrder
  <2>2. CASE x = n
    <3>1. after[x].previous = p
      BY <2>2 DEF n, p
    <3>2. Follower(S, rank, q, x, nil) /\ x # nil
      BY <1>1, <1>3, <2>2
    <3> QED  BY <1>1, <1>2, <1>3, <3>1, <3>2 DEF Follower, Leader
  <2>3. CASE x # n
    <3>1. after[x].previous = links[x].previous
      BY <2>3 DEF n
    <3>2. links[x].previous # q
      BY <1>1, <1>2, <1>3, <2>1, <2>3 DEF Follower, Leader
    <3> QED  BY <1>1, <2>1, <3>1, <3>2 DEF Leader
  <2> QED  BY <2>2, <2>3
<1>7. LET h == IF head = q THEN n ELSE head
      IN  IF S \ {q} = {} THEN h = nil
                          ELSE h \in S \ {q} /\ \A x \in S \ {q} : rank[h] <= rank[x]
  BY <1>1, <1>2, <1>3, <1>4 DEF Follower
<1>8. LET t == IF tail = q THEN p ELSE tail
      IN  IF S \ {q} = {} THEN t = nil
                          ELSE t \in S \ {q} /\ \A x \in S \ {q} : rank[x] <= rank[t]
  BY <1>1, <1>2, <1>3, <1>4 DEF Leader
<1> QED  BY <1>2, <1>5, <1>6, <1>7, <1>8 DEF InOrder, n, p

-----------------------------------------------------------------------------
(***************************************************************************)
(* Induction, which the library states for operators, over sets.           *)
(***************************************************************************)

\* Every set of natural numbers but the empty one has a least member.
LEMMA LeastNatural ==
  ASSUME NEW T \in SUBSET Nat, T # {}
  PROVE  \E m \in T : \A k \in T : m <= k
<1>1. IsWellFoundedOn(OpToRel(<, Nat), Nat)
  BY NatLessThanWellFounded
<1>2. PICK m \in T : \A k \in T : <<k, m>> \notin OpToRel(<, Nat)
  BY <1>1, WFMin
<1>3. \A i, j \in Nat : i < j => <<i, j>> \in OpToRel(<, Nat)
  BY DEF OpToRel
<1>4. \A k \in T : ~(k < m)
  BY <1>2, <1>3
<1> QED  BY <1>4

\* A set of natural numbers that has 0 and the successor of each has them all.
LEMMA AllNaturals ==
  ASSUME NEW S, 0 \in S, \A n \in Nat : n \in S => n + 1 \in S
  PROVE  \A n \in Nat : n \in S
<1> SUFFICES ASSUME Nat \ S # {} PROVE FALSE
  OBVIOUS
<1>1. PICK m \in Nat \ S : \A k \in Nat \ S : m <= k
  BY LeastNatural
<1>2. m # 0 /\ m - 1 \in Nat
  BY <1>1
<1> QED  BY <1>1, <1>2

-----------------------------------------------------------------------------
(***************************************************************************)
(* The walk over a list.                                                   *)
(***************************************************************************)

\* The node after x, if there is one.
After(links, x, nil) == IF x = nil THEN nil ELSE links[x].next

\* The walk w makes n steps from the head.
WalkOf(w, n, links, head, nil) ==
  /\ DOMAIN w = 0 .. n /\ w[0] = head
  /\ \A i \in 0 .. n - 1 : w[i + 1] = After(links, w[i], nil)

\* There is a walk of any length.
LEMMA WalkExists ==
  ASSUME NEW links, NEW head, NEW nil, NEW n \in Nat
  PROVE  \E w : WalkOf(w, n, links, head, nil)
<1> DEFINE W == {m \in Nat : \E w : WalkOf(w, m, links, head, nil)}
<1>1. 0 \in W
  <2>1. WalkOf([i \in 0 .. 0 |-> head], 0, links, head, nil)
    BY DEF WalkOf
  <2> QED  BY <2>1
<1>2. ASSUME NEW m \in Nat, m \in W PROVE m + 1 \in W
  <2>1. PICK w : WalkOf(w, m, links, head, nil)
    BY <1>2
  <2> DEFINE v == [i \in 0 .. m + 1 |-> IF i = m + 1 THEN After(links, w[m], nil) ELSE w[i]]
  <2>2. WalkOf(v, m + 1, links, head, nil)
    BY <2>1 DEF WalkOf
  <2> QED  BY <2>2
<1> HIDE DEF W
<1>3. n \in W
  BY <1>1, <1>2, AllNaturals
<1> QED  BY <1>3 DEF W

\* The nodes on the list of a lower rank than x.
Before(S, rank, x) == {y \in S : rank[y] < rank[x]}

\* A node of a lower rank has fewer before it.
LEMMA LowerIsSmaller ==
  ASSUME NEW D, NEW S \in SUBSET D, IsFiniteSet(S), NEW rank \in [D -> Int],
         NEW x \in S, NEW y \in S, rank[x] < rank[y]
  PROVE  Cardinality(Before(S, rank, x)) # Cardinality(Before(S, rank, y))
<1>1. /\ Before(S, rank, x) \in SUBSET Before(S, rank, y)
      /\ Before(S, rank, y) \in SUBSET S
      /\ x \in Before(S, rank, y) \ Before(S, rank, x)
  BY DEF Before
<1>2. IsFiniteSet(Before(S, rank, y))
  BY <1>1, FS_Subset
<1> QED  BY <1>1, <1>2, FS_Subset

\* After k steps, k nodes have been passed, or all of them.
LEMMA WalkPasses ==
  ASSUME NEW D, NEW nil, nil \notin D,
         NEW S \in SUBSET D, IsFiniteSet(S), NEW rank \in [D -> Int],
         NEW links, NEW head, NEW tail, InOrder(S, rank, links, head, tail, nil),
         NEW n \in Nat, NEW w, WalkOf(w, n, links, head, nil), NEW k \in 0 .. n
  PROVE  \/ w[k] \in S /\ Cardinality(Before(S, rank, w[k])) = k
         \/ w[k] = nil /\ Cardinality(S) <= k
<1> DEFINE Passed(i) == \/ w[i] \in S /\ Cardinality(Before(S, rank, w[i])) = i
                        \/ w[i] = nil /\ Cardinality(S) <= i
           P == {i \in Nat : i <= n => Passed(i)}
<1>1. 0 \in P
  <2>1. w[0] = head
    BY DEF WalkOf
  <2>2. CASE S = {}
    BY <2>1, <2>2, FS_EmptySet DEF InOrder
  <2>3. CASE S # {}
    <3>1. head \in S /\ \A x \in S : rank[head] <= rank[x]
      BY <2>3 DEF InOrder
    <3>2. Before(S, rank, head) = {}
      BY <3>1 DEF Before
    <3> QED  BY <2>1, <3>1, <3>2, FS_EmptySet
  <2> QED  BY <2>2, <2>3
<1>2. ASSUME NEW i \in Nat, i \in P PROVE i + 1 \in P
  <2> SUFFICES ASSUME i + 1 <= n PROVE Passed(i + 1)
    OBVIOUS
  <2>1. Passed(i) /\ w[i + 1] = After(links, w[i], nil)
    BY <1>2 DEF WalkOf
  <2>2. CASE w[i] = nil /\ Cardinality(S) <= i
    BY <2>1, <2>2, FS_CardinalityType DEF After
  <2>3. CASE w[i] \in S /\ Cardinality(Before(S, rank, w[i])) = i
    <3> DEFINE x == w[i]
               y == links[x].next
    <3>1. x \in D /\ x # nil /\ w[i + 1] = y /\ Follower(S, rank, x, y, nil)
      BY <2>1, <2>3 DEF After, InOrder
    <3>2. /\ \A a, b \in S : rank[a] = rank[b] => a = b
          /\ \A a \in S : rank[a] \in Int
      BY DEF InOrder
    <3>3. /\ IsFiniteSet(Before(S, rank, x)) /\ x \notin Before(S, rank, x)
      BY <3>2, <2>3, FS_Subset DEF Before
    <3>4. Cardinality(Before(S, rank, x) \cup {x}) = i + 1
      BY <2>3, <3>3, FS_AddElement
    <3> HIDE DEF x, y
    <3>5. CASE y = nil /\ \A a \in S : rank[a] <= rank[x]
      <4>1. S = Before(S, rank, x) \cup {x}
        BY <2>3, <3>2, <3>5 DEF Before, x
      <4> QED  BY <3>1, <3>4, <3>5, <4>1
    <3>6. CASE /\ y \in S /\ rank[x] < rank[y]
               /\ \A a \in S : rank[a] <= rank[x] \/ rank[y] <= rank[a]
      <4>1. Before(S, rank, y) = Before(S, rank, x) \cup {x}
        BY <2>3, <3>2, <3>6 DEF Before, x
      <4> QED  BY <3>1, <3>4, <3>6, <4>1
    <3> QED  BY <3>1, <3>5, <3>6 DEF Follower
  <2> QED  BY <2>1, <2>2, <2>3
<1> HIDE DEF P
<1>3. k \in P
  BY <1>1, <1>2, AllNaturals
<1> QED  BY <1>3 DEF P

\* So the walk meets each node of the list once, and then the end.
LEMMA WalkMeets ==
  ASSUME NEW D, NEW nil, nil \notin D,
         NEW S \in SUBSET D, IsFiniteSet(S), NEW rank \in [D -> Int],
         NEW links, NEW head, NEW tail, InOrder(S, rank, links, head, tail, nil),
         NEW n \in Nat, Cardinality(S) <= n, NEW w, WalkOf(w, n, links, head, nil)
  PROVE  /\ \A k \in 0 .. n : IF k < Cardinality(S) THEN w[k] \in S ELSE w[k] = nil
         /\ \A x \in S : \E k \in 0 .. Cardinality(S) - 1 : w[k] = x
         /\ \A i, j \in 0 .. Cardinality(S) - 1 : w[i] = w[j] => i = j
<1> DEFINE m == Cardinality(S)
<1>1. m \in Nat /\ m <= n
  BY FS_CardinalityType
<1>2. ASSUME NEW x \in S
      PROVE  /\ Cardinality(Before(S, rank, x)) \in 0 .. m - 1
             /\ IsFiniteSet(Before(S, rank, x))
  <2>1. Before(S, rank, x) \in SUBSET S /\ x \notin Before(S, rank, x)
    BY DEF Before
  <2>2. Before(S, rank, x) # S
    BY <2>1
  <2>3. /\ IsFiniteSet(Before(S, rank, x))
        /\ Cardinality(Before(S, rank, x)) <= m /\ Cardinality(Before(S, rank, x)) # m
    BY <2>1, <2>2, FS_Subset
  <2> QED  BY <1>1, <2>3, FS_CardinalityType
<1>3. ASSUME NEW k \in 0 .. n
      PROVE  \/ w[k] \in S /\ Cardinality(Before(S, rank, w[k])) = k
             \/ w[k] = nil /\ m <= k
  BY <1>1, WalkPasses
<1> HIDE DEF m
<1>4. ASSUME NEW k \in 0 .. n PROVE IF k < m THEN w[k] \in S ELSE w[k] = nil
  BY <1>1, <1>2, <1>3
<1>5. ASSUME NEW x \in S PROVE \E k \in 0 .. m - 1 : w[k] = x
  <2> DEFINE k == Cardinality(Before(S, rank, x))
  <2>1. k \in 0 .. n /\ k \in 0 .. m - 1
    BY <1>1, <1>2
  <2>2. w[k] \in S /\ Cardinality(Before(S, rank, w[k])) = k
    BY <1>1, <1>3, <2>1
  <2>3. ~(rank[w[k]] < rank[x])
    BY <2>2, LowerIsSmaller
  <2>4. ~(rank[x] < rank[w[k]])
    BY <2>2, LowerIsSmaller
  <2>5. w[k] = x
    BY <2>2, <2>3, <2>4 DEF InOrder
  <2> QED  BY <2>1, <2>5
<1>6. ASSUME NEW i \in 0 .. m - 1, NEW j \in 0 .. m - 1, w[i] = w[j] PROVE i = j
  <2>1. i \in 0 .. n /\ j \in 0 .. n /\ ~(m <= i) /\ ~(m <= j)
    BY <1>1
  <2> QED  BY <1>3, <1>6, <2>1
<1> QED  BY <1>4, <1>5, <1>6 DEF m
=============================================================================
