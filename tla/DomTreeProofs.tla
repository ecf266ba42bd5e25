---------------------------- MODULE DomTreeProofs ----------------------------
(***************************************************************************)
(* Theorems about DomTree and DomBuilder, for any number of nodes,         *)
(* documents and names: the lists of nodes, whatever the program and the   *)
(* builder do to the tree, and that they are those of DomForest.           *)
(***************************************************************************)
EXTENDS DomBuilder, LinkedLists

Link  == Node \cup {Null}
Nodal == [kind: {"absent", "document", "element", "attribute", "text"},
          name: Name \cup {Null}, document: Document \cup {Null},
          parent: Nodes \cup {Null}, first: [List -> Link], last: [List -> Link],
          previous: Link, next: Link]
Heaps == [Nodes -> Nodal]

\* The list that node n of h is on by its kind and parent.
HomeOf(h, n) ==
  IF h[n].parent = Null THEN <<h[n].document, "detached">>
  ELSE IF h[n].kind = "attribute" THEN <<h[n].parent, "attributes">>
                                  ELSE <<h[n].parent, "children">>

\* The nodes whose list is l of o.
On(h, o, l) == {n \in Node : h[n].kind # "absent" /\ HomeOf(h, n) = <<o, l>>}

\* The links of the nodes S are those of list l of o.
IsList(S, h, o, l) ==
  \E rank \in [Node -> Int] : InOrder(S, rank, h, h[o].first[l], h[o].last[l], Null)

\* The lists are in order, but for the nodes X that are on their way.
Chained(h, X) == \A o \in Nodes, l \in List : IsList(On(h, o, l) \ X, h, o, l)

\* Kinds, documents and parents fit each other.
Fits(h) ==
  /\ \A d \in Document : \/ h[d].kind = "absent" /\ h[d].document = Null
                         \/ h[d].kind = "document" /\ h[d].document = d
  /\ \A n \in Node :
       \/ h[n].kind = "absent" /\ h[n].document = Null /\ h[n].parent = Null
       \/ /\ h[n].kind \in {"element", "attribute", "text"}
          /\ h[n].document \in Document /\ h[h[n].document].kind = "document"
          /\ h[n].kind = "attribute" /\ h[n].parent # Null =>
               h[n].parent \in Node /\ h[h[n].parent].kind = "element"

\* No element has two attributes of a name.
Unique(h) ==
  \A a, b \in Node :
    /\ h[a].kind = "attribute" /\ h[b].kind = "attribute"
    /\ h[a].parent = h[b].parent /\ h[a].parent # Null /\ h[a].name = h[b].name
    => a = b

Lawful(h) == h \in Heaps /\ Fits(h) /\ Chained(h, {}) /\ Unique(h)

-----------------------------------------------------------------------------
(***************************************************************************)
(* Components of nodes.                                                    *)
(***************************************************************************)

\* What g and h have in common.
SameScalars(g, h) ==
  \A x \in Nodes : /\ g[x].kind = h[x].kind /\ g[x].name = h[x].name
                   /\ g[x].document = h[x].document /\ g[x].parent = h[x].parent

SameEnds(g, h) ==
  \A x \in Nodes, l \in List : g[x].first[l] = h[x].first[l] /\ g[x].last[l] = h[x].last[l]

SameLinks(g, h) == \A x \in Nodes : g[x].previous = h[x].previous /\ g[x].next = h[x].next

\* Single components of nodes.
WithPrevious(h, n, v) == [h EXCEPT ![n].previous = v]
WithNext(h, n, v)     == [h EXCEPT ![n].next = v]
WithParent(h, n, v)   == [h EXCEPT ![n].parent = v]
WithFirst(h, o, l, v) == [h EXCEPT ![o].first[l] = v]
WithLast(h, o, l, v)  == [h EXCEPT ![o].last[l] = v]

\* A new Previous of a node.
LEMMA SetPrevious ==
  ASSUME NEW h \in Heaps, NEW n \in Nodes, NEW v \in Link,
         NEW g, g = WithPrevious(h, n, v)
  PROVE  /\ g \in Heaps /\ SameScalars(g, h) /\ SameEnds(g, h)
         /\ \A x \in Nodes : g[x].next = h[x].next
         /\ \A x \in Nodes : g[x].previous = IF x = n THEN v ELSE h[x].previous
<1>1. h[n] \in Nodal /\ [h[n] EXCEPT !.previous = v] \in Nodal
  BY DEF Heaps, Nodal
<1>2. g \in Heaps
  BY <1>1 DEF Heaps, WithPrevious
<1>3. \A x \in Nodes : g[x] = IF x = n THEN [h[n] EXCEPT !.previous = v] ELSE h[x]
  BY DEF Heaps, WithPrevious
<1> QED  BY <1>1, <1>2, <1>3 DEF SameScalars, SameEnds, Nodal

\* A new Next of a node.
LEMMA SetNext ==
  ASSUME NEW h \in Heaps, NEW n \in Nodes, NEW v \in Link,
         NEW g, g = WithNext(h, n, v)
  PROVE  /\ g \in Heaps /\ SameScalars(g, h) /\ SameEnds(g, h)
         /\ \A x \in Nodes : g[x].previous = h[x].previous
         /\ \A x \in Nodes : g[x].next = IF x = n THEN v ELSE h[x].next
<1>1. h[n] \in Nodal /\ [h[n] EXCEPT !.next = v] \in Nodal
  BY DEF Heaps, Nodal
<1>2. g \in Heaps
  BY <1>1 DEF Heaps, WithNext
<1>3. \A x \in Nodes : g[x] = IF x = n THEN [h[n] EXCEPT !.next = v] ELSE h[x]
  BY DEF Heaps, WithNext
<1> QED  BY <1>1, <1>2, <1>3 DEF SameScalars, SameEnds, Nodal

\* A new first node of a list.
LEMMA SetFirst ==
  ASSUME NEW h \in Heaps, NEW o \in Nodes, NEW l \in List, NEW v \in Link,
         NEW g, g = WithFirst(h, o, l, v)
  PROVE  /\ g \in Heaps /\ SameScalars(g, h) /\ SameLinks(g, h)
         /\ \A x \in Nodes, k \in List : g[x].last[k] = h[x].last[k]
         /\ \A x \in Nodes, k \in List :
              g[x].first[k] = IF x = o /\ k = l THEN v ELSE h[x].first[k]
<1> DEFINE f == [h[o].first EXCEPT ![l] = v]
           r == [h[o] EXCEPT !.first = f]
<1>1. h[o] \in Nodal /\ h[o].first \in [List -> Link]
  BY DEF Heaps, Nodal
<1>2. f \in [List -> Link] /\ \A k \in List : f[k] = IF k = l THEN v ELSE h[o].first[k]
  BY <1>1
<1> HIDE DEF f
<1>3. /\ r \in Nodal /\ r.first = f /\ r.last = h[o].last
      /\ r.previous = h[o].previous /\ r.next = h[o].next
      /\ r.kind = h[o].kind /\ r.name = h[o].name
      /\ r.document = h[o].document /\ r.parent = h[o].parent
  BY <1>1, <1>2 DEF Nodal
<1>4. g = [h EXCEPT ![o] = r]
  BY <1>1 DEF f, WithFirst
<1> HIDE DEF r
<1>5. g \in Heaps /\ \A x \in Nodes : g[x] = IF x = o THEN r ELSE h[x]
  BY <1>3, <1>4 DEF Heaps
<1>6. \A x \in Nodes, k \in List : g[x].last[k] = h[x].last[k]
  BY <1>3, <1>5
<1>7. \A x \in Nodes, k \in List :
        g[x].first[k] = IF x = o /\ k = l THEN v ELSE h[x].first[k]
  <2> TAKE x \in Nodes, k \in List
  <2>1. CASE x = o
    BY <1>2, <1>3, <1>5, <2>1
  <2>2. CASE x # o
    BY <1>5, <2>2
  <2> QED  BY <2>1, <2>2
<1>8. SameScalars(g, h) /\ SameLinks(g, h)
  BY <1>3, <1>5 DEF SameScalars, SameLinks
<1> QED  BY <1>5, <1>6, <1>7, <1>8

\* A new last node of a list.
LEMMA SetLast ==
  ASSUME NEW h \in Heaps, NEW o \in Nodes, NEW l \in List, NEW v \in Link,
         NEW g, g = WithLast(h, o, l, v)
  PROVE  /\ g \in Heaps /\ SameScalars(g, h) /\ SameLinks(g, h)
         /\ \A x \in Nodes, k \in List : g[x].first[k] = h[x].first[k]
         /\ \A x \in Nodes, k \in List :
              g[x].last[k] = IF x = o /\ k = l THEN v ELSE h[x].last[k]
<1> DEFINE f == [h[o].last EXCEPT ![l] = v]
           r == [h[o] EXCEPT !.last = f]
<1>1. h[o] \in Nodal /\ h[o].last \in [List -> Link]
  BY DEF Heaps, Nodal
<1>2. f \in [List -> Link] /\ \A k \in List : f[k] = IF k = l THEN v ELSE h[o].last[k]
  BY <1>1
<1> HIDE DEF f
<1>3. /\ r \in Nodal /\ r.last = f /\ r.first = h[o].first
      /\ r.previous = h[o].previous /\ r.next = h[o].next
      /\ r.kind = h[o].kind /\ r.name = h[o].name
      /\ r.document = h[o].document /\ r.parent = h[o].parent
  BY <1>1, <1>2 DEF Nodal
<1>4. g = [h EXCEPT ![o] = r]
  BY <1>1 DEF f, WithLast
<1> HIDE DEF r
<1>5. g \in Heaps /\ \A x \in Nodes : g[x] = IF x = o THEN r ELSE h[x]
  BY <1>3, <1>4 DEF Heaps
<1>6. \A x \in Nodes, k \in List : g[x].first[k] = h[x].first[k]
  BY <1>3, <1>5
<1>7. \A x \in Nodes, k \in List :
        g[x].last[k] = IF x = o /\ k = l THEN v ELSE h[x].last[k]
  <2> TAKE x \in Nodes, k \in List
  <2>1. CASE x = o
    BY <1>2, <1>3, <1>5, <2>1
  <2>2. CASE x # o
    BY <1>5, <2>2
  <2> QED  BY <2>1, <2>2
<1>8. SameScalars(g, h) /\ SameLinks(g, h)
  BY <1>3, <1>5 DEF SameScalars, SameLinks
<1> QED  BY <1>5, <1>6, <1>7, <1>8

\* A new parent of a node.
LEMMA SetParent ==
  ASSUME NEW h \in Heaps, NEW n \in Nodes, NEW v \in Nodes \cup {Null},
         NEW g, g = WithParent(h, n, v)
  PROVE  /\ g \in Heaps /\ SameLinks(g, h) /\ SameEnds(g, h)
         /\ \A x \in Nodes : /\ g[x].kind = h[x].kind /\ g[x].name = h[x].name
                             /\ g[x].document = h[x].document
                             /\ g[x].parent = IF x = n THEN v ELSE h[x].parent
<1>1. h[n] \in Nodal /\ [h[n] EXCEPT !.parent = v] \in Nodal
  BY DEF Heaps, Nodal
<1>2. g \in Heaps
  BY <1>1 DEF Heaps, WithParent
<1>3. \A x \in Nodes : g[x] = IF x = n THEN [h[n] EXCEPT !.parent = v] ELSE h[x]
  BY DEF Heaps, WithParent
<1> QED  BY <1>1, <1>2, <1>3 DEF SameLinks, SameEnds, Nodal

-----------------------------------------------------------------------------
(***************************************************************************)
(* Insert and Unlink.                                                      *)
(***************************************************************************)

\* What it is to be on a list.
LEMMA OnList ==
  ASSUME NEW h, NEW o, NEW l
  PROVE  /\ On(h, o, l) \in SUBSET Node /\ IsFiniteSet(On(h, o, l))
         /\ \A p, k, n : n \in On(h, o, l) /\ n \in On(h, p, k) => p = o /\ k = l
         /\ Null \notin Nodes /\ Node \subseteq Nodes
<1>1. On(h, o, l) \in SUBSET Node
  BY DEF On
<1>2. IsFiniteSet(On(h, o, l))
  BY <1>1, FS_Subset, DomAssumption
<1> QED  BY <1>1, <1>2, DomAssumption DEF On, Nodes

\* Membership depends on kinds, documents and parents only.
LEMMA SameOn ==
  ASSUME NEW h, NEW g, SameScalars(g, h)
  PROVE  \A o, l : On(g, o, l) = On(h, o, l)
<1>1. \A n \in Node : /\ g[n].kind = h[n].kind /\ g[n].document = h[n].document
                      /\ g[n].parent = h[n].parent
  BY DEF SameScalars, Nodes
<1>2. \A n \in Node : HomeOf(g, n) = HomeOf(h, n)
  BY <1>1 DEF HomeOf
<1> QED  BY <1>1, <1>2 DEF On

\* A list stays as it is with the links of its nodes and its ends.
LEMMA ListStays ==
  ASSUME NEW S, NEW h, NEW g, NEW o, NEW l, IsList(S, h, o, l),
         g[o].first[l] = h[o].first[l], g[o].last[l] = h[o].last[l],
         \A x \in S : g[x].previous = h[x].previous /\ g[x].next = h[x].next
  PROVE  IsList(S, g, o, l)
<1>1. PICK rank \in [Node -> Int] : InOrder(S, rank, h, h[o].first[l], h[o].last[l], Null)
  BY DEF IsList
<1> DEFINE head == h[o].first[l]
           tail == h[o].last[l]
<1>2. /\ InOrder(S, rank, h, head, tail, Null)
      /\ \A x \in S : /\ g[x].previous = h[x].previous /\ g[x].next = h[x].next
                      /\ rank[x] = rank[x]
      /\ g[o].first[l] = head /\ g[o].last[l] = tail
  BY <1>1
<1> HIDE DEF head, tail
<1>3. InOrder(S, rank, g, head, tail, Null)
  BY <1>2, SameList
<1> QED  BY <1>2, <1>3 DEF IsList

\* What Insert changes.
LEMMA InsertSets ==
  ASSUME NEW h \in Heaps, NEW o \in Nodes, NEW l \in List, NEW n \in Node,
         NEW g, g = Insert(h, o, l, n), NEW tail, tail = h[o].last[l],
         h[o].first[l] # Null => tail \in Node
  PROVE  LET empty == h[o].first[l] = Null
         IN  /\ g \in Heaps /\ SameScalars(g, h)
             /\ \A x \in Nodes : g[x].previous = IF x # n THEN h[x].previous
                                                 ELSE IF empty THEN Null ELSE tail
             /\ \A x \in Nodes : g[x].next = IF ~empty /\ x = tail THEN n
                                             ELSE IF x = n THEN Null ELSE h[x].next
             /\ \A x \in Nodes, k \in List :
                  g[x].first[k] = IF empty /\ x = o /\ k = l THEN n ELSE h[x].first[k]
             /\ \A x \in Nodes, k \in List :
                  g[x].last[k] = IF x = o /\ k = l THEN n ELSE h[x].last[k]
<1>0. h \in Heaps /\ Null \in Link /\ n \in Link /\ n \in Nodes
  BY DEF Link, Nodes
<1>1. CASE h[o].first[l] = Null
  <2> DEFINE h1 == WithPrevious(h, n, Null)
             h2 == WithNext(h1, n, Null)
             h3 == WithFirst(h2, o, l, n)
             h4 == WithLast(h3, o, l, n)
  <2>1. g = h4
    BY <1>1 DEF Insert, WithPrevious, WithNext, WithFirst, WithLast
  <2>2. /\ h1 \in Heaps /\ SameScalars(h1, h) /\ SameEnds(h1, h)
        /\ \A x \in Nodes : h1[x].next = h[x].next
        /\ \A x \in Nodes : h1[x].previous = IF x = n THEN Null ELSE h[x].previous
    BY <1>0, SetPrevious
  <2> HIDE DEF h1
  <2>3. /\ h2 \in Heaps /\ SameScalars(h2, h1) /\ SameEnds(h2, h1)
        /\ \A x \in Nodes : h2[x].previous = h1[x].previous
        /\ \A x \in Nodes : h2[x].next = IF x = n THEN Null ELSE h1[x].next
    <3>1. h1 \in Heaps /\ n \in Nodes /\ Null \in Link /\ h2 = WithNext(h1, n, Null)
      BY <1>0, <2>2
    <3> HIDE DEF h2
    <3> QED  BY ONLY <3>1, SetNext
  <2> HIDE DEF h2
  <2>4. /\ h3 \in Heaps /\ SameScalars(h3, h2) /\ SameLinks(h3, h2)
        /\ \A x \in Nodes, k \in List : h3[x].last[k] = h2[x].last[k]
        /\ \A x \in Nodes, k \in List :
             h3[x].first[k] = IF x = o /\ k = l THEN n ELSE h2[x].first[k]
    BY <1>0, <2>3, SetFirst
  <2> HIDE DEF h3
  <2>5. /\ h4 \in Heaps /\ SameScalars(h4, h3) /\ SameLinks(h4, h3)
        /\ \A x \in Nodes, k \in List : h4[x].first[k] = h3[x].first[k]
        /\ \A x \in Nodes, k \in List :
             h4[x].last[k] = IF x = o /\ k = l THEN n ELSE h3[x].last[k]
    BY <1>0, <2>4, SetLast
  <2> HIDE DEF h4
  <2>6. SameScalars(g, h)
    BY <2>1, <2>2, <2>3, <2>4, <2>5 DEF SameScalars
  <2>7. \A x \in Nodes : /\ g[x].previous = IF x # n THEN h[x].previous ELSE Null
                         /\ g[x].next = IF x = n THEN Null ELSE h[x].next
    BY <2>1, <2>2, <2>3, <2>4, <2>5 DEF SameLinks
  <2>8. \A x \in Nodes, k \in List :
          /\ g[x].first[k] = IF x = o /\ k = l THEN n ELSE h[x].first[k]
          /\ g[x].last[k] = IF x = o /\ k = l THEN n ELSE h[x].last[k]
    BY <2>1, <2>2, <2>3, <2>4, <2>5 DEF SameEnds
  <2> QED  BY <1>1, <2>1, <2>5, <2>6, <2>7, <2>8
<1>2. CASE h[o].first[l] # Null
  <2> DEFINE h1 == WithPrevious(h, n, tail)
             h2 == WithNext(h1, n, Null)
             h3 == WithNext(h2, tail, n)
             h4 == WithLast(h3, o, l, n)
  <2>0. tail \in Link /\ tail \in Nodes
    BY <1>2 DEF Link, Nodes
  <2>1. g = h4
    BY <1>2 DEF Insert, WithPrevious, WithNext, WithFirst, WithLast
  <2>2. /\ h1 \in Heaps /\ SameScalars(h1, h) /\ SameEnds(h1, h)
        /\ \A x \in Nodes : h1[x].next = h[x].next
        /\ \A x \in Nodes : h1[x].previous = IF x = n THEN tail ELSE h[x].previous
    <3>1. h \in Heaps /\ n \in Nodes /\ tail \in Link /\ h1 = WithPrevious(h, n, tail)
      BY <1>0, <2>0
    <3> HIDE DEF h1
    <3> QED  BY ONLY <3>1, SetPrevious
  <2> HIDE DEF h1
  <2>3. /\ h2 \in Heaps /\ SameScalars(h2, h1) /\ SameEnds(h2, h1)
        /\ \A x \in Nodes : h2[x].previous = h1[x].previous
        /\ \A x \in Nodes : h2[x].next = IF x = n THEN Null ELSE h1[x].next
    <3>1. h1 \in Heaps /\ n \in Nodes /\ Null \in Link /\ h2 = WithNext(h1, n, Null)
      BY <1>0, <2>2
    <3> HIDE DEF h2
    <3> QED  BY ONLY <3>1, SetNext
  <2> HIDE DEF h2
  <2>4. /\ h3 \in Heaps /\ SameScalars(h3, h2) /\ SameEnds(h3, h2)
        /\ \A x \in Nodes : h3[x].previous = h2[x].previous
        /\ \A x \in Nodes : h3[x].next = IF x = tail THEN n ELSE h2[x].next
    <3>1. h2 \in Heaps /\ tail \in Nodes /\ n \in Link /\ h3 = WithNext(h2, tail, n)
      BY <1>0, <2>0, <2>3
    <3> HIDE DEF h3
    <3> QED  BY ONLY <3>1, SetNext
  <2> HIDE DEF h3
  <2>5. /\ h4 \in Heaps /\ SameScalars(h4, h3) /\ SameLinks(h4, h3)
        /\ \A x \in Nodes, k \in List : h4[x].first[k] = h3[x].first[k]
        /\ \A x \in Nodes, k \in List :
             h4[x].last[k] = IF x = o /\ k = l THEN n ELSE h3[x].last[k]
    BY <1>0, <2>4, SetLast
  <2> HIDE DEF h4
  <2>6. SameScalars(g, h)
    BY <2>1, <2>2, <2>3, <2>4, <2>5 DEF SameScalars
  <2>7. \A x \in Nodes : /\ g[x].previous = IF x # n THEN h[x].previous ELSE tail
                         /\ g[x].next = IF x = tail THEN n
                                        ELSE IF x = n THEN Null ELSE h[x].next
    BY <2>1, <2>2, <2>3, <2>4, <2>5 DEF SameLinks
  <2>8. \A x \in Nodes, k \in List :
          /\ g[x].first[k] = h[x].first[k]
          /\ g[x].last[k] = IF x = o /\ k = l THEN n ELSE h[x].last[k]
    BY <2>1, <2>2, <2>3, <2>4, <2>5 DEF SameEnds
  <2> QED  BY <1>2, <2>1, <2>5, <2>6, <2>7, <2>8
<1> QED  BY <1>1, <1>2

\* A node on its way arrives on its list.
LEMMA InsertJoins ==
  ASSUME NEW h \in Heaps, NEW o \in Nodes, NEW l \in List, NEW n \in On(h, o, l),
         Chained(h, {n}), NEW g, g = Insert(h, o, l, n)
  PROVE  g \in Heaps /\ SameScalars(g, h) /\ Chained(g, {})
<1> DEFINE S == On(h, o, l) \ {n}
           head == h[o].first[l]
           tail == h[o].last[l]
           empty == head = Null
<1>1. /\ n \in Node /\ n \in Nodes /\ S \in SUBSET Node /\ Node \subseteq Nodes
      /\ Null \notin Node /\ n \notin S
  BY OnList DEF Nodes
<1>2. PICK rank \in [Node -> Int] : InOrder(S, rank, h, head, tail, Null)
  BY DEF Chained, IsList
<1>3. (head = Null <=> S = {}) /\ (S # {} => tail \in S) /\ (S = {} => tail = Null)
  BY <1>1, <1>2 DEF InOrder
<1>4. /\ g \in Heaps /\ SameScalars(g, h)
      /\ \A x \in Nodes : g[x].previous = IF x # n THEN h[x].previous
                                          ELSE IF empty THEN Null ELSE tail
      /\ \A x \in Nodes : g[x].next = IF ~empty /\ x = tail THEN n
                                      ELSE IF x = n THEN Null ELSE h[x].next
      /\ \A x \in Nodes, k \in List :
           g[x].first[k] = IF empty /\ x = o /\ k = l THEN n ELSE h[x].first[k]
      /\ \A x \in Nodes, k \in List :
           g[x].last[k] = IF x = o /\ k = l THEN n ELSE h[x].last[k]
  BY <1>1, <1>3, InsertSets
<1>5. \A p, k : On(g, p, k) = On(h, p, k)
  BY <1>4, SameOn
<1>6. IsList(On(h, o, l), g, o, l)
  <2> HIDE DEF S, head, tail
  <2>1. /\ g[n].previous = tail /\ g[n].next = Null
        /\ \A x \in S : g[x].previous = h[x].previous
        /\ \A x \in S : g[x].next = IF x = tail THEN n ELSE h[x].next
    BY <1>1, <1>3, <1>4
  <2>2. PICK top \in Int : InOrder(S \cup {n}, [rank EXCEPT ![n] = top], g,
                                   IF head = Null THEN n ELSE head, n, Null)
    BY <1>1, <1>2, <2>1, JoinsList
  <2>3. /\ g[o].first[l] = IF head = Null THEN n ELSE head
        /\ g[o].last[l] = n
    BY <1>4 DEF head
  <2>4. On(h, o, l) = S \cup {n}
    BY DEF S
  <2>5. [rank EXCEPT ![n] = top] \in [Node -> Int]
    BY <1>1
  <2> QED  BY <2>2, <2>3, <2>4, <2>5 DEF IsList
<1>7. ASSUME NEW p \in Nodes, NEW k \in List, p # o \/ k # l
      PROVE  IsList(On(h, p, k), g, p, k)
  <2>1. n \notin On(h, p, k) /\ On(h, p, k) \in SUBSET Node
    BY <1>7, OnList
  <2>2. IsList(On(h, p, k), h, p, k)
    <3>1. On(h, p, k) \ {n} = On(h, p, k)
      BY <2>1
    <3> QED  BY <3>1 DEF Chained
  <2>3. ~empty => tail \notin On(h, p, k)
    BY <1>3, <1>7, OnList
  <2>4. \A x \in On(h, p, k) : g[x].previous = h[x].previous /\ g[x].next = h[x].next
    <3> HIDE DEF tail, empty
    <3> QED  BY <1>1, <1>4, <2>1, <2>3
  <2>5. g[p].first[k] = h[p].first[k] /\ g[p].last[k] = h[p].last[k]
    <3> HIDE DEF tail, empty
    <3> QED  BY <1>4, <1>7
  <2> QED  BY <2>2, <2>4, <2>5, ListStays
<1>8. ASSUME NEW p \in Nodes, NEW k \in List PROVE IsList(On(g, p, k) \ {}, g, p, k)
  <2>1. On(g, p, k) \ {} = On(h, p, k)
    BY <1>5
  <2>2. IsList(On(h, p, k), g, p, k)
    BY <1>6, <1>7
  <2> QED  BY <2>1, <2>2
<1> QED  BY <1>4, <1>8 DEF Chained

\* What Unlink changes.
LEMMA UnlinkSets ==
  ASSUME NEW h \in Heaps, NEW o \in Nodes, NEW l \in List, NEW n \in Node,
         NEW g, g = Unlink(h, o, l, n)
  PROVE  /\ g \in Heaps /\ SameScalars(g, h)
         /\ \A x \in Nodes : g[x].next = IF x = h[n].previous THEN h[n].next ELSE h[x].next
         /\ \A x \in Nodes : g[x].previous = IF x = h[n].next THEN h[n].previous
                                                              ELSE h[x].previous
         /\ \A x \in Nodes, k \in List :
              g[x].first[k] = IF x = o /\ k = l /\ h[x].first[k] = n THEN h[n].next
                                                                     ELSE h[x].first[k]
         /\ \A x \in Nodes, k \in List :
              g[x].last[k] = IF x = o /\ k = l /\ h[x].last[k] = n THEN h[n].previous
                                                                   ELSE h[x].last[k]
<1> DEFINE nx == h[n].next
           pv == h[n].previous
           F(x) == [h[x].first EXCEPT ![l] = IF x = o /\ @ = n THEN nx ELSE @]
           L(x) == [h[x].last EXCEPT ![l] = IF x = o /\ @ = n THEN pv ELSE @]
           R(x) == [h[x] EXCEPT !.first = F(x), !.last = L(x),
                                !.next = IF x = pv THEN nx ELSE @,
                                !.previous = IF x = nx THEN pv ELSE @]
<1>1. nx \in Link /\ pv \in Link
  BY DEF Heaps, Nodal, Nodes
<1>2. \A x \in Nodes : h[x] \in Nodal /\ h[x].first \in [List -> Link] /\ h[x].last \in [List -> Link]
  BY DEF Heaps, Nodal
<1>3. g = [x \in Nodes |-> R(x)]
  <2>1. DOMAIN h = Nodes
    BY DEF Heaps
  <2> QED  BY <1>2, <2>1 DEF Unlink
<1> HIDE DEF nx, pv
<1>4. ASSUME NEW x \in Nodes
      PROVE  /\ F(x) \in [List -> Link] /\ L(x) \in [List -> Link]
             /\ \A k \in List : F(x)[k] = IF x = o /\ k = l /\ h[x].first[k] = n
                                          THEN nx ELSE h[x].first[k]
             /\ \A k \in List : L(x)[k] = IF x = o /\ k = l /\ h[x].last[k] = n
                                          THEN pv ELSE h[x].last[k]
  <2> DEFINE f == h[x].first
             t == h[x].last
  <2>1. f \in [List -> Link] /\ t \in [List -> Link]
    BY <1>2
  <2> HIDE DEF f, t
  <2> DEFINE F1 == [f EXCEPT ![l] = IF x = o /\ @ = n THEN nx ELSE @]
             L1 == [t EXCEPT ![l] = IF x = o /\ @ = n THEN pv ELSE @]
  <2>2. F1 \in [List -> Link] /\ \A k \in List : F1[k] = IF x = o /\ k = l /\ f[k] = n THEN nx ELSE f[k]
    BY <1>1, <2>1
  <2>3. L1 \in [List -> Link] /\ \A k \in List : L1[k] = IF x = o /\ k = l /\ t[k] = n THEN pv ELSE t[k]
    BY <1>1, <2>1
  <2> QED  BY <2>2, <2>3 DEF f, t
<1> HIDE DEF F, L
<1>5. ASSUME NEW x \in Nodes
      PROVE  /\ R(x) \in Nodal /\ R(x).first = F(x) /\ R(x).last = L(x)
             /\ R(x).next = IF x = pv THEN nx ELSE h[x].next
             /\ R(x).previous = IF x = nx THEN pv ELSE h[x].previous
             /\ R(x).kind = h[x].kind /\ R(x).name = h[x].name
             /\ R(x).document = h[x].document /\ R(x).parent = h[x].parent
  <2>1. /\ h[x] \in Nodal /\ F(x) \in [List -> Link] /\ L(x) \in [List -> Link]
        /\ nx \in Link /\ pv \in Link
    BY <1>1, <1>2, <1>4
  <2> QED  BY ONLY <2>1 DEF Nodal, R
<1> HIDE DEF R
<1>6. g \in Heaps /\ \A x \in Nodes : g[x] = R(x)
  BY <1>3, <1>5 DEF Heaps
<1>7. SameScalars(g, h)
  BY <1>5, <1>6 DEF SameScalars
<1>8. /\ \A x \in Nodes : g[x].next = IF x = pv THEN nx ELSE h[x].next
      /\ \A x \in Nodes : g[x].previous = IF x = nx THEN pv ELSE h[x].previous
  BY <1>5, <1>6
<1>9. \A x \in Nodes : g[x].first = F(x) /\ g[x].last = L(x)
  BY <1>5, <1>6
<1>10. \A x \in Nodes, k \in List :
         /\ g[x].first[k] = IF x = o /\ k = l /\ h[x].first[k] = n THEN nx ELSE h[x].first[k]
         /\ g[x].last[k] = IF x = o /\ k = l /\ h[x].last[k] = n THEN pv ELSE h[x].last[k]
  BY <1>4, <1>9
<1> QED  BY <1>6, <1>7, <1>8, <1>10 DEF nx, pv

\* A node on its list is taken off it.
LEMMA UnlinkLeaves ==
  ASSUME NEW h \in Heaps, NEW o \in Nodes, NEW l \in List, NEW n \in On(h, o, l),
         Chained(h, {}), NEW g, g = Unlink(h, o, l, n)
  PROVE  g \in Heaps /\ SameScalars(g, h) /\ Chained(g, {n})
<1> DEFINE S == On(h, o, l)
           head == h[o].first[l]
           tail == h[o].last[l]
           nx == h[n].next
           pv == h[n].previous
<1>1. /\ n \in Node /\ n \in Nodes /\ S \in SUBSET Node /\ Node \subseteq Nodes
      /\ Null \notin Node /\ n \in S
  BY OnList DEF Nodes
<1>2. PICK rank \in [Node -> Int] : InOrder(S, rank, h, head, tail, Null)
  <2>1. On(h, o, l) \ {} = On(h, o, l)
    OBVIOUS
  <2> QED  BY <2>1 DEF Chained, IsList
<1>3. {nx, pv} \subseteq S \cup {Null}
  <2> HIDE DEF S, head, tail
  <2>1. Linked(S, h, head, tail, Null)
    BY <1>1, <1>2, ListLinks
  <2> QED  BY <1>1, <2>1 DEF Linked
<1>4. /\ g \in Heaps /\ SameScalars(g, h)
      /\ \A x \in Nodes : g[x].next = IF x = pv THEN nx ELSE h[x].next
      /\ \A x \in Nodes : g[x].previous = IF x = nx THEN pv ELSE h[x].previous
      /\ \A x \in Nodes, k \in List :
           g[x].first[k] = IF x = o /\ k = l /\ h[x].first[k] = n THEN nx ELSE h[x].first[k]
      /\ \A x \in Nodes, k \in List :
           g[x].last[k] = IF x = o /\ k = l /\ h[x].last[k] = n THEN pv ELSE h[x].last[k]
  BY <1>1, UnlinkSets
<1>5. \A p, k : On(g, p, k) = On(h, p, k)
  BY <1>4, SameOn
<1>6. IsList(S \ {n}, g, o, l)
  <2>1. \A x \in S \ {n} :
          /\ g[x].next = IF x = h[n].previous THEN h[n].next ELSE h[x].next
          /\ g[x].previous = IF x = h[n].next THEN h[n].previous ELSE h[x].previous
    <3>1. S \subseteq Nodes
      BY DEF On, Nodes, S
    <3> HIDE DEF S, head, tail
    <3> QED  BY <1>4, <3>1
  <2> HIDE DEF S, head, tail
  <2>2. InOrder(S \ {n}, rank, g, IF head = n THEN h[n].next ELSE head,
                IF tail = n THEN h[n].previous ELSE tail, Null)
    <3>1. /\ S \in SUBSET Node /\ rank \in [Node -> Int] /\ n \in S /\ Null \notin Node
          /\ InOrder(S, rank, h, head, tail, Null)
      BY <1>1, <1>2
    <3> QED  BY ONLY <3>1, <2>1, LeavesList
  <2>3. /\ g[o].first[l] = IF head = n THEN h[n].next ELSE head
        /\ g[o].last[l] = IF tail = n THEN h[n].previous ELSE tail
    BY <1>4 DEF head, tail
  <2> QED  BY <2>2, <2>3 DEF IsList
<1>7. ASSUME NEW p \in Nodes, NEW k \in List, p # o \/ k # l
      PROVE  IsList(On(h, p, k), g, p, k)
  <2>1. On(h, p, k) \in SUBSET Node /\ nx \notin On(h, p, k) /\ pv \notin On(h, p, k)
    BY <1>1, <1>3, <1>7, OnList
  <2>2. IsList(On(h, p, k), h, p, k)
    <3>1. On(h, p, k) \ {} = On(h, p, k)
      OBVIOUS
    <3> QED  BY <3>1 DEF Chained
  <2> HIDE DEF nx, pv
  <2>3. \A x \in On(h, p, k) : g[x].previous = h[x].previous /\ g[x].next = h[x].next
    BY <1>1, <1>4, <2>1
  <2>4. g[p].first[k] = h[p].first[k] /\ g[p].last[k] = h[p].last[k]
    BY <1>4, <1>7
  <2> QED  BY <2>2, <2>3, <2>4, ListStays
<1>8. ASSUME NEW p \in Nodes, NEW k \in List PROVE IsList(On(g, p, k) \ {n}, g, p, k)
  <2>1. CASE p = o /\ k = l
    BY <1>5, <1>6, <2>1
  <2>2. CASE p # o \/ k # l
    <3>1. On(g, p, k) \ {n} = On(h, p, k)
      BY <1>5, <2>2, OnList
    <3> QED  BY <1>7, <2>2, <3>1
  <2> QED  BY <2>1, <2>2
<1> QED  BY <1>4, <1>8 DEF Chained

\* A node on its way may change, but for the lists it has.
LEMMA OneChanges ==
  ASSUME NEW h, NEW g, NEW n, Chained(h, {n}),
         SameEnds(g, h),
         \A x \in Nodes \ {n} : /\ g[x].kind = h[x].kind /\ g[x].document = h[x].document
                                /\ g[x].parent = h[x].parent
                                /\ g[x].previous = h[x].previous /\ g[x].next = h[x].next
  PROVE  Chained(g, {n})
<1>1. ASSUME NEW o \in Nodes, NEW l \in List PROVE IsList(On(g, o, l) \ {n}, g, o, l)
  <2>1. On(g, o, l) \ {n} = On(h, o, l) \ {n}
    <3>1. \A x \in Node \ {n} : HomeOf(g, x) = HomeOf(h, x) /\ g[x].kind = h[x].kind
      BY DEF HomeOf, Nodes
    <3> QED  BY <3>1 DEF On
  <2>2. IsList(On(h, o, l) \ {n}, h, o, l)
    BY DEF Chained
  <2>3. \A x \in On(h, o, l) \ {n} : g[x].previous = h[x].previous /\ g[x].next = h[x].next
    BY DEF On, Nodes
  <2>4. g[o].first[l] = h[o].first[l] /\ g[o].last[l] = h[o].last[l]
    BY DEF SameEnds
  <2> QED  BY <2>1, <2>2, <2>3, <2>4, ListStays
<1> QED  BY <1>1 DEF Chained

-----------------------------------------------------------------------------
(***************************************************************************)
(* Matreshka.DOM_Lists: each operation, for a node where it should be.     *)
(***************************************************************************)

\* Only the parent of n may differ.
Kept(g, h, n) ==
  \A x \in Nodes : /\ g[x].kind = h[x].kind /\ g[x].name = h[x].name
                   /\ g[x].document = h[x].document
                   /\ x # n => g[x].parent = h[x].parent

\* What Alone changes.
LEMMA AloneSets ==
  ASSUME NEW h \in Heaps, NEW n \in Node, NEW g, g = Alone(h, n)
  PROVE  /\ g \in Heaps /\ Kept(g, h, n) /\ g[n].parent = Null /\ SameEnds(g, h)
         /\ \A x \in Nodes \ {n} : g[x].previous = h[x].previous /\ g[x].next = h[x].next
<1> DEFINE h1 == WithParent(h, n, Null)
           h2 == WithPrevious(h1, n, Null)
           h3 == WithNext(h2, n, Null)
<1>1. g = h3
  BY DEF Alone, WithParent, WithPrevious, WithNext
<1>2. n \in Nodes /\ Null \in Link /\ Null \in Nodes \cup {Null}
  BY DEF Nodes, Link
<1>3. /\ h1 \in Heaps /\ SameLinks(h1, h) /\ SameEnds(h1, h)
      /\ \A x \in Nodes : /\ h1[x].kind = h[x].kind /\ h1[x].name = h[x].name
                          /\ h1[x].document = h[x].document
                          /\ h1[x].parent = IF x = n THEN Null ELSE h[x].parent
  BY <1>2, SetParent
<1> HIDE DEF h1
<1>4. /\ h2 \in Heaps /\ SameScalars(h2, h1) /\ SameEnds(h2, h1)
      /\ \A x \in Nodes : h2[x].next = h1[x].next
      /\ \A x \in Nodes : h2[x].previous = IF x = n THEN Null ELSE h1[x].previous
  BY <1>2, <1>3, SetPrevious
<1> HIDE DEF h2
<1>5. /\ h3 \in Heaps /\ SameScalars(h3, h2) /\ SameEnds(h3, h2)
      /\ \A x \in Nodes : h3[x].previous = h2[x].previous
      /\ \A x \in Nodes : h3[x].next = IF x = n THEN Null ELSE h2[x].next
  BY <1>2, <1>4, SetNext
<1> HIDE DEF h3
<1>6. Kept(g, h, n) /\ g[n].parent = Null
  BY <1>1, <1>2, <1>3, <1>4, <1>5 DEF Kept, SameScalars
<1>7. SameEnds(g, h)
  BY <1>1, <1>3, <1>4, <1>5 DEF SameEnds
<1>8. \A x \in Nodes \ {n} : g[x].previous = h[x].previous /\ g[x].next = h[x].next
  BY <1>1, <1>3, <1>4, <1>5 DEF SameLinks
<1> QED  BY <1>1, <1>5, <1>6, <1>7, <1>8

\* A node on its way loses its parent and its links.
LEMMA BecomesAlone ==
  ASSUME NEW h \in Heaps, NEW n \in Node, Chained(h, {n}), NEW g, g = Alone(h, n)
  PROVE  g \in Heaps /\ Kept(g, h, n) /\ g[n].parent = Null /\ Chained(g, {n})
<1>1. /\ g \in Heaps /\ Kept(g, h, n) /\ g[n].parent = Null /\ SameEnds(g, h)
      /\ \A x \in Nodes \ {n} : g[x].previous = h[x].previous /\ g[x].next = h[x].next
  BY AloneSets
<1>2. \A x \in Nodes \ {n} : /\ g[x].kind = h[x].kind /\ g[x].document = h[x].document
                             /\ g[x].parent = h[x].parent
  BY <1>1 DEF Kept
<1>3. Chained(g, {n})
  BY <1>1, <1>2, OneChanges
<1> QED  BY <1>1, <1>3

\* Only the parent of n differs if none does, or if two times only it does.
LEMMA KeptTwice ==
  ASSUME NEW h, NEW m, NEW g, NEW n,
         SameScalars(m, h) \/ Kept(m, h, n), SameScalars(g, m) \/ Kept(g, m, n)
  PROVE  Kept(g, h, n)
BY DEF Kept, SameScalars

\* A child of p is removed.
LEMMA RemovesChild ==
  ASSUME NEW h \in Heaps, Chained(h, {}), NEW p \in Nodes, NEW n \in On(h, p, "children"),
         NEW g, g = RemoveFromChildren(h, n)
  PROVE  g \in Heaps /\ Kept(g, h, n) /\ g[n].parent = Null /\ Chained(g, {n})
<1>1. n \in Node /\ h[n].parent = p /\ "children" \in List
  BY DEF On, HomeOf, List
<1> DEFINE m == Unlink(h, p, "children", n)
<1>2. m \in Heaps /\ SameScalars(m, h) /\ Chained(m, {n})
  BY <1>1, UnlinkLeaves
<1>3. g = Alone(m, n)
  BY <1>1 DEF RemoveFromChildren
<1> HIDE DEF m
<1>4. g \in Heaps /\ Kept(g, m, n) /\ g[n].parent = Null /\ Chained(g, {n})
  BY <1>1, <1>2, <1>3, BecomesAlone
<1> QED  BY <1>2, <1>4, KeptTwice

\* An attribute of e is removed.
LEMMA RemovesAttribute ==
  ASSUME NEW h \in Heaps, Chained(h, {}), NEW e \in Nodes, NEW n \in On(h, e, "attributes"),
         NEW g, g = RemoveFromAttributes(h, n)
  PROVE  g \in Heaps /\ Kept(g, h, n) /\ g[n].parent = Null /\ Chained(g, {n})
<1>1. n \in Node /\ h[n].parent = e /\ "attributes" \in List
  BY DEF On, HomeOf, List
<1> DEFINE m == Unlink(h, e, "attributes", n)
<1>2. m \in Heaps /\ SameScalars(m, h) /\ Chained(m, {n})
  BY <1>1, UnlinkLeaves
<1>3. g = Alone(m, n)
  BY <1>1 DEF RemoveFromAttributes
<1> HIDE DEF m
<1>4. g \in Heaps /\ Kept(g, m, n) /\ g[n].parent = Null /\ Chained(g, {n})
  BY <1>1, <1>2, <1>3, BecomesAlone
<1> QED  BY <1>2, <1>4, KeptTwice

\* A detached node is removed.
LEMMA RemovesDetached ==
  ASSUME NEW h \in Heaps, Chained(h, {}), NEW d \in Nodes, NEW n \in On(h, d, "detached"),
         NEW g, g = RemoveFromDetached(h, n)
  PROVE  g \in Heaps /\ SameScalars(g, h) /\ Chained(g, {n})
<1>1. h[n].document = d /\ "detached" \in List
  BY DEF On, HomeOf, List
<1> QED  BY <1>1, UnlinkLeaves DEF RemoveFromDetached

\* A node on its way becomes a child of p.
LEMMA InsertsChild ==
  ASSUME NEW h \in Heaps, NEW n \in Node, Chained(h, {n}), NEW p \in Nodes,
         h[n].kind \notin {"absent", "attribute"}, NEW g, g = InsertIntoChildren(h, p, n)
  PROVE  g \in Heaps /\ Kept(g, h, n) /\ g[n].parent = p /\ Chained(g, {})
<1> DEFINE m == WithParent(h, n, p)
<1>1. n \in Nodes /\ p \in Nodes \cup {Null} /\ p # Null /\ "children" \in List
  BY DomAssumption DEF Nodes, List
<1>2. /\ m \in Heaps /\ SameLinks(m, h) /\ SameEnds(m, h)
      /\ \A x \in Nodes : /\ m[x].kind = h[x].kind /\ m[x].name = h[x].name
                          /\ m[x].document = h[x].document
                          /\ m[x].parent = IF x = n THEN p ELSE h[x].parent
  BY <1>1, SetParent
<1>3. g = Insert(m, p, "children", n)
  BY DEF InsertIntoChildren, WithParent
<1> HIDE DEF m
<1>4. Kept(m, h, n) /\ m[n].parent = p
  BY <1>1, <1>2 DEF Kept
<1>5. Chained(m, {n})
  BY <1>2, OneChanges DEF SameLinks
<1>6. n \in On(m, p, "children")
  BY <1>1, <1>2 DEF On, HomeOf
<1>7. g \in Heaps /\ SameScalars(g, m) /\ Chained(g, {})
  BY <1>1, <1>2, <1>3, <1>5, <1>6, InsertJoins
<1>8. g[n].parent = p
  BY <1>1, <1>4, <1>7 DEF SameScalars
<1> QED  BY <1>4, <1>7, <1>8, KeptTwice

\* A node on its way becomes an attribute of e.
LEMMA InsertsAttribute ==
  ASSUME NEW h \in Heaps, NEW n \in Node, Chained(h, {n}), NEW e \in Nodes,
         h[n].kind = "attribute", NEW g, g = InsertIntoAttributes(h, e, n)
  PROVE  g \in Heaps /\ Kept(g, h, n) /\ g[n].parent = e /\ Chained(g, {})
<1> DEFINE m == WithParent(h, n, e)
<1>1. n \in Nodes /\ e \in Nodes \cup {Null} /\ e # Null /\ "attributes" \in List
  BY DomAssumption DEF Nodes, List
<1>2. /\ m \in Heaps /\ SameLinks(m, h) /\ SameEnds(m, h)
      /\ \A x \in Nodes : /\ m[x].kind = h[x].kind /\ m[x].name = h[x].name
                          /\ m[x].document = h[x].document
                          /\ m[x].parent = IF x = n THEN e ELSE h[x].parent
  BY <1>1, SetParent
<1>3. g = Insert(m, e, "attributes", n)
  BY DEF InsertIntoAttributes, WithParent
<1> HIDE DEF m
<1>4. Kept(m, h, n) /\ m[n].parent = e
  BY <1>1, <1>2 DEF Kept
<1>5. Chained(m, {n})
  BY <1>2, OneChanges DEF SameLinks
<1>6. n \in On(m, e, "attributes")
  BY <1>1, <1>2 DEF On, HomeOf
<1>7. g \in Heaps /\ SameScalars(g, m) /\ Chained(g, {})
  BY <1>1, <1>2, <1>3, <1>5, <1>6, InsertJoins
<1>8. g[n].parent = e
  BY <1>1, <1>4, <1>7 DEF SameScalars
<1> QED  BY <1>4, <1>7, <1>8, KeptTwice

\* A node on its way without a parent is detached.
LEMMA InsertsDetached ==
  ASSUME NEW h \in Heaps, NEW n \in Node, Chained(h, {n}), h[n].kind # "absent",
         h[n].parent = Null, h[n].document \in Nodes, NEW g, g = InsertIntoDetached(h, n)
  PROVE  g \in Heaps /\ SameScalars(g, h) /\ Chained(g, {})
<1>1. n \in On(h, h[n].document, "detached") /\ "detached" \in List
  BY DEF On, HomeOf, List
<1> QED  BY <1>1, InsertJoins DEF InsertIntoDetached

-----------------------------------------------------------------------------
(***************************************************************************)
(* The loops over Next.                                                    *)
(***************************************************************************)

\* The loop over the nodes ends after those of s, or goes on.
Ends(h, s)   == h[Last(s)].next = Null \/ Len(s) > Cardinality(Node)
Longer(h, s) == Append(s, h[Last(s)].next)

\* The recursive function of Members.
Walks(W, h) == W = [s \in Seq(Node) \ {<<>>} |-> IF Ends(h, s) THEN s ELSE W[Longer(h, s)]]

\* The last node and one more.
LEMMA Extends ==
  ASSUME NEW h \in Heaps, NEW s \in Seq(Node) \ {<<>>}
  PROVE  /\ Len(s) \in Nat \ {0} /\ Last(s) \in Node
         /\ ~Ends(h, s) => Longer(h, s) \in Seq(Node) \ {<<>>} /\ Len(Longer(h, s)) = Len(s) + 1
<1>1. Len(s) \in Nat \ {0} /\ Last(s) \in Node
  BY DEF Last
<1>2. h[Last(s)].next \in Link
  BY <1>1 DEF Heaps, Nodal, Nodes
<1> QED  BY <1>1, <1>2 DEF Ends, Longer, Link

\* It is defined.
LEMMA WalkDefined ==
  ASSUME NEW h \in Heaps
  PROVE  \E W : Walks(W, h)
<1> DEFINE D(k) == {s \in Seq(Node) \ {<<>>} : Len(s) + k > Cardinality(Node)}
           Upon(W, k) == /\ DOMAIN W = D(k)
                         /\ \A s \in D(k) : W[s] = IF Ends(h, s) THEN s ELSE W[Longer(h, s)]
           P == {k \in Nat : \E W : Upon(W, k)}
<1>1. Cardinality(Node) \in Nat
  BY DomAssumption, FS_CardinalityType
<1>2. 0 \in P
  <2> DEFINE W == [s \in D(0) |-> s]
  <2>1. \A s \in D(0) : Ends(h, s)
    BY <1>1 DEF Ends
  <2>2. Upon(W, 0)
    BY <2>1
  <2> QED  BY <2>2
<1>3. ASSUME NEW k \in Nat, k \in P PROVE k + 1 \in P
  <2> PICK V : Upon(V, k)
    BY <1>3
  <2> DEFINE W == [s \in D(k + 1) |-> IF Ends(h, s) THEN s ELSE V[Longer(h, s)]]
  <2>1. ASSUME NEW s \in D(k) PROVE s \in D(k + 1) /\ W[s] = V[s]
    <3>1. s \in D(k + 1)
      BY <1>1
    <3> QED  BY <3>1
  <2>2. ASSUME NEW s \in D(k + 1) PROVE W[s] = IF Ends(h, s) THEN s ELSE W[Longer(h, s)]
    <3>1. CASE Ends(h, s)
      BY <3>1
    <3>2. CASE ~Ends(h, s)
      <4>1. Longer(h, s) \in D(k)
        BY <1>1, <3>2, Extends
      <4>2. W[Longer(h, s)] = V[Longer(h, s)]
        BY <2>1, <4>1
      <4> QED  BY <3>2, <4>2
    <3> QED  BY <3>1, <3>2
  <2>3. Upon(W, k + 1)
    <3>1. DOMAIN W = D(k + 1)
      OBVIOUS
    <3> HIDE DEF W
    <3> QED  BY <2>2, <3>1
  <2> HIDE DEF Upon
  <2> QED  BY <2>3
<1> HIDE DEF P
<1>4. Cardinality(Node) \in P
  BY <1>1, <1>2, <1>3, AllNaturals
<1>5. PICK W : Upon(W, Cardinality(Node))
  BY <1>4 DEF P
<1>6. D(Cardinality(Node)) = Seq(Node) \ {<<>>}
  BY <1>1
<1> DEFINE U == [s \in Seq(Node) \ {<<>>} |-> W[s]]
<1>7. ASSUME NEW s \in Seq(Node) \ {<<>>}
      PROVE  U[s] = IF Ends(h, s) THEN s ELSE U[Longer(h, s)]
  <2>1. W[s] = IF Ends(h, s) THEN s ELSE W[Longer(h, s)]
    BY <1>5, <1>6
  <2> QED  BY <2>1, Extends
<1>8. Walks(U, h)
  BY <1>7 DEF Walks
<1> QED  BY <1>8

\* Members is that function.
LEMMA MembersWalk ==
  ASSUME NEW h \in Heaps, NEW o, NEW l
  PROVE  \E W : /\ Walks(W, h)
                /\ Members(h, o, l) = IF h[o].first[l] = Null THEN <<>> ELSE W[<<h[o].first[l]>>]
<1> DEFINE walk[s \in Seq(Node) \ {<<>>}] ==
             LET n == h[Last(s)].next
             IN  IF n = Null \/ Len(s) > Cardinality(Node) THEN s ELSE walk[Append(s, n)]
<1>1. Members(h, o, l) = IF h[o].first[l] = Null THEN <<>> ELSE walk[<<h[o].first[l]>>]
  BY DEF Members
<1>2. Walks(walk, h)
  <2>1. \E W : W = [s \in Seq(Node) \ {<<>>} |->
                      LET n == h[Last(s)].next
                      IN  IF n = Null \/ Len(s) > Cardinality(Node) THEN s ELSE W[Append(s, n)]]
    BY WalkDefined DEF Walks, Ends, Longer
  <2>2. walk = [s \in Seq(Node) \ {<<>>} |->
                  LET n == h[Last(s)].next
                  IN  IF n = Null \/ Len(s) > Cardinality(Node) THEN s ELSE walk[Append(s, n)]]
    BY <2>1
  <2> HIDE DEF walk
  <2> QED  BY <2>2 DEF Walks, Ends, Longer
<1> HIDE DEF walk
<1> QED  BY <1>1, <1>2

\* A loop over a list in order meets the nodes on it, each once and in order.
LEMMA MembersAre ==
  ASSUME NEW h \in Heaps, NEW o \in Nodes, NEW l \in List, IsList(On(h, o, l), h, o, l),
         NEW s, s = Members(h, o, l)
  PROVE  /\ s \in Seq(Node) /\ Len(s) = Cardinality(On(h, o, l)) /\ Len(s) \in Nat
         /\ {s[i] : i \in 1 .. Len(s)} = On(h, o, l)
         /\ \A i, j \in 1 .. Len(s) : s[i] = s[j] => i = j
         /\ h[o].last[l] = IF s = <<>> THEN Null ELSE Last(s)
         /\ \A k \in 1 .. Len(s) : h[s[k]].previous = IF k = 1 THEN Null ELSE s[k - 1]
<1> DEFINE S == On(h, o, l)
           head == h[o].first[l]
           tail == h[o].last[l]
           n == Cardinality(S)
<1>1. /\ S \in SUBSET Node /\ IsFiniteSet(S) /\ Null \notin Node
      /\ n \in Nat /\ n <= Cardinality(Node) /\ Cardinality(Node) \in Nat
  BY OnList, DomAssumption, FS_Subset, FS_CardinalityType
<1>2. PICK rank \in [Node -> Int] : InOrder(S, rank, h, head, tail, Null)
  BY DEF IsList
<1>3. PICK W : /\ Walks(W, h)
               /\ s = IF head = Null THEN <<>> ELSE W[<<head>>]
  BY MembersWalk
<1>4. \A q \in Seq(Node) \ {<<>>} : W[q] = IF Ends(h, q) THEN q ELSE W[Longer(h, q)]
  BY <1>3 DEF Walks
<1> HIDE DEF S, head, tail
<1>5. Linked(S, h, head, tail, Null)
  BY <1>1, <1>2, ListLinks
<1>6. PICK w : WalkOf(w, n, h, head, Null)
  BY <1>1, WalkExists
<1>7. /\ \A k \in 0 .. n : IF k < n THEN w[k] \in S ELSE w[k] = Null
      /\ \A x \in S : \E k \in 0 .. n - 1 : w[k] = x
      /\ \A i, j \in 0 .. n - 1 : w[i] = w[j] => i = j
  <2>1. n <= n
    BY <1>1
  <2> QED  BY <1>1, <1>2, <1>6, <2>1, WalkMeets
<1> HIDE DEF n
<1>8. /\ w[0] = head
      /\ \A i \in 0 .. n - 1 : w[i + 1] = h[w[i]].next
  <2>1. \A i \in 0 .. n - 1 : w[i] # Null /\ w[i + 1] = After(h, w[i], Null)
    BY <1>1, <1>6, <1>7 DEF WalkOf
  <2> QED  BY <1>6, <2>1 DEF WalkOf, After
<1> DEFINE Upto(k) == [i \in 1 .. k |-> w[i - 1]]
<1>9. ASSUME NEW k \in 1 .. n
      PROVE  /\ Upto(k) \in Seq(Node) \ {<<>>} /\ Len(Upto(k)) = k
             /\ Last(Upto(k)) = w[k - 1]
  <2>1. Upto(k) \in [1 .. k -> Node]
    BY <1>1, <1>7
  <2>2. Upto(k) \in Seq(Node) /\ Len(Upto(k)) = k
    BY <1>1, <2>1
  <2> QED  BY <1>1, <2>2 DEF Last
<1>10. s = Upto(n)
  <2>1. CASE n = 0
    <3>1. head = Null
      BY <1>7, <1>8, <2>1
    <3> QED  BY <1>3, <2>1, <3>1
  <2>2. CASE n # 0
    <3>1. head # Null
      BY <1>1, <1>7, <1>8, <2>2
    <3> DEFINE P == {j \in Nat : j < n => W[Upto(j + 1)] = W[<<head>>]}
    <3>2. 0 \in P
      <4>1. Upto(1) = <<head>>
        BY <1>8
      <4> QED  BY <4>1
    <3>3. ASSUME NEW j \in Nat, j \in P PROVE j + 1 \in P
      <4> SUFFICES ASSUME j + 1 < n PROVE W[Upto(j + 2)] = W[<<head>>]
        OBVIOUS
      <4>1. W[Upto(j + 1)] = W[<<head>>]
        BY <1>1, <3>3
      <4>2. j + 1 \in 1 .. n /\ j \in 0 .. n - 1 /\ j + 1 \in 0 .. n /\ (j + 1) - 1 = j
        BY <1>1
      <4>3. h[Last(Upto(j + 1))].next = w[j + 1] /\ w[j + 1] \in S
        BY <1>7, <1>8, <1>9, <4>2
      <4>4. ~Ends(h, Upto(j + 1))
        BY <1>1, <1>9, <4>2, <4>3 DEF Ends
      <4>5. Longer(h, Upto(j + 1)) = Upto(j + 2)
        <5>1. Longer(h, Upto(j + 1)) = Append(Upto(j + 1), w[j + 1])
          BY <4>3 DEF Longer
        <5>2. Append(Upto(j + 1), w[j + 1]) = Upto(j + 2)
          BY <1>9, <4>2
        <5> QED  BY <5>1, <5>2
      <4> HIDE DEF Upto
      <4> QED  BY <1>4, <1>9, <4>1, <4>2, <4>4, <4>5
    <3> HIDE DEF P
    <3>4. n - 1 \in P /\ n - 1 \in Nat
      BY <1>1, <2>2, <3>2, <3>3, AllNaturals
    <3>5. W[Upto(n)] = W[<<head>>]
      BY <1>1, <3>4 DEF P
    <3>6. Ends(h, Upto(n))
      <4>1. n \in 1 .. n /\ n - 1 \in 0 .. n - 1 /\ n \in 0 .. n /\ (n - 1) + 1 = n
        BY <1>1, <2>2
      <4>2. h[Last(Upto(n))].next = Null
        BY <1>7, <1>8, <1>9, <4>1
      <4> QED  BY <4>2 DEF Ends
    <3> HIDE DEF Upto
    <3>7. Upto(n) \in Seq(Node) \ {<<>>}
      BY <1>1, <1>9, <2>2
    <3> QED  BY <1>3, <1>4, <3>1, <3>5, <3>6, <3>7
  <2> QED  BY <2>1, <2>2
<1>11. s \in Seq(Node) /\ Len(s) = n /\ \A i \in 1 .. n : s[i] = w[i - 1]
  <2>1. Upto(n) \in [1 .. n -> Node]
    BY <1>1, <1>7
  <2>2. Upto(n) \in Seq(Node) /\ Len(Upto(n)) = n
    BY <1>1, <2>1
  <2> QED  BY <1>10, <2>2
<1> HIDE DEF Upto
<1>12. {s[i] : i \in 1 .. n} = S
  <2>1. ASSUME NEW i \in 1 .. n PROVE s[i] \in S
    BY <1>1, <1>7, <1>11
  <2>2. ASSUME NEW x \in S PROVE \E i \in 1 .. n : s[i] = x
    <3>1. PICK k \in 0 .. n - 1 : w[k] = x
      BY <1>7
    <3>2. k + 1 \in 1 .. n /\ s[k + 1] = w[k]
      BY <1>1, <1>11
    <3> QED  BY <3>1, <3>2
  <2> QED  BY <2>1, <2>2
<1>13. \A i, j \in 1 .. n : s[i] = s[j] => i = j
  BY <1>1, <1>7, <1>11
<1>14. tail = IF s = <<>> THEN Null ELSE Last(s)
  <2>1. CASE n = 0
    <3>1. S = {} /\ s = <<>>
      BY <1>11, <1>12, <2>1
    <3> QED  BY <1>5, <3>1 DEF Linked
  <2>2. CASE n # 0
    <3>1. n - 1 \in 0 .. n - 1 /\ n \in 0 .. n /\ n - 1 \in 0 .. n /\ n - 1 < n /\ n \in 1 .. n /\ (n - 1) + 1 = n
      BY <1>1, <2>2
    <3>2. w[n - 1] \in S /\ h[w[n - 1]].next = Null
      BY <1>7, <1>8, <3>1
    <3>3. tail = w[n - 1]
      BY <1>5, <3>2 DEF Linked
    <3>4. s # <<>> /\ Last(s) = w[n - 1]
      BY <1>11, <3>1 DEF Last
    <3> QED  BY <3>3, <3>4
  <2> QED  BY <2>1, <2>2
<1>15. ASSUME NEW k \in 1 .. n
       PROVE  h[s[k]].previous = IF k = 1 THEN Null ELSE s[k - 1]
  <2>1. s[k] = w[k - 1] /\ w[k - 1] \in S
    BY <1>1, <1>7, <1>11
  <2>2. CASE k = 1
    BY <1>5, <1>8, <2>1, <2>2 DEF Linked
  <2>3. CASE k # 1
    <3>1. k - 1 \in 1 .. n /\ k - 2 \in 0 .. n - 1 /\ (k - 2) + 1 = k - 1 /\ (k - 1) - 1 = k - 2
      BY <1>1, <2>3
    <3>2. s[k - 1] = w[k - 2] /\ w[k - 2] \in S
      BY <1>1, <1>7, <1>11, <3>1
    <3>3. h[w[k - 2]].next = w[k - 1]
      BY <1>1, <1>8, <3>1
    <3> QED  BY <1>5, <2>1, <2>3, <3>2, <3>3 DEF Linked
  <2> QED  BY <2>2, <2>3
<1> QED  BY <1>1, <1>11, <1>12, <1>13, <1>14, <1>15 DEF n, S, tail

-----------------------------------------------------------------------------
(***************************************************************************)
(* The operations of the DOM, on lawful nodes.                             *)
(***************************************************************************)

\* What a node is never changes.
SameNature(g, h) ==
  \A x \in Nodes : /\ g[x].kind = h[x].kind /\ g[x].name = h[x].name
                   /\ g[x].document = h[x].document

\* Nature is kept where all is kept but a parent.
LEMMA KeepsNature ==
  ASSUME NEW h, NEW g, NEW n, Kept(g, h, n) \/ SameScalars(g, h)
  PROVE  SameNature(g, h)
BY DEF Kept, SameScalars, SameNature

\* And nature fits, if the parents of attributes do.
LEMMA StaysFit ==
  ASSUME NEW h, Fits(h), NEW g, NEW n \in Node, h[n].kind # "absent", Kept(g, h, n),
         h[n].kind = "attribute" /\ g[n].parent # Null =>
           g[n].parent \in Node /\ h[g[n].parent].kind = "element"
  PROVE  Fits(g)
<1>1. Document \subseteq Nodes /\ Node \subseteq Nodes
  BY DEF Nodes
<1>2. ASSUME NEW d \in Document
      PROVE  \/ g[d].kind = "absent" /\ g[d].document = Null
             \/ g[d].kind = "document" /\ g[d].document = d
  BY <1>1 DEF Fits, Kept
<1>3. ASSUME NEW x \in Node
      PROVE  \/ g[x].kind = "absent" /\ g[x].document = Null /\ g[x].parent = Null
             \/ /\ g[x].kind \in {"element", "attribute", "text"}
                /\ g[x].document \in Document /\ g[g[x].document].kind = "document"
                /\ g[x].kind = "attribute" /\ g[x].parent # Null =>
                     g[x].parent \in Node /\ g[g[x].parent].kind = "element"
  <2>1. \/ h[x].kind = "absent" /\ h[x].document = Null /\ h[x].parent = Null
        \/ /\ h[x].kind \in {"element", "attribute", "text"}
           /\ h[x].document \in Document /\ h[h[x].document].kind = "document"
           /\ h[x].kind = "attribute" /\ h[x].parent # Null =>
                h[x].parent \in Node /\ h[h[x].parent].kind = "element"
    BY DEF Fits
  <2>2. g[x].kind = h[x].kind /\ g[x].document = h[x].document
    BY <1>1 DEF Kept
  <2>3. x # n => g[x].parent = h[x].parent
    BY <1>1 DEF Kept
  <2>4. \A y \in Nodes : g[y].kind = h[y].kind
    BY DEF Kept
  <2> QED  BY <1>1, <2>1, <2>2, <2>3, <2>4
<1> QED  BY <1>2, <1>3 DEF Fits

\* Names stay unique where no attribute gets a parent.
LEMMA StaysUnique ==
  ASSUME NEW h, Unique(h), NEW g, NEW n, Kept(g, h, n),
         h[n].kind # "attribute" \/ g[n].parent = Null
  PROVE  Unique(g)
<1>1. \A x \in Node : /\ g[x].kind = h[x].kind /\ g[x].name = h[x].name
                      /\ x # n => g[x].parent = h[x].parent
  BY DEF Kept, Nodes
<1> QED  BY <1>1 DEF Unique

\* A node before it is detached.
LEMMA NewNode ==
  ASSUME NEW h, Lawful(h), NEW n \in Node, h[n].kind = "absent",
         NEW kind \in {"element", "attribute", "text"}, NEW name \in Name \cup {Null},
         NEW d \in Document, NEW g, g = Created(h, n, kind, name, d)
  PROVE  \E m \in Heaps :
           /\ g = InsertIntoDetached(m, n) /\ SameEnds(m, h)
           /\ m[n].kind = kind /\ m[n].name = name /\ m[n].document = d /\ m[n].parent = Null
           /\ \A x \in Nodes \ {n} : m[x] = h[x]
<1> DEFINE r == [h[n] EXCEPT !.kind = kind, !.name = name, !.document = d]
           m == [h EXCEPT ![n] = r]
<1>1. /\ n \in Nodes /\ d \in Nodes /\ h[n] \in Nodal /\ h \in Heaps
      /\ h[n].parent = Null
  BY DEF Nodes, Heaps, Lawful, Fits
<1>2. g = InsertIntoDetached(m, n)
  BY <1>1 DEF Created, Heaps
<1>3. /\ r \in Nodal /\ r.kind = kind /\ r.name = name /\ r.document = d
      /\ r.parent = Null /\ r.first = h[n].first /\ r.last = h[n].last
  BY <1>1 DEF Nodal
<1> HIDE DEF r
<1>4. m \in Heaps /\ \A x \in Nodes : m[x] = IF x = n THEN r ELSE h[x]
  BY <1>1, <1>3 DEF Heaps
<1> HIDE DEF m
<1>5. SameEnds(m, h) /\ \A x \in Nodes \ {n} : m[x] = h[x]
  BY <1>3, <1>4 DEF SameEnds
<1> QED  BY <1>1, <1>2, <1>3, <1>4, <1>5

\* A new node is detached.
LEMMA Creates ==
  ASSUME NEW h, Lawful(h), NEW n \in Node, h[n].kind = "absent",
         NEW kind \in {"element", "attribute", "text"}, NEW name \in Name \cup {Null},
         NEW d \in Document, h[d].kind = "document",
         NEW g, g = Created(h, n, kind, name, d)
  PROVE  /\ Lawful(g)
         /\ g[n].kind = kind /\ g[n].name = name /\ g[n].document = d /\ g[n].parent = Null
         /\ \A x \in Nodes \ {n} : /\ g[x].kind = h[x].kind /\ g[x].name = h[x].name
                                   /\ g[x].document = h[x].document
                                   /\ g[x].parent = h[x].parent
<1>1. n \in Nodes /\ d \in Nodes /\ h \in Heaps
  BY DEF Nodes, Lawful
<1>2. PICK m \in Heaps :
        /\ g = InsertIntoDetached(m, n) /\ SameEnds(m, h)
        /\ m[n].kind = kind /\ m[n].name = name /\ m[n].document = d /\ m[n].parent = Null
        /\ \A x \in Nodes \ {n} : m[x] = h[x]
  BY NewNode
<1>5. Chained(h, {n})
  <2>1. ASSUME NEW o \in Nodes, NEW l \in List PROVE IsList(On(h, o, l) \ {n}, h, o, l)
    <3>1. On(h, o, l) \ {n} = On(h, o, l) \ {}
      BY DEF On
    <3>2. IsList(On(h, o, l) \ {}, h, o, l)
      BY DEF Lawful, Chained
    <3> QED  BY <3>1, <3>2
  <2> QED  BY <2>1 DEF Chained
<1>7. Chained(m, {n})
  BY <1>2, <1>5, OneChanges
<1>8. m[n].kind # "absent" /\ m[n].parent = Null /\ m[n].document \in Nodes
  BY <1>1, <1>2
<1>9. g \in Heaps /\ SameScalars(g, m) /\ Chained(g, {})
  BY <1>2, <1>7, <1>8, InsertsDetached
<1>10. /\ g[n].kind = kind /\ g[n].name = name /\ g[n].document = d /\ g[n].parent = Null
       /\ \A x \in Nodes \ {n} : /\ g[x].kind = h[x].kind /\ g[x].name = h[x].name
                                 /\ g[x].document = h[x].document
                                 /\ g[x].parent = h[x].parent
  BY <1>1, <1>2, <1>9 DEF SameScalars
<1>11. n \notin Document /\ Document \subseteq Nodes /\ Node \subseteq Nodes
  BY DomAssumption DEF Nodes
<1>12. Fits(g)
  <2>1. ASSUME NEW e \in Document
        PROVE  \/ g[e].kind = "absent" /\ g[e].document = Null
               \/ g[e].kind = "document" /\ g[e].document = e
    BY <1>10, <1>11 DEF Lawful, Fits
  <2>2. ASSUME NEW x \in Node
        PROVE  \/ g[x].kind = "absent" /\ g[x].document = Null /\ g[x].parent = Null
               \/ /\ g[x].kind \in {"element", "attribute", "text"}
                  /\ g[x].document \in Document /\ g[g[x].document].kind = "document"
                  /\ g[x].kind = "attribute" /\ g[x].parent # Null =>
                       g[x].parent \in Node /\ g[g[x].parent].kind = "element"
    <3>1. CASE x = n
      BY <1>10, <1>11, <3>1
    <3>2. CASE x # n
      <4>1. \/ h[x].kind = "absent" /\ h[x].document = Null /\ h[x].parent = Null
            \/ /\ h[x].kind \in {"element", "attribute", "text"}
               /\ h[x].document \in Document /\ h[h[x].document].kind = "document"
               /\ h[x].kind = "attribute" /\ h[x].parent # Null =>
                    h[x].parent \in Node /\ h[h[x].parent].kind = "element"
        BY DEF Lawful, Fits
      <4>2. /\ g[x].kind = h[x].kind /\ g[x].document = h[x].document
            /\ g[x].parent = h[x].parent
            /\ \A y \in Nodes : h[y].kind # "absent" => g[y].kind = h[y].kind
        BY <1>10, <1>11, <3>2
      <4> QED  BY <1>11, <4>1, <4>2
    <3> QED  BY <3>1, <3>2
  <2> QED  BY <2>1, <2>2 DEF Fits
<1>13. Unique(g)
  <2>1. Unique(h)
    BY DEF Lawful
  <2> QED  BY <1>10, <1>11, <2>1 DEF Unique
<1> QED  BY <1>9, <1>10, <1>12, <1>13 DEF Lawful

\* A node that exists is on the list its parent and kind tell.
LEMMA IsOnList ==
  ASSUME NEW h, Lawful(h), NEW n \in Node, h[n].kind # "absent"
  PROVE  /\ h \in Heaps /\ Chained(h, {}) /\ Fits(h) /\ Unique(h)
         /\ h[n].parent = Null => n \in On(h, h[n].document, "detached")
         /\ h[n].parent # Null /\ h[n].kind # "attribute" => n \in On(h, h[n].parent, "children")
         /\ h[n].parent # Null => h[n].parent \in Nodes
         /\ h[n].document \in Document /\ h[n].document \in Nodes
         /\ n \in Nodes
<1>1. h[n] \in Nodal /\ n \in Nodes
  BY DEF Lawful, Heaps, Nodes
<1>2. h[n].parent \in Nodes \cup {Null}
  BY <1>1 DEF Nodal
<1>3. h[n].document \in Document /\ h[n].document \in Nodes
  BY DEF Lawful, Fits, Nodes
<1> QED  BY <1>1, <1>2, <1>3 DEF Lawful, On, HomeOf

\* A node with a parent is a child, or detached: either way it becomes one of p.
LEMMA Appends ==
  ASSUME NEW h, Lawful(h), NEW n \in Node, h[n].kind \notin {"absent", "attribute"},
         NEW p \in Nodes, NEW g, g = Appended(h, p, n)
  PROVE  Lawful(g) /\ SameNature(g, h)
<1> DEFINE m == IF h[n].parent # Null THEN RemoveFromChildren(h, n) ELSE RemoveFromDetached(h, n)
<1>1. /\ h \in Heaps /\ Chained(h, {}) /\ Fits(h) /\ Unique(h)
      /\ h[n].parent = Null => n \in On(h, h[n].document, "detached")
      /\ h[n].parent # Null => n \in On(h, h[n].parent, "children")
      /\ h[n].parent # Null => h[n].parent \in Nodes
      /\ h[n].document \in Nodes /\ n \in Nodes
  BY IsOnList
<1>2. m \in Heaps /\ Kept(m, h, n) /\ Chained(m, {n})
  <2>1. CASE h[n].parent # Null
    BY <1>1, <2>1, RemovesChild
  <2>2. CASE h[n].parent = Null
    <3>1. m \in Heaps /\ SameScalars(m, h) /\ Chained(m, {n})
      BY <1>1, <2>2, RemovesDetached
    <3>2. Kept(m, h, n)
      BY <3>1 DEF SameScalars, Kept
    <3> QED  BY <3>1, <3>2
  <2> QED  BY <2>1, <2>2
<1>3. g = InsertIntoChildren(m, p, n)
  BY DEF Appended
<1> HIDE DEF m
<1>4. m[n].kind \notin {"absent", "attribute"}
  BY <1>1, <1>2 DEF Kept
<1>5. g \in Heaps /\ Kept(g, m, n) /\ Chained(g, {})
  BY <1>2, <1>3, <1>4, InsertsChild
<1>6. Kept(g, h, n)
  BY <1>2, <1>5, KeptTwice
<1>7. Fits(g) /\ Unique(g)
  BY <1>1, <1>6, StaysFit, StaysUnique
<1> QED  BY <1>5, <1>6, <1>7, KeepsNature DEF Lawful

\* A child becomes detached.
LEMMA Detaches ==
  ASSUME NEW h, Lawful(h), NEW n \in Node, h[n].kind \notin {"absent", "attribute"},
         h[n].parent # Null, NEW g, g = Detached(h, n)
  PROVE  Lawful(g) /\ SameNature(g, h)
<1> DEFINE m == RemoveFromChildren(h, n)
<1>1. /\ h \in Heaps /\ Chained(h, {}) /\ Fits(h) /\ Unique(h)
      /\ n \in On(h, h[n].parent, "children") /\ h[n].parent \in Nodes
      /\ h[n].document \in Nodes /\ n \in Nodes
  BY IsOnList
<1>2. m \in Heaps /\ Kept(m, h, n) /\ m[n].parent = Null /\ Chained(m, {n})
  BY <1>1, RemovesChild
<1>3. g = InsertIntoDetached(m, n)
  BY DEF Detached
<1> HIDE DEF m
<1>4. m[n].kind \notin {"absent", "attribute"} /\ m[n].document \in Nodes
  BY <1>1, <1>2 DEF Kept
<1>5. g \in Heaps /\ SameScalars(g, m) /\ Chained(g, {})
  BY <1>2, <1>3, <1>4, InsertsDetached
<1>6. Kept(g, h, n)
  BY <1>2, <1>5, KeptTwice
<1>7. Fits(g) /\ Unique(g)
  BY <1>1, <1>6, StaysFit, StaysUnique
<1> QED  BY <1>5, <1>6, <1>7, KeepsNature DEF Lawful

\* The attributes of a list in order.
LEMMA AttributesOf ==
  ASSUME NEW h, Lawful(h), NEW e \in Nodes, NEW s, s = Members(h, e, "attributes")
  PROVE  /\ {s[i] : i \in DOMAIN s} = On(h, e, "attributes")
         /\ \A i \in DOMAIN s : s[i] \in On(h, e, "attributes")
         /\ \A x \in Node : h[x].kind = "attribute" /\ h[x].parent = e =>
              \E i \in DOMAIN s : s[i] = x
         /\ DOMAIN s \in SUBSET Nat
<1>1. h \in Heaps /\ Chained(h, {}) /\ "attributes" \in List /\ e # Null
  BY DomAssumption DEF Lawful, List, Nodes
<1>2. On(h, e, "attributes") \ {} = On(h, e, "attributes")
  OBVIOUS
<1>3. IsList(On(h, e, "attributes"), h, e, "attributes")
  BY <1>1, <1>2 DEF Chained
<1>4. /\ s \in Seq(Node)
      /\ {s[i] : i \in 1 .. Len(s)} = On(h, e, "attributes")
  BY <1>1, <1>3, MembersAre
<1>5. DOMAIN s = 1 .. Len(s) /\ Len(s) \in Nat
  BY <1>4
<1>6. ASSUME NEW x \in Node, h[x].kind = "attribute", h[x].parent = e
      PROVE  x \in On(h, e, "attributes")
  BY <1>1, <1>6 DEF On, HomeOf
<1> QED  BY <1>4, <1>5, <1>6

\* The loop over the attributes of e, which looks for one of a's name.
WayFor(h, e, a) ==
  LET all  == Members(h, e, "attributes")
      same == {k \in DOMAIN all : h[all[k]].name = h[a].name}
      old  == all[Min(same)]
  IN  IF same = {} THEN h ELSE InsertIntoDetached(RemoveFromAttributes(h, old), old)

\* The attribute of the same name makes way for the new one.
LEMMA MakesWay ==
  ASSUME NEW h, Lawful(h), NEW e \in Node, h[e].kind = "element",
         NEW a \in Node, h[a].kind = "attribute", h[a].parent = Null,
         NEW rest, rest = WayFor(h, e, a)
  PROVE  /\ Lawful(rest) /\ SameNature(rest, h) /\ rest[a].parent = Null
         /\ \A x \in Node : h[x].kind = "attribute" /\ rest[x].parent = e =>
              h[x].name # h[a].name
<1> DEFINE all  == Members(h, e, "attributes")
           same == {k \in DOMAIN all : h[all[k]].name = h[a].name}
           old  == all[Min(same)]
<1>1. e \in Nodes /\ a \in Nodes /\ e # Null
  BY DomAssumption DEF Nodes
<1>2. /\ \A i \in DOMAIN all : all[i] \in On(h, e, "attributes")
      /\ \A x \in Node : h[x].kind = "attribute" /\ h[x].parent = e =>
           \E i \in DOMAIN all : all[i] = x
      /\ DOMAIN all \in SUBSET Nat
  BY <1>1, AttributesOf
<1> HIDE DEF all
<1>3. CASE same = {}
  <2>1. rest = h
    BY <1>3 DEF all, WayFor
  <2>2. \A x \in Node : h[x].kind = "attribute" /\ h[x].parent = e => h[x].name # h[a].name
    BY <1>2, <1>3
  <2> QED  BY <2>1, <2>2 DEF SameNature
<1>4. CASE same # {}
  <2>1. Min(same) \in same
    <3>1. same \in SUBSET Nat
      BY <1>2
    <3>2. \E k \in same : \A j \in same : k <= j
      <4> HIDE DEF same
      <4> QED  BY <1>4, <3>1, LeastNatural
    <3> QED  BY <3>2 DEF Min
  <2>2. rest = InsertIntoDetached(RemoveFromAttributes(h, old), old)
    BY <1>4 DEF all, WayFor
  <2>3. old \in On(h, e, "attributes") /\ h[old].name = h[a].name
    BY <1>2, <2>1
  <2> HIDE DEF old
  <2>4. /\ old \in Node /\ old \in Nodes /\ h[old].parent = e /\ old # a
        /\ h[old].kind = "attribute"
    BY <1>1, <2>3 DEF On, HomeOf, Nodes
  <2>5. /\ h \in Heaps /\ Chained(h, {}) /\ Fits(h) /\ Unique(h) /\ h[old].document \in Nodes
    BY <2>4, IsOnList
  <2> DEFINE m == RemoveFromAttributes(h, old)
  <2>6. m \in Heaps /\ Kept(m, h, old) /\ m[old].parent = Null /\ Chained(m, {old})
    BY <1>1, <2>3, <2>5, RemovesAttribute
  <2>7. rest = InsertIntoDetached(m, old)
    BY <2>2
  <2> HIDE DEF m
  <2>8. m[old].kind # "absent" /\ m[old].document \in Nodes
    BY <2>4, <2>5, <2>6 DEF Kept
  <2>9. rest \in Heaps /\ SameScalars(rest, m) /\ Chained(rest, {})
    BY <2>4, <2>6, <2>7, <2>8, InsertsDetached
  <2>10. Kept(rest, h, old) /\ rest[old].parent = Null
    <3>1. Kept(rest, h, old)
      BY ONLY <2>6, <2>9, KeptTwice
    <3>2. rest[old].parent = m[old].parent
      BY <2>4, <2>9 DEF SameScalars
    <3> QED  BY <2>6, <3>1, <3>2
  <2>11. Fits(rest) /\ Unique(rest)
    BY <2>4, <2>5, <2>10, StaysFit, StaysUnique
  <2>12. rest[a].parent = Null
    BY <1>1, <2>4, <2>10 DEF Kept
  <2>13. ASSUME NEW x \in Node, h[x].kind = "attribute", rest[x].parent = e
         PROVE  h[x].name # h[a].name
    <3>1. x # old /\ x \in Nodes
      BY <1>1, <2>10, <2>13 DEF Nodes
    <3>2. h[x].parent = e
      BY <2>10, <2>13, <3>1 DEF Kept
    <3> QED  BY <1>1, <2>3, <2>4, <2>5, <2>13, <3>1, <3>2 DEF Unique
  <2> QED  BY <2>9, <2>10, <2>11, <2>12, <2>13, KeepsNature DEF Lawful
<1> QED  BY <1>3, <1>4

\* A detached attribute becomes the one of its name of e.
LEMMA Attributes ==
  ASSUME NEW h, Lawful(h), NEW e \in Node, h[e].kind = "element",
         NEW a \in Node, h[a].kind = "attribute", h[a].parent = Null,
         NEW g, g = Attributed(h, e, a)
  PROVE  Lawful(g) /\ SameNature(g, h)
<1> DEFINE rest == WayFor(h, e, a)
           m == RemoveFromDetached(rest, a)
<1>1. e \in Nodes /\ a \in Nodes /\ e # Null
  BY DomAssumption DEF Nodes
<1>2. g = InsertIntoAttributes(m, e, a)
  BY DEF Attributed, WayFor
<1>3. /\ Lawful(rest) /\ SameNature(rest, h) /\ rest[a].parent = Null
      /\ \A x \in Node : h[x].kind = "attribute" /\ rest[x].parent = e =>
           h[x].name # h[a].name
  BY MakesWay
<1> HIDE DEF rest
<1>4. rest[a].kind = "attribute" /\ rest[e].kind = "element"
  BY <1>1, <1>3 DEF SameNature
<1>5. /\ rest \in Heaps /\ Chained(rest, {}) /\ Fits(rest) /\ Unique(rest)
      /\ a \in On(rest, rest[a].document, "detached") /\ rest[a].document \in Nodes
  BY <1>3, <1>4, IsOnList
<1>6. m \in Heaps /\ SameScalars(m, rest) /\ Chained(m, {a})
  BY <1>5, RemovesDetached
<1> HIDE DEF m
<1>7. m[a].kind = "attribute"
  BY <1>1, <1>4, <1>6 DEF SameScalars
<1>8. g \in Heaps /\ Kept(g, m, a) /\ g[a].parent = e /\ Chained(g, {})
  BY <1>1, <1>2, <1>6, <1>7, InsertsAttribute
<1>9. Kept(g, rest, a)
  BY <1>6, <1>8, KeptTwice
<1>10. Fits(g)
  BY <1>4, <1>5, <1>8, <1>9, StaysFit
<1>11. SameNature(g, h)
  BY <1>3, <1>9 DEF Kept, SameNature
<1>12. Unique(g)
  <2>1. \A x \in Node : /\ g[x].kind = h[x].kind /\ g[x].name = h[x].name
                        /\ rest[x].kind = h[x].kind /\ rest[x].name = h[x].name
                        /\ x # a => g[x].parent = rest[x].parent
    BY <1>3, <1>9, <1>11 DEF SameNature, Kept, Nodes
  <2> SUFFICES ASSUME NEW x \in Node, NEW y \in Node,
                      g[x].kind = "attribute", g[y].kind = "attribute",
                      g[x].parent = g[y].parent, g[x].parent # Null, g[x].name = g[y].name
               PROVE  x = y
    BY DEF Unique
  <2>2. CASE x # a /\ y # a
    BY <1>5, <2>1, <2>2 DEF Unique
  <2>3. CASE x = a
    BY <1>3, <1>8, <2>1, <2>3
  <2>4. CASE y = a
    BY <1>3, <1>8, <2>1, <2>4
  <2> QED  BY <2>2, <2>3, <2>4
<1> QED  BY <1>8, <1>10, <1>11, <1>12 DEF Lawful

\* Set_Value's loop body, if the loop goes on.
Barer(g, a) ==
  IF g[a].first["children"] = Null THEN g ELSE Detached(g, g[a].first["children"])

\* The loop body detaches a child.
LEMMA DetachesFirst ==
  ASSUME NEW h, Lawful(h), NEW a \in Node, NEW g, g = Barer(h, a)
  PROVE  Lawful(g) /\ SameNature(g, h)
<1> DEFINE c == h[a].first["children"]
<1>1. /\ h \in Heaps /\ Chained(h, {}) /\ "children" \in List /\ a \in Nodes
      /\ c \in Link /\ Null \notin Nodes
  <2>1. h[a] \in Nodal /\ a \in Nodes /\ "children" \in List
    BY DEF Lawful, Heaps, Nodes, List
  <2>2. h[a].first \in [List -> Link]
    BY <2>1 DEF Nodal
  <2> QED  BY <2>1, <2>2, DomAssumption DEF Lawful, Nodes
<1>2. CASE c = Null
  BY <1>2 DEF Barer, SameNature
<1>3. CASE c # Null
  <2>1. c \in On(h, a, "children")
    <3>1. On(h, a, "children") \ {} = On(h, a, "children")
      OBVIOUS
    <3>2. IsList(On(h, a, "children"), h, a, "children")
      BY <1>1, <3>1 DEF Chained
    <3>3. PICK rank \in [Node -> Int] :
            InOrder(On(h, a, "children"), rank, h, c, h[a].last["children"], Null)
      BY <3>2 DEF IsList
    <3> QED  BY <1>3, <3>3 DEF InOrder
  <2>2. /\ c \in Node /\ h[c].kind \notin {"absent", "attribute"} /\ h[c].parent # Null
    BY <1>1, <2>1 DEF On, HomeOf
  <2>3. g = Detached(h, c)
    BY <1>3 DEF Barer
  <2> HIDE DEF c
  <2> QED  BY <2>2, <2>3, Detaches
<1> QED  BY <1>2, <1>3

\* The loop, and each of its rounds.
LEMMA BaredRuns ==
  ASSUME NEW h, Lawful(h), NEW a \in Node, NEW k \in Nat
  PROVE  \E bare : /\ Bared(h, a, k) = bare[k]
                   /\ \A i \in 0 .. k : /\ bare[i] = IF i = 0 THEN h ELSE Barer(bare[i - 1], a)
                                        /\ Lawful(bare[i]) /\ SameNature(bare[i], h)
<1> DEFINE Run(f, n) == /\ DOMAIN f = 0 .. n
                        /\ \A i \in 0 .. n : f[i] = IF i = 0 THEN h ELSE Barer(f[i - 1], a)
           D == {n \in Nat : \E f : Run(f, n)}
           bare[i \in 0 .. k] == IF i = 0 THEN h
                                 ELSE LET b == bare[i - 1]
                                      IN  IF b[a].first["children"] = Null THEN b
                                          ELSE Detached(b, b[a].first["children"])
<1>1. 0 \in D
  <2>1. Run([i \in 0 .. 0 |-> h], 0)
    OBVIOUS
  <2> QED  BY <2>1
<1>2. ASSUME NEW n \in Nat, n \in D PROVE n + 1 \in D
  <2> PICK f : Run(f, n)
    BY <1>2
  <2> DEFINE e == [i \in 0 .. n + 1 |-> IF i = n + 1 THEN Barer(f[n], a) ELSE f[i]]
  <2>1. ASSUME NEW i \in 0 .. n + 1
        PROVE  e[i] = IF i = 0 THEN h ELSE Barer(e[i - 1], a)
    <3>1. CASE i = 0
      BY <3>1
    <3>2. CASE i # 0 /\ i # n + 1
      <4>1. i \in 0 .. n /\ i - 1 \in 0 .. n + 1 /\ i - 1 # n + 1
        BY <3>2
      <4>2. e[i] = f[i] /\ e[i - 1] = f[i - 1]
        BY <3>2, <4>1
      <4> QED  BY <3>2, <4>1, <4>2
    <3>3. CASE i = n + 1
      <4>1. i - 1 = n /\ n \in 0 .. n + 1 /\ n # n + 1
        BY <3>3
      <4>2. e[i] = Barer(f[n], a) /\ e[i - 1] = f[n]
        BY <3>3, <4>1
      <4> QED  BY <3>3, <4>2
    <3> QED  BY <3>1, <3>2, <3>3
  <2>2. DOMAIN e = 0 .. n + 1
    OBVIOUS
  <2> HIDE DEF e
  <2>3. Run(e, n + 1)
    BY <2>1, <2>2
  <2> HIDE DEF Run
  <2> QED  BY <2>3
<1>3. PICK f : Run(f, k)
  <2> HIDE DEF D
  <2>1. k \in D
    BY <1>1, <1>2, AllNaturals
  <2> QED  BY <2>1 DEF D
<1>4. \A i \in 0 .. k : bare[i] = IF i = 0 THEN h ELSE Barer(bare[i - 1], a)
  <2> DEFINE e == [i \in 0 .. k |-> f[i]]
  <2>1. ASSUME NEW i \in 0 .. k
        PROVE  e[i] = IF i = 0 THEN h ELSE Barer(e[i - 1], a)
    <3>1. i # 0 => i - 1 \in 0 .. k
      OBVIOUS
    <3> QED  BY <1>3, <3>1
  <2>2. e = [i \in 0 .. k |-> IF i = 0 THEN h
                              ELSE LET b == e[i - 1]
                                   IN  IF b[a].first["children"] = Null THEN b
                                       ELSE Detached(b, b[a].first["children"])]
    BY <2>1 DEF Barer
  <2>3. bare = [i \in 0 .. k |-> IF i = 0 THEN h
                                 ELSE LET b == bare[i - 1]
                                      IN  IF b[a].first["children"] = Null THEN b
                                          ELSE Detached(b, b[a].first["children"])]
    BY <2>2
  <2> HIDE DEF bare
  <2> QED  BY <2>3 DEF Barer
<1>5. Bared(h, a, k) = bare[k]
  BY DEF Bared
<1> HIDE DEF bare
<1> DEFINE P == {n \in Nat : n <= k => Lawful(bare[n]) /\ SameNature(bare[n], h)}
<1>6. 0 \in P
  BY <1>4 DEF SameNature
<1>7. ASSUME NEW n \in Nat, n \in P PROVE n + 1 \in P
  <2> SUFFICES ASSUME n + 1 <= k
               PROVE  Lawful(bare[n + 1]) /\ SameNature(bare[n + 1], h)
    OBVIOUS
  <2>1. Lawful(bare[n]) /\ SameNature(bare[n], h)
    BY <1>7
  <2>2. bare[n + 1] = Barer(bare[n], a)
    <3>1. n + 1 \in 0 .. k /\ n + 1 # 0 /\ (n + 1) - 1 = n
      OBVIOUS
    <3> QED  BY <1>4, <3>1
  <2>3. Lawful(bare[n + 1]) /\ SameNature(bare[n + 1], bare[n])
    BY <2>1, <2>2, DetachesFirst
  <2> QED  BY <2>1, <2>3 DEF SameNature
<1> HIDE DEF P
<1>8. \A n \in Nat : n \in P
  BY <1>6, <1>7, AllNaturals
<1>9. \A i \in 0 .. k : Lawful(bare[i]) /\ SameNature(bare[i], h)
  BY <1>8 DEF P
<1> QED  BY <1>4, <1>5, <1>9

\* However often the loop runs.
LEMMA Bares ==
  ASSUME NEW h, Lawful(h), NEW a \in Node, NEW k \in Nat, NEW g, g = Bared(h, a, k)
  PROVE  Lawful(g) /\ SameNature(g, h)
<1>1. k \in 0 .. k
  OBVIOUS
<1> QED  BY <1>1, BaredRuns

\* A text that did not exist becomes the value of an attribute.
LEMMA Values ==
  ASSUME NEW h, Lawful(h), NEW a \in Node, h[a].kind = "attribute",
         NEW t \in Node, h[t].kind = "absent", NEW g, g = Valued(h, a, t)
  PROVE  /\ Lawful(g) /\ \A x \in Nodes \ {t} : g[x].kind = h[x].kind
         /\ g[t].document = h[a].document /\ g[t].name = Null
         /\ \A x \in Nodes \ {t} : g[x].document = h[x].document /\ g[x].name = h[x].name
<1> DEFINE b == Bared(h, a, Cardinality(Node))
           m == Created(b, t, "text", Null, h[a].document)
<1>1. Cardinality(Node) \in Nat
  BY DomAssumption, FS_CardinalityType
<1>2. Lawful(b) /\ SameNature(b, h)
  BY <1>1, Bares
<1>3. g = Appended(m, a, t)
  BY DEF Valued
<1> HIDE DEF b
<1>4. /\ a \in Nodes /\ t \in Nodes /\ h[a].document \in Document /\ h[a].document \in Nodes
      /\ h[h[a].document].kind = "document"
  BY DEF Lawful, Fits, Nodes
<1>5. b[t].kind = "absent" /\ b[h[a].document].kind = "document"
  BY <1>2, <1>4 DEF SameNature
<1>6. /\ Lawful(m) /\ m[t].kind = "text" /\ m[t].document = h[a].document /\ m[t].name = Null
      /\ \A x \in Nodes \ {t} : /\ m[x].kind = b[x].kind /\ m[x].name = b[x].name
                                /\ m[x].document = b[x].document
  <2> DEFINE d == h[a].document
             kind == "text"
             name == Null
  <2>1. m = Created(b, t, kind, name, d) /\ d \in Document /\ b[d].kind = "document"
    BY <1>4, <1>5
  <2>2. kind \in {"element", "attribute", "text"} /\ name \in Name \cup {Null}
    OBVIOUS
  <2> HIDE DEF d, m, kind, name
  <2>3. /\ Lawful(m) /\ m[t].kind = kind /\ m[t].document = d /\ m[t].name = name
        /\ \A x \in Nodes \ {t} : /\ m[x].kind = b[x].kind /\ m[x].name = b[x].name
                                  /\ m[x].document = b[x].document
    BY <1>2, <1>5, <2>1, <2>2, Creates
  <2> QED  BY <2>3 DEF kind, name, d
<1> HIDE DEF m
<1>7. Lawful(g) /\ SameNature(g, m)
  BY <1>3, <1>4, <1>6, Appends
<1>8. g[t].document = h[a].document /\ g[t].name = Null
  BY <1>4, <1>6, <1>7 DEF SameNature
<1>9. \A x \in Nodes \ {t} : /\ g[x].kind = h[x].kind /\ g[x].document = h[x].document
                             /\ g[x].name = h[x].name
  BY <1>2, <1>6, <1>7 DEF SameNature
<1> QED  BY <1>7, <1>8, <1>9

-----------------------------------------------------------------------------
(***************************************************************************)
(* What lawful nodes are.                                                  *)
(***************************************************************************)

\* Each list of lawful nodes is in order.
LEMMA AllLists ==
  ASSUME NEW h, Lawful(h), NEW o \in Nodes, NEW l \in List
  PROVE  h \in Heaps /\ IsList(On(h, o, l), h, o, l)
<1>1. On(h, o, l) \ {} = On(h, o, l)
  OBVIOUS
<1> QED  BY <1>1 DEF Lawful, Chained

\* A list no node can be on is empty.
LEMMA EmptyList ==
  ASSUME NEW h, Lawful(h), NEW o \in Nodes, NEW l \in List, On(h, o, l) = {}
  PROVE  h[o].first[l] = Null
BY AllLists DEF IsList, InOrder

\* The types.
LEMMA LawfulTypes == Lawful(node) => TypeOK
<1> SUFFICES ASSUME Lawful(node) PROVE TypeOK
  OBVIOUS
<1> DEFINE Ref   == Nodes \cup {Null}
           Typed == [kind: {"absent", "document", "element", "attribute", "text"},
                     name: Name \cup {Null}, document: Document \cup {Null},
                     parent: Ref, first: [List -> Ref], last: [List -> Ref],
                     previous: Ref, next: Ref]
<1>1. node \in [Nodes -> Typed]
  <2>1. Link \subseteq Ref
    BY DEF Link, Nodes
  <2>2. [List -> Link] \subseteq [List -> Ref]
    BY <2>1
  <2>3. Nodal \subseteq Typed
    BY <2>1, <2>2 DEF Nodal
  <2> HIDE DEF Typed
  <2> QED  BY <2>3 DEF Lawful, Heaps
<1>2. ASSUME NEW x \in Nodes
      PROVE  /\ ~Is(x, "absent") <=> node[x].document # Null
             /\ ~Is(x, "element")  => node[x].first["attributes"] = Null
             /\ ~Is(x, "document") => node[x].first["detached"] = Null
  <2>1. Null \notin Nodes /\ "attributes" \in List /\ "detached" \in List
    BY DomAssumption DEF Nodes, List
  <2>2. ~Is(x, "absent") <=> node[x].document # Null
    <3>1. CASE x \in Document
      BY <2>1, <3>1 DEF Lawful, Fits, Is, Nodes
    <3>2. CASE x \in Node
      BY <2>1, <3>2 DEF Lawful, Fits, Is, Nodes
    <3> QED  BY <3>1, <3>2 DEF Nodes
  <2>3. ASSUME ~Is(x, "element") PROVE node[x].first["attributes"] = Null
    <3>1. On(node, x, "attributes") = {}
      <4> SUFFICES ASSUME NEW n \in Node, HomeOf(node, n) = <<x, "attributes">> PROVE FALSE
        BY DEF On
      <4>1. node[n].kind = "attribute" /\ node[n].parent = x /\ x # Null
        BY <2>1 DEF HomeOf
      <4> QED  BY <2>3, <4>1 DEF Lawful, Fits, Is
    <3> QED  BY <2>1, <3>1, EmptyList
  <2>4. ASSUME ~Is(x, "document") PROVE node[x].first["detached"] = Null
    <3>1. On(node, x, "detached") = {}
      <4> SUFFICES ASSUME NEW n \in Node, HomeOf(node, n) = <<x, "detached">>,
                          node[n].kind # "absent"
                   PROVE  FALSE
        BY DEF On
      <4>1. node[n].document = x
        BY DEF HomeOf
      <4> QED  BY <2>4, <4>1 DEF Lawful, Fits, Is
    <3> QED  BY <2>1, <3>1, EmptyList
  <2> QED  BY <2>2, <2>3, <2>4
<1> QED  BY <1>1, <1>2 DEF TypeOK

\* The parts of a list's name.
LEMMA ListNames ==
  ASSUME NEW l \in Lists
  PROVE  l[1] \in Nodes /\ l[2] \in List /\ l = <<l[1], l[2]>>
BY DEF Lists, Nodes, List

\* A walk over a list meets the nodes that are on it.
LEMMA LawfulHomes == Lawful(node) => OnOneList
<1> SUFFICES ASSUME Lawful(node) PROVE OnOneList
  OBVIOUS
<1> DEFINE home(n) == IF node[n].parent = Null THEN <<node[n].document, "detached">>
                      ELSE IF Is(n, "attribute") THEN <<node[n].parent, "attributes">>
                                                 ELSE <<node[n].parent, "children">>
<1>1. ASSUME NEW l \in Lists, NEW s, s = Members(node, l[1], l[2])
      PROVE  /\ Range(s) = {n \in Existing : home(n) = l}
             /\ Len(s) = Cardinality(Range(s))
  <2>1. l[1] \in Nodes /\ l[2] \in List /\ l = <<l[1], l[2]>>
    BY ListNames
  <2>2. node \in Heaps /\ IsList(On(node, l[1], l[2]), node, l[1], l[2])
    BY <2>1, AllLists
  <2>3. /\ s \in Seq(Node) /\ Len(s) = Cardinality(On(node, l[1], l[2]))
        /\ {s[i] : i \in 1 .. Len(s)} = On(node, l[1], l[2])
    BY <1>1, <2>1, <2>2, MembersAre
  <2>4. Range(s) = On(node, l[1], l[2])
    BY <2>3 DEF Range
  <2>5. On(node, l[1], l[2]) = {n \in Existing : home(n) = l}
    BY <2>1 DEF On, HomeOf, Existing, Is
  <2> QED  BY <2>3, <2>4, <2>5
<1> QED  BY <1>1 DEF OnOneList

\* And reads the same backwards.
LEMMA LawfulBackwards == Lawful(node) => ListsReadBackwards
<1> SUFFICES ASSUME Lawful(node) PROVE ListsReadBackwards
  OBVIOUS
<1>1. ASSUME NEW l \in Lists, NEW s, s = Members(node, l[1], l[2])
      PROVE  /\ node[l[1]].last[l[2]] = IF s = <<>> THEN Null ELSE Last(s)
             /\ \A k \in DOMAIN s : node[s[k]].previous = IF k = 1 THEN Null ELSE s[k - 1]
  <2>1. l[1] \in Nodes /\ l[2] \in List
    BY ListNames
  <2>2. node \in Heaps /\ IsList(On(node, l[1], l[2]), node, l[1], l[2])
    BY <2>1, AllLists
  <2>3. /\ s \in Seq(Node)
        /\ node[l[1]].last[l[2]] = IF s = <<>> THEN Null ELSE Last(s)
        /\ \A k \in 1 .. Len(s) : node[s[k]].previous = IF k = 1 THEN Null ELSE s[k - 1]
    BY <1>1, <2>1, <2>2, MembersAre
  <2> QED  BY <2>3
<1> QED  BY <1>1 DEF ListsReadBackwards

\* Names are unique.
LEMMA LawfulNames == Lawful(node) => AttributesAreUnique
BY DEF Lawful, Unique, AttributesAreUnique, Existing, Is

-----------------------------------------------------------------------------
(***************************************************************************)
(* The program's calls.                                                    *)
(***************************************************************************)

\* Nodes remain of the kind they were made.
Grows(g, h) == \A x \in Nodes : h[x].kind # "absent" => g[x].kind = h[x].kind

\* Whatever keeps the nature keeps the kinds.
LEMMA NatureGrows ==
  ASSUME NEW g, NEW h, SameNature(g, h)
  PROVE  Grows(g, h)
BY DEF SameNature, Grows

\* A new document has no lists yet.
LEMMA CreateDocumentLawful ==
  ASSUME Lawful(node), NEW d \in Document, CreateDocument(d)
  PROVE  Lawful(node') /\ Grows(node', node) /\ node'[d].kind = "document"
<1> DEFINE r == [node[d] EXCEPT !.kind = "document", !.document = d]
           g == node'
<1>1. d \in Nodes /\ d \notin Node /\ node \in Heaps /\ node[d] \in Nodal
  BY DomAssumption DEF Nodes, Lawful, Heaps
<1>2. g = [node EXCEPT ![d] = r]
  BY <1>1 DEF CreateDocument, Heaps
<1>3. /\ r \in Nodal /\ r.kind = "document" /\ r.document = d
      /\ r.first = node[d].first /\ r.last = node[d].last
  BY <1>1 DEF Nodal
<1> HIDE DEF r
<1>4. g \in Heaps /\ \A x \in Nodes : g[x] = IF x = d THEN r ELSE node[x]
  BY <1>1, <1>2, <1>3 DEF Heaps
<1> HIDE DEF g
<1>5. \A x \in Node : g[x] = node[x]
  BY <1>1, <1>4 DEF Nodes
<1>6. Chained(g, {})
  <2>1. ASSUME NEW o \in Nodes, NEW l \in List PROVE IsList(On(g, o, l) \ {}, g, o, l)
    <3>1. On(g, o, l) \ {} = On(node, o, l) /\ On(node, o, l) \in SUBSET Node
      BY <1>5 DEF On, HomeOf
    <3>2. IsList(On(node, o, l), node, o, l)
      BY AllLists
    <3>3. g[o].first[l] = node[o].first[l] /\ g[o].last[l] = node[o].last[l]
      BY <1>3, <1>4
    <3>4. \A x \in On(node, o, l) : g[x].previous = node[x].previous /\ g[x].next = node[x].next
      BY <1>5, <3>1
    <3> QED  BY <3>1, <3>2, <3>3, <3>4, ListStays
  <2> QED  BY <2>1 DEF Chained
<1>7. Fits(g)
  <2>1. \A e \in Document : \/ g[e].kind = "absent" /\ g[e].document = Null
                            \/ g[e].kind = "document" /\ g[e].document = e
    BY <1>3, <1>4 DEF Lawful, Fits, Nodes
  <2>2. ASSUME NEW n \in Node
        PROVE  \/ g[n].kind = "absent" /\ g[n].document = Null /\ g[n].parent = Null
               \/ /\ g[n].kind \in {"element", "attribute", "text"}
                  /\ g[n].document \in Document /\ g[g[n].document].kind = "document"
                  /\ g[n].kind = "attribute" /\ g[n].parent # Null =>
                       g[n].parent \in Node /\ g[g[n].parent].kind = "element"
    <3>1. \A e \in Document : node[e].kind = "document" => g[e].kind = "document"
      BY <1>3, <1>4 DEF Nodes
    <3> QED  BY <1>5, <3>1 DEF Lawful, Fits
  <2> QED  BY <2>1, <2>2 DEF Fits
<1>8. Unique(g)
  BY <1>5 DEF Lawful, Unique
<1>9. Grows(g, node) /\ g[d].kind = "document"
  BY <1>1, <1>3, <1>4 DEF Grows, CreateDocument, Is
<1> QED  BY <1>4, <1>6, <1>7, <1>8, <1>9 DEF Lawful, g

\* Lawful nodes stay lawful, if no attribute is removed as a child.
LEMMA ProgramStep ==
  ASSUME Lawful(node), ~RemovesAttributes, Next
  PROVE  Lawful(node') /\ Grows(node', node)
<1>0. /\ Node \subseteq Nodes /\ Document \subseteq Nodes /\ Null \notin Nodes
      /\ \A n \in Node : node[n].kind = "absent" => node[n].parent = Null
      /\ \A n \in Node : node[n].kind # "document"
  BY DomAssumption DEF Nodes, Lawful, Fits
<1>1. CASE \E d \in Document : CreateDocument(d)
  BY <1>1, CreateDocumentLawful
<1>2. CASE \E d \in Document, n \in Node : CreateElement(n, d)
  <2> PICK d \in Document, n \in Node : CreateElement(n, d)
    BY <1>2
  <2> DEFINE g == node'
             kind == "element"
             name == Null
  <2>1. /\ node[n].kind = "absent" /\ node[d].kind = "document"
        /\ g = Created(node, n, kind, name, d)
        /\ kind \in {"element", "attribute", "text"} /\ name \in Name \cup {Null}
    BY DEF CreateElement, MayCreate, Is
  <2> HIDE DEF g, kind, name
  <2>2. Lawful(g) /\ \A x \in Nodes \ {n} : g[x].kind = node[x].kind
    BY <2>1, Creates
  <2>3. Grows(g, node)
    BY <2>1, <2>2 DEF Grows
  <2> QED  BY <2>2, <2>3 DEF g
<1>3. CASE \E d \in Document, n \in Node : CreateTextNode(n, d)
  <2> PICK d \in Document, n \in Node : CreateTextNode(n, d)
    BY <1>3
  <2> DEFINE g == node'
             kind == "text"
             name == Null
  <2>1. /\ node[n].kind = "absent" /\ node[d].kind = "document"
        /\ g = Created(node, n, kind, name, d)
        /\ kind \in {"element", "attribute", "text"} /\ name \in Name \cup {Null}
    BY DEF CreateTextNode, MayCreate, Is
  <2> HIDE DEF g, kind, name
  <2>2. Lawful(g) /\ \A x \in Nodes \ {n} : g[x].kind = node[x].kind
    BY <2>1, Creates
  <2>3. Grows(g, node)
    BY <2>1, <2>2 DEF Grows
  <2> QED  BY <2>2, <2>3 DEF g
<1>4. CASE \E d \in Document, n \in Node, name \in Name : CreateAttribute(n, d, name)
  <2> PICK d \in Document, n \in Node, name \in Name : CreateAttribute(n, d, name)
    BY <1>4
  <2> DEFINE g == node'
             kind == "attribute"
  <2>1. /\ node[n].kind = "absent" /\ node[d].kind = "document"
        /\ g = Created(node, n, kind, name, d)
        /\ kind \in {"element", "attribute", "text"} /\ name \in Name \cup {Null}
    BY DEF CreateAttribute, MayCreate, Is
  <2> HIDE DEF g, kind
  <2>2. Lawful(g) /\ \A x \in Nodes \ {n} : g[x].kind = node[x].kind
    BY <2>1, Creates
  <2>3. Grows(g, node)
    BY <2>1, <2>2 DEF Grows
  <2> QED  BY <2>2, <2>3 DEF g
<1>5. CASE \E p \in Nodes, n \in Node : AppendChild(p, n)
  <2> PICK p \in Nodes, n \in Node : AppendChild(p, n)
    BY <1>5
  <2>1. node[n].kind \notin {"absent", "attribute"} /\ node' = Appended(node, p, n)
    BY DEF AppendChild, Is
  <2>2. Lawful(node') /\ SameNature(node', node)
    BY <2>1, Appends
  <2> QED  BY <2>2, NatureGrows
<1>6. CASE \E p \in Nodes, n \in Node : RemoveChild(p, n)
  <2> PICK p \in Nodes, n \in Node : RemoveChild(p, n)
    BY <1>6
  <2>1. /\ node[n].kind \notin {"absent", "attribute"} /\ node[n].parent # Null
        /\ node' = Detached(node, n)
    BY <1>0 DEF RemoveChild, Is
  <2>2. Lawful(node') /\ SameNature(node', node)
    BY <2>1, Detaches
  <2> QED  BY <2>2, NatureGrows
<1>7. CASE \E e, a \in Node : SetAttributeNodeNS(e, a)
  <2> PICK e \in Node, a \in Node : SetAttributeNodeNS(e, a)
    BY <1>7
  <2>1. /\ node[e].kind = "element" /\ node[a].kind = "attribute" /\ node[a].parent = Null
        /\ node' = Attributed(node, e, a)
    BY DEF SetAttributeNodeNS, Is
  <2>2. Lawful(node') /\ SameNature(node', node)
    BY <2>1, Attributes
  <2> QED  BY <2>2, NatureGrows
<1>8. CASE \E a, t \in Node : SetValue(a, t)
  <2> PICK a \in Node, t \in Node : SetValue(a, t)
    BY <1>8
  <2>1. /\ node[a].kind = "attribute" /\ node[t].kind = "absent"
        /\ node' = Valued(node, a, t)
    BY DEF SetValue, Is
  <2>2. Lawful(node') /\ \A x \in Nodes \ {t} : node'[x].kind = node[x].kind
    BY <2>1, Values
  <2> QED  BY <2>1, <2>2 DEF Grows
<1> QED  BY <1>1, <1>2, <1>3, <1>4, <1>5, <1>6, <1>7, <1>8 DEF Next

-----------------------------------------------------------------------------
(***************************************************************************)
(* The builder.                                                            *)
(***************************************************************************)

Builders == [document: Document \cup {Null}, current: Nodes \cup {Null},
             parent: Nodes \cup {Null}, stack: Seq(Nodes \cup {Null}), attributes: Seq(Name)]

\* What the builder's components are to the nodes.
BuilderFits ==
  /\ builder \in Builders
  /\ builder.document # Null => Is(builder.document, "document")
  /\ builder.document = Null =>
       builder.current = Null /\ builder.parent = Null /\ builder.stack = <<>>
  /\ ~Ready => builder.current \in Node /\ Is(builder.current, "element")

BuilderInv == Lawful(node) /\ BuilderFits

\* Nothing is there at first.
LEMMA BuilderStarts == BuilderInit => BuilderInv
<1> SUFFICES ASSUME BuilderInit PROVE BuilderInv
  OBVIOUS
<1>1. Absent \in Nodal /\ \A l \in List : Absent.first[l] = Null /\ Absent.last[l] = Null
  <2>1. [l \in List |-> Null] \in [List -> Link] /\ Null \in Link
    BY DEF Link
  <2> QED  BY <2>1 DEF Absent, Nodal
<1>2. node \in Heaps /\ \A x \in Nodes : node[x] = Absent
  BY <1>1 DEF BuilderInit, Init, Heaps
<1>3. \A x \in Nodes : node[x].kind = "absent" /\ node[x].document = Null /\ node[x].parent = Null
  BY <1>2 DEF Absent
<1>4. Chained(node, {})
  <2>1. ASSUME NEW o \in Nodes, NEW l \in List PROVE IsList(On(node, o, l) \ {}, node, o, l)
    <3> DEFINE S == On(node, o, l) \ {}
               rank == [n \in Node |-> 0]
    <3>1. S = {} /\ rank \in [Node -> Int]
      BY <1>3 DEF On, Nodes
    <3>2. node[o].first[l] = Null /\ node[o].last[l] = Null
      BY <1>1, <1>2
    <3> HIDE DEF S, rank
    <3>3. InOrder(S, rank, node, node[o].first[l], node[o].last[l], Null)
      BY <3>1, <3>2 DEF InOrder
    <3>4. IsList(S, node, o, l)
      BY <3>1, <3>3 DEF IsList
    <3> QED  BY <3>4 DEF S
  <2> QED  BY <2>1 DEF Chained
<1>5. Fits(node) /\ Unique(node)
  BY <1>3 DEF Fits, Unique, Nodes
<1>6. BuilderFits
  BY DEF BuilderInit, BuilderFits, Builders, Ready
<1> QED  BY <1>2, <1>4, <1>5, <1>6 DEF BuilderInv, Lawful

\* The builder still fits nodes that grow.
LEMMA StillFits ==
  ASSUME BuilderFits, Grows(node', node), UNCHANGED builder
  PROVE  BuilderFits'
<1>1. Document \subseteq Nodes /\ Node \subseteq Nodes
  BY DEF Nodes
<1>2. \A x \in Nodes : \A k : k # "absent" /\ Is(x, k) => Is(x, k)'
  BY DEF Grows, Is
<1>3. builder' \in Builders /\ builder' = builder /\ (Ready' <=> Ready)
  BY DEF BuilderFits, Ready
<1>4. builder.document # Null => Is(builder.document, "document")'
  BY <1>1, <1>2 DEF BuilderFits, Builders
<1>5. ~Ready => builder.current \in Node /\ Is(builder.current, "element")'
  BY <1>1, <1>2 DEF BuilderFits
<1> QED  BY <1>3, <1>4, <1>5 DEF BuilderFits, Is

\* A document, for the next reading or of it.
LEMMA DocumentsKeep ==
  ASSUME BuilderInv, StartDocument \/ \E d \in Document : SetDocument(d)
  PROVE  BuilderInv'
<1>1. /\ builder \in Builders /\ Null \notin Nodes /\ Document \subseteq Nodes
      /\ \A d \in Document : d # Null
  BY DomAssumption DEF BuilderInv, BuilderFits, Nodes
<1>2. CASE \E d \in Document : SetDocument(d)
  <2> PICK d \in Document : SetDocument(d)
    BY <1>2
  <2>1. /\ builder' \in Builders /\ builder'.document = d /\ builder'.current = builder.current
        /\ builder'.attributes = builder.attributes /\ node' = node /\ Is(d, "document")
    BY <1>1 DEF SetDocument, Builders
  <2>2. BuilderFits'
    BY <1>1, <2>1 DEF BuilderInv, BuilderFits, Ready, Is
  <2> QED  BY <2>1, <2>2 DEF BuilderInv
<1>3. CASE Ready /\ builder.document = Null /\ \E d \in Document :
             CreateDocument(d) /\ builder' = [builder EXCEPT !.document = d, !.current = d]
  <2> PICK d \in Document :
             CreateDocument(d) /\ builder' = [builder EXCEPT !.document = d, !.current = d]
    BY <1>3
  <2>1. Lawful(node') /\ node'[d].kind = "document"
    BY CreateDocumentLawful DEF BuilderInv
  <2>2. /\ builder' \in Builders /\ builder'.document = d
        /\ builder'.attributes = builder.attributes
    BY <1>1 DEF Builders
  <2>3. BuilderFits'
    BY <1>1, <1>3, <2>1, <2>2 DEF BuilderFits, Ready, Is
  <2> QED  BY <2>1, <2>3 DEF BuilderInv
<1>4. CASE /\ Ready /\ builder.document # Null
           /\ builder' = [builder EXCEPT !.current = builder.document] /\ UNCHANGED node
  <2>1. /\ builder' \in Builders /\ builder'.document = builder.document
        /\ builder'.attributes = builder.attributes
    BY <1>1, <1>4 DEF Builders
  <2>2. BuilderFits'
    BY <1>1, <1>4, <2>1 DEF BuilderInv, BuilderFits, Ready, Is
  <2> QED  BY <1>4, <2>2 DEF BuilderInv
<1> QED  BY <1>2, <1>3, <1>4 DEF StartDocument

\* A new node for the document that is read.
LEMMA Reads ==
  ASSUME BuilderInv, builder.current # Null, NEW n \in Node, Is(n, "absent"),
         NEW kind \in {"element", "attribute", "text"}, NEW name \in Name \cup {Null},
         NEW g, g = Created(node, n, kind, name, builder.document)
  PROVE  /\ Lawful(g) /\ g[n].kind = kind /\ g[n].parent = Null
         /\ \A x \in Nodes \ {n} : g[x].kind = node[x].kind
<1> DEFINE d == builder.document
<1>1. d \in Document /\ node[d].kind = "document" /\ node[n].kind = "absent"
  BY DEF BuilderInv, BuilderFits, Builders, Is
<1>2. g = Created(node, n, kind, name, d) /\ Lawful(node)
  BY DEF BuilderInv
<1> HIDE DEF d
<1> QED  BY <1>1, <1>2, Creates

\* The element that starts is a child of the one that was open.
LEMMA StartElementKeeps ==
  ASSUME BuilderInv, NEW n \in Node, NEW names \in BoundedSeq(Name, MaxAttributes),
         StartElement(n, names)
  PROVE  BuilderInv'
<1> DEFINE m == Created(node, n, "element", Null, builder.document)
           b == [Pushed(builder) EXCEPT !.current = n, !.attributes = names]
           kind == "element"
           name == Null
<1>1. /\ builder \in Builders /\ builder.current \in Nodes /\ builder.current # Null
      /\ Is(n, "absent") /\ n \in Nodes
      /\ kind \in {"element", "attribute", "text"} /\ name \in Name \cup {Null}
  BY DEF BuilderInv, BuilderFits, Builders, StartElement, Nodes
<1>2. names \in Seq(Name)
  BY BoundAssumption DEF BoundedSeq, SeqOf
<1>3. /\ b \in Builders /\ b.document = builder.document /\ b.parent = builder.current
      /\ b.current = n /\ b.attributes = names
  <2>1. Append(builder.stack, builder.parent) \in Seq(Nodes \cup {Null})
    BY <1>1 DEF Builders
  <2> QED  BY <1>1, <1>2, <2>1 DEF Pushed, Builders
<1>4. builder' = b /\ node' = Appended(m, builder.current, n)
  BY <1>3 DEF StartElement
<1>5. Lawful(m) /\ m[n].kind = "element" /\ \A x \in Nodes \ {n} : m[x].kind = node[x].kind
  <2> DEFINE c == Created(node, n, kind, name, builder.document)
  <2>1. c = m
    OBVIOUS
  <2> HIDE DEF c, m, kind, name
  <2>2. /\ Lawful(c) /\ c[n].kind = kind /\ c[n].parent = Null
        /\ \A x \in Nodes \ {n} : c[x].kind = node[x].kind
    BY <1>1, Reads DEF c
  <2> QED  BY <2>1, <2>2 DEF kind
<1> HIDE DEF m, b, kind, name
<1>6. Lawful(node') /\ SameNature(node', m)
  BY <1>1, <1>4, <1>5, Appends
<1>7. builder.document \in Document /\ node[builder.document].kind = "document"
  BY <1>1 DEF BuilderInv, BuilderFits, Builders, Is
<1>8. node'[n].kind = "element" /\ node'[builder.document].kind = "document"
  <2>1. builder.document \in Nodes \ {n}
    BY <1>7, DomAssumption DEF Nodes
  <2> QED  BY <1>1, <1>5, <1>6, <1>7, <2>1 DEF SameNature
<1>9. builder.document # Null
  BY <1>7, DomAssumption
<1>10. BuilderFits'
  BY <1>3, <1>4, <1>8, <1>9 DEF BuilderFits, Is
<1> QED  BY <1>6, <1>10 DEF BuilderInv

\* An attribute that is read is one of the element that started.
LEMMA ProcessAttributeKeeps ==
  ASSUME BuilderInv, NEW a \in Node, NEW t \in Node, ProcessAttribute(a, t)
  PROVE  BuilderInv'
<1> DEFINE name == Head(builder.attributes)
           kind == "attribute"
           e == builder.current
           m == Created(node, a, kind, name, builder.document)
           g == Attributed(m, e, a)
<1>1. /\ builder \in Builders /\ e \in Node /\ Is(e, "element") /\ e # Null
      /\ Is(a, "absent") /\ Is(t, "absent") /\ a # t /\ builder.attributes # <<>>
      /\ a \in Nodes /\ t \in Nodes /\ e \in Nodes /\ e # a /\ e # t
      /\ builder.document \in Nodes /\ builder.document \notin Node
      /\ node[builder.document].kind = "document" /\ builder.document # Null
  BY DomAssumption DEF BuilderInv, BuilderFits, Builders, ProcessAttribute, Ready, Nodes, Is
<1>2. /\ kind \in {"element", "attribute", "text"} /\ name \in Name \cup {Null}
      /\ Tail(builder.attributes) \in Seq(Name)
  BY <1>1 DEF Builders
<1>3. /\ node' = Valued(g, a, t)
      /\ builder' = [builder EXCEPT !.attributes = Tail(@)]
  BY DEF ProcessAttribute
<1>4. /\ Lawful(m) /\ m[a].kind = kind /\ m[a].parent = Null
      /\ \A x \in Nodes \ {a} : m[x].kind = node[x].kind
  <2> HIDE DEF name, kind, m
  <2> QED  BY <1>1, <1>2, Reads DEF m, e
<1> HIDE DEF m, name, e
<1>5. m[e].kind = "element" /\ m[t].kind = "absent" /\ m[a].kind = "attribute"
  BY <1>1, <1>4 DEF Is
<1>6. Lawful(g) /\ SameNature(g, m)
  BY <1>1, <1>4, <1>5, Attributes
<1>7. g[a].kind = "attribute" /\ g[t].kind = "absent"
  BY <1>1, <1>5, <1>6 DEF SameNature
<1> HIDE DEF g
<1>8. Lawful(node') /\ \A x \in Nodes \ {t} : node'[x].kind = g[x].kind
  BY <1>3, <1>6, <1>7, Values
<1>9. node'[e].kind = "element" /\ node'[builder.document].kind = "document"
  <2>1. builder.document # t /\ builder.document # a
    BY <1>1
  <2> QED  BY <1>1, <1>4, <1>5, <1>6, <1>8, <2>1 DEF SameNature
<1>10. /\ builder' \in Builders /\ builder'.document = builder.document
       /\ builder'.current = e
  BY <1>1, <1>2, <1>3 DEF Builders, e
<1>11. BuilderFits'
  BY <1>1, <1>9, <1>10 DEF BuilderFits, Is
<1> QED  BY <1>8, <1>11 DEF BuilderInv

\* A text that is read is a child of the open element.
LEMMA CharactersKeeps ==
  ASSUME BuilderInv, NEW n \in Node, Characters(n)
  PROVE  BuilderInv'
<1> DEFINE kind == "text"
           name == Null
           m == Created(node, n, kind, name, builder.document)
<1>1. /\ builder.current \in Nodes /\ builder.current # Null /\ Is(n, "absent") /\ n \in Nodes
      /\ kind \in {"element", "attribute", "text"} /\ name \in Name \cup {Null}
  BY DomAssumption DEF Characters, Nodes
<1>2. node' = Appended(m, builder.current, n) /\ UNCHANGED builder
  BY DEF Characters
<1>3. /\ Lawful(m) /\ m[n].kind = kind /\ m[n].parent = Null
      /\ \A x \in Nodes \ {n} : m[x].kind = node[x].kind
  <2> HIDE DEF name, kind, m
  <2> QED  BY <1>1, Reads DEF m
<1> HIDE DEF m
<1>4. Lawful(node') /\ SameNature(node', m)
  BY <1>1, <1>2, <1>3, Appends
<1>5. Grows(node', node)
  BY <1>1, <1>3, <1>4 DEF Grows, SameNature, Is
<1> QED  BY <1>2, <1>4, <1>5, StillFits DEF BuilderInv

\* An element that ends gives way to the one around it.
LEMMA EndElementKeeps ==
  ASSUME BuilderInv, EndElement
  PROVE  BuilderInv'
<1>1. /\ builder \in Builders /\ Ready /\ node' = node /\ builder' = Popped(builder)
      /\ builder.document # Null
  BY DomAssumption DEF BuilderInv, BuilderFits, EndElement
<1>2. /\ builder' \in Builders /\ builder'.document = builder.document
      /\ builder'.attributes = builder.attributes
  <2>1. CASE builder.stack = <<>>
    BY <1>1, <2>1 DEF Popped, Builders
  <2>2. CASE builder.stack # <<>>
    <3> DEFINE s == builder.stack
               R == Nodes \cup {Null}
    <3>1. s \in Seq(R) /\ s # <<>>
      BY <1>1, <2>2 DEF Builders
    <3> HIDE DEF s, R
    <3>2. Last(s) \in R /\ Front(s) \in Seq(R)
      BY <3>1 DEF Last, Front
    <3> QED  BY <1>1, <2>2, <3>2 DEF Popped, Builders, s, R
  <2> QED  BY <2>1, <2>2
<1>3. BuilderFits'
  BY <1>1, <1>2 DEF BuilderInv, BuilderFits, Ready, Is
<1> QED  BY <1>1, <1>3 DEF BuilderInv

\* Every step keeps the invariant.
LEMMA BuilderStep ==
  ASSUME ~RemovesAttributes, BuilderInv, [Reading \/ Editing]_vars
  PROVE  BuilderInv'
<1>1. CASE Editing
  BY <1>1, ProgramStep, StillFits DEF Editing, BuilderInv
<1>2. CASE Reading
  BY <1>2, DocumentsKeep, StartElementKeeps, ProcessAttributeKeeps, CharactersKeeps,
     EndElementKeeps DEF Reading
<1>3. CASE UNCHANGED vars
  <2>1. node' = node /\ builder' = builder
    BY <1>3 DEF vars
  <2> QED  BY <2>1 DEF BuilderInv, BuilderFits, Is, Ready
<1> QED  BY <1>1, <1>2, <1>3

-----------------------------------------------------------------------------
(***************************************************************************)
(* Sequences without repetitions, and what RemoveFirst makes of them.      *)
(***************************************************************************)

NodesOf(s) == {s[i] : i \in 1 .. Len(s)}
Distinct(s) == s \in Seq(Node) /\ \A i, j \in 1 .. Len(s) : s[i] = s[j] => i = j
Rid(s, n) == Forest!RemoveFirst(s, n)

\* A node that is not there is not removed.
LEMMA RidOfNone ==
  ASSUME NEW s, NEW n, n \notin NodesOf(s)
  PROVE  Rid(s, n) = s
BY DEF NodesOf, Rid, Forest!RemoveFirst

\* What is left is what comes before and what comes after.
LEMMA RidOfOne ==
  ASSUME NEW s, Distinct(s), NEW k \in 1 .. Len(s), NEW n, n = s[k]
  PROVE  /\ Rid(s, n) \in Seq(Node) /\ Len(Rid(s, n)) = Len(s) - 1
         /\ \A i \in 1 .. Len(s) - 1 : Rid(s, n)[i] = IF i < k THEN s[i] ELSE s[i + 1]
<1>1. s \in Seq(Node) /\ Len(s) \in Nat /\ {i \in 1 .. Len(s) : s[i] = n} = {k}
  BY DEF Distinct
<1>2. Forest!Min({k}) = k
  BY <1>1 DEF Forest!Min
<1>3. Forest!SelectInSeq(s, LAMBDA v : v = n) = k
  BY <1>1, <1>2 DEF Forest!SelectInSeq
<1>4. Rid(s, n) = SubSeq(s, 1, k - 1) \o SubSeq(s, k + 1, Len(s))
  BY <1>3 DEF Rid, Forest!RemoveFirst, Forest!RemoveAt
<1> DEFINE u == SubSeq(s, 1, k - 1)
           v == SubSeq(s, k + 1, Len(s))
<1>5. /\ u \in Seq(Node) /\ Len(u) = k - 1
      /\ \A i \in 1 .. k - 1 : u[i] = s[i]
  BY <1>1
<1>6. /\ v \in Seq(Node) /\ Len(v) = Len(s) - k
      /\ \A i \in 1 .. Len(s) - k : v[i] = s[k + i]
  BY <1>1
<1> HIDE DEF u, v
<1>7. u \o v \in Seq(Node) /\ Len(u \o v) = Len(s) - 1
  <2>0. u \in Seq(Node) /\ v \in Seq(Node)
    BY <1>5, <1>6
  <2>1. u \o v \in Seq(Node) /\ Len(u \o v) = Len(u) + Len(v)
    BY ONLY <2>0
  <2> QED  BY <1>1, <1>5, <1>6, <2>1
<1>8. ASSUME NEW i \in 1 .. Len(s) - 1
      PROVE  (u \o v)[i] = IF i < k THEN s[i] ELSE s[i + 1]
  <2>1. CASE i < k
    BY <1>1, <1>5, <1>6, <2>1
  <2>2. CASE ~(i < k)
    <3>1. (u \o v)[i] = v[i - (k - 1)] /\ i - (k - 1) \in 1 .. Len(s) - k
      BY <1>1, <1>5, <1>6, <2>2
    <3>2. v[i - (k - 1)] = s[k + (i - (k - 1))] /\ k + (i - (k - 1)) = i + 1
      BY <1>1, <1>6, <3>1
    <3> QED  BY <2>2, <3>1, <3>2
  <2> QED  BY <2>1, <2>2
<1> QED  BY <1>4, <1>7, <1>8 DEF u, v

\* Either way the node is not there any more, and the others are.
LEMMA RidLeaves ==
  ASSUME NEW s, Distinct(s), NEW n
  PROVE  Distinct(Rid(s, n)) /\ NodesOf(Rid(s, n)) = NodesOf(s) \ {n}
<1>0. s \in Seq(Node) /\ Len(s) \in Nat /\ \A i, j \in 1 .. Len(s) : s[i] = s[j] => i = j
  BY DEF Distinct
<1>1. CASE n \notin NodesOf(s)
  BY <1>1, RidOfNone
<1>2. CASE n \in NodesOf(s)
  <2> PICK k \in 1 .. Len(s) : n = s[k]
    BY <1>2 DEF NodesOf
  <2> DEFINE t == Rid(s, n)
             m == Len(s) - 1
  <2>1. /\ t \in Seq(Node) /\ Len(t) = m /\ m \in Nat
        /\ \A i \in 1 .. m : t[i] = IF i < k THEN s[i] ELSE s[i + 1]
    BY <1>0, RidOfOne
  <2> HIDE DEF t
  <2>2. Distinct(t)
    <3>1. ASSUME NEW i \in 1 .. m, NEW j \in 1 .. m, t[i] = t[j] PROVE i = j
      BY <1>0, <2>1, <3>1
    <3> QED  BY <2>1, <3>1 DEF Distinct
  <2>3. ASSUME NEW i \in 1 .. m PROVE t[i] \in NodesOf(s) \ {n}
    BY <1>0, <2>1 DEF NodesOf
  <2>4. ASSUME NEW x \in NodesOf(s) \ {n} PROVE x \in NodesOf(t)
    <3>1. PICK j \in 1 .. Len(s) : x = s[j]
      BY DEF NodesOf
    <3>2. CASE j < k
      <4>1. j \in 1 .. m /\ t[j] = s[j]
        BY <1>0, <2>1, <3>2
      <4> QED  BY <2>1, <3>1, <4>1 DEF NodesOf
    <3>3. CASE k < j
      <4>1. j - 1 \in 1 .. m /\ t[j - 1] = s[j]
        BY <1>0, <2>1, <3>3
      <4> QED  BY <2>1, <3>1, <4>1 DEF NodesOf
    <3> QED  BY <1>0, <3>1, <3>2, <3>3
  <2>5. NodesOf(t) = NodesOf(s) \ {n}
    <3>1. \A x \in NodesOf(t) : x \in NodesOf(s) \ {n}
      BY <2>1, <2>3 DEF NodesOf
    <3> QED  BY <2>4, <3>1
  <2> QED  BY <2>2, <2>5 DEF t
<1> QED  BY <1>1, <1>2

\* A node at the end.
LEMMA Ending ==
  ASSUME NEW s, Distinct(s), NEW n \in Node, n \notin NodesOf(s)
  PROVE  /\ Distinct(Append(s, n)) /\ NodesOf(Append(s, n)) = NodesOf(s) \cup {n}
         /\ Rid(Append(s, n), n) = s
<1>0. s \in Seq(Node) /\ Len(s) \in Nat /\ \A i, j \in 1 .. Len(s) : s[i] = s[j] => i = j
  BY DEF Distinct
<1> DEFINE t == Append(s, n)
           m == Len(s) + 1
<1>1. /\ t \in Seq(Node) /\ Len(t) = m /\ t[m] = n
      /\ \A i \in 1 .. Len(s) : t[i] = s[i]
  BY <1>0
<1> HIDE DEF t
<1>2. Distinct(t)
  <2>1. ASSUME NEW i \in 1 .. m, NEW j \in 1 .. m, t[i] = t[j] PROVE i = j
    BY <1>0, <1>1, <2>1 DEF NodesOf
  <2> QED  BY <1>1, <2>1 DEF Distinct
<1>3. NodesOf(t) = NodesOf(s) \cup {n}
  <2>1. \A i \in 1 .. m : i \in 1 .. Len(s) \/ i = m
    BY <1>0
  <2>2. m \in 1 .. m /\ \A i \in 1 .. Len(s) : i \in 1 .. m
    BY <1>0
  <2> QED  BY <1>1, <2>1, <2>2 DEF NodesOf
<1>4. Rid(t, n) = s
  <2> DEFINE r == Rid(t, n)
  <2>1. m \in 1 .. Len(t)
    BY <1>0, <1>1
  <2>2. /\ r \in Seq(Node) /\ Len(r) = Len(t) - 1
        /\ \A i \in 1 .. Len(t) - 1 : r[i] = IF i < m THEN t[i] ELSE t[i + 1]
    BY <1>1, <1>2, <2>1, RidOfOne
  <2> HIDE DEF r
  <2>3. Len(r) = Len(s) /\ \A i \in 1 .. Len(s) : r[i] = s[i]
    BY <1>0, <1>1, <2>2
  <2>4. r = s
    BY <1>0, <2>2, <2>3
  <2> QED  BY <2>4 DEF r
<1> QED  BY <1>2, <1>3, <1>4 DEF t

\* Two nodes may be removed in either order.
LEMMA RidOfLast ==
  ASSUME NEW s, Distinct(s), NEW x \in Node, x \notin NodesOf(s), NEW n, n # x
  PROVE  Rid(Append(s, x), n) = Append(Rid(s, n), x)
<1>0. s \in Seq(Node) /\ Len(s) \in Nat
  BY DEF Distinct
<1>1. Distinct(Append(s, x)) /\ NodesOf(Append(s, x)) = NodesOf(s) \cup {x}
  BY Ending
<1>2. CASE n \notin NodesOf(s)
  <2>1. n \notin NodesOf(Append(s, x))
    BY <1>1, <1>2
  <2>2. Rid(s, n) = s /\ Rid(Append(s, x), n) = Append(s, x)
    BY <1>2, <2>1, RidOfNone
  <2> QED  BY <2>2
<1>3. CASE n \in NodesOf(s)
  <2> PICK k \in 1 .. Len(s) : n = s[k]
    BY <1>3 DEF NodesOf
  <2> DEFINE t == Append(s, x)
             u == Rid(t, n)
             v == Rid(s, n)
             w == Append(v, x)
  <2>1. t \in Seq(Node) /\ Len(t) = Len(s) + 1 /\ t[Len(s) + 1] = x /\ \A i \in 1 .. Len(s) : t[i] = s[i]
    BY <1>0
  <2>2. k \in 1 .. Len(t) /\ n = t[k] /\ Distinct(t)
    BY <1>0, <1>1, <2>1
  <2> HIDE DEF t
  <2>3. /\ u \in Seq(Node) /\ Len(u) = Len(t) - 1
        /\ \A i \in 1 .. Len(t) - 1 : u[i] = IF i < k THEN t[i] ELSE t[i + 1]
    BY <2>2, RidOfOne
  <2>4. /\ v \in Seq(Node) /\ Len(v) = Len(s) - 1
        /\ \A i \in 1 .. Len(s) - 1 : v[i] = IF i < k THEN s[i] ELSE s[i + 1]
    BY RidOfOne
  <2> HIDE DEF u, v
  <2>5. /\ w \in Seq(Node) /\ Len(w) = Len(s) /\ w[Len(s)] = x
        /\ \A i \in 1 .. Len(s) - 1 : w[i] = v[i]
    BY <1>0, <2>4
  <2> HIDE DEF w
  <2>6. ASSUME NEW i \in 1 .. Len(s) PROVE u[i] = w[i]
    <3>1. u[i] = IF i < k THEN t[i] ELSE t[i + 1]
      BY <1>0, <2>1, <2>3
    <3>2. CASE i = Len(s)
      BY <1>0, <2>1, <2>5, <3>1, <3>2
    <3>3. CASE i # Len(s)
      <4>1. i \in 1 .. Len(s) - 1 /\ i + 1 \in 1 .. Len(s)
        BY <1>0, <3>3
      <4>2. w[i] = IF i < k THEN s[i] ELSE s[i + 1]
        BY <2>4, <2>5, <4>1
      <4> QED  BY <2>1, <3>1, <4>1, <4>2
    <3> QED  BY <3>2, <3>3
  <2>7. u = w
    BY <1>0, <2>1, <2>3, <2>5, <2>6
  <2> QED  BY <2>7 DEF t, u, v, w
<1> QED  BY <1>2, <1>3

-----------------------------------------------------------------------------
(***************************************************************************)
(* Lists and the sequences that they spell.                                *)
(***************************************************************************)

\* The links of list l of o are those of the sequence s.
Spells(h, o, l, s) ==
  /\ Distinct(s)
  /\ h[o].first[l] = IF s = <<>> THEN Null ELSE s[1]
  /\ h[o].last[l] = IF s = <<>> THEN Null ELSE s[Len(s)]
  /\ \A k \in 1 .. Len(s) : /\ h[s[k]].next = IF k = Len(s) THEN Null ELSE s[k + 1]
                            /\ h[s[k]].previous = IF k = 1 THEN Null ELSE s[k - 1]

\* A list spells no more than one sequence.
LEMMA SpellsOne ==
  ASSUME NEW h, NEW o, NEW l, NEW s, Spells(h, o, l, s), NEW t, Spells(h, o, l, t)
  PROVE  s = t
<1>0. Null \notin Node
  BY DomAssumption
<1>1. /\ s \in Seq(Node) /\ Len(s) \in Nat /\ \A k \in 1 .. Len(s) : s[k] \in Node
      /\ t \in Seq(Node) /\ Len(t) \in Nat /\ \A k \in 1 .. Len(t) : t[k] \in Node
      /\ (s = <<>> <=> Len(s) = 0) /\ (t = <<>> <=> Len(t) = 0)
  BY DEF Spells, Distinct
<1>2. /\ h[o].first[l] = IF s = <<>> THEN Null ELSE s[1]
      /\ h[o].first[l] = IF t = <<>> THEN Null ELSE t[1]
      /\ \A k \in 1 .. Len(s) : h[s[k]].next = IF k = Len(s) THEN Null ELSE s[k + 1]
      /\ \A k \in 1 .. Len(t) : h[t[k]].next = IF k = Len(t) THEN Null ELSE t[k + 1]
  BY DEF Spells
<1> DEFINE P == {i \in Nat : /\ i + 1 \in 1 .. Len(s) <=> i + 1 \in 1 .. Len(t)
                             /\ i + 1 \in 1 .. Len(s) => s[i + 1] = t[i + 1]}
<1>3. 0 \in P
  <2>1. /\ 1 \in 1 .. Len(s) <=> s # <<>>
        /\ 1 \in 1 .. Len(t) <=> t # <<>>
    BY <1>1
  <2>2. 1 \in 1 .. Len(s) <=> 1 \in 1 .. Len(t)
    BY <1>0, <1>1, <1>2, <2>1
  <2>3. 1 \in 1 .. Len(s) => s[1] = t[1]
    BY <1>2, <2>1, <2>2
  <2> QED  BY <2>2, <2>3
<1>4. ASSUME NEW i \in Nat, i \in P PROVE i + 1 \in P
  <2> DEFINE j == i + 1
  <2>1. /\ j \in Nat \ {0} /\ (j \in 1 .. Len(s) <=> j \in 1 .. Len(t))
        /\ j \in 1 .. Len(s) => s[j] = t[j]
    BY <1>4
  <2> HIDE DEF j
  <2>2. CASE j \notin 1 .. Len(s)
    <3>1. j + 1 \notin 1 .. Len(s) /\ j + 1 \notin 1 .. Len(t)
      BY <1>1, <2>1, <2>2
    <3> QED  BY <2>1, <3>1 DEF j
  <2>3. CASE j \in 1 .. Len(s)
    <3>1. /\ j # Len(s) <=> j + 1 \in 1 .. Len(s)
          /\ j # Len(t) <=> j + 1 \in 1 .. Len(t)
      BY <1>1, <2>1, <2>3
    <3>2. (IF j = Len(s) THEN Null ELSE s[j + 1]) = IF j = Len(t) THEN Null ELSE t[j + 1]
      BY <1>2, <2>1, <2>3
    <3>3. j = Len(s) <=> j = Len(t)
      BY <1>0, <1>1, <3>1, <3>2
    <3> QED  BY <2>1, <3>1, <3>2, <3>3 DEF j
  <2> QED  BY <2>2, <2>3
<1> HIDE DEF P
<1>5. \A i \in Nat : i \in P
  BY <1>3, <1>4, AllNaturals
<1>6. ASSUME NEW k \in Nat \ {0}
      PROVE  /\ k \in 1 .. Len(s) <=> k \in 1 .. Len(t)
             /\ k \in 1 .. Len(s) => s[k] = t[k]
  <2>1. k - 1 \in Nat /\ (k - 1) + 1 = k
    OBVIOUS
  <2>2. k - 1 \in P
    BY <1>5, <2>1
  <2> QED  BY <2>1, <2>2 DEF P
<1>7. Len(s) = Len(t)
  <2>1. Len(s) # 0 => Len(s) \in 1 .. Len(t)
    BY <1>1, <1>6
  <2>2. Len(t) # 0 => Len(t) \in 1 .. Len(s)
    BY <1>1, <1>6
  <2> QED  BY <1>1, <2>1, <2>2
<1>8. \A k \in 1 .. Len(s) : s[k] = t[k]
  BY <1>6
<1> QED  BY <1>1, <1>7, <1>8

\* That of lawful nodes is the one that a loop meets.
LEMMA MembersSpell ==
  ASSUME NEW h, Lawful(h), NEW o \in Nodes, NEW l \in List, NEW s, s = Members(h, o, l)
  PROVE  Spells(h, o, l, s) /\ NodesOf(s) = On(h, o, l)
<1> DEFINE S == On(h, o, l)
           head == h[o].first[l]
           tail == h[o].last[l]
<1>1. h \in Heaps /\ IsList(S, h, o, l)
  BY AllLists
<1>2. /\ s \in Seq(Node) /\ Len(s) \in Nat
      /\ {s[i] : i \in 1 .. Len(s)} = S
      /\ \A i, j \in 1 .. Len(s) : s[i] = s[j] => i = j
      /\ tail = IF s = <<>> THEN Null ELSE Last(s)
      /\ \A k \in 1 .. Len(s) : h[s[k]].previous = IF k = 1 THEN Null ELSE s[k - 1]
  BY <1>1, MembersAre
<1>3. S \in SUBSET Node /\ Null \notin Node
  BY OnList, DomAssumption
<1>4. Linked(S, h, head, tail, Null)
  <2>1. PICK rank \in [Node -> Int] : InOrder(S, rank, h, head, tail, Null)
    BY <1>1 DEF IsList
  <2> HIDE DEF S, head, tail
  <2> QED  BY <1>3, <2>1, ListLinks
<1> HIDE DEF S, head, tail
<1>5. \A k \in 1 .. Len(s) : s[k] \in S /\ s[k] # Null
  BY <1>2, <1>3
<1>6. head = IF s = <<>> THEN Null ELSE s[1]
  <2>1. CASE s = <<>>
    BY <1>2, <1>4, <2>1 DEF Linked
  <2>2. CASE s # <<>>
    <3>1. 1 \in 1 .. Len(s)
      BY <1>2, <2>2
    <3> QED  BY <1>2, <1>4, <1>5, <2>2, <3>1 DEF Linked
  <2> QED  BY <2>1, <2>2
<1>7. tail = IF s = <<>> THEN Null ELSE s[Len(s)]
  BY <1>2 DEF Last
<1>8. ASSUME NEW k \in 1 .. Len(s)
      PROVE  h[s[k]].next = IF k = Len(s) THEN Null ELSE s[k + 1]
  <2>1. CASE k = Len(s)
    <3>1. s # <<>>
      BY <1>2
    <3> QED  BY <1>4, <1>5, <1>7, <2>1, <3>1 DEF Linked
  <2>2. CASE k # Len(s)
    <3>1. k + 1 \in 1 .. Len(s) /\ k + 1 # 1 /\ (k + 1) - 1 = k
      BY <1>2, <2>2
    <3>2. h[s[k + 1]].previous = s[k]
      BY <1>2, <3>1
    <3> QED  BY <1>4, <1>5, <2>2, <3>1, <3>2 DEF Linked
  <2> QED  BY <2>1, <2>2
<1>9. Distinct(s)
  BY <1>2 DEF Distinct
<1> QED  BY <1>2, <1>6, <1>7, <1>8, <1>9 DEF Spells, NodesOf, S, head, tail

\* Links that are the same spell the same.
LEMMA SpellsStill ==
  ASSUME NEW h, NEW g, NEW o, NEW l, NEW s, Spells(h, o, l, s),
         g[o].first[l] = h[o].first[l], g[o].last[l] = h[o].last[l],
         \A x \in NodesOf(s) : g[x].previous = h[x].previous /\ g[x].next = h[x].next
  PROVE  Spells(g, o, l, s)
<1>1. \A k \in 1 .. Len(s) : g[s[k]].previous = h[s[k]].previous /\ g[s[k]].next = h[s[k]].next
  BY DEF NodesOf
<1> QED  BY <1>1 DEF Spells

\* Unlink takes a node out of the sequence of its list.
LEMMA UnlinkSpells ==
  ASSUME NEW h \in Heaps, NEW o \in Nodes, NEW l \in List, NEW n \in Node,
         NEW g, g = Unlink(h, o, l, n), NEW s, Spells(h, o, l, s), n \in NodesOf(s)
  PROVE  Spells(g, o, l, Rid(s, n))
<1> DEFINE t == Rid(s, n)
           m == Len(s) - 1
           nx == h[n].next
           pv == h[n].previous
<1>1. PICK k \in 1 .. Len(s) : n = s[k]
  BY DEF NodesOf
<1>2. /\ s \in Seq(Node) /\ Len(s) \in Nat /\ m \in Nat /\ s # <<>>
      /\ \A i \in 1 .. Len(s) : s[i] \in Node /\ s[i] \in Nodes /\ s[i] # Null
      /\ \A i, j \in 1 .. Len(s) : s[i] = s[j] => i = j
  BY DomAssumption DEF Spells, Distinct, Nodes
<1>3. /\ h[o].first[l] = s[1] /\ h[o].last[l] = s[Len(s)]
      /\ \A i \in 1 .. Len(s) : h[s[i]].next = IF i = Len(s) THEN Null ELSE s[i + 1]
      /\ \A i \in 1 .. Len(s) : h[s[i]].previous = IF i = 1 THEN Null ELSE s[i - 1]
  BY <1>2 DEF Spells
<1>4. /\ Distinct(t) /\ t \in Seq(Node) /\ Len(t) = m
      /\ \A i \in 1 .. m : t[i] = IF i < k THEN s[i] ELSE s[i + 1]
      /\ (t = <<>> <=> m = 0)
  <2>1. Distinct(s)
    BY DEF Spells
  <2>2. Distinct(t)
    BY <2>1, RidLeaves
  <2>3. /\ t \in Seq(Node) /\ Len(t) = m
        /\ \A i \in 1 .. m : t[i] = IF i < k THEN s[i] ELSE s[i + 1]
    BY <1>1, <2>1, RidOfOne
  <2> HIDE DEF t
  <2> QED  BY <1>2, <2>2, <2>3
<1>5. /\ nx = IF k = Len(s) THEN Null ELSE s[k + 1]
      /\ pv = IF k = 1 THEN Null ELSE s[k - 1]
  BY <1>1, <1>3
<1>6. /\ \A x \in Nodes : g[x].next = IF x = pv THEN nx ELSE h[x].next
      /\ \A x \in Nodes : g[x].previous = IF x = nx THEN pv ELSE h[x].previous
      /\ g[o].first[l] = IF h[o].first[l] = n THEN nx ELSE h[o].first[l]
      /\ g[o].last[l] = IF h[o].last[l] = n THEN pv ELSE h[o].last[l]
  BY UnlinkSets
<1> HIDE DEF t, nx, pv
<1>7. g[o].first[l] = IF t = <<>> THEN Null ELSE t[1]
  <2>1. CASE k = 1
    BY <1>1, <1>2, <1>3, <1>4, <1>5, <1>6, <2>1
  <2>2. CASE k # 1
    <3>1. 1 \in 1 .. m /\ 1 < k /\ s[1] # n
      BY <1>1, <1>2, <2>2
    <3> QED  BY <1>2, <1>3, <1>4, <1>6, <3>1
  <2> QED  BY <2>1, <2>2
<1>8. g[o].last[l] = IF t = <<>> THEN Null ELSE t[Len(t)]
  <2>1. CASE k = Len(s)
    <3>1. CASE m = 0
      BY <1>1, <1>2, <1>3, <1>4, <1>5, <1>6, <2>1, <3>1
    <3>2. CASE m # 0
      <4>1. m \in 1 .. m /\ m < k /\ k # 1 /\ k - 1 = m
        BY <1>2, <2>1, <3>2
      <4> QED  BY <1>1, <1>2, <1>3, <1>4, <1>5, <1>6, <2>1, <4>1
    <3> QED  BY <3>1, <3>2
  <2>2. CASE k # Len(s)
    <3>1. m \in 1 .. m /\ ~(m < k) /\ m + 1 = Len(s)
      BY <1>2, <2>2
    <3>2. s[Len(s)] # n
      <4>1. Len(s) \in 1 .. Len(s)
        BY <1>2
      <4> QED  BY <1>1, <1>2, <2>2, <4>1
    <3> QED  BY <1>2, <1>3, <1>4, <1>6, <3>1, <3>2
  <2> QED  BY <2>1, <2>2
<1>9. ASSUME NEW i \in 1 .. m
      PROVE  /\ g[t[i]].next = IF i = m THEN Null ELSE t[i + 1]
             /\ g[t[i]].previous = IF i = 1 THEN Null ELSE t[i - 1]
  <2> DEFINE j == IF i < k THEN i ELSE i + 1
  <2>1. j \in 1 .. Len(s) /\ j # k /\ t[i] = s[j] /\ i \in Nat
    BY <1>2, <1>4
  <2>2. /\ g[s[j]].next = IF s[j] = pv THEN nx ELSE h[s[j]].next
        /\ g[s[j]].previous = IF s[j] = nx THEN pv ELSE h[s[j]].previous
    BY <1>2, <1>6, <2>1
  <2>3. g[s[j]].next = IF i = m THEN Null ELSE t[i + 1]
    <3>1. CASE i + 1 = k
      <4>1. j = i /\ k # 1 /\ k - 1 = i /\ s[j] = pv
        BY <1>5, <3>1
      <4>2. CASE k = Len(s)
        BY <1>2, <1>5, <2>2, <3>1, <4>1, <4>2
      <4>3. CASE k # Len(s)
        <5>1. i # m /\ i + 1 \in 1 .. m /\ ~(i + 1 < k) /\ (i + 1) + 1 = k + 1
          BY <1>2, <3>1, <4>3
        <5> QED  BY <1>4, <1>5, <2>2, <4>1, <4>3, <5>1
      <4> QED  BY <4>2, <4>3
    <3>2. CASE i + 1 # k
      <4>1. s[j] # pv
        <5>1. j # k - 1
          BY <1>1, <3>2
        <5>2. k # 1 => k - 1 \in 1 .. Len(s)
          BY <1>1, <1>2
        <5> QED  BY <1>2, <1>5, <2>1, <5>1, <5>2
      <4>2. g[s[j]].next = IF j = Len(s) THEN Null ELSE s[j + 1]
        BY <1>3, <2>1, <2>2, <4>1
      <4>3. j = Len(s) <=> i = m
        BY <1>1, <1>2, <3>2
      <4>4. i # m => t[i + 1] = s[j + 1]
        <5>1. i # m => i + 1 \in 1 .. m
          BY <1>2
        <5>2. (IF i + 1 < k THEN i + 1 ELSE (i + 1) + 1) = j + 1
          BY <1>1, <3>2
        <5>3. i # m => t[i + 1] = IF i + 1 < k THEN s[i + 1] ELSE s[(i + 1) + 1]
          BY <1>4, <5>1
        <5> QED  BY <5>2, <5>3
      <4> QED  BY <4>2, <4>3, <4>4
    <3> QED  BY <3>1, <3>2
  <2>4. g[s[j]].previous = IF i = 1 THEN Null ELSE t[i - 1]
    <3>1. CASE i = k
      <4>1. j = k + 1 /\ k # Len(s) /\ s[j] = nx
        BY <1>2, <1>5, <2>1, <3>1
      <4>2. k # 1 => i - 1 \in 1 .. m /\ i - 1 < k
        BY <1>2, <3>1
      <4>3. k # 1 => t[i - 1] = s[k - 1]
        BY <1>4, <3>1, <4>2
      <4> QED  BY <1>5, <2>2, <3>1, <4>1, <4>3
    <3>2. CASE i # k
      <4>1. s[j] # nx
        <5>1. j # k + 1
          BY <1>1, <3>2
        <5>2. k # Len(s) => k + 1 \in 1 .. Len(s)
          BY <1>1, <1>2
        <5> QED  BY <1>2, <1>5, <2>1, <5>1, <5>2
      <4>2. g[s[j]].previous = IF j = 1 THEN Null ELSE s[j - 1]
        BY <1>3, <2>1, <2>2, <4>1
      <4>3. j = 1 <=> i = 1
        BY <1>1, <1>2, <3>2
      <4>4. i # 1 => t[i - 1] = s[j - 1]
        <5>1. i # 1 => i - 1 \in 1 .. m
          BY <1>2
        <5>2. (IF i - 1 < k THEN i - 1 ELSE (i - 1) + 1) = j - 1
          BY <1>1, <3>2
        <5>3. i # 1 => t[i - 1] = IF i - 1 < k THEN s[i - 1] ELSE s[(i - 1) + 1]
          BY <1>4, <5>1
        <5> QED  BY <5>2, <5>3
      <4> QED  BY <4>2, <4>3, <4>4
    <3> QED  BY <3>1, <3>2
  <2> QED  BY <2>1, <2>3, <2>4
<1> QED  BY <1>4, <1>7, <1>8, <1>9 DEF Spells, t

\* And leaves the sequences of others as they are.
LEMMA UnlinkSpares ==
  ASSUME NEW h \in Heaps, NEW o \in Nodes, NEW l \in List, NEW n \in Node,
         NEW g, g = Unlink(h, o, l, n), NEW s, Spells(h, o, l, s), n \in NodesOf(s),
         NEW p \in Nodes, NEW k \in List, p # o \/ k # l,
         NEW u, Spells(h, p, k, u), NodesOf(s) \cap NodesOf(u) = {}
  PROVE  Spells(g, p, k, u)
<1>1. /\ \A x \in Nodes : g[x].next = IF x = h[n].previous THEN h[n].next ELSE h[x].next
      /\ \A x \in Nodes : g[x].previous = IF x = h[n].next THEN h[n].previous
                                                           ELSE h[x].previous
      /\ g[p].first[k] = h[p].first[k] /\ g[p].last[k] = h[p].last[k]
  BY UnlinkSets
<1>2. {h[n].next, h[n].previous} \subseteq NodesOf(s) \cup {Null}
  <2>1. PICK i \in 1 .. Len(s) : n = s[i]
    BY DEF NodesOf
  <2>2. s \in Seq(Node) /\ Len(s) \in Nat
    BY DEF Spells, Distinct
  <2>3. i # Len(s) => i + 1 \in 1 .. Len(s)
    BY <2>2
  <2>4. i # 1 => i - 1 \in 1 .. Len(s)
    BY <2>2
  <2>5. /\ h[n].next = IF i = Len(s) THEN Null ELSE s[i + 1]
        /\ h[n].previous = IF i = 1 THEN Null ELSE s[i - 1]
    BY <2>1 DEF Spells
  <2> QED  BY <2>3, <2>4, <2>5 DEF NodesOf
<1>3. \A x \in NodesOf(u) : x \in Nodes /\ x # Null
  BY DomAssumption DEF Spells, Distinct, NodesOf, Nodes
<1>4. \A x \in NodesOf(u) : g[x].previous = h[x].previous /\ g[x].next = h[x].next
  BY <1>1, <1>2, <1>3
<1> QED  BY <1>1, <1>4, SpellsStill

\* Insert puts a node at the end of the sequence of its list.
LEMMA InsertSpells ==
  ASSUME NEW h \in Heaps, NEW o \in Nodes, NEW l \in List, NEW n \in Node,
         NEW g, g = Insert(h, o, l, n), NEW s, Spells(h, o, l, s), n \notin NodesOf(s)
  PROVE  Spells(g, o, l, Append(s, n))
<1> DEFINE t == Append(s, n)
           m == Len(s)
           tail == h[o].last[l]
           empty == h[o].first[l] = Null
<1>1. /\ s \in Seq(Node) /\ m \in Nat /\ (s = <<>> <=> m = 0)
      /\ \A i \in 1 .. m : s[i] \in Node /\ s[i] \in Nodes /\ s[i] # Null /\ s[i] # n
      /\ \A i, j \in 1 .. m : s[i] = s[j] => i = j
      /\ n \in Nodes
  BY DomAssumption DEF Spells, Distinct, Nodes, NodesOf
<1>2. /\ h[o].first[l] = IF s = <<>> THEN Null ELSE s[1]
      /\ tail = IF s = <<>> THEN Null ELSE s[m]
      /\ \A i \in 1 .. m : h[s[i]].next = IF i = m THEN Null ELSE s[i + 1]
      /\ \A i \in 1 .. m : h[s[i]].previous = IF i = 1 THEN Null ELSE s[i - 1]
  BY DEF Spells
<1>3. m # 0 => 1 \in 1 .. m /\ m \in 1 .. m
  BY <1>1
<1>4. (empty <=> m = 0) /\ (~empty => tail \in Node) /\ (empty => tail = Null)
  BY <1>1, <1>2, <1>3
<1>5. /\ \A x \in Nodes : g[x].previous = IF x # n THEN h[x].previous
                                          ELSE IF empty THEN Null ELSE tail
      /\ \A x \in Nodes : g[x].next = IF ~empty /\ x = tail THEN n
                                      ELSE IF x = n THEN Null ELSE h[x].next
      /\ g[o].first[l] = IF empty THEN n ELSE h[o].first[l]
      /\ g[o].last[l] = n
  BY <1>4, InsertSets
<1>6. /\ Distinct(t) /\ t \in Seq(Node) /\ Len(t) = m + 1 /\ t[m + 1] = n /\ t # <<>>
      /\ \A i \in 1 .. m : t[i] = s[i]
  <2>1. Distinct(t)
    BY Ending DEF Spells
  <2> QED  BY <1>1, <2>1
<1> HIDE DEF t, m, tail, empty
<1>7. g[o].first[l] = t[1] /\ g[o].last[l] = t[m + 1]
  BY <1>1, <1>2, <1>3, <1>4, <1>5, <1>6
<1>8. ASSUME NEW i \in 1 .. m + 1
      PROVE  /\ g[t[i]].next = IF i = m + 1 THEN Null ELSE t[i + 1]
             /\ g[t[i]].previous = IF i = 1 THEN Null ELSE t[i - 1]
  <2>1. CASE i = m + 1
    <3>1. g[n].next = Null /\ g[n].previous = IF empty THEN Null ELSE tail
      <4>1. ~empty => tail # n
        BY <1>1, <1>2, <1>3, <1>4
      <4> QED  BY <1>1, <1>5, <4>1
    <3>2. m # 0 => i # 1 /\ i - 1 = m /\ t[m] = s[m]
      BY <1>1, <1>3, <1>6, <2>1
    <3>3. m = 0 => i = 1
      BY <2>1
    <3> QED  BY <1>2, <1>1, <1>4, <1>6, <2>1, <3>1, <3>2, <3>3
  <2>2. CASE i # m + 1
    <3>1. i \in 1 .. m /\ t[i] = s[i] /\ m # 0
      BY <1>1, <1>6, <2>2
    <3>2. g[s[i]].previous = IF i = 1 THEN Null ELSE s[i - 1]
      BY <1>1, <1>2, <1>5, <3>1
    <3>3. i # 1 => t[i - 1] = s[i - 1]
      <4>1. i # 1 => i - 1 \in 1 .. m
        BY <1>1, <3>1
      <4> QED  BY <1>6, <4>1
    <3>4. s[i] = tail <=> i = m
      BY <1>1, <1>2, <1>3, <3>1
    <3>5. CASE i = m
      BY <1>1, <1>4, <1>5, <1>6, <2>2, <3>1, <3>2, <3>3, <3>4, <3>5
    <3>6. CASE i # m
      <4>1. i + 1 \in 1 .. m /\ t[i + 1] = s[i + 1]
        BY <1>1, <1>6, <3>1, <3>6
      <4>2. g[s[i]].next = h[s[i]].next
        BY <1>1, <1>5, <3>1, <3>4, <3>6
      <4>3. g[s[i]].next = s[i + 1]
        BY <1>2, <3>1, <3>6, <4>2
      <4> QED  BY <2>2, <3>1, <3>2, <3>3, <4>1, <4>3
    <3> QED  BY <3>5, <3>6
  <2> QED  BY <2>1, <2>2
<1> QED  BY <1>6, <1>7, <1>8 DEF Spells, t

\* And leaves the sequences of others as they are.
LEMMA InsertSpares ==
  ASSUME NEW h \in Heaps, NEW o \in Nodes, NEW l \in List, NEW n \in Node,
         NEW g, g = Insert(h, o, l, n), NEW s, Spells(h, o, l, s),
         NEW p \in Nodes, NEW k \in List, p # o \/ k # l,
         NEW u, Spells(h, p, k, u), NodesOf(s) \cap NodesOf(u) = {}, n \notin NodesOf(u)
  PROVE  Spells(g, p, k, u)
<1> DEFINE tail == h[o].last[l]
           empty == h[o].first[l] = Null
<1>1. /\ s \in Seq(Node) /\ Len(s) \in Nat /\ (s # <<>> => Len(s) \in 1 .. Len(s) /\ 1 \in 1 .. Len(s))
      /\ \A i \in 1 .. Len(s) : s[i] \in Node /\ s[i] # Null
  BY DomAssumption DEF Spells, Distinct
<1>2. ~empty => tail \in Node /\ tail \in NodesOf(s)
  BY <1>1 DEF Spells, NodesOf
<1>3. /\ \A x \in Nodes : g[x].previous = IF x # n THEN h[x].previous
                                          ELSE IF empty THEN Null ELSE tail
      /\ \A x \in Nodes : g[x].next = IF ~empty /\ x = tail THEN n
                                      ELSE IF x = n THEN Null ELSE h[x].next
      /\ g[p].first[k] = h[p].first[k] /\ g[p].last[k] = h[p].last[k]
  BY <1>2, InsertSets
<1> HIDE DEF tail, empty
<1>4. \A x \in NodesOf(u) : x \in Nodes /\ x # n
  BY DEF Spells, Distinct, NodesOf, Nodes
<1>5. \A x \in NodesOf(u) : g[x].previous = h[x].previous /\ g[x].next = h[x].next
  BY <1>2, <1>3, <1>4
<1> QED  BY <1>3, <1>5, SpellsStill

-----------------------------------------------------------------------------
(***************************************************************************)
(* All the lists of nodes, as DomForest has them.                          *)
(***************************************************************************)

ListsOf(h) == [l \in Lists |-> Members(h, l[1], l[2])]

\* The links of h spell the sequences ls, which have no node in common.
LaidOut(h, ls) ==
  /\ ls = [l \in Lists |-> ls[l]]
  /\ \A l \in Lists : Spells(h, l[1], l[2], ls[l])
  /\ \A l, k \in Lists : l # k => NodesOf(ls[l]) \cap NodesOf(ls[k]) = {}

\* Node n is in none of the sequences, is taken out of all, is put into one.
Free(ls, n)     == \A l \in Lists : n \notin NodesOf(ls[l])
Out(ls, n)      == [l \in Lists |-> Rid(ls[l], n)]
Into(ls, n, to) == [l \in Lists |-> IF l = to THEN Append(ls[l], n) ELSE ls[l]]

\* Moving is taking out and putting in.
LEMMA MovedIs ==
  ASSUME NEW ls, NEW n, NEW to
  PROVE  Forest!Moved(ls, n, to) = Into(Out(ls, n), n, to)
<1>1. Forest!Lists = Lists
  BY DEF Forest!Lists, Lists
<1>2. Forest!Moved(ls, n, to) =
        [l \in Lists |-> IF l = to THEN Append(Rid(ls[l], n), n) ELSE Rid(ls[l], n)]
  BY <1>1 DEF Forest!Moved, Rid
<1>3. \A l \in Lists : Out(ls, n)[l] = Rid(ls[l], n)
  BY DEF Out
<1> QED  BY <1>2, <1>3 DEF Into

\* Lawful nodes are laid out as their lists.
LEMMA LawfulLays ==
  ASSUME NEW h, Lawful(h)
  PROVE  /\ h \in Heaps /\ LaidOut(h, ListsOf(h))
         /\ \A l \in Lists : /\ ListsOf(h)[l] = Members(h, l[1], l[2])
                             /\ NodesOf(ListsOf(h)[l]) = On(h, l[1], l[2])
                             /\ Distinct(ListsOf(h)[l])
<1>1. ASSUME NEW l \in Lists
      PROVE  /\ ListsOf(h)[l] = Members(h, l[1], l[2])
             /\ Spells(h, l[1], l[2], ListsOf(h)[l])
             /\ NodesOf(ListsOf(h)[l]) = On(h, l[1], l[2])
  <2>1. l[1] \in Nodes /\ l[2] \in List
    BY ListNames
  <2>2. ListsOf(h)[l] = Members(h, l[1], l[2])
    BY DEF ListsOf
  <2> QED  BY <2>1, <2>2, MembersSpell
<1>2. ASSUME NEW l \in Lists, NEW k \in Lists, l # k
      PROVE  NodesOf(ListsOf(h)[l]) \cap NodesOf(ListsOf(h)[k]) = {}
  <2>1. l = <<l[1], l[2]>> /\ k = <<k[1], k[2]>>
    BY ListNames
  <2>2. ~(l[1] = k[1] /\ l[2] = k[2])
    BY <1>2, <2>1
  <2>3. On(h, l[1], l[2]) \cap On(h, k[1], k[2]) = {}
    BY <2>2, OnList
  <2> QED  BY <1>1, <2>3
<1>3. ListsOf(h) = [l \in Lists |-> ListsOf(h)[l]]
  BY DEF ListsOf
<1> QED  BY <1>1, <1>2, <1>3 DEF LaidOut, Lawful, Spells

\* And as nothing else.
LEMMA LaysOne ==
  ASSUME NEW h, Lawful(h), NEW ls, LaidOut(h, ls)
  PROVE  ListsOf(h) = ls
<1>1. LaidOut(h, ListsOf(h))
  BY LawfulLays
<1>2. \A l \in Lists : ListsOf(h)[l] = ls[l]
  BY <1>1, SpellsOne DEF LaidOut
<1> QED  BY <1>2 DEF LaidOut, ListsOf

\* Unlink takes its node out.
LEMMA UnlinkLays ==
  ASSUME NEW h \in Heaps, NEW ls, LaidOut(h, ls), NEW o, NEW l, <<o, l>> \in Lists,
         NEW n \in Node, n \in NodesOf(ls[<<o, l>>]), NEW g, g = Unlink(h, o, l, n)
  PROVE  g \in Heaps /\ LaidOut(g, Out(ls, n)) /\ Free(Out(ls, n), n)
<1> DEFINE at == <<o, l>>
<1>1. o \in Nodes /\ l \in List /\ at \in Lists /\ at[1] = o /\ at[2] = l
  BY ListNames
<1>2. g \in Heaps
  BY <1>1, UnlinkSets
<1>3. \A k \in Lists : Out(ls, n)[k] = Rid(ls[k], n) /\ Distinct(ls[k])
  BY DEF Out, LaidOut, Spells
<1>4. \A k \in Lists : NodesOf(Out(ls, n)[k]) = NodesOf(ls[k]) \ {n}
  BY <1>3, RidLeaves
<1>5. Spells(h, o, l, ls[at])
  BY <1>1 DEF LaidOut
<1>6. Spells(g, o, l, Out(ls, n)[at])
  BY <1>1, <1>3, <1>5, UnlinkSpells
<1> HIDE DEF at
<1>7. ASSUME NEW k \in Lists, k # at PROVE Spells(g, k[1], k[2], Out(ls, n)[k])
  <2>1. k[1] \in Nodes /\ k[2] \in List /\ k = <<k[1], k[2]>> /\ (k[1] # o \/ k[2] # l)
    BY <1>7, ListNames DEF at
  <2>2. Spells(h, k[1], k[2], ls[k]) /\ NodesOf(ls[at]) \cap NodesOf(ls[k]) = {}
    BY <1>1, <1>7 DEF LaidOut
  <2>3. n \in NodesOf(ls[at])
    BY DEF at
  <2>4. Spells(g, k[1], k[2], ls[k])
    BY <1>1, <1>5, <2>1, <2>2, <2>3, UnlinkSpares
  <2>5. Rid(ls[k], n) = ls[k]
    BY <2>2, <2>3, RidOfNone
  <2> QED  BY <1>3, <2>4, <2>5
<1>8. \A k \in Lists : Spells(g, k[1], k[2], Out(ls, n)[k])
  BY <1>1, <1>6, <1>7
<1>9. \A j, k \in Lists : j # k => NodesOf(Out(ls, n)[j]) \cap NodesOf(Out(ls, n)[k]) = {}
  BY <1>4 DEF LaidOut
<1>10. Out(ls, n) = [k \in Lists |-> Out(ls, n)[k]]
  BY DEF Out
<1>11. Free(Out(ls, n), n)
  BY <1>4 DEF Free
<1> QED  BY <1>2, <1>8, <1>9, <1>10, <1>11 DEF LaidOut

\* Insert puts its node in.
LEMMA InsertLays ==
  ASSUME NEW h \in Heaps, NEW ls, LaidOut(h, ls), NEW o, NEW l, <<o, l>> \in Lists,
         NEW n \in Node, Free(ls, n), NEW g, g = Insert(h, o, l, n)
  PROVE  g \in Heaps /\ LaidOut(g, Into(ls, n, <<o, l>>))
<1> DEFINE at == <<o, l>>
           new == Into(ls, n, at)
<1>1. o \in Nodes /\ l \in List /\ at \in Lists /\ at[1] = o /\ at[2] = l
  BY ListNames
<1>2. Spells(h, o, l, ls[at]) /\ n \notin NodesOf(ls[at])
  BY <1>1 DEF LaidOut, Free
<1>3. g \in Heaps
  <2>1. h[o].first[l] # Null => h[o].last[l] \in Node
    <3> DEFINE s == ls[at]
    <3>1. Spells(h, o, l, s)
      BY <1>2
    <3> HIDE DEF s
    <3>2. s # <<>> => s[Len(s)] \in Node
      BY <3>1 DEF Spells, Distinct
    <3> QED  BY <3>1, <3>2 DEF Spells
  <2> QED  BY <1>1, <2>1, InsertSets
<1>4. \A k \in Lists : new[k] = IF k = at THEN Append(ls[k], n) ELSE ls[k]
  BY DEF Into
<1>5. Spells(g, o, l, new[at]) /\ NodesOf(new[at]) = NodesOf(ls[at]) \cup {n}
  <2>1. Spells(g, o, l, Append(ls[at], n))
    BY <1>1, <1>2, InsertSpells
  <2>2. NodesOf(Append(ls[at], n)) = NodesOf(ls[at]) \cup {n}
    BY <1>2, Ending DEF Spells
  <2> QED  BY <1>1, <1>4, <2>1, <2>2
<1> HIDE DEF at, new
<1>6. ASSUME NEW k \in Lists, k # at PROVE Spells(g, k[1], k[2], new[k])
  <2>1. k[1] \in Nodes /\ k[2] \in List /\ k = <<k[1], k[2]>> /\ (k[1] # o \/ k[2] # l)
    BY <1>6, ListNames DEF at
  <2>2. /\ Spells(h, k[1], k[2], ls[k]) /\ NodesOf(ls[at]) \cap NodesOf(ls[k]) = {}
        /\ n \notin NodesOf(ls[k])
    BY <1>1, <1>6 DEF LaidOut, Free
  <2>3. Spells(g, k[1], k[2], ls[k])
    BY <1>1, <1>2, <2>1, <2>2, InsertSpares
  <2> QED  BY <1>4, <1>6, <2>3
<1>7. \A k \in Lists : Spells(g, k[1], k[2], new[k])
  BY <1>1, <1>5, <1>6
<1>8. \A j, k \in Lists : j # k => NodesOf(new[j]) \cap NodesOf(new[k]) = {}
  BY <1>4, <1>5 DEF LaidOut, Free
<1>9. new = [k \in Lists |-> new[k]]
  BY DEF new, Into
<1> QED  BY <1>3, <1>7, <1>8, <1>9 DEF LaidOut, new, at

\* What changes a node on its way changes no list.
LEMMA OthersLay ==
  ASSUME NEW h, NEW ls, LaidOut(h, ls), NEW n, Free(ls, n), NEW g, SameEnds(g, h),
         \A x \in Nodes \ {n} : g[x].previous = h[x].previous /\ g[x].next = h[x].next
  PROVE  LaidOut(g, ls)
<1>1. ASSUME NEW l \in Lists PROVE Spells(g, l[1], l[2], ls[l])
  <2>1. l[1] \in Nodes /\ l[2] \in List
    BY ListNames
  <2>2. Spells(h, l[1], l[2], ls[l]) /\ n \notin NodesOf(ls[l])
    BY DEF LaidOut, Free
  <2>3. \A x \in NodesOf(ls[l]) : x \in Nodes
    BY <2>2 DEF Spells, Distinct, NodesOf, Nodes
  <2>4. \A x \in NodesOf(ls[l]) : g[x].previous = h[x].previous /\ g[x].next = h[x].next
    BY <2>2, <2>3
  <2>5. g[l[1]].first[l[2]] = h[l[1]].first[l[2]] /\ g[l[1]].last[l[2]] = h[l[1]].last[l[2]]
    BY <2>1 DEF SameEnds
  <2> QED  BY <2>2, <2>4, <2>5, SpellsStill
<1> QED  BY <1>1 DEF LaidOut

\* A node on its way loses its parent and its links.
LEMMA AloneLays ==
  ASSUME NEW h \in Heaps, NEW ls, LaidOut(h, ls), NEW n \in Node, Free(ls, n),
         NEW g, g = Alone(h, n)
  PROVE  g \in Heaps /\ LaidOut(g, ls)
<1>1. /\ g \in Heaps /\ SameEnds(g, h)
      /\ \A x \in Nodes \ {n} : g[x].previous = h[x].previous /\ g[x].next = h[x].next
  BY AloneSets
<1> QED  BY <1>1, OthersLay

\* Or gets a parent.
LEMMA ParentLays ==
  ASSUME NEW h \in Heaps, NEW ls, LaidOut(h, ls), NEW n \in Node, Free(ls, n),
         NEW p \in Nodes, NEW g, g = WithParent(h, n, p)
  PROVE  g \in Heaps /\ LaidOut(g, ls)
<1>1. g \in Heaps /\ SameLinks(g, h) /\ SameEnds(g, h)
  BY SetParent DEF Nodes
<1> QED  BY <1>1, OthersLay DEF SameLinks

-----------------------------------------------------------------------------
(***************************************************************************)
(* The operations, as moves.                                               *)
(***************************************************************************)

\* A node in no sequence is not taken out, but put in.
LEMMA FreeMoves ==
  ASSUME NEW h, NEW ls, LaidOut(h, ls), NEW n \in Node, Free(ls, n), NEW to, NEW from
  PROVE  /\ Out(ls, n) = ls /\ Forest!Moved(ls, n, to) = Into(ls, n, to)
         /\ Forest!Moved(Into(ls, n, from), n, to) = Into(ls, n, to)
<1>1. \A l \in Lists : Distinct(ls[l]) /\ n \notin NodesOf(ls[l])
  BY DEF LaidOut, Spells, Free
<1>2. \A l \in Lists : Rid(ls[l], n) = ls[l]
  BY <1>1, RidOfNone
<1>3. Out(ls, n) = ls
  BY <1>2 DEF Out, LaidOut
<1>4. ASSUME NEW l \in Lists PROVE Rid(Into(ls, n, from)[l], n) = ls[l]
  <2>1. Into(ls, n, from)[l] = IF l = from THEN Append(ls[l], n) ELSE ls[l]
    BY DEF Into
  <2> QED  BY <1>1, <1>2, <2>1, Ending
<1>5. Out(Into(ls, n, from), n) = ls
  BY <1>4 DEF Out, LaidOut
<1> QED  BY <1>3, <1>5, MovedIs

\* A new node is put into the list of the detached ones of its document.
LEMMA CreatedLists ==
  ASSUME NEW h, Lawful(h), NEW n \in Node, h[n].kind = "absent",
         NEW kind \in {"element", "attribute", "text"}, NEW name \in Name \cup {Null},
         NEW d \in Document, h[d].kind = "document", NEW g, g = Created(h, n, kind, name, d)
  PROVE  /\ Free(ListsOf(h), n)
         /\ ListsOf(g) = Into(ListsOf(h), n, <<d, "detached">>)
<1> DEFINE ls == ListsOf(h)
<1>1. PICK m \in Heaps :
        /\ g = InsertIntoDetached(m, n) /\ SameEnds(m, h)
        /\ m[n].kind = kind /\ m[n].name = name /\ m[n].document = d /\ m[n].parent = Null
        /\ \A x \in Nodes \ {n} : m[x] = h[x]
  BY NewNode
<1>2. LaidOut(h, ls) /\ \A l \in Lists : NodesOf(ls[l]) = On(h, l[1], l[2])
  BY LawfulLays
<1>3. Free(ls, n)
  BY <1>2 DEF Free, On
<1> HIDE DEF ls
<1>4. LaidOut(m, ls)
  BY <1>1, <1>2, <1>3, OthersLay
<1>5. <<d, "detached">> \in Lists
  BY DEF Lists
<1>6. LaidOut(g, Into(ls, n, <<d, "detached">>))
  BY <1>1, <1>3, <1>4, <1>5, InsertLays DEF InsertIntoDetached
<1>7. Lawful(g)
  BY Creates
<1> QED  BY <1>3, <1>6, <1>7, LaysOne DEF ls

\* The list that a node is on.
LEMMA ListHasIt ==
  ASSUME NEW h, Lawful(h), NEW n \in Node, h[n].kind # "absent"
  PROVE  LET at == HomeOf(h, n)
         IN  at \in Lists /\ n \in NodesOf(ListsOf(h)[at]) /\ LaidOut(h, ListsOf(h))
<1> DEFINE at == HomeOf(h, n)
<1>1. /\ h[n].parent # Null => h[n].parent \in Nodes
      /\ h[n].document \in Document /\ Fits(h)
  BY IsOnList
<1>2. h[n].kind = "attribute" /\ h[n].parent # Null => h[n].parent \in Node
  BY <1>1 DEF Fits
<1>3. at \in Lists
  BY <1>1, <1>2 DEF Lists, HomeOf, Nodes
<1>4. n \in On(h, at[1], at[2])
  <2>1. at = <<at[1], at[2]>>
    BY <1>3, ListNames
  <2> QED  BY <2>1 DEF On
<1> QED  BY <1>3, <1>4, LawfulLays

\* RemoveFromChildren and RemoveFromAttributes take a node out.
LEMMA RemovedLays ==
  ASSUME NEW h, Lawful(h), NEW n \in Node, h[n].kind # "absent", h[n].parent # Null,
         NEW g, g = IF h[n].kind = "attribute" THEN RemoveFromAttributes(h, n)
                                               ELSE RemoveFromChildren(h, n)
  PROVE  /\ g \in Heaps /\ LaidOut(g, Out(ListsOf(h), n)) /\ Free(Out(ListsOf(h), n), n)
         /\ g[n].document = h[n].document
<1> DEFINE ls == ListsOf(h)
           l == IF h[n].kind = "attribute" THEN "attributes" ELSE "children"
           p == h[n].parent
           m == Unlink(h, p, l, n)
<1>1. HomeOf(h, n) = <<p, l>> /\ <<p, l>> \in Lists /\ n \in NodesOf(ls[<<p, l>>])
  BY ListHasIt DEF HomeOf
<1>2. h \in Heaps /\ LaidOut(h, ls)
  BY LawfulLays
<1>3. g = Alone(m, n)
  BY DEF RemoveFromAttributes, RemoveFromChildren
<1>4. p \in Nodes /\ l \in List
  BY <1>1, ListNames
<1> HIDE DEF l, p, ls
<1>5. /\ m \in Heaps /\ LaidOut(m, Out(ls, n)) /\ Free(Out(ls, n), n)
      /\ SameScalars(m, h)
  BY <1>1, <1>2, <1>4, UnlinkLays, UnlinkSets
<1> HIDE DEF m
<1>6. g \in Heaps /\ LaidOut(g, Out(ls, n)) /\ Kept(g, m, n)
  BY <1>3, <1>5, AloneLays, AloneSets
<1>7. g[n].document = h[n].document
  BY <1>5, <1>6 DEF SameScalars, Kept, Nodes
<1> QED  BY <1>5, <1>6, <1>7 DEF ls

\* RemoveFromDetached does.
LEMMA NotDetachedLays ==
  ASSUME NEW h, Lawful(h), NEW n \in Node, h[n].kind # "absent", h[n].parent = Null,
         NEW g, g = RemoveFromDetached(h, n)
  PROVE  g \in Heaps /\ LaidOut(g, Out(ListsOf(h), n)) /\ Free(Out(ListsOf(h), n), n)
<1> DEFINE ls == ListsOf(h)
           at == <<h[n].document, "detached">>
<1>1. HomeOf(h, n) = at /\ at \in Lists /\ n \in NodesOf(ls[at])
  BY ListHasIt DEF HomeOf
<1>2. h \in Heaps /\ LaidOut(h, ls)
  BY LawfulLays
<1> HIDE DEF ls
<1>3. g \in Heaps /\ LaidOut(g, Out(ls, n)) /\ Free(Out(ls, n), n)
  BY <1>1, <1>2, UnlinkLays DEF RemoveFromDetached
<1> QED  BY <1>3 DEF ls

\* The node appended becomes the last child.
LEMMA AppendedLists ==
  ASSUME NEW h, Lawful(h), NEW n \in Node, h[n].kind \notin {"absent", "attribute"},
         NEW p \in Nodes, NEW g, g = Appended(h, p, n)
  PROVE  ListsOf(g) = Forest!Moved(ListsOf(h), n, <<p, "children">>)
<1> DEFINE ls == Out(ListsOf(h), n)
           m == IF h[n].parent # Null THEN RemoveFromChildren(h, n) ELSE RemoveFromDetached(h, n)
           i == WithParent(m, n, p)
           to == <<p, "children">>
<1>1. m \in Heaps /\ LaidOut(m, ls) /\ Free(ls, n)
  BY RemovedLays, NotDetachedLays
<1>2. g = Insert(i, p, "children", n)
  BY DEF Appended, InsertIntoChildren, WithParent
<1> HIDE DEF m, ls
<1>3. i \in Heaps /\ LaidOut(i, ls)
  BY <1>1, ParentLays
<1> HIDE DEF i
<1>4. to \in Lists
  BY DEF Lists, Nodes
<1>5. LaidOut(g, Into(ls, n, to))
  BY <1>1, <1>2, <1>3, <1>4, InsertLays
<1>6. Lawful(g)
  BY Appends
<1> QED  BY <1>5, <1>6, LaysOne, MovedIs DEF ls

\* A child or an attribute that is detached becomes the last detached node.
LEMMA GoesHome ==
  ASSUME NEW h, Lawful(h), NEW n \in Node, h[n].kind # "absent", h[n].parent # Null,
         NEW m, m = IF h[n].kind = "attribute" THEN RemoveFromAttributes(h, n)
                                               ELSE RemoveFromChildren(h, n),
         NEW g, g = InsertIntoDetached(m, n), Lawful(g)
  PROVE  ListsOf(g) = Forest!Moved(ListsOf(h), n, <<h[n].document, "detached">>)
<1> DEFINE ls == Out(ListsOf(h), n)
           d == h[n].document
           to == <<d, "detached">>
<1>1. m \in Heaps /\ LaidOut(m, ls) /\ Free(ls, n) /\ m[n].document = d
  BY RemovedLays
<1>2. to \in Lists
  BY IsOnList DEF Lists
<1> HIDE DEF ls, d
<1>3. LaidOut(g, Into(ls, n, to))
  BY <1>1, <1>2, InsertLays DEF InsertIntoDetached
<1> QED  BY <1>3, LaysOne, MovedIs DEF ls, d

\* A child does.
LEMMA DetachedLists ==
  ASSUME NEW h, Lawful(h), NEW n \in Node, h[n].kind \notin {"absent", "attribute"},
         h[n].parent # Null, NEW g, g = Detached(h, n)
  PROVE  ListsOf(g) = Forest!Moved(ListsOf(h), n, <<h[n].document, "detached">>)
<1>1. Lawful(g)
  BY Detaches
<1> QED  BY <1>1, GoesHome DEF Detached

\* The attribute of e that has the name of a, if there is one, has been detached.
WayMade(h, e, a) ==
  LET s    == ListsOf(h)[<<e, "attributes">>]
      rest == ListsOf(WayFor(h, e, a))
  IN  \/ rest = ListsOf(h) /\ \A i \in 1 .. Len(s) : h[s[i]].name # h[a].name
      \/ \E k \in 1 .. Len(s) :
           /\ s[k] # a /\ h[s[k]].kind = "attribute" /\ h[s[k]].name = h[a].name
           /\ \A i \in 1 .. Len(s) : h[s[i]].name = h[a].name => i = k
           /\ rest = Forest!Moved(ListsOf(h), s[k], <<h[s[k]].document, "detached">>)

\* It makes way for a.
LEMMA MakesWayLists ==
  ASSUME NEW h, Lawful(h), NEW e \in Node, h[e].kind = "element",
         NEW a \in Node, h[a].kind = "attribute", h[a].parent = Null
  PROVE  WayMade(h, e, a)
<1> DEFINE s == ListsOf(h)[<<e, "attributes">>]
           rest == WayFor(h, e, a)
           same == {k \in DOMAIN s : h[s[k]].name = h[a].name}
<1>1. <<e, "attributes">> \in Lists
  BY DEF Lists
<1>2. s = Members(h, e, "attributes") /\ NodesOf(s) = On(h, e, "attributes") /\ Distinct(s)
  BY <1>1, LawfulLays
<1>3. rest = IF same = {} THEN h
             ELSE InsertIntoDetached(RemoveFromAttributes(h, s[Min(same)]), s[Min(same)])
  BY <1>2 DEF WayFor
<1> HIDE DEF s, rest
<1>4. DOMAIN s = 1 .. Len(s) /\ Len(s) \in Nat
  BY <1>2 DEF Distinct
<1>5. CASE same = {}
  <2>1. \A i \in 1 .. Len(s) : h[s[i]].name # h[a].name
    BY <1>4, <1>5
  <2> QED  BY <1>3, <1>5, <2>1 DEF WayMade, s, rest
<1>6. CASE same # {}
  <2> DEFINE k == Min(same)
             b == s[k]
  <2>1. k \in same
    <3>1. same \in SUBSET Nat
      BY <1>4
    <3>2. \E i \in same : \A j \in same : i <= j
      <4> HIDE DEF same
      <4> QED  BY <1>6, <3>1, LeastNatural
    <3> QED  BY <3>2 DEF Min
  <2>2. k \in 1 .. Len(s) /\ h[b].name = h[a].name
    BY <1>4, <2>1
  <2>3. \A i \in 1 .. Len(s) : s[i] \in Node /\ h[s[i]].kind = "attribute" /\ h[s[i]].parent = e
    <3>1. \A i \in 1 .. Len(s) : s[i] \in On(h, e, "attributes")
      BY <1>2 DEF NodesOf
    <3>2. \A x \in On(h, e, "attributes") : x \in Node /\ h[x].kind = "attribute" /\ h[x].parent = e
      BY DEF On, HomeOf
    <3> QED  BY <3>1, <3>2
  <2>4. e # Null
    BY DomAssumption DEF Nodes
  <2>5. \A i \in 1 .. Len(s) : h[s[i]].name = h[a].name => i = k
    <3>1. Unique(h)
      BY DEF Lawful
    <3>2. ASSUME NEW i \in 1 .. Len(s), h[s[i]].name = h[a].name PROVE i = k
      <4>1. s[i] = b
        BY <2>2, <2>3, <2>4, <3>1, <3>2 DEF Unique
      <4> QED  BY <1>2, <2>2, <4>1 DEF Distinct
    <3> QED  BY <3>2
  <2>6. rest = InsertIntoDetached(RemoveFromAttributes(h, b), b)
    BY <1>3, <1>6
  <2>7. b \in Node /\ h[b].kind = "attribute" /\ h[b].parent = e /\ b # a /\ h[b].kind # "absent"
    BY <2>2, <2>3, <2>4
  <2>8. Lawful(rest)
    BY MakesWay DEF rest
  <2> HIDE DEF b, k
  <2>9. ListsOf(rest) = Forest!Moved(ListsOf(h), b, <<h[b].document, "detached">>)
    <3> DEFINE m == RemoveFromAttributes(h, b)
    <3>1. m = IF h[b].kind = "attribute" THEN RemoveFromAttributes(h, b) ELSE RemoveFromChildren(h, b)
      BY <2>7
    <3>2. rest = InsertIntoDetached(m, b)
      BY <2>6
    <3> HIDE DEF m
    <3> QED  BY <2>4, <2>7, <2>8, <3>1, <3>2, GoesHome
  <2> QED  BY <2>2, <2>5, <2>7, <2>9 DEF WayMade, s, rest, b
<1> QED  BY <1>5, <1>6

\* Then the new one becomes the last attribute.
LEMMA AttributedLists ==
  ASSUME NEW h, Lawful(h), NEW e \in Node, h[e].kind = "element",
         NEW a \in Node, h[a].kind = "attribute", h[a].parent = Null,
         NEW g, g = Attributed(h, e, a)
  PROVE  ListsOf(g) = Forest!Moved(ListsOf(WayFor(h, e, a)), a, <<e, "attributes">>)
<1> DEFINE rest == WayFor(h, e, a)
           ls == Out(ListsOf(rest), a)
           m == RemoveFromDetached(rest, a)
           i == WithParent(m, a, e)
           to == <<e, "attributes">>
<1>1. g = Insert(i, e, "attributes", a)
  BY DEF Attributed, InsertIntoAttributes, WithParent, WayFor
<1>2. Lawful(rest) /\ rest[a].kind # "absent" /\ rest[a].parent = Null
  <2>1. Lawful(rest) /\ SameNature(rest, h) /\ rest[a].parent = Null
    BY MakesWay
  <2> QED  BY <2>1 DEF SameNature, Nodes
<1> HIDE DEF rest
<1>3. m \in Heaps /\ LaidOut(m, ls) /\ Free(ls, a)
  BY <1>2, NotDetachedLays
<1> HIDE DEF ls, m
<1>4. i \in Heaps /\ LaidOut(i, ls)
  BY <1>3, ParentLays DEF Nodes
<1> HIDE DEF i
<1>5. to \in Lists
  BY DEF Lists
<1>6. LaidOut(g, Into(ls, a, to))
  BY <1>1, <1>3, <1>4, <1>5, InsertLays
<1>7. Lawful(g)
  BY Attributes
<1> QED  BY <1>6, <1>7, LaysOne, MovedIs DEF ls, rest

-----------------------------------------------------------------------------
(***************************************************************************)
(* The loops that detach nodes.                                            *)
(***************************************************************************)

\* The node that is k-th on s goes home, if it is in T.
Sent(ls, s, T, k) ==
  IF s[k] \in T THEN Forest!Moved(ls, s[k], Forest!Home(s[k])) ELSE ls

\* AllHome, and each of its steps.
LEMMA AllHomeRuns ==
  ASSUME NEW ls, NEW s \in Seq(Node), NEW T
  PROVE  \E all : /\ Forest!AllHome(ls, s, T) = all[Len(s)]
                  /\ \A k \in 0 .. Len(s) :
                       all[k] = IF k = 0 THEN ls ELSE Sent(all[k - 1], s, T, k)
<1> DEFINE m == Len(s)
           Run(f, n) == /\ DOMAIN f = 0 .. n
                        /\ \A i \in 0 .. n : f[i] = IF i = 0 THEN ls ELSE Sent(f[i - 1], s, T, i)
           D == {n \in Nat : \E f : Run(f, n)}
           all[k \in 0 .. m] ==
             IF k = 0 THEN ls
             ELSE IF s[k] \in T THEN Forest!Moved(all[k - 1], s[k], Forest!Home(s[k]))
             ELSE all[k - 1]
<1>0. m \in Nat
  OBVIOUS
<1>1. 0 \in D
  <2>1. Run([i \in 0 .. 0 |-> ls], 0)
    OBVIOUS
  <2> QED  BY <2>1
<1>2. ASSUME NEW n \in Nat, n \in D PROVE n + 1 \in D
  <2> PICK f : Run(f, n)
    BY <1>2
  <2> DEFINE e == [i \in 0 .. n + 1 |-> IF i = n + 1 THEN Sent(f[n], s, T, i) ELSE f[i]]
  <2>1. ASSUME NEW i \in 0 .. n + 1
        PROVE  e[i] = IF i = 0 THEN ls ELSE Sent(e[i - 1], s, T, i)
    <3>1. CASE i = 0
      BY <3>1
    <3>2. CASE i # 0 /\ i # n + 1
      <4>1. i \in 0 .. n /\ i - 1 \in 0 .. n + 1 /\ i - 1 # n + 1
        BY <3>2
      <4>2. e[i] = f[i] /\ e[i - 1] = f[i - 1]
        BY <3>2, <4>1
      <4> QED  BY <3>2, <4>1, <4>2
    <3>3. CASE i = n + 1
      <4>1. i - 1 = n /\ n \in 0 .. n + 1 /\ n # n + 1
        BY <3>3
      <4>2. e[i] = Sent(f[n], s, T, i) /\ e[i - 1] = f[n]
        BY <3>3, <4>1
      <4> QED  BY <3>3, <4>2
    <3> QED  BY <3>1, <3>2, <3>3
  <2>2. DOMAIN e = 0 .. n + 1
    OBVIOUS
  <2> HIDE DEF e
  <2>3. Run(e, n + 1)
    BY <2>1, <2>2
  <2> HIDE DEF Run
  <2> QED  BY <2>3
<1> HIDE DEF m
<1>3. PICK f : Run(f, m)
  <2> HIDE DEF D
  <2>1. m \in D
    BY <1>0, <1>1, <1>2, AllNaturals
  <2> QED  BY <2>1 DEF D
<1>4. \A k \in 0 .. m : all[k] = IF k = 0 THEN ls ELSE Sent(all[k - 1], s, T, k)
  <2> DEFINE e == [k \in 0 .. m |-> f[k]]
  <2>1. ASSUME NEW k \in 0 .. m
        PROVE  e[k] = IF k = 0 THEN ls ELSE Sent(e[k - 1], s, T, k)
    <3>1. k # 0 => k - 1 \in 0 .. m
      BY <1>0
    <3> QED  BY <1>3, <3>1
  <2>2. e = [k \in 0 .. m |->
               IF k = 0 THEN ls
               ELSE IF s[k] \in T THEN Forest!Moved(e[k - 1], s[k], Forest!Home(s[k]))
               ELSE e[k - 1]]
    BY <2>1 DEF Sent
  <2>3. all = [k \in 0 .. m |->
                 IF k = 0 THEN ls
                 ELSE IF s[k] \in T THEN Forest!Moved(all[k - 1], s[k], Forest!Home(s[k]))
                 ELSE all[k - 1]]
    BY <2>2
  <2> HIDE DEF all
  <2> QED  BY <2>3 DEF Sent
<1>5. Forest!AllHome(ls, s, T) = all[m]
  BY DEF Forest!AllHome, m
<1> HIDE DEF all
<1> QED  BY <1>4, <1>5 DEF m

\* With none of them in T, the lists stay.
LEMMA AllHomeNone ==
  ASSUME NEW ls, NEW s \in Seq(Node), NEW T, \A i \in 1 .. Len(s) : s[i] \notin T
  PROVE  Forest!AllHome(ls, s, T) = ls
<1>1. PICK all : /\ Forest!AllHome(ls, s, T) = all[Len(s)]
                 /\ \A k \in 0 .. Len(s) :
                      all[k] = IF k = 0 THEN ls ELSE Sent(all[k - 1], s, T, k)
  BY AllHomeRuns
<1> DEFINE P == {k \in Nat : k <= Len(s) => all[k] = ls}
<1>2. 0 \in P
  BY <1>1
<1>3. ASSUME NEW k \in Nat, k \in P PROVE k + 1 \in P
  <2> SUFFICES ASSUME k + 1 <= Len(s) PROVE all[k + 1] = ls
    OBVIOUS
  <2>1. all[k] = ls /\ k + 1 \in 1 .. Len(s) /\ k + 1 \in 0 .. Len(s) /\ k + 1 # 0 /\ (k + 1) - 1 = k
    BY <1>3
  <2>2. all[k + 1] = Sent(ls, s, T, k + 1)
    BY <1>1, <2>1
  <2> QED  BY <2>1, <2>2 DEF Sent
<1> HIDE DEF P
<1>4. Len(s) \in P
  BY <1>2, <1>3, AllNaturals
<1> QED  BY <1>1, <1>4 DEF P

\* With one, it moves.
LEMMA AllHomeOne ==
  ASSUME NEW ls, NEW s \in Seq(Node), NEW T, NEW j \in 1 .. Len(s),
         \A i \in 1 .. Len(s) : s[i] \in T <=> i = j
  PROVE  Forest!AllHome(ls, s, T) = Forest!Moved(ls, s[j], Forest!Home(s[j]))
<1>1. PICK all : /\ Forest!AllHome(ls, s, T) = all[Len(s)]
                 /\ \A k \in 0 .. Len(s) :
                      all[k] = IF k = 0 THEN ls ELSE Sent(all[k - 1], s, T, k)
  BY AllHomeRuns
<1> DEFINE new == Forest!Moved(ls, s[j], Forest!Home(s[j]))
           P == {k \in Nat : k <= Len(s) => all[k] = IF k < j THEN ls ELSE new}
<1> HIDE DEF new
<1>2. 0 \in P
  BY <1>1
<1>3. ASSUME NEW k \in Nat, k \in P PROVE k + 1 \in P
  <2> SUFFICES ASSUME k + 1 <= Len(s) PROVE all[k + 1] = IF k + 1 < j THEN ls ELSE new
    OBVIOUS
  <2>1. /\ all[k] = IF k < j THEN ls ELSE new
        /\ k + 1 \in 1 .. Len(s) /\ k + 1 \in 0 .. Len(s) /\ k + 1 # 0 /\ (k + 1) - 1 = k
    BY <1>3
  <2>2. all[k + 1] = Sent(all[k], s, T, k + 1)
    BY <1>1, <2>1
  <2>3. CASE k + 1 = j
    <3>1. all[k] = ls /\ s[k + 1] = s[j] /\ s[k + 1] \in T
      BY <2>1, <2>3
    <3> QED  BY <2>2, <2>3, <3>1 DEF Sent, new
  <2>4. CASE k + 1 # j
    <3>1. all[k + 1] = all[k]
      BY <2>1, <2>2, <2>4 DEF Sent
    <3> QED  BY <2>1, <2>4, <3>1
  <2> QED  BY <2>3, <2>4
<1> HIDE DEF P
<1>4. Len(s) \in P
  BY <1>2, <1>3, AllNaturals
<1> QED  BY <1>1, <1>4 DEF P, new

\* Set_Value's loop detaches the first child; it is the one that goes home next.
LEMMA BarerLists ==
  ASSUME NEW h, Lawful(h), NEW a \in Node, NEW g, g = Barer(h, a),
         NEW s, s = ListsOf(h)[<<a, "children">>],
         NEW t, t = ListsOf(g)[<<a, "children">>]
  PROVE  /\ Distinct(s) /\ Distinct(t)
         /\ s = <<>> => g = h
         /\ s # <<>> => /\ h[s[1]].kind # "absent"
                        /\ ListsOf(g) = Forest!Moved(ListsOf(h), s[1], <<h[s[1]].document, "detached">>)
                        /\ Len(t) = Len(s) - 1
                        /\ \A i \in 1 .. Len(s) - 1 : t[i] = s[i + 1]
<1> DEFINE at == <<a, "children">>
           c == s[1]
           to == <<h[c].document, "detached">>
<1>1. at \in Lists /\ a \in Nodes /\ "children" \in List
  BY DEF Lists, Nodes, List
<1>2. Lawful(g)
  BY DetachesFirst
<1>3. /\ LaidOut(h, ListsOf(h)) /\ NodesOf(s) = On(h, a, "children") /\ Distinct(s)
      /\ Distinct(t)
  BY <1>1, <1>2, LawfulLays
<1>4. s \in Seq(Node) /\ Len(s) \in Nat
  BY <1>3 DEF Distinct
<1>5. h[a].first["children"] = IF s = <<>> THEN Null ELSE s[1]
  BY <1>1, <1>3 DEF LaidOut, Spells
<1>6. s = <<>> => g = h
  BY <1>5 DEF Barer
<1>7. ASSUME s # <<>>
      PROVE  /\ h[c].kind # "absent"
             /\ ListsOf(g) = Forest!Moved(ListsOf(h), c, to)
             /\ Len(t) = Len(s) - 1
             /\ \A i \in 1 .. Len(s) - 1 : t[i] = s[i + 1]
  <2>1. 1 \in 1 .. Len(s) /\ c \in Node /\ c # Null /\ c \in On(h, a, "children")
    BY <1>3, <1>4, <1>7, DomAssumption DEF NodesOf
  <2>2. h[c].kind \notin {"absent", "attribute"} /\ h[c].parent # Null
    BY <2>1, <1>1, DomAssumption DEF On, HomeOf, Nodes
  <2>3. g = Detached(h, c)
    BY <1>5, <1>7, <2>1 DEF Barer
  <2>4. ListsOf(g) = Forest!Moved(ListsOf(h), c, to)
    BY <2>1, <2>2, <2>3, DetachedLists
  <2>5. t = Rid(s, c)
    <3>1. at # to
      OBVIOUS
    <3>2. ListsOf(g)[at] = Out(ListsOf(h), c)[at]
      BY <1>1, <2>4, <3>1, MovedIs DEF Into
    <3> QED  BY <1>1, <3>2 DEF Out
  <2> HIDE DEF c, to
  <2>6. /\ Len(Rid(s, c)) = Len(s) - 1
        /\ \A i \in 1 .. Len(s) - 1 : Rid(s, c)[i] = IF i < 1 THEN s[i] ELSE s[i + 1]
    <3> DEFINE k == 1
    <3>1. k \in 1 .. Len(s) /\ c = s[k] /\ Distinct(s)
      BY <1>3, <2>1 DEF c
    <3> HIDE DEF k
    <3>2. /\ Len(Rid(s, c)) = Len(s) - 1
          /\ \A i \in 1 .. Len(s) - 1 : Rid(s, c)[i] = IF i < k THEN s[i] ELSE s[i + 1]
      BY ONLY <3>1, RidOfOne
    <3> QED  BY <3>2 DEF k
  <2>7. Len(t) = Len(s) - 1 /\ \A i \in 1 .. Len(s) - 1 : t[i] = s[i + 1]
    BY <1>4, <2>5, <2>6
  <2> QED  BY <2>2, <2>4, <2>7
<1> QED  BY <1>3, <1>6, <1>7

\* All children go home.
LEMMA BaredLists ==
  ASSUME NEW h, Lawful(h), NEW a \in Node, NEW g, g = Bared(h, a, Cardinality(Node)),
         NEW s, s = ListsOf(h)[<<a, "children">>],
         \A i \in 1 .. Len(s) : h[s[i]].document = node[s[i]].document
  PROVE  ListsOf(g) = Forest!AllHome(ListsOf(h), s, Node)
<1> DEFINE N == Cardinality(Node)
           at == <<a, "children">>
           m == Len(s)
<1>1. at \in Lists /\ N \in Nat
  BY DomAssumption, FS_CardinalityType DEF Lists
<1>2. s \in Seq(Node) /\ m \in Nat /\ m <= N /\ \A i \in 1 .. m : s[i] \in Node
  <2>1. h \in Heaps /\ IsList(On(h, a, "children"), h, a, "children")
    BY AllLists DEF Nodes, List
  <2>2. s = Members(h, a, "children") /\ a \in Nodes /\ "children" \in List
    BY <1>1, LawfulLays DEF Nodes, List
  <2>3. s \in Seq(Node) /\ m \in Nat /\ m = Cardinality(On(h, a, "children"))
    BY <2>1, <2>2, MembersAre
  <2>4. Cardinality(On(h, a, "children")) <= N
    BY OnList, DomAssumption, FS_Subset
  <2> QED  BY <2>3, <2>4
<1>3. PICK bare : /\ g = bare[N]
                  /\ \A i \in 0 .. N : /\ bare[i] = IF i = 0 THEN h ELSE Barer(bare[i - 1], a)
                                       /\ Lawful(bare[i]) /\ SameNature(bare[i], h)
  BY <1>1, BaredRuns
<1>4. PICK all : /\ Forest!AllHome(ListsOf(h), s, Node) = all[m]
                 /\ \A k \in 0 .. m :
                      all[k] = IF k = 0 THEN ListsOf(h) ELSE Sent(all[k - 1], s, Node, k)
  BY <1>2, AllHomeRuns
<1> HIDE DEF N, m
<1> DEFINE Left(i) == ListsOf(bare[i])[at]
           P == {i \in Nat : i <= m => /\ ListsOf(bare[i]) = all[i]
                                       /\ Len(Left(i)) = m - i
                                       /\ \A k \in 1 .. m - i : Left(i)[k] = s[i + k]}
           Q == {i \in Nat : m + i <= N => ListsOf(bare[m + i]) = all[m] /\ Len(Left(m + i)) = 0}
<1>5. 0 \in P
  <2>1. bare[0] = h /\ all[0] = ListsOf(h)
    BY <1>1, <1>2, <1>3, <1>4
  <2> QED  BY <1>2, <2>1 DEF m
<1>6. ASSUME NEW i \in Nat, i \in P PROVE i + 1 \in P
  <2> SUFFICES ASSUME i + 1 <= m
               PROVE  /\ ListsOf(bare[i + 1]) = all[i + 1]
                      /\ Len(Left(i + 1)) = m - (i + 1)
                      /\ \A k \in 1 .. m - (i + 1) : Left(i + 1)[k] = s[(i + 1) + k]
    BY SMTT(30)
  <2>1. /\ ListsOf(bare[i]) = all[i] /\ Len(Left(i)) = m - i
        /\ \A k \in 1 .. m - i : Left(i)[k] = s[i + k]
    BY <1>2, <1>6
  <2>2. /\ i \in 0 .. N /\ i + 1 \in 0 .. N /\ i + 1 \in 0 .. m /\ i + 1 \in 1 .. m
        /\ i + 1 # 0 /\ (i + 1) - 1 = i /\ 1 \in 1 .. m - i
    BY <1>1, <1>2
  <2>3. /\ bare[i + 1] = Barer(bare[i], a) /\ Lawful(bare[i]) /\ SameNature(bare[i], h)
        /\ all[i + 1] = Sent(all[i], s, Node, i + 1)
    BY <1>3, <1>4, <2>2
  <2> DEFINE u == Left(i)
             t == Left(i + 1)
             x == s[i + 1]
  <2>4. /\ Distinct(u) /\ Distinct(t)
        /\ u # <<>> =>
             /\ ListsOf(bare[i + 1]) =
                  Forest!Moved(ListsOf(bare[i]), u[1], <<bare[i][u[1]].document, "detached">>)
             /\ Len(t) = Len(u) - 1
             /\ \A k \in 1 .. Len(u) - 1 : t[k] = u[k + 1]
    <3> DEFINE f == bare[i]
               g1 == bare[i + 1]
    <3>1. /\ u = ListsOf(f)[<<a, "children">>] /\ t = ListsOf(g1)[<<a, "children">>]
          /\ Lawful(f) /\ g1 = Barer(f, a)
      BY <2>3
    <3> HIDE DEF u, t, f, g1
    <3>2. /\ Distinct(u) /\ Distinct(t)
          /\ u # <<>> =>
               /\ ListsOf(g1) = Forest!Moved(ListsOf(f), u[1], <<f[u[1]].document, "detached">>)
               /\ Len(t) = Len(u) - 1
               /\ \A k \in 1 .. Len(u) - 1 : t[k] = u[k + 1]
      BY <3>1, BarerLists
    <3> QED  BY <3>2 DEF f, g1
  <2>5. u # <<>> /\ u[1] = x /\ x \in Node
    <3>1. Len(u) # 0
      BY <2>1, <2>2
    <3>2. u[1] = s[i + 1]
      BY <2>1, <2>2
    <3> QED  BY <1>2, <2>2, <3>1, <3>2
  <2>6. bare[i][x].document = node[x].document
    BY <2>2, <2>3, <2>5 DEF SameNature, Nodes, m
  <2>7. Forest!Home(x) = <<node[x].document, "detached">>
    BY <2>5 DEF Forest!Home
  <2>8. all[i + 1] = Forest!Moved(all[i], x, Forest!Home(x))
    BY <2>3, <2>5 DEF Sent
  <2>9. ListsOf(bare[i + 1]) = all[i + 1]
    <3> HIDE DEF u, t, x
    <3> QED  BY <2>1, <2>4, <2>5, <2>6, <2>7, <2>8
  <2>10. Len(t) = m - (i + 1)
    <3> HIDE DEF t
    <3> QED  BY <1>2, <2>1, <2>4, <2>5
  <2>11. ASSUME NEW k \in 1 .. m - (i + 1) PROVE t[k] = s[(i + 1) + k]
    <3>1. k \in 1 .. (m - i) - 1 /\ k + 1 \in 1 .. m - i /\ i + (k + 1) = (i + 1) + k
      BY <1>2
    <3>2. t[k] = u[k + 1]
      BY <2>1, <2>4, <2>5, <3>1
    <3>3. u[k + 1] = s[i + (k + 1)]
      BY <2>1, <3>1
    <3> QED  BY <3>1, <3>2, <3>3
  <2> QED  BY <2>9, <2>10, <2>11
<1>7. m \in P
  <2> HIDE DEF P
  <2> QED  BY <1>2, <1>5, <1>6, AllNaturals
<1>8. 0 \in Q
  BY <1>2, <1>7
<1>9. ASSUME NEW i \in Nat, i \in Q PROVE i + 1 \in Q
  <2> SUFFICES ASSUME m + (i + 1) <= N
               PROVE  ListsOf(bare[m + (i + 1)]) = all[m] /\ Len(Left(m + (i + 1))) = 0
    OBVIOUS
  <2> DEFINE j == m + i
  <2>1. /\ j \in 0 .. N /\ j + 1 \in 0 .. N /\ j + 1 # 0 /\ (j + 1) - 1 = j
        /\ m + (i + 1) = j + 1 /\ j <= N
    BY <1>1, <1>2
  <2>2. ListsOf(bare[j]) = all[m] /\ Len(Left(j)) = 0
    BY <1>9, <2>1
  <2> HIDE DEF j
  <2>3. bare[j + 1] = Barer(bare[j], a) /\ Lawful(bare[j])
    BY <1>3, <2>1
  <2>4. Distinct(Left(j)) /\ (Left(j) = <<>> => bare[j + 1] = bare[j])
    BY <2>3, BarerLists
  <2>5. Left(j) = <<>>
    BY <2>2, <2>4 DEF Distinct
  <2> QED  BY <2>1, <2>2, <2>4, <2>5
<1> HIDE DEF P
<1>10. N - m \in Nat /\ m + (N - m) = N
  BY <1>1, <1>2
<1>11. N - m \in Q
  <2> HIDE DEF Q
  <2> QED  BY <1>8, <1>9, <1>10, AllNaturals
<1>12. m + (N - m) <= N
  BY <1>1, <1>10
<1>13. ListsOf(bare[m + (N - m)]) = all[m]
  BY <1>11, <1>12
<1> QED  BY <1>3, <1>4, <1>10, <1>13

\* The new text becomes the last child of what Set_Value leaves.
LEMMA ValuedLists ==
  ASSUME NEW h, Lawful(h), NEW a \in Node, h[a].kind = "attribute",
         NEW t \in Node, h[t].kind = "absent", NEW g, g = Valued(h, a, t),
         NEW b, b = Bared(h, a, Cardinality(Node))
  PROVE  ListsOf(g) = Forest!Moved(ListsOf(b), t, <<a, "children">>)
<1> DEFINE d == h[a].document
           kind == "text"
           name == Null
           m == Created(b, t, kind, name, d)
           to == <<a, "children">>
<1>1. Lawful(b) /\ SameNature(b, h)
  BY Bares, DomAssumption, FS_CardinalityType
<1>2. /\ a \in Nodes /\ t \in Nodes /\ d \in Document /\ d \in Nodes
      /\ h[d].kind = "document"
  BY DEF Lawful, Fits, Nodes
<1>3. b[t].kind = "absent" /\ b[d].kind = "document"
  BY <1>1, <1>2 DEF SameNature
<1>4. g = Appended(m, a, t)
  BY DEF Valued
<1>5. kind \in {"element", "attribute", "text"} /\ name \in Name \cup {Null} /\ kind \notin {"absent", "attribute"}
  OBVIOUS
<1> HIDE DEF d, m, kind, name
<1>6. /\ Lawful(m) /\ m[t].kind = kind
      /\ Free(ListsOf(b), t) /\ ListsOf(m) = Into(ListsOf(b), t, <<d, "detached">>)
  BY <1>1, <1>2, <1>3, <1>5, Creates, CreatedLists DEF m
<1>7. ListsOf(g) = Forest!Moved(ListsOf(m), t, to)
  BY <1>2, <1>4, <1>5, <1>6, AppendedLists
<1>8. LaidOut(b, ListsOf(b))
  BY <1>1, LawfulLays
<1> QED  BY <1>6, <1>7, <1>8, FreeMoves

-----------------------------------------------------------------------------
(***************************************************************************)
(* Steps of DomForest.                                                     *)
(***************************************************************************)

OwnersOf(h) == [n \in Node |-> h[n].document]
NamesOf(h)  == [n \in Node |-> h[n].name]

\* The open elements, as the builder b has them.
OpenOf(b) ==
  LET path == b.stack \o <<b.parent, b.current>>
      from == SelectLastInSeq(path, LAMBDA x : x \in Document)
  IN  IF b.current = Null THEN <<>> ELSE SubSeq(path, from, Len(path))

\* The variables of DomForest.
LEMMA MappedVars ==
  /\ Forest!forestVars = <<ListsOf(node), OwnersOf(node), NamesOf(node), OpenOf(builder),
                          builder.document>>
  /\ Forest!forestVars' = <<ListsOf(node'), OwnersOf(node'), NamesOf(node'), OpenOf(builder'),
                           builder'.document>>
  /\ Open = OpenOf(builder) /\ Open' = OpenOf(builder')
<1>1. Open = OpenOf(builder) /\ Open' = OpenOf(builder')
  BY DEF Open, OpenOf, SelectLastInSeq
<1> QED  BY <1>1 DEF Forest!forestVars, ListsOf, OwnersOf, NamesOf

\* Steps that they do not notice.
LEMMA ForestStays ==
  ASSUME ListsOf(node') = ListsOf(node), OwnersOf(node') = OwnersOf(node),
         NamesOf(node') = NamesOf(node), OpenOf(builder') = OpenOf(builder),
         builder'.document = builder.document
  PROVE  UNCHANGED Forest!forestVars
BY MappedVars

\* With the nature of nodes, their owners and names stay.
LEMMA NatureStays ==
  ASSUME NEW g, NEW h, SameNature(g, h)
  PROVE  OwnersOf(g) = OwnersOf(h) /\ NamesOf(g) = NamesOf(h)
BY DEF SameNature, OwnersOf, NamesOf, Nodes

\* Unless a node is new.
NewIn(g, h, n, d, x) ==
  /\ g[n].document = d /\ g[n].name = x
  /\ \A y \in Nodes \ {n} : g[y].document = h[y].document /\ g[y].name = h[y].name

Put(f, n, v) == [f EXCEPT ![n] = v]

\* It belongs to its document, and has its name.
LEMMA NatureBorn ==
  ASSUME NEW g, NEW h, NEW n \in Node, NEW d, NEW x, NewIn(g, h, n, d, x)
  PROVE  /\ OwnersOf(g) = Put(OwnersOf(h), n, d) /\ OwnersOf(g)[n] = d
         /\ NamesOf(g) = Put(NamesOf(h), n, x)
BY DEF NewIn, OwnersOf, NamesOf, Nodes, Put

\* A node that moves is the last one where it moves to.
LEMMA EndsMoved ==
  ASSUME NEW h, Lawful(h), NEW n \in Node, NEW to \in Lists
  PROVE  Forest!EndsWith(Forest!Moved(ListsOf(h), n, to)[to], n)
<1> DEFINE t == Forest!Moved(ListsOf(h), n, to)[to]
           s == Out(ListsOf(h), n)[to]
<1>1. t = Append(s, n)
  BY MovedIs DEF Into
<1>2. s \in Seq(Node)
  <2>1. Distinct(ListsOf(h)[to])
    BY LawfulLays
  <2> QED  BY <2>1, RidLeaves DEF Out, Distinct
<1> HIDE DEF s, t
<1>3. t # <<>> /\ t[Len(t)] = n
  BY <1>1, <1>2
<1>4. Forest!EndsWith(t, n)
  BY <1>3 DEF Forest!EndsWith, Forest!Last
<1> QED  BY <1>4 DEF t

\* A node of a document moves.
LEMMA ForestMoves ==
  ASSUME Lawful(node), NEW n \in Node, node[n].document # Null, NEW to \in Lists,
         ListsOf(node') = Forest!Moved(ListsOf(node), n, to)
  PROVE  Forest!Move(n, to)
<1>1. ~Forest!Fresh(n)
  BY DEF Forest!Fresh
<1>2. Forest!EndsWith(ListsOf(node')[to], n)
  BY EndsMoved
<1> QED  BY <1>1, <1>2 DEF Forest!Move, ListsOf

-----------------------------------------------------------------------------
(***************************************************************************)
(* The program's steps, as those of DomForest.                             *)
(***************************************************************************)

\* A new document is on no list, and has none yet.
LEMMA DocumentLists ==
  ASSUME Lawful(node), NEW d \in Document, CreateDocument(d)
  PROVE  /\ ListsOf(node') = ListsOf(node)
         /\ OwnersOf(node') = OwnersOf(node) /\ NamesOf(node') = NamesOf(node)
<1> DEFINE r == [node[d] EXCEPT !.kind = "document", !.document = d]
           g == node'
           ls == ListsOf(node)
<1>1. d \in Nodes /\ d \notin Node /\ node \in Heaps /\ node[d] \in Nodal
  BY DomAssumption DEF Nodes, Lawful, Heaps
<1>2. g = [node EXCEPT ![d] = r]
  BY <1>1 DEF CreateDocument, Heaps
<1>3. r.first = node[d].first /\ r.last = node[d].last
  BY <1>1 DEF Nodal
<1> HIDE DEF r
<1>4. \A x \in Nodes : g[x] = IF x = d THEN r ELSE node[x]
  BY <1>1, <1>2 DEF Heaps
<1>5. Lawful(g)
  BY CreateDocumentLawful
<1>6. LaidOut(node, ls) /\ \A l \in Lists : NodesOf(ls[l]) = On(node, l[1], l[2])
  BY LawfulLays
<1> HIDE DEF g, ls
<1>7. Free(ls, d)
  BY <1>1, <1>6 DEF Free, On
<1>8. SameEnds(g, node) /\ \A x \in Nodes \ {d} : g[x] = node[x]
  BY <1>3, <1>4 DEF SameEnds
<1>9. LaidOut(g, ls)
  BY <1>6, <1>7, <1>8, OthersLay
<1>10. ListsOf(g) = ls
  BY <1>5, <1>9, LaysOne
<1>11. OwnersOf(g) = OwnersOf(node) /\ NamesOf(g) = NamesOf(node)
  BY <1>1, <1>8 DEF OwnersOf, NamesOf, Nodes
<1> QED  BY <1>10, <1>11 DEF g, ls

\* A node is born.
LEMMA ForestBorn ==
  ASSUME NEW n \in Node, NEW d, NEW x, node[n].document = Null, NewIn(node', node, n, d, x)
  PROVE  Forest!Born(n, d, x)
<1>1. /\ OwnersOf(node') = Put(OwnersOf(node), n, d) /\ OwnersOf(node')[n] = d
      /\ NamesOf(node') = Put(NamesOf(node), n, x)
  BY NatureBorn
<1> QED  BY <1>1 DEF Put, Forest!Born, Forest!Fresh, OwnersOf, NamesOf

\* Steps that move a node, and do nothing else.
LEMMA MoveSteps ==
  ASSUME OwnersOf(node') = OwnersOf(node), NamesOf(node') = NamesOf(node),
         OpenOf(builder') = OpenOf(builder), builder'.document = builder.document,
         NEW n \in Node,
         \/ Forest!Move(n, Forest!Home(n))
         \/ \E p \in Nodes : Forest!AppendChild(p, n)
         \/ \E e \in Node : Forest!SetAttribute(e, n)
  PROVE  Forest!Next
BY MappedVars DEF Forest!Next, OwnersOf, NamesOf, Nodes

\* A node that is created.
LEMMA ForestCreates ==
  ASSUME Lawful(node), NEW n \in Node, node[n].kind = "absent",
         NEW kind \in {"element", "attribute", "text"}, NEW name \in Name \cup {Null},
         NEW d \in Document, node[d].kind = "document",
         node' = Created(node, n, kind, name, d), UNCHANGED builder
  PROVE  Forest!Next
<1> DEFINE g == node'
           to == <<d, "detached">>
<1>1. NewIn(g, node, n, d, name)
  <2>1. /\ g[n].name = name /\ g[n].document = d
        /\ \A x \in Nodes \ {n} : g[x].name = node[x].name /\ g[x].document = node[x].document
    BY Creates
  <2> QED  BY <2>1 DEF NewIn
<1>2. Free(ListsOf(node), n) /\ ListsOf(g) = Into(ListsOf(node), n, to)
  BY CreatedLists
<1>3. node[n].document = Null
  BY DomAssumption DEF Lawful, Fits
<1>4. Forest!Born(n, d, name)
  BY <1>1, <1>3, ForestBorn
<1>5. LaidOut(node, ListsOf(node))
  BY LawfulLays
<1>6. ListsOf(g) = Forest!Moved(ListsOf(node), n, to)
  BY <1>2, <1>5, FreeMoves
<1>7. Open' = Open
  BY MappedVars
<1>8. Forest!Create(n, d, name)
  BY <1>4, <1>6, <1>7 DEF Forest!Create, ListsOf
<1> QED  BY <1>8 DEF Forest!Next

\* Append_Child.
LEMMA ForestAppends ==
  ASSUME Tolerant, Lawful(node), NEW p \in Nodes, NEW n \in Node, AppendChild(p, n), UNCHANGED builder
  PROVE  Forest!Next
<1> DEFINE to == <<p, "children">>
<1>1. node[n].kind \notin {"absent", "attribute"} /\ node' = Appended(node, p, n)
  BY DEF AppendChild, Is
<1>2. SameNature(node', node) /\ node[n].document # Null
  BY <1>1, Appends, IsOnList, DomAssumption
<1>3. OwnersOf(node') = OwnersOf(node) /\ NamesOf(node') = NamesOf(node)
  BY <1>2, NatureStays
<1>4. ListsOf(node') = Forest!Moved(ListsOf(node), n, to) /\ to \in Lists
  BY <1>1, AppendedLists DEF Lists, Nodes
<1> HIDE DEF to
<1>5. Forest!Move(n, to)
  BY <1>2, <1>4, ForestMoves
<1>6. Forest!AppendChild(p, n)
  BY <1>5 DEF Forest!AppendChild, to
<1> QED  BY <1>3, <1>6, MoveSteps

\* Remove_Child.
LEMMA ForestDetaches ==
  ASSUME Lawful(node), NEW n \in Node, node[n].kind \notin {"absent", "attribute"},
         node[n].parent # Null, node' = Detached(node, n), UNCHANGED builder
  PROVE  Forest!Next
<1> DEFINE to == <<node[n].document, "detached">>
<1>1. SameNature(node', node) /\ node[n].document \in Document /\ node[n].document # Null
  BY Detaches, IsOnList, DomAssumption
<1>2. OwnersOf(node') = OwnersOf(node) /\ NamesOf(node') = NamesOf(node)
  BY <1>1, NatureStays
<1>3. ListsOf(node') = Forest!Moved(ListsOf(node), n, to) /\ to \in Lists
  BY <1>1, DetachedLists DEF Lists
<1>4. to = Forest!Home(n)
  BY DEF Forest!Home
<1> HIDE DEF to
<1>5. Forest!Move(n, to)
  BY <1>1, <1>3, ForestMoves
<1> QED  BY <1>2, <1>4, <1>5, MoveSteps

\* The attribute that makes way for a in h is the one of T that goes home in ls.
WaysAlike(ls, T, h, e, a) ==
  LET new  == Forest!AllHome(ls, ListsOf(h)[<<e, "attributes">>], T)
      rest == ListsOf(WayFor(h, e, a))
  IN  \/ new = ls /\ rest = ListsOf(h)
      \/ \E b \in Node \ {a} : \E to :
           new = Forest!Moved(ls, b, to) /\ rest = Forest!Moved(ListsOf(h), b, to)

\* It is, if T are the nodes of that name.
LEMMA WayIsHome ==
  ASSUME NEW h, Lawful(h), NEW e \in Node, h[e].kind = "element",
         NEW a \in Node, h[a].kind = "attribute", h[a].parent = Null, NEW T, NEW ls,
         \A x \in On(h, e, "attributes") : /\ h[x].document = node[x].document
                                           /\ x \in T <=> x # a /\ h[x].name = h[a].name
  PROVE  WaysAlike(ls, T, h, e, a)
<1> DEFINE s == ListsOf(h)[<<e, "attributes">>]
           rest == ListsOf(WayFor(h, e, a))
<1>0. s \in Seq(Node) /\ NodesOf(s) = On(h, e, "attributes")
  BY LawfulLays DEF Lists, Distinct
<1> HIDE DEF s, rest
<1>1. /\ s \in Seq(Node)
      /\ \A i \in 1 .. Len(s) : /\ s[i] \in Node /\ h[s[i]].document = node[s[i]].document
                                /\ s[i] \in T <=> s[i] # a /\ h[s[i]].name = h[a].name
  BY <1>0 DEF NodesOf
<1>2. CASE rest = ListsOf(h) /\ \A i \in 1 .. Len(s) : h[s[i]].name # h[a].name
  <2>1. \A i \in 1 .. Len(s) : s[i] \notin T
    BY <1>1, <1>2
  <2>2. Forest!AllHome(ls, s, T) = ls
    BY <1>1, <2>1, AllHomeNone
  <2> QED  BY <1>2, <2>2 DEF WaysAlike, s, rest
<1>3. CASE \E k \in 1 .. Len(s) :
             /\ s[k] # a /\ h[s[k]].kind = "attribute" /\ h[s[k]].name = h[a].name
             /\ \A i \in 1 .. Len(s) : h[s[i]].name = h[a].name => i = k
             /\ rest = Forest!Moved(ListsOf(h), s[k], <<h[s[k]].document, "detached">>)
  <2> PICK k \in 1 .. Len(s) :
             /\ s[k] # a /\ h[s[k]].name = h[a].name
             /\ \A i \in 1 .. Len(s) : h[s[i]].name = h[a].name => i = k
             /\ rest = Forest!Moved(ListsOf(h), s[k], <<h[s[k]].document, "detached">>)
    BY <1>3
  <2>1. \A i \in 1 .. Len(s) : s[i] \in T <=> i = k
    BY <1>1
  <2>2. Forest!AllHome(ls, s, T) = Forest!Moved(ls, s[k], Forest!Home(s[k]))
    <3> HIDE DEF Forest!Home
    <3> QED  BY ONLY <1>1, <2>1, k \in 1 .. Len(s), AllHomeOne
  <2>3. Forest!Home(s[k]) = <<h[s[k]].document, "detached">>
    BY <1>1 DEF Forest!Home
  <2> QED  BY <1>1, <2>2, <2>3 DEF WaysAlike, s, rest
<1>4. WayMade(h, e, a)
  BY MakesWayLists
<1> QED  BY <1>2, <1>3, <1>4 DEF WayMade, s, rest

\* Set_Attribute_Node_NS.
LEMMA ForestAttributes ==
  ASSUME Lawful(node), NEW e \in Node, NEW a \in Node, SetAttributeNodeNS(e, a),
         UNCHANGED builder
  PROVE  Forest!Next
<1> DEFINE to == <<e, "attributes">>
           s == ListsOf(node)[to]
           rest == WayFor(node, e, a)
           T == {n \in Node \ {a} : node[n].name = node[a].name}
<1>1. /\ node[e].kind = "element" /\ node[a].kind = "attribute" /\ node[a].parent = Null
      /\ node[a].document = node[e].document /\ node' = Attributed(node, e, a)
  BY DEF SetAttributeNodeNS, Is
<1>2. SameNature(node', node) /\ node[a].document # Null
  BY <1>1, Attributes, IsOnList, DomAssumption
<1>3. OwnersOf(node') = OwnersOf(node) /\ NamesOf(node') = NamesOf(node)
  BY <1>2, NatureStays
<1>4. Forest!AllHome(ListsOf(node), s, T) = ListsOf(rest)
  <2>1. \A x \in On(node, e, "attributes") : /\ node[x].document = node[x].document
                                             /\ x \in T <=> x # a /\ node[x].name = node[a].name
    BY DEF On
  <2> DEFINE ls == ListsOf(node)
  <2> HIDE DEF T, ls
  <2>2. WaysAlike(ls, T, node, e, a)
    BY <1>1, <2>1, WayIsHome
  <2> QED  BY <2>2 DEF WaysAlike, ls
<1>5. Lawful(rest) /\ to \in Lists
  BY <1>1, MakesWay DEF Lists
<1>6. ListsOf(node') = Forest!Moved(ListsOf(rest), a, to)
  BY <1>1, AttributedLists
<1> HIDE DEF rest
<1>7. Forest!EndsWith(ListsOf(node')[to], a)
  BY <1>5, <1>6, EndsMoved
<1>8. ListsOf(node') = Forest!Attributed(ListsOf(node), e, a, node[a].name)
  BY <1>4, <1>6 DEF Forest!Attributed
<1>9. a \in Forest!Range(ListsOf(node)[Forest!Home(a)])
  <2> DEFINE at == HomeOf(node, a)
             u == ListsOf(node)[at]
  <2>1. at = Forest!Home(a)
    BY <1>1 DEF HomeOf, Forest!Home
  <2>2. at \in Lists /\ a \in NodesOf(u)
    BY <1>1, ListHasIt
  <2>3. u \in Seq(Node)
    BY <2>2, LawfulLays DEF Distinct
  <2> HIDE DEF u, at
  <2>4. a \in Forest!Range(u)
    BY <2>2, <2>3 DEF NodesOf, Forest!Range
  <2> QED  BY <2>1, <2>4 DEF u
<1>10. Forest!SetAttribute(e, a)
  BY <1>1, <1>2, <1>7, <1>8, <1>9 DEF Forest!SetAttribute, Forest!Fresh, ListsOf
<1> QED  BY <1>3, <1>10, MoveSteps

\* Set_Value.
LEMMA ForestValues ==
  ASSUME Lawful(node), NEW a \in Node, NEW t \in Node, SetValue(a, t), UNCHANGED builder
  PROVE  Forest!Next
<1> DEFINE at == <<a, "children">>
           s == ListsOf(node)[at]
           b == Bared(node, a, Cardinality(Node))
<1>1. node[a].kind = "attribute" /\ node[t].kind = "absent" /\ node' = Valued(node, a, t)
  BY DEF SetValue, Is
<1>2. NewIn(node', node, t, node[a].document, Null)
  BY <1>1, Values DEF NewIn
<1>3. node[t].document = Null /\ node[a].document # Null
  BY <1>1, DomAssumption, IsOnList DEF Lawful, Fits
<1>4. Forest!Born(t, node[a].document, Null)
  BY <1>2, <1>3, ForestBorn
<1>5. ListsOf(b) = Forest!AllHome(ListsOf(node), s, Node)
  <2> HIDE DEF s, b
  <2> QED  BY BaredLists DEF s, b
<1>6. ListsOf(node') = Forest!Moved(ListsOf(b), t, at)
  <2> HIDE DEF b
  <2> QED  BY <1>1, ValuedLists DEF b
<1>7. Open' = Open
  BY MappedVars
<1> HIDE DEF b
<1>8. Forest!SetValue(a, t)
  BY <1>3, <1>4, <1>5, <1>6, <1>7 DEF Forest!SetValue, Forest!Valued, Forest!Fresh, ListsOf
<1> QED  BY <1>8 DEF Forest!Next

\* Every step of the program is one of DomForest.
LEMMA ProgramMoves ==
  ASSUME Tolerant, Lawful(node), ~RemovesAttributes, Next, UNCHANGED builder
  PROVE  [Forest!Next]_Forest!forestVars
<1>0. \A n \in Node : node[n].kind # "absent" \/ node[n].parent = Null
  BY DEF Lawful, Fits
<1>1. CASE \E d \in Document : CreateDocument(d)
  BY <1>1, DocumentLists, ForestStays
<1>2. CASE \E d \in Document, n \in Node : CreateElement(n, d)
  <2> DEFINE kind == "element"
             name == Null
  <2>1. kind \in {"element", "attribute", "text"} /\ name \in Name \cup {Null}
    OBVIOUS
  <2>2. \E d \in Document, n \in Node : /\ node[n].kind = "absent" /\ node[d].kind = "document"
                                        /\ node' = Created(node, n, kind, name, d)
    BY <1>2 DEF CreateElement, MayCreate, Is
  <2> HIDE DEF kind, name
  <2> QED  BY <2>1, <2>2, ForestCreates
<1>3. CASE \E d \in Document, n \in Node : CreateTextNode(n, d)
  <2> DEFINE kind == "text"
             name == Null
  <2>1. kind \in {"element", "attribute", "text"} /\ name \in Name \cup {Null}
    OBVIOUS
  <2>2. \E d \in Document, n \in Node : /\ node[n].kind = "absent" /\ node[d].kind = "document"
                                        /\ node' = Created(node, n, kind, name, d)
    BY <1>3 DEF CreateTextNode, MayCreate, Is
  <2> HIDE DEF kind, name
  <2> QED  BY <2>1, <2>2, ForestCreates
<1>4. CASE \E d \in Document, n \in Node, name \in Name : CreateAttribute(n, d, name)
  <2> DEFINE kind == "attribute"
  <2>1. kind \in {"element", "attribute", "text"} /\ \A x \in Name : x \in Name \cup {Null}
    OBVIOUS
  <2>2. \E d \in Document, n \in Node, x \in Name :
          /\ node[n].kind = "absent" /\ node[d].kind = "document"
          /\ node' = Created(node, n, kind, x, d)
    BY <1>4 DEF CreateAttribute, MayCreate, Is
  <2> HIDE DEF kind
  <2> QED  BY <2>1, <2>2, ForestCreates
<1>5. CASE \E p \in Nodes, n \in Node : AppendChild(p, n)
  BY <1>5, ForestAppends
<1>6. CASE \E p \in Nodes, n \in Node : RemoveChild(p, n)
  <2> PICK p \in Nodes, n \in Node : RemoveChild(p, n)
    BY <1>6
  <2>1. p # Null
    BY DomAssumption DEF Nodes
  <2>2. /\ node[n].kind \notin {"absent", "attribute"} /\ node[n].parent # Null
        /\ node' = Detached(node, n)
    BY <1>0, <2>1 DEF RemoveChild, Is
  <2> QED  BY <2>2, ForestDetaches
<1>7. CASE \E e, a \in Node : SetAttributeNodeNS(e, a)
  BY <1>7, ForestAttributes
<1>8. CASE \E a, t \in Node : SetValue(a, t)
  BY <1>8, ForestValues
<1> QED  BY <1>1, <1>2, <1>3, <1>4, <1>5, <1>6, <1>7, <1>8 DEF Next

-----------------------------------------------------------------------------
(***************************************************************************)
(* The open elements.                                                      *)
(***************************************************************************)

PathOf(b) == b.stack \o <<b.parent, b.current>>

\* The document that is read into is the j-th on the path, with elements from there on.
OpensAt(b, j) ==
  LET path == PathOf(b)
  IN  /\ j \in 1 .. Len(path) /\ path[j] \in Document
      /\ \A i \in j + 1 .. Len(path) : path[i] \in Node

\* While something is read, there is such a place.
Opened(b) == b.current # Null => \E j : OpensAt(b, j)

\* The path, place by place.
LEMMA PathIs ==
  ASSUME NEW b, NEW R, b.stack \in Seq(R)
  PROVE  LET m == Len(b.stack)
         IN  /\ m \in Nat /\ Len(PathOf(b)) = m + 2
             /\ PathOf(b)[m + 1] = b.parent /\ PathOf(b)[m + 2] = b.current
             /\ \A i \in 1 .. m : PathOf(b)[i] = b.stack[i]
BY DEF PathOf

\* The open elements are what is on the path from there on.
LEMMA OpenIs ==
  ASSUME NEW b \in Builders, b.current # Null, NEW j, OpensAt(b, j)
  PROVE  LET path == PathOf(b)
             open == OpenOf(b)
         IN  /\ open \in Seq(Nodes \cup {Null})
             /\ Len(path) \in Nat /\ j \in 1 .. Len(path) /\ Len(open) = Len(path) - j + 1
             /\ \A i \in 1 .. Len(path) - j + 1 : open[i] = path[j + i - 1]
<1> DEFINE path == PathOf(b)
           I == {i \in 1 .. Len(path) : path[i] \in Document}
<1>1. Len(path) \in Nat /\ path \in Seq(Nodes \cup {Null})
  BY PathIs DEF Builders, PathOf
<1>2. j \in I /\ \A i \in I : i <= j
  <2>1. j \in 1 .. Len(path) /\ path[j] \in Document /\ \A i \in j + 1 .. Len(path) : path[i] \in Node
    BY DEF OpensAt
  <2>2. Document \cap Node = {}
    BY DomAssumption
  <2> HIDE DEF path
  <2>3. ASSUME NEW i \in I, ~(i <= j) PROVE FALSE
    <3>1. i \in j + 1 .. Len(path) /\ path[i] \in Document
      BY <1>1, <2>1, <2>3
    <3> QED  BY <2>1, <2>2, <3>1
  <2> QED  BY <2>1, <2>3
<1>3. Max(I) = j
  <2>1. I \in SUBSET Nat
    BY <1>1
  <2> HIDE DEF I
  <2>2. \A x \in I : (\A y \in I : x >= y) => x = j
    BY <1>2, <2>1
  <2>3. j \in I /\ \A y \in I : j >= y
    BY <1>2, <2>1
  <2> QED  BY <2>2, <2>3 DEF Max
<1>4. SelectLastInSeq(path, LAMBDA x : x \in Document) = j
  BY <1>2, <1>3 DEF SelectLastInSeq
<1>5. OpenOf(b) = SubSeq(path, j, Len(path))
  BY <1>4 DEF OpenOf, PathOf
<1> HIDE DEF path
<1>6. /\ SubSeq(path, j, Len(path)) \in Seq(Nodes \cup {Null})
      /\ Len(SubSeq(path, j, Len(path))) = Len(path) - j + 1
      /\ \A i \in 1 .. Len(path) - j + 1 : SubSeq(path, j, Len(path))[i] = path[j + i - 1]
  BY <1>1, <1>2
<1> QED  BY <1>1, <1>2, <1>5, <1>6 DEF path

\* When a document starts, nothing else is open.
LEMMA OpenStarts ==
  ASSUME NEW b \in Builders, b.document \in Document, b.current = b.document
  PROVE  Opened(b) /\ OpenOf(b) = <<b.document>>
<1> DEFINE path == PathOf(b)
           j == Len(b.stack) + 2
           open == OpenOf(b)
<1>1. /\ Len(b.stack) \in Nat /\ Len(path) = Len(b.stack) + 2
      /\ path[Len(b.stack) + 2] = b.document
  BY PathIs DEF Builders
<1>2. OpensAt(b, j) /\ b.current # Null
  BY <1>1, DomAssumption DEF OpensAt
<1> HIDE DEF path, open
<1>3. /\ open \in Seq(Nodes \cup {Null}) /\ Len(open) = Len(path) - j + 1
      /\ \A i \in 1 .. Len(path) - j + 1 : open[i] = path[j + i - 1]
  <2> HIDE DEF j
  <2> QED  BY <1>2, OpenIs DEF path, open
<1>4. Len(open) = 1 /\ open[1] = b.document
  BY <1>1, <1>3
<1>5. open = <<b.document>>
  BY <1>3, <1>4
<1> QED  BY <1>2, <1>5 DEF Opened, open

\* The last is the current one.
LEMMA OpenEnds ==
  ASSUME NEW b \in Builders, b.current # Null, Opened(b)
  PROVE  OpenOf(b) # <<>> /\ Forest!Last(OpenOf(b)) = b.current
<1> DEFINE path == PathOf(b)
           open == OpenOf(b)
           m == Len(b.stack)
<1>1. PICK j : OpensAt(b, j)
  BY DEF Opened
<1>2. m \in Nat /\ Len(path) = m + 2 /\ path[m + 2] = b.current
  BY PathIs DEF Builders
<1>3. j \in 1 .. Len(path)
  BY <1>1 DEF OpensAt
<1> HIDE DEF path, open, m
<1>4. /\ open \in Seq(Nodes \cup {Null}) /\ Len(open) = Len(path) - j + 1
      /\ \A i \in 1 .. Len(path) - j + 1 : open[i] = path[j + i - 1]
  BY <1>1, OpenIs DEF path, open
<1>5. open # <<>> /\ open[Len(open)] = b.current
  <2>1. Len(open) \in 1 .. Len(path) - j + 1
    BY <1>2, <1>3, <1>4
  <2>2. j + Len(open) - 1 = m + 2
    BY <1>2, <1>3, <1>4
  <2> QED  BY <1>2, <1>3, <1>4, <2>1, <2>2
<1> QED  BY <1>4, <1>5 DEF Forest!Last, open

\* An element that starts is open too.
LEMMA OpenEnters ==
  ASSUME NEW b \in Builders, b.current # Null, Opened(b),
         NEW n \in Node, NEW c \in Builders, c.current = n,
         c.parent = b.current, c.stack = Append(b.stack, b.parent)
  PROVE  Opened(c) /\ OpenOf(c) = Append(OpenOf(b), n)
<1> DEFINE p == PathOf(b)
           q == PathOf(c)
           u == OpenOf(b)
           v == OpenOf(c)
           m == Len(b.stack)
<1>1. PICK j : OpensAt(b, j)
  BY DEF Opened
<1>2. /\ m \in Nat /\ Len(p) = m + 2 /\ p[m + 1] = b.parent /\ p[m + 2] = b.current
      /\ \A i \in 1 .. m : p[i] = b.stack[i]
  BY PathIs DEF Builders
<1>3. Len(c.stack) = m + 1 /\ \A i \in 1 .. m + 1 : c.stack[i] = p[i]
  BY <1>2 DEF Builders
<1>4. /\ Len(q) = m + 3 /\ q[m + 2] = b.current /\ q[m + 3] = n
      /\ \A i \in 1 .. m + 1 : q[i] = c.stack[i]
  <2> DEFINE k == Len(c.stack)
  <2>1. /\ k \in Nat /\ Len(q) = k + 2 /\ q[k + 1] = b.current /\ q[k + 2] = n
        /\ \A i \in 1 .. k : q[i] = c.stack[i]
    BY PathIs DEF Builders
  <2> QED  BY <1>2, <1>3, <2>1
<1>5. /\ j \in 1 .. Len(p) /\ p[j] \in Document
      /\ \A i \in j + 1 .. Len(p) : p[i] \in Node
  BY <1>1 DEF OpensAt
<1> HIDE DEF p, q, u, v, m
<1>6. \A i \in 1 .. m + 2 : q[i] = p[i]
  BY <1>2, <1>3, <1>4
<1>7. OpensAt(c, j) /\ c.current # Null
  <2>1. j \in 1 .. Len(q) /\ q[j] \in Document
    BY <1>2, <1>4, <1>5, <1>6
  <2>2. ASSUME NEW i \in j + 1 .. Len(q) PROVE q[i] \in Node
    <3>1. i = m + 3 \/ (i \in 1 .. m + 2 /\ i \in j + 1 .. Len(p))
      BY <1>2, <1>4, <1>5
    <3> QED  BY <1>4, <1>5, <1>6, <3>1
  <2> QED  BY <2>1, <2>2, DomAssumption DEF OpensAt, q
<1>8. /\ u \in Seq(Nodes \cup {Null}) /\ Len(u) = Len(p) - j + 1
      /\ \A i \in 1 .. Len(p) - j + 1 : u[i] = p[j + i - 1]
  BY <1>1, OpenIs DEF p, u
<1>9. /\ v \in Seq(Nodes \cup {Null}) /\ Len(v) = Len(q) - j + 1
      /\ \A i \in 1 .. Len(q) - j + 1 : v[i] = q[j + i - 1]
  BY <1>7, OpenIs DEF q, v
<1>10. v = Append(u, n)
  <2> DEFINE w == Append(u, n)
  <2>1. /\ w \in Seq(Nodes \cup {Null}) /\ Len(w) = Len(u) + 1 /\ w[Len(u) + 1] = n
        /\ \A i \in 1 .. Len(u) : w[i] = u[i]
    BY <1>8 DEF Nodes
  <2> HIDE DEF w
  <2>2. Len(v) = Len(w) /\ Len(w) = m + 4 - j /\ Len(u) = m + 3 - j
    BY <1>2, <1>4, <1>5, <1>8, <1>9, <2>1
  <2>3. ASSUME NEW i \in 1 .. Len(w) PROVE v[i] = w[i]
    <3>1. v[i] = q[j + i - 1]
      BY <1>2, <1>4, <1>5, <1>9, <2>2
    <3>2. CASE i = Len(u) + 1
      <4>1. j + i - 1 = m + 3
        BY <1>2, <1>5, <2>2, <3>2
      <4> QED  BY <1>4, <2>1, <3>1, <3>2, <4>1
    <3>3. CASE i # Len(u) + 1
      <4>1. i \in 1 .. Len(u) /\ i \in 1 .. Len(p) - j + 1 /\ j + i - 1 \in 1 .. m + 2
        BY <1>2, <1>5, <1>8, <2>2, <3>3
      <4> QED  BY <1>6, <1>8, <2>1, <3>1, <4>1
    <3> QED  BY <3>2, <3>3
  <2>4. v = w
    BY <1>9, <2>1, <2>2, <2>3
  <2> QED  BY <2>4 DEF w
<1> QED  BY <1>7, <1>10 DEF Opened, u, v

\* A sequence without its last element.
LEMMA FrontIs ==
  ASSUME NEW R, NEW s \in Seq(R), s # <<>>
  PROVE  /\ Len(s) \in Nat \ {0} /\ Last(s) = s[Len(s)] /\ Last(s) \in R
         /\ Front(s) \in Seq(R) /\ Len(Front(s)) = Len(s) - 1
         /\ \A i \in 1 .. Len(s) - 1 : Front(s)[i] = s[i]
<1> DEFINE k == Len(s) - 1
           f == SubSeq(s, 1, k)
<1>1. Len(s) \in Nat \ {0} /\ s[Len(s)] \in R
  OBVIOUS
<1>2. k \in Nat /\ k <= Len(s) /\ k = Len(s) - 1
  BY <1>1
<1>3. Front(s) = f
  BY DEF Front
<1> HIDE DEF k
<1>4. Len(f) = k /\ \A i \in 1 .. k : f[i] = s[i]
  BY <1>1, <1>2
<1>5. f \in Seq(R)
  BY <1>1, <1>2
<1> QED  BY <1>1, <1>2, <1>3, <1>4, <1>5 DEF Last

\* What the stack gives back is the path without its end, but for Null below.
LEMMA PoppedPath ==
  ASSUME NEW b \in Builders, NEW c, c = Popped(b)
  PROVE  LET p == PathOf(b)
             q == PathOf(c)
         IN  /\ c \in Builders /\ c.document = b.document
             /\ \/ b.stack # <<>> /\ Len(q) = Len(p) - 1 /\ \A i \in 1 .. Len(q) : q[i] = p[i]
                \/ b.stack = <<>> /\ Len(p) = 2 /\ Len(q) = 2 /\ q[2] = p[1]
<1> DEFINE p == PathOf(b)
           q == PathOf(c)
           R == Nodes \cup {Null}
           s == b.stack
           m == Len(s)
<1>1. /\ m \in Nat /\ Len(p) = m + 2 /\ p[m + 1] = b.parent /\ p[m + 2] = b.current
      /\ \A i \in 1 .. m : p[i] = s[i]
  BY PathIs DEF Builders
<1>2. s \in Seq(R)
  BY DEF Builders
<1>3. CASE s = <<>>
  <2>1. c \in Builders /\ c.document = b.document /\ c.stack = <<>> /\ c.current = b.parent
    BY <1>3 DEF Popped, Builders
  <2>2. m = 0 /\ Len(q) = 2 /\ q[2] = b.parent
    <3>1. LET k == Len(c.stack) IN k \in Nat /\ Len(q) = k + 2 /\ q[k + 2] = c.current
      BY <2>1, PathIs DEF Builders
    <3> QED  BY <1>3, <2>1, <3>1
  <2> QED  BY <1>1, <1>3, <2>1, <2>2
<1>4. CASE s # <<>>
  <2>1. /\ Front(s) \in Seq(R) /\ Len(Front(s)) = m - 1 /\ Last(s) = s[m] /\ Last(s) \in R
        /\ \A i \in 1 .. m - 1 : Front(s)[i] = s[i]
    <3> HIDE DEF s, R
    <3> QED  BY <1>2, <1>4, FrontIs
  <2>2. /\ c \in Builders /\ c.document = b.document
        /\ c.stack = Front(s) /\ c.parent = s[m] /\ c.current = b.parent
    BY <1>4, <2>1 DEF Popped, Builders
  <2>3. /\ Len(q) = m + 1 /\ q[m] = s[m] /\ q[m + 1] = b.parent
        /\ \A i \in 1 .. m - 1 : q[i] = s[i]
    <3> DEFINE k == Len(c.stack)
    <3>1. /\ k \in Nat /\ Len(q) = k + 2 /\ q[k + 1] = c.parent /\ q[k + 2] = c.current
          /\ \A i \in 1 .. k : q[i] = c.stack[i]
      BY <2>2, PathIs DEF Builders
    <3>2. k = m - 1
      BY <2>1, <2>2
    <3> HIDE DEF k, q, s, m
    <3> QED  BY <1>1, <2>1, <2>2, <3>1, <3>2
  <2> HIDE DEF p, q, m, s
  <2>4. Len(q) = Len(p) - 1 /\ \A i \in 1 .. Len(q) : q[i] = p[i]
    BY <1>1, <2>3
  <2> QED  BY <1>4, <2>2, <2>4 DEF p, q, s
<1> QED  BY <1>3, <1>4

\* An element that ends is open no more.
LEMMA OpenLeaves ==
  ASSUME NEW b \in Builders, b.current \in Node, Opened(b),
         NEW c, c = Popped(b)
  PROVE  /\ Opened(c) /\ OpenOf(c) = Forest!Front(OpenOf(b)) /\ Len(OpenOf(b)) > 1
<1> DEFINE p == PathOf(b)
           q == PathOf(c)
           u == OpenOf(b)
           v == OpenOf(c)
           R == Nodes \cup {Null}
<1>1. Document \cap Node = {} /\ Null \notin Node /\ Null \notin Document
  BY DomAssumption
<1>2. PICK j : OpensAt(b, j)
  BY <1>1 DEF Opened
<1>3. /\ c \in Builders
      /\ \/ b.stack # <<>> /\ Len(q) = Len(p) - 1 /\ \A i \in 1 .. Len(q) : q[i] = p[i]
         \/ b.stack = <<>> /\ Len(p) = 2 /\ Len(q) = 2 /\ q[2] = p[1]
  BY PoppedPath
<1>4. /\ Len(p) \in Nat /\ Len(q) \in Nat /\ p[Len(p)] = b.current
      /\ q[Len(q)] = c.current
  BY <1>3, PathIs DEF Builders
<1>5. /\ j \in 1 .. Len(p) /\ p[j] \in Document
      /\ \A i \in j + 1 .. Len(p) : p[i] \in Node
  BY <1>2 DEF OpensAt
<1> DEFINE k == IF b.stack = <<>> THEN 2 ELSE j
<1> HIDE DEF p, q, u, v
<1>6. j < Len(p)
  BY <1>1, <1>4, <1>5
<1>7. /\ k \in 1 .. Len(q) /\ Len(q) - k = Len(p) - 1 - j
      /\ \A i \in 1 .. Len(p) - j : q[k + i - 1] = p[j + i - 1]
  <2>1. CASE b.stack = <<>>
    <3>1. Len(p) = 2 /\ Len(q) = 2 /\ q[2] = p[1] /\ k = 2
      BY <1>3, <2>1
    <3>2. j = 1
      BY <1>5, <1>6, <3>1
    <3>3. \A i \in 1 .. Len(p) - j : k + i - 1 = 2 /\ j + i - 1 = 1
      BY <3>1, <3>2
    <3> QED  BY <3>1, <3>2, <3>3
  <2>2. CASE b.stack # <<>>
    <3>1. Len(q) = Len(p) - 1 /\ k = j /\ \A i \in 1 .. Len(q) : q[i] = p[i]
      BY <1>3, <2>2
    <3>2. j \in Nat /\ j <= Len(q) /\ j >= 1
      BY <1>4, <1>5, <1>6, <3>1
    <3>3. \A i \in 1 .. Len(p) - j : j + i - 1 \in 1 .. Len(q)
      BY <1>4, <3>1, <3>2
    <3>4. \A i \in 1 .. Len(p) - j : q[k + i - 1] = p[j + i - 1]
      BY <3>1, <3>3
    <3>5. k \in 1 .. Len(q) /\ Len(q) - k = Len(p) - 1 - j
      BY <1>4, <3>1, <3>2
    <3> QED  BY <3>4, <3>5
  <2> QED  BY <2>1, <2>2
<1> HIDE DEF k
<1>8. q[k] \in Document /\ \A i \in k + 1 .. Len(q) : q[i] \in Node
  <2>1. 1 \in 1 .. Len(p) - j /\ k + 1 - 1 = k /\ j + 1 - 1 = j
    BY <1>4, <1>5, <1>6, <1>7
  <2>2. q[k] = p[j]
    BY <1>7, <2>1
  <2>3. ASSUME NEW i \in k + 1 .. Len(q) PROVE q[i] \in Node
    <3> DEFINE x == i - k + 1
    <3>1. x \in 1 .. Len(p) - j /\ k + x - 1 = i /\ j + x - 1 \in j + 1 .. Len(p)
      BY <1>4, <1>5, <1>6, <1>7
    <3> HIDE DEF x
    <3> QED  BY <1>5, <1>7, <3>1
  <2> QED  BY <1>3, <1>5, <2>2, <2>3
<1>9. c.current # Null
  <2>1. Len(q) = k \/ Len(q) \in k + 1 .. Len(q)
    BY <1>4, <1>7
  <2> QED  BY <1>1, <1>3, <1>4, <1>8, <2>1
<1>10. OpensAt(c, k)
  BY <1>7, <1>8 DEF OpensAt, q
<1>11. /\ u \in Seq(R) /\ Len(u) = Len(p) - j + 1
       /\ \A i \in 1 .. Len(p) - j + 1 : u[i] = p[j + i - 1]
  BY <1>1, <1>2, OpenIs DEF p, u
<1>12. /\ v \in Seq(R) /\ Len(v) = Len(q) - k + 1
       /\ \A i \in 1 .. Len(q) - k + 1 : v[i] = q[k + i - 1]
  BY <1>3, <1>9, <1>10, OpenIs DEF q, v
<1>13. Len(u) > 1 /\ Len(v) = Len(u) - 1
  <2>1. j \in Nat /\ k \in Nat /\ Len(q) - k = Len(p) - 1 - j
    BY <1>4, <1>5, <1>7
  <2>2. Len(u) = Len(p) - j + 1 /\ Len(v) = Len(q) - k + 1
    BY <1>11, <1>12
  <2> QED  BY ONLY <1>4, <1>6, <2>1, <2>2
<1>14. v = Forest!Front(u)
  <2> DEFINE w == Forest!Front(u)
  <2>1. w \in Seq(R) /\ Len(w) = Len(u) - 1 /\ \A i \in 1 .. Len(u) - 1 : w[i] = u[i]
    <3> HIDE DEF R
    <3> QED  BY <1>11, <1>13 DEF Forest!Front
  <2> HIDE DEF w, R
  <2>2. ASSUME NEW i \in 1 .. Len(w) PROVE v[i] = w[i]
    <3>1. /\ i \in 1 .. Len(p) - j /\ i \in 1 .. Len(p) - j + 1 /\ i \in 1 .. Len(u) - 1
          /\ i \in 1 .. Len(q) - k + 1
      BY <1>4, <1>5, <1>6, <1>7, <1>11, <1>13, <2>1
    <3> QED  BY <1>7, <1>11, <1>12, <2>1, <3>1
  <2>3. v = w
    BY <1>12, <1>13, <2>1, <2>2
  <2> QED  BY <2>3 DEF w
<1> QED  BY <1>9, <1>10, <1>13, <1>14 DEF Opened, u, v

-----------------------------------------------------------------------------
(***************************************************************************)
(* The builder's steps, as those of DomForest.                             *)
(***************************************************************************)

\* A node that is read becomes the last child of the one that is open.
LEMMA ReadMoves ==
  ASSUME BuilderInv, builder.current # Null, NEW n \in Node, Is(n, "absent"),
         NEW kind \in {"element", "text"},
         node' = Appended(Created(node, n, kind, Null, builder.document), builder.current, n)
  PROVE  /\ Forest!Born(n, builder.document, Null)
         /\ ListsOf(node') = Forest!Moved(ListsOf(node), n, <<builder.current, "children">>)
<1> DEFINE d == builder.document
           e == builder.current
           name == Null
           m == Created(node, n, kind, name, d)
           home == <<d, "detached">>
           to == <<e, "children">>
<1>1. /\ Lawful(node) /\ e \in Nodes /\ d \in Document /\ node[d].kind = "document"
      /\ node[n].kind = "absent" /\ node[n].document = Null
      /\ name \in Name \cup {Null} /\ kind \in {"element", "attribute", "text"}
      /\ kind \notin {"absent", "attribute"}
  BY DomAssumption DEF BuilderInv, BuilderFits, Builders, Is, Lawful, Fits
<1>2. node' = Appended(m, e, n) /\ name = Null
  OBVIOUS
<1> HIDE DEF d, e, name
<1>3. /\ Lawful(m) /\ m[n].kind = kind /\ m[n].name = name /\ m[n].document = d
      /\ \A x \in Nodes \ {n} : m[x].name = node[x].name /\ m[x].document = node[x].document
      /\ Free(ListsOf(node), n) /\ ListsOf(m) = Into(ListsOf(node), n, home)
  BY <1>1, Creates, CreatedLists
<1> HIDE DEF m
<1>4. ListsOf(node') = Forest!Moved(ListsOf(m), n, to) /\ SameNature(node', m)
  BY <1>1, <1>2, <1>3, AppendedLists, Appends
<1>5. LaidOut(node, ListsOf(node))
  BY <1>1, LawfulLays
<1>6. ListsOf(node') = Forest!Moved(ListsOf(node), n, to)
  BY <1>3, <1>4, <1>5, FreeMoves
<1>7. NewIn(node', node, n, d, Null)
  BY <1>2, <1>3, <1>4 DEF NewIn, SameNature, Nodes
<1>8. Forest!Born(n, d, Null)
  BY <1>1, <1>7, ForestBorn
<1> QED  BY <1>6, <1>8 DEF d, e

\* Start_Document.
LEMMA ForestReads ==
  ASSUME BuilderInv, StartDocument
  PROVE  Forest!Next /\ Opened(builder')
<1>1. /\ builder \in Builders /\ builder' \in Builders /\ builder'.document \in Document
      /\ builder'.current = builder'.document
      /\ builder.document \in {builder'.document, Null}
      /\ ListsOf(node') = ListsOf(node) /\ OwnersOf(node') = OwnersOf(node)
      /\ NamesOf(node') = NamesOf(node)
  <2>1. builder \in Builders /\ Document \subseteq Nodes
    BY DEF BuilderInv, BuilderFits, Nodes
  <2>2. CASE builder.document = Null /\ \E d \in Document :
               CreateDocument(d) /\ builder' = [builder EXCEPT !.document = d, !.current = d]
    <3> PICK d \in Document :
               CreateDocument(d) /\ builder' = [builder EXCEPT !.document = d, !.current = d]
      BY <2>2
    <3>1. /\ builder' \in Builders /\ builder'.document = d /\ builder'.current = d
      BY <2>1 DEF Builders
    <3>2. /\ ListsOf(node') = ListsOf(node) /\ OwnersOf(node') = OwnersOf(node)
          /\ NamesOf(node') = NamesOf(node)
      BY DocumentLists DEF BuilderInv
    <3>3. builder.document \in {builder'.document, Null}
      BY <2>2
    <3> QED  BY <2>1, <3>1, <3>2, <3>3
  <2>3. CASE /\ builder.document # Null
             /\ builder' = [builder EXCEPT !.current = builder.document] /\ UNCHANGED node
    <3>1. /\ builder' \in Builders /\ builder'.document = builder.document
          /\ builder'.current = builder.document /\ builder.document \in Document
      BY <2>1, <2>3 DEF Builders
    <3> QED  BY <2>1, <2>3, <3>1
  <2> QED  BY <2>2, <2>3 DEF StartDocument
<1>2. Opened(builder') /\ OpenOf(builder') = <<builder'.document>>
  BY <1>1, OpenStarts
<1>3. Forest!Read(builder'.document)
  BY <1>1, <1>2, MappedVars DEF Forest!Read, ListsOf, OwnersOf, NamesOf
<1> QED  BY <1>1, <1>2, <1>3 DEF Forest!Next

\* What the builder has while it reads.
LEMMA WhileReading ==
  ASSUME BuilderInv, Opened(builder), builder.current # Null
  PROVE  /\ builder \in Builders /\ builder.document \in Document
         /\ Open # <<>> /\ Forest!Last(Open) = builder.current
<1>1. builder \in Builders /\ builder.document \in Document
  BY DEF BuilderInv, BuilderFits, Builders
<1>2. Open = OpenOf(builder)
  BY MappedVars
<1> QED  BY <1>1, <1>2, OpenEnds

\* Start_Element.
LEMMA ForestEnters ==
  ASSUME Tolerant, BuilderInv, Opened(builder), NEW n \in Node,
         NEW names \in BoundedSeq(Name, MaxAttributes), StartElement(n, names)
  PROVE  Forest!Next /\ Opened(builder')
<1> DEFINE c == [Pushed(builder) EXCEPT !.current = n, !.attributes = names]
           e == builder.current
           kind == "element"
<1>1. e # Null /\ Is(n, "absent") /\ kind \in {"element", "text"}
  BY DEF StartElement
<1>2. /\ builder \in Builders /\ builder.document \in Document
      /\ Open # <<>> /\ Forest!Last(Open) = e
  BY <1>1, WhileReading
<1>3. builder' \in Builders
  BY StartElementKeeps DEF BuilderInv, BuilderFits
<1>4. /\ c.document = builder.document /\ c.current = n /\ c.parent = e
      /\ c.stack = Append(builder.stack, builder.parent)
  BY <1>2 DEF Pushed, Builders
<1>5. builder' = c /\ node' = Appended(Created(node, n, kind, Null, builder.document), e, n)
  BY <1>4 DEF StartElement
<1> HIDE DEF c, e, kind
<1>6. Opened(builder') /\ OpenOf(builder') = Append(OpenOf(builder), n)
  BY <1>1, <1>2, <1>3, <1>4, <1>5, OpenEnters DEF e
<1>7. /\ Forest!Born(n, builder.document, Null)
      /\ ListsOf(node') = Forest!Moved(ListsOf(node), n, <<e, "children">>)
  BY <1>1, <1>5, ReadMoves DEF e
<1>8. builder'.document = builder.document
  BY <1>4, <1>5
<1>9. Forest!Enter(n)
  BY <1>2, <1>6, <1>7, <1>8, MappedVars DEF Forest!Enter, Forest!Grow, ListsOf
<1> QED  BY <1>2, <1>6, <1>9 DEF Forest!Next

\* Characters.
LEMMA ForestWrites ==
  ASSUME Tolerant, BuilderInv, Opened(builder), NEW n \in Node, Characters(n)
  PROVE  Forest!Next /\ Opened(builder')
<1> DEFINE e == builder.current
           kind == "text"
<1>1. /\ e # Null /\ Is(n, "absent") /\ kind \in {"element", "text"} /\ builder' = builder
      /\ node' = Appended(Created(node, n, kind, Null, builder.document), e, n)
  BY DomAssumption DEF Characters
<1>2. Open # <<>> /\ Forest!Last(Open) = e
  BY <1>1, WhileReading
<1> HIDE DEF e, kind
<1>3. /\ Forest!Born(n, builder.document, Null)
      /\ ListsOf(node') = Forest!Moved(ListsOf(node), n, <<e, "children">>)
  BY <1>1, ReadMoves DEF e
<1>4. Open' = Open
  BY <1>1, MappedVars
<1>5. Forest!Write(n)
  BY <1>1, <1>2, <1>3, <1>4 DEF Forest!Write, Forest!Grow, ListsOf
<1> QED  BY <1>1, <1>2, <1>5 DEF Forest!Next

\* End_Element.
LEMMA ForestLeaves ==
  ASSUME BuilderInv, Opened(builder), EndElement
  PROVE  Forest!Next /\ Opened(builder')
<1>1. /\ builder.current \in Node /\ builder.current # Null
      /\ builder' = Popped(builder) /\ node' = node
  BY DomAssumption DEF EndElement
<1>2. builder \in Builders /\ builder.document \in Document /\ Open # <<>>
  BY <1>1, WhileReading
<1>3. /\ Opened(builder') /\ OpenOf(builder') = Forest!Front(OpenOf(builder))
      /\ Len(OpenOf(builder)) > 1
  BY <1>1, <1>2, OpenLeaves
<1>4. builder'.document = builder.document
  BY <1>1, <1>2, PoppedPath
<1>5. Forest!Leave
  BY <1>1, <1>3, <1>4, MappedVars DEF Forest!Leave
<1> QED  BY <1>2, <1>3, <1>5 DEF Forest!Next

\* Where a node is before it moves makes no difference after another has moved.
LEMMA StepsAside ==
  ASSUME NEW h, NEW ls, LaidOut(h, ls), NEW a \in Node, Free(ls, a),
         NEW b \in Node \ {a}, NEW at, NEW from, NEW to
  PROVE  Forest!Moved(Forest!Moved(Into(ls, a, from), b, at), a, to)
           = Forest!Moved(Forest!Moved(ls, b, at), a, to)
<1> DEFINE u == Into(Out(Into(ls, a, from), b), b, at)
           v == Into(Out(ls, b), b, at)
<1>1. ASSUME NEW l \in Lists PROVE Rid(u[l], a) = Rid(v[l], a)
  <2> DEFINE s == ls[l]
             r == Rid(s, b)
  <2>1. Distinct(s) /\ a \notin NodesOf(s)
    BY DEF LaidOut, Spells, Free
  <2>2. Distinct(r) /\ NodesOf(r) = NodesOf(s) \ {b} /\ a \notin NodesOf(r) /\ b \notin NodesOf(r)
    BY <2>1, RidLeaves
  <2>3. /\ Distinct(Append(r, a)) /\ NodesOf(Append(r, a)) = NodesOf(r) \cup {a}
        /\ Rid(Append(r, a), a) = r
    BY <2>2, Ending
  <2>4. Rid(r, a) = r
    BY <2>2, RidOfNone
  <2>5. Rid(Append(s, a), b) = Append(r, a)
    BY <2>1, RidOfLast
  <2>6. Rid(Append(Append(r, a), b), a) = Append(r, b)
    <3>1. b \notin NodesOf(Append(r, a)) /\ a # b
      BY <2>2, <2>3
    <3>2. Rid(Append(Append(r, a), b), a) = Append(Rid(Append(r, a), a), b)
      BY <2>3, <3>1, RidOfLast
    <3> QED  BY <2>3, <3>2
  <2>7. Rid(Append(r, b), a) = Append(r, b)
    BY <2>2, <2>4, RidOfLast
  <2>8. /\ Into(ls, a, from)[l] = IF l = from THEN Append(s, a) ELSE s
        /\ Out(ls, b)[l] = r
    BY DEF Into, Out
  <2> HIDE DEF r, s
  <2>9. Out(Into(ls, a, from), b)[l] = IF l = from THEN Append(r, a) ELSE r
    BY <2>5, <2>8 DEF Out, r
  <2>10. /\ u[l] = IF l = at THEN Append(Out(Into(ls, a, from), b)[l], b)
                             ELSE Out(Into(ls, a, from), b)[l]
         /\ v[l] = IF l = at THEN Append(r, b) ELSE r
    BY <2>8 DEF Into
  <2> HIDE DEF u, v
  <2> QED  BY <2>3, <2>4, <2>6, <2>7, <2>9, <2>10
<1> HIDE DEF u, v
<1>2. Out(u, a) = Out(v, a)
  BY <1>1 DEF Out
<1>3. Forest!Moved(u, a, to) = Forest!Moved(v, a, to)
  BY <1>2, MovedIs
<1> QED  BY <1>3, MovedIs DEF u, v

\* A new attribute takes its place among those of an element.
LEMMA NewAttribute ==
  ASSUME Lawful(node), NEW a \in Node, node[a].kind = "absent", NEW d \in Document,
         node[d].kind = "document", NEW x \in Name, NEW e \in Node, node[e].kind = "element",
         NEW g, g = Attributed(Created(node, a, "attribute", x, d), e, a)
  PROVE  /\ Lawful(g) /\ g[a].kind = "attribute" /\ g[a].document = d /\ g[a].name = x
         /\ \A y \in Nodes \ {a} : /\ g[y].kind = node[y].kind /\ g[y].name = node[y].name
                                   /\ g[y].document = node[y].document
         /\ ListsOf(g) = Forest!Attributed(ListsOf(node), e, a, x)
<1> DEFINE kind == "attribute"
           m == Created(node, a, kind, x, d)
           ls == ListsOf(node)
           home == <<d, "detached">>
           to == <<e, "attributes">>
           T == {n \in Node \ {a} : node[n].name = x}
<1>1. kind \in {"element", "attribute", "text"} /\ x \in Name \cup {Null} /\ e # a /\ e # Null
      /\ e \in Nodes
  BY DomAssumption DEF Nodes
<1>2. g = Attributed(m, e, a)
  OBVIOUS
<1> HIDE DEF m, kind
<1>3. /\ Lawful(m) /\ m[a].kind = kind /\ m[a].name = x /\ m[a].document = d /\ m[a].parent = Null
      /\ \A y \in Nodes \ {a} : /\ m[y].kind = node[y].kind /\ m[y].name = node[y].name
                                /\ m[y].document = node[y].document
      /\ Free(ls, a) /\ ListsOf(m) = Into(ls, a, home)
  BY <1>1, Creates, CreatedLists DEF m
<1>4. m[e].kind = "element" /\ m[a].kind = "attribute"
  BY <1>1, <1>3 DEF kind
<1>5. Lawful(g) /\ SameNature(g, m)
  BY <1>2, <1>3, <1>4, Attributes
<1>6. ListsOf(g) = Forest!Moved(ListsOf(WayFor(m, e, a)), a, to)
  BY <1>2, <1>3, <1>4, AttributedLists
<1>7. \A y \in On(m, e, "attributes") : /\ m[y].document = node[y].document
                                        /\ y \in T <=> y # a /\ m[y].name = m[a].name
  <2>1. \A y \in On(m, e, "attributes") : y \in Node /\ m[y].parent # Null
    BY DEF On, HomeOf
  <2> QED  BY <1>3, <2>1 DEF Nodes
<1> HIDE DEF ls, T
<1>8. WaysAlike(ls, T, m, e, a)
  BY <1>3, <1>4, <1>7, WayIsHome
<1>9. LaidOut(node, ls)
  BY LawfulLays DEF ls
<1> DEFINE new == Forest!AllHome(ls, ls[to], T)
<1>10. Forest!Moved(ListsOf(WayFor(m, e, a)), a, to) = Forest!Moved(new, a, to)
  <2>1. ListsOf(m)[to] = ls[to]
    BY <1>3 DEF Into, Lists
  <2>2. \/ new = ls /\ ListsOf(WayFor(m, e, a)) = ListsOf(m)
        \/ \E b \in Node \ {a} : \E at :
             /\ new = Forest!Moved(ls, b, at)
             /\ ListsOf(WayFor(m, e, a)) = Forest!Moved(ListsOf(m), b, at)
    BY <1>8, <2>1 DEF WaysAlike
  <2> HIDE DEF new
  <2>3. CASE new = ls /\ ListsOf(WayFor(m, e, a)) = ListsOf(m)
    BY <1>3, <1>9, <2>3, FreeMoves
  <2>4. CASE \E b \in Node \ {a} : \E at :
               /\ new = Forest!Moved(ls, b, at)
               /\ ListsOf(WayFor(m, e, a)) = Forest!Moved(ListsOf(m), b, at)
    BY <1>3, <1>9, <2>4, StepsAside
  <2> QED  BY <2>2, <2>3, <2>4
<1>11. ListsOf(g) = Forest!Attributed(ListsOf(node), e, a, x)
  BY <1>6, <1>10 DEF Forest!Attributed, ls, T
<1> QED  BY <1>3, <1>4, <1>5, <1>11 DEF SameNature, Nodes

\* Process_Attribute.
LEMMA ForestAnnotates ==
  ASSUME BuilderInv, Opened(builder), NEW a \in Node, NEW t \in Node, ProcessAttribute(a, t)
  PROVE  Forest!Next /\ Opened(builder')
<1> DEFINE x == Head(builder.attributes)
           d == builder.document
           e == builder.current
           g == Attributed(Created(node, a, "attribute", x, d), e, a)
           at == <<a, "children">>
           s == ListsOf(g)[at]
           b == Bared(g, a, Cardinality(Node))
<1>1. /\ Lawful(node) /\ builder \in Builders
      /\ e \in Node /\ node[e].kind = "element" /\ e # Null
      /\ node[a].kind = "absent" /\ node[t].kind = "absent" /\ a # t
      /\ node[a].document = Null /\ node[t].document = Null
      /\ x \in Name /\ node' = Valued(g, a, t)
  <2>1. builder.attributes \in Seq(Name) /\ builder.attributes # <<>>
    BY DEF BuilderInv, BuilderFits, Builders, ProcessAttribute, Ready
  <2>2. x \in Name
    BY <2>1
  <2> QED  BY <2>2, DomAssumption DEF BuilderInv, BuilderFits, ProcessAttribute, Ready, Is, Lawful, Fits
<1>2. /\ d \in Document /\ node[d].kind = "document"
      /\ Open # <<>> /\ Forest!Last(Open) = e
  BY <1>1, WhileReading DEF BuilderInv, BuilderFits, Is
<1>3. /\ OpenOf(builder') = OpenOf(builder) /\ Opened(builder')
      /\ builder'.document = builder.document
  <2>1. /\ builder'.stack = builder.stack /\ builder'.parent = builder.parent
        /\ builder'.current = builder.current /\ builder'.document = builder.document
    BY <1>1 DEF ProcessAttribute, Builders
  <2>2. PathOf(builder') = PathOf(builder)
    BY <2>1 DEF PathOf
  <2>3. Opened(builder')
    BY <2>1, <2>2 DEF Opened, OpensAt
  <2>4. OpenOf(builder') = OpenOf(builder)
    BY <2>1 DEF OpenOf, SelectLastInSeq
  <2> QED  BY <2>1, <2>3, <2>4
<1> HIDE DEF x, d, e
<1>4. /\ Lawful(g) /\ g[a].kind = "attribute" /\ g[a].document = d /\ g[a].name = x
      /\ \A y \in Nodes \ {a} : /\ g[y].kind = node[y].kind /\ g[y].name = node[y].name
                                /\ g[y].document = node[y].document
      /\ ListsOf(g) = Forest!Attributed(ListsOf(node), e, a, x)
  <2> HIDE DEF g
  <2> QED  BY <1>1, <1>2, NewAttribute DEF g
<1> HIDE DEF g
<1>5. g[t].kind = "absent"
  BY <1>1, <1>4 DEF Nodes
<1>6. /\ node'[t].document = d /\ node'[t].name = Null
      /\ \A y \in Nodes \ {t} : node'[y].document = g[y].document /\ node'[y].name = g[y].name
  BY <1>1, <1>4, <1>5, Values
<1>7. ListsOf(node') = Forest!Moved(ListsOf(b), t, at)
  <2> HIDE DEF b
  <2> QED  BY <1>1, <1>4, <1>5, ValuedLists DEF b
<1>8. \A i \in 1 .. Len(s) : g[s[i]].document = node[s[i]].document
  <2>1. at \in Lists
    BY DEF Lists
  <2>2. NodesOf(s) = On(g, a, "children")
    BY <1>4, <2>1, LawfulLays
  <2>3. \A y \in On(g, a, "children") : y \in Node /\ y # a
    BY <1>4 DEF On, HomeOf
  <2> HIDE DEF s
  <2>4. \A i \in 1 .. Len(s) : s[i] \in Nodes \ {a}
    BY <2>2, <2>3 DEF NodesOf, Nodes
  <2> QED  BY <1>4, <2>4
<1>9. ListsOf(b) = Forest!AllHome(ListsOf(g), s, Node)
  <2> HIDE DEF s, b
  <2> QED  BY <1>4, <1>8, BaredLists DEF s, b
<1>10. ListsOf(node') = Forest!Valued(Forest!Attributed(ListsOf(node), e, a, x), a, t)
  BY <1>4, <1>7, <1>9 DEF Forest!Valued
<1>11. /\ OwnersOf(node') = [OwnersOf(node) EXCEPT ![a] = d, ![t] = d] /\ OwnersOf(node')[a] = d
       /\ NamesOf(node') = [NamesOf(node) EXCEPT ![a] = x, ![t] = Null]
  <2>1. NewIn(g, node, a, d, x) /\ NewIn(node', g, t, d, Null)
    BY <1>4, <1>6 DEF NewIn
  <2>2. /\ OwnersOf(g) = Put(OwnersOf(node), a, d) /\ OwnersOf(node') = Put(OwnersOf(g), t, d)
        /\ NamesOf(g) = Put(NamesOf(node), a, x) /\ NamesOf(node') = Put(NamesOf(g), t, Null)
    <3>1. OwnersOf(g) = Put(OwnersOf(node), a, d) /\ NamesOf(g) = Put(NamesOf(node), a, x)
      BY <2>1, NatureBorn
    <3>2. OwnersOf(node') = Put(OwnersOf(g), t, d) /\ NamesOf(node') = Put(NamesOf(g), t, Null)
      BY <2>1, NatureBorn
    <3> QED  BY <3>1, <3>2
  <2>3. OwnersOf(node')[a] = d
    BY <1>1, <1>4, <1>6 DEF OwnersOf, Nodes
  <2> QED  BY <2>2, <2>3 DEF Put
<1>12. Open' = Open /\ builder.document = d /\ builder'.document = d
  BY <1>3, MappedVars DEF d
<1>13. Forest!Annotate(a, x, t)
  BY <1>1, <1>2, <1>10, <1>11, <1>12 DEF Forest!Annotate, Forest!Fresh, ListsOf, OwnersOf, NamesOf
<1> QED  BY <1>1, <1>2, <1>3, <1>13 DEF Forest!Next

\* The builder starts as DomForest does.
LEMMA ForestStarts == BuilderInit => Forest!Init /\ Opened(builder)
<1> SUFFICES ASSUME BuilderInit PROVE Forest!Init /\ Opened(builder)
  OBVIOUS
<1>1. \A l \in Lists : Members(node, l[1], l[2]) = <<>>
  <2>1. ASSUME NEW l \in Lists PROVE Members(node, l[1], l[2]) = <<>>
    <3>1. l[1] \in Nodes /\ l[2] \in List
      BY ListNames
    <3>2. node[l[1]].first[l[2]] = Null
      BY <3>1 DEF BuilderInit, Init, Absent
    <3>3. Lawful(node)
      BY BuilderStarts DEF BuilderInv
    <3>4. Spells(node, l[1], l[2], Members(node, l[1], l[2]))
      BY <3>1, <3>3, MembersSpell
    <3> DEFINE s == Members(node, l[1], l[2])
    <3> HIDE DEF s
    <3>5. s # <<>> => s[1] = Null /\ s[1] \in Node
      BY <3>2, <3>4 DEF Spells, Distinct, s
    <3> QED  BY <3>5, DomAssumption DEF s
  <2> QED  BY <2>1
<1>2. \A n \in Node : node[n].document = Null /\ node[n].name = Null
  BY DEF BuilderInit, Init, Absent, Nodes
<1>3. builder.current = Null /\ builder.document = Null
  BY DEF BuilderInit
<1>4. Open = <<>>
  BY <1>3 DEF Open
<1>5. Forest!Lists = Lists
  BY DEF Forest!Lists, Lists
<1> QED  BY <1>1, <1>2, <1>3, <1>4, <1>5 DEF Forest!Init, Opened

\* Every step of the program and of the builder is one of DomForest.
LEMMA ForestStep ==
  ASSUME ~RemovesAttributes, Tolerant, BuilderInv, Opened(builder), [Reading \/ Editing]_vars
  PROVE  [Forest!Next]_Forest!forestVars /\ Opened(builder')
<1>1. CASE Editing
  <2>1. Lawful(node) /\ Next /\ builder' = builder
    BY <1>1 DEF Editing, BuilderInv
  <2>2. [Forest!Next]_Forest!forestVars
    BY <2>1, ProgramMoves
  <2> QED  BY <2>1, <2>2
<1>2. CASE \E d \in Document : SetDocument(d)
  <2> PICK d \in Document : SetDocument(d)
    BY <1>2
  <2>1. /\ node' = node /\ builder'.document = d /\ builder'.current = builder.current
        /\ builder'.stack = builder.stack /\ builder'.parent = builder.parent
    <3>1. builder \in Builders
      BY DEF BuilderInv, BuilderFits
    <3> QED  BY <3>1 DEF SetDocument, Builders
  <2>2. Opened(builder') /\ OpenOf(builder') = OpenOf(builder)
    BY <2>1 DEF Opened, OpensAt, PathOf, OpenOf, SelectLastInSeq
  <2>3. Forest!Give(d)
    BY <2>1, <2>2, MappedVars DEF Forest!Give
  <2> QED  BY <2>2, <2>3 DEF Forest!Next
<1>3. CASE StartDocument
  BY <1>3, ForestReads
<1>4. CASE \E n \in Node, names \in BoundedSeq(Name, MaxAttributes) : StartElement(n, names)
  BY <1>4, ForestEnters
<1>5. CASE \E a, t \in Node : ProcessAttribute(a, t)
  BY <1>5, ForestAnnotates
<1>6. CASE \E n \in Node : Characters(n)
  BY <1>6, ForestWrites
<1>7. CASE EndElement
  BY <1>7, ForestLeaves
<1>8. CASE UNCHANGED vars
  <2>1. node' = node /\ builder' = builder
    BY <1>8 DEF vars
  <2> QED  BY <2>1, ForestStays
<1> QED  BY <1>1, <1>2, <1>3, <1>4, <1>5, <1>6, <1>7, <1>8 DEF Reading

-----------------------------------------------------------------------------
(***************************************************************************)
(* The theorems: of programs that do not remove attributes as children, of *)
(* which the run dom_remove_attribute shows what becomes.                  *)
(***************************************************************************)

\* Nodes are lawful, whatever the program does and wherever the builder is.
THEOREM BuilderInvariant ==
  ASSUME ~RemovesAttributes
  PROVE  BuilderSpec => []BuilderInv
BY BuilderStarts, BuilderStep, PTL DEF BuilderSpec

\* Components have the types of their declarations, and the documents and the
\* ends of lists that go with their kinds.
THEOREM DomTypeCorrect ==
  ASSUME ~RemovesAttributes
  PROVE  BuilderSpec => []TypeOK
<1>1. BuilderInv => TypeOK
  BY LawfulTypes DEF BuilderInv
<1> QED  BY <1>1, BuilderInvariant, PTL

\* Each node is on the one list that its kind and parent tell, once: a loop
\* over Next ends, and meets the nodes that should be there.
THEOREM NodesOnOneList ==
  ASSUME ~RemovesAttributes
  PROVE  BuilderSpec => []OnOneList
<1>1. BuilderInv => OnOneList
  BY LawfulHomes DEF BuilderInv
<1> QED  BY <1>1, BuilderInvariant, PTL

\* Previous leads back over the same list, from its last node.
THEOREM BackwardsTheSame ==
  ASSUME ~RemovesAttributes
  PROVE  BuilderSpec => []ListsReadBackwards
<1>1. BuilderInv => ListsReadBackwards
  BY LawfulBackwards DEF BuilderInv
<1> QED  BY <1>1, BuilderInvariant, PTL

\* Set_Attribute_Node_NS replaces the attribute of the same name.
THEOREM NamesOfAttributes ==
  ASSUME ~RemovesAttributes
  PROVE  BuilderSpec => []AttributesAreUnique
<1>1. BuilderInv => AttributesAreUnique
  BY LawfulNames DEF BuilderInv
<1> QED  BY <1>1, BuilderInvariant, PTL

\* The links make up the lists that the DOM promises, and what is read gets its
\* place in them: every behaviour of the program and the builder is one of
\* DomForest, with the appended nodes that the documentation says are refused.
THEOREM DomRefinesForest ==
  ASSUME ~RemovesAttributes, Tolerant
  PROVE  BuilderSpec => ImplementsForest
<1>1. BuilderInit => Forest!Init /\ Opened(builder)
  BY ForestStarts
<1>2. BuilderInv /\ Opened(builder) /\ [Reading \/ Editing]_vars =>
        [Forest!Next]_Forest!forestVars /\ Opened(builder)'
  <2> SUFFICES ASSUME BuilderInv, Opened(builder), [Reading \/ Editing]_vars
               PROVE  [Forest!Next]_Forest!forestVars /\ Opened(builder')
    BY DEF Opened, OpensAt, PathOf
  <2> QED  BY ForestStep
<1> QED  BY <1>1, <1>2, BuilderInvariant, PTL DEF BuilderSpec, ImplementsForest, Forest!Spec
=============================================================================
