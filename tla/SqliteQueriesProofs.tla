------------------------- MODULE SqliteQueriesProofs -------------------------
(***************************************************************************)
(* Theorems about SqliteQueries, for any number of queries, values and     *)
(* rows: the objects that every driver shares, and the driver's statements *)
(* and flags as an implementation of SqlCursor.                            *)
(***************************************************************************)
EXTENDS SqliteQueries, LinkedLists

------------------------------------------------------------------------------
(* The objects every driver shares: their counters and the list of queries *)
(* of a database.                                                          *)

Link == Query \cup {Null}
AbstractQuery == [live : BOOLEAN, counter : Nat, attached : BOOLEAN, previous : Link, next : Link]

(* The SQL_Query objects of a driver query. *)
Handles(q) == {h \in Handle : ref[h] = q}

(* The links of the queries of the database are those of a list. *)
IsList == \E rank \in [Query -> Int] : InOrder(Attached, rank, query, db.head, db.tail, Null)

(* Only what is allocated is attached, and its objects can be counted. *)
OnlyLive ==
  /\ \A q \in Query : query[q].attached <=> query[q].live
  /\ \A q \in Query : IsFiniteSet(Handles(q))
  /\ IsFiniteSet(Attached)

Counted ==
  /\ db.counter = Cardinality(Attached) + (IF owner THEN 1 ELSE 0)
  /\ db.live <=> db.counter > 0
  /\ \A q \in Query :
       /\ query[q].counter = Cardinality(Handles(q))
       /\ query[q].live <=> query[q].counter > 0

DriverInv == DriverTypeOK /\ OnlyLive /\ Counted /\ IsList

(* What is counted are the objects that are there. *)
LEMMA CountersParts == DriverTypeOK /\ Counted => CountersAreExact
BY DEF DriverTypeOK, Counted, CountersAreExact, Handles

----------------------------------------------------------------------------
(* The list. *)

(* A list in order has links that agree. *)
LEMMA QueriesAreLinked ==
  ASSUME IsList
  PROVE  LinksAgree
<1>1. PICK rank \in [Query -> Int] : InOrder(Attached, rank, query, db.head, db.tail, Null)
  BY DEF IsList
<1>2. Attached \in SUBSET Query /\ Null \notin Query
  BY NullAssumption DEF Attached
<1>. DEFINE S == Attached
            head == db.head
            tail == db.tail
<1>3. InOrder(S, rank, query, head, tail, Null) /\ S \in SUBSET Query
  BY <1>1, <1>2
<1>. HIDE DEF S, head, tail
<1>4. Linked(S, query, head, tail, Null)
  BY <1>2, <1>3, ListLinks
<1>. QED BY <1>4 DEF LinksAgree, Linked, S, head, tail

(* The loop of Invalidate_Queries meets every query of the database.       *)
LEMMA ListIsReached ==
  ASSUME DriverInv
  PROVE  ListReachesAll
<1>. PICK rank \in [Query -> Int] : InOrder(Attached, rank, query, db.head, db.tail, Null)
  BY DEF DriverInv, IsList
<1>. DEFINE n == Cardinality(Attached)
            walk == CHOOSE w : w = [i \in 0 .. n |->
                      IF i = 0 THEN db.head
                      ELSE IF w[i - 1] = Null THEN Null ELSE query[w[i - 1]].next]
<1>1. Attached \in SUBSET Query /\ IsFiniteSet(Attached) /\ n \in Nat
  BY FS_CardinalityType DEF Attached, DriverInv, OnlyLive
<1>2. \E w : w = [i \in 0 .. n |->
                    IF i = 0 THEN db.head
                    ELSE IF w[i - 1] = Null THEN Null ELSE query[w[i - 1]].next]
  <2>1. PICK v : WalkOf(v, n, query, db.head, Null)
    BY <1>1, WalkExists
  <2>. DEFINE w == [i \in 0 .. n |-> v[i]]
  <2>2. ASSUME NEW i \in 0 .. n
        PROVE  w[i] = IF i = 0 THEN db.head
                      ELSE IF w[i - 1] = Null THEN Null ELSE query[w[i - 1]].next
    <3>1. CASE i = 0
      BY <2>1, <3>1 DEF WalkOf
    <3>2. CASE i # 0
      <4>1. i - 1 \in 0 .. n - 1 /\ i - 1 \in 0 .. n /\ (i - 1) + 1 = i
        BY <1>1, <3>2
      <4>. QED BY <2>1, <3>2, <4>1 DEF WalkOf, After
    <3>. QED BY <3>1, <3>2
  <2>. QED BY <2>2
<1>3. walk = [i \in 0 .. n |->
                IF i = 0 THEN db.head
                ELSE IF walk[i - 1] = Null THEN Null ELSE query[walk[i - 1]].next]
  BY <1>2
<1>. HIDE DEF walk
<1>4. WalkOf(walk, n, query, db.head, Null)
  <2>1. DOMAIN walk = 0 .. n /\ walk[0] = db.head
    BY <1>1, <1>3
  <2>2. \A i \in 0 .. n - 1 : walk[i + 1] = After(query, walk[i], Null)
    BY <1>1, <1>3 DEF After
  <2>. QED BY <2>1, <2>2 DEF WalkOf
<1>5. {walk[i] : i \in 0 .. n} = Attached \cup {Null}
  <2>. DEFINE S == Attached
              head == db.head
              tail == db.tail
  <2>1. /\ S \in SUBSET Query /\ IsFiniteSet(S) /\ Null \notin Query /\ Cardinality(S) = n
        /\ InOrder(S, rank, query, head, tail, Null) /\ WalkOf(walk, n, query, head, Null)
    BY <1>1, <1>4, NullAssumption
  <2>. HIDE DEF S, head, tail, n
  <2>2. /\ \A k \in 0 .. n : IF k < n THEN walk[k] \in S ELSE walk[k] = Null
        /\ \A x \in S : \E k \in 0 .. n - 1 : walk[k] = x
    BY <1>1, <2>1, WalkMeets
  <2>3. n \in 0 .. n /\ walk[n] = Null
    BY <1>1, <2>2
  <2>4. {walk[i] : i \in 0 .. n} = S \cup {Null}
    BY <1>1, <2>2, <2>3
  <2>. QED BY <2>4 DEF S
<1>. QED BY <1>5 DEF ListReachesAll, walk

----------------------------------------------------------------------------
(* Parts of the invariant. *)

(* What is said of the database's and the queries' components. *)
LEMMA DriverTypes ==
  ASSUME DriverTypeOK
  PROVE  /\ db \in [live : BOOLEAN, counter : Nat, head : Link, tail : Link]
         /\ query \in [Query -> AbstractQuery]
         /\ ref \in [Handle -> Link] /\ owner \in BOOLEAN
BY DEF DriverTypeOK, Link, AbstractQuery

(* The list does not notice what does not change links. *)
LEMMA ListKept ==
  ASSUME IsList, db'.head = db.head, db'.tail = db.tail,
         \A q \in Query : /\ query'[q].attached = query[q].attached
                          /\ query'[q].next = query[q].next
                          /\ query'[q].previous = query[q].previous
  PROVE  IsList' /\ Attached' = Attached
<1>1. Attached' = Attached
  BY DEF Attached
<1>2. PICK rank \in [Query -> Int] : InOrder(Attached, rank, query, db.head, db.tail, Null)
  BY DEF IsList
<1>3. \A q \in Attached : query'[q].next = query[q].next /\ query'[q].previous = query[q].previous
  BY DEF Attached
<1>4. InOrder(Attached, rank, query', db'.head, db'.tail, Null)
  BY <1>2, <1>3 DEF InOrder
<1>. QED BY <1>1, <1>2, <1>4 DEF IsList

(* Nothing is there to be counted at first. *)
LEMMA DriverStarts == DriverInit => DriverInv
<1>. SUFFICES ASSUME DriverInit PROVE DriverInv
  OBVIOUS
<1>1. DriverTypeOK
  BY DEF DriverInit, DriverTypeOK, NoDatabase, NoQuery
<1>2. Attached = {} /\ \A q \in Query : Handles(q) = {}
  BY NullAssumption DEF DriverInit, Attached, NoQuery, Handles
<1>3. OnlyLive
  BY <1>2, FS_EmptySet DEF OnlyLive, DriverInit, NoQuery
<1>4. Counted
  <2>1. Cardinality(Attached) = 0 /\ \A q \in Query : Cardinality(Handles(q)) = 0
    BY <1>2, FS_EmptySet
  <2>. QED BY <2>1 DEF Counted, DriverInit, NoDatabase, NoQuery
<1>5. IsList
  <2>1. InOrder({}, [q \in Query |-> 0], query, db.head, db.tail, Null)
    BY DEF InOrder, DriverInit, NoDatabase
  <2>2. [q \in Query |-> 0] \in [Query -> Int]
    OBVIOUS
  <2>. QED BY <1>2, <2>1, <2>2 DEF IsList
<1>. QED BY <1>1, <1>3, <1>4, <1>5 DEF DriverInv

(* The counter of the database, with the cardinality of its queries. *)
LEMMA DatabaseCounter ==
  ASSUME DriverInv
  PROVE  /\ Cardinality(Attached) \in Nat
         /\ Cardinality(Attached) = 0 <=> Attached = {}
         /\ db.counter = Cardinality(Attached) + (IF owner THEN 1 ELSE 0)
         /\ db.live <=> db.counter > 0
         /\ \A q \in Query : Cardinality(Handles(q)) \in Nat
         /\ \A q \in Query : query[q].counter = Cardinality(Handles(q))
BY FS_CardinalityType, FS_EmptySet DEF DriverInv, OnlyLive, Counted

(* A SQL_Query has a driver query that is allocated. *)
LEMMA HandlesOfLive ==
  ASSUME DriverInv, NEW h \in Handle, ref[h] # Null
  PROVE  /\ ref[h] \in Query /\ query[ref[h]].live /\ query[ref[h]].attached
         /\ ref[h] \in Attached /\ query[ref[h]].counter > 0
<1>1. ref[h] \in Query
  BY DEF DriverInv, DriverTypeOK
<1>2. Handles(ref[h]) # {} /\ IsFiniteSet(Handles(ref[h]))
  BY <1>1 DEF Handles, DriverInv, OnlyLive
<1>3. Cardinality(Handles(ref[h])) \in Nat /\ Cardinality(Handles(ref[h])) # 0
  BY <1>2, FS_CardinalityType, FS_EmptySet
<1>4. query[ref[h]].counter > 0
  BY <1>1, <1>3, DatabaseCounter
<1>. QED BY <1>1, <1>4 DEF DriverInv, OnlyLive, Counted, Attached

----------------------------------------------------------------------------
(* Each call. *)

(* The database is made with one reference and no queries. *)
LEMMA CreateKeeps ==
  ASSUME DriverInv, CreateDatabase
  PROVE  DriverInv'
<1>1. db.counter = 0 /\ Attached = {}
  BY DatabaseCounter, DriverTypes DEF CreateDatabase, DriverInv
<1>2. /\ owner' = TRUE /\ query' = query /\ ref' = ref
      /\ db' = [live |-> TRUE, counter |-> 1, head |-> Null, tail |-> Null]
  BY DEF CreateDatabase, NoDatabase
<1>3. DriverTypeOK'
  BY <1>2 DEF DriverInv, DriverTypeOK
<1>4. db.head = Null /\ db.tail = Null
  BY <1>1 DEF DriverInv, IsList, InOrder
<1>5. IsList' /\ Attached' = Attached
  BY <1>2, <1>4, ListKept DEF DriverInv
<1>6. OnlyLive'
  BY <1>2, <1>5 DEF DriverInv, OnlyLive, Handles
<1>7. Counted'
  <2>1. \A q \in Query : Handles(q)' = Handles(q)
    BY <1>2 DEF Handles
  <2>2. Cardinality(Attached') = 0
    BY <1>1, <1>5, FS_EmptySet
  <2>. QED BY <1>2, <2>1, <2>2 DEF DriverInv, Counted
<1>. QED BY <1>3, <1>5, <1>6, <1>7 DEF DriverInv

(* Its owner leaves it to the queries, if there are any. *)
LEMMA FinalizeDatabaseKeeps ==
  ASSUME DriverInv, FinalizeDatabase
  PROVE  DriverInv'
<1>1. /\ owner = TRUE /\ owner' = FALSE /\ query' = query /\ ref' = ref /\ db' = Released(db)
  BY DEF FinalizeDatabase, DriverInv, DriverTypeOK
<1>2. /\ Cardinality(Attached) \in Nat /\ db.counter = Cardinality(Attached) + 1
      /\ Cardinality(Attached) = 0 <=> Attached = {}
      /\ db.live <=> db.counter > 0
  BY <1>1, DatabaseCounter
<1>3. db \in [live : BOOLEAN, counter : Nat, head : Link, tail : Link]
  BY DriverTypes DEF DriverInv
<1>4. CASE db.counter = 1
  <2>1. db' = NoDatabase /\ Attached = {}
    BY <1>1, <1>2, <1>4 DEF Released
  <2>2. db.head = Null /\ db.tail = Null
    BY <2>1 DEF DriverInv, IsList, InOrder
  <2>3. IsList' /\ Attached' = Attached
    BY <1>1, <2>1, <2>2, ListKept DEF DriverInv, NoDatabase
  <2>4. DriverTypeOK'
    <3>1. db' \in [live : BOOLEAN, counter : Nat, head : Link, tail : Link]
      BY <2>1 DEF NoDatabase, Link
    <3>. QED BY <1>1, <3>1 DEF DriverInv, DriverTypeOK, Link
  <2>5. OnlyLive'
    BY <1>1, <2>3 DEF DriverInv, OnlyLive, Handles
  <2>6. Counted'
    <3>1. \A q \in Query : Handles(q)' = Handles(q)
      BY <1>1 DEF Handles
    <3>2. Cardinality(Attached') = 0
      BY <2>1, <2>3, FS_EmptySet
    <3>. QED BY <1>1, <2>1, <3>1, <3>2 DEF DriverInv, Counted, NoDatabase
  <2>. QED BY <2>3, <2>4, <2>5, <2>6 DEF DriverInv
<1>5. CASE db.counter # 1
  <2>1. db' = [db EXCEPT !.counter = @ - 1]
    BY <1>1, <1>5 DEF Released
  <2>2. /\ db'.counter = Cardinality(Attached) /\ db'.counter > 0 /\ db'.live = db.live
        /\ db'.head = db.head /\ db'.tail = db.tail
        /\ db' \in [live : BOOLEAN, counter : Nat, head : Link, tail : Link]
    BY <1>2, <1>3, <1>5, <2>1
  <2>3. IsList' /\ Attached' = Attached
    BY <1>1, <2>2, ListKept DEF DriverInv
  <2>4. DriverTypeOK'
    BY <1>1, <2>2 DEF DriverInv, DriverTypeOK, Link
  <2>5. OnlyLive'
    BY <1>1, <2>3 DEF DriverInv, OnlyLive, Handles
  <2>6. Counted'
    <3>1. \A q \in Query : Handles(q)' = Handles(q)
      BY <1>1 DEF Handles
    <3>. QED BY <1>1, <1>2, <2>2, <2>3, <3>1 DEF DriverInv, Counted
  <2>. QED BY <2>3, <2>4, <2>5, <2>6 DEF DriverInv
<1>. QED BY <1>4, <1>5

(* A new driver query joins the list, and counts as a user. *)
LEMMA NewQueryKeeps ==
  ASSUME DriverInv, NEW h \in Handle, NEW q \in Query, NewQuery(h, q)
  PROVE  DriverInv' /\ \A x \in Query : query[x].live => query'[x].live
<1>. DEFINE tail == db.tail
<1>1. /\ owner = TRUE /\ owner' = owner /\ ref[h] = Null /\ ~query[q].live
      /\ ref' = [ref EXCEPT ![h] = q]
      /\ db' = [db EXCEPT !.counter = @ + 1, !.head = IF @ = Null THEN q ELSE @, !.tail = q]
      /\ query' = [x \in Query |->
           CASE x = q    -> [NoQuery EXCEPT !.live = TRUE, !.counter = 1,
                                            !.attached = TRUE, !.previous = tail]
             [] x = tail -> [query[x] EXCEPT !.next = q]
             [] OTHER    -> query[x]]
  BY DEF NewQuery, Initialize, DriverInv, DriverTypeOK
<1>2. /\ db \in [live : BOOLEAN, counter : Nat, head : Link, tail : Link]
      /\ query \in [Query -> AbstractQuery] /\ ref \in [Handle -> Link]
  BY DriverTypes DEF DriverInv
<1>3. /\ db'.counter = db.counter + 1 /\ db'.live = db.live
      /\ db'.head = IF db.head = Null THEN q ELSE db.head
      /\ db'.tail = q
      /\ db' \in [live : BOOLEAN, counter : Nat, head : Link, tail : Link]
  <2>. DEFINE hd == IF db.head = Null THEN q ELSE db.head
  <2>1. db' = [db EXCEPT !.counter = @ + 1, !.head = hd, !.tail = q]
    BY <1>1
  <2>2. hd \in Link /\ q \in Link
    BY <1>2 DEF Link
  <2>3. /\ db'.counter = db.counter + 1 /\ db'.live = db.live
        /\ db'.head = hd /\ db'.tail = q
        /\ db' \in [live : BOOLEAN, counter : Nat, head : Link, tail : Link]
    <3>. HIDE DEF hd
    <3>1. db' = [live |-> db.live, counter |-> db.counter + 1, head |-> hd, tail |-> q]
      BY <1>2, <2>1
    <3>2. db.live \in BOOLEAN /\ db.counter + 1 \in Nat
      BY <1>2
    <3>. QED BY <2>2, <3>1, <3>2
  <2>. QED BY <2>3
<1>0. tail # q /\ tail \in Link
  <2>1. tail \in Attached \cup {Null}
    BY DEF DriverInv, IsList, InOrder
  <2>. QED BY <1>1, <1>2, <2>1, NullAssumption DEF Attached, DriverInv, OnlyLive
<1>4. /\ query'[q] = [live |-> TRUE, counter |-> 1, attached |-> TRUE,
                      previous |-> tail, next |-> Null]
      /\ \A x \in Query \ {q} :
           query'[x] = IF x = tail THEN [query[x] EXCEPT !.next = q] ELSE query[x]
  BY <1>0, <1>1 DEF NoQuery
<1>5. /\ \A x \in Query \ {q} :
           /\ query'[x].live = query[x].live /\ query'[x].counter = query[x].counter
           /\ query'[x].attached = query[x].attached
           /\ query'[x].previous = query[x].previous
           /\ query'[x].next = IF x = tail THEN q ELSE query[x].next
           /\ query'[x] \in AbstractQuery
      /\ query'[q] \in AbstractQuery
  <2>1. query'[q] \in AbstractQuery
    BY <1>0, <1>4 DEF AbstractQuery, Link
  <2>. SUFFICES ASSUME NEW x \in Query \ {q}
                PROVE  /\ query'[x].live = query[x].live /\ query'[x].counter = query[x].counter
                       /\ query'[x].attached = query[x].attached
                       /\ query'[x].previous = query[x].previous
                       /\ query'[x].next = IF x = tail THEN q ELSE query[x].next
                       /\ query'[x] \in AbstractQuery
    BY <2>1
  <2>2. query[x] \in AbstractQuery
    BY <1>2
  <2>3. q \in Link
    BY DEF Link
  <2>. HIDE DEF tail
  <2>4. CASE x = tail
    <3>1. query'[x] = [query[x] EXCEPT !.next = q]
      BY <1>4, <2>4
    <3>. QED BY <2>2, <2>3, <2>4, <3>1 DEF AbstractQuery
  <2>5. CASE x # tail
    BY <1>4, <2>2, <2>5
  <2>. QED BY <2>4, <2>5
<1>. HIDE DEF tail
<1>6. q \notin Attached /\ Attached' = Attached \cup {q} /\ Attached \subseteq Query
  BY <1>1, <1>4, <1>5 DEF Attached, DriverInv, OnlyLive
<1>7. DriverTypeOK'
  <2>1. query' \in [Query -> AbstractQuery]
    BY <1>1, <1>5
  <2>2. ref' \in [Handle -> Link]
    BY <1>1, <1>2 DEF Link
  <2>. QED BY <1>1, <1>3, <2>1, <2>2 DEF DriverTypeOK, Link, AbstractQuery
<1>8. Handles(q)' = {h} /\ \A x \in Query \ {q} : Handles(x)' = Handles(x)
  <2>1. Handles(q) = {}
    BY <1>1, HandlesOfLive, NullAssumption DEF Handles
  <2>. QED BY <1>1, <1>2, <2>1, NullAssumption DEF Handles
<1>9. OnlyLive'
  <2>1. IsFiniteSet(Attached')
    BY <1>6, FS_AddElement DEF DriverInv, OnlyLive
  <2>2. \A x \in Query : IsFiniteSet(Handles(x)')
    <3>1. IsFiniteSet(Handles(q)')
      BY <1>8, FS_Singleton
    <3>. QED BY <1>8, <3>1 DEF DriverInv, OnlyLive
  <2>. QED BY <1>4, <1>5, <2>1, <2>2 DEF DriverInv, OnlyLive
<1>10. Counted'
  <2>1. Cardinality(Attached') = Cardinality(Attached) + 1
    BY <1>6, FS_AddElement DEF DriverInv, OnlyLive
  <2>2. /\ db'.counter = Cardinality(Attached') + (IF owner' THEN 1 ELSE 0)
        /\ db'.live <=> db'.counter > 0
    BY <1>1, <1>3, <2>1, DatabaseCounter
  <2>3. \A x \in Query : /\ query'[x].counter = Cardinality(Handles(x)')
                         /\ query'[x].live <=> query'[x].counter > 0
    <3>1. Cardinality(Handles(q)') = 1
      BY <1>8, FS_Singleton
    <3>. TAKE x \in Query
    <3>8. CASE x = q
      BY <1>4, <1>8, <3>1, <3>8
    <3>9. CASE x # q
      <4>1. query[x].counter = Cardinality(Handles(x)) /\ (query[x].live <=> query[x].counter > 0)
        BY DEF DriverInv, Counted
      <4>. QED BY <1>5, <1>8, <3>9, <4>1
    <3>. QED BY <3>8, <3>9
  <2>. QED BY <2>2, <2>3 DEF Counted
<1>11. IsList'
  <2>1. PICK rank \in [Query -> Int] : InOrder(Attached, rank, query, db.head, tail, Null)
    BY DEF DriverInv, IsList, tail
  <2>2. \E r \in [Query -> Int] :
          InOrder(Attached \cup {q}, r, query', IF db.head = Null THEN q ELSE db.head, q, Null)
    <3>1. /\ query'[q].previous = tail /\ query'[q].next = Null
          /\ \A x \in Attached : query'[x].previous = query[x].previous
          /\ \A x \in Attached : query'[x].next = IF x = tail THEN q ELSE query[x].next
      BY <1>4, <1>5, <1>6
    <3>2. Attached \in SUBSET Query /\ q \in Query \ Attached
      BY <1>6
    <3>. HIDE DEF tail
    <3>3. PICK top \in Int :
            InOrder(Attached \cup {q}, [rank EXCEPT ![q] = top], query',
                    IF db.head = Null THEN q ELSE db.head, q, Null)
      <4>. DEFINE head == db.head
                  after == query'
      <4>1. /\ after[q].previous = tail /\ after[q].next = Null
            /\ \A x \in Attached : after[x].previous = query[x].previous
            /\ \A x \in Attached : after[x].next = IF x = tail THEN q ELSE query[x].next
            /\ InOrder(Attached, rank, query, head, tail, Null)
        BY <2>1, <3>1
      <4>. HIDE DEF head, after
      <4>2. \E top \in Int :
              InOrder(Attached \cup {q}, [rank EXCEPT ![q] = top], after,
                      IF head = Null THEN q ELSE head, q, Null)
        BY ONLY <4>1, <3>2, NullAssumption, JoinsList
      <4>. QED BY <4>2 DEF head, after
    <3>. QED BY <3>3
  <2>. QED BY <1>3, <1>6, <2>2 DEF IsList
<1>12. \A x \in Query : query[x].live => query'[x].live
  BY <1>1, <1>5
<1>. QED BY <1>7, <1>9, <1>10, <1>11, <1>12 DEF DriverInv

(* A copy counts as another user of the driver query. *)
LEMMA CopyQueryKeeps ==
  ASSUME DriverInv, NEW h \in Handle, NEW g \in Handle, CopyQuery(h, g)
  PROVE  DriverInv' /\ \A x \in Query : query'[x].live = query[x].live
<1>. PICK q : q = ref[g]
  OBVIOUS
<1>1. /\ ref[h] = Null /\ q # Null /\ ref' = [ref EXCEPT ![h] = q]
      /\ query' = [query EXCEPT ![q].counter = @ + 1]
      /\ owner' = owner /\ db' = db
  BY DEF CopyQuery
<1>2. /\ query \in [Query -> AbstractQuery] /\ ref \in [Handle -> Link]
  BY DriverTypes DEF DriverInv
<1>3. q \in Query /\ query[q].live /\ query[q].counter > 0
  BY <1>1, HandlesOfLive
<1>4. /\ \A x \in Query :
           /\ query'[x].live = query[x].live
           /\ query'[x].attached = query[x].attached
           /\ query'[x].previous = query[x].previous /\ query'[x].next = query[x].next
           /\ query'[x].counter = IF x = q THEN query[x].counter + 1 ELSE query[x].counter
           /\ query'[x] \in AbstractQuery
      /\ query' \in [Query -> AbstractQuery]
  BY <1>1, <1>2, <1>3 DEF AbstractQuery
<1>5. IsList' /\ Attached' = Attached
  BY <1>1, <1>4, ListKept DEF DriverInv
<1>6. DriverTypeOK'
  <2>1. ref' \in [Handle -> Link]
    BY <1>1, <1>2, <1>3 DEF Link
  <2>. QED BY <1>1, <1>4, <2>1 DEF DriverInv, DriverTypeOK, Link, AbstractQuery
<1>7. /\ Handles(q)' = Handles(q) \cup {h} /\ h \notin Handles(q)
      /\ \A x \in Query \ {q} : Handles(x)' = Handles(x)
  BY <1>1, <1>2, <1>3, NullAssumption DEF Handles
<1>8. /\ IsFiniteSet(Handles(q)')
      /\ Cardinality(Handles(q)') = Cardinality(Handles(q)) + 1
  BY <1>3, <1>7, FS_AddElement DEF DriverInv, OnlyLive
<1>9. OnlyLive'
  <2>1. \A x \in Query : IsFiniteSet(Handles(x)) /\ (query[x].attached <=> query[x].live)
    BY DEF DriverInv, OnlyLive
  <2>2. \A x \in Query : IsFiniteSet(Handles(x)')
    BY <1>7, <1>8, <2>1
  <2>3. \A x \in Query : query'[x].attached <=> query'[x].live
    BY <1>4, <2>1
  <2>4. IsFiniteSet(Attached')
    BY <1>5 DEF DriverInv, OnlyLive
  <2>. QED BY <2>2, <2>3, <2>4 DEF OnlyLive
<1>10. Counted'
  <2>1. \A x \in Query : /\ query'[x].counter = Cardinality(Handles(x)')
                         /\ query'[x].live <=> query'[x].counter > 0
    <3>. TAKE x \in Query
    <3>8. CASE x = q
      <4>1. Cardinality(Handles(q)) \in Nat /\ query[q].counter = Cardinality(Handles(q))
        BY <1>3, DatabaseCounter
      <4>2. query'[q].counter = Cardinality(Handles(q)') /\ query'[q].counter > 0
        BY <1>3, <1>4, <1>8, <4>1
      <4>3. query'[q].live
        BY <1>3, <1>4
      <4>. QED BY <3>8, <4>2, <4>3
    <3>9. CASE x # q
      <4>1. query[x].counter = Cardinality(Handles(x)) /\ (query[x].live <=> query[x].counter > 0)
        BY DEF DriverInv, Counted
      <4>. QED BY <1>4, <1>7, <3>9, <4>1
    <3>. QED BY <3>8, <3>9
  <2>. QED BY <1>1, <1>5, <2>1 DEF DriverInv, Counted
<1>. QED BY <1>4, <1>5, <1>6, <1>9, <1>10 DEF DriverInv

(* The last user of a driver query takes it out of the list, and the last  *)
(* query its database.                                                     *)
LEMMA InvalidateKeeps ==
  ASSUME DriverInv, NEW h \in Handle, ref[h] # Null, query[ref[h]].counter = 1,
         Invalidate(ref[h]), ref' = [ref EXCEPT ![h] = Null], UNCHANGED owner
  PROVE  DriverInv' /\ \A x \in Query : x # ref[h] => query'[x].live = query[x].live
<1>. PICK q : q = ref[h]
  OBVIOUS
<1>. DEFINE n == query[q].next
            p == query[q].previous
            d == [db EXCEPT !.head = IF @ = q THEN n ELSE @, !.tail = IF @ = q THEN p ELSE @]
<1>1. /\ query' = [x \in Query |->
            CASE x = q -> NoQuery
              [] x = p -> [query[x] EXCEPT !.next = n]
              [] x = n -> [query[x] EXCEPT !.previous = p]
              [] OTHER -> query[x]]
      /\ db' = Released(d)
  BY DEF Invalidate
<1>2. /\ db \in [live : BOOLEAN, counter : Nat, head : Link, tail : Link]
      /\ query \in [Query -> AbstractQuery] /\ ref \in [Handle -> Link]
  BY DriverTypes DEF DriverInv
<1>3. q \in Query /\ q \in Attached /\ query[q].counter = 1 /\ n \in Link /\ p \in Link
  BY <1>2, HandlesOfLive DEF AbstractQuery
<1>4. p # q /\ n # q /\ (p # n \/ (p = Null /\ n = Null))
  <2>1. PICK rank \in [Query -> Int] : InOrder(Attached, rank, query, db.head, db.tail, Null)
    BY DEF DriverInv, IsList
  <2>2. Follower(Attached, rank, q, n, Null) /\ Leader(Attached, rank, q, p, Null)
    BY <1>3, <2>1 DEF InOrder
  <2>3. \A x \in Attached : rank[x] \in Int
    BY DEF Attached
  <2>4. Null \notin Attached /\ rank[q] \in Int
    BY <1>3, <2>3, NullAssumption DEF Attached
  <2>5. n = Null \/ (n \in Attached /\ rank[q] < rank[n] /\ rank[n] \in Int)
    BY <2>2, <2>3 DEF Follower
  <2>6. p = Null \/ (p \in Attached /\ rank[p] < rank[q] /\ rank[p] \in Int)
    BY <2>2, <2>3 DEF Leader
  <2>. HIDE DEF n, p
  <2>. QED BY <1>3, <2>4, <2>5, <2>6
<1>5. query'[q] = NoQuery
  BY <1>1, <1>3, <1>4
<1>6. \A x \in Query \ {q} :
        /\ query'[x].live = query[x].live /\ query'[x].counter = query[x].counter
        /\ query'[x].attached = query[x].attached
        /\ query'[x].next = IF x = p THEN n ELSE query[x].next
        /\ query'[x].previous = IF x = n THEN p ELSE query[x].previous
        /\ query'[x] \in AbstractQuery
  <2>. TAKE x \in Query \ {q}
  <2>1. x # Null /\ query[x] \in AbstractQuery
    BY <1>2, NullAssumption
  <2>2. CASE x = p
    <3>1. query'[x] = [query[x] EXCEPT !.next = n] /\ x # n
      BY <1>1, <1>4, <2>1, <2>2
    <3>. HIDE DEF n, p
    <3>. QED BY <1>3, <2>1, <2>2, <3>1 DEF AbstractQuery
  <2>3. CASE x # p /\ x = n
    <3>1. query'[x] = [query[x] EXCEPT !.previous = p]
      BY <1>1, <2>3
    <3>. HIDE DEF n, p
    <3>. QED BY <1>3, <2>1, <2>3, <3>1 DEF AbstractQuery
  <2>4. CASE x # p /\ x # n
    <3>1. query'[x] = query[x]
      BY <1>1, <2>4
    <3>. HIDE DEF n, p
    <3>. QED BY <2>1, <2>4, <3>1
  <2>. QED BY <2>2, <2>3, <2>4
<1>7. /\ d.counter = db.counter /\ d.live = db.live
      /\ d.head = IF db.head = q THEN n ELSE db.head
      /\ d.tail = IF db.tail = q THEN p ELSE db.tail
      /\ d \in [live : BOOLEAN, counter : Nat, head : Link, tail : Link]
  BY <1>2, <1>3
<1>8. Attached' = Attached \ {q}
  BY <1>5, <1>6 DEF Attached, NoQuery
<1>9. /\ IsFiniteSet(Attached') /\ Cardinality(Attached') = Cardinality(Attached) - 1
      /\ Cardinality(Attached') \in Nat
      /\ Cardinality(Attached') = 0 <=> Attached' = {}
  BY <1>3, <1>8, FS_RemoveElement, FS_CardinalityType, FS_EmptySet DEF DriverInv, OnlyLive
<1>10. \E rank \in [Query -> Int] : InOrder(Attached', rank, query', d.head, d.tail, Null)
  <2>1. PICK rank \in [Query -> Int] : InOrder(Attached, rank, query, db.head, db.tail, Null)
    BY DEF DriverInv, IsList
  <2>2. Attached \in SUBSET Query
    BY DEF Attached
  <2>3. \A x \in Attached \ {q} :
           /\ query'[x].next = IF x = p THEN n ELSE query[x].next
           /\ query'[x].previous = IF x = n THEN p ELSE query[x].previous
    BY <1>6, <2>2
  <2>4. InOrder(Attached \ {q}, rank, query', IF db.head = q THEN n ELSE db.head,
                IF db.tail = q THEN p ELSE db.tail, Null)
    <3>1. \A x \in Attached \ {q} :
            /\ query'[x].next = IF x = query[q].previous THEN query[q].next ELSE query[x].next
            /\ query'[x].previous = IF x = query[q].next THEN query[q].previous
                                                         ELSE query[x].previous
      BY <2>3
    <3>2. q \in Attached
      BY <1>3
    <3>. HIDE DEF d
    <3>3. InOrder(Attached \ {q}, rank, query', IF db.head = q THEN query[q].next ELSE db.head,
                  IF db.tail = q THEN query[q].previous ELSE db.tail, Null)
      BY ONLY <2>1, <2>2, <3>1, <3>2, NullAssumption, LeavesList
    <3>. QED BY <3>3
  <2>. QED BY <1>7, <1>8, <2>4
<1>11. Handles(q) = {h} /\ Handles(q)' = {} /\ \A x \in Query \ {q} : Handles(x)' = Handles(x)
  <2>1. h \in Handles(q) /\ IsFiniteSet(Handles(q)) /\ Cardinality(Handles(q)) = 1
    BY <1>3, DatabaseCounter DEF Handles, DriverInv, OnlyLive
  <2>2. Handles(q) = {h}
    BY <2>1, FS_Singleton
  <2>. QED BY <1>2, <1>3, <2>2, NullAssumption DEF Handles
<1>. HIDE DEF n, p, d
<1>12. OnlyLive'
  <2>1. IsFiniteSet(Handles(q)')
    BY <1>11, FS_EmptySet
  <2>2. \A x \in Query : query'[x].attached <=> query'[x].live
    BY <1>5, <1>6 DEF DriverInv, OnlyLive, NoQuery
  <2>3. \A x \in Query : IsFiniteSet(Handles(x)')
    BY <1>11, <2>1 DEF DriverInv, OnlyLive
  <2>. QED BY <1>9, <2>2, <2>3 DEF OnlyLive
<1>13. \A x \in Query : /\ query'[x].counter = Cardinality(Handles(x)')
                        /\ query'[x].live <=> query'[x].counter > 0
  <2>1. Cardinality(Handles(q)') = 0
    BY <1>11, FS_EmptySet
  <2>. TAKE x \in Query
  <2>8. CASE x = q
    BY <1>5, <2>1, <2>8 DEF NoQuery
  <2>9. CASE x # q
    <3>1. query[x].counter = Cardinality(Handles(x)) /\ (query[x].live <=> query[x].counter > 0)
      BY DEF DriverInv, Counted
    <3>. QED BY <1>6, <1>11, <2>9, <3>1
  <2>. QED BY <2>8, <2>9
<1>14. query' \in [Query -> AbstractQuery] /\ ref' \in [Handle -> Link]
  <2>1. NoQuery \in AbstractQuery
    BY DEF NoQuery, AbstractQuery, Link
  <2>. QED BY <1>1, <1>2, <1>5, <1>6, <2>1 DEF Link
<1>15. \A x \in Query : x # ref[h] => query'[x].live = query[x].live
  BY <1>6
<1>16. ASSUME db.counter = 1
       PROVE  DriverInv'
  <2>1. db' = NoDatabase
    BY <1>1, <1>7, <1>16 DEF Released
  <2>2. Cardinality(Attached') = 0 /\ ~owner /\ Attached' = {}
    BY <1>9, <1>16, DatabaseCounter
  <2>3. IsList'
    BY <1>10, <2>1, <2>2 DEF IsList, InOrder, NoDatabase
  <2>4. DriverTypeOK'
    BY <1>14, <2>1 DEF DriverInv, DriverTypeOK, NoDatabase, Link, AbstractQuery
  <2>5. Counted'
    BY <1>13, <2>1, <2>2 DEF Counted, NoDatabase
  <2>. QED BY <1>12, <2>3, <2>4, <2>5 DEF DriverInv
<1>17. ASSUME db.counter # 1
       PROVE  DriverInv'
  <2>1. db' = [d EXCEPT !.counter = @ - 1]
    BY <1>1, <1>7, <1>17 DEF Released
  <2>2. /\ db'.counter = db.counter - 1 /\ db'.live = db.live
        /\ db'.head = d.head /\ db'.tail = d.tail
    BY <1>7, <2>1
  <2>3. /\ db'.counter = Cardinality(Attached') + (IF owner' THEN 1 ELSE 0)
        /\ db'.counter \in Nat
        /\ db'.live <=> db'.counter > 0
    BY <1>9, <1>17, <2>2, DatabaseCounter
  <2>4. IsList'
    BY <1>10, <2>2 DEF IsList
  <2>5. DriverTypeOK'
    BY <1>7, <1>14, <2>1, <2>2, <2>3 DEF DriverInv, DriverTypeOK, Link, AbstractQuery
  <2>6. Counted'
    BY <1>13, <2>3 DEF Counted
  <2>. QED BY <1>12, <2>4, <2>5, <2>6 DEF DriverInv
<1>. QED BY <1>15, <1>16, <1>17

(* A SQL_Query that goes out of scope counts no longer. *)
LEMMA FinalizeQueryKeeps ==
  ASSUME DriverInv, NEW h \in Handle, FinalizeQuery(h)
  PROVE  DriverInv' /\ \A x \in Query : x # ref[h] => query'[x].live = query[x].live
<1>. PICK q : q = ref[h]
  OBVIOUS
<1>1. CASE query[q].counter = 1 /\ Invalidate(q)
  BY <1>1, InvalidateKeeps DEF FinalizeQuery
<1>2. CASE /\ query[q].counter # 1
           /\ query' = [query EXCEPT ![q].counter = @ - 1]
           /\ UNCHANGED db
  <2>1. /\ q # Null /\ ref' = [ref EXCEPT ![h] = Null] /\ owner' = owner /\ db' = db
    BY <1>2 DEF FinalizeQuery
  <2>2. /\ query \in [Query -> AbstractQuery] /\ ref \in [Handle -> Link]
    BY DriverTypes DEF DriverInv
  <2>3. q \in Query /\ query[q].live /\ query[q].counter > 0 /\ query[q].counter \in Nat
    BY <2>1, <2>2, HandlesOfLive DEF AbstractQuery
  <2>4. /\ \A x \in Query :
             /\ query'[x].live = query[x].live
             /\ query'[x].attached = query[x].attached
             /\ query'[x].previous = query[x].previous /\ query'[x].next = query[x].next
             /\ query'[x].counter = IF x = q THEN query[x].counter - 1 ELSE query[x].counter
             /\ query'[x] \in AbstractQuery
        /\ query' \in [Query -> AbstractQuery]
    BY <1>2, <2>2, <2>3 DEF AbstractQuery
  <2>5. IsList' /\ Attached' = Attached
    BY <2>1, <2>4, ListKept DEF DriverInv
  <2>6. DriverTypeOK'
    <3>1. ref' \in [Handle -> Link]
      BY <2>1, <2>2 DEF Link
    <3>. QED BY <2>1, <2>4, <3>1 DEF DriverInv, DriverTypeOK, Link, AbstractQuery
  <2>7. /\ Handles(q)' = Handles(q) \ {h} /\ h \in Handles(q)
        /\ \A x \in Query \ {q} : Handles(x)' = Handles(x)
    BY <2>1, <2>2, <2>3, NullAssumption DEF Handles
  <2>8. /\ IsFiniteSet(Handles(q)')
        /\ Cardinality(Handles(q)') = Cardinality(Handles(q)) - 1
    BY <2>3, <2>7, FS_RemoveElement DEF DriverInv, OnlyLive
  <2>9. OnlyLive'
    BY <2>4, <2>5, <2>7, <2>8 DEF DriverInv, OnlyLive
  <2>10. Counted'
    <3>1. \A x \in Query : /\ query'[x].counter = Cardinality(Handles(x)')
                           /\ query'[x].live <=> query'[x].counter > 0
      <4>. TAKE x \in Query
      <4>8. CASE x = q
        <5>1. Cardinality(Handles(q)) \in Nat /\ query[q].counter = Cardinality(Handles(q))
          BY <2>3, DatabaseCounter
        <5>2. query'[q].counter = Cardinality(Handles(q)') /\ query'[q].counter > 0
          BY <1>2, <2>3, <2>4, <2>8, <5>1
        <5>3. query'[q].live
          BY <2>3, <2>4
        <5>. QED BY <4>8, <5>2, <5>3
      <4>9. CASE x # q
        <5>1. query[x].counter = Cardinality(Handles(x)) /\ (query[x].live <=> query[x].counter > 0)
          BY DEF DriverInv, Counted
        <5>. QED BY <2>4, <2>7, <4>9, <5>1
      <4>. QED BY <4>8, <4>9
    <3>. QED BY <2>1, <2>5, <3>1 DEF DriverInv, Counted
  <2>. QED BY <2>4, <2>5, <2>6, <2>9, <2>10 DEF DriverInv
<1>. QED BY <1>1, <1>2 DEF FinalizeQuery

(* What is not called changes nothing. *)
LEMMA DriverKept ==
  ASSUME DriverInv, UNCHANGED driverVars
  PROVE  DriverInv' /\ query' = query
<1>1. owner' = owner /\ db' = db /\ ref' = ref /\ query' = query
  BY DEF driverVars
<1>2. IsList' /\ Attached' = Attached
  BY <1>1, ListKept DEF DriverInv
<1>3. \A x \in Query : Handles(x)' = Handles(x)
  BY <1>1 DEF Handles
<1>. QED BY <1>1, <1>2, <1>3 DEF DriverInv, DriverTypeOK, OnlyLive, Counted

------------------------------------------------------------------------------
(* The SQLite driver.                                                      *)

Statements == [state : {"null", "ready", "row", "done", "error"},
               rows : 0 .. MaxRows, row : 0 .. MaxRows, bound : Value \cup {Null}]
Flags == [active : BOOLEAN, hasRow : BOOLEAN, skipStep : BOOLEAN,
          parameter : Value \cup {Null}]

SqliteTypes ==
  /\ connection \in {"none", "open", "failed"}
  /\ statement \in [Query -> Statements]
  /\ cursor \in [Query -> Flags]

(* A query that is not there has no statement, and one that is not active  *)
(* is not in the middle of a result.                                       *)
Agrees(q) ==
  /\ ~query[q].live => statement[q] = NoStatement /\ cursor[q] = NoCursor
  /\ statement[q].state # "null" => connection = "open"
  /\ IF cursor[q].active THEN statement[q].state # "null"
                         ELSE statement[q].state \in {"null", "ready", "error"}

(* The flags of an active query tell where its statement is. *)
OnResult(s, c) ==
  /\ s.state \in {"row", "done"}
  /\ c.hasRow <=> s.state = "row"
  /\ s.state = "row" => 1 <= s.row /\ s.row <= s.rows
  /\ s.state = "done" => s.row = s.rows
  /\ c.skipStep => s.state = "row" /\ s.row = 1

SqliteInv ==
  /\ DriverInv /\ SqliteTypes
  /\ \A q \in Query : Agrees(q)
  /\ "next" \notin FailAt => \A q \in Query : cursor[q].active => OnResult(statement[q], cursor[q])

(* The parts of TypeOK. *)
LEMMA TypeParts == DriverTypeOK /\ SqliteTypes <=> TypeOK
BY DEF SqliteTypes, TypeOK, Statements, Flags

(* A statement that is allocated belongs to a query of a live database. *)
LEMMA Connected == SqliteInv => ClosesAfterStatements
<1>. SUFFICES ASSUME SqliteInv, NEW q \in Query, statement[q].state # "null"
              PROVE  query[q].attached /\ db.live /\ connection = "open"
  BY DEF ClosesAfterStatements
<1>1. connection = "open" /\ query[q].live
  BY DEF SqliteInv, Agrees, NoStatement
<1>2. query[q].attached /\ q \in Attached
  BY <1>1 DEF SqliteInv, DriverInv, OnlyLive, Attached
<1>3. db.live
  BY <1>2, DatabaseCounter DEF SqliteInv
<1>. QED BY <1>1, <1>2, <1>3

(* Nothing has been prepared at first. *)
LEMMA SqliteStarts == Init => SqliteInv
<1>. SUFFICES ASSUME Init PROVE SqliteInv
  OBVIOUS
<1>1. NoStatement \in Statements /\ NoCursor \in Flags
  BY SqliteAssumption DEF NoStatement, Statements, NoCursor, Flags
<1>2. SqliteTypes
  BY <1>1 DEF Init, SqliteTypes
<1>3. DriverInv
  BY DriverStarts DEF Init
<1>4. \A q \in Query : statement[q] = NoStatement /\ cursor[q] = NoCursor
  BY DEF Init
<1>5. NoStatement.state = "null" /\ NoCursor.active = FALSE
  BY DEF NoStatement, NoCursor
<1>6. \A q \in Query : Agrees(q) /\ ~cursor[q].active
  BY <1>4, <1>5 DEF Agrees
<1>. QED BY <1>2, <1>3, <1>6 DEF SqliteInv

----------------------------------------------------------------------------
(* The library. *)

(* A statement that is reset is ready. *)
LEMMA ResetStatement ==
  ASSUME NEW s \in Statements
  PROVE  Reset(s) \in Statements /\ Reset(s).state = "ready"
<1>1. 0 \in 0 .. MaxRows
  BY SqliteAssumption
<1>. QED BY <1>1 DEF Reset, Statements

(* One that fails is left so. *)
LEMMA StepFails ==
  ASSUME NEW s \in Statements
  PROVE  /\ [Reset(s) EXCEPT !.state = "error"] \in Statements
         /\ [Reset(s) EXCEPT !.state = "error"].state = "error"
<1>1. Reset(s) \in Statements
  BY ResetStatement
<1>. QED BY <1>1 DEF Statements

(* On a row of n or past the last one. *)
LEMMA RowOf ==
  ASSUME NEW s \in Statements, NEW n \in 0 .. MaxRows, NEW row \in Nat \ {0}
  PROVE  /\ OnRow(s, n, row) \in Statements
         /\ OnRow(s, n, row).rows = n
         /\ row <= n => OnRow(s, n, row).state = "row" /\ OnRow(s, n, row).row = row
         /\ row > n => OnRow(s, n, row).state = "done" /\ OnRow(s, n, row).row = n
<1>. DEFINE st == IF row <= n THEN "row" ELSE "done"
            at == IF row <= n THEN row ELSE n
<1>1. OnRow(s, n, row) = [s EXCEPT !.state = st, !.rows = n, !.row = at]
  BY DEF OnRow
<1>2. st \in {"row", "done"} /\ at \in 0 .. MaxRows /\ s.bound \in Value \cup {Null}
  BY SqliteAssumption DEF Statements
<1>3. /\ row <= n => st = "row" /\ at = row
      /\ row > n => st = "done" /\ at = n
  BY SqliteAssumption
<1>. HIDE DEF st, at
<1>4. /\ OnRow(s, n, row) \in Statements
      /\ OnRow(s, n, row).state = st /\ OnRow(s, n, row).rows = n /\ OnRow(s, n, row).row = at
  BY <1>1, <1>2 DEF Statements
<1>. QED BY <1>3, <1>4

(* A statement that is not on a result begins one, or fails. *)
LEMMA StepBegins ==
  ASSUME NEW s \in Statements, s.state \in {"ready", "error"}, NEW during,
         NEW t \in Stepped(s, during)
  PROVE  /\ t \in Statements
         /\ \/ t.state = "error"
            \/ t.state = "row" /\ t.row = 1 /\ 1 <= t.rows
            \/ t.state = "done" /\ t.row = 0 /\ t.rows = 0
<1>1. CASE \E n \in 0 .. MaxRows : t = OnRow(s, n, 1)
  <2>. PICK n \in 0 .. MaxRows : t = OnRow(s, n, 1)
    BY <1>1
  <2>1. 1 <= n \/ (n = 0 /\ 1 > n)
    BY SqliteAssumption
  <2>. QED BY <2>1, RowOf
<1>2. CASE t = [Reset(s) EXCEPT !.state = "error"]
  BY <1>2, StepFails
<1>. QED BY <1>1, <1>2 DEF Stepped

(* One on a row goes on to the next row, or past the last one. *)
LEMMA StepGoesOn ==
  ASSUME NEW s \in Statements, s.state = "row", NEW during,
         NEW t \in Stepped(s, during)
  PROVE  /\ t \in Statements
         /\ \/ t.state = "error" /\ during \in FailAt
            \/ /\ t.state = "row" /\ t.row = s.row + 1 /\ t.row <= t.rows
               /\ t.rows = s.rows
            \/ /\ t.state = "done" /\ t.row = t.rows /\ s.row + 1 > s.rows
               /\ t.rows = s.rows
<1>1. CASE t = OnRow(s, s.rows, s.row + 1)
  <2>1. s.rows \in 0 .. MaxRows /\ s.row + 1 \in Nat \ {0}
    BY SqliteAssumption DEF Statements
  <2>2. s.row + 1 <= s.rows \/ s.row + 1 > s.rows
    BY <2>1, SqliteAssumption
  <2>. QED BY <1>1, <2>1, <2>2, RowOf
<1>2. CASE during \in FailAt /\ t = [Reset(s) EXCEPT !.state = "error"]
  BY <1>2, StepFails
<1>. QED BY <1>1, <1>2 DEF Stepped

----------------------------------------------------------------------------
(* Each call. *)

(* A call of the driver is a matter of one query that is there. *)
LEMMA OneQuery ==
  ASSUME SqliteInv, UNCHANGED <<driverVars, connection>>,
         NEW q \in Query, query[q].live,
         NEW s \in Statements, NEW c \in Flags,
         statement' = [statement EXCEPT ![q] = s],
         cursor' = [cursor EXCEPT ![q] = c],
         s.state # "null" => connection = "open",
         IF c.active THEN s.state # "null" ELSE s.state \in {"null", "ready", "error"},
         "next" \notin FailAt /\ c.active => OnResult(s, c)
  PROVE  SqliteInv'
<1>1. DriverInv' /\ query' = query /\ connection' = connection
  BY DriverKept DEF SqliteInv
<1>2. SqliteTypes'
  BY <1>1 DEF SqliteInv, SqliteTypes
<1>3. /\ statement'[q] = s /\ cursor'[q] = c
      /\ \A x \in Query \ {q} : statement'[x] = statement[x] /\ cursor'[x] = cursor[x]
  BY DEF SqliteInv, SqliteTypes
<1>4. \A x \in Query : Agrees(x)'
  BY <1>1, <1>3 DEF SqliteInv, Agrees
<1>5. "next" \notin FailAt =>
        \A x \in Query : cursor'[x].active => OnResult(statement'[x], cursor'[x])
  BY <1>3 DEF SqliteInv
<1>. QED BY <1>1, <1>2, <1>4, <1>5 DEF SqliteInv

(* The query of a SQL_Query is there. *)
LEMMA TheQuery ==
  ASSUME SqliteInv, NEW h \in Handle, ref[h] # Null
  PROVE  /\ ref[h] \in Query /\ query[ref[h]].live
         /\ statement[ref[h]] \in Statements /\ cursor[ref[h]] \in Flags
         /\ Agrees(ref[h])
BY HandlesOfLive DEF SqliteInv, SqliteTypes

(* Prepare *)
LEMMA PrepareKeeps ==
  ASSUME SqliteInv, NEW h \in Handle, Prepare(h)
  PROVE  SqliteInv'
<1>. PICK q : q = ref[h]
  OBVIOUS
<1>1. q \in Query /\ query[q].live /\ cursor[q] \in Flags
  BY TheQuery DEF Prepare
<1>2. PICK s \in {NoStatement} \cup (IF connection = "open" THEN {Prepared} ELSE {}) :
        statement' = [statement EXCEPT ![q] = s]
  BY DEF Prepare
<1>. DEFINE c == [cursor[q] EXCEPT !.active = FALSE, !.parameter = Null]
<1>3. UNCHANGED <<driverVars, connection>> /\ cursor' = [cursor EXCEPT ![q] = c]
  BY DEF Prepare
<1>4. s \in Statements /\ s.state \in {"null", "ready"}
  BY SqliteAssumption DEF NoStatement, Prepared, Statements
<1>5. s.state # "null" => connection = "open"
  BY <1>2 DEF NoStatement
<1>6. c \in Flags /\ ~c.active
  BY <1>1 DEF Flags
<1>. HIDE DEF c
<1>. QED BY <1>1, <1>2, <1>3, <1>4, <1>5, <1>6, OneQuery

(* Bind_Value *)
LEMMA BindValueKeeps ==
  ASSUME SqliteInv, NEW h \in Handle, NEW v \in Value, BindValue(h, v)
  PROVE  SqliteInv'
<1>. PICK q : q = ref[h]
  OBVIOUS
<1>1. /\ q \in Query /\ query[q].live /\ Agrees(q)
      /\ cursor[q] \in Flags /\ statement[q] \in Statements
  BY TheQuery DEF BindValue
<1>. DEFINE c == [cursor[q] EXCEPT !.parameter = v]
            s == statement[q]
<1>2. /\ UNCHANGED <<driverVars, connection>> /\ cursor' = [cursor EXCEPT ![q] = c]
      /\ statement' = statement
  BY DEF BindValue
<1>3. statement' = [statement EXCEPT ![q] = s]
  BY <1>1, <1>2 DEF SqliteInv, SqliteTypes
<1>4. /\ c \in Flags /\ c.active = cursor[q].active
      /\ c.hasRow = cursor[q].hasRow /\ c.skipStep = cursor[q].skipStep
  BY <1>1 DEF Flags
<1>5. "next" \notin FailAt /\ c.active => OnResult(s, c)
  <2>. HIDE DEF c
  <2>. QED BY <1>1, <1>4 DEF SqliteInv, OnResult
<1>. HIDE DEF c
<1>. QED BY <1>1, <1>2, <1>3, <1>4, <1>5, OneQuery DEF Agrees

(* A statement is finished before it is executed again. *)
LEMMA Finishes ==
  ASSUME SqliteInv, NEW q \in Query
  PROVE  /\ FinishedStatement(q) \in Statements
         /\ FinishedStatement(q).state \in {"null", "ready", "error"}
         /\ FinishedStatement(q).state = "null" <=> statement[q].state = "null"
<1>1. statement[q] \in Statements /\ Agrees(q)
  BY DEF SqliteInv, SqliteTypes
<1>2. CASE cursor[q].active
  <2>1. FinishedStatement(q) \in Statements /\ FinishedStatement(q).state = "ready"
    BY <1>1, <1>2, ResetStatement DEF FinishedStatement
  <2>. QED BY <1>1, <1>2, <2>1 DEF Agrees
<1>3. CASE ~cursor[q].active
  BY <1>1, <1>3 DEF FinishedStatement, Agrees
<1>. QED BY <1>2, <1>3

(* Finish *)
LEMMA FinishKeeps ==
  ASSUME SqliteInv, NEW h \in Handle, Finish(h)
  PROVE  SqliteInv'
<1>. PICK q : q = ref[h]
  OBVIOUS
<1>1. q \in Query /\ query[q].live /\ cursor[q] \in Flags /\ Agrees(q)
  BY TheQuery DEF Finish
<1>. DEFINE c == [cursor[q] EXCEPT !.active = FALSE]
<1>2. /\ UNCHANGED <<driverVars, connection>> /\ cursor' = [cursor EXCEPT ![q] = c]
      /\ statement' = [statement EXCEPT ![q] = FinishedStatement(q)]
  BY DEF Finish
<1>3. /\ FinishedStatement(q) \in Statements
      /\ FinishedStatement(q).state \in {"null", "ready", "error"}
      /\ FinishedStatement(q).state # "null" => connection = "open"
  BY <1>1, Finishes DEF Agrees
<1>4. c \in Flags /\ ~c.active
  BY <1>1 DEF Flags
<1>. HIDE DEF c
<1>. QED BY <1>1, <1>2, <1>3, <1>4, OneQuery

(* A statement that is executed begins a result, and the flags say so. *)
LEMMA Executes ==
  ASSUME SqliteInv, NEW h \in Handle, NEW q, q = ref[h], Execute(h)
  PROVE  \E s \in Statements, c \in Flags :
           /\ statement' = [statement EXCEPT ![q] = s]
           /\ cursor' = [cursor EXCEPT ![q] = c]
           /\ c.active <=> s.state # "error"
           /\ c.active => c.skipStep = c.hasRow
           /\ \/ s.state = "error"
              \/ s.state = "row" /\ s.row = 1 /\ 1 <= s.rows /\ c.hasRow
              \/ s.state = "done" /\ s.row = 0 /\ s.rows = 0 /\ ~c.hasRow
<1>1. q \in Query /\ cursor[q] \in Flags
  BY TheQuery DEF Execute
<1>. DEFINE b == Bound(FinishedStatement(q), cursor[q].parameter)
<1>2. b \in Statements /\ b.state \in {"ready", "error"}
  <2>1. /\ FinishedStatement(q) \in Statements
        /\ FinishedStatement(q).state \in {"ready", "error"}
    BY <1>1, Finishes DEF Execute
  <2>2. cursor[q].parameter \in Value \cup {Null}
    BY <1>1 DEF Flags
  <2>. QED BY <2>1, <2>2 DEF Bound, Statements
<1>3. PICK s \in Stepped(b, "execute") :
        /\ statement' = [statement EXCEPT ![q] = s]
        /\ cursor' = [cursor EXCEPT ![q].active   = s.state # "error",
                                    ![q].hasRow   = HasRowAfter(s, cursor[q].hasRow),
                                    ![q].skipStep = HasRowAfter(s, cursor[q].hasRow)]
  BY DEF Execute
<1>. HIDE DEF b
<1>4. /\ s \in Statements
      /\ \/ s.state = "error"
         \/ s.state = "row" /\ s.row = 1 /\ 1 <= s.rows
         \/ s.state = "done" /\ s.row = 0 /\ s.rows = 0
  BY <1>2, StepBegins
<1>. DEFINE has == HasRowAfter(s, cursor[q].hasRow)
            c == [cursor[q] EXCEPT !.active = s.state # "error", !.hasRow = has,
                                   !.skipStep = has]
<1>5. /\ has \in BOOLEAN
      /\ s.state = "row" => has
      /\ s.state = "done" => ~has
  BY <1>1, <1>4 DEF HasRowAfter, Flags
<1>6. cursor' = [cursor EXCEPT ![q] = c]
  BY <1>1, <1>3 DEF SqliteInv, SqliteTypes
<1>. HIDE DEF has
<1>7. /\ c \in Flags
      /\ c.active <=> s.state # "error"
      /\ c.hasRow = has /\ c.skipStep = has
  BY <1>1, <1>5 DEF Flags
<1>. HIDE DEF c
<1>. QED BY <1>3, <1>4, <1>5, <1>6, <1>7

(* Execute *)
LEMMA ExecuteKeeps ==
  ASSUME SqliteInv, NEW h \in Handle, Execute(h)
  PROVE  SqliteInv'
<1>. PICK q : q = ref[h]
  OBVIOUS
<1>1. q \in Query /\ query[q].live /\ Agrees(q) /\ UNCHANGED <<driverVars, connection>>
  BY TheQuery DEF Execute
<1>2. statement[q].state # "null"
  BY DEF Execute
<1>3. PICK s \in Statements, c \in Flags :
           /\ statement' = [statement EXCEPT ![q] = s]
           /\ cursor' = [cursor EXCEPT ![q] = c]
           /\ c.active <=> s.state # "error"
           /\ c.active => c.skipStep = c.hasRow
           /\ \/ s.state = "error"
              \/ s.state = "row" /\ s.row = 1 /\ 1 <= s.rows /\ c.hasRow
              \/ s.state = "done" /\ s.row = 0 /\ s.rows = 0 /\ ~c.hasRow
  BY Executes
<1>4. c.active => OnResult(s, c)
  BY <1>3 DEF OnResult, Flags, Statements
<1>. QED BY <1>1, <1>2, <1>3, <1>4, OneQuery DEF Agrees

(* A row is fetched from the statement, or had been by Execute. *)
LEMMA Fetches ==
  ASSUME SqliteInv, NEW h \in Handle, NEW q, q = ref[h], Next(h)
  PROVE  \E s \in Statements, c \in Flags :
           /\ statement' = [statement EXCEPT ![q] = s]
           /\ cursor' = [cursor EXCEPT ![q] = c]
           /\ c.active /\ ~c.skipStep /\ s.state # "null"
           /\ "next" \notin FailAt =>
                /\ OnResult(s, c) /\ s.rows = statement[q].rows
                /\ \/ cursor[q].skipStep /\ s = statement[q] /\ c.hasRow
                   \/ ~cursor[q].skipStep /\ s.row = statement[q].row + 1 /\ c.hasRow
                   \/ /\ ~cursor[q].skipStep /\ ~c.hasRow
                      /\ s.row = s.rows /\ statement[q].row = s.rows
<1>1. /\ q \in Query /\ cursor[q] \in Flags /\ statement[q] \in Statements /\ Agrees(q)
      /\ cursor[q].active
  BY TheQuery DEF Next
<1>2. "next" \notin FailAt => OnResult(statement[q], cursor[q])
  BY <1>1 DEF SqliteInv
<1>3. cursor \in [Query -> Flags] /\ statement \in [Query -> Statements]
  BY DEF SqliteInv, SqliteTypes
<1>4. CASE /\ cursor[q].skipStep
           /\ cursor' = [cursor EXCEPT ![q].skipStep = FALSE]
           /\ UNCHANGED statement
  <2>. DEFINE c == [cursor[q] EXCEPT !.skipStep = FALSE]
              s == statement[q]
  <2>1. /\ cursor' = [cursor EXCEPT ![q] = c]
        /\ statement' = [statement EXCEPT ![q] = s]
    BY <1>1, <1>3, <1>4
  <2>2. /\ c \in Flags /\ c.active = cursor[q].active /\ ~c.skipStep
        /\ c.hasRow = cursor[q].hasRow
    BY <1>1 DEF Flags
  <2>. HIDE DEF c
  <2>3. "next" \notin FailAt => OnResult(s, c) /\ c.hasRow
    BY <1>2, <1>4, <2>2 DEF OnResult
  <2>4. s.state # "null"
    BY <1>1 DEF Agrees
  <2>. QED BY <1>1, <1>4, <2>1, <2>2, <2>3, <2>4
<1>5. CASE /\ ~cursor[q].skipStep /\ cursor[q].hasRow
           /\ \E s \in Stepped(statement[q], "next") :
                /\ statement' = [statement EXCEPT ![q] = s]
                /\ cursor' = [cursor EXCEPT ![q].hasRow = HasRowAfter(s, @)]
  <2>. PICK s \in Stepped(statement[q], "next") :
                /\ statement' = [statement EXCEPT ![q] = s]
                /\ cursor' = [cursor EXCEPT ![q].hasRow = HasRowAfter(s, @)]
    BY <1>5
  <2>. DEFINE has == HasRowAfter(s, cursor[q].hasRow)
              c == [cursor[q] EXCEPT !.hasRow = has]
  <2>1. cursor' = [cursor EXCEPT ![q] = c]
    BY <1>1, <1>3
  <2>2. s \in Statements /\ s.state # "null" /\ s.state # "ready"
    <3>1. CASE statement[q].state = "row"
      BY <1>1, <3>1, StepGoesOn
    <3>2. CASE statement[q].state # "row"
      <4>1. CASE \E n \in 0 .. MaxRows : s = OnRow(statement[q], n, 1)
        <5>. PICK n \in 0 .. MaxRows : s = OnRow(statement[q], n, 1)
          BY <4>1
        <5>1. 1 <= n \/ 1 > n
          BY SqliteAssumption
        <5>. QED BY <1>1, <5>1, RowOf
      <4>2. CASE s = [Reset(statement[q]) EXCEPT !.state = "error"]
        BY <1>1, <4>2, StepFails
      <4>. QED BY <3>2, <4>1, <4>2 DEF Stepped
    <3>. QED BY <3>1, <3>2
  <2>3. /\ has \in BOOLEAN
        /\ s.state = "row" => has
        /\ s.state = "done" => ~has
    BY <1>1, <2>2 DEF HasRowAfter, Flags
  <2>. HIDE DEF has
  <2>4. /\ c \in Flags /\ c.active = cursor[q].active
        /\ c.skipStep = cursor[q].skipStep /\ c.hasRow = has
    BY <1>1, <2>3 DEF Flags
  <2>. HIDE DEF c
  <2>5. ASSUME "next" \notin FailAt
        PROVE  /\ OnResult(s, c) /\ s.rows = statement[q].rows
               /\ \/ s.row = statement[q].row + 1 /\ c.hasRow
                  \/ ~c.hasRow /\ s.row = s.rows /\ statement[q].row = s.rows
    <3>1. /\ statement[q].state = "row"
          /\ 1 <= statement[q].row /\ statement[q].row <= statement[q].rows
      BY <1>2, <1>5, <2>5 DEF OnResult
    <3>2. /\ statement[q].row \in Int /\ statement[q].rows \in Int
          /\ s.row \in Int /\ s.rows \in Int
      BY <1>1, <2>2, SqliteAssumption DEF Statements
    <3>3. \/ /\ s.state = "row" /\ s.row = statement[q].row + 1 /\ s.row <= s.rows
             /\ s.rows = statement[q].rows
          \/ /\ s.state = "done" /\ s.row = s.rows /\ statement[q].row + 1 > statement[q].rows
             /\ s.rows = statement[q].rows
      BY <1>1, <2>5, <3>1, StepGoesOn
    <3>. QED BY <1>5, <2>3, <2>4, <3>1, <3>2, <3>3 DEF OnResult
  <2>. QED BY <1>1, <1>5, <2>1, <2>2, <2>4, <2>5
<1>. QED BY <1>4, <1>5 DEF Next

(* Next *)
LEMMA NextKeeps ==
  ASSUME SqliteInv, NEW h \in Handle, Next(h)
  PROVE  SqliteInv'
<1>. PICK q : q = ref[h]
  OBVIOUS
<1>1. q \in Query /\ query[q].live /\ Agrees(q) /\ UNCHANGED <<driverVars, connection>>
  BY TheQuery DEF Next
<1>2. statement[q].state # "null"
  BY <1>1 DEF Agrees, Next
<1>3. PICK s \in Statements, c \in Flags :
           /\ statement' = [statement EXCEPT ![q] = s]
           /\ cursor' = [cursor EXCEPT ![q] = c]
           /\ c.active /\ s.state # "null"
           /\ "next" \notin FailAt => OnResult(s, c)
  BY Fetches
<1>. QED BY <1>1, <1>2, <1>3, OneQuery DEF Agrees

(* Open *)
LEMMA OpenKeeps == SqliteInv /\ Open => SqliteInv'
<1>. SUFFICES ASSUME SqliteInv, Open PROVE SqliteInv'
  OBVIOUS
<1>1. /\ connection = "none" /\ connection' \in {"open", "failed"}
      /\ UNCHANGED driverVars /\ statement' = statement /\ cursor' = cursor
  BY DEF Open
<1>2. DriverInv' /\ query' = query
  BY <1>1, DriverKept DEF SqliteInv
<1>3. SqliteTypes'
  BY <1>1 DEF SqliteInv, SqliteTypes
<1>4. \A q \in Query : Agrees(q)'
  BY <1>1, <1>2 DEF SqliteInv, Agrees
<1>5. "next" \notin FailAt =>
        \A q \in Query : cursor'[q].active => OnResult(statement'[q], cursor'[q])
  BY <1>1 DEF SqliteInv
<1>. QED BY <1>2, <1>3, <1>4, <1>5 DEF SqliteInv

(* The calls on the shared objects keep their invariant, and one of them   *)
(* deallocates one query at most.                                          *)
LEMMA ObjectsOfDriver ==
  ASSUME DriverInv, Objects
  PROVE  /\ DriverInv'
         /\ \/ \A x \in Query : query[x].live => query'[x].live
            \/ \E q \in Query : \A x \in Query \ {q} : query[x].live => query'[x].live
<1>1. CASE CreateDatabase
  BY <1>1, CreateKeeps DEF CreateDatabase
<1>2. CASE FinalizeDatabase
  BY <1>2, FinalizeDatabaseKeeps DEF FinalizeDatabase
<1>3. CASE \E h \in Handle, q \in Query : NewQuery(h, q)
  BY <1>3, NewQueryKeeps
<1>4. CASE \E h, g \in Handle : CopyQuery(h, g)
  BY <1>4, CopyQueryKeeps
<1>5. CASE \E h \in Handle : FinalizeQuery(h)
  <2>. PICK h \in Handle : FinalizeQuery(h)
    BY <1>5
  <2>. PICK q : q = ref[h]
    OBVIOUS
  <2>1. q \in Query
    BY HandlesOfLive DEF FinalizeQuery
  <2>. QED BY <2>1, FinalizeQueryKeeps
<1>. QED BY <1>1, <1>2, <1>3, <1>4, <1>5 DEF Objects

(* The statements go with their queries, and the connection with the       *)
(* database.                                                               *)
LEMMA ObjectsKeeps == SqliteInv /\ Objects => SqliteInv'
<1>. SUFFICES ASSUME SqliteInv, Objects PROVE SqliteInv'
  OBVIOUS
<1>1. DriverInv'
  BY ObjectsOfDriver DEF SqliteInv
<1>2. /\ statement' = [q \in Query |-> IF query'[q].live THEN statement[q] ELSE NoStatement]
      /\ cursor' = [q \in Query |-> IF query'[q].live THEN cursor[q] ELSE NoCursor]
      /\ connection' = IF db'.live THEN connection ELSE "none"
  BY DEF Objects, Finalized
<1>3. SqliteTypes'
  <2>1. NoStatement \in Statements /\ NoCursor \in Flags
    BY SqliteAssumption DEF NoStatement, Statements, NoCursor, Flags
  <2>. QED BY <1>2, <2>1 DEF SqliteInv, SqliteTypes
<1>4. NoStatement.state = "null" /\ NoCursor.active = FALSE
  BY DEF NoStatement, NoCursor
<1>5. ASSUME NEW q \in Query
      PROVE  Agrees(q)'
  <2>1. CASE query'[q].live
    <3>1. statement'[q] = statement[q] /\ cursor'[q] = cursor[q] /\ Agrees(q)
      BY <1>2, <2>1 DEF SqliteInv
    <3>2. db'.live
      <4>1. q \in Attached'
        BY <1>1, <2>1 DEF DriverInv, OnlyLive, Attached
      <4>2. /\ IsFiniteSet(Attached') /\ (db'.live <=> db'.counter > 0)
            /\ db'.counter = Cardinality(Attached') + (IF owner' THEN 1 ELSE 0)
        BY <1>1 DEF DriverInv, OnlyLive, Counted
      <4>3. Cardinality(Attached') \in Nat /\ Cardinality(Attached') # 0
        BY <4>1, <4>2, FS_CardinalityType, FS_EmptySet
      <4>. QED BY <4>2, <4>3
    <3>. QED BY <1>2, <2>1, <3>1, <3>2 DEF Agrees
  <2>2. CASE ~query'[q].live
    BY <1>2, <1>4, <2>2 DEF Agrees
  <2>. QED BY <2>1, <2>2
<1>6. ASSUME "next" \notin FailAt, NEW q \in Query, cursor'[q].active
      PROVE  OnResult(statement'[q], cursor'[q])
  BY <1>2, <1>4, <1>6 DEF SqliteInv
<1>. QED BY <1>1, <1>3, <1>5, <1>6 DEF SqliteInv

----------------------------------------------------------------------------
(* The theorems. *)

(* Every step keeps the invariant. *)
LEMMA SqliteStep == SqliteInv /\ [NextStep]_vars => SqliteInv'
<1>. SUFFICES ASSUME SqliteInv, [NextStep]_vars PROVE SqliteInv'
  OBVIOUS
<1>1. CASE Objects
  BY <1>1, ObjectsKeeps
<1>2. CASE Open
  BY <1>2, OpenKeeps
<1>3. CASE \E h \in Handle : Prepare(h)
  BY <1>3, PrepareKeeps
<1>4. CASE \E h \in Handle, v \in Value : BindValue(h, v)
  BY <1>4, BindValueKeeps
<1>5. CASE \E h \in Handle : Finish(h)
  BY <1>5, FinishKeeps
<1>6. CASE \E h \in Handle : Execute(h)
  BY <1>6, ExecuteKeeps
<1>7. CASE \E h \in Handle : Next(h)
  BY <1>7, NextKeeps
<1>8. CASE UNCHANGED vars
  <2>1. UNCHANGED driverVars /\ statement' = statement /\ cursor' = cursor
        /\ connection' = connection
    BY <1>8 DEF vars
  <2>2. DriverInv' /\ query' = query
    BY <2>1, DriverKept DEF SqliteInv
  <2>. QED BY <2>1, <2>2 DEF SqliteInv, SqliteTypes, Agrees
<1>. QED BY <1>1, <1>2, <1>3, <1>4, <1>5, <1>6, <1>7, <1>8 DEF NextStep

(* The objects are counted and listed as they should be, and statements    *)
(* agree with the flags of their queries, whatever the calls.              *)
THEOREM SqliteInvariant == Spec => []SqliteInv
BY SqliteStarts, SqliteStep, PTL DEF Spec

(* The types of all variables. *)
THEOREM SqliteTypeCorrect == Spec => []TypeOK
<1>1. SqliteInv => TypeOK
  BY TypeParts DEF SqliteInv, DriverInv
<1>. QED BY <1>1, SqliteInvariant, PTL

(* Databases and queries live exactly as long as they are referred to.     *)
THEOREM Counters == Spec => []CountersAreExact
<1>1. SqliteInv => CountersAreExact
  BY CountersParts DEF SqliteInv, DriverInv
<1>. QED BY <1>1, SqliteInvariant, PTL

(* The doubly linked list of a database's queries is never torn.           *)
THEOREM Links == Spec => []LinksAgree
<1>1. SqliteInv => LinksAgree
  BY QueriesAreLinked DEF SqliteInv, DriverInv
<1>. QED BY <1>1, SqliteInvariant, PTL

(* The loop of Invalidate_Queries, which follows the links from the head,  *)
(* would reach every query of the database, and end.                       *)
THEOREM ReachesAll == Spec => []ListReachesAll
<1>1. SqliteInv => ListReachesAll
  BY ListIsReached DEF SqliteInv
<1>. QED BY <1>1, SqliteInvariant, PTL

(* No connection is closed under a statement of its.                       *)
THEOREM ClosedLast == Spec => []ClosesAfterStatements
BY Connected, SqliteInvariant, PTL

(* When only Execute may fail, a query whose values can be read is on a    *)
(* row.                                                                    *)
THEOREM ValidOnRow ==
  ASSUME "next" \notin FailAt
  PROVE  Spec => []ValidMeansRow
<1>1. SqliteInv => ValidMeansRow
  BY DEF SqliteInv, OnResult, ValidMeansRow, IsReadable
<1>. QED BY <1>1, SqliteInvariant, PTL

(* Stepping a statement leaves its parameter bound. *)
LEMMA StepBound ==
  ASSUME NEW s \in Statements, NEW during, NEW t \in Stepped(s, during)
  PROVE  t.bound = s.bound
<1>1. CASE \E n \in 0 .. MaxRows, row \in Nat : t = OnRow(s, n, row)
  BY <1>1 DEF OnRow, Statements
<1>2. CASE t = [Reset(s) EXCEPT !.state = "error"]
  BY <1>2 DEF Reset, Statements
<1>3. s.rows \in 0 .. MaxRows /\ s.row + 1 \in Nat /\ 1 \in Nat
  BY SqliteAssumption DEF Statements
<1>. QED BY <1>1, <1>2, <1>3 DEF Stepped

(* A statement that Execute runs has the values that were last bound to its *)
(* query, unless the execution before has failed.                           *)
LEMMA BindsBefore ==
  ASSUME SqliteInv, NEW h \in Handle, Execute(h), statement[ref[h]].state # "error"
  PROVE  statement'[ref[h]].bound = cursor[ref[h]].parameter
<1>. PICK q : q = ref[h]
  OBVIOUS
<1>1. q \in Query /\ statement[q] \in Statements /\ cursor[q] \in Flags /\ Agrees(q)
  BY TheQuery DEF Execute
<1>2. FinishedStatement(q) \in Statements /\ FinishedStatement(q).state = "ready"
  <2>1. CASE cursor[q].active
    BY <1>1, <2>1, ResetStatement DEF FinishedStatement
  <2>2. CASE ~cursor[q].active
    BY <1>1, <2>2 DEF FinishedStatement, Agrees, Execute
  <2>. QED BY <2>1, <2>2
<1>. DEFINE b == Bound(FinishedStatement(q), cursor[q].parameter)
<1>3. b \in Statements /\ b.bound = cursor[q].parameter
  <2>1. cursor[q].parameter \in Value \cup {Null}
    BY <1>1 DEF Flags
  <2>. QED BY <1>2, <2>1 DEF Bound, Statements
<1>4. PICK s \in Stepped(b, "execute") : statement' = [statement EXCEPT ![q] = s]
  BY DEF Execute
<1>. HIDE DEF b
<1>5. s.bound = cursor[q].parameter
  BY <1>3, <1>4, StepBound
<1>. QED BY <1>1, <1>4, <1>5 DEF SqliteInv, SqliteTypes

(* An execution runs with the values the program has bound. *)
THEOREM ExecutionBinds == Spec => ExecuteBinds
<1>1. SqliteInv /\ [NextStep]_vars =>
        [\A h \in Handle : Execute(h) /\ statement[ref[h]].state # "error" =>
           statement'[ref[h]].bound = cursor[ref[h]].parameter]_vars
  BY BindsBefore
<1>. QED BY <1>1, SqliteInvariant, PTL DEF Spec, ExecuteBinds

----------------------------------------------------------------------------
(* The refinement of SqlCursor. *)

Results == [q \in Query |-> ResultOf(q)]
NoResult == [open |-> FALSE, on |-> FALSE, row |-> 0, left |-> 0]

Result == [open : BOOLEAN, on : BOOLEAN, row : Int, left : Int]

(* The result that a query with the given statement and flags goes through. *)
Seen(s, c) ==
  IF ~c.active THEN NoResult
  ELSE [open |-> TRUE, on |-> c.hasRow /\ ~c.skipStep,
        row |-> IF c.skipStep THEN 0 ELSE s.row,
        left |-> s.rows - (IF c.skipStep THEN 0 ELSE s.row)]

(* It is all that ResultOf looks at. *)
LEMMA SeenResults ==
  /\ \A q \in Query : Results[q] = Seen(statement[q], cursor[q])
  /\ \A q \in Query : Results'[q] = Seen(statement'[q], cursor'[q])
BY DEF Results, ResultOf, Seen, NoResult, IsReadable

(* A call of the driver moves the result of one query. *)
LEMMA OneMoves ==
  ASSUME SqliteInv, NEW q \in Query, NEW s \in Statements, NEW c \in Flags,
         statement' = [statement EXCEPT ![q] = s],
         cursor' = [cursor EXCEPT ![q] = c]
  PROVE  /\ Results' = [Results EXCEPT ![q] = Seen(s, c)]
         /\ Results'[q] = Seen(s, c)
<1>1. /\ statement'[q] = s /\ cursor'[q] = c
      /\ \A x \in Query \ {q} : statement'[x] = statement[x] /\ cursor'[x] = cursor[x]
  BY DEF SqliteInv, SqliteTypes
<1>2. Results'[q] = Seen(s, c) /\ \A x \in Query \ {q} : Results'[x] = Results[x]
  BY <1>1, SeenResults
<1>3. Results' = [x \in Query |-> Results'[x]] /\ Results = [x \in Query |-> Results[x]]
  BY DEF Results
<1>. HIDE DEF Results
<1>4. \A x \in Query : Results'[x] = [Results EXCEPT ![q] = Seen(s, c)][x]
  BY <1>2, <1>3
<1>. QED BY <1>2, <1>3, <1>4

(* A query that is not active has no result. *)
LEMMA Leaves ==
  ASSUME SqliteInv, NEW q \in Query, NEW s \in Statements, NEW c \in Flags,
         statement' = [statement EXCEPT ![q] = s],
         cursor' = [cursor EXCEPT ![q] = c], ~c.active
  PROVE  Cursors!Leave(q)
<1>1. Seen(s, c) = Cursors!NoResult
  BY DEF Seen, NoResult, Cursors!NoResult
<1>2. Results' = [Results EXCEPT ![q] = Seen(s, c)]
  BY OneMoves
<1>3. Results' = [Results EXCEPT ![q] = Cursors!NoResult]
  BY <1>1, <1>2
<1>. QED BY <1>3 DEF Cursors!Leave, Results

(* Execute begins a result before its first row, unless it fails. *)
LEMMA ExecuteRuns ==
  ASSUME SqliteInv, NEW h \in Handle, NEW q, q = ref[h], Execute(h)
  PROVE  Cursors!Run(q) \/ Cursors!Leave(q)
<1>1. q \in Query
  BY TheQuery DEF Execute
<1>2. PICK s \in Statements, c \in Flags :
           /\ statement' = [statement EXCEPT ![q] = s]
           /\ cursor' = [cursor EXCEPT ![q] = c]
           /\ c.active <=> s.state # "error"
           /\ c.active => c.skipStep = c.hasRow
           /\ \/ s.state = "error"
              \/ s.state = "row" /\ s.row = 1 /\ 1 <= s.rows /\ c.hasRow
              \/ s.state = "done" /\ s.row = 0 /\ s.rows = 0 /\ ~c.hasRow
  BY Executes
<1>3. CASE ~c.active
  BY <1>1, <1>2, <1>3, Leaves
<1>4. CASE c.active
  <2>1. c.hasRow \in BOOLEAN /\ c.skipStep \in BOOLEAN /\ s.rows \in Nat /\ s.row \in Nat
    BY SqliteAssumption DEF Flags, Statements
  <2>2. Seen(s, c) = [open |-> TRUE, on |-> FALSE, row |-> 0, left |-> s.rows]
    <3>1. CASE c.hasRow
      <4>1. c.skipStep /\ (c.hasRow /\ ~c.skipStep) = FALSE
        BY <1>2, <1>4, <2>1, <3>1
      <4>2. s.rows - 0 = s.rows
        BY <2>1
      <4>. QED BY <1>4, <4>1, <4>2 DEF Seen
    <3>2. CASE ~c.hasRow
      <4>1. s.row = 0 /\ s.rows = 0 /\ ~c.skipStep /\ (c.hasRow /\ ~c.skipStep) = FALSE
        BY <1>2, <1>4, <2>1, <3>2
      <4>2. s.rows - 0 = s.rows
        BY <2>1
      <4>. QED BY <1>4, <4>1, <4>2 DEF Seen
    <3>. QED BY <3>1, <3>2
  <2>3. Seen(s, c) \in [open : {TRUE}, on : {FALSE}, row : {0}, left : Nat]
    BY <2>1, <2>2
  <2>4. statement' = [statement EXCEPT ![q] = s] /\ cursor' = [cursor EXCEPT ![q] = c]
    BY <1>2
  <2>5. Results' = [Results EXCEPT ![q] = Seen(s, c)] /\ Results'[q] = Seen(s, c)
    BY <1>1, <2>4, OneMoves
  <2>. QED BY <2>3, <2>5 DEF Cursors!Run, Results
<1>. QED BY <1>3, <1>4

(* How Fetch and Pass change a result. *)
LEMMA ResultMoves ==
  ASSUME NEW r \in Result, NEW next \in Result, next.open = r.open
  PROVE  /\ next.on = TRUE /\ next.row = r.row + 1 /\ next.left = r.left - 1 =>
              next = [r EXCEPT !.on = TRUE, !.row = @ + 1, !.left = @ - 1]
         /\ next.on = FALSE /\ next.row = r.row /\ next.left = r.left =>
              next = [r EXCEPT !.on = FALSE]
BY DEF Result

(* Next moves to the following row, once, or finds that there is none. *)
LEMMA NextFetches ==
  ASSUME SqliteInv, "next" \notin FailAt, NEW h \in Handle, NEW q, q = ref[h], Next(h)
  PROVE  Cursors!Fetch(q) \/ Cursors!Pass(q)
<1>1. /\ q \in Query /\ cursor[q].active /\ OnResult(statement[q], cursor[q])
      /\ cursor[q] \in Flags /\ statement[q] \in Statements
  BY TheQuery DEF Next, SqliteInv
<1>2. PICK s \in Statements, c \in Flags :
           /\ statement' = [statement EXCEPT ![q] = s]
           /\ cursor' = [cursor EXCEPT ![q] = c]
           /\ c.active /\ ~c.skipStep /\ s.state # "null"
           /\ OnResult(s, c) /\ s.rows = statement[q].rows
           /\ \/ cursor[q].skipStep /\ s = statement[q] /\ c.hasRow
              \/ ~cursor[q].skipStep /\ s.row = statement[q].row + 1 /\ c.hasRow
              \/ /\ ~cursor[q].skipStep /\ ~c.hasRow
                 /\ s.row = s.rows /\ statement[q].row = s.rows
  BY Fetches
<1>3. /\ s.rows \in Nat /\ s.row \in Nat /\ statement[q].row \in Nat
      /\ statement[q].rows \in Nat
      /\ c.hasRow \in BOOLEAN /\ cursor[q].hasRow \in BOOLEAN
      /\ cursor[q].skipStep \in BOOLEAN
  BY <1>1, SqliteAssumption DEF Flags, Statements
<1>. DEFINE before == IF cursor[q].skipStep THEN 0 ELSE statement[q].row
            on == cursor[q].hasRow /\ ~cursor[q].skipStep
<1>4. Results[q] = [open |-> TRUE, on |-> on, row |-> before, left |-> s.rows - before]
  BY <1>1, <1>2, SeenResults DEF Seen
<1>5. Seen(s, c) = [open |-> TRUE, on |-> c.hasRow, row |-> s.row, left |-> s.rows - s.row]
  <2>1. c.active /\ ~c.skipStep /\ (c.hasRow /\ ~c.skipStep) = c.hasRow
    BY <1>2, <1>3
  <2>. QED BY <2>1 DEF Seen
<1>6. Results' = [Results EXCEPT ![q] = Seen(s, c)]
  <2>1. statement' = [statement EXCEPT ![q] = s] /\ cursor' = [cursor EXCEPT ![q] = c]
    BY <1>2
  <2>. QED BY <1>1, <2>1, OneMoves
<1>7. Results = [x \in Query |-> Results[x]]
  BY DEF Results
<1>8. before \in Nat /\ on \in BOOLEAN
  BY <1>3
<1>. HIDE DEF before, on, Results
<1>9. /\ Results[q] \in Result /\ Seen(s, c) \in Result
      /\ Results[q].open /\ Seen(s, c).open = Results[q].open
      /\ Results[q].row = before /\ Results[q].left = s.rows - before
      /\ Seen(s, c).on = c.hasRow /\ Seen(s, c).row = s.row
      /\ Seen(s, c).left = s.rows - s.row
  BY <1>3, <1>4, <1>5, <1>8 DEF Result
<1>10. CASE c.hasRow
  <2>1. s.row = before + 1 /\ s.row <= s.rows
    BY <1>1, <1>2, <1>3, <1>10 DEF OnResult, before
  <2>2. Results[q].open /\ Results[q].left > 0
    BY <1>3, <1>8, <1>9, <2>1
  <2>3. Seen(s, c).on = TRUE /\ Seen(s, c).row = Results[q].row + 1
        /\ Seen(s, c).left = Results[q].left - 1
    BY <1>3, <1>8, <1>9, <1>10, <2>1
  <2>4. Seen(s, c) = [Results[q] EXCEPT !.on = TRUE, !.row = @ + 1, !.left = @ - 1]
    BY <1>9, <2>3, ResultMoves
  <2>5. Results' = [Results EXCEPT ![q].on = TRUE, ![q].row = @ + 1, ![q].left = @ - 1]
    BY <1>1, <1>6, <1>7, <2>4
  <2>. QED BY <2>2, <2>5 DEF Cursors!Fetch, Results
<1>11. CASE ~c.hasRow
  <2>1. ~cursor[q].skipStep /\ s.row = s.rows /\ before = s.rows
    BY <1>2, <1>11 DEF before
  <2>2. Results[q].open /\ Results[q].left = 0
    BY <1>3, <1>9, <2>1
  <2>3. Seen(s, c).on = FALSE /\ Seen(s, c).row = Results[q].row
        /\ Seen(s, c).left = Results[q].left
    BY <1>3, <1>9, <1>11, <2>1
  <2>4. Seen(s, c) = [Results[q] EXCEPT !.on = FALSE]
    BY <1>9, <2>3, ResultMoves
  <2>5. Results' = [Results EXCEPT ![q].on = FALSE]
    BY <1>1, <1>6, <1>7, <2>4
  <2>. QED BY <2>2, <2>5 DEF Cursors!Pass, Results
<1>. QED BY <1>10, <1>11

(* A query's result ends with the query, and no other notices. *)
LEMMA ObjectsLeave ==
  ASSUME SqliteInv, Objects
  PROVE  Results' = Results \/ \E q \in Query : Cursors!Leave(q)
<1>1. /\ statement' = [q \in Query |-> IF query'[q].live THEN statement[q] ELSE NoStatement]
      /\ cursor' = [q \in Query |-> IF query'[q].live THEN cursor[q] ELSE NoCursor]
  BY DEF Objects, Finalized
<1>2. ASSUME NEW x \in Query, query[x].live => query'[x].live
      PROVE  Results'[x] = Results[x]
  <2>1. Agrees(x)
    BY DEF SqliteInv
  <2>2. statement'[x] = statement[x] /\ cursor'[x] = cursor[x]
    BY <1>1, <1>2, <2>1 DEF Agrees
  <2>. QED BY <2>2, SeenResults
<1>3. Results' = [x \in Query |-> Results'[x]] /\ Results = [x \in Query |-> Results[x]]
  BY DEF Results
<1>4. CASE \A x \in Query : query[x].live => query'[x].live
  <2>1. \A x \in Query : Results'[x] = Results[x]
    BY <1>2, <1>4
  <2>. HIDE DEF Results
  <2>. QED BY <1>3, <2>1
<1>5. CASE \E q \in Query : \A x \in Query \ {q} : query[x].live => query'[x].live
  <2>. PICK q \in Query : \A x \in Query \ {q} : query[x].live => query'[x].live
    BY <1>5
  <2>1. \A x \in Query \ {q} : Results'[x] = Results[x]
    BY <1>2
  <2>2. CASE query[q].live => query'[q].live
    <3>1. \A x \in Query : Results'[x] = Results[x]
      BY <1>2, <2>1, <2>2
    <3>. HIDE DEF Results
    <3>. QED BY <1>3, <3>1
  <2>3. CASE ~query'[q].live
    <3>1. cursor'[q] = NoCursor
      BY <1>1, <2>3
    <3>2. Results'[q] = Cursors!NoResult
      <4>1. NoCursor.active = FALSE /\ NoResult = Cursors!NoResult
        BY DEF NoCursor, NoResult, Cursors!NoResult
      <4>2. Results'[q] = Seen(statement'[q], NoCursor)
        BY <3>1, SeenResults
      <4>. QED BY <4>1, <4>2 DEF Seen
    <3>3. Results' = [Results EXCEPT ![q] = Cursors!NoResult]
      <4>. HIDE DEF Results
      <4>1. \A x \in Query : Results'[x] = [Results EXCEPT ![q] = Cursors!NoResult][x]
        BY <1>3, <2>1, <3>2
      <4>. QED BY <1>3, <4>1
    <3>4. Cursors!Leave(q)
      BY <3>3 DEF Cursors!Leave, Results
    <3>. QED BY <3>4
  <2>. QED BY <2>2, <2>3
<1>. QED BY <1>4, <1>5, ObjectsOfDriver DEF SqliteInv

(* A value that is bound moves no result. *)
LEMMA BindValueStays ==
  ASSUME SqliteInv, NEW h \in Handle, NEW v \in Value, BindValue(h, v)
  PROVE  Results' = Results
<1>. PICK q : q = ref[h]
  OBVIOUS
<1>1. q \in Query /\ cursor[q] \in Flags
  BY TheQuery DEF BindValue
<1>. DEFINE c == [cursor[q] EXCEPT !.parameter = v]
<1>2. statement' = [statement EXCEPT ![q] = statement[q]] /\ cursor' = [cursor EXCEPT ![q] = c]
  BY <1>1 DEF BindValue, SqliteInv, SqliteTypes
<1>3. /\ c.active = cursor[q].active /\ c.hasRow = cursor[q].hasRow
      /\ c.skipStep = cursor[q].skipStep
      /\ c \in Flags
  BY <1>1 DEF Flags
<1>. HIDE DEF c
<1>4. Seen(statement[q], c) = Results[q]
  BY <1>1, <1>3, SeenResults DEF Seen
<1>5. Results = [x \in Query |-> Results[x]]
  BY DEF Results
<1>6. c \in Flags /\ statement[q] \in Statements
  BY <1>1, <1>3 DEF SqliteInv, SqliteTypes
<1>7. Results' = [Results EXCEPT ![q] = Results[q]]
  <2>1. Results' = [Results EXCEPT ![q] = Seen(statement[q], c)]
    BY <1>1, <1>2, <1>6, OneMoves
  <2>. QED BY <1>4, <2>1
<1>. HIDE DEF Results
<1>. QED BY <1>5, <1>7

(* No step but those of the cursor moves a result. *)
LEMMA CursorStep ==
  ASSUME "next" \notin FailAt
  PROVE  SqliteInv /\ [NextStep]_vars => [Cursors!Next]_Results
<1>. SUFFICES ASSUME SqliteInv, [NextStep]_vars
              PROVE  Results' = Results \/ Cursors!Next
  OBVIOUS
<1>1. CASE Objects
  BY <1>1, ObjectsLeave DEF Cursors!Next
<1>2. CASE Open \/ UNCHANGED vars
  <2>1. statement' = statement /\ cursor' = cursor
    BY <1>2 DEF Open, vars
  <2>. QED BY <2>1 DEF Results, ResultOf, IsReadable
<1>3. CASE \E h \in Handle : Prepare(h)
  <2>. PICK h \in Handle : Prepare(h)
    BY <1>3
  <2>. PICK q : q = ref[h]
    OBVIOUS
  <2>1. q \in Query /\ cursor[q] \in Flags
    BY TheQuery DEF Prepare
  <2>2. PICK s \in Statements : statement' = [statement EXCEPT ![q] = s]
    <3>1. PICK s \in {NoStatement} \cup (IF connection = "open" THEN {Prepared} ELSE {}) :
            statement' = [statement EXCEPT ![q] = s]
      BY DEF Prepare
    <3>2. s \in Statements
      BY SqliteAssumption DEF NoStatement, Prepared, Statements
    <3>. QED BY <3>1, <3>2
  <2>. DEFINE c == [cursor[q] EXCEPT !.active = FALSE, !.parameter = Null]
  <2>3. cursor' = [cursor EXCEPT ![q] = c]
    BY DEF Prepare
  <2>4. c \in Flags /\ ~c.active
    BY <2>1 DEF Flags
  <2>. HIDE DEF c
  <2>. QED BY <2>1, <2>2, <2>3, <2>4, Leaves DEF Cursors!Next
<1>4. CASE \E h \in Handle, v \in Value : BindValue(h, v)
  BY <1>4, BindValueStays
<1>5. CASE \E h \in Handle : Finish(h)
  <2>. PICK h \in Handle : Finish(h)
    BY <1>5
  <2>. PICK q : q = ref[h]
    OBVIOUS
  <2>1. q \in Query /\ cursor[q] \in Flags
    BY TheQuery DEF Finish
  <2>. DEFINE c == [cursor[q] EXCEPT !.active = FALSE]
              s == FinishedStatement(q)
  <2>2. statement' = [statement EXCEPT ![q] = s] /\ cursor' = [cursor EXCEPT ![q] = c]
    BY DEF Finish
  <2>3. c \in Flags /\ ~c.active /\ s \in Statements
    BY <2>1, Finishes DEF Flags
  <2>. HIDE DEF c, s
  <2>. QED BY <2>1, <2>2, <2>3, Leaves DEF Cursors!Next
<1>6. CASE \E h \in Handle : Execute(h)
  <2>. PICK h \in Handle : Execute(h)
    BY <1>6
  <2>. PICK q : q = ref[h]
    OBVIOUS
  <2>1. q \in Query
    BY TheQuery DEF Execute
  <2>. QED BY <2>1, ExecuteRuns DEF Cursors!Next
<1>7. CASE \E h \in Handle : Next(h)
  <2>. PICK h \in Handle : Next(h)
    BY <1>7
  <2>. PICK q : q = ref[h]
    OBVIOUS
  <2>1. q \in Query
    BY TheQuery DEF Next
  <2>. QED BY <2>1, NextFetches DEF Cursors!Next
<1>. QED BY <1>1, <1>2, <1>3, <1>4, <1>5, <1>6, <1>7 DEF NextStep

(* When only Execute may fail, the driver's flags and its skipped first    *)
(* step implement a cursor that shows each row of a result once, in order. *)
THEOREM CursorIsImplemented ==
  ASSUME "next" \notin FailAt
  PROVE  Spec => ImplementsCursor
<1>1. Init => Cursors!Init
  BY DEF Init, Cursors!Init, Cursors!NoResult, ResultOf, NoCursor
<1>2. SqliteInv /\ [NextStep]_vars => [Cursors!Next]_[q \in Query |-> ResultOf(q)]
  BY CursorStep DEF Results
<1>. QED BY <1>1, <1>2, SqliteInvariant, PTL DEF Spec, ImplementsCursor, Cursors!Spec
=============================================================================
