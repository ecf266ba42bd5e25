------------------------------ MODULE SqlDrivers ------------------------------
(***************************************************************************)
(* The objects of the SQL library that every driver shares: a SQL_Database *)
(* owns a reference counted driver database; SQL_Query objects share a     *)
(* reference counted driver query; each driver query counts as a user of   *)
(* its database and is a node of the doubly linked list the database keeps *)
(* to invalidate its queries.                                              *)
(*                                                                         *)
(* The library is not meant for concurrent use of one connection: a step   *)
(* is one call of the program with all the calls that it makes.            *)
(***************************************************************************)
EXTENDS Integers, FiniteSets

CONSTANTS
  Handle,   \* SQL_Query objects of the program
  Query,    \* heap cells that can hold a driver's Abstract_Query
  Null      \* the null access value

ASSUME NullAssumption == Null \notin Query

VARIABLES
  owner,    \* is the program's SQL_Database in scope?
  db,       \* the Abstract_Database
  ref,      \* SQL_Query.Data; Null for the SQL_Query objects out of scope
  query     \* the Abstract_Query cells

driverVars == <<owner, db, ref, query>>

NoDatabase == [live |-> FALSE, counter |-> 0, head |-> Null, tail |-> Null]
NoQuery    == [live |-> FALSE, counter |-> 0, attached |-> FALSE,
               previous |-> Null, next |-> Null]

\* The driver queries that have a database.
Attached == {q \in Query : query[q].attached}

-----------------------------------------------------------------------------
\* Mutation of Released: the last reference leaves the database allocated.
ReleasedLate(d) ==
  IF d.counter = 0 THEN NoDatabase ELSE [d EXCEPT !.counter = @ - 1]

\* The database after Dereference.  With its last reference it is finalized,
\* which invalidates the queries it has, and deallocated.
Released(d) ==
  IF d.counter = 1 THEN NoDatabase ELSE [d EXCEPT !.counter = @ - 1]

\* Create, and the SQL_Database that owns the one reference.
CreateDatabase ==
  /\ ~owner /\ ~db.live
  /\ owner' = TRUE
  /\ db'    = [NoDatabase EXCEPT !.live = TRUE, !.counter = 1]
  /\ UNCHANGED <<ref, query>>

\* The SQL_Database goes out of scope: Finalize.
FinalizeDatabase ==
  /\ owner
  /\ owner' = FALSE
  /\ db'    = Released(db)
  /\ UNCHANGED <<ref, query>>

\* Mutation of Initialize: the new query counts as no user of the database.
InitializeUncounted(q) ==
  LET tail == db.tail
  IN  /\ db' = [db EXCEPT !.head = IF @ = Null THEN q ELSE @, !.tail = q]
      /\ query' = [x \in Query |->
           CASE x = q    -> [NoQuery EXCEPT !.live = TRUE, !.counter = 1,
                                            !.attached = TRUE, !.previous = tail]
             [] x = tail -> [query[x] EXCEPT !.next = q]
             [] OTHER    -> query[x]]

\* A new driver query references its database and joins the list at the tail.
Initialize(q) ==
  LET tail == db.tail
  IN  /\ db' = [db EXCEPT !.counter = @ + 1,
                          !.head = IF @ = Null THEN q ELSE @, !.tail = q]
      /\ query' = [x \in Query |->
           CASE x = q    -> [NoQuery EXCEPT !.live = TRUE, !.counter = 1,
                                            !.attached = TRUE, !.previous = tail]
             [] x = tail -> [query[x] EXCEPT !.next = q]
             [] OTHER    -> query[x]]

\* SQL_Database.Query: the driver query q is the data of a new SQL_Query.
NewQuery(h, q) ==
  /\ owner /\ ref[h] = Null /\ ~query[q].live
  /\ Initialize(q)
  /\ ref' = [ref EXCEPT ![h] = q]
  /\ UNCHANGED owner

\* A SQL_Query is declared as a copy of another one: Adjust.
CopyQuery(h, g) ==
  /\ ref[h] = Null /\ ref[g] # Null
  /\ ref'   = [ref EXCEPT ![h] = ref[g]]
  /\ query' = [query EXCEPT ![ref[g]].counter = @ + 1]
  /\ UNCHANGED <<owner, db>>

\* Mutation of Invalidate: the tail of the list stays.
InvalidateKeepsTail(q) ==
  LET p == query[q].previous
      n == query[q].next
  IN  /\ db' = Released([db EXCEPT !.head = IF @ = q THEN n ELSE @])
      /\ query' = [x \in Query |->
           CASE x = q -> NoQuery
             [] x = p -> [query[x] EXCEPT !.next = n]
             [] x = n -> [query[x] EXCEPT !.previous = p]
             [] OTHER -> query[x]]

\* The query leaves the list, dereferences its database and is deallocated.
Invalidate(q) ==
  LET p == query[q].previous
      n == query[q].next
  IN  /\ db' = Released([db EXCEPT !.head = IF @ = q THEN n ELSE @,
                                   !.tail = IF @ = q THEN p ELSE @])
      /\ query' = [x \in Query |->
           CASE x = q -> NoQuery
             [] x = p -> [query[x] EXCEPT !.next = n]
             [] x = n -> [query[x] EXCEPT !.previous = p]
             [] OTHER -> query[x]]

\* A SQL_Query goes out of scope, the last one of its driver query or not.
FinalizeQuery(h) ==
  LET q == ref[h]
  IN  /\ q # Null
      /\ ref' = [ref EXCEPT ![h] = Null]
      /\ \/ /\ query[q].counter = 1
            /\ Invalidate(q)
         \/ /\ query[q].counter # 1
            /\ query' = [query EXCEPT ![q].counter = @ - 1]
            /\ UNCHANGED db
      /\ UNCHANGED owner

-----------------------------------------------------------------------------
DriverInit ==
  /\ owner = FALSE
  /\ db    = NoDatabase
  /\ ref   = [h \in Handle |-> Null]
  /\ query = [q \in Query |-> NoQuery]

-----------------------------------------------------------------------------
(***************************************************************************)
(* Properties.                                                             *)
(***************************************************************************)

\* Every variable has the type its declaration in the source gives it.
DriverTypeOK ==
  LET Link == Query \cup {Null}
  IN  /\ owner \in BOOLEAN
      /\ db \in [live : BOOLEAN, counter : Nat, head : Link, tail : Link]
      /\ ref \in [Handle -> Link]
      /\ query \in [Query -> [live : BOOLEAN, counter : Nat, attached : BOOLEAN,
                              previous : Link, next : Link]]

\* Counters are exact: the database is there as long as the SQL_Database or a
\* query needs it, a driver query as long as a SQL_Query refers to it, and
\* neither any longer.
CountersAreExact ==
  /\ db.counter = Cardinality(Attached) + (IF owner THEN 1 ELSE 0)
  /\ db.live = (db.counter > 0)
  /\ \A q \in Query :
       /\ query[q].counter = Cardinality({h \in Handle : ref[h] = q})
       /\ query[q].live = (query[q].counter > 0)

\* The links of the list agree with each other and with its ends, and the list
\* has no node but the attached queries.
LinksAgree ==
  /\ (db.head = Null) <=> (Attached = {})
  /\ (db.tail = Null) <=> (Attached = {})
  /\ {db.head, db.tail} \subseteq Attached \cup {Null}
  /\ \A q \in Attached :
       /\ {query[q].previous, query[q].next} \subseteq Attached \cup {Null}
       /\ query[q].previous = Null <=> db.head = q
       /\ query[q].next = Null <=> db.tail = q
       /\ \A p \in Attached : query[p].next = q <=> query[q].previous = p

\* The loop that invalidates a database's queries, which follows the links from
\* the head, would reach every one of them.
ListReachesAll ==
  LET n == Cardinality(Attached)
      walk[i \in 0 .. n] ==
        IF i = 0 THEN db.head
        ELSE IF walk[i - 1] = Null THEN Null ELSE query[walk[i - 1]].next
  IN  {walk[i] : i \in 0 .. n} = Attached \cup {Null}
=============================================================================
