----------------------------- MODULE DomForest -----------------------------
(***************************************************************************)
(* What the DOM promises: ordered lists of nodes, between which each call  *)
(* moves the nodes it is about, and no others.  The builder promises a     *)
(* tree in which each node is the last child of the element that is open   *)
(* when the node is read.                                                  *)
(*                                                                         *)
(* The documentation promises more: Append_Child refuses a node of another *)
(* document and a second Element of a Document.  With Tolerant the forest  *)
(* grows with those as well.                                               *)
(***************************************************************************)
EXTENDS Naturals, SequencesExt

CONSTANTS
  Node, Document, Name, Null,
  Tolerant   \* does Append_Child accept what it is documented to refuse?

VARIABLES
  lists,   \* the nodes on each list, in order
  owner,   \* the document that each node belongs to
  name,    \* the name of each attribute
  open,    \* the document that is read into, then the open elements in it
  maker    \* the document that makes the nodes that are read

forestVars == <<lists, owner, name, open, maker>>

Lists == (Document \X {"children", "detached"}) \cup (Node \X {"children", "attributes"})
Fresh(n) == owner[n] = Null
EndsWith(s, n) == s # <<>> /\ Last(s) = n

\* Node n is now the last one on the list to, and on no other.
Moved(ls, n, to) ==
  [l \in Lists |-> LET rest == RemoveFirst(ls[l], n)
                   IN  IF l = to THEN Append(rest, n) ELSE rest]

Home(n) == <<owner[n], "detached">>

\* Those nodes of s that are in T are detached, one after the other.
AllHome(ls, s, T) ==
  LET all[k \in 0 .. Len(s)] ==
        IF k = 0 THEN ls
        ELSE IF s[k] \in T THEN Moved(all[k - 1], s[k], Home(s[k])) ELSE all[k - 1]
  IN  all[Len(s)]

Born(n, d, x) ==
  /\ Fresh(n) /\ owner'[n] = d
  /\ owner' = [owner EXCEPT ![n] = d]
  /\ name'  = [name EXCEPT ![n] = x]

Create(n, d, x) ==
  /\ Born(n, d, x)
  /\ lists' = Moved(lists, n, <<d, "detached">>)
  /\ UNCHANGED <<open, maker>>

Move(n, to) ==
  /\ ~Fresh(n)
  /\ EndsWith(lists'[to], n)
  /\ lists' = Moved(lists, n, to)

\* May the node n of the document d be a child of p?  The children of a
\* document are elements here.
Fits(p, n, d) ==
  /\ d = IF p \in Document THEN p ELSE owner[p]
  /\ p \in Document => Range(lists[<<p, "children">>]) \subseteq {n}

AppendChild(p, n) ==
  /\ Tolerant \/ Fits(p, n, owner[n])
  /\ Move(n, <<p, "children">>)

\* An attribute takes the place of those with its name, which are detached.
Attributed(ls, e, a, x) ==
  LET to   == <<e, "attributes">>
      same == {n \in Node \ {a} : name[n] = x}
  IN  Moved(AllHome(ls, ls[to], same), a, to)

SetAttribute(e, a) ==
  /\ ~Fresh(a) /\ owner[a] = owner[e]
  /\ EndsWith(lists'[<<e, "attributes">>], a)
  /\ a \in Range(lists[Home(a)])
  /\ lists' = Attributed(lists, e, a, name[a])

\* A text becomes the only child of an attribute.
Valued(ls, a, t) ==
  LET to == <<a, "children">>
  IN  Moved(AllHome(ls, ls[to], Node), t, to)

SetValue(a, t) ==
  /\ ~Fresh(a)
  /\ Born(t, owner[a], Null)
  /\ lists' = Valued(lists, a, t)
  /\ UNCHANGED <<open, maker>>

-----------------------------------------------------------------------------
Give(d) ==
  /\ maker' = d
  /\ UNCHANGED <<lists, owner, name, open>>

\* The document that was given is read into, or a new one when none was.
Read(d) ==
  /\ maker \in {d, Null}
  /\ maker' = d /\ open' = <<d>>
  /\ UNCHANGED <<lists, owner, name>>

\* A new node n becomes the last child of the innermost open element.
Grow(n) ==
  /\ Born(n, maker, Null)
  /\ Tolerant \/ Fits(Last(open), n, maker)
  /\ lists' = Moved(lists, n, <<Last(open), "children">>)
  /\ UNCHANGED maker

Enter(e) == Grow(e) /\ open' = Append(open, e)

\* The element just entered has an attribute x with the value t.
Annotate(a, x, t) ==
  /\ Fresh(a) /\ Fresh(t) /\ a # t /\ owner'[a] = maker
  /\ owner' = [owner EXCEPT ![a] = maker, ![t] = maker]
  /\ name'  = [name EXCEPT ![a] = x, ![t] = Null]
  /\ lists' = Valued(Attributed(lists, Last(open), a, x), a, t)
  /\ UNCHANGED <<open, maker>>

Write(t) == Grow(t) /\ UNCHANGED open

Leave ==
  /\ Len(open) > 1
  /\ open' = Front(open)
  /\ UNCHANGED <<lists, owner, name, maker>>

Init ==
  /\ lists = [l \in Lists |-> <<>>]
  /\ owner = [n \in Node |-> Null]
  /\ name  = [n \in Node |-> Null]
  /\ open  = <<>>
  /\ maker = Null

Next ==
  \/ /\ UNCHANGED <<owner, name, open, maker>>
     /\ \E n \in Node :
          \/ Move(n, Home(n))
          \/ \E p \in Node \cup Document : AppendChild(p, n)
          \/ \E e \in Node : SetAttribute(e, n)
  \/ \E n \in Node :
       \/ \E d \in Document, x \in Name \cup {Null} : Create(n, d, x)
       \/ \E a \in Node : SetValue(a, n)
  \/ \E d \in Document : Give(d) \/ Read(d)
  \/ /\ open # <<>>
     /\ \/ Leave
        \/ \E n \in Node : Enter(n) \/ Write(n)
        \/ \E a, t \in Node, x \in Name : Annotate(a, x, t)

Spec == Init /\ [][Next]_forestVars
=============================================================================
