------------------------------ MODULE DomTree ------------------------------
(***************************************************************************)
(* DOM nodes and the three kinds of intrusive lists they are on: the       *)
(* children of a node, the attributes of an element and the detached       *)
(* nodes of a document.                                                    *)
(*                                                                         *)
(* Every operation of the DOM moves a node from one list to the end of     *)
(* another.  A node has one pair of links for all three kinds, and only    *)
(* the operation knows which kind of list the node is on.                  *)
(***************************************************************************)
EXTENDS Naturals, SequencesExt

CONSTANTS
  Node,              \* the nodes other than documents
  Document,          \* the document nodes
  Name,              \* expanded names of attributes
  Null,              \* the null access value
  RemovesAttributes  \* may a program Remove_Child an attribute?

ASSUME DomAssumption ==
  /\ IsFiniteSet(Node)
  /\ Node \cap Document = {}
  /\ Null \notin Node \cup Document \cup Name
  /\ RemovesAttributes \in BOOLEAN

VARIABLE
  node   \* the components of every node, by the names of the source

Nodes  == Node \cup Document
List   == {"children", "attributes", "detached"}
Lists  == (Document \X {"children", "detached"}) \cup (Node \X {"children", "attributes"})
Absent == [kind |-> "absent", name |-> Null, document |-> Null, parent |-> Null,
           first |-> [l \in List |-> Null], last |-> [l \in List |-> Null],
           previous |-> Null, next |-> Null]

-----------------------------------------------------------------------------
(***************************************************************************)
(* Matreshka.DOM_Lists, on the nodes h.  first["children"] stands for      *)
(* First, first["attributes"] for First_Attribute, first["detached"] for   *)
(* First_Detached, and last likewise.                                      *)
(***************************************************************************)

\* Node n at the end of list l of o.
Insert(h, o, l, n) ==
  LET tail == h[o].last[l]
  IN  IF h[o].first[l] = Null
      THEN [h EXCEPT ![n].previous = Null, ![n].next = Null,
                     ![o].first[l] = n,    ![o].last[l] = n]
      ELSE [h EXCEPT ![n].previous = tail, ![n].next = Null,
                     ![tail].next = n,     ![o].last[l] = n]

\* Mutation of Unlink: the last node of the list stays.
UnlinkKeepsLast(h, o, l, n) ==
  [x \in DOMAIN h |->
     [h[x] EXCEPT !.first[l] = IF x = o /\ @ = n THEN h[n].next ELSE @,
                  !.next     = IF x = h[n].previous THEN h[n].next ELSE @,
                  !.previous = IF x = h[n].next THEN h[n].previous ELSE @]]

\* Node n out of list l of o; its own links stay.
Unlink(h, o, l, n) ==
  [x \in DOMAIN h |->
     [h[x] EXCEPT !.first[l] = IF x = o /\ @ = n THEN h[n].next ELSE @,
                  !.last[l]  = IF x = o /\ @ = n THEN h[n].previous ELSE @,
                  !.next     = IF x = h[n].previous THEN h[n].next ELSE @,
                  !.previous = IF x = h[n].next THEN h[n].previous ELSE @]]

Alone(h, n) == [h EXCEPT ![n].parent = Null, ![n].previous = Null, ![n].next = Null]

InsertIntoChildren(h, p, n)   == Insert([h EXCEPT ![n].parent = p], p, "children", n)
InsertIntoAttributes(h, e, n) == Insert([h EXCEPT ![n].parent = e], e, "attributes", n)
InsertIntoDetached(h, n)      == Insert(h, h[n].document, "detached", n)

RemoveFromChildren(h, n)   == Alone(Unlink(h, h[n].parent, "children", n), n)
RemoveFromAttributes(h, n) == Alone(Unlink(h, h[n].parent, "attributes", n), n)
RemoveFromDetached(h, n)   == Unlink(h, h[n].document, "detached", n)

\* The nodes that a loop over Next meets on list l of o; it is cut where it
\* must have met a node twice.
Members(h, o, l) ==
  LET walk[s \in Seq(Node) \ {<<>>}] ==
        LET n == h[Last(s)].next
        IN  IF n = Null \/ Len(s) > Cardinality(Node) THEN s ELSE walk[Append(s, n)]
  IN  IF h[o].first[l] = Null THEN <<>> ELSE walk[<<h[o].first[l]>>]

-----------------------------------------------------------------------------
(***************************************************************************)
(* The operations of the DOM, on the nodes h.                              *)
(***************************************************************************)

\* A new node is detached.
Created(h, n, kind, name, d) ==
  InsertIntoDetached([h EXCEPT ![n].kind = kind, ![n].name = name, ![n].document = d], n)

\* Mutation of Appended: the node is taken to be detached.
AppendedTwice(h, p, n) == InsertIntoChildren(RemoveFromDetached(h, n), p, n)

Appended(h, p, n) ==
  InsertIntoChildren(IF h[n].parent # Null THEN RemoveFromChildren(h, n)
                                           ELSE RemoveFromDetached(h, n), p, n)

Detached(h, n) == InsertIntoDetached(RemoveFromChildren(h, n), n)

\* Mutation of Attributed: an attribute of the same name stays.
AttributedAgain(h, e, a) == InsertIntoAttributes(RemoveFromDetached(h, a), e, a)

\* An attribute of the same name is detached first.
Attributed(h, e, a) ==
  LET all  == Members(h, e, "attributes")
      same == {k \in DOMAIN all : h[all[k]].name = h[a].name}
      old  == all[Min(same)]
      rest == IF same = {} THEN h ELSE InsertIntoDetached(RemoveFromAttributes(h, old), old)
  IN  InsertIntoAttributes(RemoveFromDetached(rest, a), e, a)

\* Node a once the loop that detaches its first child has run k times.
Bared(h, a, k) ==
  LET bare[i \in 0 .. k] ==
        IF i = 0 THEN h
        ELSE LET g == bare[i - 1]
             IN  IF g[a].first["children"] = Null THEN g
                 ELSE Detached(g, g[a].first["children"])
  IN  bare[k]

\* A value, the text t, for the attribute a.
Valued(h, a, t) ==
  Appended(Created(Bared(h, a, Cardinality(Node)), t, "text", Null, h[a].document), a, t)

Is(x, kind)  == node[x].kind = kind
MayCreate(d) == Is(d, "document")
Existing     == {n \in Node : ~Is(n, "absent")}

\* Mutation of CreateDocument: the document is not its own one.
CreateDocumentBare(d) ==
  /\ Is(d, "absent")
  /\ node' = [node EXCEPT ![d].kind = "document"]

CreateDocument(d) ==
  /\ Is(d, "absent")
  /\ node' = [node EXCEPT ![d].kind = "document", ![d].document = d]

CreateElement(n, d) ==
  /\ Is(n, "absent") /\ MayCreate(d)
  /\ node' = Created(node, n, "element", Null, d)

CreateAttribute(n, d, name) ==
  /\ Is(n, "absent") /\ MayCreate(d)
  /\ node' = Created(node, n, "attribute", name, d)

CreateTextNode(n, d) ==
  /\ Is(n, "absent") /\ MayCreate(d)
  /\ node' = Created(node, n, "text", Null, d)

Ancestors(n) ==
  LET up[k \in 0 .. Cardinality(Node)] ==
        LET below == up[k - 1]
        IN  IF k = 0 THEN {n} ELSE below \cup {node[x].parent : x \in below \ {Null}}
  IN  up[Cardinality(Node)]

\* The code leaves it to the program that the kinds of nodes fit, and that a
\* node is not appended to one of its descendants.  Nodes of other documents
\* and a second element of a document are not refused either.
AppendChild(p, n) ==
  /\ \/ Is(p, "document")  /\ Is(n, "element")
     \/ Is(p, "element")   /\ (Is(n, "element") \/ Is(n, "text"))
     \/ Is(p, "attribute") /\ Is(n, "text")
  /\ n \notin Ancestors(p)
  /\ node' = Appended(node, p, n)

\* With a node that is not a child of p the call raises an exception.
RemoveChild(p, n) ==
  /\ node[n].parent = p
  /\ Is(n, "attribute") => RemovesAttributes
  /\ node' = Detached(node, n)

\* With an attribute of another document, or one in use, the call raises an
\* exception.
SetAttributeNodeNS(e, a) ==
  /\ Is(e, "element") /\ Is(a, "attribute")
  /\ node[a].document = node[e].document
  /\ node[a].parent = Null
  /\ node' = Attributed(node, e, a)

SetValue(a, t) ==
  /\ Is(a, "attribute") /\ Is(t, "absent")
  /\ node' = Valued(node, a, t)

Init == node = [x \in Nodes |-> Absent]

Next ==
  \/ \E d \in Document :
       \/ CreateDocument(d)
       \/ \E n \in Node : CreateElement(n, d) \/ CreateTextNode(n, d)
       \/ \E n \in Node, name \in Name : CreateAttribute(n, d, name)
  \/ \E p \in Nodes, n \in Node : AppendChild(p, n) \/ RemoveChild(p, n)
  \/ \E e, a \in Node : SetAttributeNodeNS(e, a) \/ SetValue(e, a)

-----------------------------------------------------------------------------
(***************************************************************************)
(* Properties.                                                             *)
(***************************************************************************)
\* Every component has the type its declaration gives it; the two further
\* pairs of list ends are components of elements and of documents only.
TypeOK ==
  LET Ref == Nodes \cup {Null}
  IN  /\ node \in
           [Nodes -> [kind: {"absent", "document", "element", "attribute", "text"},
                      name: Name \cup {Null}, document: Document \cup {Null},
                      parent: Ref, first: [List -> Ref], last: [List -> Ref],
                      previous: Ref, next: Ref]]
      /\ \A x \in Nodes :
           /\ ~Is(x, "absent")    <=> node[x].document # Null
           /\ ~Is(x, "element")   => node[x].first["attributes"] = Null
           /\ ~Is(x, "document")  => node[x].first["detached"] = Null

\* "Each node, except document node, is member of one of three lists": a walk
\* over a list meets, once each, the nodes that by their Parent and kind are
\* on it.
OnOneList ==
  LET home(n) == IF node[n].parent = Null THEN <<node[n].document, "detached">>
                 ELSE IF Is(n, "attribute") THEN <<node[n].parent, "attributes">>
                                            ELSE <<node[n].parent, "children">>
  IN  \A l \in Lists :
        LET s == Members(node, l[1], l[2])
        IN  /\ Range(s) = {n \in Existing : home(n) = l}
            /\ Len(s) = Cardinality(Range(s))

\* A list is the same one from its last node over Previous.
ListsReadBackwards ==
  \A l \in Lists :
    LET s == Members(node, l[1], l[2])
    IN  /\ node[l[1]].last[l[2]] = IF s = <<>> THEN Null ELSE Last(s)
        /\ \A k \in DOMAIN s : node[s[k]].previous = IF k = 1 THEN Null ELSE s[k - 1]

\* An element has one attribute of a name, whichever order attributes are
\* made, set, replaced and set again in.
AttributesAreUnique ==
  \A a, b \in Existing :
    /\ Is(a, "attribute") /\ Is(b, "attribute") /\ a # b
    /\ node[a].parent = node[b].parent /\ node[a].parent # Null
    => node[a].name # node[b].name
=============================================================================
