----------------------------- MODULE DomBuilder -----------------------------
(***************************************************************************)
(* DOM_Builder: the handler of a SAX reader that makes a document of what  *)
(* is read.  The reader may be fed in pieces, and the program may change   *)
(* the tree, or give the builder another document, in between; it may also *)
(* give up and read something else with the same builder.                  *)
(***************************************************************************)
EXTENDS DomTree

CONSTANTS
  MaxDepth, MaxAttributes,   \* bounds: elements on the stack, attributes of one
  Tolerant                   \* see DomForest: the code appends what it is given

ASSUME BoundAssumption ==
  MaxDepth \in Nat /\ MaxAttributes \in Nat /\ Tolerant \in BOOLEAN

VARIABLE
  builder   \* the components of DOM_Builder, and the attributes to be processed

vars == <<node, builder>>

\* Start_Element has returned.
Ready == builder.attributes = <<>>

\* In the middle of a reading the open elements stay those of the document
\* that was read into.
SetDocument(d) ==
  /\ Ready
  /\ Is(d, "document") /\ d # builder.document
  /\ builder' = [builder EXCEPT !.document = d]
  /\ UNCHANGED node

\* The document of an earlier reading is kept.
StartDocument ==
  /\ Ready
  /\ \/ /\ builder.document = Null
        /\ \E d \in Document :
             /\ CreateDocument(d)
             /\ builder' = [builder EXCEPT !.document = d, !.current = d]
     \/ /\ builder.document # Null
        /\ builder' = [builder EXCEPT !.current = builder.document]
        /\ UNCHANGED node

Pushed(b) == [b EXCEPT !.stack = Append(b.stack, b.parent), !.parent = b.current,
                       !.current = Null]

\* Mutation of Popped: the parent is not restored.
PoppedHalf(b) == [b EXCEPT !.current = b.parent]

Popped(b) ==
  IF b.stack = <<>> THEN [b EXCEPT !.current = b.parent, !.parent = Null]
  ELSE [b EXCEPT !.current = b.parent, !.parent = Last(b.stack), !.stack = Front(b.stack)]

StartElement(n, names) ==
  /\ Ready /\ builder.current # Null
  /\ Is(n, "absent")
  /\ Len(builder.stack) < MaxDepth
  /\ Cardinality(Node \ Existing) > 2 * Len(names)
  /\ LET b == [Pushed(builder) EXCEPT !.current = n, !.attributes = names]
     IN  /\ builder' = b
         /\ node' = Appended(Created(node, n, "element", Null, b.document), b.parent, n)

\* The loop over the attributes, which reports each with the value t.
ProcessAttribute(a, t) ==
  /\ ~Ready
  /\ Is(a, "absent") /\ Is(t, "absent") /\ a # t
  /\ LET new == Created(node, a, "attribute", Head(builder.attributes), builder.document)
     IN  node' = Valued(Attributed(new, builder.current, a), a, t)
  /\ builder' = [builder EXCEPT !.attributes = Tail(@)]

Characters(n) ==
  /\ Ready /\ builder.current \in Node
  /\ Is(n, "absent")
  /\ node' = Appended(Created(node, n, "text", Null, builder.document), builder.current, n)
  /\ UNCHANGED builder

EndElement ==
  /\ Ready /\ builder.current \in Node
  /\ builder' = Popped(builder)
  /\ UNCHANGED node

BuilderInit ==
  /\ Init
  /\ builder = [document |-> Null, current |-> Null, parent |-> Null, stack |-> <<>>,
                attributes |-> <<>>]

Reading ==
  \/ StartDocument \/ EndElement
  \/ \E d \in Document : SetDocument(d)
  \/ \E n \in Node : Characters(n)
  \/ \E n \in Node, names \in BoundedSeq(Name, MaxAttributes) : StartElement(n, names)
  \/ \E a, t \in Node : ProcessAttribute(a, t)

Editing == Ready /\ Next /\ UNCHANGED builder

BuilderSpec == BuilderInit /\ [][Reading \/ Editing]_vars

-----------------------------------------------------------------------------
(***************************************************************************)
(* The mapping under which this implements DomForest.                      *)
(***************************************************************************)

\* The document that is read into and the open elements in it.  What is below
\* it on the stack is left from a reading that was given up.
Open ==
  LET path == builder.stack \o <<builder.parent, builder.current>>
      from == SelectLastInSeq(path, LAMBDA x : x \in Document)
  IN  IF builder.current = Null THEN <<>> ELSE SubSeq(path, from, Len(path))

Forest == INSTANCE DomForest WITH
  lists <- [l \in Lists |-> Members(node, l[1], l[2])],
  owner <- [n \in Node |-> node[n].document],
  name  <- [n \in Node |-> node[n].name],
  open  <- Open,
  maker <- builder.document

\* The links make up the lists that the DOM promises, and each node that is
\* read gets its place in them, whatever the program does to the tree.
ImplementsForest == Forest!Spec
=============================================================================
