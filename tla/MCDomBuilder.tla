---------------------------- MODULE MCDomBuilder ----------------------------
(***************************************************************************)
(* DomBuilder for TLC: nodes, documents and names are interchangeable.     *)
(***************************************************************************)
EXTENDS DomBuilder

\* Bound: nodes and open elements together, so that either the tree is as
\* large as Node allows or the stack as deep as MaxDepth.
Bounded == Cardinality(Existing) + Len(builder.stack) <= 5

Symmetry == Permutations(Node) \cup Permutations(Document) \cup Permutations(Name)
=============================================================================
