--------------------------- MODULE MCStringVectors ---------------------------
(***************************************************************************)
(* StringVectors for TLC: tasks, vectors, cells and strings are            *)
(* interchangeable.                                                        *)
(***************************************************************************)
EXTENDS VectorsRefinement, TLC

Symmetry == Permutations(Task) \cup Permutations(Vector)
              \cup Permutations(Cell) \cup Permutations(String)
=============================================================================
