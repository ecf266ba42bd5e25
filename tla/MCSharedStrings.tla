-------------------------- MODULE MCSharedStrings --------------------------
(***************************************************************************)
(* SharedStrings for TLC: the model values of tasks, objects and cells are *)
(* interchangeable.                                                        *)
(***************************************************************************)
EXTENDS StringsRefinement, SharedStringsInvariant, TLC

Symmetry == Permutations(Task) \cup Permutations(Var)
              \cup Permutations(Object) \cup Permutations(Char)
=============================================================================
