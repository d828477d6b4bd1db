--------------------------- MODULE MCRedBlackTree ---------------------------
(* RedBlackTree on enough tasks to reach every rotation and recolouring of  *)
(* insertion and erasure; tasks are interchangeable.                        *)
EXTENDS RedBlackTree, TLC

Symmetry == Permutations(Tasks)
=============================================================================
