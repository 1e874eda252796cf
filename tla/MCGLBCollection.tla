-------------------------- MODULE MCGLBCollection --------------------------
(***************************************************************************)
(* Three threads at one name: the races for it need no second one.         *)
(***************************************************************************)
EXTENDS GLBCollection, TLC

Symmetry == Permutations(Glbs) \cup Permutations(Threads)
=============================================================================
