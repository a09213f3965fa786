---------------------------- MODULE MCVancCache ----------------------------
(* Model checking VancCache on small instances. *)
EXTENDS VancCache, TLC

\* Addresses are interchangeable: malloc may return any free one.
Symmetry == Permutations(Objs)

=============================================================================
