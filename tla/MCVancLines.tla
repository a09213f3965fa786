---------------------------- MODULE MCVancLines ----------------------------
(* Model checking VancLines on small instances. *)
EXTENDS VancLines, TLC

\* Line numbers are only compared for equality.
Symmetry == Permutations(Numbers)

=============================================================================
