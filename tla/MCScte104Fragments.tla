------------------------ MODULE MCScte104Fragments ------------------------
(* Model checking Scte104Fragments on small instances. *)
EXTENDS Scte104Fragments, TLC

=============================================================================
