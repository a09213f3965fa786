--------------------------- MODULE MCKlBitstream ---------------------------
(* Model checking KlBitstream.  Widths below, at and above a byte; 0x1A5   *)
(* in eight bits carries a bit that must not be written.                   *)
EXTENDS KlBitstream

MCWords == {<<2, 3>>, <<421, 8>>, <<753, 10>>}

=============================================================================
