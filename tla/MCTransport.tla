----------------------------- MODULE MCTransport -----------------------------
(***************************************************************************)
(* Transport packets of 36 bytes, 32 of them payload, and a ring of 72, so *)
(* that writes wrap at several places.  The frames need one transport      *)
(* packet (filled to the last byte, or not), two with a gap the extractor  *)
(* searches, or three, for which packetizer and ring grow; one is empty    *)
(* and one is more than the packetizer may hold.                           *)
(***************************************************************************)
EXTENDS Transport

\* A packet of n user data words on a line.
Packet(line, n) ==
  [lineNr |-> line, words |-> klvanc_sdi_create_payload(1, 64 + n, [k \in 1 .. n |-> (37 * k + line) % 256])]

Full    == << Packet(9, 0), Packet(10, 0) >>
Short   == << Packet(11, 1) >>
Middle  == << Packet(12, 3), Packet(13, 4) >>
Long    == << Packet(14, 13), Packet(15, 13), Packet(16, 13) >>
TooMuch == [k \in 1 .. 16 |-> Packet(17, 3)]

MCFrames == {<<>>, Full, Short, Middle, Long, TooMuch}
MCJunk   == {0, 255}
=============================================================================
