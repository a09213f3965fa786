------------------------------- MODULE Fields -------------------------------
(***************************************************************************)
(* Bit fields in a string of bytes, most significant bit first, the way    *)
(* klbs_write_bits and klbs_read_bits move them (KlBitstream models the    *)
(* calls one bit at a time).                                               *)
(*                                                                         *)
(* A decoder is a list of <<name, width>>, an encoder one of               *)
(* <<value, width>>.  The name Skip marks bits that are read and dropped.  *)
(* A value of more than 24 bits is the tuple of its bytes, since TLC's     *)
(* integers are short.                                                     *)
(***************************************************************************)
EXTENDS Integers, Sequences, SequencesExt

Skip == "-"

\* Bit i of bytes, from 0.  Behind its data a decoder's buffer is cleared.
BitAt(bytes, i) ==
  IF i \div 8 < Len(bytes) THEN (bytes[i \div 8 + 1] \div 2^(7 - (i % 8))) % 2 ELSE 0

Unsigned(bytes, at, width) ==
  LET value[n \in 0 .. width] ==
        IF n = 0 THEN 0 ELSE 2 * value[n - 1] + BitAt(bytes, at + n - 1)
  IN  value[width]

\* klbs_read_bits, width bits from bit position at.
Value(bytes, at, width) ==
  IF width <= 24 THEN Unsigned(bytes, at, width)
  ELSE [k \in 1 .. width \div 8 |-> Unsigned(bytes, at + 8 * (k - 1), 8)]

\* klbs_write_bits: the low width bits of v.
Bits(v, width) ==
  IF width <= 24 THEN [k \in 1 .. width |-> (v \div 2^(width - k)) % 2]
  ELSE [k \in 1 .. width |-> (v[(k - 1) \div 8 + 1] \div 2^(7 - ((k - 1) % 8))) % 2]

\* Calls of klbs_write_bits, one after the other.
Write(fields) == FlattenSeq([n \in DOMAIN fields |-> Bits(fields[n][1], fields[n][2])])

\* Bytes of an array.
WriteBytes(bytes) == [k \in 1 .. 8 * Len(bytes) |-> (bytes[(k - 1) \div 8 + 1] \div 2^(7 - ((k - 1) % 8))) % 2]

ReadBytes(bytes, at, n) == [k \in 1 .. n |-> Unsigned(bytes, at + 8 * (k - 1), 8)]

\* Calls of klbs_read_bits from bit position at, as a record of the named fields.
Read(layout, bytes, at) ==
  LET pos[n \in 0 .. Len(layout)] == IF n = 0 THEN at ELSE pos[n - 1] + layout[n][2]
      named == {n \in DOMAIN layout : layout[n][1] # Skip}
  IN [f \in {layout[n][1] : n \in named} |->
        LET n == CHOOSE m \in named : layout[m][1] = f
        IN  Value(bytes, pos[n - 1], layout[n][2])]

\* The bytes of a bit string, the last one filled up with zeros
\* (klbs_write_buffer_complete).
Packed(bits) ==
  [k \in 1 .. (Len(bits) + 7) \div 8 |->
     LET value[n \in 0 .. 8] ==
           IF n = 0 THEN 0
           ELSE 2 * value[n - 1] + (IF 8 * (k - 1) + n <= Len(bits) THEN bits[8 * (k - 1) + n] ELSE 0)
     IN  value[8]]

\* v is representable in a C variable of so many bits.
Fits(v, width) ==
  IF width <= 24 THEN v \in 0 .. 2^width - 1
  ELSE DOMAIN v = 1 .. width \div 8 /\ \A k \in DOMAIN v : v[k] \in 0 .. 255

\* r has the members that widths gives, each representable.
IsStruct(r, widths) ==
  DOMAIN widths \subseteq DOMAIN r /\ \A f \in DOMAIN widths : Fits(r[f], widths[f])
=============================================================================
