----------------------------- MODULE VancWords -----------------------------
(***************************************************************************)
(* The 10-bit words of VANC and the frames made of them                    *)
(* (core-checksum.c, klvanc_sdi_create_payload in core-packets.c).  The    *)
(* words are the real ones: eight bits, the parity in bit 8, and its       *)
(* inverse in bit 9.                                                       *)
(***************************************************************************)
EXTENDS Integers, Sequences, FiniteSets, SequencesExt

Bit(w, k) == (w \div 2^k) % 2 = 1
SetBit(w, k) == IF Bit(w, k) THEN w ELSE w + 2^k

\* The low eight bits: a word without its parity.
sanitizeWord(w) == w % 256

\* The sum of the first n words to nine bits (by halves: TLC's stack is short).
Sum9(words, n) ==
  LET sum[r \in (0 .. n) \X (0 .. n)] ==
        LET lo == r[1]
            hi == r[2]
            mid == (lo + hi) \div 2
        IN  IF lo >= hi THEN 0
            ELSE IF hi = lo + 1 THEN words[hi]
            ELSE sum[<<lo, mid>>] + sum[<<mid, hi>>]
  IN  sum[<<0, n>>] % 512

\* Bit 9 of a checksum is the inverse of bit 8.
WithBit9(s) == IF Bit(s, 8) THEN s ELSE SetBit(s, 9)

\* Mutant: the loop stops one word short.
ChecksumStopsShort(words) == WithBit9(Sum9(words, Len(words) - 1))

klvanc_checksum_calculate(words) == WithBit9(Sum9(words, Len(words)))

\* The last word is the checksum of the words before it.
klvanc_checksum_is_valid(words) == klvanc_checksum_calculate(Front(words)) = Last(words)

\* Bit 8 marks an odd number of ones, bit 9 an even one.
WithParity(w) ==
  IF Cardinality({k \in 0 .. 15 : Bit(w, k)}) % 2 = 1 THEN SetBit(w, 8) ELSE SetBit(w, 9)

\* Mutant: DID and SDID change places.
CreatePayloadSwapped(sdid, did, bytes) ==
  LET body == [k \in 1 .. Len(bytes) + 3 |->
                 WithParity(IF k = 1 THEN sdid ELSE IF k = 2 THEN did
                            ELSE IF k = 3 THEN Len(bytes) ELSE bytes[k - 3])]
  IN <<0, 1023, 1023>> \o body \o <<klvanc_checksum_calculate(body)>>

\* klvanc_sdi_create_payload: a frame around the bytes.  The count is a 16-bit
\* word and takes its parity bits like the others.
klvanc_sdi_create_payload(sdid, did, bytes) ==
  LET body == [k \in 1 .. Len(bytes) + 3 |->
                 WithParity(IF k = 1 THEN did ELSE IF k = 2 THEN sdid
                            ELSE IF k = 3 THEN Len(bytes) ELSE bytes[k - 3])]
  IN <<0, 1023, 1023>> \o body \o <<klvanc_checksum_calculate(body)>>
=============================================================================
