------------------------------ MODULE TimeCode ------------------------------
(***************************************************************************)
(* SMPTE 12-2 ancillary time code (core-packet-smpte_12_2.c).  The time    *)
(* code is spread over the upper halves of 16 words; the bits of two more  *)
(* bytes, DBB1 (the payload type) and DBB2, are bit 3 of each word.        *)
(***************************************************************************)
EXTENDS Fields, SequencesExt

KLVANC_ATC_LTC   == 0
KLVANC_ATC_VITC1 == 1
KLVANC_ATC_VITC2 == 2
IsTimeCode(dbb1) == dbb1 \in {KLVANC_ATC_LTC, KLVANC_ATC_VITC1, KLVANC_ATC_VITC2}

TimeFields == {"frames", "seconds", "minutes", "hours"}
FlagFields == {"flag14", "flag15", "flag35", "flag55", "flag74", "flag75"}
BinaryFields == {"dbb1", "vitc_line_select", "line_duplication_flag", "tc_validity_flag",
                 "user_bits_process_flag"}

\* The struct: the bits of each member.
klvanc_packet_smpte_12_2_s == [f \in TimeFields \cup FlagFields \cup BinaryFields |-> 8]

klvanc_alloc_SMPTE_12_2 == [f \in TimeFields \cup FlagFields \cup BinaryFields |-> 0]

bcd2uint(bcd) == LET low == bcd % 16 high == bcd \div 16
                 IN  IF low > 9 \/ high > 9 THEN 0 ELSE low + 10 * high

Gcd(a, b) ==
  LET g[n \in 0 .. b, m \in 0 .. IF a > b THEN a ELSE b] == IF n = 0 THEN m ELSE g[m % n, n]
  IN  g[b, a]

\* A time code pack of DV video: bytes frames, seconds, minutes, hours.  The
\* field bit is on top of the seconds at 25 and 50 frames a second, on top of
\* the hours elsewhere; the drop frame flag is bit 6 of the frames.
klvanc_create_SMPTE_12_2_from_ST370(st370_tc, num, den) ==
  LET g == Gcd(num, den)
      pal == num \div g = 1 /\ den \div g \in {25, 50}
      second == IF pal THEN st370_tc[2] >= 128 ELSE st370_tc[4] >= 128
      drop == ~pal /\ (st370_tc[1] \div 64) % 2 = 1
  IN [klvanc_alloc_SMPTE_12_2 EXCEPT
        !.frames = bcd2uint(st370_tc[1] % 64), !.seconds = bcd2uint(st370_tc[2] % 128),
        !.minutes = bcd2uint(st370_tc[3] % 128), !.hours = bcd2uint(st370_tc[4] % 64),
        !.dbb1 = IF second THEN KLVANC_ATC_VITC2 ELSE KLVANC_ATC_VITC1,
        !.flag75 = IF second /\ pal THEN 1 ELSE 0, !.flag35 = IF second /\ ~pal THEN 1 ELSE 0,
        !.flag14 = IF drop THEN 1 ELSE 0]

----------------------------------------------------------------------------
(* Encoding                                                                *)

\* Mutant: each bit of the tens has twice its weight.
TensTooHigh(flags, v, weights) ==
  Write([k \in DOMAIN flags |-> <<flags[k], 1>>]
        \o [k \in DOMAIN weights |-> <<v \div (2 * weights[k]), 1>>] \o << <<0, 12>> >>)

\* Units of a number in the upper half of one word, and, two words on, the bits
\* of its tens with two or one flags above them.
Digit(d) == Write(<< <<d, 4>>, <<0, 12>> >>)
Tens(flags, v, weights) ==
  Write([k \in DOMAIN flags |-> <<flags[k], 1>>]
        \o [k \in DOMAIN weights |-> <<v \div weights[k], 1>>] \o << <<0, 12>> >>)

\* The line, and three flags or-ed to it: a bit is set by its flag, if that is not
\* zero, or by a line of more than five bits.
BinaryGroup2(pkt) ==
  LET Or(flag, mask) ==
        IF flag # 0 \/ (pkt.vitc_line_select \div mask) % 2 = 1 THEN mask ELSE 0
  IN  (pkt.vitc_line_select % 32) + Or(pkt.line_duplication_flag, 32)
      + Or(pkt.tc_validity_flag, 64) + Or(pkt.user_bits_process_flag, 128)

\* For another payload type nothing is written, yet the result is success; the
\* caller then frames an empty payload, which klvanc_sdi_create_payload refuses.
klvanc_convert_SMPTE_12_2_to_packetBytes(pkt) ==
  IF ~IsTimeCode(pkt.dbb1) THEN <<>>
  ELSE LET udw == Packed(Digit(pkt.frames % 10)  \o Tens(<<pkt.flag14, pkt.flag15>>, pkt.frames, <<20, 10>>)
                      \o Digit(pkt.seconds % 10) \o Tens(<<pkt.flag35>>, pkt.seconds, <<40, 20, 10>>)
                      \o Digit(pkt.minutes % 10) \o Tens(<<pkt.flag55>>, pkt.minutes, <<40, 20, 10>>)
                      \o Digit(pkt.hours % 10)   \o Tens(<<pkt.flag74, pkt.flag75>>, pkt.hours, <<20, 10>>))
           dbb(v, i) == ((v \div 2^i) % 2) * 8
       IN [k \in 1 .. 16 |-> udw[k] + (IF k <= 8 THEN dbb(pkt.dbb1, k - 1) ELSE dbb(BinaryGroup2(pkt), k - 9))]

----------------------------------------------------------------------------
(* Decoding                                                                *)

Flag(byte, mask) == (byte \div mask) % 2

\* Bit 3 of eight words from word k on, the first one lowest.
Dbb(bytes, k) ==
  LET v[n \in 0 .. 8] == IF n = 0 THEN 0 ELSE v[n - 1] + Flag(bytes[k + n - 1], 8) * 2^(n - 1) IN v[8]

TensOf(byte, weights) ==
  LET v[n \in 0 .. Len(weights)] ==
        IF n = 0 THEN 0 ELSE v[n - 1] + Flag(byte, 2^(n + 3)) * weights[n]
  IN  v[Len(weights)]

\* parse_SMPTE_12_2: the packet, or the empty set.  The two flags above the tens
\* of frames, and of hours, are read in the opposite order of their writing.
parse_SMPTE_12_2(bytes) ==
  LET dbb1 == Dbb(bytes, 1)
      dbb2 == Dbb(bytes, 9)
      time == IsTimeCode(dbb1)
      Units(k) == bytes[k] \div 16
  IN IF Len(bytes) # 16 THEN {}
     ELSE {[dbb1 |-> dbb1, vitc_line_select |-> dbb2 % 32, line_duplication_flag |-> Flag(dbb2, 32),
            tc_validity_flag |-> Flag(dbb2, 64), user_bits_process_flag |-> Flag(dbb2, 128),
            frames  |-> IF time THEN Units(1) + TensOf(bytes[3], <<10, 20>>) ELSE 0,
            seconds |-> IF time THEN Units(5) + TensOf(bytes[7], <<10, 20, 40>>) ELSE 0,
            minutes |-> IF time THEN Units(9) + TensOf(bytes[11], <<10, 20, 40>>) ELSE 0,
            hours   |-> IF time THEN Units(13) + TensOf(bytes[15], <<10, 20>>) ELSE 0,
            flag14  |-> IF time THEN Flag(bytes[3], 64) ELSE 0,
            flag15  |-> IF time THEN Flag(bytes[3], 128) ELSE 0,
            flag35  |-> IF time THEN Flag(bytes[7], 128) ELSE 0,
            flag55  |-> IF time THEN Flag(bytes[11], 128) ELSE 0,
            flag74  |-> IF time THEN Flag(bytes[15], 64) ELSE 0,
            flag75  |-> IF time THEN Flag(bytes[15], 128) ELSE 0]}

----------------------------------------------------------------------------
(* Placing                                                                 *)

\* The line of a time code packet, or -1.  (The code names VITC1 twice where the
\* second was to be VITC2: VITC2 of an unknown format goes to line 11.)
klvanc_SMPTE_12_2_preferred_line(dbb1, lineCount, interlaced) ==
  LET table == << <<1, 1080, TRUE, 9>>, <<1, 1080, FALSE, 9>>, <<1, 720, FALSE, 9>>,
                  <<1, 486, TRUE, 12>>, <<1, 576, TRUE, 8>>, <<2, 1080, TRUE, 571>>,
                  <<2, 1080, FALSE, 9>>, <<2, 720, FALSE, 9>>, <<2, 486, TRUE, 275>>,
                  <<2, 576, TRUE, 321>> >>
      found == {k \in DOMAIN table : SubSeq(table[k], 1, 3) = <<dbb1, lineCount, interlaced>>}
  IN IF found # {} THEN table[CHOOSE k \in found : TRUE][4]
     ELSE IF dbb1 \notin {KLVANC_ATC_VITC1, KLVANC_ATC_LTC} THEN 11 ELSE -1
=============================================================================
