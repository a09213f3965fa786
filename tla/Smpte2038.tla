------------------------------ MODULE Smpte2038 ------------------------------
(***************************************************************************)
(* VANC packets in a PES packet (smpte2038.c): the packetizer, whose       *)
(* buffer is the variable pk, and the parser, as operators.  Bytes and     *)
(* fields are the real ones.                                               *)
(*                                                                         *)
(* The reader of bits asserts that it is inside its buffer before every    *)
(* bit, so it may load one byte behind the buffer and stops the process at *)
(* the second bit of it.  The outcome "abort" of the parser stands for it. *)
(***************************************************************************)
EXTENDS VancWords, Fields

CONSTANTS
  MaxWords,    \* user data words of a packet (255)
  BufInitial,  \* size of the packetizer's buffer (16384)
  BufStep,     \* what it grows by (16384)
  BufLimit     \* size at which the process is aborted (128 KB)

ASSUME PacketizerAssumption ==
  /\ MaxWords \in Nat /\ BufInitial \in Nat /\ BufStep \in Nat /\ BufLimit \in Nat
  /\ BufInitial >= 14 /\ BufStep >= 2 * MaxWords + 64

VARIABLE pk  \* ctx: [buflen, bufused, buffree, buf]; buf is what lies behind the PES header

----------------------------------------------------------------------------
(* The packetizer *)

\* Room for the PES header, which is written last.
ResetOffset == 14

\* v & 0x300: the parity is there already.
add_parity(v) == IF (v \div 256) % 4 # 0 THEN v ELSE WithParity(v)

klvanc_smpte2038_packetizer_alloc ==
  [buflen |-> BufInitial, bufused |-> ResetOffset, buffree |-> BufInitial - ResetOffset, buf |-> <<>>]

\* Mutant: the place the next line goes to is not set back.
BeginWhereItEnded == pk' = [pk EXCEPT !.buf = <<>>]

klvanc_smpte2038_packetizer_begin ==
  pk' = [buflen |-> pk.buflen, bufused |-> ResetOffset, buffree |-> pk.buflen - ResetOffset, buf |-> <<>>]

LineLayout ==
  << <<"reserved_000000", 6>>, <<"c_not_y_channel_flag", 1>>, <<"line_number", 11>>,
     <<"horizontal_offset", 12>>, <<"DID", 10>>, <<"SDID", 10>>, <<"data_count", 10>> >>
LineHeaderBits == 60

\* Bytes of a line of n user data words: header, words, checksum.
LineLength(n) == (LineHeaderBits + 10 * n + 10 + 7) \div 8

\* The bits of a packet's line, filled up to whole bytes with ones.
LineBits(pkt) ==
  LET bits == Write(<< <<0, 6>>, <<0, 1>>, <<pkt.lineNr, 11>>, <<0, 12>>, <<add_parity(pkt.did), 10>>,
                       <<add_parity(pkt.dbnsdid), 10>>, <<add_parity(Len(pkt.payload)), 10>> >>
                    \o [k \in DOMAIN pkt.payload |-> <<pkt.payload[k], 10>>] \o << <<pkt.checksum, 10>> >>)
  IN [k \in 1 .. 8 * LineLength(Len(pkt.payload)) |-> IF k <= Len(bits) THEN bits[k] ELSE 1]

\* The size the buffer needs for n words: two bytes each, and some headroom.
Headroom == 64

\* Mutant: the headroom for the header is forgotten.
BufferAdjustedTight(n) == IF 2 * n > pk.buffree THEN pk.buflen + BufStep ELSE pk.buflen

klvanc_smpte2038_buffer_adjust(n) ==
  IF 2 * n + Headroom > pk.buffree THEN pk.buflen + BufStep ELSE pk.buflen

\* The process is aborted when the buffer would have to grow over the limit.
Aborts(n) == LET size == klvanc_smpte2038_buffer_adjust(n) IN size # pk.buflen /\ size > BufLimit

klvanc_smpte2038_packetizer_append(pkt) ==
  LET n    == Len(pkt.payload)
      used == pk.bufused + LineLength(n)
      size == klvanc_smpte2038_buffer_adjust(n)
  IN /\ ~Aborts(n)
     /\ pk' = [buflen |-> size, bufused |-> used, buffree |-> size - used,
               buf |-> pk.buf \o Packed(LineBits(pkt))]

HeaderLayout ==
  << <<"packet_start_code_prefix", 24>>, <<"stream_id", 8>>, <<"PES_packet_length", 16>>,
     <<"reserved_10", 2>>, <<"PES_scrambling_control", 2>>, <<"PES_priority", 1>>,
     <<"data_alignment_indicator", 1>>, <<"copyright", 1>>, <<"original_or_copy", 1>>,
     <<"PTS_DTS_flags", 2>>, <<"ESCR_flag", 1>>, <<"ES_rate_flag", 1>>, <<"DSM_trick_mode_flag", 1>>,
     <<"additional_copy_info_flag", 1>>, <<"PES_CRC_flag", 1>>, <<"PES_extension_flag", 1>>,
     <<"PES_header_data_length", 8>>, <<"reserved_0010", 4>>,
     <<"pts_32_30", 3>>, <<"marker_1", 1>>, <<"pts_29_15", 15>>, <<"marker_2", 1>>,
     <<"pts_14_0", 15>>, <<"marker_3", 1>> >>

\* The bytes of the PES packet: the header, in the room kept for it, and the lines.
\* The length is what follows the length field, to 16 bits.  pts is given in the
\* three parts it is written in.
klvanc_smpte2038_packetizer_end(pts) ==
  LET value == [f \in {HeaderLayout[n][1] : n \in DOMAIN HeaderLayout} |->
                  CASE f = "packet_start_code_prefix" -> 1
                    [] f = "stream_id" -> 189
                    [] f = "PES_packet_length" -> (pk.bufused - 6) % 65536
                    [] f \in {"reserved_10", "PTS_DTS_flags", "reserved_0010"} -> 2
                    [] f = "PES_header_data_length" -> 5
                    [] f \in {"data_alignment_indicator", "marker_1", "marker_2", "marker_3"} -> 1
                    [] f = "pts_32_30" -> pts[1]
                    [] f = "pts_29_15" -> pts[2]
                    [] f = "pts_14_0"  -> pts[3]
                    [] OTHER -> 0]
      header == Packed(Write([n \in DOMAIN HeaderLayout |-> <<value[HeaderLayout[n][1]], HeaderLayout[n][2]>>]))
  IN [k \in 1 .. pk.bufused |-> IF k <= ResetOffset THEN header[k] ELSE pk.buf[k - ResetOffset]]

\* Without a packet there is nothing to send (-1).
Empty == pk.bufused = ResetOffset

----------------------------------------------------------------------------
(* The parser *)

\* Bytes the reader has loaded at bit position at: klbs_get_byte_count.
Loaded(at) == (at + 7) \div 8

\* The reader may come one bit further than its buffer, not two.
Inside(bytes, at) == at <= 8 * Len(bytes) + 1

Words10(bytes, at, n) == [k \in 1 .. n |-> Unsigned(bytes, at + 10 * (k - 1), 10)]

\* Behind a line that ends within a byte the rest of the byte is skipped; behind
\* one that does not, the ones other equipment puts there.
Stuffed(bytes, at) ==
  IF at % 8 # 0 THEN 8 * Loaded(at)
  ELSE CHOOSE k \in at .. 8 * Len(bytes) :
         /\ k = 8 * Len(bytes) \/ BitAt(bytes, k) = 0
         /\ \A m \in at .. k - 1 : BitAt(bytes, m) = 1

\* Mutant: the rest of the last byte of a line is taken for the next line.
StuffedNever(bytes, at) == at

klbs_read_byte_stuff(bytes, at) == Stuffed(bytes, at)

\* The words do not fit what is left of the packet; counted in whole bytes, so
\* that up to six bits may be missing unnoticed.  What is left is unsigned: with
\* a byte behind the end loaded it is so much that any words fit.
TooManyWords(bytes, at, n) ==
  Loaded(at) <= Len(bytes) /\ (10 * (n + 1)) \div 8 > Len(bytes) - Loaded(at)

\* rem at the top of the loop: bytes not loaded yet, but counted before the last
\* bit of the stuffing is read, when that bit loads a byte.
Remaining(bytes, at) == Len(bytes) - (at + 6) \div 8

Outcome(o) == [lines |-> <<>>, outcome |-> o]

\* The lines from bit position from on: those read until the packet ends, a field
\* is invalid or the process is stopped by the reader's assertion.
smpte2038_parse_pes_payload_int(bytes, from) ==
  LET parse[at \in 0 .. 8 * Len(bytes) + 8] ==
        IF Remaining(bytes, at) <= 4 THEN Outcome("ok")
        ELSE LET h     == Read(LineLayout, bytes, at)
                 n     == sanitizeWord(h.data_count)
                 words == at + LineHeaderBits
                 end   == words + 10 * (n + 1)
             IN IF h.reserved_000000 # 0 \/ h.c_not_y_channel_flag # 0 THEN Outcome("error")
                ELSE IF ~Inside(bytes, words) THEN Outcome("abort")
                ELSE IF TooManyWords(bytes, words, n) THEN Outcome("error")
                ELSE IF ~Inside(bytes, end) THEN Outcome("abort")
                ELSE LET rest == parse[klbs_read_byte_stuff(bytes, end)]
                         l    == [line_number |-> h.line_number, DID |-> h.DID, SDID |-> h.SDID,
                                  data_count |-> h.data_count, user_data_words |-> Words10(bytes, words, n),
                                  checksum_word |-> Unsigned(bytes, end - 10, 10)]
                     IN  [rest EXCEPT !.lines = <<l>> \o rest.lines]
  IN parse[from]

\* The fields that are tested, in three groups, each as soon as it is read.
NotScrambled(h) == h.PES_scrambling_control = 0
OnlyPts(h) ==
  /\ h.PTS_DTS_flags = 2 /\ h.ESCR_flag = 0 /\ h.ES_rate_flag = 0 /\ h.DSM_trick_mode_flag = 0
  /\ h.additional_copy_info_flag = 0 /\ h.PES_CRC_flag = 0 /\ h.PES_extension_flag = 0
PtsLength(h) == h.PES_header_data_length = 5

\* Of a packet that ends within its header the parser may or may not come to the
\* end before a test fails.
klvanc_smpte2038_parse_pes_packet(bytes) ==
  LET h       == Read(HeaderLayout, bytes, 0)
      started == h.packet_start_code_prefix = 1 /\ h.stream_id = 189
      passed  == /\ Len(bytes) >= 7 => NotScrambled(h)
                 /\ Len(bytes) >= 8 => OnlyPts(h)
                 /\ Len(bytes) >= 10 => PtsLength(h)
      pts     == <<h.pts_32_30, h.pts_29_15, h.pts_14_0>>
  IN IF ~started \/ ~passed THEN [outcome |-> "invalid", lines |-> <<>>, PTS |-> pts]
     ELSE IF Len(bytes) < 14 THEN [outcome |-> "abort", lines |-> <<>>, PTS |-> pts]
     ELSE LET r == smpte2038_parse_pes_payload_int(bytes, 8 * 14)
          IN  [outcome |-> r.outcome, lines |-> r.lines, PTS |-> pts]

\* Mutant: the checksum is calculated afresh instead of copied.
WordsChecksummed(l) ==
  LET words == <<add_parity(l.DID), add_parity(l.SDID), add_parity(l.data_count)>> \o l.user_data_words
  IN  <<0, 1023, 1023>> \o words \o <<klvanc_checksum_calculate(words)>>

\* A line of video with the packet, as klvanc_packet_parse takes it.
klvanc_smpte2038_convert_line_to_words(l) ==
  <<0, 1023, 1023, add_parity(l.DID), add_parity(l.SDID), add_parity(l.data_count)>>
    \o l.user_data_words \o <<l.checksum_word>>

----------------------------------------------------------------------------
(* Properties *)

\* No write of the packetizer leaves its buffer, however many packets of
\* whatever length are appended and however far the buffer has grown: it grows by
\* an estimate, two bytes a word and 64, before the bits are written.
BufferFits ==
  /\ ResetOffset <= pk.bufused /\ pk.bufused <= pk.buflen
  /\ pk.buffree = pk.buflen - pk.bufused
=============================================================================
