----------------------------- MODULE SmallCodecs -----------------------------
(***************************************************************************)
(* The codecs of fixed layout: active format description                   *)
(* (core-packet-afd.c), the 64-bit counter (core-packet-kl_u64le_          *)
(* counter.c), and the two that are only decoded: subtitling description   *)
(* packets (core-packet-sdp.c) and SMPTE 2108-1 HDR metadata               *)
(* (core-packet-smpte_2108_1.c).                                           *)
(***************************************************************************)
EXTENDS Fields, SequencesExt

(* Active format description *)

ASPECT_UNDEFINED == 0
ASPECT_4x3       == 1
ASPECT_16x9      == 2
BARS_NONE        == 0
BARS_LEFTRIGHT   == 3
BARS_TOPBOTTOM   == 12

\* The struct: the bits of each member.
klvanc_packet_afd_s ==
  [aspectRatio |-> 2, afd |-> 4, barDataFlags |-> 4, top |-> 16, bottom |-> 16, left |-> 16, right |-> 16]

klvanc_create_AFD ==
  [aspectRatio |-> ASPECT_UNDEFINED, afd |-> 0, barDataFlags |-> BARS_NONE,
   top |-> 0, bottom |-> 0, left |-> 0, right |-> 0]

klvanc_verify_afd_value(val) == val \in {0, 2, 3, 4, 8, 9, 10, 11, 13, 14, 15}

\* Mutant: any value is set.
SetAnyAFD(pkt, val) == {[pkt EXCEPT !.afd = val]}

\* The packet with the value set, or the empty set when it is refused.
klvanc_set_AFD_val(pkt, val) == IF klvanc_verify_afd_value(val) THEN {[pkt EXCEPT !.afd = val]} ELSE {}

klvanc_convert_AFD_to_packetBytes(pkt) ==
  Packed(Write(<< <<pkt.afd * 8 + (IF pkt.aspectRatio = ASPECT_16x9 THEN 4 ELSE 0), 8>>,
                  <<0, 16>>, <<pkt.barDataFlags * 16, 8>> >>
         \o (CASE pkt.barDataFlags = BARS_TOPBOTTOM -> << <<pkt.top, 16>>, <<pkt.bottom, 16>> >>
               [] pkt.barDataFlags = BARS_LEFTRIGHT -> << <<pkt.left, 16>>, <<pkt.right, 16>> >>
               [] OTHER                             -> << <<0, 16>>, <<0, 16>> >>)))

parse_AFD(bytes) ==
  LET flags == Unsigned(bytes, 24, 4)
      first == Unsigned(bytes, 32, 16)
      second == Unsigned(bytes, 48, 16)
  IN [afd |-> Unsigned(bytes, 1, 4), barDataFlags |-> flags,
      aspectRatio |-> IF BitAt(bytes, 5) = 1 THEN ASPECT_16x9 ELSE ASPECT_4x3,
      top    |-> IF flags = BARS_TOPBOTTOM THEN first ELSE 0,
      bottom |-> IF flags = BARS_TOPBOTTOM THEN second ELSE 0,
      left   |-> IF flags = BARS_LEFTRIGHT THEN first ELSE 0,
      right  |-> IF flags = BARS_LEFTRIGHT THEN second ELSE 0]

----------------------------------------------------------------------------
(* The counter, its 64 bits as eight bytes, the first one highest.         *)

klvanc_create_KL_U64LE_COUNTER == [counter |-> [k \in 1 .. 8 |-> 0]]
CounterBytes(pkt) == Packed(Write(<< <<pkt.counter, 64>> >>))
parse_KL_U64LE_COUNTER(bytes) == Read(<< <<"counter", 64>> >>, bytes, 0)

----------------------------------------------------------------------------
(* Subtitling description packets                                          *)

klvanc_sdp_desc_s == [line |-> 5, field |-> 1]
klvanc_packet_sdp_s == [format_code |-> 8, sequence_counter |-> 16]

NoDescriptor == [line |-> 0, field |-> 0, data |-> <<>>]

\* A sender: two bytes of identifier, the length, the format, five bytes that
\* name the lines, the data of the lines in use, a footer.
SdpBytes(pkt) ==
  LET used == {k \in 1 .. 5 : pkt.descriptors[k] # NoDescriptor}
  IN <<81, 21, 13 + 45 * Cardinality(used), pkt.format_code>>
     \o [k \in 1 .. 5 |-> pkt.descriptors[k].field * 128 + pkt.descriptors[k].line]
     \o FlattenSeq([k \in 1 .. 5 |-> pkt.descriptors[k].data])
     \o <<116, pkt.sequence_counter \div 256, pkt.sequence_counter % 256, 0>>

\* Only descriptors with a line have data, one after the other.
parse_SDP(bytes) ==
  LET count == LET n == Unsigned(bytes, 16, 8) - 8 IN IF n < 0 THEN 0 ELSE IF n < 5 THEN n ELSE 5
      At(i) == Unsigned(bytes, 24 + 8 * i, 8)
      Before(i) == Cardinality({k \in 1 .. i - 1 : At(k) # 0})
      inUse == Cardinality({k \in 1 .. count : At(k) # 0})
  IN IF Unsigned(bytes, 0, 16) # 81 * 256 + 21 THEN {}
     ELSE {[format_code |-> Unsigned(bytes, 24, 8),
            descriptors |-> [k \in 1 .. 5 |->
              IF k > count \/ At(k) = 0 THEN NoDescriptor
              ELSE [line |-> At(k) % 32, field |-> At(k) \div 128,
                    data |-> ReadBytes(bytes, 8 * (9 + 45 * Before(k)), 45)]],
            sequence_counter |-> Unsigned(bytes, 8 * (10 + 45 * inUse), 16)]}

----------------------------------------------------------------------------
(* HDR metadata                                                            *)

klvanc_s2108_1_frame == [frame_type |-> 8, frame_length |-> 8]

KLVANC_HDR_STATIC1 == 0
KLVANC_HDR_STATIC2 == 1
MAX_S2108_1_FRAMES == 10

\* Six coordinates, x and y in turn, of the three primaries.
Static1 == << <<"primaries", 96>>, <<"white_point_x", 16>>, <<"white_point_y", 16>>,
              <<"max_display_mastering_luminance", 32>>, <<"min_display_mastering_luminance", 32>> >>
Static2 == << <<"max_content_light_level", 16>>, <<"max_pic_average_light_level", 16>> >>

\* A sender: type, length, two bytes of SEI header, the metadata.
FrameBytes(f) ==
  LET data == CASE f.frame_type = KLVANC_HDR_STATIC1 ->
                     Packed(Write(<< <<f.data.primaries, 96>>, <<f.data.white_point_x, 16>>,
                       <<f.data.white_point_y, 16>>, <<f.data.max_display_mastering_luminance, 32>>,
                       <<f.data.min_display_mastering_luminance, 32>> >>))
                [] f.frame_type = KLVANC_HDR_STATIC2 ->
                     Packed(Write(<< <<f.data.max_content_light_level, 16>>,
                                     <<f.data.max_pic_average_light_level, 16>> >>))
                [] OTHER -> [k \in 1 .. f.frame_length - 2 |-> 7]
  IN <<f.frame_type, f.frame_length, 137, f.frame_length - 2>> \o data
S2108Bytes(pkt) == FlattenSeq([k \in DOMAIN pkt.frames |-> FrameBytes(pkt.frames[k])])

\* Where the frame at byte at ends: by its type where that is decoded, by its
\* length elsewhere.
FrameEnd(type, length, at) ==
  at + 4 + (CASE type = KLVANC_HDR_STATIC1 -> 24 [] type = KLVANC_HDR_STATIC2 -> 4
              [] OTHER -> length - 2)

\* The length that a frame of this type has to state.
StatesItsLength(f) ==
  /\ f.frame_type = KLVANC_HDR_STATIC1 => f.frame_length = 26
  /\ f.frame_type = KLVANC_HDR_STATIC2 => f.frame_length = 6
  /\ f.frame_length >= 2

\* parse_SMPTE_2108_1.  A frame that claims more than is left ends the loop.
\* (Frames that state their length are assumed: behind one of a decoded type that
\* states less, the unsigned count of the bytes left wraps and the reader's
\* assertion stops the process.)
parse_SMPTE_2108_1(bytes) ==
  LET read[n \in 0 .. MAX_S2108_1_FRAMES] ==
        IF n = 0 THEN [at |-> 0, frames |-> <<>>, more |-> Len(bytes) > 0]
        ELSE LET done   == read[n - 1]
                 type   == Unsigned(bytes, 8 * done.at, 8)
                 length == Unsigned(bytes, 8 * (done.at + 1), 8)
                 data   == CASE type = KLVANC_HDR_STATIC1 -> Read(Static1, bytes, 8 * (done.at + 4))
                             [] type = KLVANC_HDR_STATIC2 -> Read(Static2, bytes, 8 * (done.at + 4))
                             [] OTHER -> <<>>
                 next   == FrameEnd(type, length, done.at)
             IN IF ~done.more THEN done
                ELSE IF Len(bytes) - done.at < 2 \/ Len(bytes) - (done.at + 2) < length
                     THEN [done EXCEPT !.more = FALSE]
                     ELSE [at |-> next, more |-> next < Len(bytes),
                           frames |-> Append(done.frames,
                                        [frame_type |-> type, frame_length |-> length, data |-> data])]
  IN [frames |-> read[MAX_S2108_1_FRAMES].frames]
=============================================================================
