---------------------------- MODULE CaptionCodecs ----------------------------
(***************************************************************************)
(* Caption packets: the EIA-708 caption distribution packet                *)
(* (core-packet-eia_708b.c) and EIA-608 byte pairs (core-packet-eia_608.c).*)
(*                                                                         *)
(* A caption distribution packet is a header, up to three sections and a   *)
(* footer, each announced by its id.  The encoder writes a section when    *)
(* its header flag is set; the decoder goes by the ids alone.              *)
(***************************************************************************)
EXTENDS Fields, SequencesExt

MaxCC == 30  \* KLVANC_MAX_CC_COUNT

----------------------------------------------------------------------------
(* The structs: the bits of each member.                                   *)

klvanc_packet_eia_708b_cdp_header ==
  [cdp_identifier |-> 16, cdp_frame_rate |-> 8, time_code_present |-> 8, ccdata_present |-> 8,
   svcinfo_present |-> 8, svc_info_start |-> 8, svc_info_change |-> 8, svc_info_complete |-> 8,
   caption_service_active |-> 8, cdp_hdr_sequence_cntr |-> 16]
klvanc_packet_eia_708b_time_code_section ==
  [f \in {"time_code_section_id", "tc_10hrs", "tc_1hrs", "tc_10min", "tc_1min", "tc_field_flag",
          "tc_10sec", "tc_1sec", "drop_frame_flag", "tc_10fr", "tc_1fr"} |-> 8]
klvanc_packet_eia_708b_ccdata_entry ==
  [cc_valid |-> 8, cc_type |-> 8, cc_data_1 |-> 8, cc_data_2 |-> 8]
klvanc_packet_eia_708b_ccsvcinfo_entry ==
  [caption_service_number |-> 8, svc_data_byte |-> 48, digital_cc |-> 8, csn |-> 8,
   line21_field |-> 8, easy_reader |-> 8, wide_aspect_ratio |-> 8]
klvanc_packet_eia_708b_cdp_footer == [cdp_footer_id |-> 8, cdp_ftr_sequence_cntr |-> 16]
klvanc_packet_eia_608_s == [field |-> 8, line_offset |-> 8, cc_data_1 |-> 8, cc_data_2 |-> 8]

----------------------------------------------------------------------------
(* Building a packet                                                       *)

HeaderFlags == {"time_code_present", "ccdata_present", "svcinfo_present", "svc_info_start",
                "svc_info_change", "svc_info_complete", "caption_service_active"}

NoTimeCode == [f \in DOMAIN klvanc_packet_eia_708b_time_code_section |-> 0]
NoServices == [ccsvcinfo_id |-> 0, svc_info_start |-> 0, svc_info_change |-> 0,
               svc_info_complete |-> 0, svc |-> <<>>]

klvanc_create_eia708_cdp ==
  [header |-> [f \in HeaderFlags |-> 0]
              @@ [cdp_identifier |-> 38505, cdp_frame_rate |-> 0, cdp_hdr_sequence_cntr |-> 0],
   tc     |-> NoTimeCode,
   ccdata |-> [ccdata_id |-> 114, cc |-> <<>>],
   ccsvc  |-> [NoServices EXCEPT !.ccsvcinfo_id = 115],
   footer |-> [cdp_footer_id |-> 116, cdp_ftr_sequence_cntr |-> 0]]

gcd(a, b) ==
  LET g[n \in 0 .. b, m \in 0 .. IF a > b THEN a ELSE b] == IF n = 0 THEN m ELSE g[m % n, n]
  IN  g[b, a]

\* The code of a frame rate num / den, or the empty set when it is refused.
FrameRateCode(num, den) ==
  {k \in 1 .. 8 : <<num \div gcd(num, den), den \div gcd(num, den)>> =
     << <<1001, 24000>>, <<1, 24>>, <<1, 25>>, <<1001, 30000>>, <<1, 30>>, <<1, 50>>,
        <<1001, 60000>>, <<1, 60>> >>[k]}

klvanc_set_framerate_EIA_708B(pkt, num, den) ==
  {[pkt EXCEPT !.header.cdp_frame_rate = code] : code \in FrameRateCode(num, den)}

klvanc_finalize_EIA_708B(pkt, seqNum) ==
  [pkt EXCEPT !.header.cdp_hdr_sequence_cntr = seqNum, !.footer.cdp_ftr_sequence_cntr = seqNum]

----------------------------------------------------------------------------
(* Encoding.  The time code has no drop frame flag and three bits for the  *)
(* tens of frames.                                                         *)

WriteHeader(h) ==
  Write(<< <<h.cdp_identifier, 16>>, <<0, 8>>, <<h.cdp_frame_rate, 4>>, <<15, 4>>,
           <<h.time_code_present, 1>>, <<h.ccdata_present, 1>>, <<h.svcinfo_present, 1>>,
           <<h.svc_info_start, 1>>, <<h.svc_info_change, 1>>, <<h.svc_info_complete, 1>>,
           <<h.caption_service_active, 1>>, <<1, 1>>, <<h.cdp_hdr_sequence_cntr, 16>> >>)

WriteTimeCode(tc) ==
  Write(<< <<tc.time_code_section_id, 8>>, <<3, 2>>, <<tc.tc_10hrs, 2>>, <<tc.tc_1hrs, 4>>,
           <<1, 1>>, <<tc.tc_10min, 3>>, <<tc.tc_1min, 4>>, <<tc.tc_field_flag, 1>>,
           <<tc.tc_10sec, 3>>, <<tc.tc_1sec, 4>>, <<1, 1>>, <<tc.tc_10fr, 3>>, <<tc.tc_1fr, 4>> >>)

WriteCaptions(ccdata) ==
  Write(<< <<ccdata.ccdata_id, 8>>, <<7, 3>>, <<Len(ccdata.cc), 5>> >>)
  \o FlattenSeq([k \in DOMAIN ccdata.cc |->
       LET c == ccdata.cc[k]
       IN  Write(<< <<31, 5>>, <<c.cc_valid, 1>>, <<c.cc_type, 2>>, <<c.cc_data_1, 8>>, <<c.cc_data_2, 8>> >>)])

WriteServices(s) ==
  Write(<< <<s.ccsvcinfo_id, 8>>, <<1, 1>>, <<s.svc_info_start, 1>>, <<s.svc_info_change, 1>>,
           <<s.svc_info_complete, 1>>, <<Len(s.svc), 4>> >>)
  \o FlattenSeq([k \in DOMAIN s.svc |->
       Write(<< <<7, 3>>, <<s.svc[k].caption_service_number, 5>> >>) \o WriteBytes(s.svc[k].svc_data_byte)])

WriteFooter(f) == Write(<< <<f.cdp_footer_id, 8>>, <<f.cdp_ftr_sequence_cntr, 16>>, <<0, 8>> >>)

\* The sum of the first n bytes to eight bits (by halves: TLC's stack is short).
ByteSum(bytes, n) ==
  LET sum[lo, hi \in 0 .. n] ==
        IF lo >= hi THEN 0
        ELSE IF hi = lo + 1 THEN bytes[hi]
        ELSE LET mid == (lo + hi) \div 2 IN sum[lo, mid] + sum[mid, hi]
  IN  sum[0, n] % 256

\* The length and the checksum are filled in at the end.
klvanc_convert_EIA_708B_to_packetBytes(pkt) ==
  LET h == pkt.header
      bytes == Packed(WriteHeader(h)
        \o (IF h.time_code_present = 1 /\ pkt.tc.time_code_section_id = 113 THEN WriteTimeCode(pkt.tc) ELSE <<>>)
        \o (IF h.ccdata_present = 1 /\ pkt.ccdata.ccdata_id = 114 THEN WriteCaptions(pkt.ccdata) ELSE <<>>)
        \o (IF h.svcinfo_present = 1 /\ pkt.ccsvc.ccsvcinfo_id = 115 THEN WriteServices(pkt.ccsvc) ELSE <<>>)
        \o WriteFooter(pkt.footer))
      n == Len(bytes)
      sized == [bytes EXCEPT ![3] = n % 256]
  IN [sized EXCEPT ![n] = (256 - ByteSum(sized, n - 1)) % 256]

----------------------------------------------------------------------------
(* Decoding.  Each section is read behind the one before it: at is the     *)
(* byte after the id of the section at hand.                               *)

ReadHeader(bytes) ==
  Read(<< <<"cdp_identifier", 16>>, <<Skip, 8>>, <<"cdp_frame_rate", 4>>, <<Skip, 4>>,
          <<"time_code_present", 1>>, <<"ccdata_present", 1>>, <<"svcinfo_present", 1>>,
          <<"svc_info_start", 1>>, <<"svc_info_change", 1>>, <<"svc_info_complete", 1>>,
          <<"caption_service_active", 1>>, <<Skip, 1>>, <<"cdp_hdr_sequence_cntr", 16>> >>, bytes, 0)

ReadTimeCode(bytes, at) ==
  Read(<< <<"time_code_section_id", 8>>, <<Skip, 2>>, <<"tc_10hrs", 2>>, <<"tc_1hrs", 4>>,
          <<Skip, 1>>, <<"tc_10min", 3>>, <<"tc_1min", 4>>, <<"tc_field_flag", 1>>,
          <<"tc_10sec", 3>>, <<"tc_1sec", 4>>, <<"drop_frame_flag", 1>>, <<Skip, 1>>,
          <<"tc_10fr", 2>>, <<"tc_1fr", 4>> >>, bytes, 8 * (at - 1))

ReadCaptions(bytes, at) ==
  [ccdata_id |-> Unsigned(bytes, 8 * (at - 1), 8),
   cc |-> [k \in 1 .. Unsigned(bytes, 8 * at + 3, 5) |->
             Read(<< <<Skip, 5>>, <<"cc_valid", 1>>, <<"cc_type", 2>>, <<"cc_data_1", 8>>, <<"cc_data_2", 8>> >>,
                  bytes, 8 * (at + 1 + 3 * (k - 1)))]]

ReadServices(bytes, at) ==
  LET head == Read(<< <<"ccsvcinfo_id", 8>>, <<Skip, 1>>, <<"svc_info_start", 1>>,
                      <<"svc_info_change", 1>>, <<"svc_info_complete", 1>> >>, bytes, 8 * (at - 1))
  IN head @@ [svc |-> [k \in 1 .. Unsigned(bytes, 8 * at + 4, 4) |->
       LET entry == at + 1 + 7 * (k - 1)
       IN [caption_service_number |-> Unsigned(bytes, 8 * entry + 3, 5),
           svc_data_byte |-> ReadBytes(bytes, 8 * (entry + 1), 6)]]]

\* What svc_data_byte says, members language, digital_cc, csn, line21_field,
\* easy_reader and wide_aspect_ratio.
Service(svc_data_byte) ==
  LET b4 == svc_data_byte[4] b5 == svc_data_byte[5] digital == b4 >= 128
  IN [language |-> SubSeq(svc_data_byte, 1, 3), digital_cc |-> IF digital THEN 1 ELSE 0,
      csn |-> IF digital THEN b4 % 64 ELSE 0, line21_field |-> IF digital THEN 0 ELSE b4 % 2,
      easy_reader |-> b5 \div 128, wide_aspect_ratio |-> (b5 \div 64) % 2]

ReadFooter(bytes, at) ==
  Read(<< <<"cdp_footer_id", 8>>, <<"cdp_ftr_sequence_cntr", 16>> >>, bytes, 8 * (at - 1))

\* The sections found, from byte at on, whose id is the byte before it.  Each
\* needs so many bytes; too few is an error.
Sections(bytes) ==
  LET free(at) == Len(bytes) - at
      id(at)   == Unsigned(bytes, 8 * (at - 1), 8)
      cc(at)   == Unsigned(bytes, 8 * at + 3, 5)
      svc(at)  == Unsigned(bytes, 8 * at + 4, 4)
      a1 == 8
      a2 == IF id(a1) = 113 THEN a1 + 5 ELSE a1
      a3 == IF id(a2) = 114 THEN a2 + 2 + 3 * cc(a2) ELSE a2
      a4 == IF id(a3) = 115 THEN a3 + 2 + 7 * svc(a3) ELSE a3
      ok == /\ Len(bytes) >= 8
            /\ id(a1) = 113 => free(a1) >= 5
            /\ id(a2) = 114 => free(a2) >= 2 /\ free(a2 + 1) >= 3 * cc(a2)
            /\ id(a3) = 115 => free(a3) >= 3 /\ free(a3 + 1) >= 7 * svc(a3)
            /\ id(a4) = 116 => free(a4) >= 3
  IN [ok |-> ok, tc |-> IF id(a1) = 113 THEN a1 ELSE 0, cc |-> IF id(a2) = 114 THEN a2 ELSE 0,
      svc |-> IF id(a3) = 115 THEN a3 ELSE 0, footer |-> IF id(a4) = 116 THEN a4 ELSE 0]

\* cc_count has five bits, cc[] has MaxCC entries: one more is stored over the
\* first members of ccsvc.
Spilled(cc) ==
  IF Len(cc) <= MaxCC THEN NoServices
  ELSE [NoServices EXCEPT !.ccsvcinfo_id = cc[31].cc_valid, !.svc_info_start = cc[31].cc_type,
          !.svc_info_change = cc[31].cc_data_1, !.svc_info_complete = cc[31].cc_data_2]

\* parse_EIA_708B: the packet, or the empty set.  A packet without footer or with
\* a wrong checksum is delivered; checksum_valid tells.
parse_EIA_708B(bytes) ==
  LET s == Sections(bytes)
  IN IF ~s.ok THEN {}
     ELSE {[header |-> ReadHeader(bytes),
            tc     |-> IF s.tc = 0 THEN NoTimeCode ELSE ReadTimeCode(bytes, s.tc),
            ccdata |-> IF s.cc = 0 THEN [ccdata_id |-> 0, cc |-> <<>>] ELSE ReadCaptions(bytes, s.cc),
            ccsvc  |-> IF s.svc # 0 THEN ReadServices(bytes, s.svc)
                       ELSE IF s.cc # 0 THEN Spilled(ReadCaptions(bytes, s.cc).cc) ELSE NoServices,
            footer |-> IF s.footer = 0 THEN [cdp_footer_id |-> 0, cdp_ftr_sequence_cntr |-> 0]
                       ELSE ReadFooter(bytes, s.footer),
            checksum_valid |-> ByteSum(bytes, Len(bytes)) = 0]}

----------------------------------------------------------------------------
(* EIA-608                                                                 *)

klvanc_create_EIA_608 == [field |-> 0, line_offset |-> 0, cc_data_1 |-> 0, cc_data_2 |-> 0]

klvanc_convert_EIA_608_to_packetBytes(pkt) ==
  Packed(Write(<< <<IF pkt.field = 0 THEN 1 ELSE 0, 1>>, <<0, 2>>, <<pkt.line_offset, 5>>,
                  <<pkt.cc_data_1, 8>>, <<pkt.cc_data_2, 8>> >>))

\* The length of the payload is not looked at.
parse_EIA_608(bytes) ==
  LET w == Read(<< <<"first", 1>>, <<Skip, 2>>, <<"line_offset", 5>>, <<"cc_data_1", 8>>, <<"cc_data_2", 8>> >>,
                bytes, 0)
  IN [field |-> 1 - w.first, line_offset |-> w.line_offset,
      cc_data_1 |-> w.cc_data_1, cc_data_2 |-> w.cc_data_2]
=============================================================================
