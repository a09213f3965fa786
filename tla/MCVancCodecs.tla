----------------------------- MODULE MCVancCodecs -----------------------------
EXTENDS VancCodecs

ASSUME EvenWidths

Run(n, first) == [k \in 1 .. n |-> (first + k) % 256]

MCOperations ==
  {[opID |-> MO_SPLICE_REQUEST_DATA,
    body |-> [splice_insert_type |-> 1, splice_event_id |-> <<255, 0, 18, 52>>, unique_program_id |-> 4660,
              pre_roll_time |-> 40, brk_duration |-> 65535, avail_num |-> 1, avails_expected |-> 2,
              auto_return_flag |-> 1]],
   [opID |-> MO_SPLICE_NULL_REQUEST_DATA, body |-> NoBody],
   [opID |-> MO_TIME_SIGNAL_REQUEST_DATA, body |-> [pre_roll_time |-> 513]],
   [opID |-> MO_INSERT_DESCRIPTOR_REQUEST_DATA,
    body |-> [descriptor_count |-> 1, total_length |-> 4, descriptor_bytes |-> Run(4, 250)]],
   [opID |-> MO_INSERT_DESCRIPTOR_REQUEST_DATA,
    body |-> [descriptor_count |-> 9, total_length |-> 233, descriptor_bytes |-> Run(233, 7)]],
   [opID |-> MO_INSERT_DTMF_REQUEST_DATA,
    body |-> [pre_roll_time |-> 5, dtmf_length |-> 7, dtmf_char |-> Run(7, 40)]],
   [opID |-> MO_INSERT_AVAIL_DESCRIPTOR_REQUEST_DATA,
    body |-> [num_provider_avails |-> 2, provider_avail_id |-> <<Run(4, 0), Run(4, 128)>>]],
   [opID |-> MO_INSERT_SEGMENTATION_REQUEST_DATA,
    body |-> [event_id |-> Run(4, 3), event_cancel_indicator |-> 1, duration |-> 258, upid_type |-> 9,
              upid_length |-> 3, upid |-> Run(3, 97), rest |-> Run(9, 0)]],
   [opID |-> MO_PROPRIETARY_COMMAND_REQUEST_DATA,
    body |-> [proprietary_id |-> Run(4, 76), proprietary_command |-> 2, data_length |-> 0, proprietary_data |-> <<>>]],
   [opID |-> MO_INSERT_TIER_DATA, body |-> [tier_data |-> 61455]],
   [opID |-> MO_INSERT_TIME_DESCRIPTOR,
    body |-> [TAI_seconds |-> Run(6, 200), TAI_ns |-> Run(4, 9), UTC_offset |-> 37]],
   [opID |-> 768, body |-> NoBody]}

MCTimestamps ==
  {[time_type |-> 1, time |-> [UTC_seconds |-> Run(4, 90), UTC_microseconds |-> 770]],
   [time_type |-> 2, time |-> [hours |-> 23, minutes |-> 59, seconds |-> 58, frames |-> 29]],
   [time_type |-> 3, time |-> [GPI_number |-> 4, GPI_edge |-> 1]]}

MCRates == {<<1001, 30000>>, <<2, 100>>, <<1, 23>>}

Caption(n) == [cc_valid |-> 1, cc_type |-> n % 4, cc_data_1 |-> (7 * n) % 256, cc_data_2 |-> 255 - n]
CaptionService(n, b4) ==
  [caption_service_number |-> n, svc_data_byte |-> <<101, 110, 103, b4, 192, 255>>]
SetTC ==
  [NoTimeCode EXCEPT !.time_code_section_id = 113, !.tc_10hrs = 2, !.tc_1hrs = 3, !.tc_10min = 5,
     !.tc_1min = 9, !.tc_field_flag = 1, !.tc_10sec = 4, !.tc_1sec = 7, !.tc_10fr = 2, !.tc_1fr = 9]

MCCdpParts ==
  {[flags |-> f, tc |-> t, cc |-> c, svc |-> s] :
     f \in {0, 1} \X {1} \X {0, 1}, t \in {NoTimeCode, SetTC},
     c \in {<<>>, [n \in 1 .. 3 |-> Caption(n)]},
     s \in {<<>>, <<CaptionService(1, 193), CaptionService(2, 127)>>}}
  \cup {[flags |-> <<0, 1, 1>>, tc |-> NoTimeCode, cc |-> [n \in 1 .. 30 |-> Caption(n)],
         svc |-> [n \in 1 .. 15 |-> CaptionService(n, 128 + n)]],
        [flags |-> <<1, 0, 0>>, tc |-> [SetTC EXCEPT !.tc_10fr = 5, !.drop_frame_flag = 1], cc |-> <<>>, svc |-> <<>>]}

MCCaptions == [field : 0 .. 2, line_offset : {0, 31}, cc_data_1 : {128, 20}, cc_data_2 : {44}]

MCTimeCodes ==
  {[klvanc_alloc_SMPTE_12_2 EXCEPT !.dbb1 = d, !.frames = 29, !.seconds = 58, !.minutes = 7, !.hours = 23,
      !.flag14 = f, !.flag15 = IF v = 0 THEN 0 ELSE f, !.flag35 = 1 - f, !.flag55 = f,
      !.flag74 = IF v = 0 THEN 0 ELSE f, !.flag75 = f, !.vitc_line_select = v,
      !.line_duplication_flag = f, !.user_bits_process_flag = 1 - f] :
     d \in {0, 1, 2, 6}, f \in {0, 1}, v \in {0, 25}}

MCPackTimes ==
  {<< <<16 * 1 + 9 + 64, 128 + 16 * 5 + 8, 16 * 4 + 1, 128 + 16 * 2 + 3>>, r[1], r[2]>> :
     r \in {<<1, 25>>, <<1001, 30000>>}} \cup {<< <<255, 0, 175, 0>>, 1, 30>>}

MCBars ==
  {[aspectRatio |-> a, barDataFlags |-> b, top |-> 10, bottom |-> 65535, left |-> 258, right |-> 3] :
     a \in {ASPECT_UNDEFINED, ASPECT_16x9}, b \in {BARS_NONE, BARS_LEFTRIGHT, BARS_TOPBOTTOM}}

MCCounters == {Run(8, 248), Run(8, 0)}

Descriptor(k) == [line |-> 9 + k, field |-> k % 2, data |-> Run(45, 60 * k)]
MCSdpPackets ==
  {[format_code |-> 2, sequence_counter |-> 258,
    descriptors |-> [k \in 1 .. 5 |-> IF k \in used THEN Descriptor(k) ELSE NoDescriptor]] :
     used \in {{}, {1}, {2, 4}, {1, 2, 3, 4, 5}}}

Hdr1 == [frame_type |-> 0, frame_length |-> 26,
         data |-> [primaries |-> Run(12, 30), white_point_x |-> 15635, white_point_y |-> 16450,
                   max_display_mastering_luminance |-> Run(4, 5), min_display_mastering_luminance |-> Run(4, 1)]]
Hdr2 == [frame_type |-> 1, frame_length |-> 6,
         data |-> [max_content_light_level |-> 1000, max_pic_average_light_level |-> 400]]
Hdr6(n) == [frame_type |-> 6, frame_length |-> n, data |-> <<>>]
MCHdrPackets ==
  {[frames |-> s] : s \in {<<Hdr1>>, <<Hdr1, Hdr2>>, <<Hdr6(2), Hdr2>>, <<Hdr2, Hdr6(9), Hdr1>>,
                           [k \in 1 .. 10 |-> IF k % 2 = 1 THEN Hdr2 ELSE Hdr6(k)]}}
=============================================================================
