--------------------------- MODULE Scte104Messages ---------------------------
(***************************************************************************)
(* Encoding and decoding of SCTE-104 messages (core-packet-scte_104.c).    *)
(*                                                                         *)
(* A multiple operation message is a header, a time stamp and a list of    *)
(* operations.  Each gen_* writes the body of one kind of operation, the   *)
(* parse_* of that kind reads it back; klvanc_convert_SCTE_104_to_         *)
(* packetBytes and MessageOf (the second half of parse_SCTE_104) do so for *)
(* a whole message.  How a message is collected from several packets is    *)
(* the subject of Scte104Fragments.                                        *)
(*                                                                         *)
(* An operation is a record: opID, the decoded members body, and, once it  *)
(* has been received, data_length and the bytes data.  Arrays in a body    *)
(* are cut to the part their length member names.                          *)
(***************************************************************************)
EXTENDS Fields, SequencesExt

MO_SPLICE_REQUEST_DATA                  == 257   \* 0x101
MO_SPLICE_NULL_REQUEST_DATA             == 258
MO_TIME_SIGNAL_REQUEST_DATA             == 260
MO_INSERT_DESCRIPTOR_REQUEST_DATA       == 264
MO_INSERT_DTMF_REQUEST_DATA             == 265
MO_INSERT_AVAIL_DESCRIPTOR_REQUEST_DATA == 266
MO_INSERT_SEGMENTATION_REQUEST_DATA     == 267
MO_PROPRIETARY_COMMAND_REQUEST_DATA     == 268
MO_INSERT_TIER_DATA                     == 271
MO_INSERT_TIME_DESCRIPTOR               == 272

MultipleOperation == 65535  \* the opID of a multiple operation message
MaxArray == 255             \* descriptor_bytes, upid and proprietary_data; MAX_DESC_SIZE
MaxMessage == 2000          \* payload[] of klvanc_packet_scte_104_s
Huge == 2^24                \* stands for 2^32 - 1: an unsigned 0 - 1

----------------------------------------------------------------------------
(* The structs: the bits of each member's value.  (Members the decoder reads *)
(* from eight bits are mostly unsigned int in C.)                          *)

klvanc_splice_request_data ==
  [splice_insert_type |-> 8, splice_event_id |-> 32, unique_program_id |-> 16, pre_roll_time |-> 16,
   brk_duration |-> 16, avail_num |-> 8, avails_expected |-> 8, auto_return_flag |-> 8]
klvanc_time_signal_request_data == [pre_roll_time |-> 16]
klvanc_avail_descriptor_request_data == [num_provider_avails |-> 8]
klvanc_insert_descriptor_request_data == [descriptor_count |-> 8, total_length |-> 24]
klvanc_dtmf_descriptor_request_data == [pre_roll_time |-> 8, dtmf_length |-> 8]
klvanc_segmentation_descriptor_request_data ==
  [event_id |-> 32, event_cancel_indicator |-> 8, duration |-> 16, upid_type |-> 8, upid_length |-> 8,
   rest |-> 72]
klvanc_time_descriptor_data == [TAI_seconds |-> 48, TAI_ns |-> 32, UTC_offset |-> 16]
klvanc_proprietary_command_request_data ==
  [proprietary_id |-> 32, proprietary_command |-> 8, data_length |-> 16]
klvanc_tier_data == [tier_data |-> 16]
klvanc_multiple_operation_message ==
  [rsvd |-> 16, messageSize |-> 16, protocol_version |-> 8, AS_index |-> 8, message_number |-> 8,
   DPI_PID_index |-> 16, SCTE35_protocol_version |-> 8]

OperationStruct(opID) ==
  CASE opID = MO_SPLICE_REQUEST_DATA                  -> klvanc_splice_request_data
    [] opID = MO_TIME_SIGNAL_REQUEST_DATA             -> klvanc_time_signal_request_data
    [] opID = MO_INSERT_DESCRIPTOR_REQUEST_DATA       -> klvanc_insert_descriptor_request_data
    [] opID = MO_INSERT_DTMF_REQUEST_DATA             -> klvanc_dtmf_descriptor_request_data
    [] opID = MO_INSERT_AVAIL_DESCRIPTOR_REQUEST_DATA -> klvanc_avail_descriptor_request_data
    [] opID = MO_INSERT_SEGMENTATION_REQUEST_DATA     -> klvanc_segmentation_descriptor_request_data
    [] opID = MO_PROPRIETARY_COMMAND_REQUEST_DATA     -> klvanc_proprietary_command_request_data
    [] opID = MO_INSERT_TIER_DATA                     -> klvanc_tier_data
    [] opID = MO_INSERT_TIME_DESCRIPTOR               -> klvanc_time_descriptor_data
    [] OTHER                                          -> <<>>

----------------------------------------------------------------------------
(* One operation.  A body is encoded into bits and decoded from bytes.     *)

\* Mutant: two neighbouring counters change places.
SpliceRequestSwapped(d) ==
  Write(<< <<d.splice_insert_type, 8>>, <<d.splice_event_id, 32>>, <<d.unique_program_id, 16>>,
           <<d.brk_duration, 16>>, <<d.pre_roll_time, 16>>, <<d.avail_num, 8>>,
           <<d.avails_expected, 8>>, <<d.auto_return_flag, 8>> >>)

gen_splice_request_data(d) ==
  Write(<< <<d.splice_insert_type, 8>>, <<d.splice_event_id, 32>>, <<d.unique_program_id, 16>>,
           <<d.pre_roll_time, 16>>, <<d.brk_duration, 16>>, <<d.avail_num, 8>>,
           <<d.avails_expected, 8>>, <<d.auto_return_flag, 8>> >>)

\* An unknown splice_insert_type is reported and kept.
parse_splice_request_data(data) ==
  Read(<< <<"splice_insert_type", 8>>, <<"splice_event_id", 32>>, <<"unique_program_id", 16>>,
          <<"pre_roll_time", 16>>, <<"brk_duration", 16>>, <<"avail_num", 8>>,
          <<"avails_expected", 8>>, <<"auto_return_flag", 8>> >>, data, 0)

gen_splice_null_request_data(d) == <<>>

gen_time_signal_request_data(d) == Write(<< <<d.pre_roll_time, 16>> >>)
parse_time_signal_request_data(data) == Read(<< <<"pre_roll_time", 16>> >>, data, 0)

gen_descriptor_request_data(d) == Write(<< <<d.descriptor_count, 8>> >>) \o WriteBytes(d.descriptor_bytes)

\* descriptor_bytes[] is filled only when it is longer than the descriptors.
parse_descriptor_request_data(data, descriptor_size) ==
  LET size == IF descriptor_size < 0 THEN Huge ELSE descriptor_size
  IN [descriptor_count |-> Unsigned(data, 0, 8), total_length |-> size,
      descriptor_bytes |-> IF size < MaxArray THEN ReadBytes(data, 8, size) ELSE <<>>]

gen_dtmf_request_data(d) == Write(<< <<d.pre_roll_time, 8>>, <<d.dtmf_length, 8>> >>) \o WriteBytes(d.dtmf_char)
parse_dtmf_request_data(data) ==
  LET head == Read(<< <<"pre_roll_time", 8>>, <<"dtmf_length", 8>> >>, data, 0)
  IN [pre_roll_time |-> head.pre_roll_time, dtmf_length |-> head.dtmf_length,
      dtmf_char |-> IF head.dtmf_length <= 7 THEN ReadBytes(data, 16, head.dtmf_length) ELSE <<>>]

gen_avail_request_data(d) ==
  Write(<< <<d.num_provider_avails, 8>> >>
        \o [k \in 1 .. d.num_provider_avails |-> <<d.provider_avail_id[k], 32>>])
parse_avail_request_data(data) ==
  LET n == Unsigned(data, 0, 8)
  IN [num_provider_avails |-> n,
      provider_avail_id |-> [k \in 1 .. n |-> Value(data, 8 + 32 * (k - 1), 32)]]

gen_segmentation_request_data(d) ==
  Write(<< <<d.event_id, 32>>, <<d.event_cancel_indicator, 8>>, <<d.duration, 16>>,
           <<d.upid_type, 8>>, <<d.upid_length, 8>> >>)
  \o WriteBytes(d.upid)
  \o Write([k \in 1 .. 9 |-> <<d.rest[k], 8>>])

\* rest stands for type_id, segment_num, segments_expected,
\* duration_extension_frames, delivery_not_restricted_flag,
\* web_delivery_allowed_flag, no_regional_blackout_flag, archive_allowed_flag
\* and device_restrictions.  (upid_length, eight bits, never exceeds upid[255].)
parse_segmentation_request_data(data) ==
  LET head == Read(<< <<"event_id", 32>>, <<"event_cancel_indicator", 8>>, <<"duration", 16>>,
                      <<"upid_type", 8>>, <<"upid_length", 8>> >>, data, 0)
      n == head.upid_length
  IN [event_id |-> head.event_id, event_cancel_indicator |-> head.event_cancel_indicator,
      duration |-> head.duration, upid_type |-> head.upid_type, upid_length |-> n,
      upid |-> ReadBytes(data, 72, n), rest |-> ReadBytes(data, 72 + 8 * n, 9)]

gen_proprietary_command_request_data(d) ==
  Write(<< <<d.proprietary_id, 32>>, <<d.proprietary_command, 8>> >>) \o WriteBytes(d.proprietary_data)

\* descriptor_size is at least 5 here; a smaller one makes memcpy run for
\* nearly 2^32 bytes (Crashes).
parse_proprietary_command_request_data(data, descriptor_size) ==
  [proprietary_id |-> Value(data, 0, 32), proprietary_command |-> Unsigned(data, 32, 8),
   data_length |-> descriptor_size - 5, proprietary_data |-> ReadBytes(data, 40, descriptor_size - 5)]

\* The top four bits are zero.
gen_tier_data(d) == Write(<< <<d.tier_data % 4096, 16>> >>)
parse_tier_data(data) == [tier_data |-> Unsigned(data, 0, 16) % 4096]

gen_time_descriptor(d) == Write(<< <<d.TAI_seconds, 48>>, <<d.TAI_ns, 32>>, <<d.UTC_offset, 16>> >>)
parse_time_descriptor(data) ==
  Read(<< <<"TAI_seconds", 48>>, <<"TAI_ns", 32>>, <<"UTC_offset", 16>> >>, data, 0)

----------------------------------------------------------------------------
(* A message                                                               *)

NoBody == [none |-> 0]

\* The operations klvanc_convert_SCTE_104_to_packetBytes has a case for.
Known == {MO_SPLICE_REQUEST_DATA, MO_SPLICE_NULL_REQUEST_DATA, MO_TIME_SIGNAL_REQUEST_DATA,
          MO_INSERT_DESCRIPTOR_REQUEST_DATA, MO_INSERT_DTMF_REQUEST_DATA,
          MO_INSERT_AVAIL_DESCRIPTOR_REQUEST_DATA, MO_INSERT_SEGMENTATION_REQUEST_DATA,
          MO_PROPRIETARY_COMMAND_REQUEST_DATA, MO_INSERT_TIER_DATA, MO_INSERT_TIME_DESCRIPTOR}

Encoded(op) ==
  CASE op.opID = MO_SPLICE_REQUEST_DATA                  -> gen_splice_request_data(op.body)
    [] op.opID = MO_SPLICE_NULL_REQUEST_DATA             -> gen_splice_null_request_data(op.body)
    [] op.opID = MO_TIME_SIGNAL_REQUEST_DATA             -> gen_time_signal_request_data(op.body)
    [] op.opID = MO_INSERT_DESCRIPTOR_REQUEST_DATA       -> gen_descriptor_request_data(op.body)
    [] op.opID = MO_INSERT_DTMF_REQUEST_DATA             -> gen_dtmf_request_data(op.body)
    [] op.opID = MO_INSERT_AVAIL_DESCRIPTOR_REQUEST_DATA -> gen_avail_request_data(op.body)
    [] op.opID = MO_INSERT_SEGMENTATION_REQUEST_DATA     -> gen_segmentation_request_data(op.body)
    [] op.opID = MO_PROPRIETARY_COMMAND_REQUEST_DATA     -> gen_proprietary_command_request_data(op.body)
    [] op.opID = MO_INSERT_TIER_DATA                     -> gen_tier_data(op.body)
    [] op.opID = MO_INSERT_TIME_DESCRIPTOR               -> gen_time_descriptor(op.body)

Decoded(opID, data) ==
  CASE opID = MO_SPLICE_REQUEST_DATA                  -> parse_splice_request_data(data)
    [] opID = MO_TIME_SIGNAL_REQUEST_DATA             -> parse_time_signal_request_data(data)
    [] opID = MO_INSERT_DESCRIPTOR_REQUEST_DATA       -> parse_descriptor_request_data(data, Len(data) - 1)
    [] opID = MO_INSERT_AVAIL_DESCRIPTOR_REQUEST_DATA -> parse_avail_request_data(data)
    [] opID = MO_INSERT_DTMF_REQUEST_DATA             -> parse_dtmf_request_data(data)
    [] opID = MO_INSERT_SEGMENTATION_REQUEST_DATA     -> parse_segmentation_request_data(data)
    [] opID = MO_PROPRIETARY_COMMAND_REQUEST_DATA     ->
         parse_proprietary_command_request_data(data, Len(data))
    [] opID = MO_INSERT_TIER_DATA                     -> parse_tier_data(data)
    [] opID = MO_INSERT_TIME_DESCRIPTOR               -> parse_time_descriptor(data)
    [] OTHER                                          -> NoBody

Crashes(opID, data) == opID = MO_PROPRIETARY_COMMAND_REQUEST_DATA /\ Len(data) < 5

\* A time type that is neither 1, 2 nor 3 carries no time.
TimeLayout(time_type) ==
  CASE time_type = 1 -> << <<"UTC_seconds", 32>>, <<"UTC_microseconds", 16>> >>
    [] time_type = 2 -> << <<"hours", 8>>, <<"minutes", 8>>, <<"seconds", 8>>, <<"frames", 8>> >>
    [] time_type = 3 -> << <<"GPI_number", 8>>, <<"GPI_edge", 8>> >>
    [] OTHER         -> << >>

GenTimestamp(ts) ==
  Write(<< <<ts.time_type, 8>> >>)
  \o (CASE ts.time_type = 1 -> Write(<< <<ts.time.UTC_seconds, 32>>, <<ts.time.UTC_microseconds, 16>> >>)
        [] ts.time_type = 2 -> Write(<< <<ts.time.hours, 8>>, <<ts.time.minutes, 8>>,
                                        <<ts.time.seconds, 8>>, <<ts.time.frames, 8>> >>)
        [] ts.time_type = 3 -> Write(<< <<ts.time.GPI_number, 8>>, <<ts.time.GPI_edge, 8>> >>)
        [] OTHER            -> <<>>)

parse_mom_timestamp(bytes, p) ==
  LET time_type == Unsigned(bytes, 8 * p, 8)
  IN [time_type |-> time_type, time |-> Read(TimeLayout(time_type), bytes, 8 * (p + 1))]

TimestampBytes(time_type) ==
  1 + (CASE time_type = 1 -> 6 [] time_type = 2 -> 4 [] time_type = 3 -> 2 [] OTHER -> 0)

HeaderLayout ==
  << <<"rsvd", 16>>, <<"messageSize", 16>>, <<"protocol_version", 8>>, <<"AS_index", 8>>,
     <<"message_number", 8>>, <<"DPI_PID_index", 16>>, <<"SCTE35_protocol_version", 8>> >>

----------------------------------------------------------------------------
(* The application's side                                                  *)

klvanc_alloc_SCTE_104(opId) ==
  [opID |-> opId,
   mo_msg |-> [rsvd |-> IF opId = MultipleOperation THEN 65535 ELSE 0, messageSize |-> 0,
               protocol_version |-> 0, AS_index |-> 0, message_number |-> 0,
               DPI_PID_index |-> 0, SCTE35_protocol_version |-> 0],
   timestamp |-> [time_type |-> 0, time |-> << >>],
   ops |-> <<>>]

\* num_ops, the length of ops, is an unsigned char.
klvanc_SCTE_104_Add_MOM_Op(pkt, op) == [pkt EXCEPT !.ops = Append(@, op)]

\* num_ops counts every operation, also those it has no encoding for and leaves
\* out.  The size of the message is filled in at the end.
klvanc_convert_SCTE_104_to_packetBytes(pkt) ==
  LET m == pkt.mo_msg
      WriteOp(op) ==
        LET body == Packed(Encoded(op))
        IN  Write(<< <<op.opID, 16>>, <<Len(body), 16>> >>) \o WriteBytes(body)
      ops == FlattenSeq([k \in DOMAIN pkt.ops |->
                           IF pkt.ops[k].opID \in Known THEN WriteOp(pkt.ops[k]) ELSE <<>>])
      bytes == Packed(Write(<< <<65535, 16>>, <<m.messageSize, 16>>, <<m.protocol_version, 8>>,
                               <<m.AS_index, 8>>, <<m.message_number, 8>>, <<m.DPI_PID_index, 16>>,
                               <<m.SCTE35_protocol_version, 8>> >>)
                      \o GenTimestamp(pkt.timestamp) \o Write(<< <<Len(pkt.ops), 8>> >>) \o ops)
  IN [bytes EXCEPT ![3] = Len(bytes) \div 256, ![4] = Len(bytes) % 256]

\* The payload descriptor of a message in one packet, and the message; nothing of
\* one that is longer than a fragmented message may be.
klvanc_convert_SCTE_104_packetbytes_to_SMPTE_2010(bytes) ==
  IF Len(bytes) > 2000 THEN <<>> ELSE <<8>> \o bytes

----------------------------------------------------------------------------
(* The receiver's side                                                     *)

\* Mutants: a message that is exactly as long as its size is refused; the size is
\* not compared with what arrived.
TooShortByOne(bytes, length) == length < 10 \/ Unsigned(bytes, 16, 16) >= length
TooShortUnchecked(bytes, length) == length < 10

TooShort(bytes, length) == length < 10 \/ Unsigned(bytes, 16, 16) > length

\* The operations, from byte p on.  The test for the end of the payload does not
\* count the four bytes in front of the data.
ParseOps(bytes, length, num_ops, p) ==
  LET read[i \in 0 .. num_ops] ==
        IF i = 0 THEN [p |-> p, ops |-> <<>>, ok |-> TRUE]
        ELSE LET done == read[i - 1]
                 opID == Unsigned(bytes, 8 * done.p, 16)
                 data_length == Unsigned(bytes, 8 * done.p + 16, 16)
                 data == ReadBytes(bytes, 8 * done.p + 32, data_length)
             IN IF ~done.ok THEN done
                ELSE IF done.p + data_length > length \/ Crashes(opID, data)
                     THEN [done EXCEPT !.ok = FALSE]
                     ELSE [p |-> done.p + 4 + data_length,
                           ops |-> Append(done.ops, [opID |-> opID, body |-> Decoded(opID, data)]),
                           ok |-> TRUE]
  IN read[num_ops]

\* parse_SCTE_104 behind the reassembly: the message, or the empty set when it is
\* not delivered.  payload is what the packet carries, its words to eight bits.
MessageOf(payload) ==
  LET bytes  == SubSeq(payload, 2, IF Len(payload) > MaxMessage THEN 1 + MaxMessage ELSE Len(payload))
      length == IF payload = <<>> THEN Huge ELSE Len(payload) - 1
      ts     == parse_mom_timestamp(bytes, 10)
      p      == 10 + TimestampBytes(ts.time_type)
      parsed == ParseOps(bytes, length, Unsigned(bytes, 8 * p, 8), p + 1)
  IN IF Unsigned(bytes, 0, 16) # MultipleOperation \/ TooShort(bytes, length) \/ ~parsed.ok THEN {}
     ELSE {[opID |-> MultipleOperation, mo_msg |-> Read(HeaderLayout, bytes, 0),
            timestamp |-> ts, ops |-> parsed.ops]}
=============================================================================
