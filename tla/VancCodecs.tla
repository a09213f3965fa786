------------------------------ MODULE VancCodecs ------------------------------
(***************************************************************************)
(* A packet from one application to another: its struct is filled in,      *)
(* turned into the words of a frame (klvanc_convert_*_to_words), put on a  *)
(* line of v210 samples, taken off it, decoded by the parser of its        *)
(* DID/SDID, and sent on again by a relay.                                 *)
(*                                                                         *)
(* The codecs are operators of Scte104Messages, CaptionCodecs, TimeCode    *)
(* and SmallCodecs, the samples those of PixelFormats.  Subtitling and HDR *)
(* packets have a decoder only; their senders stand for other equipment.   *)
(* Such equipment may also send a payload that is too short in a frame     *)
(* that is well formed (Shorten).                                          *)
(***************************************************************************)
EXTENDS VancWords, Scte104Messages, CaptionCodecs, TimeCode, SmallCodecs, PixelFormats

CONSTANTS
  Operations,   \* SCTE-104 operations: [opID, body]
  Timestamps,   \* SCTE-104 time stamps: [time_type, time]
  Rates,        \* frame rates an application sets: <<num, den>>
  CdpParts,     \* sections of a caption packet: [flags, tc, cc, svc]
  Captions,     \* EIA-608 packets
  TimeCodes,    \* SMPTE 12-2 packets
  PackTimes,    \* DV time codes: <<bytes, num, den>>
  AfdValues,    \* values given to klvanc_set_AFD_val
  Bars,         \* the other members of an AFD packet
  Counters,     \* counter values
  SdpPackets,   \* subtitling packets of other equipment
  HdrPackets,   \* HDR packets of other equipment
  MaxOps,       \* bound: operations in a message
  Cuts,         \* bound: bytes missing at the end of a payload
  Rests         \* bound: samples of a line behind its last whole group of six

ASSUME CodecsAssumption ==
  MaxOps \in Nat /\ Cuts \subseteq Nat \ {0} /\ Rests \subseteq 0 .. 5

\* A line has an even number of samples: the nv20 converter leaves out the last
\* sample of an odd one.
EvenWidths == \A rest \in Rests : rest % 2 = 0

Byte == 0 .. 255

\* The arrays of the structs are arrays.
ASSUME ArraysAssumption ==
  /\ \A op \in Operations :
       /\ op.opID = MO_INSERT_DESCRIPTOR_REQUEST_DATA => op.body.descriptor_bytes \in Seq(Byte)
       /\ op.opID = MO_INSERT_DTMF_REQUEST_DATA => op.body.dtmf_char \in Seq(Byte)
       /\ op.opID = MO_INSERT_AVAIL_DESCRIPTOR_REQUEST_DATA => op.body.num_provider_avails \in Byte
       /\ op.opID = MO_INSERT_SEGMENTATION_REQUEST_DATA => op.body.upid \in Seq(Byte)
       /\ op.opID = MO_PROPRIETARY_COMMAND_REQUEST_DATA => op.body.proprietary_data \in Seq(Byte)
  /\ \A s \in CdpParts :
       /\ s.cc \in Seq([cc_valid : Byte, cc_type : Byte, cc_data_1 : Byte, cc_data_2 : Byte])
       /\ s.svc \in Seq([caption_service_number : Byte, svc_data_byte : Seq(Byte)])
  /\ \A pkt \in SdpPackets : \A k \in 1 .. 5 : pkt.descriptors[k].data \in Seq(Byte)
  /\ \A pkt \in HdrPackets :
       /\ DOMAIN pkt.frames \in {1 .. n : n \in 0 .. MAX_S2108_1_FRAMES}
       /\ \A k \in DOMAIN pkt.frames : pkt.frames[k].frame_length \in Byte

\* Other equipment's HDR metadata, which the parser takes at its word.
ASSUME HdrAssumption ==
  \A pkt \in HdrPackets : \A k \in DOMAIN pkt.frames : StatesItsLength(pkt.frames[k])

VARIABLES
  codec,  \* the kind of packet
  stage,  \* how far it has come
  app,    \* the application's struct
  cut,    \* bytes missing at the end of the payload
  path,   \* how the line is converted
  line,   \* the words of the frame, of the v210 line, of the line that arrives
  got,    \* what the callback got: empty or one struct
  relayed \* the payload a relay makes of it

vars == <<codec, stage, app, cut, path, line, got, relayed>>

----------------------------------------------------------------------------
(* The table of decoders: DID and SDID of each kind of packet.             *)

Did ==
  [counter |-> <<64, 254>>, afd |-> <<65, 5>>, scte104 |-> <<65, 7>>, smpte12_2 |-> <<96, 96>>,
   s2108 |-> <<65, 12>>, eia708 |-> <<97, 1>>, eia608 |-> <<97, 2>>, sdp |-> <<67, 2>>]

Created ==
  [counter |-> klvanc_create_KL_U64LE_COUNTER, afd |-> klvanc_create_AFD,
   scte104 |-> klvanc_alloc_SCTE_104(MultipleOperation), smpte12_2 |-> klvanc_alloc_SMPTE_12_2,
   eia708 |-> klvanc_create_eia708_cdp, eia608 |-> klvanc_create_EIA_608]

\* The payload of a packet.
Payload(c, pkt) ==
  CASE c = "scte104"   -> klvanc_convert_SCTE_104_packetbytes_to_SMPTE_2010(
                            klvanc_convert_SCTE_104_to_packetBytes(pkt))
    [] c = "eia708"    -> klvanc_convert_EIA_708B_to_packetBytes(pkt)
    [] c = "eia608"    -> klvanc_convert_EIA_608_to_packetBytes(pkt)
    [] c = "smpte12_2" -> klvanc_convert_SMPTE_12_2_to_packetBytes(pkt)
    [] c = "afd"       -> klvanc_convert_AFD_to_packetBytes(pkt)
    [] c = "counter"   -> CounterBytes(pkt)
    [] c = "sdp"       -> SdpBytes(pkt)
    [] c = "s2108"     -> S2108Bytes(pkt)

\* parseByType: what the parser of a kind hands to the callback.
parseByType(c, bytes) ==
  CASE c = "scte104"   -> MessageOf(bytes)
    [] c = "eia708"    -> parse_EIA_708B(bytes)
    [] c = "eia608"    -> {parse_EIA_608(bytes)}
    [] c = "smpte12_2" -> parse_SMPTE_12_2(bytes)
    [] c = "afd"       -> {parse_AFD(bytes)}
    [] c = "counter"   -> {parse_KL_U64LE_COUNTER(bytes)}
    [] c = "sdp"       -> parse_SDP(bytes)
    [] c = "s2108"     -> {parse_SMPTE_2108_1(bytes)}

Framed(c, bytes) == klvanc_sdi_create_payload(Did[c][2], Did[c][1], bytes)

----------------------------------------------------------------------------
(* The application                                                         *)

Init ==
  /\ codec = "none" /\ stage = "idle" /\ app = <<>> /\ cut = 0 /\ path = "none"
  /\ line = <<>> /\ got = {} /\ relayed = <<>>

Building(c) == stage = "build" /\ codec = c
Fill(pkt) == app' = pkt /\ UNCHANGED <<codec, stage, cut, path, line, got, relayed>>

Create(c) ==
  /\ stage = "idle"
  /\ stage' = "build" /\ codec' = c /\ app' = Created[c]
  /\ UNCHANGED <<cut, path, line, got, relayed>>

\* The packets of other equipment, and the time code made of a DV time code.
Supply(c, pkt) ==
  /\ stage = "idle"
  /\ stage' = "build" /\ codec' = c /\ app' = pkt
  /\ UNCHANGED <<cut, path, line, got, relayed>>

SetTimestamp ==
  /\ Building("scte104") /\ app.ops = <<>>
  /\ \E ts \in Timestamps : Fill([app EXCEPT !.timestamp = ts])

AddOperation ==
  /\ Building("scte104") /\ Len(app.ops) < MaxOps
  /\ \E op \in Operations : Fill(klvanc_SCTE_104_Add_MOM_Op(app, op))

SetFramerate ==
  /\ Building("eia708")
  /\ \E r \in Rates : \E pkt \in klvanc_set_framerate_EIA_708B(app, r[1], r[2]) : Fill(pkt)

\* The application fills the sections and raises their flags.
SetSections ==
  /\ Building("eia708") /\ app.header.cdp_hdr_sequence_cntr = 0
  /\ \E s \in CdpParts :
       Fill([app EXCEPT !.header = [@ EXCEPT !.time_code_present = s.flags[1],
                                              !.ccdata_present = s.flags[2], !.svcinfo_present = s.flags[3]],
                         !.tc = s.tc, !.ccdata.cc = s.cc, !.ccsvc.svc = s.svc])

Finalize ==
  /\ Building("eia708")
  /\ \E n \in {1, 65535} : Fill(klvanc_finalize_EIA_708B(app, n))

SetCaption == Building("eia608") /\ \E pkt \in Captions : Fill(pkt)
SetTime    == Building("smpte12_2") /\ \E pkt \in TimeCodes : Fill(pkt)
SetCounter == Building("counter") /\ \E v \in Counters : Fill([counter |-> v])
SetBars    == Building("afd") /\ \E b \in Bars : Fill(b @@ app)
SetAfd     == Building("afd") /\ \E v \in AfdValues : \E pkt \in klvanc_set_AFD_val(app, v) : Fill(pkt)

FromST370 ==
  \E t \in PackTimes : Supply("smpte12_2", klvanc_create_SMPTE_12_2_from_ST370(t[1], t[2], t[3]))

\* klvanc_convert_*_to_words.  An empty payload makes no frame.
ToWords ==
  /\ stage = "build"
  /\ LET bytes == Payload(codec, app)
     IN  IF bytes = <<>> THEN stage' = "refused" /\ UNCHANGED line
         ELSE stage' = "framed" /\ line' = Framed(codec, bytes)
  /\ UNCHANGED <<codec, app, cut, path, got, relayed>>

----------------------------------------------------------------------------
(* On the way                                                              *)

\* Other equipment sends the payload without its last bytes.
Shorten ==
  /\ stage = "framed" /\ cut = 0
  /\ \E k \in Cuts :
       LET bytes == Payload(codec, app)
       IN /\ k < Len(bytes)
          /\ cut' = k /\ line' = Framed(codec, SubSeq(bytes, 1, Len(bytes) - k))
  /\ UNCHANGED <<codec, stage, app, path, got, relayed>>

\* The width of a line that has rest samples behind its groups of six, and the
\* samples: the frame, then black.
Width(n, rest) == CHOOSE w \in n .. n + 5 : w % 6 = rest
Samples10(words, width) == [k \in 1 .. width |-> IF k <= Len(words) THEN words[k] ELSE Black]

\* The line goes out as v210.  In luma the chroma is neutral; a line of standard
\* definition has the words in luma and chroma alike.
ToLine ==
  /\ stage = "framed" /\ path = "none"
  /\ \E p \in {"nv20", "planar", "uyvy"}, rest \in Rests :
       LET width == Width(Len(line), rest)
           ten   == Samples10(line, width)
       IN /\ path' = p
          /\ line' = [width |-> width, v210 |-> IF p = "uyvy" THEN klvanc_uyvy_to_v210(ten, width)
                                                ELSE klvanc_y10_to_v210(ten, width)]
  /\ stage' = "carried"
  /\ UNCHANGED <<codec, app, cut, got, relayed>>

\* v210 is read in whole groups of four words.
Group(words) == words \o [k \in 1 .. (4 - (Len(words) % 4)) % 4 |-> <<Blank, Black, Blank>>]

FromLine ==
  /\ stage = "carried"
  /\ LET v210 == Group(line.v210)
     IN \/ path = "nv20" /\ line' \in klvanc_v210_line_to_nv20_c(v210, 6 * line.width, line.width)
        \/ path = "planar" /\ line' = klvanc_v210_planar_unpack_c(v210, line.width).y
        \/ path = "uyvy" /\ line' = SubSeq(klvanc_v210_line_to_uyvy_c(v210, (line.width + 1) \div 2), 1, line.width)
  /\ stage' = "arrived"
  /\ UNCHANGED <<codec, app, cut, path, got, relayed>>

----------------------------------------------------------------------------
(* The receiver                                                            *)

Count == sanitizeWord(line[6])

\* klvanc_packet_parse finds the frame at the start of the line, and its checksum
\* must hold.  A line that the planar converter has cut within the frame is not
\* received here: what parse reads behind the end of a line is in PacketParser.
Receive ==
  /\ stage = "arrived" /\ Len(line) >= 6 /\ Len(line) >= Count + 7
  /\ got' = IF ~klvanc_checksum_is_valid(SubSeq(line, 4, Count + 7)) THEN {}
            ELSE LET c == CHOOSE d \in DOMAIN Did :
                            Did[d] = <<sanitizeWord(line[4]), sanitizeWord(line[5])>>
                 IN  parseByType(c, [k \in 1 .. Count |-> sanitizeWord(line[6 + k])])
  /\ stage' = "received"
  /\ UNCHANGED <<codec, app, cut, path, line, relayed>>

\* The callback builds a packet of what it got.
Relay ==
  /\ stage = "received" /\ got # {} /\ codec \in DOMAIN Created
  /\ \E pkt \in got : relayed' = Payload(codec, pkt)
  /\ stage' = "relayed"
  /\ UNCHANGED <<codec, app, cut, path, line, got>>

Next ==
  \/ \E c \in DOMAIN Created : Create(c)
  \/ \E pkt \in SdpPackets : Supply("sdp", pkt)
  \/ \E pkt \in HdrPackets : Supply("s2108", pkt)
  \/ FromST370
  \/ SetTimestamp \/ AddOperation \/ SetFramerate \/ SetSections \/ Finalize
  \/ SetCaption \/ SetTime \/ SetCounter \/ SetBars \/ SetAfd
  \/ ToWords \/ Shorten \/ ToLine \/ FromLine \/ Receive \/ Relay

Spec == Init /\ [][Next]_vars

----------------------------------------------------------------------------
(* Properties *)

IsPacket(c, pkt) ==
  CASE c = "scte104" -> /\ IsStruct(pkt.mo_msg, klvanc_multiple_operation_message)
                        /\ pkt.timestamp.time_type \in 0 .. 255 /\ Len(pkt.ops) \in 0 .. 255
                        /\ \A k \in DOMAIN pkt.ops : IsStruct(pkt.ops[k].body, OperationStruct(pkt.ops[k].opID))
    [] c = "eia708" -> /\ IsStruct(pkt.header, klvanc_packet_eia_708b_cdp_header)
                       /\ IsStruct(pkt.tc, klvanc_packet_eia_708b_time_code_section)
                       /\ \A k \in DOMAIN pkt.ccdata.cc : IsStruct(pkt.ccdata.cc[k], klvanc_packet_eia_708b_ccdata_entry)
                       /\ \A k \in DOMAIN pkt.ccsvc.svc :
                            LET s == pkt.ccsvc.svc[k]
                            IN  IsStruct(Service(s.svc_data_byte) @@ s, klvanc_packet_eia_708b_ccsvcinfo_entry)
                       /\ IsStruct(pkt.footer, klvanc_packet_eia_708b_cdp_footer)
    [] c = "eia608"    -> IsStruct(pkt, klvanc_packet_eia_608_s)
    [] c = "smpte12_2" -> IsStruct(pkt, klvanc_packet_smpte_12_2_s)
    [] c = "afd"       -> IsStruct(pkt, klvanc_packet_afd_s) /\ klvanc_verify_afd_value(pkt.afd)
    [] c = "counter"   -> Fits(pkt.counter, 64)
    [] c = "sdp"       -> IsStruct(pkt, klvanc_packet_sdp_s)
                          /\ \A k \in 1 .. 5 : IsStruct(pkt.descriptors[k], klvanc_sdp_desc_s)
    [] c = "s2108"     -> \A k \in DOMAIN pkt.frames : IsStruct(pkt.frames[k], klvanc_s2108_1_frame)

\* Every member of a struct, set by the application or by a parser, has a value
\* its C type can hold.
TypeOK ==
  /\ codec \in {"none"} \cup DOMAIN Did
  /\ stage \in {"idle", "build", "refused", "framed", "carried", "arrived", "received", "relayed"}
  /\ cut \in {0} \cup Cuts /\ path \in {"none", "nv20", "planar", "uyvy"}
  /\ codec # "none" => IsPacket(codec, app) /\ \A pkt \in got : IsPacket(codec, pkt)

\* The frame as it was put on the line.
SentWords ==
  LET bytes == Payload(codec, app) IN Framed(codec, SubSeq(bytes, 1, Len(bytes) - cut))

\* The words that come off a v210 line are those that were put on it, whichever
\* converters are used and whatever is left over behind the last group of six;
\* only klvanc_v210_planar_unpack_c stops at the last whole group.
LineCarries ==
  stage = "arrived" =>
    LET sent == SentWords
        n == IF path = "planar" /\ Len(line) < Len(sent) THEN Len(line) ELSE Len(sent)
    IN SubSeq(line, 1, n) = SubSeq(sent, 1, n) /\ n > Len(sent) - 6

\* What the receiver of a packet finds in its struct.  The codecs are not
\* inverse to each other everywhere: the size of an SCTE-104 message is filled
\* in, a tier has 12 bits; caption sections whose flag is off are left out; the
\* field of EIA-608 is 0 or 1; an undefined aspect ratio becomes 4:3; the bars are
\* those the flags name.
Carried(c, pkt) ==
  CASE c = "scte104" ->
         [pkt EXCEPT !.mo_msg.messageSize = Len(Payload(c, pkt)) - 1,
            !.ops = [k \in DOMAIN @ |-> IF @[k].opID # MO_INSERT_TIER_DATA THEN @[k]
                                        ELSE [@[k] EXCEPT !.body.tier_data = @ % 4096]]]
    [] c = "eia708" ->
         [header |-> pkt.header,
          tc |-> IF pkt.header.time_code_present = 0 \/ pkt.tc.time_code_section_id # 113 THEN NoTimeCode
                 ELSE pkt.tc,
          ccdata |-> IF pkt.header.ccdata_present = 0 THEN [ccdata_id |-> 0, cc |-> <<>>] ELSE pkt.ccdata,
          ccsvc |-> IF pkt.header.svcinfo_present = 0 THEN NoServices ELSE pkt.ccsvc,
          footer |-> pkt.footer, checksum_valid |-> TRUE]
    [] c = "eia608"    -> [pkt EXCEPT !.field = IF @ = 0 THEN 0 ELSE 1]
    [] c = "afd" -> [pkt EXCEPT !.aspectRatio = IF @ = ASPECT_16x9 THEN @ ELSE ASPECT_4x3,
                       !.top = IF pkt.barDataFlags = BARS_TOPBOTTOM THEN @ ELSE 0,
                       !.bottom = IF pkt.barDataFlags = BARS_TOPBOTTOM THEN @ ELSE 0,
                       !.left = IF pkt.barDataFlags = BARS_LEFTRIGHT THEN @ ELSE 0,
                       !.right = IF pkt.barDataFlags = BARS_LEFTRIGHT THEN @ ELSE 0]
    [] OTHER -> pkt

\* An operation the encoder has no case for is counted but not sent; the decoder
\* then reads one operation more than there is.
Sendable == codec = "scte104" => \A k \in DOMAIN app.ops : app.ops[k].opID \in Known

\* The members on which encoder and decoder disagree, of which DeliveredFaithfully
\* says nothing: two flags of a time code that differ from each other and are read
\* in the opposite order of their writing (FlagsKeepTheirPlace); a drop frame flag
\* of a caption that is not set, since a one is written in its place, and tens of
\* frames for which the decoder has two bits and the encoder three.
Disagreed ==
  CASE codec = "smpte12_2" -> {f \in {"flag14", "flag15"} : app.flag14 # app.flag15}
                              \cup {f \in {"flag74", "flag75"} : app.flag74 # app.flag75}
    [] codec = "eia708"    -> {f \in {"drop_frame_flag"} : app.tc.drop_frame_flag = 0}
                              \cup {f \in {"tc_10fr"} : app.tc.tc_10fr > 3}
    [] OTHER               -> {}

Without(r, members) == Restrict(r, DOMAIN r \ members)

\* A packet without them.
Agreed(pkt) ==
  CASE codec = "smpte12_2" -> Without(pkt, Disagreed)
    [] codec = "eia708"    -> [pkt EXCEPT !.tc = Without(@, Disagreed)]
    [] OTHER               -> pkt

\* A struct that arrives is the struct that was sent, member for member, up to
\* the changes of Carried and the members of Disagreed; also when the payload is
\* too long for its count word.
DeliveredFaithfully ==
  stage = "received" /\ cut = 0 /\ Sendable =>
    \A pkt \in got : Agreed(pkt) = Agreed(Carried(codec, app))

\* Each flag of a time code is the one the application set: flag14 is the "Drop
\* frame flag in 30/60", flag15 the "Color frame flag" (vanc-smpte_12_2.h:78-81).
FlagsKeepTheirPlace ==
  stage = "received" /\ cut = 0 /\ codec = "smpte12_2" =>
    \A pkt \in got : \A f \in {"flag14", "flag15", "flag74", "flag75"} : pkt[f] = app[f]

\* The decoder accepts whatever the encoder makes of a struct, as long as it fits
\* a frame: no combination of sections or operations is refused.
UncutArrives ==
  stage = "received" /\ cut = 0 /\ Sendable /\ Len(Payload(codec, app)) <= 255 => got # {}

\* The last bytes of the payload that are missing, to eight bits.
MissingSum == LET bytes == Payload(codec, app) IN (ByteSum(bytes, Len(bytes)) - ByteSum(bytes, Len(bytes) - cut)) % 256

\* A payload that is too short is noticed: an SCTE-104 message or a time code is
\* not delivered, a caption packet is not or is marked, and of HDR metadata only
\* whole frames are delivered.  (The other four have no such test in the code;
\* a caption packet's is its checksum, so the missing bytes must count.)
CutIsNoticed ==
  stage = "received" /\ cut > 0 =>
    /\ codec \in {"scte104", "smpte12_2"} => got = {}
    /\ codec = "eia708" /\ MissingSum # 0 => \A pkt \in got : ~pkt.checksum_valid
    /\ codec = "s2108" => \A pkt \in got : IsPrefix(pkt.frames, app.frames) /\ pkt # app

\* A relay sends on the bytes that came in, so nothing degrades from one hop to
\* the next; unless encoder and decoder disagree on a member that is sent.
RelayIsStable ==
  stage = "relayed" /\ cut = 0 /\ Sendable /\ Disagreed \subseteq {"drop_frame_flag"} =>
    relayed = Payload(codec, app)

=============================================================================
