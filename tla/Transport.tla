------------------------------ MODULE Transport ------------------------------
(***************************************************************************)
(* VANC over a transport stream: a sender packs the packets of each video  *)
(* frame with the packetizer of Smpte2038 and cuts the PES packet up       *)
(* (TsPacketizer); the network loses, repeats and exchanges transport      *)
(* packets, and a multiplexer puts others between them; the receiver       *)
(* (tools/smpte2038.c) pushes what arrives into the extractor              *)
(* (PesExtractor), parses every message and makes words of its lines.      *)
(*                                                                         *)
(* The two sides share the wire only.  So it is enough that the sender     *)
(* acts while the receiver is idle and the wire is nearly empty.           *)
(***************************************************************************)
EXTENDS Smpte2038, PesExtractor, TsPacketizer, FiniteSets

CONSTANTS
  Frames,     \* what a video frame may hold: sequences of [lineNr, words]
  MaxFrames,  \* bound: video frames sent
  MaxFaults   \* bound: transport packets lost, repeated, exchanged or put in between, allocations that fail

ASSUME TransportAssumption ==
  /\ MaxFrames \in Nat /\ MaxFaults \in Nat
  /\ Frames \subseteq Seq([lineNr : 0 .. 2047, words : Seq(0 .. 1023)])
  /\ \A f \in Frames : \A k \in DOMAIN f : Len(f[k].words) \in 7 .. MaxWords + 7

VARIABLES
  stage,   \* the sender: idle, open, aborted
  frame,   \* the video frame it is at
  todo,    \* what of it is not appended yet
  sent,    \* history: the frames of the PES packets
  wire,    \* transport packets on their way, each with the number of its PES packet
  cc,      \* transport packets made so far
  faults,  \* how many things went wrong
  hit,     \* history: numbers of the PES packets something went wrong with
  last,    \* history: the number of the one pushed last
  got,     \* what the receiver made of the messages
  crashed  \* an assertion has stopped the receiver

sender   == <<stage, frame, todo, sent, pk, cc>>
receiver == <<extractor, got, crashed, last>>
network  == <<faults, hit>>
vars     == <<sender, wire, receiver, network>>

Init ==
  /\ pk = klvanc_smpte2038_packetizer_alloc /\ ExtractorInit
  /\ stage = "idle" /\ frame = <<>> /\ todo = <<>> /\ sent = <<>> /\ wire = <<>> /\ cc = 0
  /\ faults = 0 /\ hit = {} /\ last = 0 /\ got = <<>> /\ crashed = FALSE

----------------------------------------------------------------------------
(* The sender *)

\* The packet header klvanc_packet_parse makes of a frame.
PacketOf(v) ==
  [lineNr |-> v.lineNr, did |-> sanitizeWord(v.words[4]), dbnsdid |-> sanitizeWord(v.words[5]),
   payload |-> SubSeq(v.words, 7, Len(v.words) - 1), checksum |-> v.words[Len(v.words)]]

Begin ==
  /\ stage = "idle" /\ Len(sent) < MaxFrames /\ at = "idle" /\ Len(wire) <= 1
  /\ \E f \in Frames : frame' = f /\ todo' = f
  /\ klvanc_smpte2038_packetizer_begin
  /\ stage' = "open"
  /\ UNCHANGED <<sent, cc, wire, receiver, network>>

AppendPacket ==
  /\ stage = "open" /\ todo # <<>>
  /\ klvanc_smpte2038_packetizer_append(PacketOf(Head(todo)))
  /\ todo' = Tail(todo)
  /\ UNCHANGED <<stage, frame, sent, cc, wire, receiver, network>>

\* The buffer would grow over its limit: abort().
AppendAborts ==
  /\ stage = "open" /\ todo # <<>> /\ Aborts(Len(PacketOf(Head(todo)).payload))
  /\ stage' = "aborted"
  /\ UNCHANGED <<frame, todo, sent, pk, cc, wire, receiver, network>>

\* The time stamp of a PES packet tells its number.
Pts(n) == <<0, 0, n>>

\* klvanc_smpte2038_packetizer_end and ts_packetizer.
End ==
  /\ stage = "open" /\ todo = <<>> /\ ~Empty
  /\ LET n  == Len(sent) + 1
         ts == ts_packetizer(klvanc_smpte2038_packetizer_end(Pts(n)), cc, Pid, PacketSize)
     IN /\ wire' = wire \o [k \in 1 .. Len(ts) |-> [ts |-> ts[k], of |-> n]]
        /\ cc' = cc + Len(ts)
        /\ sent' = Append(sent, frame)
  /\ stage' = "idle"
  /\ UNCHANGED <<frame, todo, pk, receiver, network>>

\* A frame without packets: packetizer_end returns an error.
EndEmpty ==
  /\ stage = "open" /\ todo = <<>> /\ Empty
  /\ stage' = "idle"
  /\ UNCHANGED <<frame, todo, sent, pk, cc, wire, receiver, network>>

----------------------------------------------------------------------------
(* The network *)

\* Bound: one fault for a PES packet.  (Each further loss costs a PES packet more.)
Fault(numbers) ==
  /\ numbers \cap hit = {}
  /\ stage = "idle" /\ at = "idle" /\ faults < MaxFaults
  /\ faults' = faults + 1 /\ hit' = hit \cup numbers
  /\ UNCHANGED <<sender, receiver>>

Lose == wire # <<>> /\ Fault({wire[1].of}) /\ wire' = Tail(wire)

Repeat == wire # <<>> /\ Fault({wire[1].of}) /\ wire' = <<wire[1]>> \o wire

Exchange ==
  /\ Len(wire) >= 2 /\ Fault({wire[1].of, wire[2].of})
  /\ wire' = <<wire[2], wire[1]>> \o SubSeq(wire, 3, Len(wire))

\* A packet of another PID, or one of this PID that has an adaptation field only.
Others ==
  {[pid |-> Pid + 1, unit_start |-> FALSE, cc |-> 0, adaption |-> 1, adaptation_length |-> 0,
    payload |-> [k \in 1 .. PacketSize - 4 |-> 0]],
   [pid |-> Pid, unit_start |-> FALSE, cc |-> 0, adaption |-> 2, adaptation_length |-> PacketSize - 5,
    payload |-> <<>>]}

Multiplex ==
  /\ Fault({})
  /\ \E ts \in Others : wire' = <<[ts |-> ts, of |-> last]>> \o wire

----------------------------------------------------------------------------
(* The receiver *)

Push ==
  /\ stage = "idle" /\ ~crashed /\ wire # <<>>
  /\ pe_push(wire[1].ts)
  /\ wire' = Tail(wire) /\ last' = wire[1].of
  /\ hit' = IF torn' /\ ~torn THEN hit \cup {last, last'} ELSE hit
  /\ UNCHANGED <<sender, faults, got, crashed>>

Extract ==
  /\ SearchBegin \/ SearchFound \/ SearchNext \/ SearchEnd \/ NeedMore
  /\ UNCHANGED <<sender, wire, network, got, crashed, last>>

\* The words of a line, and whether klvanc_packet_parse accepts them (PacketParser
\* is about how it finds the frame in them).
Parsed(l) ==
  LET words == klvanc_smpte2038_convert_line_to_words(l)
  IN [line_number |-> l.line_number, words |-> words,
      valid |-> klvanc_checksum_is_valid(SubSeq(words, 4, Len(words)))]

\* The callback parses the message.  It does not look at the error: what was
\* parsed before it is used.
pes_cb(msg) ==
  LET r == klvanc_smpte2038_parse_pes_packet(msg)
  IN /\ crashed' = (r.outcome = "abort")
     /\ got' = IF r.outcome \in {"ok", "error"}
               THEN Append(got, [PTS |-> r.PTS, lines |-> [k \in DOMAIN r.lines |-> Parsed(r.lines[k])]])
               ELSE got

Deliver ==
  /\ ~crashed /\ Dequeue /\ pes_cb(Message)
  /\ UNCHANGED <<sender, wire, network, last>>

\* The message that could not be allocated stays in the ring, and the search may
\* from then on end on the last byte of every start code, without comparing it:
\* nothing that follows is promised to arrive.
NoMemory ==
  /\ faults < MaxFaults /\ DequeueFails
  /\ faults' = faults + 1 /\ hit' = hit \cup last .. MaxFrames
  /\ UNCHANGED <<sender, wire, got, crashed, last>>

Next ==
  \/ Begin \/ AppendPacket \/ AppendAborts \/ End \/ EndEmpty
  \/ Lose \/ Repeat \/ Exchange \/ Multiplex
  \/ Push \/ Extract \/ Deliver \/ NoMemory

Spec == Init /\ [][Next]_vars

----------------------------------------------------------------------------
(* Properties *)

\* The packetizer's buffer holds as many bytes as it says (smpte2038.c), and head
\* and fill of the ring stay within its size (klringbuffer.c).
TypeOK ==
  /\ stage \in {"idle", "open", "aborted"} /\ at \in {"idle", "loop", "search"}
  /\ pk.bufused = ResetOffset + Len(pk.buf)
  /\ rb.head \in 0 .. rb.size - 1 /\ rb.fill \in 0 .. rb.size /\ DOMAIN rb.data = 0 .. rb.size - 1
  /\ Len(b) = 4 /\ i \in Nat /\ hit \subseteq 0 .. MaxFrames

\* What the receiver makes of a PES packet that arrives as it was sent.
Received(n) ==
  [PTS |-> Pts(n),
   lines |-> [k \in DOMAIN sent[n] |-> [line_number |-> sent[n][k].lineNr, words |-> sent[n][k].words, valid |-> TRUE]]]

Quiet == stage = "idle" /\ at = "idle" /\ wire = <<>> /\ ~crashed

\* PES packets nothing happened to, nor to the one before them.
Undisturbed == {n \in 1 .. Len(sent) : {n - 1, n} \cap hit = {}}

\* An undisturbed PES packet arrives once, with every line of its frame word for
\* word, and they arrive in the order they were sent in.  After a disturbance the
\* extractor runs over into one PES packet, then it is in step again.
UndisturbedArrives ==
  Quiet => SelectSeq(got, LAMBDA r : \E n \in Undisturbed : r = Received(n))
             = [k \in 1 .. Cardinality(Undisturbed) |-> Received(SetToSortSeq(Undisturbed, <)[k])]

\* A packet with a valid checksum is one that was sent, on the line it was sent on,
\* whatever was lost, repeated or run together.
NothingInvented ==
  \A m \in DOMAIN got : \A k \in DOMAIN got[m].lines :
    LET l == got[m].lines[k]
    IN l.valid => \E n \in 1 .. Len(sent) : \E j \in DOMAIN sent[n] :
                    sent[n][j] = [lineNr |-> l.line_number, words |-> l.words]

\* A message leads the parser out of it only if something happened to the PES packet
\* received last or to the one before: damage that is further back or still to come
\* stops no receiver.
SoundIsSafe == crashed => hit \cap {last - 1, last} # {}
=============================================================================
