# A TLA+ model of libklvanc

libklvanc finds, decodes, creates and places the ancillary data packets that
travel in the vertical blanking lines of an SDI video signal (VANC): closed
captions, ad insertion messages, time code, aspect ratio.  This directory holds
TLA+ modules translated from its source, the TLC configurations that check them
on small instances, and theorems about them checked by the TLAPS proof system.

Paths below are relative to `src/`, the checkout of the repository; the library
is in `src/src/`, its headers in `src/src/libklvanc/`, its tools in `src/tools/`.

## 1. The system

```
 line of 10-bit words                       packets of the application
        |                                             |
 klvanc_packet_parse (core-packets.c)       *_to_words, klvanc_sdi_create_payload
   |  checksum (core-checksum.c)                      |
   |  klvanc_cache_update (core-cache.c)     klvanc_line_insert (core-lines.c)
   |  callback "all"                                  |
   |  decoder of the DID/SDID                klvanc_generate_vanc_line[_v210]
   |    SCTE-104 reassembly                           |
   v    other codecs                                  v
 callbacks of the application                 line of 10-bit words or v210
```

A second way out and in is a transport stream (SMPTE 2038):

```
 packets of a video frame                           words of a line
        |                                                 ^
 klvanc_smpte2038_packetizer_* (smpte2038.c)    klvanc_smpte2038_parse_pes_packet,
        |                                       convert_line_to_words
 ts_packetizer (tools)                                    |
        |        transport packets            pe_push, pe_processPacket (tools)
        +---------- network ------------------> ring buffer (tools)
```

Everything hangs off a `klvanc_context_s`.  The library starts no threads: it is
called by the application's capture thread (which parses), its output thread
(which assembles lines) and, for the cache, any thread that shows what was seen.

| Component | State it keeps | Operations | Interacts with | What makes it correct |
|---|---|---|---|---|
| VANC cache (`core-cache.c`) | per DID/SDID: `activeCount`, labels; per line: `active`, `count`, `mutex`, `pkt` | alloc, free, update, lookup, reset | called by the parser, read by application threads under a line's mutex | no use after free, no lost or shared packet copy, every mutex given back, statistics that agree, nothing left after free |
| Packet parser (`core-packets.c`, `core-checksum.c`) | checksum error counter, the frame at hand | scan a line, validate, look the type up, deliver, decode | updates the cache, calls decoders and callbacks | every whole frame is found, in place and unchanged; a damaged one is dropped; reads stay on the line |
| SCTE-104 reassembly (`core-packet-scte_104.c`) | `scte104_fragments[10]`, `scte104_fragment_count` | first, intermediate, final and single packet, cleanup | called by the parser, calls `callbacks->scte_104` | list in bounds, no message spliced of two, recovery after a loss, no leak |
| SCTE-104 messages (`core-packet-scte_104.c`) | none | decode and encode operations, convert to words | parser, application | decode and encode are inverse, lengths checked |
| VANC line assembly (`core-lines.c`) | line set: up to 64 lines of up to 16 packets | insert, generate, generate v210, free | `core-pixels.c`, application | packets contiguous, whole, legal and on the line; slots and arrays in bounds |
| EIA-708/608, SMPTE 12-2, AFD, SMPTE 2108-1, SDP, counter codecs | none | parse, create, to bytes, to words | parser, bit stream | round trip, ranges |
| Bit stream (`klbitstream_readwriter.h`) | buffer, byte position, shift register | put, get, align | codecs, SMPTE 2038 | what is written is read, in order |
| SMPTE 2038 (`smpte2038.c`) | packetizer: growing buffer and bit stream | begin, append, end; parse PES | bit stream, checksum | PES round trip, buffer large enough, lengths right |
| Pixel formats (`core-pixels.c`) | none | v210, UYVY, 10-bit words | line assembly | conversion is inverse |
| Context (`core.c`) | callbacks, verbosity, cache, fragments | create, enable cache, destroy | all | nothing left after destroy |
| Rate limited code path (`klrestricted_code_path.h`) | interval, counter, last time | may a path run now | logging | runs at most once an interval |
| Tools: ring buffer, PES extractor, TS packetizer | ring, continuity counters | write, read, grow; push | command line tools | no byte lost or reordered |
| DID table, command line programs | none | names; I/O | | outside the model |

What is hard: the cache is shared by threads and only its packet pointers are
under a lock; SCTE-104 messages span packets that the signal may lose, repeat or
damage; memory may run out in the middle of an operation; lines and arrays have
ends that frames, packets and fragments may just reach; counters wrap.
`PROJECT.json` lists each such hazard at its line.

## 2. Modules

| Module | Models | Proofs | Checked by |
|---|---|---|---|
| `VancCache` | `core-cache.c`, with context creation and destruction | `VancCacheProofs` | `CacheConcurrent`, `CacheSequential`, `CacheResetRace` |
| `Scte104Fragments` | reassembly in `core-packet-scte_104.c` | `Scte104FragmentsProofs` | `Scte104Reassembly` |
| `VancLines` | `core-lines.c` | `VancLinesProofs` | `LinesPack`, `LinesEmpty` |
| `PacketParser` | the scan of `core-packets.c`, `core-checksum.c` | `PacketParserProofs` | `ParserScan`, `ParserCut` |
| `KlBitstream`, implementing `BitQueue` | `klbitstream_readwriter.h` | `KlBitstreamProofs` | `Bitstream` |
| `Scte104Messages`, `CaptionCodecs`, `TimeCode`, `SmallCodecs` | the codecs, as operators | none | `Codecs` |
| `PixelFormats` | `core-pixels.c`, as operators | `VancCodecsProofs` | `Codecs` |
| `VancCodecs` | a packet's way through encoder, frame, line, decoder and relay | `VancCodecsProofs` | `Codecs`, `CodecsFlags` |
| `RingBuffer` | `klringbuffer.c`, as operators on a ring | `RingBufferProofs` | `Transport` |
| `PesExtractor` | `pes_extractor.c` | `TransportProofs` | `Transport` |
| `TsPacketizer` | `ts_packetizer.c`, as an operator | `TransportProofs` | `Transport` |
| `Smpte2038` | `smpte2038.c` | `TransportProofs` | `Transport` |
| `Transport` | sender, network and receiver (`tools/smpte2038.c`) of a transport stream | `TransportProofs` | `Transport` |

`VancWords` (parity, checksum, framing of a payload) and `Fields` (bit fields of
bytes, the layout of a struct) are shared.  `VancCodecs` composes the codec modules
with `VancWords` and `PixelFormats`, `Transport` composes `Smpte2038`,
`PesExtractor`, which extends `RingBuffer`, and `TsPacketizer`.

`MC*` modules only instantiate their module for TLC.  Operators named `...Late`,
`...TooFar`, `...Swapped` and so on, each marked as a mutant in its comment, are
broken variants of the definition that follows them: for every property,
substituting one of them makes TLC find the property violated, which shows
that the property depends on the code it is about.

### VancCache

`klvanc_cache_update` takes the line's mutex only around freeing and copying the
packet.  `active`, `activeCount`, `count` and the labels are accessed outside
it, so each access is an action of its own and `x++` is a load and a store.
(A racing access of a plain integer is undefined in C; these steps are the
outcomes compilers produce for it.)  Variables are the fields of
`klvanc_cache_s` and `klvanc_cache_line_s`; `heap` is the set of live packet
copies; `op`, `pc`, `at`, `tmp` hold a thread's call, its position in it, the
cell it works on and the value it loaded.  The two loops of `klvanc_cache_reset`
over DID and SDID are one loop over the index `(did << 8) | sdid`.
`LockLine`, `DropPacket`, `ClearPacket` and `UnlockLine` are shared by the calls
as the code repeats the same four statements.

A failed `klvanc_packet_copy` leaves NULL in the cell: `klvanc_cache_update` does
not look at its result.  `klvanc_cache_free` starts when no thread is in a call,
because `klvanc_context_destroy` frees the context itself.  The application's
query (look the cell up, lock it, look at `pkt`, unlock) is external.

### Scte104Fragments

A packet is its descriptor byte and one word that names the message and the
position it was cut from.  `Kind` is the dispatch of `parse_SCTE_104` on that
byte; each `Handle...` action is what the dispatch does with the list, the
assembled header and the callback.  The words of a message as it was sent decode
if its operations are well formed, a field of the message (`ok`); its length field
(`size`) is another, and both may lie when `Malformed` is TRUE.  Any other words that
are long enough, among them those of an honest message with a fragment repeated, may
decode or fail (`Decodings`): the operations of a shifted message run past its end or
not.  The sender and the raster are external: `Lose`
drops a packet or lets one of the allocations for it fail, `Repeat` receives the
last packet again (a repeated video frame), `Noise` is a packet with the
duplicate bit or an unknown descriptor.  `live` counts the packet headers
reassembly has allocated and not freed.

### VancLines

`klvanc_line_insert` has two ways to succeed, `InsertInLine` and
`InsertNewLine`; its error returns change nothing and are stuttering steps.
`klvanc_generate_vanc_line` sorts (`GenerateBegin`; `qsort` is not stable, hence
any order of equal offsets), runs its packing loop one packet per step
(`GeneratePack`, `Place`), allocates (`GenerateAlloc`, `GenerateNoMemory`,
`GenerateNothing`) and copies (`GenerateCopy`, `GenerateEnd`).  `v210` tells
whether the wrapper `klvanc_generate_vanc_line_v210` called it, `Result` what the
wrapper makes of the outcome.  Samples are pairs of a packet and a position in
it, so that overlap, cutting and uninitialised memory are visible.

### PacketParser

The words of the line are the real 10-bit words with parity and checksum.  The
scan is a step per candidate position: `ParseSkip` (not a frame), `ParseFound`
(counted, cached), then `ParseDeliver` or `ParseIgnore`, after which the scan
resumes seven words further whatever the frame's length, as the code does.
Of the cache the module has one cell for each DID/SDID, that of the line's number.
`klvanc_cache_update` stores a copy of the frame there, or NULL if no memory for the copy
is to be had (`uncopied` records where), or returns early: without a cache (`caching`) or
for a line number beyond its array (`Cacheable`).  The parser ignores its result.
`ReadsTo` records how far the code reads.  Words behind the line are the constant
`fill`.  The frames lines are made of come from `klvanc_sdi_create_payload`.
What a decoder returns is left open.

### KlBitstream

A byte is the tuple of its bits.  `ctx` holds the fields of `klbs_context_s` that
change: `buflen_used`, `reg_used`, `reg`.  A call that moves many bits is a loop
over single bits: the call sets `todo` (bits to write) or `want` (bits to read),
and each round, `klbs_write_bit`, `klbs_read_bit` or `PeekBit`, is a step.  An
aligned read of eight bits takes the code's fast path (`ByteAligned`) and is one
step.  `klbs_peek_bits` runs on a struct copy of the context (`copy`).  A buffer is
written, then read up to the bytes that reached it.  The code has assertions, not
checks, for callers that leave the buffer; the modelled caller keeps to it.

`BitQueue` is what such a stream promises: bits are put at one end and got at the
other.  The refinement mapping takes the queue to be the bits behind the writer
(`Behind`: bytes, then the low end of the register) or ahead of the reader
(`Ahead`: the register, then bytes).

### VancCodecs and its codecs

A codec keeps no state, so encoder and decoder are operators: a struct is a
record of its members, an encoder returns bytes, a decoder the set of what it hands
to the callback (empty when it refuses).  Layouts are tables of names and widths,
read and written by `Fields` as the bit stream does (most significant bit first).
Behind a short payload a decoder reads zeros, as the code's cleared buffers hold.
32- and 48-bit members that no arithmetic touches are sequences of bytes.

The state machine is the life of one packet: an application creates and fills it
(`Create`, `AddOperation`, `SetSections`, `Finalize`, ...), `ToWords` frames it,
`ToLine` and `FromLine` carry it over a v210 line in one of three ways, `Receive`
checks and decodes it, `Relay` encodes what arrived again.  `Shorten` is equipment
that sends a payload without its last bytes in a well formed frame.  Subtitling and
HDR packets have no encoder in the library; theirs are external.

`Carried` names, member by member, where what arrives differs from what was sent
because the format has no room for it.  Where encoder and decoder disagree with each
other, `Disagreed` names the members, and `DeliveredFaithfully` and `RelayIsStable` say
nothing of them: two flags of a time code next to each other, if they differ (which
`FlagsKeepTheirPlace` is about), and of a caption's time code a drop frame flag that
is not set and tens of frames above three.  The two lists are complete for what a
frame can carry.

A line that the planar converter cuts within the frame ends the way of its packet
(`Receive`); what the parser makes of a cut frame is in `PacketParser`.

### Smpte2038, PesExtractor, Transport

`pk` is the packetizer's context.  `klvanc_smpte2038_packetizer_append` grows the
buffer by an estimate, writes the line's bits and fills up the last byte;
`AppendAborts` is the abort() at the limit.  The parser is an operator from bytes to
lines and an outcome: `ok`, `error`, `invalid` (the header), and `abort`, when the
assertion of the bit reader stops the process.

In `PesExtractor` one step is one call of the ring: the loop of `pe_processPacket`
is `SearchBegin`, `SearchFound`, `SearchNext`, `SearchEnd`, `NeedMore` and
`Dequeue`, or `DequeueFails` when malloc does.  `queue` and `torn` are history
variables: the bytes a queue would hold, and whether the ring grew while it was
wrapped.

In `Transport` a transport packet on the wire carries the number of its PES packet,
which only the history uses: `hit` are the numbers something happened to.  The network loses
(`Lose`), repeats (`Repeat`) and exchanges (`Exchange`) packets, and a multiplexer
puts others in between (`Multiplex`).  Sender and receiver share the wire only, so
the sender acts while the receiver is idle.

## 3. What the runs check

| Run | Shows | Bounds, and why they are enough |
|---|---|---|
| `CacheConcurrent` | `LockDiscipline`, `PointerIsLive`, `SoleOwner`, `LockIsReleased` in every interleaving of a parser and two users that query, reset and destroy | One cell: threads only meet in one.  Three threads give an update, a reset and a query in the same cell, two heap addresses an old and a new copy.  Two updates per reset reach every state of a cell; `activeCount` wraps at 3.  More cells, lines and threads: the theorems. |
| `CacheSequential` | `FreeReleasesAll`, `StatsConsistent` for every sequence of calls of one thread | Two entries of two lines, two updates each, so loops of the reset enter, skip and leave both levels.  `CountModulus` 5 exceeds the four updates an entry can get: without wrapping. |
| `CacheResetRace` | a reset between two statements of an update breaks `FreeReleasesAll` | The smallest instance with two threads. |
| `Scte104Reassembly` | `StoredRun`, `DeliveredFromHead`, `TooLongNeverDelivered`, `OneLossHarmless`, `Recovers`, `LeaksArePaidFor` | Arrays of three fragments and messages of up to four packets: too short by one, exact, too long.  Two messages, so that remains of one meet the other; two losses (a splice takes two), one repeat. |
| `LinesPack` | `PackedPrefix`, `NoHoles`, `PacketsWhole`, `NoneLeftOut`, `LineSetSound` | Three line numbers for two slots and four inserts for three entries: both arrays fill up.  Packets of 1 and 4 samples on a line of 6: they fit exactly, not at all, or leave room for a later one.  Offsets 0 and 3 make overlaps, gaps and ties.  Two generate calls, since the first changes the line set. |
| `LinesEmpty` | a line whose packets are all dropped gives the v210 wrapper an unset pointer (`NeverGarbage`) | One packet too wide for its line. |
| `ParserScan` | `RoundTrip`, `NoWrongFrame`, `EveryFrameFound`, `EveryFrameCached` | One and two frames with gaps, known and unknown types, payloads of one and two bytes; every word damaged in six ways; cut at every place; stray flags at every distance that can mask a frame; with a cache and without, line numbers it takes and not; one failing allocation, of a header or of a copy for the cache.  `UintModulus` is 65536, the largest convenient with TLC's integers: lines are far shorter. |
| `Bitstream` | `ImplementsQueue`, `PeekForesees` for every sequence of writes, stuffings, completions, reads and peeks | Three bytes; words of 3, 8 and 10 bits and reads of 1, 3, 8 and 10 meet every register state, aligned and not, and cross up to two byte boundaries.  A word of eight bits with a ninth set shows that it is not written.  Any size and width: the theorems. |
| `Codecs` | `LineCarries`, `DeliveredFaithfully`, `UncutArrives`, `CutIsNoticed`, `RelayIsStable` for every kind of packet | Two operations out of every kind there is, among them one that makes a message of more than 255 bytes; every combination of caption sections, and the greatest counts that are encoded right; both values of each time code flag; payloads short by one and by four bytes (within and beyond the last member); lines with 0, 2 and 4 samples behind the last group of six.  Values are edge values and unequal bytes, so that exchanged members show. |
| `CodecsFlags` | two flags of a time code that differ arrive exchanged (`FlagsKeepTheirPlace`) | The packets of `Codecs`. |
| `Transport` | `UndisturbedArrives`, `NothingInvented`, `SoundIsSafe`, `RingIsQueue`, `BufferFits` | Three frames out of six: empty, filling a transport packet to its last byte, not filling it, two packets, three packets (packetizer and ring grow), and one for which the packetizer aborts.  Two faults, one for a PES packet: the second meets the extractor while it is out of step or has just recovered.  Payloads are 32 bytes, not 184, the ring 72, not 16384, and grows by 2, not 128 times the write, packetizer steps 128, not 16384: what wraps and grows after hundreds of packets does so after a few.  The search's threshold of 16 bytes and window of 4 are the code's. |
| `ParserCut` | a frame cut off by the line's end is completed from memory behind it (`ReadsOnLine`) | Every cut of the lines above, from seven words on. |

`NothingInvented` depends on the words: the checksum has nine bits, so about one
spliced packet in 512 would pass it.  The run shows that splices of its packets do
not, and that the line number, which the checksum does not cover, still belongs to
the packet.

Deadlock is checked in the cache runs (a thread blocked for ever would show;
the destroyed context may stutter).  In the others the bound on inserted
packets, messages or lines, or the end of the stream, really ends the behaviour, and their configurations
say `CHECK_DEADLOCK FALSE`.

Symmetry is used where values are only compared for equality: heap addresses in
`CacheSequential`, line numbers in `LinesPack`; never in a run with a liveness
property.

**Fairness.**  `LockIsReleased` assumes weak fairness of each thread's steps
inside a library call: a call contains no wait except for a line's mutex, and the
operating system keeps scheduling runnable threads.  No thread is assumed to
start a call.  Every blocked thread needs, and TLC confirms, only that the
holder runs on.

## 4. What is proved

Theorems hold for every value of the constants that satisfies the module's
`ASSUME` (positive sizes, the null pointer is no address and no thread, bounds
are naturals).

- **Cache** (`VancCacheProofs`).  `CacheInv` is inductive: types; a mutex is held
  exactly by the thread in the locked part of that cell; an idle thread is at no
  step; where a packet is copied, the pointer is null; an owning cell's pointer is
  live; every live copy has exactly one owner.  `PointerIsLive` alone is not
  inductive: that the pointer a thread is about to free is live depends on no
  other cell sharing it (`SoleOwner`) and on no other thread being between `free`
  and `pkt = 0` in the cell (`LockDiscipline`, `Owns`).  Consequences:
  `CacheTypeCorrect`, `CacheMutualExclusion`, `CachePointersLive`,
  `CacheSoleOwner`, for any number of threads, entries and lines.

  Two properties hold for one thread only; `CacheResetRace` shows what two make of
  them.  They are proved under the hypothesis `Sequential` (there is one thread) and,
  for the second, `NoWrap` (`activeCount` can count all updates there are; without
  it the code is wrong, see section 5).  `SequentialStats` rests on `SeqInv`: at each
  step of a call the total of the entry at hand is ahead of the sum of its lines, or
  already zero, exactly while the call says so (`TotalInv`), and every line but the one
  at hand agrees with itself (`LinesInv`).  The sum is a recursive function; what one
  line's change does to it (`SumOfChange`) is shown by induction.  `SequentialFree`
  adds `BoundInv` (no line counts above the bound) and `EmptiedInv` (the entries a
  free has passed are empty).
- **Reassembly** (`Scte104FragmentsProofs`).  `ListInv` adds to `StoredRun` that
  the first fragment is the head of a message, that fragments come from messages
  that were sent, and that the message last delivered is long enough and begins
  with a head.  `FragmentsStayInArray` is the bound the unchecked append of
  `messageFragmentFinal` relies on; `TooLongIsRefused` follows from it.
  `ReassemblyRecovers` needs a second invariant, `CollectsPrefix`: while a message
  arrives undisturbed, the list is exactly the part received so far, because its
  first packet resets whatever earlier damage left.
  `DeliveredInOrder` needs a third, `OrderInv`: without repeats the fragments are in
  the order they were sent in, and all precede the packet that is sent next.
  `OneLossNeverSplices` needs `AtMostOneGap`: with at most one loss and no repeat the
  list is the part of the message received so far, or less than that and too short to
  decode, or a leftover that the next first packet throws away.  `LeaksAreBounded`
  needs `LeakInv`: a packet leaves at most one header behind, namely a final one whose
  message does not fit or is not a well formed one as sent (`ParseBalance`); such a
  message was disturbed or malformed, unless it is too long, and then the list has been
  reset before its final packet comes (`LongIsDropped`).  The headers left behind, and one
  more while the message in progress may still leave one (`Credit`), are at most as many
  as packets were lost, packets repeated and messages malformed.
- **Lines** (`VancLinesProofs`).  `LinesInv` joins `PackedPrefix` (after n packets
  the first n are contiguous from 0 to `used`, which is within the line),
  `CursorInv` (the loops stay on an existing entry of an existing line) and
  `CopyInv` (while copying, all samples of the entries copied so far are written).
  From contiguity and `CopyInv` follows `BufferHasNoHoles`: at the end of the copy
  every sample belongs to a copied entry.  `OneSlotPerLine` adds the line set.
  `PacketsAreWhole` and `NoneIsLeftOut` rest on `WholeInv`, which follows each packet
  through a call: entries keep their identity and size (`EntriesInv`), those packed are
  settled, with their full width or for a reason with none (`SettledInv`), the samples
  copied are in place (`CopiedInv`), and what was generated stays as it is while
  packets are inserted for the next call (`CarriedInv`).
- **Packet parser** (`PacketParserProofs`).  `ParserInv` is `TypeOK` with what a
  running scan has tested.  `FlagOnLine` shows that wherever the scan accepts a flag
  there is room for a frame with a payload, also when the unsigned `len - 7` of the
  loop condition has wrapped; it is what keeps `i + 7` in range.  `FramesAreFound` and
  `FramesAreCached` need `FoundInv`: the well-formed frames behind the scan were
  delivered, and the cell of each one's type has it or a later one, or is NULL because
  the copy of such a one could not be allocated (`Lost`), if the frame could be cached at
  all (`Cacheable`).  They hold for any line, whatever is on it.

  The other two are about the words.  `NoFrameIsWrong` needs three facts: a word with
  parity can not be mistaken for a word of a flag (`ParityWord`, `Bit9Quiet`); on a
  line of frames of which one word is damaged, flags are seen only where frames begin
  (`FlagIsStart`, from `LineLaid`, how a line is laid out); and a frame whose checksum
  holds although one word other than the count is changed has the content sent
  (`FrameIsRead`, from `SumOfChange`: sums of two strings that differ in one word differ
  unless the word's low nine bits agree).  With `DeliveredInv`, each frame passed on was read
  at a flag, they give the theorem.  `SentArrives` adds `InOrder`: so far the first
  frames of the line were delivered and the scan stands between the last of them and the
  next.  Both assume `ShortPayloads`: no payload is longer than 255 bytes, which is what
  the eight bits of the count can tell (`klvanc_sdi_create_payload` does not test it), and,
  in the module's assumptions, that payloads are not empty, as the same function insists.

- **Codecs and pixel formats** (`VancCodecsProofs`).  `LineArrives` states
  `LineCarries` for every struct an application can build, every frame made of it and
  every even width (`EvenWidths`, which `MCVancCodecs` assumes too: at an odd width the
  NV20 converter leaves out the last sample, see section 5).  The invariant `CarryInv`
  says what `line` is at each stage: the frame, the v210 line made of it, and what came
  off it.  It rests on two sets of lemmas.  What an encoder writes is a list, of a length
  that is a number (`PayloadList`, from one lemma for each codec, section and operation);
  for this the module assumes that the arrays of the structs are arrays
  (`ArraysAssumption`).  And sample k of a line is sample k of the words made of it:
  `LumaSamples` for whole groups of six and the words of an incomplete one
  (`TailWords`), `UyvySamples` for the other layout.  Both join words of different
  sizes, so they need where a member of each sequence ends up in the joined one
  (`FlattenEqual`, by induction).

- **Bit stream** (`KlBitstreamProofs`).  `TypeOK` is inductive; it says where a
  context may stand relative to the buffer and to the bits a call still has to
  move.  `StreamIsQueue` shows each step to be a step of the queue or a stutter:
  `WriteBit` (a stored byte is the register's eight bits), `ReadBit` and `ReadByte`
  (the first bits ahead are taken, the others move up, on either path), `RewindIs`.
  `PeekIsForesight` needs `PeekInv`: what a peek has seen, followed by what its
  copy still has ahead, is what the context has ahead.  The arithmetic of bit and
  byte positions rests on `Div8Mod8`.

- **Ring and transport** (`RingBufferProofs`, `TransportProofs`).  `RingOK` is the
  shape of a ring.  `WriteAppends` and `ReadTakes` say that a write appends to its
  contents and a read takes from them, for any size, growth factor and number of
  bytes, unless the ring must grow while wrapped; `GrowthKeeps` is why it may grow
  otherwise; `OneTurn` is the arithmetic.  `TransportInvariant` has four parts:
  queued lines are lines the packetizer takes (`SenderOK`); its three lengths agree
  and the first is the length of what it has written (`PacketizerOK`); what is on the
  wire has a payload of a natural length (`WireOK`); the ring is well formed and
  matches the history (`ExtractorOK`).  `RingIsQueue` alone is not inductive, since
  a write takes the payload's length from the wire.  `PacketizerStaysInBuffer` rests
  on `LineFits`: a line of n words takes no more than 2n + 64 bytes, and one step of
  growth has room for it.  Assumed are: a ring's first size is positive and not above
  its greatest, a payload is shorter than the ring, the packetizer's step covers the
  longest line, and frames hold lines of 7 words or more, as
  `klvanc_sdi_create_payload` makes them.

Recursive functions are reasoned about by induction on sets of naturals
(`InductiveSet`, from the well-foundedness of `<`): the library's induction theorems
take an operator as a parameter, which the installed provers cannot instantiate, but a
set of the numbers for which a fact holds serves as well.  That a recursively defined
function exists is shown the same way (`SumsExist`, `SeriesExists`, `JoinedExists`).

Only model-checked: `LockIsReleased`, since liveness under fairness is beyond the
provers; of `VancCodecs` all but `LineCarries`, since the others are round trips through
bit layouts; and of
`Transport` `UndisturbedArrives`, `NothingInvented` and `SoundIsSafe`.  `NothingInvented`
is not a theorem: it depends on the words, as said in section 3.

## 5. Where code and documents disagree

With a run each:

- `core-cache.c:88`.  A `klvanc_cache_reset` between `activeCount++` and the lock
  of an update leaves a packet in a line that is marked inactive, in an entry with
  count 0; `klvanc_cache_free` skips it (`CacheResetRace`).
- `core-lines.c:177`.  With no pixel to send, `klvanc_generate_vanc_line` returns
  success without setting `outbuf` and `out_len`, and the v210 wrapper uses and
  frees its uninitialised pointer (`LinesEmpty`).
- `core-packets.c:155`.  The data count is not compared with the words left
  (`ParserCut`).
- `core-packet-smpte_12_2.c:290`.  The encoder writes flag14 before flag15 and flag74
  before flag75, most significant bit first; the decoder (194, 196) takes them the other
  way round.  `vanc-smpte_12_2.h:78` has flag14 as the drop frame flag, line 80 flag15 as
  the colour frame flag (`CodecsFlags`).  A relay exchanges them on every hop.

Met while modelling, without a run of their own:

- `core-packet-scte_104.c:1235`.  The header assembled from fragments is freed only
  after a successful decode (1319), where `vanc.h:155` has "Create storage for 10
  packets, track them, free them etc.".  `LeaksArePaidFor` says how often that can
  happen: at most once for each lost or repeated packet and each malformed message.
- `core-cache.c:86`.  `activeCount` wraps to 0 after 2^32 packets, and 0 means
  unused: `klvanc_cache_free` then skips the entry.  (`CacheSequential` with
  `CountModulus = 4` and `MaxCount = 4` shows it.)
- `core-cache.c:34`.  A second `klvanc_context_enable_cache` loses the first array.
- `core-lines.c:76`.  The result of `klvanc_line_create` is dereferenced at line 96
  without a test (`crashed` in `VancLines`), where `vanc-lines.h:106` has -ENOMEM.
- `core-packets.c:229`.  The scan needs eight words, so a frame without payload
  that ends the line is missed, where line 280 has "Minimum packet length is 7".
- `core-packets.c:229`.  For one to six words the unsigned `len - 7` wraps and the
  scan runs past the array.
- `core-packets.c:306`.  `klvanc_sdi_create_payload` frames a payload of 256 bytes
  with a data count of zero.
- `klbitstream_readwriter.h:204`.  `klbs_write_buffer_complete` counts from
  `reg_used` to 8 inclusive, one zero too many: the byte is completed, but a zero
  bit stays in the register.  Nothing in the library writes after completing; if it
  did, everything would be shifted by a bit, and a second completion would add a
  byte.
- `klbitstream_readwriter.h:154`.  The assertion of the writer, `buflen_used <=
  buflen`, still holds when the next byte to be stored is behind the buffer.
- `core-lines.c:170`.  Generating a line clears the width of packets that did not
  fit, so they stay out of a wider line generated from the same set later
  (`NoneLeftOut` speaks of the first call).

In the codecs:

- `core-packet-eia_708b.c:461`.  A time code section arrives with its drop frame flag
  set, however it was sent: where the decoder (297) reads it the encoder writes a one.
  The tens of frames have three bits there and two, behind a bit that is skipped, in the
  decoder (301).  `Disagreed` leaves these members out of what is promised.
- `core-packet-eia_708b.c:315`.  The count of captions has five bits, the array 30
  entries: a packet of other equipment with 31 spills into the service section.
- `core-packet-scte_104.c:1394`.  `num_ops` counts operations for which there is no
  encoder; they are left out, and the decoder reads one operation more than there
  is (`Sendable`).
- `core-packet-scte_104.c:1530`.  `num_ops` is 8 bits; the 256th operation wraps it.
- `core-packet-scte_104.c`.  The results of `gen_*` are used without a test for
  failed memory; a proprietary operation of fewer than five bytes copies a length
  below zero (`Crashes`); a descriptor of 255 bytes is encoded and then dropped by
  the decoder, whose test is strict; more than 63 provider avails leave their array.
- `core-packet-scte_104.c`.  `klvanc_convert_SCTE_104_packetbytes_to_SMPTE_2010` takes
  2000 bytes and makes one packet of them, where the comment (1477) has a maximum of 254 and the
  header (`vanc-scte_104.h:329`) only unfragmented packets.  The count of a payload of more than 255 bytes is cut, and the receiver's
  checksum drops the frame (`UncutArrives` speaks of those that fit).
- `core-packet-smpte_12_2.c`.  For an unsupported `dbb1` the encoder returns success
  without setting the words.  The test for VITC1 stands twice in
  `klvanc_SMPTE_12_2_preferred_line`, so VITC2 of an unknown format goes to line 11.
- `core-packet-smpte_2108_1.c`.  More than ten frames leave the array; a frame length
  below two is not tested; one of a decoded type that states less than the type
  has lets the reader run past the payload (`HdrAssumption` excludes both).  AFD, EIA-608, counter and subtitling decoders have no
  test of the length at all (`CutIsNoticed` says which have).
- `core-pixels.c`.  An odd width drops the last luma sample on the way to NV20.

In the transport stream:

- `klringbuffer.c:50`.  `rb_grow` reallocates a wrapped ring without moving the part behind
  the wrap, which is lost to the reader and takes the packets around it along (`torn`;
  `Push` counts them as disturbed).
- `smpte2038.c:140`.  The test under "Ensure we not overrunning because of bad data."
  compares whole bytes; with up to six bits missing it passes, and the reader's assertion
  stops the process.  Two exchanged transport packets are enough.  The header of a line is
  read without a test, when five bytes are left; that too ends in the assertion.
  `SoundIsSafe` says that only a message something happened to, or to the one before, does
  either.
- `smpte2038.c:141`.  The bytes left are an unsigned difference: with one byte behind the
  end loaded it wraps and any count passes (`TooManyWords`).
- `klringbuffer.c:55`.  The result of `realloc` is not tested; a failing one is not
  modelled.
- `pes_extractor.c:103`.  The bound of the search falls while its counter rises, so a
  search ends half way through the ring.  PES packets of one transport packet that are
  behind each other after a failed malloc (134) can then be missed for ever, each start
  code being read by the end of one search; therefore `NoMemory` counts all PES packets
  that follow as disturbed.
- `pes_extractor.c`.  The continuity counter is ignored.  A loss costs the PES packet it
  is in and the next, whose bytes are taken for it; each further loss in the same
  packet may cost one more.
- `smpte2038.c:413`.  `klvanc_smpte2038_packetizer_end` returns 0, where its comment
  has the size in bytes; the PES length is cut to 16 bits.
- `smpte2038.c:168`.  `rem` is stale in the loop that skips stuffing: it is taken before
  the last bit is read (`Remaining`).
- `klringbuffer.c:85`.  A write of the whole size to an empty ring with head not 0 takes
  the branch without wrap; the extractor never writes that much.

## 6. Not modelled, and what could follow

Left out for good: names and dumps (`core-did.c`, `klvanc_*_dump`,
`klvanc_packet_save`), the command line programs (arguments, files, network), and
sample data.  Of the bit stream, `klbs_save` and `klbs_peek_print_binary` (output),
`klbs_bitmove` and `klbs_bitcopy` (no caller in the library) and storage owned by the
context (no caller).

The rate limit of `klrestricted_code_path.h` guards a log message and changes nothing
else.  Of the ring, what no modelled program calls (`rb_write_pointer`,
`rb_read_pointer`, their commits, `rb_stream`, `rb_fwrite`) is left out; of SMPTE 2038
the functions that free the structs, with the words of a line that failed to parse or
has none, which they leak.  Single operation messages of SCTE-104 are compiled out of
the decoder.

What could follow: `LatestPacket`, an abstract cache that holds the last packet of each
cell, and the proof that `VancCache` with one thread implements it; a proof that a PES
packet of `Smpte2038` is parsed into the lines it was made of, and with it of
`SoundIsSafe`; a proof that each codec's decoder takes back what its encoder wrote.
