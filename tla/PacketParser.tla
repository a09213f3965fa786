--------------------------- MODULE PacketParser ---------------------------
(***************************************************************************)
(* Finding VANC packets on a line (core-packets.c, core-checksum.c).       *)
(*                                                                         *)
(* klvanc_packet_parse scans the words of a line for ancillary data flags, *)
(* copies each frame it finds into a packet header, updates the cache, and *)
(* hands frames with a valid checksum to the application and to the        *)
(* decoder of their DID/SDID.  klvanc_sdi_create_payload (VancWords)       *)
(* builds such frames.                                                     *)
(*                                                                         *)
(* A line of the environment is a record: the frames that were sent, the   *)
(* words that arrived, and the index of the word damaged on the way.       *)
(* What lies in memory behind the line is the stale word fill.             *)
(*                                                                         *)
(* Abstraction: how a decoder fares with a payload is any of its outcomes  *)
(* (decoded, collected without a result yet, failed); the decoders have    *)
(* modules of their own.  Of the cache the parser reaches one cell per     *)
(* DID/SDID, that of the line at hand; VancCache models the counters and   *)
(* the threads that share a cell.                                          *)
(***************************************************************************)
EXTENDS VancWords

CONSTANTS
  Lines,        \* lines that may arrive: [sent, words, bad]
  Fills,        \* words that may lie behind a line
  Types,        \* types[]: the <<did, sdid>> pairs with a decoder
  MaxPayload,   \* LIBKLVANC_PACKET_MAX_PAYLOAD (16384)
  UintModulus,  \* 2^32: unsigned int (TLC: 2^16)
  LineNrs,      \* numbers a line may have
  CacheLines,   \* lines of a cache entry (2048)
  MaxNoMemory,  \* bound: failing allocations
  NULL          \* the null pointer; also VANC_TYPE_UNDEFINED

\* A packet header, and a frame to be sent behind so many black samples.
Frame ==
  [did : 0 .. 255, dbnsdid : 0 .. 255, payload : Seq(Nat), checksumValid : BOOLEAN,
   type : Types \cup {NULL}, horizontalOffset : Nat]
Items == [gap : Nat, did : 1 .. 255, sdid : 1 .. 255, bytes : Seq(0 .. 255)]

ASSUME ParserAssumption ==
  /\ Lines \subseteq [sent : Seq(Items), words : Seq(Nat), bad : Nat]
  /\ Fills \subseteq Nat
  /\ UintModulus \in Nat \ {0} /\ MaxPayload \in 0 .. UintModulus - 1
  /\ LineNrs \subseteq Nat /\ CacheLines \in Nat
  /\ MaxNoMemory \in Nat /\ NULL \notin Frame

VARIABLES
  allow_bad_checksums,  \* klvanc_context_s
  checksum_failures,    \* klvanc_context_s
  caching,              \* whether there is a packet cache (cacheLines # NULL)
  cached,               \* the line's cells: <<did, sdid>> -> the last frame or NULL
  pc,                   \* "idle", "scan", "found" or "returned"
  line, lineNr, fill,   \* the words and the number the call was given, and what
                        \* follows the words in memory
  i,                    \* where the scan is
  attempts,             \* frames found
  hdr,                  \* the packet header of the frame at hand
  delivered,            \* frames passed to the callback "all"
  decoded,              \* frames whose decoder produced a packet
  starved,              \* where a packet header could not be allocated
  uncopied,             \* where the copy for the cache could not be allocated
  reach                 \* how many words, counted from the start, were read

vars == <<allow_bad_checksums, checksum_failures, caching, cached, pc, line, lineNr, fill,
          i, attempts, hdr, delivered, decoded, starved, uncopied, reach>>

----------------------------------------------------------------------------

\* The line a sender puts together: each frame after its gap of black samples.
WireUpTo(sent) ==
  LET wire[n \in 0 .. Len(sent)] ==
        IF n = 0 THEN <<>>
        ELSE wire[n - 1] \o [k \in 1 .. sent[n].gap |-> 64]
             \o klvanc_sdi_create_payload(sent[n].sdid, sent[n].did, sent[n].bytes)
  IN  wire
Wire(sent) == WireUpTo(sent)[Len(sent)]

\* The sender's frames have a payload, as klvanc_sdi_create_payload insists.  A
\* damaged line differs from the line sent in one word.
ASSUME LinesAssumption ==
  \A l \in Lines :
    /\ \A n \in 1 .. Len(l.sent) : l.sent[n].bytes # <<>>
    /\ l.bad # 0 => /\ l.bad \in 1 .. Len(Wire(l.sent))
                    /\ l.words = [Wire(l.sent) EXCEPT ![l.bad] = l.words[l.bad]]

----------------------------------------------------------------------------
(* Reading the line.  Nothing but the length passed in tells the parser    *)
(* where the line ends.                                                    *)

len == Len(line.words)
Word(p) == IF p < len THEN line.words[p + 1] ELSE fill
Slice(p, n) == [k \in 1 .. n |-> Word(p + k - 1)]

IsADF(a, b, c) == a < 3 /\ (b \div 4) % 256 = 255 /\ (c \div 4) % 256 = 255

\* A frame starts here, as far as its first words tell, and there is room for
\* more than the shortest frame.
isValidHeader(p) ==
  (len - p) % UintModulus > 7 /\ IsADF(Word(p), Word(p + 1), Word(p + 2))

PayloadLength(p) == sanitizeWord(Word(p + 5))

lookupTypeByDID(did, sdid) == IF <<did, sdid>> \in Types THEN <<did, sdid>> ELSE NULL

\* The packet header that parse fills from the frame at p.
Header(p) ==
  LET n == PayloadLength(p)
      did == sanitizeWord(Word(p + 3))
      sdid == sanitizeWord(Word(p + 4))
  IN [did |-> did, dbnsdid |-> sdid, payload |-> Slice(p + 6, n),
      checksumValid |-> klvanc_checksum_is_valid(Slice(p + 3, n + 4)),
      type |-> lookupTypeByDID(did, sdid), horizontalOffset |-> p]

\* parse fails with -EINVAL or because the payload is too long.
Rejects(p) == ~isValidHeader(p) \/ PayloadLength(p) > MaxPayload

\* How far parse reads: the flag, or the whole frame as its count states it.
\* (verbose > 2 would print the flag even when the length test fails.)
ReadsTo(p) ==
  IF (len - p) % UintModulus <= 7 THEN 0
  ELSE IF ~isValidHeader(p) THEN p + 3 ELSE p + 7 + PayloadLength(p)

Further(n) == reach' = IF n > reach THEN n ELSE reach

----------------------------------------------------------------------------

Init ==
  /\ allow_bad_checksums \in BOOLEAN /\ checksum_failures = 0
  /\ caching \in BOOLEAN /\ cached = <<>>
  /\ pc = "idle" /\ line \in Lines /\ lineNr \in LineNrs /\ fill \in Fills
  /\ i = 0 /\ attempts = 0 /\ hdr = NULL
  /\ delivered = <<>> /\ decoded = <<>> /\ reach = 0
  /\ starved = {} /\ uncopied = {}

\* The entry of klvanc_packet_parse: VALIDATE and the length test.
ParseBegin ==
  /\ pc = "idle"
  /\ pc' = IF len = 0 \/ len > MaxPayload THEN "returned" ELSE "scan"
  /\ UNCHANGED <<allow_bad_checksums, checksum_failures, caching, cached, line, lineNr, fill,
                 i, attempts, hdr, delivered, decoded, starved, uncopied, reach>>

\* The loop condition: len - 7 is unsigned.
Scanning == pc = "scan" /\ i < (len - 7) % UintModulus

MemoryMayFail == Cardinality(starved) + Cardinality(uncopied) < MaxNoMemory

ParseSkip ==
  /\ Scanning /\ Rejects(i)
  /\ i' = i + 1 /\ Further(ReadsTo(i))
  /\ UNCHANGED <<allow_bad_checksums, checksum_failures, caching, cached, pc, line, lineNr,
                 fill, attempts, hdr, delivered, decoded, starved, uncopied>>

\* calloc fails: parse returns -ENOMEM and the scan goes on one word further.
ParseNoMemory ==
  /\ Scanning /\ ~Rejects(i) /\ MemoryMayFail
  /\ starved' = starved \cup {i}
  /\ i' = i + 1 /\ Further(i + 3)
  /\ UNCHANGED <<allow_bad_checksums, checksum_failures, caching, cached, pc, line, lineNr,
                 fill, attempts, hdr, delivered, decoded, uncopied>>

\* klvanc_cache_update gets past its error returns.
Cacheable == caching /\ lineNr < CacheLines

\* The cell of a frame's type takes the copy, or NULL when there was no memory for
\* one: the copy cached before is freed first.
Store(f, copy) ==
  cached' = [k \in DOMAIN cached \cup {<<f.did, f.dbnsdid>>} |->
               IF k = <<f.did, f.dbnsdid>> THEN copy ELSE cached[k]]

\* Mutant of klvanc_cache_update: only frames with a decoder are cached.
klvanc_cache_updateKnown(f) ==
  \/ /\ ~Cacheable \/ f.type = NULL
     /\ UNCHANGED <<cached, uncopied>>
  \/ /\ Cacheable /\ f.type # NULL
     /\ Store(f, f)
     /\ UNCHANGED uncopied

\* klvanc_cache_update, which copies the frame.  The parser ignores its result.
klvanc_cache_update(f) ==
  \/ ~Cacheable /\ UNCHANGED <<cached, uncopied>>
  \/ Cacheable /\ Store(f, f) /\ UNCHANGED uncopied
  \/ /\ Cacheable /\ MemoryMayFail
     /\ Store(f, NULL)
     /\ uncopied' = uncopied \cup {i}

\* parse succeeds; the frame is counted and cached.
ParseFound ==
  /\ Scanning /\ ~Rejects(i)
  /\ hdr' = Header(i) /\ Further(ReadsTo(i))
  /\ checksum_failures' = checksum_failures + (IF hdr'.checksumValid THEN 0 ELSE 1)
  /\ attempts' = attempts + 1
  /\ klvanc_cache_update(Header(i))
  /\ pc' = "found"
  /\ UNCHANGED <<allow_bad_checksums, caching, line, lineNr, fill, i, delivered, decoded,
                 starved>>

Accepted == hdr.checksumValid \/ allow_bad_checksums

\* Mutants of NextFrame: the scan resumes behind the frame as its count states
\* it; the header is not freed.
NextFrameByCount ==
  hdr' = NULL /\ pc' = "scan" /\ i' = i + 7 + Len(hdr.payload)
NextFrameKeepsHeader ==
  hdr' = hdr /\ pc' = "scan" /\ i' = i + 7

\* The header is freed; the scan resumes behind the shortest possible frame.
NextFrame ==
  hdr' = NULL /\ pc' = "scan" /\ i' = i + 7

ParseIgnore ==
  /\ pc = "found" /\ ~Accepted
  /\ NextFrame
  /\ UNCHANGED <<allow_bad_checksums, checksum_failures, caching, cached, line, lineNr, fill,
                 attempts, delivered, decoded, starved, uncopied, reach>>

\* The callback "all", then parseByType: only a known type can be decoded.  What
\* a decoder returns is freed at once.
ParseDeliver ==
  /\ pc = "found" /\ Accepted
  /\ delivered' = Append(delivered, hdr)
  /\ \/ hdr.type # NULL /\ decoded' = Append(decoded, hdr)
     \/ UNCHANGED decoded
  /\ NextFrame
  /\ UNCHANGED <<allow_bad_checksums, checksum_failures, caching, cached, line, lineNr, fill,
                 attempts, starved, uncopied, reach>>

ParseEnd ==
  /\ pc = "scan" /\ ~Scanning
  /\ pc' = "returned"
  /\ UNCHANGED <<allow_bad_checksums, checksum_failures, caching, cached, line, lineNr, fill,
                 i, attempts, hdr, delivered, decoded, starved, uncopied, reach>>

Next ==
  \/ ParseBegin \/ ParseSkip \/ ParseNoMemory \/ ParseFound
  \/ ParseIgnore \/ ParseDeliver \/ ParseEnd

Spec == Init /\ [][Next]_vars

----------------------------------------------------------------------------
(* Properties *)

TypeOK ==
  /\ allow_bad_checksums \in BOOLEAN /\ checksum_failures \in Nat
  /\ caching \in BOOLEAN /\ lineNr \in LineNrs
  /\ DOMAIN cached \subseteq (0 .. 255) \X (0 .. 255)
  /\ \A k \in DOMAIN cached : cached[k] \in Frame \cup {NULL}
  /\ pc \in {"idle", "scan", "found", "returned"}
  /\ line.words \in Seq(Nat) /\ fill \in Fills
  /\ i \in 0 .. UintModulus - 1 /\ attempts \in Nat
  /\ hdr \in Frame \cup {NULL} /\ (hdr # NULL <=> pc = "found")
  /\ delivered \in Seq(Frame) /\ decoded \in Seq(Frame)
  /\ starved \subseteq Nat /\ uncopied \subseteq Nat /\ reach \in Nat

Returned == pc = "returned" /\ len <= MaxPayload

\* What the application learns from a frame: place, type and payload bytes.
Content(f) ==
  [at |-> f.horizontalOffset, did |-> f.did, sdid |-> f.dbnsdid,
   bytes |-> [k \in 1 .. Len(f.payload) |-> sanitizeWord(f.payload[k])]]

\* The same, of the frames that were sent.
SentContent ==
  [n \in 1 .. Len(line.sent) |->
     [at |-> Len(WireUpTo(line.sent)[n - 1]) + line.sent[n].gap,
      did |-> line.sent[n].did, sdid |-> line.sent[n].sdid, bytes |-> line.sent[n].bytes]]

Contents(s) == [n \in 1 .. Len(s) |-> Content(s[n])]

\* The payloads that the eight bits of the count word can tell.
ShortPayloads == \A l \in Lines : \A n \in 1 .. Len(l.sent) : Len(l.sent[n].bytes) <= 255

\* What klvanc_sdi_create_payload builds, klvanc_packet_parse finds: all frames
\* of an undamaged line are delivered, in order, at their place, byte for byte,
\* with nothing in between.
RoundTrip ==
  Returned /\ line.words = Wire(line.sent) /\ starved = {} =>
    Contents(delivered) = SentContent

\* A word damaged outside the count words costs frames but never changes one:
\* what is delivered is some of what was sent.
Counts == {SentContent[n].at + 6 : n \in 1 .. Len(line.sent)}
NoWrongFrame ==
  ~allow_bad_checksums /\ line.bad # 0 /\ line.bad \notin Counts =>
    \A n \in 1 .. Len(delivered) :
      \E m \in 1 .. Len(line.sent) : Content(delivered[n]) = SentContent[m]

\* A well-formed frame lies at p: flag, count, checksum, all on the line.
WellFormed(p) ==
  /\ p + 7 <= len /\ IsADF(Word(p), Word(p + 1), Word(p + 2))
  /\ p + 7 + PayloadLength(p) <= len
  /\ Header(p).checksumValid

\* It is not masked by a flag less than a shortest frame before it.
Clear(p) == \A q \in 0 .. p - 1 : q > p - 7 => ~IsADF(Word(q), Word(q + 1), Word(q + 2))

Missed(p) == \A n \in 1 .. Len(delivered) : delivered[n].horizontalOffset # p

\* Whatever else is on the line, damaged, truncated or unallocated frames
\* included, a well-formed frame that starts at least seven words behind the
\* last flag is delivered.  (Frames of eight words and more: the loop condition
\* leaves out a frame without payload that ends the line.)
EveryFrameFound ==
  Returned =>
    \A p \in 0 .. len - 8 : WellFormed(p) /\ Clear(p) /\ p \notin starved => ~Missed(p)

\* "For every message, we cache it", and the same message overwrites the one
\* cached before.  With a cache and a line number it has room for, after the call
\* the cell of each type that was on the line holds a frame none of which a later
\* one should have replaced; it is NULL only if there was no memory for the copy
\* of such a frame, whose lost copy is then not made up for by an older one.
EveryFrameCached ==
  Returned /\ Cacheable =>
    \A p \in 0 .. len - 8 : WellFormed(p) /\ Clear(p) /\ p \notin starved =>
      LET k == <<Header(p).did, Header(p).dbnsdid>> IN
      /\ k \in DOMAIN cached
      /\ cached[k] # NULL => cached[k].horizontalOffset >= p
      /\ cached[k] = NULL =>
           \E q \in uncopied : q >= p /\ <<Header(q).did, Header(q).dbnsdid>> = k

\* The parser stays inside the array it was given ("Number of words in array").
ReadsOnLine == reach <= len

=============================================================================
