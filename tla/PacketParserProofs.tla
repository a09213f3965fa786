------------------------- MODULE PacketParserProofs -------------------------
(***************************************************************************)
(* Proofs about PacketParser: on any line, whatever lies in memory behind  *)
(* it and however many allocations fail, the scan stays where it can find  *)
(* frames, and delivers and caches every whole frame.                      *)
(***************************************************************************)
EXTENDS PacketParser, TLAPS, SequenceTheorems, WellFoundedInduction

(* The scan *)

\* The line is one of the environment's.
LineOK == line \in Lines /\ line.words \in Seq(Nat) /\ fill \in Nat /\ len \in Nat

\* The remainder of a natural number is at most the number, and the number
\* itself when it is small enough.
LEMMA SmallRemainder ==
  ASSUME NEW x \in Nat
  PROVE  /\ x % UintModulus \in 0 .. x
         /\ x < UintModulus => x % UintModulus = x
<1>1. UintModulus \in Nat /\ UintModulus > 0
  BY ParserAssumption
<1>2. x = UintModulus * (x \div UintModulus) + (x % UintModulus)
      /\ x % UintModulus \in 0 .. UintModulus - 1 /\ x \div UintModulus \in Nat
  BY <1>1
<1>3. x \div UintModulus >= 1 => UintModulus * (x \div UintModulus) >= UintModulus
  BY <1>1, <1>2
<1>4. x \div UintModulus = 0 \/ x \div UintModulus >= 1
  BY <1>2
<1>5. UintModulus * 0 = 0
  BY <1>1
<1> QED BY <1>1, <1>2, <1>3, <1>4, <1>5

LEMMA SanitizeType ==
  ASSUME NEW w \in Nat
  PROVE  sanitizeWord(w) \in 0 .. 255
BY DEF sanitizeWord

\* The words of a line and of the memory behind it are numbers.
LEMMA WordType ==
  ASSUME LineOK, NEW p \in Nat
  PROVE  Word(p) \in Nat /\ PayloadLength(p) \in 0 .. 255
<1>1. ASSUME NEW q \in Nat PROVE Word(q) \in Nat
  <2>1. CASE q < len
    <3>1. q + 1 \in 1 .. Len(line.words)
      BY <2>1 DEF LineOK, len
    <3>2. line.words[q + 1] \in Nat
      BY <3>1, ElementOfSeq DEF LineOK
    <3> QED BY <2>1, <3>2 DEF Word
  <2>2. CASE ~(q < len)
    BY <2>2 DEF Word, LineOK
  <2> QED BY <2>1, <2>2
<1>2. Word(p + 5) \in Nat
  BY <1>1
<1> QED BY <1>1, <1>2, SanitizeType DEF PayloadLength

\* What parse fills in is a packet header.
LEMMA HeaderType ==
  ASSUME LineOK, NEW p \in Nat
  PROVE  /\ Header(p) \in Frame /\ Header(p) # NULL
         /\ Header(p).horizontalOffset = p
         /\ Header(p).did = sanitizeWord(Word(p + 3))
         /\ Header(p).dbnsdid = sanitizeWord(Word(p + 4))
         /\ Header(p).payload = Slice(p + 6, PayloadLength(p))
         /\ Len(Header(p).payload) = PayloadLength(p)
         /\ Header(p).checksumValid
              = klvanc_checksum_is_valid(Slice(p + 3, PayloadLength(p) + 4))
<1> DEFINE n == PayloadLength(p)
<1>1. n \in 0 .. 255
  BY WordType
<1>2. Word(p + 3) \in Nat /\ Word(p + 4) \in Nat /\ \A k \in 1 .. n : Word(p + 6 + k - 1) \in Nat
  <2>1. \A k \in 1 .. n : p + 6 + k - 1 \in Nat
    BY <1>1
  <2>2. p + 3 \in Nat /\ p + 4 \in Nat
    OBVIOUS
  <2> HIDE DEF n
  <2> QED BY <2>1, <2>2, WordType
<1>3. Slice(p + 6, n) \in Seq(Nat) /\ Len(Slice(p + 6, n)) = n
  <2> HIDE DEF n
  <2>1. Slice(p + 6, n) = [k \in 1 .. n |-> Word(p + 6 + k - 1)]
    BY DEF Slice
  <2>2. Slice(p + 6, n) \in [1 .. n -> Nat]
    BY <1>2, <2>1
  <2> QED BY <1>1, <2>2, SeqDef
<1>4. sanitizeWord(Word(p + 3)) \in 0 .. 255 /\ sanitizeWord(Word(p + 4)) \in 0 .. 255
  BY <1>2, SanitizeType
<1>5. klvanc_checksum_is_valid(Slice(p + 3, n + 4)) \in BOOLEAN
  BY DEF klvanc_checksum_is_valid
<1>6. \A a, b : lookupTypeByDID(a, b) \in Types \cup {NULL}
  BY DEF lookupTypeByDID
<1> HIDE DEF n
<1>7. Header(p) = [did |-> sanitizeWord(Word(p + 3)), dbnsdid |-> sanitizeWord(Word(p + 4)),
                   payload |-> Slice(p + 6, n),
                   checksumValid |-> klvanc_checksum_is_valid(Slice(p + 3, n + 4)),
                   type |-> lookupTypeByDID(sanitizeWord(Word(p + 3)), sanitizeWord(Word(p + 4))),
                   horizontalOffset |-> p]
  BY DEF Header, n
<1>8. Header(p) \in Frame
  BY <1>3, <1>4, <1>5, <1>6, <1>7 DEF Frame
<1>9. NULL \notin Frame
  BY ParserAssumption
<1> QED BY <1>3, <1>7, <1>8, <1>9 DEF n

\* Wherever the scan sees a flag there is room for a frame with a payload:
\* also when the line is so short that the loop condition wraps around.
LEMMA FlagOnLine ==
  ASSUME LineOK, NEW p \in Nat, 0 < len, len <= MaxPayload,
         p < (len - 7) % UintModulus, isValidHeader(p)
  PROVE  p + 8 <= len
<1>0. len \in Nat /\ MaxPayload \in Nat /\ UintModulus \in Nat /\ UintModulus > MaxPayload
  BY ParserAssumption DEF LineOK
<1>1. CASE len >= 7
  <2>1. len - 7 \in Nat /\ len - 7 < UintModulus
    BY <1>0, <1>1
  <2>2. (len - 7) % UintModulus = len - 7
    BY <2>1, SmallRemainder
  <2> QED BY <1>0, <2>2
<1>2. CASE len < 7 /\ p <= len
  <2>1. len - p \in Nat /\ len - p <= 6
    BY <1>0, <1>2
  <2>2. (len - p) % UintModulus \in 0 .. (len - p)
    BY <2>1, SmallRemainder
  <2>3. (len - p) % UintModulus > 7
    BY DEF isValidHeader
  <2> QED BY <2>1, <2>2, <2>3
<1>3. CASE len < 7 /\ p > len
  <2>1. ~(p < len) /\ ~(p + 1 < len)
    BY <1>0, <1>3
  <2>2. Word(p) = fill /\ Word(p + 1) = fill
    BY <2>1 DEF Word
  <2>3. fill < 3 /\ (fill \div 4) % 256 = 255 /\ fill \in Nat
    BY <2>2 DEF isValidHeader, IsADF, LineOK
  <2> QED BY <2>3
<1> QED BY <1>0, <1>1, <1>2, <1>3

----------------------------------------------------------------------------
(* Type correctness *)

\* The state of a running scan.
ScanInv ==
  /\ pc \in {"scan", "found"} => 0 < len /\ len <= MaxPayload
  /\ pc = "found" => /\ i < (len - 7) % UintModulus
                     /\ isValidHeader(i) /\ PayloadLength(i) <= MaxPayload
                     /\ hdr = Header(i)

ParserInv == TypeOK /\ LineOK /\ ScanInv

LEMMA ParserInvInit == Init => ParserInv
<1> SUFFICES ASSUME Init PROVE ParserInv
  OBVIOUS
<1>1. LineOK
  <2>1. line.words \in Seq(Nat) /\ fill \in Nat
    BY ParserAssumption DEF Init
  <2> QED BY <2>1, LenProperties DEF Init, LineOK, len
<1>2. TypeOK
  <2>1. cached = <<>> /\ DOMAIN cached = {}
    BY DEF Init
  <2>2. hdr = NULL /\ pc = "idle"
    BY DEF Init
  <2>3. delivered \in Seq(Frame) /\ decoded \in Seq(Frame)
    BY EmptySeq DEF Init
  <2>4. i \in 0 .. UintModulus - 1
    BY ParserAssumption DEF Init
  <2>5. starved \subseteq Nat /\ uncopied \subseteq Nat
    BY DEF Init
  <2> QED BY <1>1, <2>1, <2>2, <2>3, <2>4, <2>5 DEF Init, TypeOK, LineOK
<1> QED BY <1>1, <1>2 DEF Init, ParserInv, ScanInv

\* No step changes the line, the memory behind it or what is read there.
LEMMA LineStays ==
  ASSUME [Next]_vars
  PROVE  /\ line' = line /\ fill' = fill /\ len' = len /\ (LineOK => LineOK')
         /\ allow_bad_checksums' = allow_bad_checksums
         /\ caching' = caching /\ lineNr' = lineNr /\ Cacheable' = Cacheable
         /\ \A p : /\ Word(p)' = Word(p) /\ PayloadLength(p)' = PayloadLength(p)
                 /\ Header(p)' = Header(p) /\ isValidHeader(p)' = isValidHeader(p)
<1>1. /\ line' = line /\ fill' = fill /\ allow_bad_checksums' = allow_bad_checksums
      /\ caching' = caching /\ lineNr' = lineNr
  BY DEF Next, vars, ParseBegin, ParseSkip, ParseNoMemory, ParseFound, ParseIgnore,
         ParseDeliver, ParseEnd
<1>2. len' = len
  BY <1>1 DEF len
<1>3. \A p : Word(p)' = Word(p)
  BY <1>1, <1>2 DEF Word
<1>4. \A p : PayloadLength(p)' = PayloadLength(p)
  BY <1>3 DEF PayloadLength
<1>5. \A p, n : Slice(p, n)' = Slice(p, n)
  BY <1>3 DEF Slice
<1>6. \A p : Header(p)' = Header(p)
  BY <1>3, <1>4, <1>5 DEF Header
<1>7. \A p : isValidHeader(p)' = isValidHeader(p)
  BY <1>2, <1>3 DEF isValidHeader
<1>8. Cacheable' = Cacheable
  BY <1>1 DEF Cacheable
<1> QED BY <1>1, <1>2, <1>3, <1>4, <1>6, <1>7, <1>8 DEF LineOK

\* What the cache gets for a frame, its cells keep their type.
LEMMA StoreType ==
  ASSUME TypeOK, NEW f, NEW copy \in Frame \cup {NULL}, Store(f, copy),
         f.did \in 0 .. 255, f.dbnsdid \in 0 .. 255
  PROVE  /\ DOMAIN cached' \subseteq (0 .. 255) \X (0 .. 255)
         /\ \A j \in DOMAIN cached' : cached'[j] \in Frame \cup {NULL}
<1> DEFINE k == <<f.did, f.dbnsdid>>
<1>1. k \in (0 .. 255) \X (0 .. 255)
  OBVIOUS
<1>2. cached' = [j \in DOMAIN cached \cup {k} |-> IF j = k THEN copy ELSE cached[j]]
  BY DEF Store
<1> HIDE DEF k
<1>3. DOMAIN cached' = DOMAIN cached \cup {k}
      /\ \A j \in DOMAIN cached' : cached'[j] = IF j = k THEN copy ELSE cached[j]
  BY <1>2
<1>4. DOMAIN cached \subseteq (0 .. 255) \X (0 .. 255)
      /\ \A j \in DOMAIN cached : cached[j] \in Frame \cup {NULL}
  BY DEF TypeOK
<1> QED BY <1>1, <1>3, <1>4

LEMMA ParserInvStep == ParserInv /\ [Next]_vars => ParserInv'
<1> SUFFICES ASSUME ParserInv, [Next]_vars PROVE ParserInv'
  OBVIOUS
<1>0. TypeOK /\ LineOK /\ ScanInv /\ i \in Nat /\ len \in Nat /\ LineOK'
  BY ParserAssumption, LineStays DEF ParserInv, TypeOK, LineOK
<1>1. /\ line' = line /\ fill' = fill /\ len' = len
      /\ allow_bad_checksums' = allow_bad_checksums
      /\ caching' = caching /\ lineNr' = lineNr
      /\ \A p : /\ PayloadLength(p)' = PayloadLength(p) /\ Header(p)' = Header(p)
              /\ isValidHeader(p)' = isValidHeader(p)
  BY LineStays
<1>2. UintModulus \in Nat /\ UintModulus > 0 /\ MaxPayload \in Nat /\ MaxPayload < UintModulus
  BY ParserAssumption
<1>3. (len - 7) % UintModulus \in 0 .. UintModulus - 1
  BY <1>0, <1>2
<1>4. \A n \in Nat : Further(n) => reach' \in Nat
  BY <1>0 DEF Further, TypeOK
<1>5. PayloadLength(i) \in Nat /\ ReadsTo(i) \in Nat
  <2>1. PayloadLength(i) \in Nat
    BY <1>0, WordType, SMTT(30)
  <2>2. ReadsTo(i) \in {0, i + 3, i + 7 + PayloadLength(i)}
    BY DEF ReadsTo
  <2> QED BY <1>0, <2>1, <2>2
<1>6. CASE ParseBegin
  <2>1. /\ pc = "idle" /\ pc' \in {"returned", "scan"}
        /\ pc' = "scan" => len # 0 /\ ~(len > MaxPayload)
        /\ UNCHANGED <<checksum_failures, cached, i, attempts, hdr, delivered, decoded,
                       starved, uncopied, reach>>
    BY <1>6 DEF ParseBegin
  <2>2. TypeOK'
    BY <1>0, <1>1, <2>1 DEF TypeOK
  <2>3. ScanInv'
    BY <1>0, <1>1, <1>2, <2>1 DEF ScanInv
  <2> QED BY <1>0, <2>2, <2>3 DEF ParserInv
<1>7. ASSUME Scanning, i' = i + 1, reach' \in Nat, starved' \subseteq Nat,
             UNCHANGED <<checksum_failures, cached, pc, attempts, hdr, delivered, decoded,
                         uncopied>>
      PROVE  ParserInv'
  <2>1. i + 1 \in 0 .. UintModulus - 1 /\ pc = "scan"
    BY <1>0, <1>2, <1>3, <1>7 DEF Scanning
  <2> QED BY <1>0, <1>1, <1>7, <2>1 DEF ParserInv, TypeOK, ScanInv
<1>8. CASE ParseSkip
  BY <1>0, <1>4, <1>5, <1>7, <1>8 DEF ParseSkip, TypeOK
<1>9. CASE ParseNoMemory
  <2>1. reach' \in Nat /\ starved' \subseteq Nat
    BY <1>0, <1>4, <1>9 DEF ParseNoMemory, TypeOK
  <2> QED BY <1>7, <1>9, <2>1 DEF ParseNoMemory
<1>10. CASE ParseFound
  <2>1. /\ Header(i) \in Frame /\ Header(i) # NULL
        /\ Header(i).did \in 0 .. 255 /\ Header(i).dbnsdid \in 0 .. 255
    BY <1>0, HeaderType, ZenonT(40) DEF Frame
  <2>2. hdr' = Header(i) /\ pc = "scan" /\ pc' = "found"
    BY <1>10 DEF ParseFound, Scanning
  <2>3. checksum_failures' \in Nat /\ attempts' \in Nat /\ reach' \in Nat
    BY <1>0, <1>4, <1>5, <1>10 DEF ParseFound, TypeOK
  <2>4. i \in Nat /\ uncopied \subseteq Nat /\ Header(i) \in Frame \cup {NULL}
    BY <1>0, <2>1 DEF TypeOK
  <2>5. klvanc_cache_update(Header(i))
    BY <1>10 DEF ParseFound
  <2>6. /\ DOMAIN cached \subseteq (0 .. 255) \X (0 .. 255)
        /\ \A j \in DOMAIN cached : cached[j] \in Frame \cup {NULL}
    BY <1>0 DEF TypeOK
  <2>7. ASSUME NEW copy \in Frame \cup {NULL}, Store(Header(i), copy)
        PROVE  /\ DOMAIN cached' \subseteq (0 .. 255) \X (0 .. 255)
               /\ \A j \in DOMAIN cached' : cached'[j] \in Frame \cup {NULL}
    BY <1>0, <2>1, <2>7, StoreType
  <2>10. /\ DOMAIN cached' \subseteq (0 .. 255) \X (0 .. 255)
         /\ \A j \in DOMAIN cached' : cached'[j] \in Frame \cup {NULL}
         /\ uncopied' \subseteq Nat
    <3>1. CASE UNCHANGED <<cached, uncopied>>
      BY <2>4, <2>6, <3>1
    <3>2. CASE Store(Header(i), Header(i)) /\ UNCHANGED uncopied
      BY <2>4, <2>7, <3>2
    <3>3. CASE Store(Header(i), NULL) /\ uncopied' = uncopied \cup {i}
      BY <2>4, <2>7, <3>3
    <3> QED BY <2>5, <3>1, <3>2, <3>3 DEF klvanc_cache_update
  <2>8. TypeOK'
    BY <1>0, <1>1, <1>10, <2>1, <2>2, <2>3, <2>10 DEF TypeOK, ParseFound
  <2>9. ScanInv'
    <3>1. i' = i /\ i < (len - 7) % UintModulus /\ isValidHeader(i)
          /\ PayloadLength(i) <= MaxPayload /\ 0 < len /\ len <= MaxPayload
      BY <1>0, <1>2, <1>5, <1>10, <2>2 DEF ParseFound, Scanning, Rejects, ScanInv
    <3>2. isValidHeader(i)' /\ PayloadLength(i)' = PayloadLength(i) /\ Header(i)' = Header(i)
      BY <1>1, <3>1
    <3> QED BY <1>1, <2>2, <3>1, <3>2 DEF ScanInv
  <2> QED BY <1>0, <2>8, <2>9 DEF ParserInv
<1>11. ASSUME pc = "found", NextFrame, delivered' \in Seq(Frame), decoded' \in Seq(Frame),
              UNCHANGED <<checksum_failures, cached, attempts, starved, uncopied, reach>>
       PROVE  ParserInv'
  <2>1. i + 8 <= len /\ 0 < len /\ len <= MaxPayload
    BY <1>0, <1>11, FlagOnLine DEF ScanInv
  <2>2. i' \in 0 .. UintModulus - 1 /\ hdr' = NULL /\ pc' = "scan"
    BY <1>0, <1>2, <1>11, <2>1 DEF NextFrame
  <2> QED BY <1>0, <1>1, <1>11, <2>1, <2>2 DEF ParserInv, TypeOK, ScanInv
<1>12. CASE ParseIgnore
  BY <1>0, <1>11, <1>12 DEF ParseIgnore, TypeOK
<1>13. CASE ParseDeliver
  <2>1. hdr \in Frame
    BY <1>0, <1>13 DEF ParseDeliver, TypeOK
  <2>2. Append(delivered, hdr) \in Seq(Frame) /\ Append(decoded, hdr) \in Seq(Frame)
    BY <1>0, <2>1, AppendProperties DEF TypeOK
  <2> QED BY <1>0, <1>11, <1>13, <2>2 DEF ParseDeliver, TypeOK
<1>14. CASE ParseEnd
  BY <1>0, <1>1, <1>14 DEF ParseEnd, ParserInv, TypeOK, ScanInv
<1>15. CASE UNCHANGED vars
  BY <1>0, <1>1, <1>15 DEF vars, ParserInv, TypeOK, ScanInv
<1> QED BY <1>6, <1>8, <1>9, <1>10, <1>12, <1>13, <1>14, <1>15 DEF Next

\* The scan keeps its place below the range of unsigned int, though i + 7 is
\* added to it without a test, and a packet header exists exactly while a frame
\* is at hand (klvanc_packet_parse: calloc in parse, free at the loop's end).
THEOREM ParserTypeOK == Spec => []TypeOK
<1>1. ParserInv => TypeOK
  BY DEF ParserInv
<1> QED BY <1>1, ParserInvInit, ParserInvStep, PTL DEF Spec

\* The same with the state of the scan.
LEMMA ParserInvAlways == Spec => []ParserInv
BY ParserInvInit, ParserInvStep, PTL DEF Spec

----------------------------------------------------------------------------
(* Every frame is found                                                    *)

\* The frames the scan has left behind were delivered, and the cache has
\* them or later ones of their type, or NULL when a copy of such a one was lost.
Due(p) == WellFormed(p) /\ Clear(p) /\ p \notin starved
Lost(p, key) ==
  \E q \in uncopied : q >= p /\ <<Header(q).did, Header(q).dbnsdid>> = key
Holds(p, key) ==
  /\ key \in DOMAIN cached
  /\ cached[key] # NULL => cached[key].horizontalOffset >= p
  /\ cached[key] = NULL => Lost(p, key)

FoundInv ==
  /\ \A p \in 0 .. len - 8 : p < i /\ Due(p) => ~Missed(p)
  /\ \A p \in 0 .. len - 8 :
       Cacheable /\ (p < i \/ (pc = "found" /\ p = i)) /\ Due(p) =>
       Holds(p, <<Header(p).did, Header(p).dbnsdid>>)
  /\ pc = "returned" => len = 0 \/ len > MaxPayload \/ i >= len - 7

\* A well-formed frame is not rejected.
LEMMA WellFormedAccepted ==
  ASSUME LineOK, NEW p \in 0 .. len - 8, len <= MaxPayload, WellFormed(p)
  PROVE  ~Rejects(p) /\ Header(p).checksumValid
<1>1. len - p \in Nat /\ len - p < UintModulus /\ len - p > 7 /\ p \in Nat
  BY ParserAssumption DEF LineOK
<1>2. (len - p) % UintModulus = len - p
  BY <1>1, SmallRemainder
<1>3. isValidHeader(p)
  BY <1>1, <1>2 DEF isValidHeader, WellFormed
<1>4. PayloadLength(p) \in Nat
  BY <1>1, WordType, SMTT(30)
<1>5. MaxPayload \in Nat
  BY ParserAssumption
<1> QED BY <1>1, <1>3, <1>4, <1>5 DEF Rejects, WellFormed, LineOK

LEMMA FoundInvStep ==
  ASSUME ParserInv, FoundInv, [Next]_vars
  PROVE  FoundInv'
<1>0. TypeOK /\ LineOK /\ ScanInv /\ i \in Nat /\ len \in Nat
  BY ParserAssumption DEF ParserInv, TypeOK, LineOK
<1>1. /\ len' = len /\ allow_bad_checksums' = allow_bad_checksums
      /\ Cacheable' = Cacheable
      /\ \A p : /\ Word(p)' = Word(p) /\ PayloadLength(p)' = PayloadLength(p)
              /\ Header(p)' = Header(p) /\ isValidHeader(p)' = isValidHeader(p)
  BY LineStays
<1>2. starved \subseteq starved' /\ uncopied \subseteq uncopied'
  BY DEF Next, vars, ParseBegin, ParseSkip, ParseNoMemory, ParseFound, ParseIgnore,
         ParseDeliver, ParseEnd, klvanc_cache_update
<1>21. \A p, key : Lost(p, key) => Lost(p, key)'
  BY <1>1, <1>2 DEF Lost
<1>22. \A p, key : Holds(p, key) /\ cached' = cached => Holds(p, key)'
  BY <1>21 DEF Holds
<1>3. \A p : Due(p)' => Due(p)
  <2>1. \A p : WellFormed(p)' = WellFormed(p) /\ Clear(p)' = Clear(p)
    BY <1>1 DEF WellFormed, Clear
  <2> QED BY <1>2, <2>1 DEF Due
<1>4. CASE ParseBegin
  <2>1. pc' = "returned" => len = 0 \/ len > MaxPayload
    BY <1>4 DEF ParseBegin
  <2> QED BY <1>1, <1>3, <1>4, <1>22, <2>1 DEF ParseBegin, FoundInv, Missed
<1>5. ASSUME Scanning, i' = i + 1, UNCHANGED <<pc, delivered, cached>>,
             \A p \in 0 .. len - 8 : p = i => ~Due(p)'
      PROVE  FoundInv'
  <2>1. pc = "scan" /\ pc' = "scan"
    BY <1>5 DEF Scanning
  <2>2. ASSUME NEW p \in 0 .. len - 8, p < i + 1, Due(p)' PROVE p < i /\ Due(p)
    BY <1>0, <1>3, <1>5, <2>2
  <2> QED BY <1>1, <1>5, <1>22, <2>1, <2>2 DEF FoundInv, Missed
<1>6. CASE ParseSkip
  <2>1. Rejects(i) /\ pc = "scan"
    BY <1>6 DEF ParseSkip, Scanning
  <2>2. len <= MaxPayload
    BY <1>0, <2>1 DEF ScanInv
  <2>3. \A p \in 0 .. len - 8 : p = i => ~WellFormed(p)
    BY <1>0, <2>1, <2>2, WellFormedAccepted
  <2> QED BY <1>3, <1>5, <1>6, <2>3 DEF ParseSkip, Due
<1>7. CASE ParseNoMemory
  <2>1. i \in starved'
    BY <1>7 DEF ParseNoMemory
  <2>2. \A p \in 0 .. len - 8 : p = i => ~Due(p)'
    BY <2>1 DEF Due
  <2> QED BY <1>5, <1>7, <2>2 DEF ParseNoMemory
<1>8. CASE ParseFound
  <2>1. pc = "scan" /\ hdr' = Header(i) /\ UNCHANGED <<i, delivered, starved>> /\ pc' = "found"
    BY <1>8 DEF ParseFound, Scanning
  <2> DEFINE k == <<Header(i).did, Header(i).dbnsdid>>
  <2>2. klvanc_cache_update(Header(i))
    BY <1>8 DEF ParseFound
  <2>3. Header(i).horizontalOffset = i /\ Header(i) # NULL
    BY <1>0, HeaderType
  <2>4. ASSUME NEW p \in 0 .. len - 8, p < i \/ p = i, Due(p)', Cacheable,
               NEW copy, Store(Header(i), copy),
               copy = Header(i) \/ (copy = NULL /\ i \in uncopied')
        PROVE  Holds(p, <<Header(p).did, Header(p).dbnsdid>>)'
    <3>0. PICK j, m : j = <<Header(p).did, Header(p).dbnsdid>> /\ m = k
      OBVIOUS
    <3>1. cached' = [c \in DOMAIN cached \cup {m} |-> IF c = m THEN copy ELSE cached[c]]
      BY <2>4, <3>0 DEF Store
    <3>2. p \in Nat /\ i >= p /\ i' = i
      BY <1>0, <2>1, <2>4
    <3>3. ASSUME copy = NULL PROVE Lost(p, m)'
      <4>1. i \in uncopied'
        BY <2>3, <2>4, <3>3
      <4>2. <<Header(i).did, Header(i).dbnsdid>>' = m
        BY <1>1, <3>0, <3>2
      <4> QED BY <1>1, <3>0, <3>2, <4>1, <4>2 DEF Lost, k
    <3>4. copy # NULL => copy.horizontalOffset >= p
      BY <2>3, <2>4, <3>2
    <3>5. j # m => Holds(p, j)
      <4>1. Due(p) /\ (p = i => j = m)
        BY <1>3, <2>4, <3>0
      <4> QED BY <2>4, <3>0, <4>1 DEF FoundInv
    <3>6. DOMAIN cached' = DOMAIN cached \cup {m}
          /\ \A c \in DOMAIN cached' : cached'[c] = IF c = m THEN copy ELSE cached[c]
      BY <3>1
    <3>7. Holds(p, j)'
      <4>1. CASE j = m
        BY <3>3, <3>4, <3>6, <4>1 DEF Holds
      <4>2. CASE j # m
        BY <1>21, <3>5, <3>6, <4>2 DEF Holds
      <4> QED BY <4>1, <4>2
    <3>8. j = <<Header(p).did, Header(p).dbnsdid>>'
      BY <1>1, <3>0
    <3> QED BY <3>7, <3>8
  <2>5. ASSUME NEW p \in 0 .. len - 8, p < i \/ p = i, Due(p)', Cacheable
        PROVE  Holds(p, <<Header(p).did, Header(p).dbnsdid>>)'
    <3>1. \/ Store(Header(i), Header(i))
          \/ Store(Header(i), NULL) /\ i \in uncopied'
      BY <2>2, <2>5 DEF klvanc_cache_update
    <3> QED BY <2>4, <2>5, <3>1
  <2>6. \A p \in 0 .. len - 8 : p < i /\ Due(p)' => ~Missed(p)'
    BY <1>3, <2>1 DEF FoundInv, Missed
  <2> QED BY <1>1, <2>1, <2>5, <2>6 DEF FoundInv
<1>9. ASSUME pc = "found", NextFrame, cached' = cached,
             \A p : Missed(p)' => Missed(p),
             \A p : p = i /\ Header(p).checksumValid => ~Missed(p)'
      PROVE  FoundInv'
  <2>1. i' = i + 7 /\ pc' = "scan"
    BY <1>9 DEF NextFrame
  <2>2. IsADF(Word(i), Word(i + 1), Word(i + 2))
    BY <1>0, <1>9 DEF ScanInv, isValidHeader
  <2>3. ASSUME NEW p \in 0 .. len - 8, p < i + 7, Due(p)' PROVE (p < i \/ p = i) /\ Due(p)
    <3>1. Due(p)
      BY <1>3, <2>3
    <3>2. CASE p > i
      <4>1. i \in 0 .. p - 1 /\ i > p - 7
        BY <1>0, <2>3, <3>2
      <4> QED BY <2>2, <3>1, <4>1 DEF Due, Clear
    <3> QED BY <1>0, <3>1, <3>2
  <2>4. ASSUME NEW p \in 0 .. len - 8, p < i + 7, Due(p)' PROVE ~Missed(p)'
    <3>1. CASE p < i
      BY <1>9, <2>3, <2>4, <3>1 DEF FoundInv
    <3>2. CASE p = i
      BY <1>9, <2>3, <2>4, <3>2 DEF Due, WellFormed
    <3> QED BY <2>3, <2>4, <3>1, <3>2
  <2>5. ASSUME NEW p \in 0 .. len - 8, p < i + 7, Due(p)', Cacheable
        PROVE  Holds(p, <<Header(p).did, Header(p).dbnsdid>>)'
    <3>1. (p < i \/ p = i) /\ Due(p) /\ pc = "found" /\ cached' = cached
      BY <1>9, <2>3, <2>5
    <3>2. Holds(p, <<Header(p).did, Header(p).dbnsdid>>)
      BY <2>5, <3>1 DEF FoundInv
    <3> QED BY <1>1, <1>22, <3>1, <3>2
  <2> QED BY <1>1, <2>1, <2>4, <2>5 DEF FoundInv
<1>10. CASE ParseIgnore
  <2>1. pc = "found" /\ ~Header(i).checksumValid
    BY <1>0, <1>10 DEF ParseIgnore, Accepted, ScanInv
  <2> QED BY <1>9, <1>10, <2>1 DEF ParseIgnore, Missed
<1>11. CASE ParseDeliver
  <2>1. pc = "found" /\ hdr = Header(i) /\ delivered' = Append(delivered, hdr)
    BY <1>0, <1>11 DEF ParseDeliver, ScanInv
  <2>2. delivered \in Seq(Frame) /\ hdr \in Frame
    BY <1>0, <2>1, HeaderType DEF TypeOK
  <2>3. /\ Len(delivered) \in Nat /\ Len(delivered') = Len(delivered) + 1
        /\ \A n \in 1 .. Len(delivered) : delivered'[n] = delivered[n]
        /\ delivered'[Len(delivered) + 1] = hdr
    BY <2>1, <2>2, AppendProperties
  <2>4. \A p : Missed(p)' => Missed(p)
    BY <2>3 DEF Missed
  <2>5. \A p : p = i => ~Missed(p)'
    <3>1. hdr.horizontalOffset = i
      BY <1>0, <2>1, HeaderType
    <3>2. Len(delivered) + 1 \in 1 .. Len(delivered')
      BY <2>3
    <3> QED BY <2>3, <3>1, <3>2 DEF Missed
  <2> QED BY <1>9, <1>11, <2>4, <2>5 DEF ParseDeliver
<1>12. CASE ParseEnd
  <2>1. pc = "scan" /\ pc' = "returned" /\ ~(i < (len - 7) % UintModulus)
        /\ UNCHANGED <<i, delivered, cached, starved>>
    BY <1>12 DEF ParseEnd, Scanning
  <2>2. i >= len - 7
    <3>1. CASE len >= 7
      <4>1. len <= MaxPayload /\ MaxPayload < UintModulus /\ MaxPayload \in Nat
            /\ UintModulus \in Nat
        BY <1>0, <2>1, ParserAssumption DEF ScanInv
      <4>2. len - 7 \in Nat /\ len - 7 < UintModulus
        BY <1>0, <3>1, <4>1
      <4> QED BY <1>0, <2>1, <4>2, SmallRemainder
    <3> QED BY <1>0, <3>1
  <2> QED BY <1>0, <1>1, <1>3, <1>22, <2>1, <2>2 DEF FoundInv, Missed
<1>13. CASE UNCHANGED vars
  BY <1>1, <1>3, <1>13, <1>22 DEF vars, FoundInv, Missed
<1> QED BY <1>4, <1>6, <1>7, <1>8, <1>10, <1>11, <1>12, <1>13 DEF Next

LEMMA FoundInvAlways == Spec => []FoundInv
<1>1. Init => FoundInv
  BY DEF Init, FoundInv
<1>2. ParserInv /\ FoundInv /\ [Next]_vars => FoundInv'
  BY FoundInvStep
<1> QED BY <1>1, <1>2, ParserInvAlways, PTL DEF Spec

\* However a line is damaged or cut and whichever packet headers could not be
\* allocated: each well-formed frame with room before it is delivered.
THEOREM FramesAreFound == Spec => []EveryFrameFound
<1>1. ParserInv /\ FoundInv => EveryFrameFound
  <2> SUFFICES ASSUME ParserInv, FoundInv, Returned, NEW p \in 0 .. len - 8, Due(p)
               PROVE  ~Missed(p)
    BY DEF EveryFrameFound, Due
  <2>1. len \in Nat /\ i \in Nat
    BY ParserAssumption DEF ParserInv, TypeOK, LineOK
  <2>2. p < i
    BY <2>1, ParserAssumption DEF FoundInv, Returned
  <2> QED BY <2>2 DEF FoundInv
<1> QED BY <1>1, ParserInvAlways, FoundInvAlways, PTL

\* With a cache and a line number it has room for, the cell of its type holds it
\* or a later frame; the cell is NULL only for want of memory to copy such a frame.
THEOREM FramesAreCached == Spec => []EveryFrameCached
<1>1. ParserInv /\ FoundInv => EveryFrameCached
  <2> SUFFICES ASSUME ParserInv, FoundInv, Returned, Cacheable, NEW p \in 0 .. len - 8, Due(p)
               PROVE  Holds(p, <<Header(p).did, Header(p).dbnsdid>>)
    BY DEF EveryFrameCached, Due, Holds, Lost
  <2>1. len \in Nat /\ i \in Nat
    BY ParserAssumption DEF ParserInv, TypeOK, LineOK
  <2>2. p < i
    BY <2>1, ParserAssumption DEF FoundInv, Returned
  <2> QED BY <2>2 DEF FoundInv
<1> QED BY <1>1, ParserInvAlways, FoundInvAlways, PTL

----------------------------------------------------------------------------
(* Recursion over the naturals                                             *)

Less == {ss \in Nat \X Nat : ss[1] < ss[2]}

\* A set of naturals with 0 and all successors is the set of all naturals.
LEMMA InductiveSet ==
  ASSUME NEW T \in SUBSET Nat, 0 \in T, \A n \in T : n + 1 \in T
  PROVE  T = Nat
<1> SUFFICES ASSUME Nat \ T # {} PROVE FALSE
  OBVIOUS
<1>1. IsWellFoundedOn(Less, Nat)
  BY NatLessThanWellFounded DEF OpToRel, Less
<1>2. Nat \ T \in SUBSET Nat /\ Nat \ T # {}
  OBVIOUS
<1>3. PICK n \in Nat \ T : \A m \in Nat \ T : ~(<<m, n>> \in Less)
  BY <1>1, <1>2, WFMin
<1>4. n # 0 /\ n - 1 \in Nat /\ n - 1 < n
  BY <1>3
<1>5. n - 1 \in T
  BY <1>3, <1>4 DEF Less
<1>6. (n - 1) + 1 \in T
  BY <1>5
<1> QED BY <1>3, <1>6

\* A series with a given start in which each member follows from its number and
\* the one before.
IsSeries(f, m, S, a, g) ==
  /\ f \in [0 .. m -> S] /\ f[0] = a
  /\ \A n \in 1 .. m : f[n] = g[<<n, f[n - 1]>>]

LEMMA SeriesExists ==
  ASSUME NEW N \in Nat, NEW S, NEW a \in S, NEW g \in [(1 .. N) \X S -> S]
  PROVE  \E f : IsSeries(f, N, S, a, g)
<1> DEFINE Ok(f, m) == IsSeries(f, m, S, a, g)
           T == {m \in Nat : m <= N => \E f : Ok(f, m)}
<1>1. 0 \in T
  <2>1. Ok([n \in 0 .. 0 |-> a], 0)
    BY DEF IsSeries
  <2> QED BY <2>1
<1>2. ASSUME NEW m \in T PROVE m + 1 \in T
  <2> SUFFICES ASSUME m + 1 <= N PROVE \E f : Ok(f, m + 1)
    OBVIOUS
  <2>1. PICK f : Ok(f, m)
    OBVIOUS
  <2> DEFINE h == [n \in 0 .. m + 1 |-> IF n <= m THEN f[n] ELSE g[<<m + 1, f[m]>>]]
  <2>2. m + 1 \in 1 .. N /\ f[m] \in S /\ g[<<m + 1, f[m]>>] \in S
    BY <2>1 DEF IsSeries
  <2>3. h \in [0 .. m + 1 -> S] /\ h[0] = a
    BY <2>1, <2>2 DEF IsSeries
  <2>4. ASSUME NEW n \in 1 .. m + 1 PROVE h[n] = g[<<n, h[n - 1]>>]
    <3>1. h[n - 1] = f[n - 1] /\ (n <= m => h[n] = f[n] /\ n \in 1 .. m)
      OBVIOUS
    <3>2. n = m + 1 => h[n] = g[<<m + 1, f[m]>>] /\ n - 1 = m
      OBVIOUS
    <3>3. n <= m \/ n = m + 1
      OBVIOUS
    <3> HIDE DEF h
    <3> QED BY <2>1, <3>1, <3>2, <3>3 DEF IsSeries
  <2> HIDE DEF h
  <2>5. Ok(h, m + 1)
    BY <2>3, <2>4 DEF IsSeries
  <2> QED BY <2>5
<1> HIDE DEF Ok
<1>3. T \in SUBSET Nat
  OBVIOUS
<1> HIDE DEF T
<1>4. N \in T
  BY <1>1, <1>2, <1>3, InductiveSet
<1> QED BY <1>4 DEF T, Ok

----------------------------------------------------------------------------
(* The checksum *)

\* The running sums of words.
IsSums(S, words, n) ==
  /\ S \in [0 .. n -> Nat] /\ S[0] = 0
  /\ \A k \in 1 .. n : S[k] = words[k] + S[k - 1]

LEMMA SumsExist ==
  ASSUME NEW n \in Nat, NEW words \in [1 .. n -> Nat]
  PROVE  \E S : IsSums(S, words, n)
<1> DEFINE g == [x \in (1 .. n) \X Nat |-> words[x[1]] + x[2]]
<1>1. g \in [(1 .. n) \X Nat -> Nat]
  OBVIOUS
<1>2. \A k \in 1 .. n, s \in Nat : g[<<k, s>>] = words[k] + s
  OBVIOUS
<1> HIDE DEF g
<1>3. 0 \in Nat
  OBVIOUS
<1>4. n \in Nat
  OBVIOUS
<1>5. PICK S : IsSeries(S, n, Nat, 0, g)
  BY <1>1, <1>3, <1>4, SeriesExists, Zenon
<1>6. \A k \in 1 .. n : S[k - 1] \in Nat
  BY <1>5 DEF IsSeries
<1>7. ASSUME NEW k \in 1 .. n PROVE S[k] = words[k] + S[k - 1]
  <2>1. S[k - 1] \in Nat
    BY <1>6
  <2>2. g[<<k, S[k - 1]>>] = words[k] + S[k - 1]
    BY <1>2, <2>1
  <2> QED BY <1>5, <2>2 DEF IsSeries
<1> QED BY <1>5, <1>7 DEF IsSums, IsSeries

\* Adding by halves gives the running sum.
LEMMA SumIsSum9 ==
  ASSUME NEW n \in Nat, NEW words \in [1 .. n -> Nat], NEW S, IsSums(S, words, n)
  PROVE  Sum9(words, n) = S[n] % 512
<1> DEFINE D == (0 .. n) \X (0 .. n)
           half(lo, hi) == (lo + hi) \div 2
           F(f) == [r \in D |->
                      IF r[1] >= r[2] THEN 0
                      ELSE IF r[2] = r[1] + 1 THEN words[r[2]]
                      ELSE f[<<r[1], half(r[1], r[2])>>] + f[<<half(r[1], r[2]), r[2]>>]]
           z == [r \in D |-> IF r[1] >= r[2] THEN 0 ELSE S[r[2]] - S[r[1]]]
           sum == CHOOSE f : f = F(f)
<1>1. Sum9(words, n) = sum[<<0, n>>] % 512
  BY DEF Sum9
<1>2. S \in [0 .. n -> Nat] /\ \A k \in 1 .. n : S[k] = words[k] + S[k - 1]
  BY DEF IsSums
<1>3. \A lo, hi \in 0 .. n : lo < hi /\ hi # lo + 1 =>
         half(lo, hi) \in 0 .. n /\ lo < half(lo, hi) /\ half(lo, hi) < hi
  OBVIOUS
<1>4. \A lo, hi \in 0 .. n : z[<<lo, hi>>] = IF lo >= hi THEN 0 ELSE S[hi] - S[lo]
  OBVIOUS
<1> HIDE DEF half
<1>5. ASSUME NEW lo \in 0 .. n, NEW hi \in 0 .. n
      PROVE  z[<<lo, hi>>] = IF lo >= hi THEN 0
                         ELSE IF hi = lo + 1 THEN words[hi]
                         ELSE z[<<lo, half(lo, hi)>>] + z[<<half(lo, hi), hi>>]
  <2> HIDE DEF z
  <2>1. CASE lo >= hi
    BY <1>4, <2>1
  <2>2. CASE hi = lo + 1
    <3>1. S[hi] = words[hi] + S[lo] /\ S[lo] \in Nat /\ words[hi] \in Nat
      BY <1>2, <2>2
    <3> QED BY <1>4, <2>2, <3>1
  <2>3. CASE lo < hi /\ hi # lo + 1
    <3>1. half(lo, hi) \in 0 .. n /\ lo < half(lo, hi) /\ half(lo, hi) < hi
      BY <1>3, <2>3
    <3>2. S[lo] \in Nat /\ S[hi] \in Nat /\ S[half(lo, hi)] \in Nat
      BY <1>2, <3>1
    <3>3. z[<<lo, half(lo, hi)>>] = S[half(lo, hi)] - S[lo]
      BY <1>4, <3>1
    <3>4. z[<<half(lo, hi), hi>>] = S[hi] - S[half(lo, hi)]
      BY <1>4, <3>1
    <3>5. z[<<lo, hi>>] = S[hi] - S[lo]
      BY <1>4, <2>3
    <3> QED BY <2>3, <3>2, <3>3, <3>4, <3>5
  <2> QED BY <2>1, <2>2, <2>3
<1>6. z = F(z)
  BY <1>5, ZenonT(40)
<1> HIDE DEF F, z
<1>7. sum = F(sum)
  BY <1>6, Zenon
<1> HIDE DEF sum
<1>8. \A lo, hi \in 0 .. n :
        sum[<<lo, hi>>] = IF lo >= hi THEN 0
                      ELSE IF hi = lo + 1 THEN words[hi]
                      ELSE sum[<<lo, half(lo, hi)>>] + sum[<<half(lo, hi), hi>>]
  BY <1>7 DEF F
<1> DEFINE T == {d \in Nat : \A lo, hi \in 0 .. n : lo <= hi /\ hi - lo <= d =>
                               sum[<<lo, hi>>] = S[hi] - S[lo]}
<1>9. 0 \in T
  <2> SUFFICES ASSUME NEW lo \in 0 .. n, NEW hi \in 0 .. n, lo <= hi /\ hi - lo <= 0
               PROVE  sum[<<lo, hi>>] = S[hi] - S[lo]
    OBVIOUS
  <2>1. lo = hi /\ S[lo] \in Nat /\ S[hi] = S[lo]
    BY <1>2
  <2>2. sum[<<lo, hi>>] = 0
    <3>1. lo >= hi
      BY <2>1
    <3> QED BY <1>8, <3>1
  <2> QED BY <2>1, <2>2
<1>10. ASSUME NEW d \in T PROVE d + 1 \in T
  <2> SUFFICES ASSUME NEW lo \in 0 .. n, NEW hi \in 0 .. n, lo <= hi /\ hi - lo <= d + 1
               PROVE  sum[<<lo, hi>>] = S[hi] - S[lo]
    OBVIOUS
  <2>1. CASE lo >= hi
    <3>1. lo = hi /\ S[lo] \in Nat
      BY <1>2, <2>1
    <3> QED BY <1>8, <3>1
  <2>2. CASE hi = lo + 1
    <3>1. S[hi] = words[hi] + S[lo] /\ S[lo] \in Nat /\ words[hi] \in Nat
      BY <1>2, <2>2
    <3>2. sum[<<lo, hi>>] = words[hi]
      <4>1. ~(lo >= hi)
        BY <2>2
      <4> QED BY <1>8, <2>2, <4>1
    <3> QED BY <3>1, <3>2
  <2>3. CASE lo < hi /\ hi # lo + 1
    <3> DEFINE m == half(lo, hi)
    <3>1. m \in 0 .. n /\ lo < m /\ m < hi
      BY <1>3, <2>3
    <3>2. sum[<<lo, hi>>] = sum[<<lo, m>>] + sum[<<m, hi>>]
      BY <1>8, <2>3
    <3> HIDE DEF m
    <3>3. S[lo] \in Nat /\ S[hi] \in Nat /\ S[m] \in Nat
      BY <1>2, <3>1
    <3>4. m - lo <= d /\ hi - m <= d /\ d \in Nat
      BY <3>1
    <3>5. sum[<<lo, m>>] = S[m] - S[lo] /\ sum[<<m, hi>>] = S[hi] - S[m]
      BY <3>1, <3>4, SMTT(30)
    <3> QED BY <3>2, <3>3, <3>5
  <2> QED BY <2>1, <2>2, <2>3
<1>11. T \in SUBSET Nat
  OBVIOUS
<1> HIDE DEF T
<1>12. n \in T
  BY <1>9, <1>10, <1>11, InductiveSet
<1>13. sum[<<0, n>>] = S[n] - S[0]
  BY <1>12 DEF T
<1>14. sum[<<0, n>>] = S[n]
  BY <1>2, <1>13 DEF IsSums
<1> QED BY <1>1, <1>14

LEMMA Sum9Type ==
  ASSUME NEW n \in Nat, NEW words \in [1 .. n -> Nat]
  PROVE  Sum9(words, n) \in 0 .. 511
<1>1. PICK S : IsSums(S, words, n)
  BY SumsExist
<1>2. S[n] \in Nat
  BY <1>1 DEF IsSums
<1>3. Sum9(words, n) = S[n] % 512
  BY <1>1, SumIsSum9
<1>4. \A x \in Nat : x % 512 \in 0 .. 511
  OBVIOUS
<1> QED BY <1>2, <1>3, <1>4, ZenonT(40)

Low9(w) == w % 512

\* One changed word leaves the sum only if its low nine bits stay.
LEMMA SumOfChange ==
  ASSUME NEW n \in Nat, NEW u \in [1 .. n -> Nat], NEW v \in [1 .. n -> Nat],
         NEW k \in 1 .. n, \A j \in 1 .. n : j # k => v[j] = u[j],
         Sum9(u, n) = Sum9(v, n)
  PROVE  Low9(u[k]) = Low9(v[k])
<1>1. PICK R : IsSums(R, u, n)
  BY SumsExist
<1>2. PICK S : IsSums(S, v, n)
  BY SumsExist
<1> DEFINE T == {m \in Nat : m <= n => S[m] = R[m] + (IF k <= m THEN v[k] - u[k] ELSE 0)}
<1>3. 0 \in T
  BY <1>1, <1>2 DEF IsSums
<1>4. ASSUME NEW m \in T PROVE m + 1 \in T
  <2> SUFFICES ASSUME m + 1 <= n
               PROVE  S[m + 1] = R[m + 1] + (IF k <= m + 1 THEN v[k] - u[k] ELSE 0)
    OBVIOUS
  <2>1. m + 1 \in 1 .. n /\ (m + 1) - 1 = m /\ m \in 0 .. n
    OBVIOUS
  <2>2. S[m + 1] = v[m + 1] + S[m] /\ R[m + 1] = u[m + 1] + R[m]
    BY <1>1, <1>2, <2>1 DEF IsSums
  <2>3. S[m] = R[m] + (IF k <= m THEN v[k] - u[k] ELSE 0)
    BY <2>1
  <2>4. R[m] \in Nat /\ S[m] \in Nat /\ u[k] \in Nat /\ v[k] \in Nat
        /\ u[m + 1] \in Nat /\ v[m + 1] \in Nat
    BY <1>1, <1>2, <2>1 DEF IsSums
  <2>5. CASE k = m + 1
    BY <2>2, <2>3, <2>4, <2>5
  <2>6. CASE k # m + 1
    <3>1. v[m + 1] = u[m + 1] /\ (k <= m + 1 <=> k <= m)
      BY <2>1, <2>6
    <3> QED BY <2>2, <2>3, <2>4, <3>1, SMTT(30)
  <2> QED BY <2>5, <2>6
<1>5. T \in SUBSET Nat
  OBVIOUS
<1> HIDE DEF T
<1>6. n \in T
  BY <1>3, <1>4, <1>5, InductiveSet
<1>7. S[n] = R[n] + v[k] - u[k] /\ R[n] \in Nat /\ S[n] \in Nat /\ u[k] \in Nat /\ v[k] \in Nat
  BY <1>1, <1>2, <1>6 DEF T, IsSums
<1>8. R[n] % 512 = S[n] % 512
  BY <1>1, <1>2, SumIsSum9, SMTT(30)
<1> DEFINE a == R[n]  b == S[n]  c == u[k]  d == v[k]
<1> HIDE DEF a, b, c, d
<1>9. a \in Nat /\ b \in Nat /\ c \in Nat /\ d \in Nat /\ b = a + d - c /\ a % 512 = b % 512
  BY <1>7, <1>8 DEF a, b, c, d
<1>10. c % 512 = d % 512
  BY <1>9
<1> QED BY <1>10 DEF c, d, Low9

----------------------------------------------------------------------------
(* Frames *)

\* The words that neither begin nor continue a flag.
Quiet == {w \in Nat : ~(w < 3) /\ (w \div 4) % 256 # 255}

\* With its parity a byte keeps its value, and is quiet.
LEMMA ParityWord ==
  ASSUME NEW w \in 0 .. 255
  PROVE  WithParity(w) \in Quiet /\ sanitizeWord(WithParity(w)) = w
<1>1. WithParity(w) \in {w + 256, w + 512}
  BY DEF WithParity, SetBit, Bit
<1>2. CASE WithParity(w) = w + 256
  <2> DEFINE x == WithParity(w)
  <2> HIDE DEF x
  <2>1. x = w + 256
    BY <1>2 DEF x
  <2> QED BY <2>1 DEF x, Quiet, sanitizeWord
<1>3. CASE WithParity(w) = w + 512
  <2> DEFINE x == WithParity(w)
  <2> HIDE DEF x
  <2>1. x = w + 512
    BY <1>3 DEF x
  <2> QED BY <2>1 DEF x, Quiet, sanitizeWord
<1> QED BY <1>1, <1>2, <1>3

\* So is a checksum, and it tells the sums apart.
LEMMA Bit9Quiet ==
  ASSUME NEW s \in 0 .. 511
  PROVE  WithBit9(s) \in Quiet /\ WithBit9(s) % 512 = s
<1>1. WithBit9(s) = IF s >= 256 THEN s ELSE s + 512
  BY DEF WithBit9, SetBit, Bit
<1> DEFINE x == WithBit9(s)
<1> HIDE DEF x
<1>2. x = IF s >= 256 THEN s ELSE s + 512
  BY <1>1, SMTT(30) DEF x
<1> QED BY <1>2 DEF x, Quiet

\* What the sender puts in a frame.
Payload == {b \in Seq(0 .. 255) : b # <<>> /\ Len(b) <= 255}
Body(did, sdid, bytes) ==
  [k \in 1 .. Len(bytes) + 3 |->
     WithParity(IF k = 1 THEN did ELSE IF k = 2 THEN sdid
                ELSE IF k = 3 THEN Len(bytes) ELSE bytes[k - 3])]

\* The words of a body are quiet, and without their parity what they should be.
IsBody(body, did, sdid, bytes, n) ==
  /\ n \in 1 .. 255 /\ \A k \in 1 .. n : bytes[k] \in 0 .. 255
  /\ body \in [1 .. n + 3 -> Nat]
  /\ \A k \in 1 .. n + 3 : body[k] \in Quiet
  /\ sanitizeWord(body[1]) = did /\ sanitizeWord(body[2]) = sdid
  /\ sanitizeWord(body[3]) = n
  /\ \A k \in 1 .. n : sanitizeWord(body[k + 3]) = bytes[k]

LEMMA BodyWords ==
  ASSUME NEW did \in 0 .. 255, NEW sdid \in 0 .. 255, NEW bytes \in Payload
  PROVE  IsBody(Body(did, sdid, bytes), did, sdid, bytes, Len(bytes))
<1> DEFINE n == Len(bytes)
           body == Body(did, sdid, bytes)
           raw(k) == IF k = 1 THEN did ELSE IF k = 2 THEN sdid
                     ELSE IF k = 3 THEN n ELSE bytes[k - 3]
<1>1. n \in 1 .. 255 /\ \A k \in 1 .. n : bytes[k] \in 0 .. 255
  <2>1. bytes \in Seq(0 .. 255) /\ bytes # <<>> /\ n <= 255
    BY DEF Payload
  <2>2. n \in Nat \ {0}
    BY <2>1, EmptySeq
  <2>3. \A k \in 1 .. n : bytes[k] \in 0 .. 255
    BY <2>1, ElementOfSeq, SMTT(30)
  <2> HIDE DEF n
  <2>4. n \in 1 .. 255
    BY <2>1, <2>2
  <2> QED BY <2>3, <2>4
<1>2. body = [k \in 1 .. n + 3 |-> WithParity(raw(k))]
  BY DEF Body
<1>3. \A k \in 1 .. n + 3 : raw(k) \in 0 .. 255
  <2> SUFFICES ASSUME NEW k \in 1 .. n + 3 PROVE raw(k) \in 0 .. 255
    OBVIOUS
  <2>1. k \in {1, 2, 3} \/ k - 3 \in 1 .. n
    BY <1>1
  <2> QED BY <1>1, <2>1, SMTT(30)
<1>4. raw(1) = did /\ raw(2) = sdid /\ raw(3) = n /\ \A k \in 1 .. n : raw(k + 3) = bytes[k]
  <2>1. \A k \in 1 .. n : k + 3 \notin {1, 2, 3} /\ (k + 3) - 3 = k
    BY <1>1
  <2> QED BY <2>1
<1> HIDE DEF n, body, raw
<1>5. \A k \in 1 .. n + 3 : body[k] \in Quiet /\ sanitizeWord(body[k]) = raw(k)
  BY <1>2, <1>3, ParityWord
<1>6. body \in [1 .. n + 3 -> Nat]
  <2>1. \A k \in 1 .. n + 3 : body[k] \in Nat
    BY <1>5 DEF Quiet
  <2> QED BY <1>2, <2>1
<1>7. 1 \in 1 .. n + 3 /\ 2 \in 1 .. n + 3 /\ 3 \in 1 .. n + 3
      /\ \A k \in 1 .. n : k + 3 \in 1 .. n + 3
  BY <1>1
<1>8. /\ sanitizeWord(body[1]) = did /\ sanitizeWord(body[2]) = sdid
      /\ sanitizeWord(body[3]) = n
      /\ \A k \in 1 .. n : sanitizeWord(body[k + 3]) = bytes[k]
  BY <1>4, <1>5, <1>7
<1> QED BY <1>1, <1>5, <1>6, <1>8, Zenon DEF n, body, IsBody

\* The frame: the flag, the body, the checksum of the body.
IsFrame(f, body, n) ==
  /\ f \in Seq(Nat) /\ Len(f) = n + 7
  /\ f[1] = 0 /\ f[2] = 1023 /\ f[3] = 1023
  /\ \A k \in 1 .. n + 3 : f[k + 3] = body[k]
  /\ f[n + 7] = WithBit9(Sum9(body, n + 3))
  /\ \A k \in 4 .. n + 7 : f[k] \in Quiet

LEMMA FrameWords ==
  ASSUME NEW did \in 0 .. 255, NEW sdid \in 0 .. 255, NEW bytes \in Payload
  PROVE  IsFrame(klvanc_sdi_create_payload(sdid, did, bytes), Body(did, sdid, bytes), Len(bytes))
<1> DEFINE n == Len(bytes)
           body == Body(did, sdid, bytes)
           c == WithBit9(Sum9(body, n + 3))
           f == klvanc_sdi_create_payload(sdid, did, bytes)
<1>1. n \in 1 .. 255 /\ body \in [1 .. n + 3 -> Nat] /\ \A k \in 1 .. n + 3 : body[k] \in Quiet
  BY BodyWords, ZenonT(40) DEF IsBody
<1>2. body \in Seq(Nat) /\ Len(body) = n + 3
  <2> HIDE DEF body, n
  <2>1. n + 3 \in Nat
    BY <1>1
  <2> QED BY <1>1, <2>1, SeqDef
<1>3. f = <<0, 1023, 1023>> \o body \o <<klvanc_checksum_calculate(body)>>
  BY DEF klvanc_sdi_create_payload, Body
<1>4. klvanc_checksum_calculate(body) = c
  <2> HIDE DEF body, n
  <2> QED BY <1>2 DEF klvanc_checksum_calculate
<1>5. c \in Quiet
  <2> HIDE DEF body, n
  <2>1. n + 3 \in Nat
    BY <1>1
  <2>2. Sum9(body, n + 3) \in 0 .. 511
    BY <1>1, <2>1, Sum9Type
  <2> QED BY <2>2, Bit9Quiet
<1> HIDE DEF n, body, c, f
<1>6. /\ <<0, 1023, 1023>> \in Seq(Nat) /\ Len(<<0, 1023, 1023>>) = 3
      /\ <<c>> \in Seq(Nat) /\ Len(<<c>>) = 1 /\ <<c>>[1] = c
      /\ <<0, 1023, 1023>>[1] = 0 /\ <<0, 1023, 1023>>[2] = 1023 /\ <<0, 1023, 1023>>[3] = 1023
  BY <1>5 DEF Quiet
<1> DEFINE flag == <<0, 1023, 1023>>
           h == flag \o body
<1>7. /\ h \in Seq(Nat) /\ Len(h) = n + 6
      /\ \A k \in 1 .. n + 6 : h[k] = IF k <= 3 THEN flag[k] ELSE body[k - 3]
  <2> HIDE DEF flag
  <2>1. flag \in Seq(Nat) /\ Len(flag) = 3
    BY <1>6 DEF flag
  <2>2. /\ h \in Seq(Nat) /\ Len(h) = Len(flag) + Len(body)
        /\ \A k \in 1 .. Len(flag) + Len(body) :
             h[k] = IF k <= Len(flag) THEN flag[k] ELSE body[k - Len(flag)]
    BY <1>2, <2>1, ConcatProperties, ZenonT(40)
  <2> HIDE DEF h
  <2>3. Len(flag) + Len(body) = n + 6
    BY <1>1, <1>2, <2>1
  <2> QED BY <2>1, <2>2, <2>3
<1> HIDE DEF h
<1>8. f = h \o <<c>>
  BY <1>3, <1>4 DEF h, flag
<1>9. /\ f \in Seq(Nat) /\ Len(f) = n + 7
      /\ \A k \in 1 .. n + 7 : f[k] = IF k <= n + 6 THEN h[k] ELSE <<c>>[k - (n + 6)]
  <2>1. /\ h \o <<c>> \in Seq(Nat) /\ Len(h \o <<c>>) = Len(h) + Len(<<c>>)
        /\ \A k \in 1 .. Len(h) + Len(<<c>>) :
             (h \o <<c>>)[k] = IF k <= Len(h) THEN h[k] ELSE <<c>>[k - Len(h)]
    BY <1>6, <1>7, ConcatProperties
  <2>2. Len(h) + Len(<<c>>) = n + 7
    BY <1>1, <1>6, <1>7
  <2> QED BY <1>7, <1>8, <2>1, <2>2
<1>10. f[1] = 0 /\ f[2] = 1023 /\ f[3] = 1023
  <2>1. h[1] = flag[1] /\ h[2] = flag[2] /\ h[3] = flag[3]
    BY <1>1, <1>7
  <2>2. f[1] = h[1] /\ f[2] = h[2] /\ f[3] = h[3]
    BY <1>1, <1>9
  <2> QED BY <1>6, <2>1, <2>2
<1>11. ASSUME NEW k \in 1 .. n + 3 PROVE f[k + 3] = body[k]
  <2>1. k + 3 \in 1 .. n + 7 /\ k + 3 <= n + 6 /\ k + 3 \in 1 .. n + 6 /\ ~(k + 3 <= 3)
        /\ (k + 3) - 3 = k
    BY <1>1
  <2>2. f[k + 3] = h[k + 3]
    BY <1>9, <2>1
  <2>3. h[k + 3] = body[k]
    BY <1>7, <2>1
  <2> QED BY <2>2, <2>3
<1>12. f[n + 7] = c
  <2>1. n + 7 \in 1 .. n + 7 /\ ~(n + 7 <= n + 6) /\ (n + 7) - (n + 6) = 1
    BY <1>1
  <2>2. f[n + 7] = <<c>>[(n + 7) - (n + 6)]
    BY <1>9, <2>1
  <2> QED BY <1>6, <2>1, <2>2
<1>13. ASSUME NEW k \in 4 .. n + 7 PROVE f[k] \in Quiet
  <2>1. CASE k = n + 7
    BY <1>5, <1>12, <2>1
  <2>2. CASE k # n + 7
    <3>1. k - 3 \in 1 .. n + 3 /\ (k - 3) + 3 = k
      BY <1>1, <2>2
    <3>2. f[(k - 3) + 3] = body[k - 3]
      BY <1>11, <3>1
    <3> QED BY <1>1, <3>1, <3>2
  <2> QED BY <2>1, <2>2
<1> QED BY <1>9, <1>10, <1>11, <1>12, <1>13, SMTT(30) DEF n, body, c, f, IsFrame

----------------------------------------------------------------------------
(* What is found where a frame begins *)

\* From p on the line has the frame of did, sdid and bytes, but for its word b.
FrameAt(p, did, sdid, bytes, b) ==
  \A k \in 1 .. Len(bytes) + 7 :
    k # b => Word(p + k - 1) = klvanc_sdi_create_payload(sdid, did, bytes)[k]

\* Reading a frame of which one word but the count may be damaged: the checksum
\* is right for an undamaged frame, and when it is right the content is.
LEMMA FrameIsRead ==
  ASSUME LineOK, NEW p \in Nat, NEW did \in 0 .. 255, NEW sdid \in 0 .. 255,
         NEW bytes \in Payload, NEW b \in Int, b # 6, FrameAt(p, did, sdid, bytes, b)
  PROVE  /\ PayloadLength(p) = Len(bytes)
         /\ b \notin 1 .. Len(bytes) + 7 => Header(p).checksumValid
         /\ Header(p).checksumValid =>
              Content(Header(p)) = [at |-> p, did |-> did, sdid |-> sdid, bytes |-> bytes]
<1> DEFINE n == Len(bytes)
           body == Body(did, sdid, bytes)
           f == klvanc_sdi_create_payload(sdid, did, bytes)
           s == Slice(p + 3, n + 4)
           front == [k \in 1 .. n + 3 |-> Word(p + 3 + k - 1)]
<1>1. /\ n \in 1 .. 255 /\ \A k \in 1 .. n : bytes[k] \in 0 .. 255
      /\ body \in [1 .. n + 3 -> Nat]
      /\ sanitizeWord(body[1]) = did /\ sanitizeWord(body[2]) = sdid
      /\ sanitizeWord(body[3]) = n
      /\ \A k \in 1 .. n : sanitizeWord(body[k + 3]) = bytes[k]
  <2>1. IsBody(body, did, sdid, bytes, n)
    BY BodyWords, ZenonT(40)
  <2> HIDE DEF n, body
  <2> QED BY <2>1, SMTT(30) DEF IsBody
<1>2. /\ \A k \in 1 .. n + 3 : f[k + 3] = body[k]
      /\ f[n + 7] = WithBit9(Sum9(body, n + 3))
  <2>1. IsFrame(f, body, n)
    BY FrameWords, Zenon
  <2> HIDE DEF n, body, f
  <2> QED BY <2>1 DEF IsFrame
<1>3. \A k \in 1 .. n + 7 : k # b => Word(p + k - 1) = f[k]
  BY DEF FrameAt
<1>4. bytes \in Seq(0 .. 255)
  BY DEF Payload
<1> HIDE DEF n, body, f
<1>5. \A q \in Nat : Word(q) \in Nat
  BY WordType
<1>6. \A k \in 1 .. n + 3 : k + 3 # b => Word(p + 3 + k - 1) = body[k]
  <2> SUFFICES ASSUME NEW k \in 1 .. n + 3, k + 3 # b PROVE Word(p + 3 + k - 1) = body[k]
    OBVIOUS
  <2>1. k + 3 \in 1 .. n + 7 /\ p + (k + 3) - 1 = p + 3 + k - 1
    BY <1>1
  <2>2. Word(p + (k + 3) - 1) = f[k + 3]
    BY <1>3, <2>1
  <2> QED BY <1>2, <2>1, <2>2
<1>7. n + 7 # b => Word(p + 6 + n) = WithBit9(Sum9(body, n + 3))
  <2>1. n + 7 \in 1 .. n + 7 /\ p + (n + 7) - 1 = p + 6 + n
    BY <1>1
  <2> QED BY <1>2, <1>3, <2>1
<1>8. PayloadLength(p) = n
  <2>1. 3 \in 1 .. n + 3 /\ 3 + 3 # b /\ p + 3 + 3 - 1 = p + 5
    BY <1>1
  <2>2. Word(p + 5) = body[3]
    BY <1>6, <2>1
  <2> QED BY <1>1, <2>2 DEF PayloadLength
<1>9. front \in [1 .. n + 3 -> Nat] /\ \A k \in 1 .. n + 3 : front[k] = Word(p + 3 + k - 1)
  <2>1. \A k \in 1 .. n + 3 : p + 3 + k - 1 \in Nat
    BY <1>1
  <2> QED BY <1>5, <2>1
<1>10. Header(p).checksumValid <=> WithBit9(Sum9(front, n + 3)) = Word(p + 6 + n)
  <2>1. s = [k \in 1 .. n + 4 |-> Word(p + 3 + k - 1)]
    BY DEF Slice
  <2>2. \A k \in 1 .. n + 4 : p + 3 + k - 1 \in Nat
    BY <1>1
  <2>3. s \in Seq(Nat) /\ Len(s) = n + 4
    <3>1. s \in [1 .. n + 4 -> Nat]
      BY <1>5, <2>1, <2>2
    <3>2. n + 4 \in Nat
      BY <1>1
    <3> HIDE DEF s
    <3> QED BY <3>1, <3>2, SeqDef
  <2>4. s[n + 4] = Word(p + 6 + n)
    <3>1. n + 4 \in 1 .. n + 4 /\ p + 3 + (n + 4) - 1 = p + 6 + n
      BY <1>1
    <3> HIDE DEF s
    <3> QED BY <2>1, <3>1
  <2>5. Front(s) = front
    <3>1. SubSeq(s, 1, n + 3) = [k \in 1 .. n + 3 |-> s[k]]
      <4>1. (n + 4) - 1 = n + 3 /\ n + 3 \in Nat
        BY <1>1
      <4> HIDE DEF s
      <4> QED BY <1>1, <2>3
    <3>2. Front(s) = SubSeq(s, 1, n + 3)
      <4>1. (n + 4) - 1 = n + 3
        BY <1>1
      <4> HIDE DEF s
      <4> QED BY <2>3, <4>1 DEF Front
    <3>3. \A k \in 1 .. n + 3 : s[k] = Word(p + 3 + k - 1)
      <4>1. \A k \in 1 .. n + 3 : k \in 1 .. n + 4
        BY <1>1
      <4> HIDE DEF s
      <4> QED BY <2>1, <4>1
    <3> HIDE DEF s
    <3> QED BY <3>1, <3>2, <3>3
  <2> HIDE DEF s, front
  <2>6. klvanc_checksum_is_valid(s) <=> klvanc_checksum_calculate(front) = s[n + 4]
    BY <2>3, <2>5 DEF klvanc_checksum_is_valid, Last
  <2>7. Len(front) = n + 3
    <3>1. n + 3 \in Nat
      BY <1>1
    <3> QED BY <1>9, <3>1, SeqDef
  <2>8. klvanc_checksum_calculate(front) = WithBit9(Sum9(front, n + 3))
    BY <2>7 DEF klvanc_checksum_calculate
  <2>9. Header(p).checksumValid = klvanc_checksum_is_valid(s)
    BY <1>8, HeaderType DEF s
  <2> QED BY <2>4, <2>6, <2>8, <2>9
<1> HIDE DEF front, s
<1>11. n + 3 \in Nat
  BY <1>1
<1>12. ASSUME b \notin 1 .. n + 7 PROVE Header(p).checksumValid
  <2>1. \A k \in 1 .. n + 3 : k + 3 # b
    BY <1>1, <1>12
  <2>2. front = body
    BY <1>1, <1>6, <1>9, <2>1
  <2>3. n + 7 # b
    BY <1>1, <1>12
  <2> QED BY <1>7, <1>10, <2>2, <2>3
<1>13. ASSUME Header(p).checksumValid
       PROVE  \A k \in 1 .. n + 3 : sanitizeWord(front[k]) = sanitizeWord(body[k])
  <2>1. CASE b - 3 \in 1 .. n + 3
    <3>1. b # n + 7
      BY <1>1, <2>1
    <3>2. WithBit9(Sum9(front, n + 3)) = WithBit9(Sum9(body, n + 3))
      BY <1>7, <1>10, <1>13, <3>1
    <3>3. Sum9(front, n + 3) \in 0 .. 511 /\ Sum9(body, n + 3) \in 0 .. 511
      BY <1>1, <1>9, <1>11, Sum9Type, ZenonT(40)
    <3>4. Sum9(front, n + 3) = Sum9(body, n + 3)
      BY <3>2, <3>3, Bit9Quiet, ZenonT(40)
    <3>5. \A j \in 1 .. n + 3 : j # b - 3 => front[j] = body[j]
      BY <1>6, <1>9
    <3>6. Low9(body[b - 3]) = Low9(front[b - 3])
      <4>2. body \in [1 .. n + 3 -> Nat] /\ front \in [1 .. n + 3 -> Nat]
            /\ Sum9(body, n + 3) = Sum9(front, n + 3)
            /\ \A j \in 1 .. n + 3 : j # b - 3 => front[j] = body[j]
        BY <1>1, <1>9, <3>4, <3>5
      <4> QED BY <1>11, <2>1, <4>2, SumOfChange, Zenon
    <3>7. body[b - 3] \in Nat /\ front[b - 3] \in Nat
      BY <1>1, <1>9, <2>1
    <3>8. \A x, y \in Nat : x % 512 = y % 512 => x % 256 = y % 256
      OBVIOUS
    <3>9. sanitizeWord(front[b - 3]) = sanitizeWord(body[b - 3])
      BY <3>6, <3>7, <3>8 DEF sanitizeWord, Low9
    <3> QED BY <3>5, <3>9
  <2>2. CASE b - 3 \notin 1 .. n + 3
    <3>1. \A k \in 1 .. n + 3 : k + 3 # b
      BY <1>1, <2>2
    <3> QED BY <1>6, <1>9, <3>1
  <2> QED BY <2>1, <2>2
<1>14. ASSUME Header(p).checksumValid
       PROVE  Content(Header(p)) = [at |-> p, did |-> did, sdid |-> sdid, bytes |-> bytes]
  <2> DEFINE h == Header(p)
  <2>1. /\ h.horizontalOffset = p /\ h.did = sanitizeWord(Word(p + 3))
        /\ h.dbnsdid = sanitizeWord(Word(p + 4)) /\ h.payload = Slice(p + 6, n)
        /\ Len(h.payload) = n
    BY <1>8, HeaderType
  <2> HIDE DEF h
  <2>2. h.did = did /\ h.dbnsdid = sdid
    <3>1. 1 \in 1 .. n + 3 /\ 2 \in 1 .. n + 3 /\ p + 3 + 1 - 1 = p + 3 /\ p + 3 + 2 - 1 = p + 4
      BY <1>1
    <3>2. front[1] = Word(p + 3) /\ front[2] = Word(p + 4)
      BY <1>9, <3>1
    <3> QED BY <1>1, <1>13, <1>14, <2>1, <3>1, <3>2
  <2>3. \A k \in 1 .. n : sanitizeWord(h.payload[k]) = bytes[k]
    <3> SUFFICES ASSUME NEW k \in 1 .. n PROVE sanitizeWord(h.payload[k]) = bytes[k]
      OBVIOUS
    <3>1. h.payload[k] = Word(p + 6 + k - 1)
      BY <2>1 DEF Slice
    <3>2. k + 3 \in 1 .. n + 3 /\ p + 3 + (k + 3) - 1 = p + 6 + k - 1
      BY <1>1
    <3>3. front[k + 3] = Word(p + 6 + k - 1)
      BY <1>9, <3>2
    <3> QED BY <1>1, <1>13, <1>14, <3>1, <3>2, <3>3
  <2>4. [k \in 1 .. Len(h.payload) |-> sanitizeWord(h.payload[k])] = bytes
    <3>1. bytes = [k \in 1 .. n |-> bytes[k]]
      <4>1. DOMAIN bytes = 1 .. n /\ bytes \in [1 .. n -> 0 .. 255]
        BY <1>4, LenProperties, ZenonT(40) DEF n
      <4> QED BY <4>1
    <3> QED BY <2>1, <2>3, <3>1
  <2> QED BY <2>1, <2>2, <2>4 DEF Content, h
<1> QED BY <1>8, <1>12, <1>14 DEF n

----------------------------------------------------------------------------
(* Lines of frames *)

FrameOf(x) == klvanc_sdi_create_payload(x.sdid, x.did, x.bytes)
Gap(x)     == [k \in 1 .. x.gap |-> 64]

\* What a sender may put on a line.
Sendable == {s \in Seq(Items) : \A n \in 1 .. Len(s) : s[n].bytes \in Payload}

\* v is u with the frame of x behind it.
IsJoin(v, u, x) ==
  LET at == Len(u) + x.gap IN
  /\ v \in Seq(Nat) /\ Len(v) = at + Len(x.bytes) + 7
  /\ \A q \in 1 .. Len(u) : v[q] = u[q]
  /\ \A q \in Len(u) + 1 .. at : v[q] = 64
  /\ \A k \in 1 .. Len(x.bytes) + 7 : v[at + k] = FrameOf(x)[k]

LEMMA ItemFrame ==
  ASSUME NEW x \in Items, x.bytes \in Payload
  PROVE  /\ x.gap \in Nat /\ x.did \in 0 .. 255 /\ x.sdid \in 0 .. 255
         /\ Len(x.bytes) \in 1 .. 255
         /\ IsFrame(FrameOf(x), Body(x.did, x.sdid, x.bytes), Len(x.bytes))
<1>1. x.gap \in Nat /\ x.did \in 0 .. 255 /\ x.sdid \in 0 .. 255
  BY DEF Items
<1>2. IsFrame(FrameOf(x), Body(x.did, x.sdid, x.bytes), Len(x.bytes))
  BY <1>1, FrameWords, ZenonT(40) DEF FrameOf
<1>3. IsBody(Body(x.did, x.sdid, x.bytes), x.did, x.sdid, x.bytes, Len(x.bytes))
  BY <1>1, BodyWords, ZenonT(40)
<1> QED BY <1>1, <1>2, <1>3 DEF IsBody

LEMMA JoinWords ==
  ASSUME NEW u \in Seq(Nat), NEW x \in Items, x.bytes \in Payload
  PROVE  IsJoin(u \o Gap(x) \o FrameOf(x), u, x)
<1> DEFINE g == Gap(x)
           f == FrameOf(x)
           n == Len(x.bytes)
           h == u \o g
           v == h \o f
           at == Len(u) + x.gap
<1>1. x.gap \in Nat /\ n \in 1 .. 255 /\ f \in Seq(Nat) /\ Len(f) = n + 7
  BY ItemFrame DEF IsFrame
<1>2. g \in Seq(Nat) /\ Len(g) = x.gap /\ \A k \in 1 .. x.gap : g[k] = 64
  <2>1. g \in [1 .. x.gap -> Nat] /\ \A k \in 1 .. x.gap : g[k] = 64
    BY DEF Gap
  <2> HIDE DEF g
  <2>2. x.gap \in Nat
    BY <1>1
  <2>3. g \in Seq(Nat) /\ Len(g) = x.gap
    BY <2>1, <2>2, SeqDef, SMTT(30)
  <2> QED BY <2>1, <2>3
<1>3. Len(u) \in Nat
  BY LenProperties
<1> HIDE DEF g, f, n
<1>4. /\ h \in Seq(Nat) /\ Len(h) = at
      /\ \A k \in 1 .. at : h[k] = IF k <= Len(u) THEN u[k] ELSE g[k - Len(u)]
  <2>1. /\ h \in Seq(Nat) /\ Len(h) = Len(u) + Len(g)
        /\ \A k \in 1 .. Len(u) + Len(g) : h[k] = IF k <= Len(u) THEN u[k] ELSE g[k - Len(u)]
    BY <1>2, ConcatProperties, SMTT(30)
  <2> QED BY <1>2, <2>1
<1>9. at \in Nat /\ n \in Nat /\ Len(u) <= at /\ at - Len(u) = x.gap
  BY <1>1, <1>3
<1> HIDE DEF h, at
<1>5. /\ v \in Seq(Nat) /\ Len(v) = at + n + 7
      /\ \A k \in 1 .. at + n + 7 : v[k] = IF k <= at THEN h[k] ELSE f[k - at]
  <2>1. /\ v \in Seq(Nat) /\ Len(v) = Len(h) + Len(f)
        /\ \A k \in 1 .. Len(h) + Len(f) : v[k] = IF k <= Len(h) THEN h[k] ELSE f[k - Len(h)]
    BY <1>1, <1>4, ConcatProperties, SMTT(30)
  <2>2. Len(h) = at /\ Len(f) = n + 7
    BY <1>1, <1>4
  <2>3. Len(h) + Len(f) = at + n + 7
    BY <1>9, <2>2
  <2> QED BY <2>1, <2>2, <2>3
<1> HIDE DEF v
<1>6. ASSUME NEW q \in 1 .. Len(u) PROVE v[q] = u[q]
  <2>1. q \in 1 .. at /\ q \in 1 .. at + n + 7 /\ q <= at
    BY <1>3, <1>9
  <2> QED BY <1>4, <1>5, <2>1
<1>7. ASSUME NEW q \in Len(u) + 1 .. at PROVE v[q] = 64
  <2>1. q \in 1 .. at /\ q \in 1 .. at + n + 7 /\ q <= at /\ ~(q <= Len(u))
        /\ q - Len(u) \in 1 .. x.gap
    BY <1>3, <1>9
  <2>2. v[q] = h[q]
    BY <1>5, <2>1
  <2>3. h[q] = g[q - Len(u)]
    BY <1>4, <2>1
  <2> QED BY <1>2, <2>1, <2>2, <2>3
<1>8. ASSUME NEW k \in 1 .. n + 7 PROVE v[at + k] = f[k]
  <2>1. at + k \in 1 .. at + n + 7 /\ ~(at + k <= at) /\ (at + k) - at = k
    BY <1>9
  <2> QED BY <1>5, <2>1
<1> QED BY <1>5, <1>6, <1>7, <1>8 DEF IsJoin, v, h, g, f, n, at

\* The lines a sender builds up frame by frame.
LEMMA WireSeries ==
  ASSUME NEW s \in Sendable
  PROVE  LET w == WireUpTo(s) IN
         /\ w[0] = <<>> /\ \A n \in 0 .. Len(s) : w[n] \in Seq(Nat)
         /\ \A n \in 1 .. Len(s) : w[n] = w[n - 1] \o Gap(s[n]) \o FrameOf(s[n])
<1> DEFINE N == Len(s)
           F(f) == [n \in 0 .. N |-> IF n = 0 THEN <<>>
                                     ELSE f[n - 1] \o Gap(s[n]) \o FrameOf(s[n])]
           g == [x \in (1 .. N) \X Seq(Nat) |-> x[2] \o Gap(s[x[1]]) \o FrameOf(s[x[1]])]
           w == WireUpTo(s)
<1>1. N \in Nat /\ \A n \in 1 .. N : s[n] \in Items /\ s[n].bytes \in Payload
  BY ElementOfSeq, LenProperties DEF Sendable
<1>2. w = CHOOSE f : f = F(f)
  BY DEF WireUpTo, Gap, FrameOf
<1> HIDE DEF N
<1>3. \A n \in 1 .. N, u \in Seq(Nat) : u \o Gap(s[n]) \o FrameOf(s[n]) \in Seq(Nat)
  BY <1>1, JoinWords DEF IsJoin
<1>4. g \in [(1 .. N) \X Seq(Nat) -> Seq(Nat)]
  BY <1>3
<1>5. \A n \in 1 .. N, u \in Seq(Nat) : g[<<n, u>>] = u \o Gap(s[n]) \o FrameOf(s[n])
  OBVIOUS
<1> HIDE DEF g
<1>6. <<>> \in Seq(Nat)
  BY EmptySeq
<1>7. PICK z : IsSeries(z, N, Seq(Nat), <<>>, g)
  BY <1>1, <1>4, <1>6, SeriesExists, Zenon
<1>8. z \in [0 .. N -> Seq(Nat)] /\ z[0] = <<>>
  BY <1>7 DEF IsSeries
<1>9. ASSUME NEW n \in 1 .. N PROVE z[n] = z[n - 1] \o Gap(s[n]) \o FrameOf(s[n])
  <2>1. z[n - 1] \in Seq(Nat)
    BY <1>1, <1>8
  <2>2. z[n] = g[<<n, z[n - 1]>>]
    BY <1>7 DEF IsSeries
  <2> QED BY <1>5, <2>1, <2>2
<1>10. z = F(z)
  <2>1. ASSUME NEW n \in 0 .. N PROVE z[n] = F(z)[n]
    <3>1. CASE n = 0
      BY <1>8, <3>1
    <3>2. CASE n # 0
      <4>1. n \in 1 .. N
        BY <1>1, <3>2
      <4>2. z[n] = z[n - 1] \o Gap(s[n]) \o FrameOf(s[n])
        BY <1>9, <4>1
      <4>3. F(z)[n] = z[n - 1] \o Gap(s[n]) \o FrameOf(s[n])
        BY <3>2
      <4> QED BY <4>2, <4>3
    <3> QED BY <3>1, <3>2
  <2>2. z = [n \in 0 .. N |-> z[n]]
    BY <1>8
  <2> QED BY <2>1, <2>2
<1> HIDE DEF F, w
<1>11. w = F(w)
  BY <1>2, <1>10, Zenon
<1>12. w[0] = <<>>
  BY <1>1, <1>11 DEF F
<1>13. \A n \in 1 .. N : w[n] = w[n - 1] \o Gap(s[n]) \o FrameOf(s[n])
  <2> SUFFICES ASSUME NEW n \in 1 .. N
               PROVE  w[n] = w[n - 1] \o Gap(s[n]) \o FrameOf(s[n])
    OBVIOUS
  <2>1. n \in 0 .. N /\ n # 0
    BY <1>1
  <2>2. F(w)[n] = w[n - 1] \o Gap(s[n]) \o FrameOf(s[n])
    BY <2>1 DEF F
  <2> QED BY <1>11, <2>2
<1>14. \A n \in 0 .. N : w[n] \in Seq(Nat)
  <2> DEFINE T == {n \in Nat : n <= N => w[n] \in Seq(Nat)}
  <2>1. 0 \in T
    BY <1>6, <1>12
  <2>2. ASSUME NEW n \in T PROVE n + 1 \in T
    <3> SUFFICES ASSUME n + 1 <= N PROVE w[n + 1] \in Seq(Nat)
      OBVIOUS
    <3>1. n + 1 \in 1 .. N /\ (n + 1) - 1 = n /\ w[n] \in Seq(Nat)
      BY <1>1
    <3>2. w[n + 1] = w[n] \o Gap(s[n + 1]) \o FrameOf(s[n + 1])
      BY <1>13, <3>1
    <3> QED BY <1>3, <3>1, <3>2
  <2>3. T \in SUBSET Nat
    OBVIOUS
  <2> HIDE DEF T
  <2>4. T = Nat
    BY <2>1, <2>2, <2>3, InductiveSet
  <2> QED BY <1>1, <2>4 DEF T
<1> QED BY <1>12, <1>13, <1>14 DEF w, N

\* Where the frame of the n-th item begins.
Start(s, n) == Len(WireUpTo(s)[n - 1]) + s[n].gap
End(s, n)   == Start(s, n) + Len(s[n].bytes) + 7

\* The first m frames lie one behind the other, each whole, and every word that
\* is not quiet belongs to a flag.
Laid(s, m) ==
  LET u == WireUpTo(s)[m] IN
  /\ \A n \in 1 .. m : /\ Start(s, n) \in Nat /\ End(s, n) <= Len(u)
                       /\ \A k \in 1 .. Len(s[n].bytes) + 7 :
                            u[Start(s, n) + k] = FrameOf(s[n])[k]
                       /\ \A j \in 1 .. n - 1 : End(s, j) <= Start(s, n)
  /\ \A q \in 1 .. Len(u) :
       u[q] \in Quiet \/ \E n \in 1 .. m : q - Start(s, n) \in 1 .. 3

LEMMA LaidStep ==
  ASSUME NEW s \in Sendable, NEW m \in Nat, m + 1 <= Len(s), Laid(s, m)
  PROVE  Laid(s, m + 1)
<1> DEFINE u == WireUpTo(s)[m]
           v == WireUpTo(s)[m + 1]
           x == s[m + 1]
           at == Len(u) + x.gap
<1>0. Len(s) \in Nat /\ m + 1 \in 1 .. Len(s) /\ (m + 1) - 1 = m /\ m \in 0 .. Len(s)
  BY LenProperties DEF Sendable
<1>1. x \in Items /\ x.bytes \in Payload
  BY <1>0, ElementOfSeq DEF Sendable
<1>2. u \in Seq(Nat) /\ v = u \o Gap(x) \o FrameOf(x)
  BY <1>0, WireSeries
<1>3. IsJoin(v, u, x)
  BY <1>1, <1>2, JoinWords
<1>4. Start(s, m + 1) = at /\ End(s, m + 1) = at + Len(x.bytes) + 7
  BY <1>0 DEF Start, End
<1>5. x.gap \in Nat /\ Len(x.bytes) \in 1 .. 255
      /\ IsFrame(FrameOf(x), Body(x.did, x.sdid, x.bytes), Len(x.bytes))
  BY <1>1, ItemFrame
<1>6. Len(u) \in Nat
  BY <1>2, LenProperties
<1>7. /\ \A n \in 1 .. m : /\ Start(s, n) \in Nat /\ End(s, n) <= Len(u)
                           /\ \A k \in 1 .. Len(s[n].bytes) + 7 :
                                u[Start(s, n) + k] = FrameOf(s[n])[k]
                           /\ \A j \in 1 .. n - 1 : End(s, j) <= Start(s, n)
      /\ \A q \in 1 .. Len(u) : u[q] \in Quiet \/ \E n \in 1 .. m : q - Start(s, n) \in 1 .. 3
  BY SMTT(30) DEF Laid
<1>8. \A n \in 1 .. m : Len(s[n].bytes) \in 1 .. 255
  <2>1. \A n \in 1 .. m : n \in 1 .. Len(s)
    BY <1>0
  <2>2. \A n \in 1 .. m : s[n] \in Items /\ s[n].bytes \in Payload
    BY <2>1, ElementOfSeq DEF Sendable
  <2> QED BY <2>2, ItemFrame
<1> HIDE DEF u, v, x
<1>9. /\ Len(v) = at + Len(x.bytes) + 7
      /\ \A q \in 1 .. Len(u) : v[q] = u[q]
      /\ \A q \in Len(u) + 1 .. at : v[q] = 64
      /\ \A k \in 1 .. Len(x.bytes) + 7 : v[at + k] = FrameOf(x)[k]
  BY <1>3 DEF IsJoin
<1>12. /\ at \in Nat /\ Len(v) \in Nat /\ Len(u) <= at /\ at <= Len(v)
       /\ Len(x.bytes) \in Nat
  <2>1. x.gap \in Nat /\ Len(x.bytes) \in Nat
    BY <1>5
  <2>2. at \in Nat /\ Len(u) <= at
    BY <1>6, <2>1
  <2>3. Len(v) = at + Len(x.bytes) + 7
    BY <1>9
  <2> HIDE DEF at
  <2> QED BY <2>1, <2>2, <2>3
<1> HIDE DEF at
<1>10. ASSUME NEW n \in 1 .. m + 1
       PROVE  /\ Start(s, n) \in Nat /\ End(s, n) <= Len(v)
              /\ \A k \in 1 .. Len(s[n].bytes) + 7 : v[Start(s, n) + k] = FrameOf(s[n])[k]
              /\ \A j \in 1 .. n - 1 : End(s, j) <= Start(s, n)
  <2>1. CASE n = m + 1
    <3>1. \A j \in 1 .. m : End(s, j) <= at
      <4>1. \A j \in 1 .. m : End(s, j) \in Nat
        BY <1>7, <1>8, SMTT(30) DEF End
      <4> QED BY <1>6, <1>7, <1>12, <4>1, SMTT(30)
    <3>2. s[n] = x /\ Start(s, n) = at /\ End(s, n) = Len(v) /\ n - 1 = m
      BY <1>4, <1>9, <2>1 DEF x
    <3> QED BY <1>9, <1>12, <3>1, <3>2
  <2>2. CASE n \in 1 .. m
    <3>1. Start(s, n) \in Nat /\ End(s, n) <= Len(u) /\ Len(s[n].bytes) \in 1 .. 255
      BY <1>7, <1>8, <2>2
    <3> DEFINE b == Start(s, n)
               l == Len(s[n].bytes)
    <3>4. b \in Nat /\ l \in Nat /\ b + l + 7 <= Len(u) /\ End(s, n) = b + l + 7
      BY <3>1 DEF End
    <3>2. End(s, n) <= Len(v)
      <4> HIDE DEF b, l
      <4> QED BY <1>6, <1>12, <3>4
    <3>3. ASSUME NEW k \in 1 .. Len(s[n].bytes) + 7
          PROVE  v[Start(s, n) + k] = FrameOf(s[n])[k]
      <4>1. Start(s, n) + k \in 1 .. Len(u)
        <5> HIDE DEF l, b
        <5>1. k \in 1 .. l + 7
          BY DEF l
        <5>2. b + k \in 1 .. Len(u)
          BY <1>6, <3>4, <5>1
        <5> QED BY <5>2 DEF b
      <4>2. u[Start(s, n) + k] = FrameOf(s[n])[k]
        BY <1>7, <2>2
      <4> QED BY <1>9, <4>1, <4>2
    <3> QED BY <1>7, <2>2, <3>1, <3>2, <3>3
  <2> QED BY <2>1, <2>2
<1>11. ASSUME NEW q \in 1 .. Len(v)
       PROVE  v[q] \in Quiet \/ \E n \in 1 .. m + 1 : q - Start(s, n) \in 1 .. 3
  <2>1. CASE q <= Len(u)
    <3>1. q \in 1 .. Len(u)
      BY <1>6, <1>12, <2>1
    <3>2. \A n \in 1 .. m : n \in 1 .. m + 1
      OBVIOUS
    <3> QED BY <1>7, <1>9, <3>1, <3>2
  <2>2. CASE q > Len(u) /\ q <= at
    <3>1. q \in Len(u) + 1 .. at
      BY <1>6, <1>12, <2>2
    <3>2. v[q] = 64
      BY <1>9, <3>1
    <3> QED BY <3>2 DEF Quiet
  <2>3. CASE q > at
    <3>1. q - at \in 1 .. Len(x.bytes) + 7 /\ at + (q - at) = q
      <4>1. Len(v) = at + Len(x.bytes) + 7
        BY <1>9
      <4> QED BY <1>12, <2>3, <4>1
    <3>2. v[q] = FrameOf(x)[q - at]
      <4>1. v[at + (q - at)] = FrameOf(x)[q - at]
        BY <1>9, <3>1
      <4> QED BY <3>1, <4>1
    <3>3. CASE q - at <= 3
      <4>1. q - at \in 1 .. 3 /\ m + 1 \in 1 .. m + 1
        BY <3>1, <3>3
      <4>2. q - Start(s, m + 1) \in 1 .. 3
        BY <1>4, <4>1
      <4> QED BY <4>1, <4>2
    <3>4. CASE ~(q - at <= 3)
      <4>1. q - at \in 4 .. Len(x.bytes) + 7
        BY <1>12, <3>1, <3>4
      <4>2. FrameOf(x)[q - at] \in Quiet
        <5>1. \A k \in 4 .. Len(x.bytes) + 7 : FrameOf(x)[k] \in Quiet
          BY <1>5 DEF IsFrame
        <5> QED BY <4>1, <5>1
      <4> QED BY <3>2, <4>2
    <3> QED BY <3>3, <3>4
  <2> QED BY <1>6, <1>12, <2>1, <2>2, <2>3
<1> QED BY <1>10, <1>11 DEF Laid, v

LEMMA LineLaid ==
  ASSUME NEW s \in Sendable
  PROVE  /\ Laid(s, Len(s)) /\ Wire(s) \in Seq(Nat) /\ Len(s) \in Nat
         /\ \A n \in 1 .. Len(s) : s[n] \in Items /\ s[n].bytes \in Payload
<1> DEFINE T == {m \in Nat : m <= Len(s) => Laid(s, m)}
<1>1. Len(s) \in Nat /\ \A n \in 1 .. Len(s) : s[n] \in Items /\ s[n].bytes \in Payload
  BY ElementOfSeq, LenProperties DEF Sendable
<1>2. 0 \in T
  <2>1. WireUpTo(s)[0] = <<>>
    BY WireSeries
  <2>2. Len(<<>>) = 0
    OBVIOUS
  <2>3. Laid(s, 0)
    BY <2>1, <2>2 DEF Laid
  <2> QED BY <2>3
<1>3. ASSUME NEW m \in T PROVE m + 1 \in T
  BY <1>1, LaidStep
<1>4. T \in SUBSET Nat
  OBVIOUS
<1> HIDE DEF T
<1>5. Len(s) \in T
  BY <1>1, <1>2, <1>3, <1>4, InductiveSet
<1>6. Wire(s) \in Seq(Nat)
  <2>1. Len(s) \in 0 .. Len(s)
    BY <1>1
  <2> QED BY <2>1, WireSeries DEF Wire
<1> QED BY <1>1, <1>5, <1>6 DEF T

\* The line is that of the sender but for the word bad; 0 is none.
Resembles(bad) ==
  /\ line.sent \in Sendable /\ Len(line.words) = Len(Wire(line.sent))
  /\ \A q \in 1 .. Len(line.words) : q # bad => line.words[q] = Wire(line.sent)[q]

\* Whatever the damaged word is now, flags are seen only where frames begin: two
\* words of a flag remain, or the first of the three that was no other's.
LEMMA FlagIsStart ==
  ASSUME LineOK, NEW bad \in Nat, Resembles(bad), NEW p \in Nat, p + 8 <= len,
         isValidHeader(p)
  PROVE  \E n \in 1 .. Len(line.sent) : p = Start(line.sent, n)
<1> DEFINE s == line.sent
           w == Wire(s)
           N == Len(s)
<1>1. s \in Sendable /\ Len(w) = len /\ \A q \in 1 .. len : q # bad => line.words[q] = w[q]
  BY DEF Resembles, len
<1>2. /\ N \in Nat /\ \A n \in 1 .. N : s[n] \in Items /\ s[n].bytes \in Payload
      /\ Laid(s, N) /\ w = WireUpTo(s)[N]
  BY <1>1, LineLaid DEF Wire
<1>3. Word(p) < 3 /\ (Word(p + 1) \div 4) % 256 = 255 /\ (Word(p + 2) \div 4) % 256 = 255
  BY DEF isValidHeader, IsADF
<1>4. \A q \in 0 .. len - 1 : q + 1 # bad => Word(q) = w[q + 1]
  <2> SUFFICES ASSUME NEW q \in 0 .. len - 1, q + 1 # bad PROVE Word(q) = w[q + 1]
    OBVIOUS
  <2>1. q < len /\ q + 1 \in 1 .. len
    BY DEF LineOK
  <2> QED BY <1>1, <2>1 DEF Word
<1> HIDE DEF w, N, s
\* What the words of a frame tell.
<1>5. ASSUME NEW n \in 1 .. N
      PROVE  /\ Start(s, n) \in Nat /\ Start(s, n) + 8 <= len
             /\ w[Start(s, n) + 1] = 0 /\ w[Start(s, n) + 2] = 1023
             /\ w[Start(s, n) + 3] = 1023 /\ w[Start(s, n) + 4] \in Quiet
  <2> DEFINE l == Len(s[n].bytes)
             b == Start(s, n)
             f == FrameOf(s[n])
  <2>1. /\ b \in Nat /\ b + l + 7 <= len
        /\ \A k \in 1 .. l + 7 : w[b + k] = f[k]
    BY <1>1, <1>2, SMTT(30) DEF Laid, End
  <2>2. l \in 1 .. 255 /\ IsFrame(f, Body(s[n].did, s[n].sdid, s[n].bytes), l)
    BY <1>2, ItemFrame
  <2> HIDE DEF l, b, f
  <2>3. f[1] = 0 /\ f[2] = 1023 /\ f[3] = 1023 /\ f[4] \in Quiet
    <3>1. 4 \in 4 .. l + 7
      BY <2>2
    <3> QED BY <2>2, <3>1 DEF IsFrame
  <2>4. 1 \in 1 .. l + 7 /\ 2 \in 1 .. l + 7 /\ 3 \in 1 .. l + 7 /\ 4 \in 1 .. l + 7
        /\ b + 8 <= len
    <3>1. b \in Nat /\ b + l + 7 <= len /\ l \in 1 .. 255 /\ len \in Nat
      BY <2>1, <2>2 DEF LineOK
    <3> HIDE DEF len
    <3> QED BY <3>1
  <2>5. w[b + 1] = 0 /\ w[b + 2] = 1023 /\ w[b + 3] = 1023 /\ w[b + 4] \in Quiet
    BY <2>1, <2>3, <2>4
  <2> QED BY <2>1, <2>4, <2>5 DEF b
<1>6. \A q \in 1 .. len : w[q] \in Quiet \/ \E n \in 1 .. N : q - Start(s, n) \in 1 .. 3
  BY <1>1, <1>2 DEF Laid
<1>7. p + 1 \in 1 .. len /\ p + 2 \in 1 .. len /\ p + 3 \in 1 .. len
      /\ p \in 0 .. len - 1 /\ p + 1 \in 0 .. len - 1 /\ p + 2 \in 0 .. len - 1
      /\ (p + 1) + 1 = p + 2 /\ (p + 2) + 1 = p + 3
  BY DEF LineOK
<1>8. CASE p + 1 # bad
  <2>1. w[p + 1] < 3
    BY <1>3, <1>4, <1>7, <1>8
  <2>2. w[p + 1] \notin Quiet
    BY <2>1 DEF Quiet
  <2>3. PICK n \in 1 .. N : (p + 1) - Start(s, n) \in 1 .. 3
    <3> DEFINE q == p + 1
    <3>1. q \in 1 .. len /\ w[q] \notin Quiet
      BY <1>7, <2>2
    <3> HIDE DEF q
    <3>2. \E n \in 1 .. N : q - Start(s, n) \in 1 .. 3
      BY <1>6, <3>1
    <3> QED BY <3>2 DEF q
  <2> DEFINE b == Start(s, n)
  <2>4. b \in Nat /\ w[b + 2] = 1023 /\ w[b + 3] = 1023
    BY <1>5
  <2> HIDE DEF b
  <2>5. (p + 1) - b \in 1 .. 3
    BY <2>3 DEF b
  <2>6. p + 1 # b + 2 /\ p + 1 # b + 3
    BY <2>1, <2>4
  <2>7. p = b
    BY <2>4, <2>5, <2>6
  <2> QED BY <2>7 DEF b, N, s
<1>9. CASE p + 1 = bad
  <2>1. p + 2 # bad /\ p + 3 # bad
    BY <1>9
  <2>2. Word(p + 1) = w[p + 2] /\ Word(p + 2) = w[p + 3]
    <3>1. Word(p + 1) = w[(p + 1) + 1] /\ Word(p + 2) = w[(p + 2) + 1]
      BY <1>4, <1>7, <2>1
    <3> QED BY <1>7, <3>1
  <2>3. w[p + 2] \notin Quiet /\ w[p + 3] \notin Quiet
    BY <1>3, <2>2 DEF Quiet
  <2>4. PICK n \in 1 .. N : (p + 2) - Start(s, n) \in 1 .. 3
    <3> DEFINE q == p + 2
    <3>1. q \in 1 .. len /\ w[q] \notin Quiet
      BY <1>7, <2>3
    <3> HIDE DEF q
    <3>2. \E n \in 1 .. N : q - Start(s, n) \in 1 .. 3
      BY <1>6, <3>1
    <3> QED BY <3>2 DEF q
  <2> DEFINE b == Start(s, n)
  <2>5. b \in Nat /\ w[b + 1] = 0 /\ w[b + 4] \in Quiet
    BY <1>5
  <2> HIDE DEF b
  <2>6. (p + 2) - b \in 1 .. 3
    BY <2>4 DEF b
  <2>7. p + 2 # b + 1
    <3>1. (w[p + 2] \div 4) % 256 = 255
      BY <1>3, <2>2
    <3>2. (0 \div 4) % 256 = 0
      OBVIOUS
    <3> QED BY <2>5, <3>1, <3>2
  <2>8. p + 3 # b + 4
    BY <2>3, <2>5
  <2>9. p = b
    BY <2>5, <2>6, <2>7, <2>8, SMTT(30)
  <2> QED BY <2>9 DEF b, N, s
<1> QED BY <1>8, <1>9

\* Where the frame of an item begins, it is found, but for the damage.
LEMMA FrameStands ==
  ASSUME LineOK, NEW bad \in Nat, Resembles(bad), NEW n \in 1 .. Len(line.sent)
  PROVE  LET x == line.sent[n]
             p == Start(line.sent, n) IN
         /\ p \in Nat /\ Len(x.bytes) \in 1 .. 255 /\ p + Len(x.bytes) + 7 <= len
         /\ x.did \in 0 .. 255 /\ x.sdid \in 0 .. 255 /\ x.bytes \in Payload
         /\ FrameAt(p, x.did, x.sdid, x.bytes, bad - p)
<1> DEFINE s == line.sent
           w == Wire(s)
           x == s[n]
           p == Start(s, n)
           l == Len(x.bytes)
<1>1. s \in Sendable /\ Len(w) = len /\ \A q \in 1 .. len : q # bad => line.words[q] = w[q]
  BY DEF Resembles, len
<1>2. /\ Len(s) \in Nat /\ x \in Items /\ x.bytes \in Payload
      /\ Laid(s, Len(s)) /\ w = WireUpTo(s)[Len(s)]
  BY <1>1, LineLaid, SMTT(30) DEF Wire
<1>3. x.did \in 0 .. 255 /\ x.sdid \in 0 .. 255 /\ l \in 1 .. 255
  BY <1>2, ItemFrame, ZenonT(40)
<1>4. p \in Nat /\ p + l + 7 <= len /\ \A k \in 1 .. l + 7 : w[p + k] = FrameOf(x)[k]
  BY <1>1, <1>2 DEF Laid, End
<1> HIDE DEF s, w, x, p
<1>5. ASSUME NEW k \in 1 .. l + 7, k # bad - p PROVE Word(p + k - 1) = FrameOf(x)[k]
  <2> HIDE DEF l
  <2>1. /\ p + k \in 1 .. len /\ p + k # bad /\ p + k - 1 < len /\ (p + k - 1) + 1 = p + k
    BY <1>3, <1>4, <1>5 DEF LineOK
  <2>2. Word(p + k - 1) = line.words[p + k]
    BY <2>1 DEF Word
  <2>3. line.words[p + k] = w[p + k]
    BY <1>1, <2>1
  <2> QED BY <1>4, <2>2, <2>3
<1>6. FrameAt(p, x.did, x.sdid, x.bytes, bad - p)
  BY <1>5 DEF FrameAt, FrameOf
<1> QED BY <1>2, <1>3, <1>4, <1>6, Zenon DEF s, x, p

----------------------------------------------------------------------------
(* What is delivered was sent *)

\* Each frame passed to the application was read at a flag on the line.
ReadAt(f, p) ==
  /\ p + 8 <= len /\ isValidHeader(p) /\ f = Header(p)
  /\ Header(p).checksumValid \/ allow_bad_checksums
DeliveredInv == \A n \in 1 .. Len(delivered) : \E p \in Nat : ReadAt(delivered[n], p)

LEMMA DeliveredStep ==
  ASSUME ParserInv, DeliveredInv, [Next]_vars
  PROVE  DeliveredInv'
<1>0. TypeOK /\ LineOK /\ ScanInv /\ i \in Nat
  BY ParserAssumption DEF ParserInv, TypeOK, LineOK
<1>1. /\ len' = len /\ allow_bad_checksums' = allow_bad_checksums
      /\ Cacheable' = Cacheable
      /\ \A p : Header(p)' = Header(p) /\ isValidHeader(p)' = isValidHeader(p)
  BY LineStays
<1>2. \A f, p : ReadAt(f, p)' <=> ReadAt(f, p)
  BY <1>1 DEF ReadAt
<1>3. ASSUME UNCHANGED delivered PROVE DeliveredInv'
  BY <1>2, <1>3 DEF DeliveredInv
<1>4. CASE ParseDeliver
  <2>1. /\ pc = "found" /\ hdr = Header(i) /\ delivered' = Append(delivered, hdr)
        /\ Header(i).checksumValid \/ allow_bad_checksums
    BY <1>0, <1>4 DEF ParseDeliver, ScanInv, Accepted
  <2>2. delivered \in Seq(Frame) /\ hdr \in Frame
    BY <1>0, <2>1, HeaderType DEF TypeOK
  <2>3. /\ Len(delivered) \in Nat /\ Len(delivered') = Len(delivered) + 1
        /\ \A n \in 1 .. Len(delivered) : delivered'[n] = delivered[n]
        /\ delivered'[Len(delivered) + 1] = hdr
    BY <2>1, <2>2, AppendProperties
  <2>4. ReadAt(hdr, i)
    <3>1. i + 8 <= len
      BY <1>0, <2>1, FlagOnLine DEF ScanInv
    <3> QED BY <1>0, <2>1, <3>1 DEF ReadAt, ScanInv
  <2>5. ASSUME NEW n \in 1 .. Len(delivered') PROVE \E p \in Nat : ReadAt(delivered'[n], p)
    <3>1. CASE n = Len(delivered) + 1
      BY <1>0, <2>3, <2>4, <3>1
    <3>2. CASE n # Len(delivered) + 1
      <4>1. n \in 1 .. Len(delivered)
        BY <2>3, <3>2
      <4> QED BY <2>3, <4>1 DEF DeliveredInv
    <3> QED BY <3>1, <3>2
  <2> QED BY <1>2, <2>5 DEF DeliveredInv
<1> QED BY <1>3, <1>4 DEF Next, vars, ParseBegin, ParseSkip, ParseNoMemory, ParseFound,
           ParseIgnore, ParseEnd

LEMMA DeliveredAlways == Spec => []DeliveredInv
<1>1. Init => DeliveredInv
  <2>1. ASSUME Init PROVE DeliveredInv
    <3>1. delivered = <<>> /\ Len(<<>>) = 0
      BY <2>1 DEF Init
    <3> QED BY <3>1 DEF DeliveredInv
  <2> QED BY <2>1
<1>2. ParserInv /\ DeliveredInv /\ [Next]_vars => DeliveredInv'
  BY DeliveredStep
<1> QED BY <1>1, <1>2, ParserInvAlways, PTL DEF Spec

\* The lines of the environment are lines of frames.
LEMMA LineIsSendable ==
  ASSUME LineOK, ShortPayloads
  PROVE  /\ line.sent \in Sendable
         /\ line.words = Wire(line.sent) => Resembles(0)
         /\ line.bad # 0 => line.bad \in Nat /\ Resembles(line.bad)
<1>1. line.sent \in Seq(Items) /\ line.bad \in Nat
  BY ParserAssumption DEF LineOK
<1>2. line.sent \in Sendable
  <2>1. ASSUME NEW n \in 1 .. Len(line.sent) PROVE line.sent[n].bytes \in Payload
    <3>1. line.sent[n] \in Items
      BY <1>1, ElementOfSeq
    <3>2. line.sent[n].bytes \in Seq(0 .. 255)
      BY <3>1 DEF Items
    <3>3. line.sent[n].bytes # <<>>
      BY LinesAssumption DEF LineOK
    <3>4. Len(line.sent[n].bytes) <= 255
      BY DEF LineOK, ShortPayloads
    <3> QED BY <3>2, <3>3, <3>4 DEF Payload
  <2> QED BY <1>1, <2>1 DEF Sendable
<1>3. line.words = Wire(line.sent) => Resembles(0)
  BY <1>2 DEF Resembles
<1>4. ASSUME line.bad # 0 PROVE Resembles(line.bad)
  <2> DEFINE w == Wire(line.sent)
  <2>1. line.words = [w EXCEPT ![line.bad] = line.words[line.bad]]
    BY <1>4, LinesAssumption DEF LineOK
  <2>2. w \in Seq(Nat)
    BY <1>2, LineLaid
  <2> DEFINE v == line.words[line.bad]
  <2> HIDE DEF w, v
  <2>3. w \in [1 .. Len(w) -> Nat] /\ Len(w) \in Nat
    BY <2>2, LenProperties
  <2>4. line.words = [w EXCEPT ![line.bad] = v]
    BY <2>1 DEF v
  <2>5. DOMAIN line.words = 1 .. Len(w) /\ \A q \in 1 .. Len(w) : q # line.bad => line.words[q] = w[q]
    BY <2>3, <2>4
  <2>6. Len(line.words) = Len(w)
    <3>1. DOMAIN line.words = 1 .. Len(line.words) /\ Len(line.words) \in Nat
      BY LenProperties DEF LineOK
    <3> QED BY <2>3, <2>5, <3>1
  <2> QED BY <1>2, <2>5, <2>6 DEF Resembles, w
<1> QED BY <1>1, <1>2, <1>3, <1>4

\* The content sent, item by item.
LEMMA SentItem ==
  ASSUME NEW n \in 1 .. Len(line.sent)
  PROVE  SentContent[n] = [at |-> Start(line.sent, n), did |-> line.sent[n].did,
                           sdid |-> line.sent[n].sdid, bytes |-> line.sent[n].bytes]
BY DEF SentContent, Start

\* A word damaged outside the counts may cost frames, but the application is
\* given none that was not sent so: neither a changed one nor one that the
\* damage made up (klvanc_packet_parse with allow_bad_checksums off).
THEOREM NoFrameIsWrong == ShortPayloads => (Spec => []NoWrongFrame)
<1> SUFFICES ASSUME ShortPayloads PROVE Spec => []NoWrongFrame
  OBVIOUS
<1>1. ParserInv /\ DeliveredInv => NoWrongFrame
  <2> SUFFICES ASSUME ParserInv, DeliveredInv, ~allow_bad_checksums, line.bad # 0,
                      line.bad \notin Counts, NEW k \in 1 .. Len(delivered)
               PROVE  \E m \in 1 .. Len(line.sent) : Content(delivered[k]) = SentContent[m]
    BY DEF NoWrongFrame
  <2> DEFINE b == line.bad
  <2>1. LineOK /\ b \in Nat /\ Resembles(b)
    BY LineIsSendable DEF ParserInv
  <2>2. PICK p \in Nat : ReadAt(delivered[k], p)
    BY DEF DeliveredInv
  <2>3. p + 8 <= len /\ isValidHeader(p) /\ delivered[k] = Header(p) /\ Header(p).checksumValid
    BY <2>2 DEF ReadAt
  <2>4. PICK m \in 1 .. Len(line.sent) : p = Start(line.sent, m)
    BY <2>1, <2>3, FlagIsStart, SMTT(30)
  <2> DEFINE x == line.sent[m]
  <2>5. /\ x.did \in 0 .. 255 /\ x.sdid \in 0 .. 255 /\ x.bytes \in Payload
        /\ FrameAt(p, x.did, x.sdid, x.bytes, b - p)
    BY <2>1, <2>4, FrameStands, ZenonT(40)
  <2>6. SentContent[m] = [at |-> p, did |-> x.did, sdid |-> x.sdid, bytes |-> x.bytes]
    BY <2>4, SentItem
  <2>7. b # p + 6
    <3>1. SentContent[m].at + 6 \in Counts
      BY DEF Counts
    <3>2. SentContent[m].at = p
      BY <2>6
    <3> QED BY <3>1, <3>2
  <2> HIDE DEF b, x
  <2>8. b - p \in Int /\ b - p # 6
    BY <2>1, <2>7
  <2>9. Content(Header(p)) = [at |-> p, did |-> x.did, sdid |-> x.sdid, bytes |-> x.bytes]
    BY <2>1, <2>3, <2>5, <2>8, FrameIsRead, ZenonT(40)
  <2> QED BY <2>3, <2>6, <2>9
<1> QED BY <1>1, ParserInvAlways, DeliveredAlways, PTL

----------------------------------------------------------------------------
(* All that is sent arrives                                                *)

\* On an undamaged line every frame of the sender is well formed and read as
\* it was sent, and the next one begins behind it.
LEMMA FrameArrives ==
  ASSUME LineOK, Resembles(0), NEW n \in 1 .. Len(line.sent)
  PROVE  LET p == Start(line.sent, n) IN
         /\ p \in Nat /\ p + 8 <= len /\ WellFormed(p)
         /\ Content(Header(p)) = SentContent[n]
<1> DEFINE x == line.sent[n]
           p == Start(line.sent, n)
           l == Len(x.bytes)
           f == FrameOf(x)
<1>1. /\ p \in Nat /\ l \in 1 .. 255 /\ p + l + 7 <= len
      /\ x.did \in 0 .. 255 /\ x.sdid \in 0 .. 255 /\ x.bytes \in Payload
      /\ FrameAt(p, x.did, x.sdid, x.bytes, 0 - p)
  BY FrameStands, ZenonT(40)
<1>2. x \in Items
  BY LineLaid DEF Resembles
<1>3. SentContent[n] = [at |-> p, did |-> x.did, sdid |-> x.sdid, bytes |-> x.bytes]
  BY SentItem
<1>4. IsFrame(f, Body(x.did, x.sdid, x.bytes), l)
  BY <1>1, <1>2, ItemFrame, ZenonT(40)
<1>5. \A k \in 1 .. l + 7 : k # 0 - p => Word(p + k - 1) = f[k]
  BY <1>1, ZenonT(40) DEF FrameAt, FrameOf
<1> HIDE DEF x, p, l, f
<1>6. len \in Nat /\ 0 - p \in Int /\ 0 - p # 6 /\ 0 - p \notin 1 .. l + 7 /\ p + 8 <= len
      /\ p + 7 <= len /\ p + 7 + l <= len
  BY <1>1 DEF LineOK
<1>7. PayloadLength(p) = l /\ Header(p).checksumValid
      /\ Content(Header(p)) = [at |-> p, did |-> x.did, sdid |-> x.sdid, bytes |-> x.bytes]
  BY <1>1, <1>6, FrameIsRead, ZenonT(40) DEF l
<1>8. IsADF(Word(p), Word(p + 1), Word(p + 2))
  <2>1. f[1] = 0 /\ f[2] = 1023 /\ f[3] = 1023
    BY <1>4 DEF IsFrame
  <2>2. /\ 1 \in 1 .. l + 7 /\ 2 \in 1 .. l + 7 /\ 3 \in 1 .. l + 7
        /\ 1 # 0 - p /\ 2 # 0 - p /\ 3 # 0 - p
        /\ p + 1 - 1 = p /\ p + 2 - 1 = p + 1 /\ p + 3 - 1 = p + 2
    BY <1>1
  <2>3. Word(p) = f[1] /\ Word(p + 1) = f[2] /\ Word(p + 2) = f[3]
    BY <1>5, <2>2
  <2>4. Word(p) = 0 /\ Word(p + 1) = 1023 /\ Word(p + 2) = 1023
    BY <2>1, <2>3
  <2> QED BY <2>4 DEF IsADF
<1>9. WellFormed(p)
  BY <1>6, <1>7, <1>8 DEF WellFormed
<1> QED BY <1>1, <1>3, <1>6, <1>7, <1>9 DEF p

LEMMA FramesInOrder ==
  ASSUME LineOK, Resembles(0), NEW n \in 1 .. Len(line.sent), NEW j \in 1 .. n - 1
  PROVE  Start(line.sent, j) + 8 <= Start(line.sent, n)
<1>1. Len(line.sent) \in Nat /\ Laid(line.sent, Len(line.sent))
  BY LineLaid DEF Resembles
<1> DEFINE a == Start(line.sent, j)
           b == Start(line.sent, n)
           l == Len(line.sent[j].bytes)
<1>2. a + l + 7 <= b
  BY <1>1 DEF Laid, End
<1>3. j \in 1 .. Len(line.sent)
  BY <1>1
<1>4. a \in Nat /\ b \in Nat /\ l \in 1 .. 255
  BY <1>3, FrameStands, ZenonT(40)
<1> HIDE DEF l, a, b
<1>5. a + 8 <= b
  BY <1>2, <1>4
<1> QED BY <1>5 DEF a, b

\* So far the first frames of the line were delivered, the scan is behind the
\* last of them and has not passed the next.
InOrder ==
  /\ Len(delivered) <= Len(line.sent)
  /\ \A n \in 1 .. Len(delivered) : Content(delivered[n]) = SentContent[n]
  /\ Len(delivered) > 0 => i >= Start(line.sent, Len(delivered)) + 7
  /\ Len(delivered) < Len(line.sent) => i <= Start(line.sent, Len(delivered) + 1)
OrderInv == line.words = Wire(line.sent) /\ starved = {} => InOrder

LEMMA OrderStep ==
  ASSUME ShortPayloads, ParserInv, OrderInv, [Next]_vars
  PROVE  OrderInv'
<1>1. line' = line /\ starved \subseteq starved'
  <2>1. line' = line
    BY LineStays
  <2> QED BY <2>1 DEF Next, vars, ParseBegin, ParseSkip, ParseNoMemory, ParseFound,
          ParseIgnore, ParseDeliver, ParseEnd
<1> SUFFICES ASSUME line.words = Wire(line.sent), starved' = {} PROVE InOrder'
  BY <1>1 DEF OrderInv
<1>2. InOrder
  BY <1>1 DEF OrderInv
<1>3. TypeOK /\ LineOK /\ ScanInv /\ i \in Nat /\ Resembles(0)
  BY ParserAssumption, LineIsSendable DEF ParserInv, TypeOK, LineOK
<1> DEFINE s == line.sent
           N == Len(s)
           m == Len(delivered)
<1>4. /\ N \in Nat /\ m \in Nat /\ delivered \in Seq(Frame)
      /\ \A n \in 1 .. N : /\ Start(s, n) \in Nat /\ Start(s, n) + 8 <= len
                           /\ WellFormed(Start(s, n))
                           /\ Content(Header(Start(s, n))) = SentContent[n]
                           /\ \A j \in 1 .. n - 1 : Start(s, j) + 8 <= Start(s, n)
  <2>1. delivered \in Seq(Frame) /\ m \in Nat /\ N \in Nat
    BY <1>3, LineLaid, LenProperties DEF TypeOK, Resembles
  <2> QED BY <1>3, <2>1, FrameArrives, FramesInOrder
<1>5. SentContent' = SentContent /\ Start(s, m)' = Start(s', m') /\ s' = s
  BY <1>1 DEF SentContent
<1>6. ASSUME UNCHANGED <<i, delivered>> PROVE InOrder'
  BY <1>1, <1>2, <1>5, <1>6 DEF InOrder
\* A flag that the scan stops at is that of a frame sent.
<1>7. ASSUME pc = "found" PROVE \E n \in 1 .. N : i = Start(s, n)
  <2>1. i + 8 <= len /\ isValidHeader(i)
    BY <1>3, <1>7, FlagOnLine DEF ScanInv
  <2> QED BY <1>3, <2>1, FlagIsStart
<1>8. CASE ParseSkip
  <2>1. i' = i + 1 /\ delivered' = delivered /\ pc = "scan" /\ Rejects(i)
    BY <1>8 DEF ParseSkip, Scanning
  <2>2. ASSUME m < N PROVE i # Start(s, m + 1)
    <3>1. m + 1 \in 1 .. N
      BY <1>4, <2>2
    <3> DEFINE p == Start(s, m + 1)
    <3>2. p \in Nat /\ p + 8 <= len /\ WellFormed(p)
      BY <1>4, <3>1
    <3> HIDE DEF p
    <3>3. p \in 0 .. len - 8 /\ len <= MaxPayload
      BY <1>3, <2>1, <3>2 DEF LineOK, ScanInv
    <3>4. ~Rejects(p)
      BY <1>3, <3>2, <3>3, WellFormedAccepted
    <3> QED BY <2>1, <3>4 DEF p
  <2>3. ASSUME m < N PROVE i + 1 <= Start(s, m + 1)
    <3>1. m + 1 \in 1 .. N
      BY <1>4, <2>3
    <3>2. Start(s, m + 1) \in Nat /\ i <= Start(s, m + 1)
      BY <1>2, <1>4, <2>3, <3>1 DEF InOrder
    <3> QED BY <1>3, <2>2, <2>3, <3>2
  <2>4. ASSUME m > 0 PROVE i + 1 >= Start(s, m) + 7
    <3>1. m \in 1 .. N
      BY <1>2, <1>4, <2>4 DEF InOrder
    <3>2. Start(s, m) \in Nat /\ i >= Start(s, m) + 7
      BY <1>2, <1>4, <2>4, <3>1 DEF InOrder
    <3> QED BY <1>3, <3>2
  <2> QED BY <1>1, <1>2, <1>5, <2>1, <2>3, <2>4 DEF InOrder
<1>9. CASE ParseNoMemory
  BY <1>9 DEF ParseNoMemory
<1>10. CASE ParseIgnore
  <2>1. pc = "found" /\ ~Header(i).checksumValid
    BY <1>3, <1>10 DEF ParseIgnore, Accepted, ScanInv
  <2>2. Header(i).checksumValid
    BY <1>4, <1>7, <2>1 DEF WellFormed
  <2> QED BY <2>1, <2>2
<1>11. CASE ParseDeliver
  <2>1. /\ pc = "found" /\ hdr = Header(i) /\ delivered' = Append(delivered, hdr)
        /\ i' = i + 7
    BY <1>3, <1>11 DEF ParseDeliver, NextFrame, ScanInv
  <2>2. hdr \in Frame
    BY <1>3, <2>1, HeaderType DEF TypeOK
  <2>3. /\ Len(delivered') = m + 1 /\ delivered'[m + 1] = hdr
        /\ \A n \in 1 .. m : delivered'[n] = delivered[n]
    BY <1>4, <2>1, <2>2, AppendProperties
  <2>4. PICK n \in 1 .. N : i = Start(s, n)
    BY <1>7, <2>1
  <2>5. n > m
    <3> SUFFICES ASSUME n <= m PROVE FALSE
      BY <1>4
    <3>1. m \in 1 .. N /\ m > 0
      BY <1>2, <1>4 DEF InOrder
    <3>2. Start(s, m) \in Nat /\ i >= Start(s, m) + 7
      BY <1>2, <1>4, <3>1 DEF InOrder
    <3>3. CASE n = m
      BY <2>4, <3>2, <3>3
    <3>4. CASE n # m
      <4>1. n \in 1 .. m - 1
        BY <1>4, <3>4
      <4>2. Start(s, n) + 8 <= Start(s, m) /\ Start(s, n) \in Nat
        BY <1>4, <3>1, <4>1
      <4> QED BY <2>4, <3>2, <4>2
    <3> QED BY <3>3, <3>4
  <2>6. n = m + 1
    <3> SUFFICES ASSUME n # m + 1 PROVE FALSE
      OBVIOUS
    <3>1. m + 1 \in 1 .. n - 1 /\ m + 1 \in 1 .. N /\ m < N
      BY <1>4, <2>5
    <3>2. Start(s, m + 1) \in Nat /\ Start(s, m + 1) + 8 <= Start(s, n) /\ Start(s, n) \in Nat
      BY <1>4, <3>1
    <3>3. i <= Start(s, m + 1)
      BY <1>2, <3>1 DEF InOrder
    <3> QED BY <2>4, <3>2, <3>3
  <2>7. m + 1 <= N /\ i = Start(s, m + 1) /\ i \in Nat
    BY <1>3, <1>4, <2>4, <2>6
  <2>8. \A k \in 1 .. m + 1 : Content(delivered'[k]) = SentContent[k]
    <3> SUFFICES ASSUME NEW k \in 1 .. m + 1 PROVE Content(delivered'[k]) = SentContent[k]
      OBVIOUS
    <3>1. CASE k = m + 1
      <4>1. k \in 1 .. N /\ i = Start(s, k)
        BY <1>4, <2>7, <3>1
      <4>2. Content(Header(i)) = SentContent[k]
        BY <1>4, <4>1
      <4> QED BY <2>1, <2>3, <3>1, <4>2
    <3>2. CASE k # m + 1
      <4>1. k \in 1 .. m
        BY <1>4, <3>2
      <4> QED BY <1>2, <2>3, <4>1 DEF InOrder
    <3> QED BY <3>1, <3>2
  <2>9. ASSUME m + 1 < N PROVE i + 7 <= Start(s, m + 1 + 1)
    <3>1. m + 1 + 1 \in 1 .. N /\ m + 1 \in 1 .. (m + 1 + 1) - 1
      BY <1>4, <2>9
    <3> DEFINE k == m + 1 + 1
               j == m + 1
    <3>2. k \in 1 .. N /\ j \in 1 .. k - 1
      BY <3>1
    <3> HIDE DEF k, j
    <3>3. Start(s, j) + 8 <= Start(s, k) /\ Start(s, k) \in Nat
      BY <1>4, <3>2
    <3>4. i = Start(s, j)
      BY <2>7 DEF j
    <3>5. i + 7 <= Start(s, k)
      BY <2>7, <3>3, <3>4
    <3> QED BY <3>5 DEF k
  <2>10. i + 7 >= Start(s, m + 1) + 7
    BY <2>7
  <2> QED BY <1>1, <1>5, <2>1, <2>3, <2>7, <2>8, <2>9, <2>10 DEF InOrder
<1>12. CASE ParseBegin \/ ParseFound \/ ParseEnd \/ UNCHANGED vars
  BY <1>6, <1>12 DEF ParseBegin, ParseFound, ParseEnd, vars
<1> QED BY <1>8, <1>9, <1>10, <1>11, <1>12 DEF Next

LEMMA OrderAlways == ShortPayloads => (Spec => []OrderInv)
<1> SUFFICES ASSUME ShortPayloads PROVE Spec => []OrderInv
  OBVIOUS
<1>1. ASSUME Init PROVE OrderInv
  <2> SUFFICES ASSUME line.words = Wire(line.sent) PROVE InOrder
    BY DEF OrderInv
  <2>1. delivered = <<>> /\ i = 0 /\ Len(<<>>) = 0
    BY <1>1 DEF Init
  <2>2. LineOK
    BY <1>1, ParserInvInit DEF ParserInv
  <2>3. Resembles(0) /\ Len(line.sent) \in Nat
    BY <2>2, LineIsSendable, LineLaid
  <2>4. ASSUME 0 < Len(line.sent) PROVE Start(line.sent, 0 + 1) \in Nat
    <3>1. 0 + 1 \in 1 .. Len(line.sent)
      BY <2>3, <2>4
    <3> QED BY <2>2, <2>3, <3>1, FrameArrives
  <2> QED BY <2>1, <2>3, <2>4 DEF InOrder
<1>2. ASSUME ParserInv, OrderInv, [Next]_vars PROVE OrderInv'
  BY <1>2, OrderStep
<1> QED BY <1>1, <1>2, ParserInvAlways, PTL DEF Spec

\* What klvanc_sdi_create_payload builds, klvanc_packet_parse finds: on an
\* undamaged line every frame, in order, at its place and byte for byte.
THEOREM SentArrives == ShortPayloads => (Spec => []RoundTrip)
<1> SUFFICES ASSUME ShortPayloads PROVE Spec => []RoundTrip
  OBVIOUS
<1>1. ASSUME ParserInv, FoundInv, OrderInv PROVE RoundTrip
  <2> SUFFICES ASSUME Returned, line.words = Wire(line.sent), starved = {}
               PROVE  Contents(delivered) = SentContent
    BY DEF RoundTrip
  <2> DEFINE s == line.sent
             N == Len(s)
             m == Len(delivered)
  <2>1. TypeOK /\ LineOK /\ InOrder /\ i \in Nat /\ len \in Nat /\ MaxPayload \in Nat
        /\ Resembles(0)
    BY <1>1, ParserAssumption, LineIsSendable DEF ParserInv, TypeOK, LineOK, OrderInv
  <2>2. N \in Nat /\ m \in Nat /\ m <= N
    BY <2>1, LineLaid, LenProperties DEF TypeOK, Resembles, InOrder
  <2>3. m = N
    <3> SUFFICES ASSUME m < N PROVE FALSE
      BY <2>2
    <3>1. m + 1 \in 1 .. N
      BY <2>2
    <3>2. Start(s, m + 1) \in Nat /\ Start(s, m + 1) + 8 <= len
      BY <2>1, <3>1, FrameArrives
    <3>3. i <= Start(s, m + 1)
      BY <2>1 DEF InOrder
    <3>4. len = 0 \/ i >= len - 7
      BY <1>1, <2>1 DEF FoundInv, Returned
    <3> QED BY <2>1, <3>2, <3>3, <3>4
  <2>4. \A n \in 1 .. N : Content(delivered[n]) = SentContent[n]
    BY <2>1, <2>3 DEF InOrder
  <2>5. Contents(delivered) = [n \in 1 .. N |-> Content(delivered[n])]
    BY <2>3 DEF Contents
  <2>6. SentContent = [n \in 1 .. N |-> SentContent[n]]
    BY DEF SentContent
  <2> QED BY <2>4, <2>5, <2>6
<1> QED BY <1>1, ParserInvAlways, FoundInvAlways, OrderAlways, PTL

=============================================================================
