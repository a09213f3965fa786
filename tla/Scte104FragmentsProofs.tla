---------------------- MODULE Scte104FragmentsProofs ----------------------
(* Machine-checked proofs about Scte104Fragments, for every limit on the   *)
(* list, every number and shape of messages and every loss and repeat.     *)
EXTENDS Scte104Fragments, SequenceTheorems, FiniteSetTheorems, TLAPS

USE FragmentsAssumption

\* A receiver recognises every packet of a message for what it is.
LEMMA DescriptorKind ==
  ASSUME NEW i \in Nat, NEW n \in Nat, 1 <= i, i <= n
  PROVE  /\ Descriptor(i, n) \in 0 .. 255
         /\ n = 1 => Kind(Descriptor(i, n)) = "single"
         /\ n > 1 /\ i = 1 => Kind(Descriptor(i, n)) = "first"
         /\ i > 1 /\ i < n => Kind(Descriptor(i, n)) = "mid"
         /\ i > 1 /\ i = n => Kind(Descriptor(i, n)) = "final"
<1>1. Kind(8) = "single" /\ Kind(12) = "first" /\ Kind(14) = "mid" /\ Kind(10) = "final"
  BY DEF Kind, Duplicate, Following, Continued
<1>2. Descriptor(i, n) = IF i < n THEN (IF i > 1 THEN 14 ELSE 12)
                                  ELSE (IF i > 1 THEN 10 ELSE 8)
  BY DEF Descriptor
<1> QED BY <1>1, <1>2

\* The descriptors of Noise are rejected.
LEMMA NoiseKind ==
  /\ Kind(0) = "other" /\ Kind(9) = "duplicate" /\ Kind(13) = "duplicate"
  BY DEF Kind, Duplicate, Following, Continued

\* The payload words of a non-empty list are words, one per fragment.
LEMMA WordsOfTyped ==
  ASSUME NEW frags \in Seq(Packet)
  PROVE  /\ WordsOf(frags) \in Seq(Word)
         /\ Len(WordsOf(frags)) = Len(frags)
         /\ \A i \in 1 .. Len(frags) : WordsOf(frags)[i] = frags[i].word
<1>0. \A i \in 1 .. Len(frags) : frags[i] \in Packet
  OBVIOUS
<1>1. \A i \in 1 .. Len(frags) : frags[i].word \in Word
  BY <1>0 DEF Packet
<1>2. WordsOf(frags) \in [1 .. Len(frags) -> Word] /\ Len(frags) \in Nat
  BY <1>1 DEF WordsOf
<1>3. WordsOf(frags) \in Seq(Word)
  BY <1>2
<1>4. Len(WordsOf(frags)) = Len(frags)
  BY <1>2
<1> QED BY <1>3, <1>4 DEF WordsOf

\* These words are no fewer than their head announces.
Fits(words) == ~(msgs[words[1].id].size > Len(words))

\* These words are a well-formed message as it was sent.
AsSent(words) ==
  words = WordsOfMessage(words[1].id) /\ Honest(msgs[words[1].id])

\* Only words that are no fewer than announced decode; those of a well-formed
\* message as it was sent do.
LEMMA DecodingOutcome ==
  ASSUME TypeOK, NEW words, words[1].id \in 1 .. Len(msgs), NEW decoded \in Decodings(words)
  PROVE  /\ decoded \in BOOLEAN
         /\ decoded = TRUE => Fits(words)
         /\ AsSent(words) => decoded = TRUE
<1> DEFINE m == msgs[words[1].id]
<1>1. m \in Message
  BY DEF TypeOK
<1>2. m.n \in Nat /\ m.ok \in BOOLEAN /\ m.size \in Nat
  BY <1>1 DEF Message
<1>3. decoded \in BOOLEAN
  BY <1>2 DEF Decodings
<1>4. decoded = TRUE => Fits(words)
  BY <1>3 DEF Decodings, Fits
<1>5. ASSUME AsSent(words) PROVE decoded = TRUE
  <2>1. words = [i \in 1 .. m.n |-> [id |-> words[1].id, pos |-> i]]
    BY <1>5 DEF AsSent, WordsOfMessage
  <2>2. Len(words) = m.n
    BY <1>2, <2>1
  <2>3. m.size = m.n /\ m.ok = TRUE
    BY <1>2, <1>5 DEF AsSent, Honest
  <2>4. ~(m.size > Len(words)) /\ words = WordsOfMessage(words[1].id)
    BY <1>2, <1>5, <2>2, <2>3 DEF AsSent
  <2> QED BY <2>3, <2>4 DEF Decodings
<1> QED BY <1>3, <1>4, <1>5

\* What becomes of a message in one packet.
LEMMA SingleOutcome ==
  ASSUME TypeOK, NEW p, p.word.id \in 1 .. Len(msgs), HandleSingle(p)
  PROVE  /\ messageFragmentReset /\ Kind(p.desc) = "single"
         /\ last' = last \/ (last' = <<p.word>> /\ Fits(<<p.word>>))
         /\ AsSent(<<p.word>>) => last' = <<p.word>>
<1>1. PICK decoded \in Decodings(<<p.word>>) : last' = IF decoded THEN <<p.word>> ELSE last
  BY DEF HandleSingle
<1>2. <<p.word>>[1].id \in 1 .. Len(msgs)
  OBVIOUS
<1>3. /\ decoded \in BOOLEAN
      /\ decoded = TRUE => Fits(<<p.word>>)
      /\ AsSent(<<p.word>>) => decoded = TRUE
  BY <1>2, DecodingOutcome
<1> QED BY <1>1, <1>3 DEF HandleSingle

\* What becomes of the assembled message at a final packet: delivered and
\* freed, or left behind, which a well-formed message as sent is only when it
\* exceeds the raw array.
LEMMA FinalOutcome ==
  ASSUME TypeOK, NEW p, NEW all, all = Append(fragments, p), NEW words, words = WordsOf(all),
         words[1].id \in 1 .. Len(msgs), HandleFinal(p), Len(fragments) # 0
  PROVE  \/ /\ last' = words /\ live' = live - Len(fragments)
            /\ Fits(words)
         \/ /\ last' = last /\ live' = live - Len(fragments) + 1
            /\ Overflows(all) \/ ~AsSent(words)
<1>1. PICK decoded \in Decodings(words) :
        IF ~Overflows(all) /\ decoded
        THEN last' = words /\ live' = live - Len(fragments)
        ELSE live' = live - Len(fragments) + 1 /\ UNCHANGED last
  BY DEF HandleFinal
<1>2. /\ decoded \in BOOLEAN
      /\ decoded = TRUE => Fits(words)
      /\ AsSent(words) => decoded = TRUE
  BY DecodingOutcome
<1> QED BY <1>1, <1>2

\* parse_SCTE_104 preserves the list invariant for any packet of a message
\* that was sent, whose descriptor says first or single only at the head.
LEMMA ParsePreserves ==
  ASSUME ListInv, NEW p \in Packet, parse_SCTE_104(p), UNCHANGED msgs,
         p.word.id \in 1 .. Len(msgs),
         Kind(p.desc) \in {"single", "first"} => p.word.pos = 1,
         UNCHANGED <<lost, destroyed>>,
         next' \in Nat, next' >= 1, next' <= Current.n + 1,
         repeated' \in Nat, clean' \in BOOLEAN
  PROVE  ListInv'
<1> USE DEF ListInv, TypeOK, StoredRun
<1>0. msgs' # <<>> => next' <= Current'.n + 1
  BY DEF Current
<1> USE <1>0
<1>1. CASE HandleSingle(p)
  <2>1. <<p.word>> \in Seq(Word) /\ <<p.word>>[1] = p.word /\ Len(<<p.word>>) = 1
    BY DEF Packet
  <2>2. fragments' = <<>> /\ live' = live - Len(fragments) /\ Len(fragments) \in Nat
    BY <1>1 DEF HandleSingle, messageFragmentReset
  <2>3. live' \in Nat /\ live' >= Len(fragments')
    BY <2>2
  <2>4. CASE last' = last
    BY <2>2, <2>3, <2>4
  <2>5. CASE last' = <<p.word>> /\ Fits(<<p.word>>)
    <3>1. p.word.pos = 1
      BY <1>1 DEF HandleSingle
    <3>2. Len(<<p.word>>) >= msgs[p.word.id].size
      <4>1. msgs[p.word.id] \in Message
        OBVIOUS
      <4>2. msgs[p.word.id].size \in Nat
        BY ONLY <4>1, FragmentsAssumption DEF Message
      <4> QED BY <2>1, <2>5, <4>2 DEF Fits
    <3>3. /\ last' \in Seq(Word) /\ last'[1] = p.word /\ Len(last') = 1
      BY <2>1, <2>5
    <3> QED BY <2>2, <2>3, <3>1, <3>2, <3>3
  <2>6. last' = last \/ (last' = <<p.word>> /\ Fits(<<p.word>>))
    BY <1>1, SingleOutcome
  <2> QED BY <2>4, <2>5, <2>6
<1>2. CASE HandleFirst(p)
  BY <1>2 DEF HandleFirst
<1>3. CASE HandleFollowing(p)
  <2>1. CASE messageFragmentReset /\ UNCHANGED last
    BY <2>1 DEF messageFragmentReset
  <2>2. CASE /\ messageFragmentAppend(p) /\ UNCHANGED last /\ Kind(p.desc) = "mid"
             /\ Len(fragments) # 0 /\ Len(fragments) + 1 # MaxFragments
    <3>1. /\ fragments' \in Seq(Packet) /\ Len(fragments') = Len(fragments) + 1
          /\ \A i \in 1 .. Len(fragments) : fragments'[i] = fragments[i]
          /\ fragments'[Len(fragments) + 1] = p
      BY <2>2 DEF messageFragmentAppend
    <3>2. StoredRun'
      <4>1. Len(fragments') < MaxFragments
        BY <2>2, <3>1
      <4>2. ASSUME NEW i \in 1 .. Len(fragments')
            PROVE  Kind(fragments'[i].desc) = IF i = 1 THEN "first" ELSE "mid"
        <5>1. CASE i \in 1 .. Len(fragments)
          BY <3>1, <5>1
        <5>2. CASE i = Len(fragments) + 1
          BY <2>2, <3>1, <5>2
        <5> QED BY <3>1, <5>1, <5>2
      <4> QED BY <4>1, <4>2
    <3>3. /\ fragments'[1].word.pos = 1
          /\ \A i \in 1 .. Len(fragments') : fragments'[i].word.id \in 1 .. Len(msgs')
      <4>1. fragments'[1] = fragments[1] /\ fragments # <<>>
        BY <2>2, <3>1
      <4>2. \A i \in 1 .. Len(fragments') : fragments'[i] = p \/ i \in 1 .. Len(fragments)
        BY <3>1
      <4> QED BY <3>1, <4>1, <4>2
    <3>4. live' >= Len(fragments') /\ live' \in Nat
      BY <2>2, <3>1 DEF messageFragmentAppend
    <3> QED BY <2>2, <3>1, <3>2, <3>3, <3>4
  <2> QED BY <1>3, <2>1, <2>2 DEF HandleFollowing
<1>4. CASE HandleFinal(p)
  <2> DEFINE all == Append(fragments, p)
  <2>1. /\ all \in Seq(Packet) /\ Len(all) = Len(fragments) + 1
        /\ \A i \in 1 .. Len(fragments) : all[i] = fragments[i]
    OBVIOUS
  <2>2. WordsOf(all) \in Seq(Word) /\ Len(WordsOf(all)) = Len(all)
        /\ \A i \in 1 .. Len(all) : WordsOf(all)[i] = all[i].word
    BY <2>1, WordsOfTyped
  <2>3. CASE Len(fragments) = 0
    BY <1>4, <2>3 DEF HandleFinal
  <2>4. CASE Len(fragments) # 0 /\ last' = WordsOf(all) /\ Fits(WordsOf(all))
             /\ live' = live - Len(fragments)
    <3>1. all[1] = fragments[1] /\ Len(all) <= MaxFragments
      BY <2>1, <2>4
    <3>2. last'[1].pos = 1 /\ last'[1].id \in 1 .. Len(msgs) /\ Len(last') = Len(all)
      BY <2>1, <2>2, <2>4, <3>1, SMTT(30)
    <3>3. Len(last') >= msgs[last'[1].id].size
      <4>1. msgs[last'[1].id] \in Message
        BY <3>2
      <4>2. msgs[last'[1].id].size \in Nat
        BY ONLY <4>1, FragmentsAssumption DEF Message
      <4>3. ~(msgs[last'[1].id].size > Len(last'))
        BY <2>4 DEF Fits
      <4>4. Len(last') \in Nat
        BY <2>1, <3>2
      <4> QED BY ONLY <4>2, <4>3, <4>4
    <3> QED BY <1>4, <2>2, <2>4, <3>1, <3>2, <3>3 DEF HandleFinal
  <2>5. CASE live' = live - Len(fragments) + 1 /\ UNCHANGED last
    BY <1>4, <2>5, SMTT(30) DEF HandleFinal
  <2>6. CASE Len(fragments) # 0
    <3>1. WordsOf(all)[1].id \in 1 .. Len(msgs)
      <4>1. all[1] = fragments[1] /\ fragments # <<>>
        BY <2>1, <2>6
      <4>2. fragments[1].word.id \in 1 .. Len(msgs)
        BY <2>6
      <4>3. 1 \in 1 .. Len(all)
        BY <2>1
      <4> QED BY <2>2, <4>1, <4>2, <4>3
    <3> HIDE DEF all
    <3>2. all = Append(fragments, p)
      BY DEF all
    <3>3. \/ /\ last' = WordsOf(all) /\ live' = live - Len(fragments)
             /\ Fits(WordsOf(all))
          \/ last' = last /\ live' = live - Len(fragments) + 1
      BY <1>4, <2>6, <3>1, <3>2, FinalOutcome
    <3> QED BY <2>4, <2>5, <2>6, <3>3
  <2> QED BY <2>1, <2>3, <2>6
<1>5. CASE HandleRejected(p)
  BY <1>5 DEF HandleRejected
<1> QED BY <1>1, <1>2, <1>3, <1>4, <1>5 DEF parse_SCTE_104

\* A message in progress has packets left to send.
LEMMA InProgress ==
  ASSUME TypeOK, Len(msgs) > 0
  PROVE  /\ Current.n \in Nat /\ Current.n >= 1
         /\ ~Done <=> next <= Current.n
<1>1. Current \in Message
  BY DEF TypeOK, Current
<1>2. Current.n \in Nat /\ Current.n >= 1
  BY <1>1 DEF Message
<1>3. msgs # <<>>
  BY DEF TypeOK
<1> QED BY <1>2, <1>3 DEF Done, TypeOK

\* The packets of the message in progress are packets as ParsePreserves wants
\* them.
LEMMA PacketAtTyped ==
  ASSUME TypeOK, Len(msgs) > 0, NEW i \in Nat, 1 <= i, i <= Current.n
  PROVE  /\ PacketAt(i) \in Packet
         /\ Current.n \in Nat
         /\ PacketAt(i).word = [id |-> Len(msgs), pos |-> i]
         /\ PacketAt(i).word.id \in 1 .. Len(msgs)
         /\ Kind(PacketAt(i).desc) \in {"single", "first"} => PacketAt(i).word.pos = 1
<1>1. Current \in Message
  BY DEF TypeOK, Current
<1>2. Current.n \in Nat
  BY <1>1 DEF Message
<1>3. /\ Descriptor(i, Current.n) \in 0 .. 255
      /\ i > 1 => Kind(Descriptor(i, Current.n)) \notin {"single", "first"}
  BY <1>2, DescriptorKind, SMTT(30)
<1> QED BY <1>2, <1>3 DEF PacketAt, Packet, Word, TypeOK

----------------------------------------------------------------------------
(* The list *)

\* A failed allocation leaves the list as it was or empty.
LEMMA NoMemoryPreserves ==
  ASSUME ListInv, NEW p \in Packet,
         UNCHANGED <<fragments, live, last>> \/ ParseOutOfMemory(p),
         UNCHANGED <<msgs, repeated, destroyed>>, next' = next + 1, next' <= Current.n + 1,
         lost' \in Nat,
         clean' \in BOOLEAN
  PROVE  ListInv'
<1> USE DEF ListInv, TypeOK, StoredRun
<1>0. msgs' # <<>> => next' <= Current'.n + 1
  BY DEF Current
<1> USE <1>0
<1>1. CASE UNCHANGED <<fragments, live, last>>
  BY <1>1
<1>2. CASE messageFragmentReset /\ UNCHANGED last
  BY <1>2 DEF messageFragmentReset
<1>3. CASE fragments' = <<>> /\ live' = live - Len(fragments) + 1 /\ UNCHANGED last
  BY <1>3
<1> QED BY <1>1, <1>2, <1>3 DEF ParseOutOfMemory

\* Every step preserves the list invariant.
LEMMA ListInvStep == ListInv /\ [Next]_vars => ListInv'
<1> SUFFICES ASSUME ListInv, [Next]_vars PROVE ListInv'
  OBVIOUS
<1>0. TypeOK /\ next >= 1 /\ Len(msgs) \in Nat
  BY DEF ListInv, TypeOK
<1>1. CASE UNCHANGED vars
  BY <1>1 DEF vars, ListInv, TypeOK, StoredRun, Current
<1>2. CASE StartMessage
  <2>1. PICK m \in Message : msgs' = Append(msgs, m)
    BY <1>2 DEF StartMessage
  <2>2. /\ msgs' \in Seq(Message) /\ Len(msgs') = Len(msgs) + 1
        /\ \A i \in 1 .. Len(msgs) : msgs'[i] = msgs[i]
    BY <1>0, <2>1 DEF TypeOK
  <2>3. msgs'[Len(msgs')] = m /\ m.n >= 1 /\ m.n \in Nat
    BY <1>0, <2>1 DEF TypeOK, Message
  <2>4. next' <= Current'.n + 1
    BY <1>2, <2>3 DEF StartMessage, Current
  <2> QED BY <1>2, <2>2, <2>4, SMTT(30) DEF StartMessage, ListInv, TypeOK, StoredRun
<1>3. CASE Receive
  <2>1. Len(msgs) > 0 /\ next <= Current.n
    <3>1. msgs # <<>>
      BY <1>3 DEF Receive, Done
    <3> QED BY <1>0, <1>3, <3>1, InProgress DEF Receive, TypeOK
  <2>2. /\ PacketAt(next) \in Packet
        /\ PacketAt(next).word.id \in 1 .. Len(msgs)
        /\ Kind(PacketAt(next).desc) \in {"single", "first"} => PacketAt(next).word.pos = 1
    BY <1>0, <2>1, PacketAtTyped DEF TypeOK
  <2>3. /\ UNCHANGED <<msgs, lost, repeated, clean, destroyed>>
        /\ next' \in Nat /\ next' >= 1 /\ next' <= Current.n + 1
    BY <1>0, <1>3, <2>1, InProgress DEF Receive, TypeOK
  <2>4. parse_SCTE_104(PacketAt(next))
    BY <1>3 DEF Receive
  <2> QED BY <1>0, <2>2, <2>3, <2>4, ParsePreserves DEF TypeOK
<1>4. CASE Lose
  <2>1. Len(msgs) > 0 /\ next <= Current.n
    <3>1. msgs # <<>>
      BY <1>4 DEF Lose, Done
    <3> QED BY <1>0, <1>4, <3>1, InProgress DEF Lose, TypeOK
  <2>2. PacketAt(next) \in Packet
    BY <1>0, <2>1, PacketAtTyped DEF TypeOK
  <2>3. /\ UNCHANGED <<msgs, repeated, destroyed>> /\ lost' \in Nat /\ clean' \in BOOLEAN
        /\ next' = next + 1 /\ next' <= Current.n + 1
    <3>1. next' = next + 1 /\ UNCHANGED <<msgs, repeated, destroyed>>
          /\ lost' = lost + 1
      BY <1>4 DEF Lose
    <3>2. Current.n \in Nat
      BY <1>0, <2>1, InProgress
    <3>3. next \in Nat /\ lost \in Nat
      BY <1>0 DEF TypeOK
    <3>4. next + 1 <= Current.n + 1
      BY <2>1, <3>2, <3>3
    <3>5. clean' \in BOOLEAN
      BY <1>4 DEF Lose
    <3> QED BY <3>1, <3>3, <3>4, <3>5
  <2>4. UNCHANGED <<fragments, live, last>> \/ ParseOutOfMemory(PacketAt(next))
    BY <1>4 DEF Lose
  <2> QED BY <2>2, <2>3, <2>4, NoMemoryPreserves
<1>5. CASE Repeat
  <2>1. Len(msgs) > 0 /\ next - 1 <= Current.n /\ next - 1 \in Nat /\ next - 1 >= 1
    <3>1. Len(msgs) > 0 /\ msgs # <<>> /\ next > 1
      BY <1>0, <1>5 DEF Repeat, TypeOK
    <3>2. Current.n \in Nat /\ next <= Current.n + 1
      BY <1>0, <3>1, InProgress DEF ListInv
    <3>3. next \in Nat
      BY <1>0 DEF TypeOK
    <3> QED BY <3>1, <3>2, <3>3
  <2>2. /\ PacketAt(next - 1) \in Packet
        /\ PacketAt(next - 1).word.id \in 1 .. Len(msgs)
        /\ Kind(PacketAt(next - 1).desc) \in {"single", "first"} => PacketAt(next - 1).word.pos = 1
    BY <1>0, <2>1, PacketAtTyped
  <2>3. UNCHANGED <<msgs, lost, destroyed, next>> /\ repeated' \in Nat /\ clean' \in BOOLEAN
    BY <1>0, <1>5 DEF Repeat, TypeOK
  <2>4. next <= Current.n + 1
    BY <1>0, <2>1, InProgress DEF TypeOK
  <2> QED BY <1>0, <1>5, <2>2, <2>3, <2>4, ParsePreserves DEF Repeat, TypeOK
<1>6. CASE Noise
  <2>1. PICK b \in {0, 9, 13} :
          parse_SCTE_104([desc |-> b, word |-> [id |-> Len(msgs), pos |-> 1]])
    BY <1>6 DEF Noise
  <2> DEFINE p == [desc |-> b, word |-> [id |-> Len(msgs), pos |-> 1]]
  <2>2. p \in Packet /\ p.word.id \in 1 .. Len(msgs) /\ p.word.pos = 1
    BY <1>0, <1>6 DEF Noise, Packet, Word
  <2>3. UNCHANGED <<msgs, lost, destroyed, next, repeated, clean>> /\ next <= Current.n + 1
    BY <1>0, <1>6 DEF Noise, ListInv
  <2> QED BY <1>0, <2>1, <2>2, <2>3, ParsePreserves DEF TypeOK
<1>7. CASE cleanup_SCTE_104
  BY <1>7 DEF cleanup_SCTE_104, messageFragmentReset, ListInv, TypeOK, StoredRun, Current
<1> QED BY <1>1, <1>2, <1>3, <1>4, <1>5, <1>6, <1>7 DEF Next

\* A context starts with an empty list.
LEMMA ListInvInit == Init => ListInv
<1> SUFFICES ASSUME Init PROVE ListInv
  OBVIOUS
<1>1. TypeOK /\ next >= 1
  <2>1. clean \in BOOLEAN /\ destroyed \in BOOLEAN
    BY DEF Init
  <2>2. msgs \in Seq(Message) /\ fragments \in Seq(Packet) /\ last \in Seq(Word)
    BY DEF Init
  <2>3. next \in Nat /\ live \in Nat /\ lost \in Nat /\ repeated \in Nat /\ next >= 1
    BY DEF Init
  <2> QED BY <2>1, <2>2, <2>3 DEF TypeOK
<1>2. StoredRun /\ live >= Len(fragments)
  BY DEF Init, StoredRun
<1>3. Len(fragments) = 0 /\ fragments = <<>> /\ last = <<>> /\ msgs = <<>>
  BY DEF Init
<1> QED BY <1>1, <1>2, <1>3 DEF ListInv

\* The list invariant holds in every reachable state.
THEOREM FragmentListInvariant == Spec => []ListInv
  BY ListInvInit, ListInvStep, PTL DEF Spec

\* Type correctness of the reassembly state.
THEOREM FragmentsTypeCorrect == Spec => []TypeOK
<1>1. ListInv => TypeOK
  BY DEF ListInv
<1> QED BY <1>1, FragmentListInvariant, PTL

\* scte104_fragments[] is never indexed past its end, although
\* messageFragmentFinal appends without a check, and holds one run of packets.
THEOREM FragmentsStayInArray == Spec => []StoredRun
<1>1. ListInv => StoredRun
  BY DEF ListInv
<1> QED BY <1>1, FragmentListInvariant, PTL

\* A message longer than the list can hold is never delivered.
THEOREM TooLongIsRefused == Spec => []TooLongNeverDelivered
<1>1. ListInv => TooLongNeverDelivered
  <2> SUFFICES ASSUME ListInv, last # <<>>
               PROVE  Len(last) <= MaxFragments /\ msgs[last[1].id].size <= MaxFragments
    BY DEF TooLongNeverDelivered
  <2>1. /\ last[1].id \in 1 .. Len(msgs)
        /\ Len(last) >= msgs[last[1].id].size /\ Len(last) <= MaxFragments
    BY DEF ListInv
  <2>2. msgs[last[1].id] \in Message /\ Len(last) \in Nat
    BY <2>1 DEF ListInv, TypeOK
  <2>3. msgs[last[1].id].size \in Nat
    BY <2>2 DEF Message
  <2> QED BY <2>1, <2>2, <2>3
<1> QED BY <1>1, FragmentListInvariant, PTL

----------------------------------------------------------------------------
(* Order *)

\* Words that have been sent before packet pos of message id.
Earlier(w, id, pos) == w.id < id \/ (w.id = id /\ w.pos < pos)

\* As long as nothing is repeated, the collected fragments are in the order they
\* were sent in and all precede the packet that is sent next; so is the message
\* delivered last.
OrderInv ==
  repeated = 0 =>
    /\ InOrder(last)
    /\ \A i, j \in 1 .. Len(fragments) : i < j => Before(fragments[i].word, fragments[j].word)
    /\ \A i \in 1 .. Len(fragments) : Earlier(fragments[i].word, Len(msgs), next)

LEMMA FragmentWords ==
  ASSUME TypeOK
  PROVE  \A i \in 1 .. Len(fragments) : fragments[i].word \in Word
<1>1. \A i \in 1 .. Len(fragments) : fragments[i] \in Packet
  BY DEF TypeOK
<1> QED
  BY <1>1 DEF Packet

\* The next packet of a message keeps the order.
LEMMA ParseKeepsOrder ==
  ASSUME ListInv, OrderInv, repeated = 0, NEW p \in Packet, parse_SCTE_104(p), UNCHANGED msgs,
         p.word = [id |-> Len(msgs), pos |-> next], next' = next + 1
  PROVE  OrderInv'
<1> USE DEF OrderInv
<1>0. /\ next \in Nat /\ Len(msgs) \in Nat /\ fragments \in Seq(Packet) /\ Len(fragments) \in Nat
      /\ p.word.id = Len(msgs) /\ p.word.pos = next
  BY DEF ListInv, TypeOK
<1>a. \A i \in 1 .. Len(fragments) : fragments[i].word \in Word
  BY FragmentWords DEF ListInv
<1>b. \A i \in 1 .. Len(fragments) : Earlier(fragments[i].word, Len(msgs), next + 1)
  BY <1>0, <1>a DEF Earlier, Word
<1>1. CASE fragments' = <<>> /\ last' = last
  BY <1>1
<1>2. CASE HandleSingle(p)
  <2>1. fragments' = <<>> /\ (last' = last \/ last' = <<p.word>>)
    BY <1>2 DEF HandleSingle, messageFragmentReset
  <2>2. InOrder(<<p.word>>)
    BY DEF InOrder
  <2> QED
    BY <2>1, <2>2
<1>3. CASE HandleFirst(p)
  <2>1. fragments' = <<p>> /\ last' = last
    BY <1>3 DEF HandleFirst
  <2>2. Earlier(p.word, Len(msgs), next + 1)
    BY <1>0 DEF Earlier
  <2> QED
    BY <2>1, <2>2
<1>4. ASSUME NEW all \in Seq(Packet), all = Append(fragments, p)
      PROVE  /\ Len(all) = Len(fragments) + 1
             /\ \A i, j \in 1 .. Len(all) : i < j => Before(all[i].word, all[j].word)
             /\ \A i \in 1 .. Len(all) : Earlier(all[i].word, Len(msgs), next + 1)
  <2>1. /\ Len(all) = Len(fragments) + 1 /\ all[Len(fragments) + 1] = p
        /\ \A i \in 1 .. Len(fragments) : all[i] = fragments[i]
    BY <1>0, <1>4
  <2>2. \A i \in 1 .. Len(fragments) : Before(fragments[i].word, p.word)
    BY <1>0 DEF Before, Earlier
  <2>3. Earlier(p.word, Len(msgs), next + 1)
    BY <1>0 DEF Earlier
  <2>4. ASSUME NEW i \in 1 .. Len(all), NEW j \in 1 .. Len(all), i < j
        PROVE  Before(all[i].word, all[j].word)
    <3>1. i \in 1 .. Len(fragments) /\ (j \in 1 .. Len(fragments) \/ j = Len(fragments) + 1)
      BY <1>0, <2>1, <2>4
    <3> QED
      BY <2>1, <2>2, <2>4, <3>1
  <2>5. ASSUME NEW i \in 1 .. Len(all)
        PROVE  Earlier(all[i].word, Len(msgs), next + 1)
    <3>1. i \in 1 .. Len(fragments) \/ i = Len(fragments) + 1
      BY <1>0, <2>1
    <3> QED
      BY <1>b, <2>1, <2>3, <3>1
  <2> QED
    BY <2>1, <2>4, <2>5
<1>5. CASE HandleFollowing(p)
  <2>1. CASE messageFragmentReset /\ UNCHANGED last
    BY <1>1, <2>1 DEF messageFragmentReset
  <2>2. CASE messageFragmentAppend(p) /\ UNCHANGED last
    <3>1. fragments' = Append(fragments, p) /\ fragments' \in Seq(Packet) /\ last' = last
      BY <1>0, <2>2 DEF messageFragmentAppend
    <3> QED
      BY <1>4, <3>1
  <2> QED
    BY <1>5, <2>1, <2>2 DEF HandleFollowing
<1>6. CASE HandleFinal(p)
  <2> DEFINE all == Append(fragments, p)
  <2>1. fragments' = <<>> /\ (last' = last \/ last' = WordsOf(all))
    BY <1>6 DEF HandleFinal
  <2>2. all \in Seq(Packet)
    BY <1>0
  <2>3. /\ Len(WordsOf(all)) = Len(all)
        /\ \A i \in 1 .. Len(all) : WordsOf(all)[i] = all[i].word
    BY <2>2, WordsOfTyped
  <2>4. \A i, j \in 1 .. Len(all) : i < j => Before(all[i].word, all[j].word)
    BY <1>4, <2>2
  <2>5. InOrder(WordsOf(all))
    BY <2>3, <2>4 DEF InOrder
  <2> QED
    BY <2>1, <2>5
<1>7. CASE HandleRejected(p)
  <2>1. fragments' = fragments /\ last' = last
    BY <1>7 DEF HandleRejected
  <2> QED
    BY <1>b, <2>1
<1> QED
  BY <1>2, <1>3, <1>5, <1>6, <1>7 DEF parse_SCTE_104

LEMMA OrderInvStep == ListInv /\ OrderInv /\ [Next]_vars => OrderInv'
<1> SUFFICES ASSUME ListInv, OrderInv, [Next]_vars, repeated' = 0
             PROVE  OrderInv'
  BY DEF OrderInv
<1>0. /\ TypeOK /\ next \in Nat /\ Len(msgs) \in Nat /\ Len(fragments) \in Nat /\ repeated \in Nat
  BY DEF ListInv, TypeOK
<1>a. \A i \in 1 .. Len(fragments) : fragments[i].word \in Word /\ fragments[i].word.id \in 1 .. Len(msgs)
  BY FragmentWords DEF ListInv
<1>1. CASE UNCHANGED vars
  BY <1>1 DEF vars, OrderInv
<1>2. CASE StartMessage
  <2>1. Len(msgs') = Len(msgs) + 1 /\ UNCHANGED <<fragments, last, repeated>>
    BY <1>2 DEF StartMessage, ListInv, TypeOK
  <2>2. \A i \in 1 .. Len(fragments) : Earlier(fragments[i].word, Len(msgs'), next')
    BY <1>0, <1>a, <2>1 DEF Earlier
  <2> QED
    BY <2>1, <2>2 DEF OrderInv
<1>3. CASE Receive
  <2>1. Len(msgs) > 0 /\ next <= Current.n /\ next >= 1
    <3>1. msgs # <<>>
      BY <1>3 DEF Receive, Done
    <3> QED BY <1>0, <1>3, <3>1, InProgress DEF Receive, TypeOK, ListInv
  <2>2. PacketAt(next) \in Packet /\ PacketAt(next).word = [id |-> Len(msgs), pos |-> next]
    BY <1>0, <2>1, PacketAtTyped
  <2>3. parse_SCTE_104(PacketAt(next)) /\ UNCHANGED <<msgs, repeated>> /\ next' = next + 1
    BY <1>3 DEF Receive
  <2> QED
    BY <2>2, <2>3, ParseKeepsOrder
<1>4. CASE Lose
  <2>1. next' = next + 1 /\ UNCHANGED <<msgs, repeated, last>> /\ (fragments' = fragments \/ fragments' = <<>>)
    BY <1>4 DEF Lose, ParseOutOfMemory, messageFragmentReset
  <2>2. \A i \in 1 .. Len(fragments) : Earlier(fragments[i].word, Len(msgs), next + 1)
    BY <1>0, <1>a, <2>1 DEF OrderInv, Earlier, Word
  <2>3. CASE fragments' = fragments
    BY <2>1, <2>2, <2>3 DEF OrderInv
  <2>4. CASE fragments' = <<>>
    BY <2>1, <2>4 DEF OrderInv
  <2> QED
    BY <2>1, <2>3, <2>4
<1>5. ~Repeat
  BY <1>0 DEF Repeat
<1>6. CASE Noise
  <2>1. PICK n \in {0, 9, 13} :
          parse_SCTE_104([desc |-> n, word |-> [id |-> Len(msgs), pos |-> 1]])
    BY <1>6 DEF Noise
  <2>2. UNCHANGED <<fragments, last>>
    BY <2>1, NoiseKind DEF parse_SCTE_104, HandleSingle, HandleFirst, HandleFollowing, HandleFinal, HandleRejected
  <2> QED
    BY <1>6, <2>2 DEF Noise, OrderInv
<1>7. CASE cleanup_SCTE_104
  <2>1. fragments' = <<>> /\ UNCHANGED <<msgs, next, last, repeated>>
    BY <1>7 DEF cleanup_SCTE_104, messageFragmentReset
  <2> QED
    BY <2>1 DEF OrderInv
<1> QED
  BY <1>1, <1>2, <1>3, <1>4, <1>5, <1>6, <1>7 DEF Next

\* A message handed to the application starts at the head of a message, is as long
\* as that message says, and its words are in the order they were sent, whatever
\* was lost (messageFragmentFinal; repeats aside).
THEOREM DeliveredInOrder == Spec => []DeliveredFromHead
<1>1. Init => OrderInv
  BY DEF Init, OrderInv, InOrder
<1>2. ListInv /\ OrderInv => DeliveredFromHead
  BY DEF ListInv, OrderInv, DeliveredFromHead
<1> QED
  BY <1>1, <1>2, OrderInvStep, FragmentListInvariant, PTL DEF Spec

----------------------------------------------------------------------------
(* Recovery *)

\* The kind of a packet decides which part of parse_SCTE_104 handles it.
LEMMA Dispatch ==
  ASSUME NEW p, parse_SCTE_104(p)
  PROVE  /\ Kind(p.desc) = "single" => HandleSingle(p)
         /\ Kind(p.desc) = "first" => HandleFirst(p)
         /\ Kind(p.desc) = "mid" => HandleFollowing(p)
         /\ Kind(p.desc) = "final" => HandleFinal(p)
         /\ Kind(p.desc) \in {"duplicate", "other"} => HandleRejected(p)
  BY DEF parse_SCTE_104, HandleSingle, HandleFirst, HandleFollowing, HandleFinal,
     HandleRejected

\* The part of the message in progress up to packet k, as a list.
Prefix(k) == [i \in 1 .. k |-> PacketAt(i)]

\* A prefix is a list of k packets.
LEMMA PrefixIsList ==
  ASSUME TypeOK, Len(msgs) > 0, NEW k \in Nat, k <= Current.n
  PROVE  /\ Prefix(k) \in Seq(Packet) /\ Len(Prefix(k)) = k
         /\ \A i \in 1 .. k : Prefix(k)[i] = PacketAt(i)
<1>1. \A i \in 1 .. k : PacketAt(i) \in Packet
  <2> SUFFICES ASSUME NEW i \in 1 .. k PROVE PacketAt(i) \in Packet
    OBVIOUS
  <2>1. i \in Nat /\ 1 <= i /\ i <= Current.n
    BY InProgress
  <2> QED BY <2>1, PacketAtTyped
<1>2. Prefix(k) \in [1 .. k -> Packet]
  BY <1>1 DEF Prefix
<1> QED BY <1>2 DEF Prefix

\* Appending the next packet to a prefix gives the next prefix.
LEMMA PrefixAppend ==
  ASSUME TypeOK, Len(msgs) > 0, NEW k \in Nat, k + 1 <= Current.n
  PROVE  Append(Prefix(k), PacketAt(k + 1)) = Prefix(k + 1)
<1>1. Current.n \in Nat
  BY InProgress
<1>2. /\ Prefix(k) \in Seq(Packet) /\ Len(Prefix(k)) = k
      /\ \A i \in 1 .. k : Prefix(k)[i] = PacketAt(i)
  BY <1>1, PrefixIsList
<1>3. /\ Prefix(k + 1) \in Seq(Packet) /\ Len(Prefix(k + 1)) = k + 1
      /\ \A i \in 1 .. k + 1 : Prefix(k + 1)[i] = PacketAt(i)
  BY <1>1, PrefixIsList
<1>4. PacketAt(k + 1) \in Packet
  <2>1. k + 1 \in Nat /\ 1 <= k + 1
    OBVIOUS
  <2> QED BY <2>1, PacketAtTyped
<1> DEFINE a == Append(Prefix(k), PacketAt(k + 1))
<1>5. a \in Seq(Packet) /\ Len(a) = k + 1
  BY <1>2, <1>4
<1>6. \A i \in 1 .. k + 1 : a[i] = PacketAt(i)
  BY <1>2
<1>7. \A i \in 1 .. Len(a) : a[i] = Prefix(k + 1)[i]
  BY <1>3, <1>5, <1>6
<1> QED BY <1>3, <1>5, <1>7, SeqEqual

\* A message that arrives undisturbed, up to and including packet next, is
\* collected, and at its last packet delivered.
LEMMA ReceiveUndisturbed ==
  ASSUME ListInv, CollectsPrefix, Receive, clean, ~destroyed, Len(msgs) > 0,
         next <= Current.n, Current.n <= MaxFragments
  PROVE  /\ next < Current.n => fragments' = Prefix(next)
         /\ next = Current.n => fragments' = <<>>
         /\ next = Current.n /\ Honest(Current) => last' = WordsOfMessage(Len(msgs))
<1> DEFINE n == Current.n
           p == PacketAt(next)
<1>1. /\ TypeOK /\ next \in Nat /\ next >= 1 /\ n \in Nat
      /\ Len(msgs) \in Nat
  BY InProgress DEF ListInv, TypeOK
<1>2. /\ p.word = [id |-> Len(msgs), pos |-> next]
      /\ p.desc = Descriptor(next, n)
      /\ msgs[p.word.id] = Current
  BY DEF PacketAt, Current
<1>3. parse_SCTE_104(p) /\ \A i : PacketAt(i).word = [id |-> Len(msgs), pos |-> i]
  BY DEF Receive, PacketAt
<1>4. next > 1 => fragments = Prefix(next - 1) /\ Len(fragments) = next - 1
  BY <1>1, PrefixIsList DEF CollectsPrefix, Prefix
<1>4a. Append(Prefix(next - 1), p) = Prefix(next)
  <2> DEFINE k == next - 1
  <2>1. k \in Nat /\ k + 1 = next
    BY <1>1
  <2> HIDE DEF k
  <2>2. Append(Prefix(k), PacketAt(k + 1)) = Prefix(k + 1)
    BY <1>1, <2>1, PrefixAppend
  <2> QED BY <2>1, <2>2 DEF k
<1>5. CASE n = 1
  <2>1. HandleSingle(p) /\ next = 1
    BY <1>1, <1>2, <1>3, <1>5, DescriptorKind, Dispatch
  <2>2. fragments' = <<>>
    BY <2>1 DEF HandleSingle, messageFragmentReset
  <2>3. ASSUME Honest(Current) PROVE last' = WordsOfMessage(Len(msgs))
    <3>1. WordsOfMessage(Len(msgs)) = [i \in 1 .. 1 |-> [id |-> Len(msgs), pos |-> i]]
      BY <1>5 DEF WordsOfMessage, Current
    <3>2. <<p.word>> = WordsOfMessage(Len(msgs)) /\ p.word.id = Len(msgs)
      BY <1>2, <2>1, <3>1
    <3>3. AsSent(<<p.word>>) /\ p.word.id \in 1 .. Len(msgs)
      BY <1>1, <1>2, <2>3, <3>2 DEF AsSent
    <3>4. last' = <<p.word>>
      BY <1>1, <2>1, <3>3, SingleOutcome
    <3> QED BY <3>2, <3>4
  <2> QED BY <1>5, <2>1, <2>2, <2>3
<1>6. CASE n > 1 /\ next = 1
  <2>1. HandleFirst(p)
    <3>1. Kind(Descriptor(next, n)) = "first"
      BY <1>1, <1>6, DescriptorKind
    <3> QED BY <1>2, <1>3, <3>1, Dispatch
  <2>2. Prefix(1) = <<p>>
    BY <1>6 DEF Prefix
  <2> QED BY <1>1, <1>6, <2>1, <2>2 DEF HandleFirst
<1>7. CASE next > 1 /\ next < n
  <2>1. HandleFollowing(p)
    BY <1>1, <1>2, <1>3, <1>7, DescriptorKind, Dispatch
  <2>2. Len(fragments) # 0 /\ Len(fragments) + 1 # MaxFragments
    BY <1>1, <1>4, <1>7
  <2>3. fragments' = Append(fragments, p)
    BY <2>1, <2>2 DEF HandleFollowing, messageFragmentAppend
  <2> QED BY <1>1, <1>4, <1>4a, <1>7, <2>3
<1>8. CASE next > 1 /\ next = n
  <2> DEFINE all == Append(fragments, p)
  <2>1. HandleFinal(p)
    BY <1>1, <1>2, <1>3, <1>8, DescriptorKind, Dispatch
  <2>2. fragments' = <<>> /\ Len(fragments) # 0
    BY <1>1, <1>4, <1>8, <2>1 DEF HandleFinal
  <2>3. all = Prefix(n) /\ Len(all) = n /\ \A i \in 1 .. n : all[i] = PacketAt(i)
    <3>1. all = Prefix(n)
      BY <1>4, <1>4a, <1>8
    <3>2. Len(Prefix(n)) = n /\ \A i \in 1 .. n : Prefix(n)[i] = PacketAt(i)
      BY <1>1, PrefixIsList
    <3> QED BY <3>1, <3>2
  <2>4. ~Overflows(all)
    BY <1>1, <2>3 DEF Overflows, RawWords
  <2>5. WordsOf(all) = WordsOfMessage(Len(msgs))
    <3>1. \A i \in 1 .. n : all[i].word = [id |-> Len(msgs), pos |-> i]
      BY <1>3, <2>3
    <3>2. Len(all) = n /\ WordsOfMessage(Len(msgs)) = [i \in 1 .. n |-> [id |-> Len(msgs), pos |-> i]]
      BY <2>3 DEF WordsOfMessage, Current
    <3> HIDE DEF all
    <3> QED BY <3>1, <3>2 DEF WordsOf
  <2>6. ASSUME Honest(Current) PROVE last' = WordsOfMessage(Len(msgs))
    <3>1. /\ WordsOf(all)[1].id = Len(msgs) /\ Len(WordsOf(all)) = n
      BY <1>1, <1>8, <2>5 DEF WordsOfMessage, Current
    <3>2. AsSent(WordsOf(all)) /\ WordsOf(all)[1].id \in 1 .. Len(msgs)
      BY <1>1, <2>5, <2>6, <3>1 DEF AsSent, Current
    <3> HIDE DEF all
    <3>3. all = Append(fragments, p)
      BY DEF all
    <3>4. last' = WordsOf(all)
      BY <1>1, <2>1, <2>2, <2>4, <3>2, <3>3, FinalOutcome
    <3> QED BY <2>5, <3>4
  <2> QED BY <1>1, <1>8, <2>2, <2>6
<1> QED BY <1>1, <1>5, <1>6, <1>7, <1>8

\* Every step preserves CollectsPrefix and Recovers.
LEMMA RecoverStep ==
  ListInv /\ CollectsPrefix /\ Recovers /\ [Next]_vars => CollectsPrefix' /\ Recovers'
<1> SUFFICES ASSUME ListInv, CollectsPrefix, Recovers, [Next]_vars
             PROVE  CollectsPrefix' /\ Recovers'
  OBVIOUS
<1>0. TypeOK /\ TypeOK' /\ next \in Nat
  BY ListInvStep DEF ListInv, TypeOK
<1>1. CASE UNCHANGED vars
  BY <1>1 DEF vars, CollectsPrefix, Recovers, Current, PacketAt, Done, Honest, WordsOfMessage
<1>2. CASE StartMessage
  <2>1. next' = 1 /\ Len(msgs') > 0
    BY <1>0, <1>2 DEF StartMessage, TypeOK
  <2>2. msgs' # <<>> /\ Current' \in Message
    BY <1>0, <2>1 DEF TypeOK, Current
  <2>3. ~Done'
    BY <2>1, <2>2 DEF Done, Message
  <2> QED BY <2>1, <2>3 DEF CollectsPrefix, Recovers
<1>3. CASE Receive
  <2>1. Len(msgs) > 0 /\ next <= Current.n /\ Current.n \in Nat
    <3>1. msgs # <<>>
      BY <1>3 DEF Receive, Done
    <3> QED BY <1>0, <1>3, <3>1, InProgress DEF Receive, TypeOK
  <2>2. UNCHANGED <<msgs, clean, destroyed>> /\ next' = next + 1
    BY <1>3 DEF Receive
  <2>3. Current' = Current /\ \A i : PacketAt(i)' = PacketAt(i)
    BY <2>2 DEF Current, PacketAt
  <2>4. CASE ~(clean /\ ~destroyed /\ Current.n <= MaxFragments)
    BY <2>2, <2>3, <2>4 DEF CollectsPrefix, Recovers
  <2>5. CASE clean /\ ~destroyed /\ Current.n <= MaxFragments
    <3>1. /\ next < Current.n => fragments' = Prefix(next)
          /\ next = Current.n => fragments' = <<>>
          /\ next = Current.n /\ Honest(Current) => last' = WordsOfMessage(Len(msgs))
      BY <1>3, <2>1, <2>5, ReceiveUndisturbed
    <3>2. CollectsPrefix'
      BY <1>0, <2>1, <2>2, <2>3, <3>1 DEF CollectsPrefix, Prefix
    <3>3. Recovers'
      <4>1. Done' => next = Current.n
        BY <1>0, <2>1, <2>2, <2>3 DEF Done, TypeOK
      <4>2. WordsOfMessage(Len(msgs))' = WordsOfMessage(Len(msgs))
        BY <2>2 DEF WordsOfMessage
      <4> QED BY <2>2, <2>3, <3>1, <4>1, <4>2 DEF Recovers, Honest
    <3> QED BY <3>2, <3>3
  <2> QED BY <2>4, <2>5
<1>4. CASE Lose
  BY <1>4 DEF Lose, CollectsPrefix, Recovers
<1>5. CASE Repeat
  <2>1. /\ Len(msgs) > 0 /\ next > 1 /\ UNCHANGED <<msgs, next, destroyed>>
        /\ parse_SCTE_104(PacketAt(next - 1)) /\ clean' = (clean /\ Done)
    BY <1>5 DEF Repeat
  <2>2. /\ Current' = Current /\ (\A i : PacketAt(i)' = PacketAt(i))
        /\ (Done' <=> Done) /\ WordsOfMessage(Len(msgs))' = WordsOfMessage(Len(msgs))
    BY <2>1 DEF Current, PacketAt, Done, WordsOfMessage
  <2>3. CASE ~(clean /\ Done /\ ~destroyed /\ Current.n <= MaxFragments)
    BY <2>1, <2>2, <2>3 DEF CollectsPrefix, Recovers
  <2>4. CASE clean /\ Done /\ ~destroyed /\ Current.n <= MaxFragments
    <3> DEFINE n == Current.n
               p == PacketAt(next - 1)
    <3>1. n \in Nat /\ n >= 1 /\ next = n + 1
      <4>1. n \in Nat /\ n >= 1 /\ ~(next <= n)
        BY <1>0, <2>1, <2>4, InProgress
      <4>2. next <= n + 1
        BY <1>0, <2>1 DEF ListInv, TypeOK
      <4> QED BY <1>0, <4>1, <4>2
    <3>2. fragments = <<>>
      BY <2>1, <2>4, <3>1 DEF CollectsPrefix
    <3>3. /\ p.word = [id |-> Len(msgs), pos |-> n] /\ msgs[p.word.id] = Current
          /\ p.desc = Descriptor(n, n)
      BY <3>1 DEF PacketAt, Current
    <3>4. CASE n = 1
      <4>1. HandleSingle(p)
        BY <2>1, <3>1, <3>3, <3>4, DescriptorKind, Dispatch
      <4>2. WordsOfMessage(Len(msgs)) = <<p.word>>
        <5>1. WordsOfMessage(Len(msgs)) = [i \in 1 .. 1 |-> [id |-> Len(msgs), pos |-> i]]
          BY <3>4 DEF WordsOfMessage, Current
        <5> QED BY <3>3, <3>4, <5>1
      <4>3. fragments' = <<>> /\ (last' = last \/ last' = <<p.word>>)
        BY <4>1 DEF HandleSingle, messageFragmentReset
      <4> QED BY <2>1, <2>2, <2>4, <3>1, <4>2, <4>3 DEF CollectsPrefix, Recovers, Honest
    <3>5. CASE n > 1
      <4>1. Kind(p.desc) = "final"
        BY <3>1, <3>3, <3>5, DescriptorKind
      <4>2. HandleFinal(p)
        BY <2>1, <4>1, Dispatch
      <4>3. fragments' = <<>> /\ UNCHANGED last
        BY <3>2, <4>2 DEF HandleFinal
      <4> QED BY <2>1, <2>2, <2>4, <3>1, <4>3 DEF CollectsPrefix, Recovers, Honest
    <3> QED BY <3>1, <3>4, <3>5
  <2> QED BY <2>3, <2>4
<1>6. CASE Noise
  <2>1. PICK b \in {0, 9, 13} :
          parse_SCTE_104([desc |-> b, word |-> [id |-> Len(msgs), pos |-> 1]])
    BY <1>6 DEF Noise
  <2>2. UNCHANGED <<fragments, live, last>>
    BY <2>1, NoiseKind, Dispatch DEF HandleRejected
  <2> QED BY <1>6, <2>2
      DEF Noise, CollectsPrefix, Recovers, Current, PacketAt, Done, Honest, WordsOfMessage
<1>7. CASE cleanup_SCTE_104
  BY <1>7 DEF cleanup_SCTE_104, CollectsPrefix, Recovers
<1> QED BY <1>1, <1>2, <1>3, <1>4, <1>5, <1>6, <1>7 DEF Next

\* While a message arrives undisturbed, the list is the part of it received.
THEOREM UndisturbedIsCollected == Spec => []CollectsPrefix
<1>1. Init => ListInv /\ CollectsPrefix /\ Recovers
  BY ListInvInit DEF Init, CollectsPrefix, Recovers
<1>2. ListInv /\ CollectsPrefix /\ Recovers /\ [Next]_vars
        => (ListInv /\ CollectsPrefix /\ Recovers)'
  BY ListInvStep, RecoverStep
<1> QED BY <1>1, <1>2, PTL DEF Spec

\* Whatever losses, repeats, malformed messages and failed allocations came
\* before, an honest message that fits the list and arrives undisturbed is
\* delivered intact.
THEOREM ReassemblyRecovers == Spec => []Recovers
<1>1. Init => ListInv /\ CollectsPrefix /\ Recovers
  BY ListInvInit DEF Init, CollectsPrefix, Recovers
<1>2. ListInv /\ CollectsPrefix /\ Recovers /\ [Next]_vars
        => (ListInv /\ CollectsPrefix /\ Recovers)'
  BY ListInvStep, RecoverStep
<1> QED BY <1>1, <1>2, PTL DEF Spec

----------------------------------------------------------------------------
(* One loss *)

AllHonest == \A j \in 1 .. Len(msgs) : Honest(msgs[j])

\* What one lost packet may leave in the list: the part of the message received
\* so far, or less than it, or, when the final packet was the one lost, a message
\* that the first packet of the next one throws away.
AtMostOneGap ==
  lost <= 1 /\ repeated = 0 /\ AllHonest /\ fragments # <<>> =>
    \/ next > 1 /\ next <= Current.n /\ fragments = Prefix(next - 1)
    \/ lost = 1 /\ next > 1 /\ fragments[1].word.id = Len(msgs) /\ Len(fragments) < next - 1
    \/ lost = 1 /\ next = 1

OneLossInv == AtMostOneGap /\ OneLossHarmless

\* The words of all packets of a message are the words of the message.
LEMMA PrefixWords ==
  ASSUME TypeOK, Len(msgs) > 0
  PROVE  WordsOf(Prefix(Current.n)) = WordsOfMessage(Len(msgs))
<1>1. Current.n \in Nat
  BY InProgress
<1>2. /\ Len(Prefix(Current.n)) = Current.n
      /\ \A j \in 1 .. Current.n : Prefix(Current.n)[j] = PacketAt(j)
  BY <1>1, PrefixIsList
<1>3. \A j : PacketAt(j).word = [id |-> Len(msgs), pos |-> j]
  BY DEF PacketAt
<1>4. WordsOfMessage(Len(msgs)) = [j \in 1 .. Current.n |-> [id |-> Len(msgs), pos |-> j]]
  BY DEF WordsOfMessage, Current
<1> QED
  BY <1>2, <1>3, <1>4 DEF WordsOf

\* Packet next of a message, when at most one packet was lost so far.
LEMMA ReceiveAfterOneLoss ==
  ASSUME ListInv, OneLossInv, lost <= 1, repeated = 0, AllHonest, Len(msgs) > 0,
         next <= Current.n, parse_SCTE_104(PacketAt(next)),
         UNCHANGED <<msgs, lost, repeated>>, next' = next + 1
  PROVE  OneLossInv'
<1> DEFINE n == Current.n
           p == PacketAt(next)
<1>1. /\ TypeOK /\ next \in Nat /\ next >= 1 /\ n \in Nat /\ Len(msgs) \in Nat /\ lost \in Nat
      /\ fragments \in Seq(Packet) /\ Len(fragments) \in Nat
  BY InProgress DEF ListInv, TypeOK
<1>2. /\ p \in Packet /\ p.word = [id |-> Len(msgs), pos |-> next]
      /\ p.desc = Descriptor(next, n) /\ msgs[Len(msgs)] = Current
  BY <1>1, PacketAtTyped DEF PacketAt, Current
<1>3. /\ Current' = Current /\ (\A j : PacketAt(j)' = PacketAt(j)) /\ Len(msgs') = Len(msgs)
      /\ \A x : WordsOfMessage(x)' = WordsOfMessage(x)
  BY DEF Current, PacketAt, WordsOfMessage
<1>4. (Prefix(next - 1))' = Prefix(next)
  BY <1>1, <1>3 DEF Prefix
<1>5. last # <<>> => last = WordsOfMessage(last[1].id)
  BY DEF OneLossInv, OneLossHarmless, AllHonest
<1>6. ASSUME fragments' = <<>>, last' = last
      PROVE  OneLossInv'
  BY <1>3, <1>5, <1>6 DEF OneLossInv, AtMostOneGap, OneLossHarmless
<1>7. ASSUME fragments' = <<>>, last' = WordsOfMessage(Len(msgs))
      PROVE  OneLossInv'
  <2>1. last'[1].id = Len(msgs)
    BY <1>1, <1>2, <1>7, InProgress DEF WordsOfMessage
  <2> QED
    BY <1>3, <1>7, <2>1 DEF OneLossInv, AtMostOneGap, OneLossHarmless
<1>8. CASE n = 1
  <2>1. HandleSingle(p) /\ next = 1
    BY <1>1, <1>2, <1>8, DescriptorKind, Dispatch
  <2>2. fragments' = <<>> /\ (last' = last \/ last' = <<p.word>>)
    BY <2>1 DEF HandleSingle, messageFragmentReset
  <2>3. WordsOfMessage(Len(msgs)) = [j \in 1 .. 1 |-> [id |-> Len(msgs), pos |-> j]]
    BY <1>2, <1>8 DEF WordsOfMessage
  <2>4. WordsOfMessage(Len(msgs)) = <<p.word>>
    BY <1>2, <2>1, <2>3
  <2> QED
    BY <1>6, <1>7, <2>2, <2>4
<1>9. CASE n > 1 /\ next = 1
  <2>1. HandleFirst(p)
    <3>1. Kind(Descriptor(next, n)) = "first"
      BY <1>1, <1>9, DescriptorKind
    <3> QED BY <1>2, <3>1, Dispatch
  <2>2. fragments' = <<p>> /\ last' = last /\ next' = 2
    BY <1>9, <2>1 DEF HandleFirst
  <2>3. Prefix(1) = <<p>>
    BY <1>9 DEF Prefix
  <2>4. fragments' = (Prefix(next - 1))' /\ next' > 1 /\ next' <= Current'.n
    BY <1>1, <1>3, <1>4, <1>9, <2>2, <2>3
  <2>5. AtMostOneGap'
    BY <2>4 DEF AtMostOneGap
  <2> QED
    BY <1>3, <1>5, <2>2, <2>5 DEF OneLossInv, OneLossHarmless
<1>10. CASE next > 1
  <2>1. \/ fragments = <<>>
        \/ fragments = Prefix(next - 1)
        \/ lost = 1 /\ fragments[1].word.id = Len(msgs) /\ Len(fragments) < next - 1
    BY <1>10 DEF OneLossInv, AtMostOneGap
  <2>2. fragments = Prefix(next - 1) => Append(fragments, p) = Prefix(next)
    <3> DEFINE k == next - 1
    <3>1. k \in Nat /\ k + 1 = next
      BY <1>1
    <3> HIDE DEF k
    <3>2. Append(Prefix(k), PacketAt(k + 1)) = Prefix(k + 1)
      BY <1>1, <3>1, PrefixAppend
    <3> QED BY <3>1, <3>2 DEF k
  <2>3. CASE next < n
    <3>1. HandleFollowing(p)
      <4>1. Kind(p.desc) = "mid"
        BY <1>1, <1>2, <1>10, <2>3, DescriptorKind
      <4> QED BY <4>1, Dispatch
    <3>2. CASE fragments' = <<>>
      BY <1>6, <3>1, <3>2 DEF HandleFollowing
    <3>3. CASE fragments' # <<>>
      <4>1. Len(fragments) # 0 /\ fragments' = Append(fragments, p) /\ last' = last
        BY <3>1, <3>3 DEF HandleFollowing, messageFragmentReset, messageFragmentAppend
      <4>2. Len(fragments') = Len(fragments) + 1 /\ fragments'[1] = fragments[1]
        BY <1>1, <1>2, <4>1
      <4>3. \/ fragments' = (Prefix(next - 1))' /\ next' > 1 /\ next' <= Current'.n
            \/ /\ lost = 1 /\ next' > 1 /\ fragments'[1].word.id = Len(msgs')
               /\ Len(fragments') < next' - 1
        BY <1>1, <1>3, <1>4, <2>1, <2>2, <2>3, <4>1, <4>2
      <4>4. AtMostOneGap'
        BY <4>3 DEF AtMostOneGap
      <4> QED
        BY <1>3, <1>5, <4>1, <4>4 DEF OneLossInv, OneLossHarmless
    <3> QED BY <3>2, <3>3
  <2>4. CASE next = n
    <3> DEFINE all == Append(fragments, p)
    <3>1. HandleFinal(p)
      BY <1>1, <1>2, <1>10, <2>4, DescriptorKind, Dispatch
    <3>2. fragments' = <<>>
      BY <3>1 DEF HandleFinal
    <3>3. CASE last' = last
      BY <1>6, <3>2, <3>3
    <3>4. CASE last' # last
      <4>1. Len(fragments) # 0 /\ last' = WordsOf(all) /\ Fits(WordsOf(all))
        <5>1. Len(fragments) # 0
          BY <3>1, <3>4 DEF HandleFinal
        <5>2. all \in Seq(Packet) /\ Len(all) = Len(fragments) + 1 /\ all[1] = fragments[1]
          BY <1>1, <1>2, <5>1
        <5>3. fragments[1].word.id \in 1 .. Len(msgs)
          BY <1>1, <5>1 DEF ListInv
        <5> HIDE DEF all
        <5>4. WordsOf(all)[1].id \in 1 .. Len(msgs)
          BY <1>1, <5>2, <5>3, WordsOfTyped
        <5>5. all = Append(fragments, p)
          BY DEF all
        <5> QED BY <1>1, <3>1, <3>4, <5>1, <5>4, <5>5, FinalOutcome
      <4>2. CASE fragments = Prefix(next - 1)
        <5>1. WordsOf(all) = WordsOfMessage(Len(msgs))
          BY <1>1, <2>2, <2>4, <4>2, PrefixWords
        <5> QED BY <1>7, <3>2, <4>1, <5>1
      <4>3. CASE fragments[1].word.id = Len(msgs) /\ Len(fragments) < next - 1
        <5>1. /\ all \in Seq(Packet) /\ Len(all) = Len(fragments) + 1
              /\ all[1] = fragments[1]
          BY <1>1, <1>2, <4>1
        <5> HIDE DEF all
        <5>2. Len(WordsOf(all)) = Len(all) /\ WordsOf(all)[1] = all[1].word
          BY <1>1, <5>1, WordsOfTyped, SMTT(30)
        <5>3. Current.size <= Len(all) /\ Current.size = n
          <6>1. Current \in Message /\ Honest(Current) /\ WordsOf(all)[1].id = Len(msgs)
            BY <1>1, <1>2, <4>3, <5>1, <5>2 DEF AllHonest, TypeOK
          <6>2. Current.size \in Nat
            BY <6>1 DEF Message
          <6>3. ~(Current.size > Len(all))
            BY <1>2, <4>1, <5>2, <6>1 DEF Fits
          <6> QED BY <5>1, <6>1, <6>2, <6>3 DEF Honest
        <5> QED BY <1>1, <2>4, <4>3, <5>1, <5>3
      <4> QED BY <2>1, <4>1, <4>2, <4>3
    <3> QED BY <3>3, <3>4
  <2> QED BY <1>1, <2>3, <2>4
<1> QED
  BY <1>1, <1>8, <1>9, <1>10

\* Every step preserves the invariant of one loss.
LEMMA OneLossStep == ListInv /\ OneLossInv /\ [Next]_vars => OneLossInv'
<1> SUFFICES ASSUME ListInv, OneLossInv, [Next]_vars,
                    lost' <= 1, repeated' = 0, AllHonest'
             PROVE  OneLossInv'
  BY DEF OneLossInv, AtMostOneGap, OneLossHarmless, AllHonest
<1>0. /\ TypeOK /\ next \in Nat /\ next >= 1 /\ Len(msgs) \in Nat /\ lost \in Nat /\ repeated \in Nat
      /\ Len(fragments) \in Nat
  BY DEF ListInv, TypeOK
<1>a. last # <<>> => last[1].id \in 1 .. Len(msgs)
  BY DEF ListInv
<1>b. UNCHANGED msgs => AllHonest /\ \A x : WordsOfMessage(x)' = WordsOfMessage(x)
  BY DEF WordsOfMessage, AllHonest
<1>c. UNCHANGED <<msgs, next>> => /\ Current' = Current
                                  /\ (Prefix(next - 1))' = Prefix(next - 1)
  BY DEF Current, Prefix, PacketAt
<1>d. fragments # <<>> => Len(msgs) > 0
  <2>1. fragments # <<>> => 1 \in 1 .. Len(fragments)
    BY DEF ListInv, TypeOK
  <2>2. fragments # <<>> => fragments[1].word.id \in 1 .. Len(msgs)
    BY <2>1 DEF ListInv
  <2> QED BY <1>0, <2>2
<1>1. CASE UNCHANGED <<msgs, next, fragments, last, lost, repeated>>
  BY <1>1, <1>b, <1>c DEF OneLossInv, AtMostOneGap, OneLossHarmless
<1>2. CASE StartMessage
  <2>1. PICK m \in Message : msgs' = Append(msgs, m)
    BY <1>2 DEF StartMessage
  <2>2. /\ Len(msgs') = Len(msgs) + 1 /\ \A j \in 1 .. Len(msgs) : msgs'[j] = msgs[j]
        /\ UNCHANGED <<fragments, last, lost, repeated>> /\ next' = 1 /\ Done
    BY <1>2, <2>1 DEF StartMessage, ListInv, TypeOK
  <2>3. AllHonest
    BY <1>0, <2>2 DEF AllHonest
  <2>4. ASSUME fragments # <<>> PROVE lost = 1
    <3>1. Len(msgs) > 0
      BY <1>d, <2>4
    <3>2. ~(next <= Current.n)
      BY <1>0, <2>2, <3>1, InProgress
    <3> QED BY <2>2, <2>3, <2>4, <3>2 DEF OneLossInv, AtMostOneGap
  <2>5. AtMostOneGap'
    BY <2>2, <2>4 DEF AtMostOneGap
  <2>6. OneLossHarmless'
    <3>1. last # <<>> => last = WordsOfMessage(last[1].id)
      BY <2>2, <2>3 DEF OneLossInv, OneLossHarmless, AllHonest
    <3>2. \A j \in 1 .. Len(msgs) : WordsOfMessage(j)' = WordsOfMessage(j)
      BY <2>2 DEF WordsOfMessage
    <3> QED BY <1>a, <2>2, <3>1, <3>2 DEF OneLossHarmless
  <2> QED BY <2>5, <2>6 DEF OneLossInv
<1>3. CASE Receive
  <2>1. Len(msgs) > 0 /\ next <= Current.n
    <3>1. msgs # <<>>
      BY <1>3 DEF Receive, Done
    <3> QED BY <1>0, <1>3, <3>1, InProgress DEF Receive, TypeOK
  <2>2. /\ parse_SCTE_104(PacketAt(next))
        /\ UNCHANGED <<msgs, lost, repeated>> /\ next' = next + 1
    BY <1>3 DEF Receive
  <2> QED BY <1>b, <2>1, <2>2, ReceiveAfterOneLoss
<1>4. CASE Lose
  <2>1. /\ Len(msgs) > 0 /\ next <= Current.n /\ Current.n \in Nat
    <3>1. msgs # <<>>
      BY <1>4 DEF Lose, Done
    <3> QED BY <1>0, <1>4, <3>1, InProgress DEF Lose, TypeOK
  <2>2. /\ lost = 0 /\ lost' = 1 /\ next' = next + 1 /\ UNCHANGED <<msgs, repeated, last>>
        /\ fragments' = fragments \/ fragments' = <<>>
    BY <1>0, <1>4 DEF Lose, ParseOutOfMemory, messageFragmentReset
  <2>3. OneLossHarmless'
    BY <1>b, <2>2 DEF OneLossInv, OneLossHarmless
  <2>4. ASSUME fragments' # <<>>
        PROVE  fragments'[1].word.id = Len(msgs) /\ Len(fragments') < next' - 1 /\ next' > 1
    <3>1. fragments' = fragments /\ fragments = Prefix(next - 1) /\ next > 1
      BY <1>b, <2>2, <2>4 DEF OneLossInv, AtMostOneGap
    <3>2. /\ Len(Prefix(next - 1)) = next - 1 /\ Prefix(next - 1)[1] = PacketAt(1)
      BY <1>0, <2>1, <3>1, PrefixIsList
    <3> QED BY <1>0, <2>2, <3>1, <3>2 DEF PacketAt
  <2>5. AtMostOneGap'
    BY <2>2, <2>4 DEF AtMostOneGap
  <2> QED BY <2>3, <2>5 DEF OneLossInv
<1>5. ~Repeat
  BY <1>0 DEF Repeat
<1>6. CASE Noise
  <2>1. PICK v \in {0, 9, 13} :
          parse_SCTE_104([desc |-> v, word |-> [id |-> Len(msgs), pos |-> 1]])
    BY <1>6 DEF Noise
  <2>2. UNCHANGED <<fragments, last>>
    BY <2>1, NoiseKind, Dispatch DEF HandleRejected
  <2> QED BY <1>1, <1>6, <2>2 DEF Noise
<1>7. CASE cleanup_SCTE_104
  <2>1. fragments' = <<>> /\ UNCHANGED <<msgs, next, last, lost, repeated>>
    BY <1>7 DEF cleanup_SCTE_104, messageFragmentReset
  <2> QED BY <1>b, <2>1 DEF OneLossInv, AtMostOneGap, OneLossHarmless
<1>8. CASE UNCHANGED vars
  BY <1>1, <1>8 DEF vars
<1> QED BY <1>2, <1>3, <1>4, <1>5, <1>6, <1>7, <1>8 DEF Next

\* With one packet lost and none repeated, what the application is given is a
\* message that was sent, whole: a wrong message takes two losses or a repeat.
THEOREM OneLossNeverSplices == Spec => []OneLossHarmless
<1>1. Init => OneLossInv
  BY DEF Init, OneLossInv, AtMostOneGap, OneLossHarmless
<1>2. OneLossInv => OneLossHarmless
  BY DEF OneLossInv
<1> QED BY <1>1, <1>2, OneLossStep, FragmentListInvariant, PTL DEF Spec

----------------------------------------------------------------------------
(* What leaves a header behind *)

\* A message too long for the list is collected up to the point where the list
\* overflows, and thrown away there.
LongIsDropped ==
  Len(msgs) > 0 /\ clean /\ ~destroyed /\ Current.n > MaxFragments /\ next > 1 =>
    Len(fragments) = IF next - 1 < MaxFragments THEN next - 1 ELSE 0

\* One header may still be left behind by the message in progress if it was
\* disturbed, or is malformed, and has not ended.
Credit == IF ~Done /\ (~clean \/ ~Honest(Current)) THEN 1 ELSE 0

Balance == live - Len(fragments)

LeakInv ==
  /\ CollectsPrefix /\ Recovers
  /\ LongIsDropped
  /\ Balance + Credit <= lost + repeated + Cardinality(Dishonest)

\* A packet leaves at most one header behind, and only a final packet whose
\* message does not fit or is not a well-formed one as sent leaves one.
LEMMA ParseBalance ==
  ASSUME ListInv, NEW p \in Packet, parse_SCTE_104(p)
  PROVE  \/ Balance' = Balance
         \/ /\ Balance' = Balance + 1 /\ Kind(p.desc) = "final" /\ fragments # <<>>
            /\ \/ Overflows(Append(fragments, p))
               \/ ~AsSent(WordsOf(Append(fragments, p)))
<1>1. /\ TypeOK /\ live \in Nat /\ fragments \in Seq(Packet) /\ Len(fragments) \in Nat
  BY DEF ListInv, TypeOK
<1>2. CASE messageFragmentReset
  <2>1. fragments' = <<>> /\ live' = live - Len(fragments)
    BY <1>2 DEF messageFragmentReset
  <2> QED BY <1>1, <2>1 DEF Balance
<1>3. CASE messageFragmentAppend(p)
  <2>1. live' = live + 1 /\ Len(fragments') = Len(fragments) + 1
    BY <1>1, <1>3 DEF messageFragmentAppend
  <2> QED BY <1>1, <2>1 DEF Balance
<1>4. CASE HandleSingle(p)
  BY <1>2, <1>4 DEF HandleSingle
<1>5. CASE HandleFirst(p)
  <2>1. live' = live - Len(fragments) + 1 /\ Len(fragments') = 1
    BY <1>5 DEF HandleFirst
  <2> QED BY <1>1, <2>1 DEF Balance
<1>6. CASE HandleFollowing(p)
  BY <1>2, <1>3, <1>6 DEF HandleFollowing
<1>7. CASE HandleFinal(p)
  <2>1. fragments' = <<>> /\ Len(fragments') = 0 /\ Kind(p.desc) = "final"
    BY <1>7 DEF HandleFinal
  <2>2. CASE Len(fragments) = 0
    <3>1. live' = live
      BY <1>7, <2>2 DEF HandleFinal
    <3> QED BY <1>1, <2>1, <2>2, <3>1 DEF Balance
  <2>3. CASE Len(fragments) # 0
    <3> DEFINE all == Append(fragments, p)
               said == WordsOf(all)
    <3>1. /\ all \in Seq(Packet) /\ Len(all) = Len(fragments) + 1 /\ all[1] = fragments[1]
          /\ fragments # <<>>
      BY <1>1, <2>3
    <3>2. fragments[1].word.id \in 1 .. Len(msgs)
      BY <1>1, <2>3 DEF ListInv
    <3>3. all = Append(fragments, p) /\ said = WordsOf(all)
      OBVIOUS
    <3> HIDE DEF all
    <3>4. said[1].id \in 1 .. Len(msgs)
      BY <1>1, <3>1, <3>2, WordsOfTyped
    <3> HIDE DEF said
    <3>5. \/ live' = live - Len(fragments)
          \/ /\ live' = live - Len(fragments) + 1
             /\ Overflows(all) \/ ~AsSent(said)
      BY <1>1, <1>7, <2>3, <3>3, <3>4, FinalOutcome
    <3>6. \/ Balance' = Balance
          \/ Balance' = Balance + 1 /\ (Overflows(all) \/ ~AsSent(said))
      BY <1>1, <2>1, <3>5 DEF Balance
    <3> QED BY <2>1, <3>1, <3>3, <3>6
  <2> QED BY <1>1, <2>2, <2>3
<1>8. CASE HandleRejected(p)
  BY <1>8 DEF HandleRejected, Balance
<1> QED BY <1>4, <1>5, <1>6, <1>7, <1>8 DEF parse_SCTE_104

\* A message too long for the list: packet next, undisturbed.
LEMMA LongStep ==
  ASSUME ListInv, LongIsDropped, clean, ~destroyed, Len(msgs) > 0,
         Current.n > MaxFragments, next <= Current.n, parse_SCTE_104(PacketAt(next))
  PROVE  Len(fragments') = IF next < MaxFragments THEN next ELSE 0
<1> DEFINE n == Current.n
           p == PacketAt(next)
<1>1. /\ TypeOK /\ n \in Nat /\ next \in Nat /\ next >= 1 /\ MaxFragments \in Nat
      /\ MaxFragments > 1 /\ fragments \in Seq(Packet) /\ Len(fragments) \in Nat
  BY InProgress DEF ListInv, TypeOK
<1>2. p \in Packet /\ p.desc = Descriptor(next, n)
  BY <1>1, PacketAtTyped DEF PacketAt
<1>3. CASE next = 1
  <2>1. HandleFirst(p)
    <3>1. Kind(p.desc) = "first"
      BY <1>1, <1>2, <1>3, DescriptorKind
    <3> QED BY <3>1, Dispatch
  <2>2. Len(fragments') = 1
    BY <2>1 DEF HandleFirst
  <2> QED BY <1>1, <1>3, <2>2
<1>4. CASE next > 1 /\ next < n
  <2>1. HandleFollowing(p)
    <3>1. Kind(p.desc) = "mid"
      BY <1>1, <1>2, <1>4, DescriptorKind
    <3> QED BY <3>1, Dispatch
  <2>2. Len(fragments) = IF next - 1 < MaxFragments THEN next - 1 ELSE 0
    BY <1>4 DEF LongIsDropped
  <2>3. messageFragmentReset => Len(fragments') = 0
    BY DEF messageFragmentReset
  <2>4. messageFragmentAppend(p) => Len(fragments') = Len(fragments) + 1
    BY <1>1, <1>2 DEF messageFragmentAppend
  <2>5. IF Len(fragments) = 0 \/ Len(fragments) + 1 = MaxFragments
        THEN messageFragmentReset ELSE messageFragmentAppend(p)
    BY <2>1 DEF HandleFollowing
  <2> QED BY <1>1, <1>4, <2>2, <2>3, <2>4, <2>5
<1>5. CASE next > 1 /\ next = n
  <2>1. HandleFinal(p)
    <3>1. Kind(p.desc) = "final"
      BY <1>1, <1>2, <1>5, DescriptorKind
    <3> QED BY <3>1, Dispatch
  <2>2. Len(fragments') = 0
    BY <2>1 DEF HandleFinal
  <2> QED BY <1>1, <1>5, <2>2
<1> QED BY <1>1, <1>3, <1>4, <1>5

\* An undisturbed final packet of a well-formed message leaves no header behind:
\* the list holds all of the message, or nothing.
LEMMA SentIsFreed ==
  ASSUME ListInv, LeakInv, clean, ~destroyed, Len(msgs) > 0, Honest(Current),
         next = Current.n, next > 1, fragments # <<>>
  PROVE  /\ ~Overflows(Append(fragments, PacketAt(next)))
         /\ AsSent(WordsOf(Append(fragments, PacketAt(next))))
<1> DEFINE k == next - 1
<1>1. /\ TypeOK /\ next \in Nat /\ MaxFragments \in Nat /\ k \in Nat /\ k + 1 = next
      /\ Len(msgs) \in Nat /\ fragments \in Seq(Packet) /\ Len(fragments) # 0
  BY DEF ListInv, TypeOK
<1>2. next <= MaxFragments
  BY <1>1 DEF LeakInv, LongIsDropped
<1>3. fragments = Prefix(k)
  BY <1>1, <1>2 DEF LeakInv, CollectsPrefix, Prefix
<1> HIDE DEF k
<1>4. Append(Prefix(k), PacketAt(k + 1)) = Prefix(k + 1)
  BY <1>1, PrefixAppend
<1>5. Append(fragments, PacketAt(next)) = Prefix(Current.n)
  BY <1>1, <1>3, <1>4
<1>6. WordsOf(Prefix(Current.n)) = WordsOfMessage(Len(msgs)) /\ Len(Prefix(Current.n)) = Current.n
  BY <1>1, PrefixWords, PrefixIsList
<1>7. WordsOfMessage(Len(msgs))[1].id = Len(msgs)
  BY <1>1 DEF WordsOfMessage, Current
<1>8. AsSent(WordsOfMessage(Len(msgs)))
  BY <1>7 DEF AsSent, Current
<1>9. ~Overflows(Prefix(Current.n))
  BY <1>1, <1>2, <1>6 DEF Overflows, RawWords
<1> QED BY <1>5, <1>6, <1>8, <1>9

\* Every step preserves how a message too long for the list is thrown away.
LEMMA LongIsDroppedStep == ListInv /\ LongIsDropped /\ [Next]_vars => LongIsDropped'
<1> SUFFICES ASSUME ListInv, LongIsDropped, [Next]_vars,
                    Len(msgs') > 0, clean', ~destroyed', Current'.n > MaxFragments, next' > 1
             PROVE  Len(fragments') = IF next' - 1 < MaxFragments THEN next' - 1 ELSE 0
  BY DEF LongIsDropped
<1>0. /\ TypeOK /\ next \in Nat /\ Len(msgs) \in Nat /\ MaxFragments \in Nat
      /\ MaxFragments > 1
  BY DEF ListInv, TypeOK
<1>1. CASE UNCHANGED <<msgs, next, fragments, clean, destroyed>>
  BY <1>1 DEF LongIsDropped, Current
<1>2. ~StartMessage
  BY DEF StartMessage
<1>3. CASE Receive
  <2>1. /\ Len(msgs) > 0 /\ next <= Current.n /\ UNCHANGED <<msgs, clean, destroyed>>
        /\ parse_SCTE_104(PacketAt(next)) /\ next' = next + 1
    <3>1. msgs # <<>> /\ Len(msgs) > 0
      BY <1>0, <1>3 DEF Receive, Done, TypeOK
    <3> QED BY <1>0, <1>3, <3>1, InProgress DEF Receive
  <2>2. Current' = Current
    BY <2>1 DEF Current
  <2>3. Len(fragments') = IF next < MaxFragments THEN next ELSE 0
    BY <2>1, <2>2, LongStep
  <2> QED BY <1>0, <2>1, <2>3
<1>4. ~Lose
  BY DEF Lose
<1>5. CASE Repeat
  <2>1. /\ Len(msgs) > 0 /\ next > 1 /\ UNCHANGED <<msgs, next, destroyed>>
        /\ parse_SCTE_104(PacketAt(next - 1)) /\ clean /\ Done
    BY <1>5 DEF Repeat
  <2>2. Current' = Current /\ msgs # <<>>
    BY <2>1 DEF Current
  <2> DEFINE n == Current.n
             p == PacketAt(n)
  <2>3. n \in Nat /\ n > MaxFragments /\ next = n + 1
    <3>1. n \in Nat /\ ~(next <= n) /\ next <= n + 1
      BY <1>0, <2>1, <2>2, InProgress DEF ListInv
    <3> QED BY <1>0, <2>2, <3>1
  <2>4. Len(fragments) = 0
    BY <1>0, <2>1, <2>2, <2>3 DEF LongIsDropped
  <2>5. parse_SCTE_104(p) /\ p.desc = Descriptor(n, n)
    BY <2>1, <2>3 DEF PacketAt
  <2>6. Kind(p.desc) = "final"
    BY <1>0, <2>3, <2>5, DescriptorKind
  <2>7. fragments' = <<>>
    BY <2>5, <2>6, Dispatch DEF HandleFinal
  <2> QED BY <1>0, <2>1, <2>3, <2>7
<1>6. CASE Noise
  <2>1. PICK v \in {0, 9, 13} :
          parse_SCTE_104([desc |-> v, word |-> [id |-> Len(msgs), pos |-> 1]])
    BY <1>6 DEF Noise
  <2>2. UNCHANGED <<fragments, last>>
    BY <2>1, NoiseKind, Dispatch DEF HandleRejected
  <2> QED BY <1>1, <1>6, <2>2 DEF Noise
<1>7. ~cleanup_SCTE_104
  BY DEF cleanup_SCTE_104
<1>8. CASE UNCHANGED vars
  BY <1>1, <1>8 DEF vars
<1> QED BY <1>2, <1>3, <1>4, <1>5, <1>6, <1>7, <1>8 DEF Next

\* The malformed messages can be counted.
LEMMA DishonestFinite ==
  ASSUME TypeOK
  PROVE  IsFiniteSet(Dishonest) /\ Cardinality(Dishonest) \in Nat
<1>1. Len(msgs) \in Nat
  BY DEF TypeOK
<1>2. IsFiniteSet(1 .. Len(msgs)) /\ Dishonest \in SUBSET (1 .. Len(msgs))
  BY <1>1, FS_Interval DEF Dishonest
<1>3. IsFiniteSet(Dishonest)
  BY <1>2, FS_Subset
<1> QED BY <1>3, FS_CardinalityType

\* A new message adds itself to the malformed ones if it is one of them.
LEMMA DishonestCount ==
  ASSUME TypeOK, NEW m, msgs' = Append(msgs, m)
  PROVE  Cardinality(Dishonest)' = Cardinality(Dishonest) + (IF Honest(m) THEN 0 ELSE 1)
<1> DEFINE k == Len(msgs) + 1
<1>1. Len(msgs) \in Nat /\ msgs \in Seq(Message)
  BY DEF TypeOK
<1>2. IsFiniteSet(Dishonest) /\ Cardinality(Dishonest) \in Nat
  BY DishonestFinite
<1>3. /\ Len(msgs') = k /\ msgs'[k] = m /\ k \notin Dishonest
      /\ \A j \in 1 .. Len(msgs) : msgs'[j] = msgs[j]
  BY <1>1 DEF Dishonest
<1>4. CASE Honest(m)
  <2>1. Dishonest' = Dishonest
    BY <1>1, <1>3, <1>4 DEF Dishonest, Honest
  <2> QED BY <1>2, <1>4, <2>1
<1>5. CASE ~Honest(m)
  <2>1. Dishonest' = Dishonest \cup {k}
    BY <1>1, <1>3, <1>5 DEF Dishonest, Honest
  <2>2. Cardinality(Dishonest \cup {k}) = Cardinality(Dishonest) + 1
    BY <1>2, <1>3, FS_AddElement
  <2> QED BY <1>2, <1>5, <2>1, <2>2
<1> QED BY <1>4, <1>5

\* The account of a step that leaves nothing behind: of its own, and one that
\* opens a credit and pays for it.
LEMMA StaysPaid ==
  ASSUME NEW b \in Int, NEW c \in Nat, NEW e \in Nat, e = 0 \/ e = c,
         NEW l \in Nat, NEW r \in Nat, NEW d \in Nat, b + c <= l + r + d
  PROVE  b + e <= l + r + d
  OBVIOUS

LEMMA PaysForOne ==
  ASSUME NEW b \in Int, NEW c \in Nat, NEW e \in Nat, e <= 1,
         NEW l \in Nat, NEW r \in Nat, NEW d \in Nat, b + c <= l + r + d,
         NEW l2, NEW r2, NEW d2,
         \/ l2 = l + 1 /\ r2 = r /\ d2 = d
         \/ l2 = l /\ r2 = r + 1 /\ d2 = d
         \/ l2 = l /\ r2 = r /\ d2 = d + 1
  PROVE  b + e <= l2 + r2 + d2
  OBVIOUS

\* Every step preserves the account of the headers left behind.
LEMMA LeakStep == ListInv /\ LeakInv /\ [Next]_vars => LeakInv'
<1> SUFFICES ASSUME ListInv, LeakInv, [Next]_vars
             PROVE  (Balance + Credit <= lost + repeated + Cardinality(Dishonest))'
  BY RecoverStep, LongIsDroppedStep DEF LeakInv
<1> DEFINE D == Cardinality(Dishonest)
<1>0. /\ TypeOK /\ next \in Nat /\ next >= 1 /\ Len(msgs) \in Nat /\ Balance \in Int
      /\ lost \in Nat /\ repeated \in Nat /\ clean \in BOOLEAN
  BY DEF ListInv, TypeOK, Balance
<1>a. D \in Nat /\ (UNCHANGED msgs => D' = D)
  BY <1>0, DishonestFinite DEF Dishonest
<1>b. Balance + Credit <= lost + repeated + D
  BY DEF LeakInv
<1> HIDE DEF D
<1>c. Credit \in {0, 1} /\ Credit' \in {0, 1} /\ (Done => Credit = 0) /\ (Done' => Credit' = 0)
  BY DEF Credit
<1>e. /\ Balance \in Int /\ lost \in Nat /\ repeated \in Nat /\ D \in Nat
      /\ Credit \in Nat /\ Credit' \in Nat /\ Credit <= 1 /\ Credit' <= 1
  BY <1>0, <1>a, <1>c
<1>d. SUFFICES Balance' + Credit' <= lost' + repeated' + D'
  BY DEF D
<1>1. CASE UNCHANGED <<msgs, next, clean, lost, repeated>> /\ Balance' = Balance
  <2>1. Credit' = Credit
    BY <1>1 DEF Credit, Done, Current, Honest
  <2> QED BY <1>1, <1>a, <1>b, <2>1
<1>2. CASE StartMessage
  <2>1. PICK m \in Message : msgs' = Append(msgs, m)
    BY <1>2 DEF StartMessage
  <2>2. UNCHANGED <<fragments, live, lost, repeated>> /\ Done /\ clean' = TRUE
    BY <1>2 DEF StartMessage
  <2>3. D' = D + (IF Honest(m) THEN 0 ELSE 1)
    BY <1>0, <2>1, DishonestCount DEF D
  <2>4. Current' = m
    BY <1>0, <2>1 DEF Current, TypeOK
  <2>5. Honest(m) => Credit' = 0
    BY <2>2, <2>4 DEF Credit, Honest
  <2>6. Balance' = Balance
    BY <2>2 DEF Balance
  <2>7. Credit = 0 /\ lost' = lost /\ repeated' = repeated
    BY <1>c, <2>2
  <2>8. CASE Honest(m)
    <3>1. D' = D /\ Credit' = 0
      BY <1>e, <2>3, <2>5, <2>8
    <3> QED BY ONLY <1>b, <1>e, <2>6, <2>7, <3>1
  <2>9. CASE ~Honest(m)
    <3>1. lost' = lost /\ repeated' = repeated /\ D' = D + 1
      BY <2>3, <2>7, <2>9
    <3>2. Balance + Credit' <= lost' + repeated' + D'
      BY ONLY <1>b, <1>e, <3>1, PaysForOne, Zenon
    <3> QED BY ONLY <2>6, <3>2, Zenon
  <2> QED BY <2>8, <2>9
<1>3. CASE Receive
  <2> DEFINE n == Current.n
             p == PacketAt(next)
  <2>1. /\ Len(msgs) > 0 /\ next <= n /\ n \in Nat /\ ~Done /\ ~destroyed
        /\ UNCHANGED <<msgs, clean, lost, repeated>>
        /\ parse_SCTE_104(p) /\ next' = next + 1
    <3>1. msgs # <<>> /\ Len(msgs) > 0
      BY <1>0, <1>3 DEF Receive, Done, TypeOK
    <3> QED BY <1>0, <1>3, <3>1, InProgress DEF Receive
  <2>2. Current' = Current
    BY <2>1 DEF Current
  <2>3. Credit' = 0 \/ Credit' = Credit
    BY <2>1, <2>2 DEF Credit, Honest
  <2>4. p \in Packet /\ p.desc = Descriptor(next, n)
    BY <1>0, <2>1, PacketAtTyped DEF PacketAt
  <2>5. CASE Balance' = Balance
    <3>1. lost' = lost /\ repeated' = repeated /\ D' = D
      BY <1>a, <2>1
    <3>2. Balance + Credit' <= lost + repeated + D
      BY ONLY <1>b, <1>e, <2>3, StaysPaid, Zenon
    <3> QED BY ONLY <2>5, <3>1, <3>2, Zenon
  <2>6. CASE /\ Balance' = Balance + 1 /\ Kind(p.desc) = "final" /\ fragments # <<>>
             /\ \/ Overflows(Append(fragments, p))
                \/ ~AsSent(WordsOf(Append(fragments, p)))
    <3>1. next = n /\ next > 1
      BY <1>0, <2>1, <2>4, <2>6, DescriptorKind
    <3>2. ~clean \/ ~Honest(Current)
      BY <1>0, <2>1, <2>6, <3>1, SentIsFreed
    <3>3. Credit = 1
      BY <2>1, <3>2 DEF Credit
    <3>4. Done'
      BY <1>0, <2>1, <2>2, <3>1 DEF Done
    <3> QED BY <1>0, <1>a, <1>b, <1>c, <2>1, <2>6, <3>3, <3>4
  <2> QED BY <2>1, <2>4, <2>5, <2>6, ParseBalance
<1>4. CASE Lose
  <2> DEFINE n == Current.n
             p == PacketAt(next)
  <2>1. /\ lost' = lost + 1 /\ repeated' = repeated /\ UNCHANGED msgs /\ ~Done /\ next' = next + 1
        /\ UNCHANGED <<fragments, live, last>> \/ ParseOutOfMemory(p)
    BY <1>4 DEF Lose
  <2>2. lost' = lost + 1 /\ repeated' = repeated /\ D' = D
    BY <1>a, <2>1
  <2>3. Len(msgs) > 0 /\ next <= n /\ n \in Nat
    <3>1. msgs # <<>> /\ Len(msgs) > 0
      BY <1>0, <2>1 DEF Done, TypeOK
    <3> QED BY <1>0, <2>1, <3>1, InProgress
  <2>4. live \in Nat /\ Len(fragments) \in Nat
    BY <1>0 DEF TypeOK
  <2>5. CASE Balance' = Balance
    <3>1. Balance + Credit' <= lost' + repeated' + D'
      BY ONLY <1>b, <1>e, <2>2, PaysForOne, Zenon
    <3> QED BY ONLY <2>5, <3>1, Zenon
  <2>6. CASE UNCHANGED <<fragments, live>>
    BY <2>5, <2>6 DEF Balance
  <2>7. CASE messageFragmentReset
    <3>1. live' = live - Len(fragments) /\ Len(fragments') = 0
      BY <2>7 DEF messageFragmentReset
    <3> QED BY <2>4, <2>5, <3>1 DEF Balance
  <2>8. CASE Kind(p.desc) = "final" /\ fragments' = <<>> /\ live' = live - Len(fragments) + 1
    <3>1. next = n
      <4>1. p.desc = Descriptor(next, n)
        BY DEF PacketAt
      <4>2. ~(next < n)
        BY <1>0, <2>3, <2>8, <4>1, DescriptorKind
      <4> QED BY <1>0, <2>3, <4>2
    <3>2. Done'
      BY <1>0, <2>1, <2>3, <3>1 DEF Done, Current
    <3>3. Len(fragments') = 0
      BY <2>8
    <3>4. Balance' = Balance + 1 /\ Credit' = 0
      BY <1>c, <2>4, <2>8, <3>2, <3>3 DEF Balance
    <3> QED BY <1>0, <1>a, <1>b, <1>c, <2>2, <3>4
  <2> QED BY <2>1, <2>6, <2>7, <2>8 DEF ParseOutOfMemory
<1>5. CASE Repeat
  <2> DEFINE n == Current.n
             p == PacketAt(next - 1)
  <2>1. /\ Len(msgs) > 0 /\ next > 1 /\ UNCHANGED <<msgs, next, lost>>
        /\ parse_SCTE_104(p) /\ repeated' = repeated + 1 /\ clean' = (clean /\ Done)
    BY <1>5 DEF Repeat
  <2>2. /\ Current' = Current /\ (Done' <=> Done) /\ msgs # <<>>
    BY <2>1 DEF Current, Done
  <2>3. n \in Nat /\ next - 1 <= n /\ next - 1 \in Nat /\ next - 1 >= 1
    <3>1. n \in Nat /\ next <= n + 1
      BY <1>0, <2>1, <2>2, InProgress DEF ListInv
    <3> QED BY <1>0, <2>1, <3>1
  <2>4. p \in Packet /\ p.desc = Descriptor(next - 1, n)
    BY <1>0, <2>1, <2>3, PacketAtTyped DEF PacketAt
  <2>5. CASE Balance' = Balance
    <3>1. lost' = lost /\ repeated' = repeated + 1 /\ D' = D
      BY <1>a, <2>1
    <3>2. Balance + Credit' <= lost' + repeated' + D'
      BY ONLY <1>b, <1>e, <3>1, PaysForOne, Zenon
    <3> QED BY ONLY <2>5, <3>2, Zenon
  <2>6. CASE Balance' = Balance + 1 /\ Kind(p.desc) = "final"
    <3>1. next - 1 = n
      <4>1. ~(next - 1 < n)
        BY <2>3, <2>4, <2>6, DescriptorKind
      <4> QED BY <1>0, <2>3, <4>1
    <3>2. Done
      BY <1>0, <2>1, <2>3, <3>1, InProgress
    <3> QED BY <1>0, <1>a, <1>b, <1>c, <2>1, <2>2, <2>6, <3>2
  <2> QED BY <2>1, <2>4, <2>5, <2>6, ParseBalance
<1>6. CASE Noise
  <2>1. PICK v \in {0, 9, 13} :
          parse_SCTE_104([desc |-> v, word |-> [id |-> Len(msgs), pos |-> 1]])
    BY <1>6 DEF Noise
  <2>2. UNCHANGED <<fragments, live>>
    BY <2>1, NoiseKind, Dispatch DEF HandleRejected
  <2> QED BY <1>1, <1>6, <2>2 DEF Noise, Balance
<1>7. CASE cleanup_SCTE_104
  <2>1. /\ fragments' = <<>> /\ live' = live - Len(fragments)
        /\ UNCHANGED <<msgs, next, clean, lost, repeated>>
    BY <1>7 DEF cleanup_SCTE_104, messageFragmentReset
  <2>2. live \in Nat /\ Len(fragments) \in Nat /\ Len(fragments') = 0
    BY <1>0, <2>1 DEF TypeOK
  <2>3. Balance' = Balance
    BY <2>1, <2>2 DEF Balance
  <2> QED BY <1>1, <2>1, <2>3
<1>8. CASE UNCHANGED vars
  BY <1>1, <1>8 DEF vars, Balance
<1> QED BY <1>2, <1>3, <1>4, <1>5, <1>6, <1>7, <1>8 DEF Next

\* Every packet header of the reassembly left behind is paid for by a lost packet,
\* a repeated one or a malformed message of its own.
THEOREM LeaksAreBounded == Spec => []LeaksArePaidFor
<1>1. Init => LeakInv
  <2> SUFFICES ASSUME Init PROVE LeakInv
    OBVIOUS
  <2>1. TypeOK
    BY ListInvInit DEF ListInv
  <2>2. Balance = 0 /\ Credit = 0 /\ lost = 0 /\ repeated = 0
    <3>1. fragments = <<>> /\ live = 0 /\ msgs = <<>> /\ lost = 0 /\ repeated = 0
      BY DEF Init
    <3>2. Len(fragments) = 0
      BY <3>1
    <3>2a. 0 - 0 = 0
      OBVIOUS
    <3>2b. Balance = 0
      BY ONLY <3>1, <3>2, <3>2a, Zenon DEF Balance
    <3>3. Done
      BY ONLY <3>1 DEF Done
    <3>4. Credit = 0
      BY ONLY <3>3 DEF Credit
    <3> QED BY <3>1, <3>2b, <3>4
  <2>3. Cardinality(Dishonest) \in Nat
    BY <2>1, DishonestFinite
  <2>4. CollectsPrefix /\ Recovers /\ LongIsDropped
    BY DEF Init, CollectsPrefix, Recovers, LongIsDropped
  <2> QED BY <2>2, <2>3, <2>4 DEF LeakInv
<1>2. ListInv /\ LeakInv => LeaksArePaidFor
  <2> SUFFICES ASSUME ListInv, LeakInv PROVE LeaksArePaidFor
    OBVIOUS
  <2>1. TypeOK /\ Balance \in Int /\ lost \in Nat /\ repeated \in Nat
    BY DEF ListInv, TypeOK, Balance
  <2>2. Cardinality(Dishonest) \in Nat /\ Credit \in {0, 1}
    BY <2>1, DishonestFinite DEF Credit
  <2> QED BY <2>1, <2>2 DEF LeakInv, LeaksArePaidFor, Balance
<1> QED BY <1>1, <1>2, LeakStep, FragmentListInvariant, PTL DEF Spec

=============================================================================
