--------------------------- MODULE TransportProofs ---------------------------
(***************************************************************************)
(* The packetizer's buffer and the extractor's ring, for any frames,       *)
(* sizes, losses and repetitions.                                          *)
(***************************************************************************)
EXTENDS Transport, RingBufferProofs, SequenceTheorems

\* A packet of a frame that the packetizer can be given.
Line == {l \in [lineNr : 0 .. 2047, words : Seq(0 .. 1023)] : Len(l.words) \in 7 .. MaxWords + 7}

SenderOK ==
  /\ stage \in {"idle", "open", "aborted"}
  /\ todo \in Seq(Line)
  /\ (\E S : sent \in Seq(S)) /\ Len(sent) <= MaxFrames
  /\ stage = "open" => Len(sent) < MaxFrames

\* The members of the packetizer agree with each other, and it is inside its buffer.
PacketizerOK ==
  \E len \in Nat, used \in Nat : \E S : \E buf \in Seq(S) :
    /\ pk = [buflen |-> len, bufused |-> used, buffree |-> len - used, buf |-> buf]
    /\ used = ResetOffset + Len(buf) /\ used <= len

\* What is pushed has a payload that is not longer than the packet.
Pushable(w) == PayloadLength(w.ts) \in Nat /\ w.of \in 0 .. MaxFrames

WireOK ==
  /\ \E S : wire \in Seq(S) /\ \A w \in S : Pushable(w)
  /\ last \in 0 .. MaxFrames /\ hit \subseteq 0 .. MaxFrames

ExtractorOK ==
  /\ at \in {"idle", "loop", "search"} /\ i \in Nat
  /\ (\E S : b \in Seq(S)) /\ Len(b) = 4
  /\ RingOK(rb) /\ RingIsQueue

IInv == SenderOK /\ PacketizerOK /\ WireOK /\ ExtractorOK

----------------------------------------------------------------------------
(* Operators of the packetizer *)

LEMMA LineFits ==
  ASSUME NEW n \in 0 .. MaxWords
  PROVE  LineLength(n) \in Nat /\ LineLength(n) <= 2 * n + Headroom /\ 2 * n + Headroom <= BufStep
<1>1. n \in Nat
  BY PacketizerAssumption
<1>2. (60 + 10 * n + 10 + 7) \div 8 \in Nat /\ (60 + 10 * n + 10 + 7) \div 8 <= 2 * n + 64
  BY <1>1
<1>3. 2 * n + 64 <= BufStep
  BY PacketizerAssumption
<1> QED
  BY <1>2, <1>3 DEF LineLength, LineHeaderBits, Headroom

\* The bytes of a line are as many as its length says.
LEMMA LineBytes ==
  ASSUME NEW pkt, Len(pkt.payload) \in 0 .. MaxWords
  PROVE  \E S : Packed(LineBits(pkt)) \in Seq(S) /\ Len(Packed(LineBits(pkt))) = LineLength(Len(pkt.payload))
<1> DEFINE len == LineLength(Len(pkt.payload))
           bits == LineBits(pkt)
           bytes == Packed(bits)
<1>1. PICK m \in Nat : m = len
  BY LineFits
<1>2. DOMAIN bits = 1 .. 8 * m /\ Len(bits) = 8 * m
  <2>1. DOMAIN bits = 1 .. 8 * len /\ bits = [k \in DOMAIN bits |-> bits[k]]
    BY DEF LineBits
  <2> HIDE DEF bits, len
  <2>2. 8 * m \in Nat /\ bits = [k \in 1 .. 8 * m |-> bits[k]]
    BY <1>1, <2>1
  <2>3. bits \in Seq({bits[k] : k \in 1 .. 8 * m})
    BY <2>2
  <2> QED
    BY <1>1, <2>1, <2>3
<1> HIDE DEF bits, len
<1>3. (Len(bits) + 7) \div 8 = m
  BY <1>2
<1>4. DOMAIN bytes = 1 .. m /\ bytes = [k \in 1 .. m |-> bytes[k]]
  BY <1>3 DEF Packed
<1> HIDE DEF bytes
<1>5. bytes \in Seq({bytes[k] : k \in 1 .. m}) /\ Len(bytes) = m
  BY <1>4
<1> QED
  BY <1>1, <1>5 DEF bytes, bits, len

\* The packetizer sends transport packets that can be pushed.
LEMMA PacketsPushable ==
  ASSUME NEW n \in 1 .. MaxFrames, NEW buf, Len(buf) \in Nat, NEW S, wire \in Seq(S), \A w \in S : Pushable(w)
  PROVE  LET ts == ts_packetizer(buf, cc, Pid, PacketSize)
         IN \E T : /\ wire \o [k \in 1 .. Len(ts) |-> [ts |-> ts[k], of |-> n]] \in Seq(T)
                   /\ \A w \in T : Pushable(w)
<1> DEFINE ts == ts_packetizer(buf, cc, Pid, PacketSize)
           more == [k \in 1 .. Len(ts) |-> [ts |-> ts[k], of |-> n]]
           T == S \cup {more[k] : k \in 1 .. Len(ts)}
<1>1. PICK m \in Nat : m = Needed(Len(buf), PacketSize - 4)
  <2>1. PICK max \in Nat \ {0} : max = PacketSize - 4
    BY ExtractorAssumption
  <2>2. PICK x \in Nat : x = Len(buf) + max - 1
    BY SMTT(30)
  <2>3. x \div max \in Nat
    OBVIOUS
  <2> QED
    BY <2>1, <2>2, <2>3 DEF Needed
<1>2. /\ DOMAIN ts = 1 .. m /\ ts = [k \in DOMAIN ts |-> ts[k]]
      /\ \A k \in 1 .. m : ts[k].adaption = 1
  BY <1>1 DEF ts_packetizer
<1> HIDE DEF ts
<1>3. Len(ts) = m
  <2>1. ts \in Seq({ts[k] : k \in 1 .. m})
    BY <1>2
  <2> QED
    BY <1>2, <2>1
<1>4. \A k \in 1 .. m : Pushable(more[k])
  <2> SUFFICES ASSUME NEW k \in 1 .. m
               PROVE  Pushable(more[k])
    OBVIOUS
  <2>1. more[k].ts = ts[k] /\ more[k].of = n
    BY <1>3
  <2>2. PayloadLength(ts[k]) = PacketSize - 4
    BY <1>2 DEF PayloadLength, Offset
  <2> HIDE DEF more
  <2> QED
    BY <2>1, <2>2, ExtractorAssumption, TransportAssumption DEF Pushable
<1>5. more \in Seq(T)
  BY <1>3
<1>6. wire \in Seq(T)
  OBVIOUS
<1>7. \A w \in T : Pushable(w)
  BY <1>3, <1>4
<1> HIDE DEF T, more
<1>8. wire \o more \in Seq(T)
  BY <1>5, <1>6
<1> QED
  BY <1>7, <1>8 DEF more, ts

\* What a multiplexer puts in between can be pushed.
LEMMA OthersPushable ==
  ASSUME NEW ts \in Others, NEW n \in 0 .. MaxFrames
  PROVE  Pushable([ts |-> ts, of |-> n])
<1>1. PayloadLength(ts) \in Nat
  <2>1. CASE ts.adaption = 1
    BY <2>1, ExtractorAssumption DEF PayloadLength, Offset
  <2>2. CASE ts.adaption = 2 /\ ts.adaptation_length = PacketSize - 5
    BY <2>2, ExtractorAssumption DEF PayloadLength, Offset
  <2> QED
    BY <2>1, <2>2 DEF Others
<1> QED
  BY <1>1 DEF Pushable

\* The packet a line of a frame is made to is not longer than the packetizer allows.
LEMMA LinePacket ==
  ASSUME NEW l \in Line
  PROVE  Len(PacketOf(l).payload) \in 0 .. MaxWords
<1> DEFINE words == l.words
           Word == 0 .. 1023
<1>1. words \in Seq(Word) /\ Len(words) \in 7 .. MaxWords + 7
  BY DEF Line
<1> HIDE DEF words, Word
<1>2. PICK m \in Nat : m = Len(words) - 1 /\ m >= 6 /\ m <= MaxWords + 6
  BY <1>1, PacketizerAssumption
<1>3. \A k \in 7 .. m : words[k] \in Word
  BY <1>1, <1>2
<1>4. Len(SubSeq(words, 7, m)) = IF 7 <= m THEN m - 7 + 1 ELSE 0
  BY <1>3, SubSeqProperties
<1>5. PacketOf(l).payload = SubSeq(words, 7, m)
  BY <1>2 DEF PacketOf, words
<1> QED
  BY <1>2, <1>4, <1>5, PacketizerAssumption

----------------------------------------------------------------------------
(* The initial states *)

LEMMA InitOK == Init => IInv
<1> SUFFICES ASSUME Init
             PROVE  IInv
  OBVIOUS
<1>1. SenderOK
  BY TransportAssumption DEF Init, SenderOK
<1>2. PacketizerOK
  <2>1. pk = [buflen |-> BufInitial, bufused |-> 14, buffree |-> BufInitial - 14, buf |-> <<>>]
    BY DEF Init, klvanc_smpte2038_packetizer_alloc, ResetOffset
  <2>2. <<>> \in Seq({}) /\ 14 = 14 + Len(<<>>)
    OBVIOUS
  <2> QED
    BY <2>1, <2>2, PacketizerAssumption DEF PacketizerOK, ResetOffset
<1>3. WireOK
  <2>1. wire \in Seq({}) /\ last = 0 /\ hit = {}
    BY DEF Init
  <2> QED
    BY <2>1, TransportAssumption DEF WireOK
<1>4. ExtractorOK
  <2>1. RingOK(rb) /\ rb.fill = 0
    BY NewRing DEF Init, ExtractorInit
  <2>2. at = "idle" /\ i = 0 /\ b = <<0, 0, 0, 0>> /\ queue = <<>>
    BY DEF Init, ExtractorInit
  <2>3. RingIsQueue
    BY <2>1, <2>2 DEF RingIsQueue, Contents
  <2>4. b \in Seq({0}) /\ Len(b) = 4
    BY <2>2
  <2> QED
    BY <2>1, <2>2, <2>3, <2>4 DEF ExtractorOK
<1> QED
  BY <1>1, <1>2, <1>3, <1>4 DEF IInv

----------------------------------------------------------------------------
(* The steps *)

\* A fault only moves the wire and is recorded.
LEMMA FaultFrame ==
  ASSUME Lose \/ Repeat \/ Exchange \/ Multiplex
  PROVE  UNCHANGED <<sender, receiver>>
BY DEF Lose, Repeat, Exchange, Multiplex, Fault

LEMMA SenderStep == IInv /\ [Next]_vars => SenderOK'
<1> SUFFICES ASSUME IInv, [Next]_vars
             PROVE  SenderOK'
  OBVIOUS
<1>1. CASE Begin
  <2>1. PICK f \in Frames : todo' = f
    BY <1>1 DEF Begin
  <2>2. f \in Seq(Line)
    <3>1. f \in Seq([lineNr : 0 .. 2047, words : Seq(0 .. 1023)])
      BY TransportAssumption
    <3>2. \A k \in DOMAIN f : Len(f[k].words) \in 7 .. MaxWords + 7
      BY TransportAssumption, SMTT(30)
    <3>3. \A k \in 1 .. Len(f) : f[k] \in [lineNr : 0 .. 2047, words : Seq(0 .. 1023)]
      <4> DEFINE R == [lineNr : 0 .. 2047, words : Seq(0 .. 1023)]
      <4>1. f \in Seq(R)
        BY <3>1
      <4> HIDE DEF R
      <4>2. \A k \in 1 .. Len(f) : f[k] \in R
        BY <4>1, ElementOfSeq, SMTT(30)
      <4> QED
        BY <4>2 DEF R
    <3>4. \A k \in 1 .. Len(f) : f[k] \in Line
      BY <3>1, <3>2, <3>3 DEF Line
    <3> QED
      BY <3>1, <3>4
  <2> QED
    BY <1>1, <2>1, <2>2 DEF Begin, IInv, SenderOK
<1>2. CASE AppendPacket
  BY <1>2 DEF AppendPacket, IInv, SenderOK
<1>3. CASE AppendAborts
  BY <1>3 DEF AppendAborts, IInv, SenderOK
<1>4. CASE End
  <2>1. PICK S : sent \in Seq(S)
    BY DEF IInv, SenderOK
  <2>2. sent' = Append(sent, frame) /\ stage' = "idle" /\ todo' = todo /\ stage = "open"
    BY <1>4 DEF End
  <2>3. sent' \in Seq(S \cup {frame}) /\ Len(sent') = Len(sent) + 1
    BY <2>1, <2>2
  <2> QED
    BY <2>1, <2>2, <2>3, TransportAssumption DEF IInv, SenderOK
<1>5. CASE EndEmpty
  BY <1>5 DEF EndEmpty, IInv, SenderOK
<1>6. CASE Lose \/ Repeat \/ Exchange \/ Multiplex
  BY <1>6, FaultFrame DEF sender, IInv, SenderOK
<1>7. CASE Push
  BY <1>7 DEF Push, sender, IInv, SenderOK
<1>8. CASE Extract
  BY <1>8 DEF Extract, sender, IInv, SenderOK
<1>9. CASE Deliver
  BY <1>9 DEF Deliver, sender, IInv, SenderOK
<1>10. CASE NoMemory
  BY <1>10 DEF NoMemory, sender, IInv, SenderOK
<1>11. CASE UNCHANGED vars
  BY <1>11 DEF vars, sender, IInv, SenderOK
<1> QED
  BY <1>1, <1>2, <1>3, <1>4, <1>5, <1>6, <1>7, <1>8, <1>9, <1>10, <1>11 DEF Next

LEMMA PacketizerStep == IInv /\ [Next]_vars => PacketizerOK'
<1> SUFFICES ASSUME IInv, [Next]_vars
             PROVE  PacketizerOK'
  OBVIOUS
<1>a. PICK len \in Nat, used \in Nat : \E S : \E buf \in Seq(S) :
        /\ pk = [buflen |-> len, bufused |-> used, buffree |-> len - used, buf |-> buf]
        /\ used = ResetOffset + Len(buf) /\ used <= len
  BY DEF IInv, PacketizerOK
<1>b. PICK S, buf :
        /\ buf \in Seq(S)
        /\ pk = [buflen |-> len, bufused |-> used, buffree |-> len - used, buf |-> buf]
        /\ used = ResetOffset + Len(buf) /\ used <= len
  BY <1>a
<1>c. pk.buflen = len /\ pk.bufused = used /\ pk.buffree = len - used /\ pk.buf = buf
  BY <1>b
<1>1. CASE Begin
  <2>1. pk' = [buflen |-> len, bufused |-> ResetOffset, buffree |-> len - ResetOffset, buf |-> <<>>]
    BY <1>1, <1>c DEF Begin, klvanc_smpte2038_packetizer_begin
  <2>2. <<>> \in Seq({}) /\ ResetOffset = ResetOffset + Len(<<>>) /\ ResetOffset <= len /\ ResetOffset \in Nat
    BY <1>b DEF ResetOffset
  <2> QED
    BY <2>1, <2>2 DEF PacketizerOK
<1>2. CASE AppendPacket
  <2> DEFINE pkt == PacketOf(Head(todo))
             n == Len(pkt.payload)
             more == Packed(LineBits(pkt))
  <2>1. n \in 0 .. MaxWords
    <3>1. todo \in Seq(Line) /\ todo # <<>>
      BY <1>2 DEF AppendPacket, IInv, SenderOK
    <3>2. Head(todo) \in Line
      BY <3>1
    <3> QED
      BY <3>2, LinePacket
  <2>2. PICK T : more \in Seq(T) /\ Len(more) = LineLength(n)
    BY <2>1, LineBytes
  <2>3. PICK line \in Nat, room \in Nat : line = LineLength(n) /\ room = 2 * n + Headroom /\ line <= room /\ room <= BufStep
    BY <2>1, LineFits, PacketizerAssumption DEF Headroom
  <2>4. PICK size \in Nat : /\ size = klvanc_smpte2038_buffer_adjust(n)
                            /\ size = IF room > len - used THEN len + BufStep ELSE len
    BY <2>3, <1>c, PacketizerAssumption DEF klvanc_smpte2038_buffer_adjust
  <2>5. used + line <= size
    <3>1. PICK step \in Nat : step = BufStep
      BY PacketizerAssumption
    <3>2. used <= len
      BY <1>b
    <3>3. line <= room /\ room <= step
      BY <2>3, <3>1
    <3>4. size = IF room > len - used THEN len + step ELSE len
      BY <2>4, <3>1
    <3> QED
      BY <3>2, <3>3, <3>4
  <2>6. pk' = [buflen |-> size, bufused |-> used + line, buffree |-> size - (used + line), buf |-> buf \o more]
    BY <1>2, <1>c, <2>3, <2>4 DEF AppendPacket, klvanc_smpte2038_packetizer_append
  <2> HIDE DEF more
  <2>7. buf \o more \in Seq(S \cup T) /\ used + line = ResetOffset + Len(buf \o more)
    <3>1. buf \in Seq(S) /\ used = 14 + Len(buf) /\ more \in Seq(T) /\ Len(more) = line
      BY <1>b, <2>2, <2>3 DEF ResetOffset
    <3>2. buf \in Seq(S \cup T) /\ more \in Seq(S \cup T)
      BY <3>1
    <3>3. buf \o more \in Seq(S \cup T) /\ Len(buf \o more) = Len(buf) + Len(more)
      BY <3>2
    <3> QED
      BY <3>1, <3>3 DEF ResetOffset
  <2>8. used + line \in Nat
    OBVIOUS
  <2> QED
    BY <2>5, <2>6, <2>7, <2>8 DEF PacketizerOK
<1>3. CASE UNCHANGED pk
  BY <1>3 DEF IInv, PacketizerOK
<1> QED
  <2>1. AppendAborts \/ End \/ EndEmpty => UNCHANGED pk
    BY DEF AppendAborts, End, EndEmpty
  <2>2. Lose \/ Repeat \/ Exchange \/ Multiplex => UNCHANGED pk
    BY FaultFrame DEF sender
  <2>3. Push \/ Extract \/ Deliver \/ NoMemory => UNCHANGED pk
    BY DEF Push, Extract, Deliver, NoMemory, sender
  <2>4. UNCHANGED vars => UNCHANGED pk
    BY DEF vars, sender
  <2> QED
    BY <1>1, <1>2, <1>3, <2>1, <2>2, <2>3, <2>4 DEF Next

LEMMA WireStep == IInv /\ [Next]_vars => WireOK'
<1> SUFFICES ASSUME IInv, [Next]_vars
             PROVE  WireOK'
  OBVIOUS
<1>a. PICK S : wire \in Seq(S) /\ \A w \in S : Pushable(w)
  BY DEF IInv, WireOK
<1>b. last \in 0 .. MaxFrames /\ hit \subseteq 0 .. MaxFrames
  BY DEF IInv, WireOK
<1>c. wire # <<>> => wire[1] \in S /\ wire[1].of \in 0 .. MaxFrames /\ Tail(wire) \in Seq(S)
  <2>1. wire # <<>> => wire[1] \in S /\ Tail(wire) \in Seq(S)
    BY <1>a
  <2> QED
    BY <1>a, <2>1 DEF Pushable
<1>1. CASE End
  <2> DEFINE n == Len(sent) + 1
             buf == klvanc_smpte2038_packetizer_end(Pts(n))
             ts == ts_packetizer(buf, cc, Pid, PacketSize)
             more == [k \in 1 .. Len(ts) |-> [ts |-> ts[k], of |-> n]]
  <2>1. n \in 1 .. MaxFrames
    BY <1>1, TransportAssumption DEF End, IInv, SenderOK
  <2>2. Len(buf) \in Nat
    <3>1. PICK used \in Nat : used = pk.bufused
      BY SMTT(30) DEF IInv, PacketizerOK
    <3>2. buf = [k \in 1 .. pk.bufused |-> buf[k]]
      BY SMTT(60) DEF klvanc_smpte2038_packetizer_end
    <3> HIDE DEF buf
    <3>3. buf = [k \in 1 .. used |-> buf[k]]
      BY <3>1, <3>2
    <3>4. buf \in Seq({buf[k] : k \in 1 .. used})
      BY <3>3
    <3> QED
      BY <3>4
  <2>3. wire' = wire \o more /\ UNCHANGED <<last, hit>>
    BY <1>1 DEF End, receiver, network
  <2> HIDE DEF n, buf
  <2>4. \E T : wire \o more \in Seq(T) /\ \A w \in T : Pushable(w)
    BY <1>a, <2>1, <2>2, PacketsPushable
  <2> HIDE DEF more
  <2> QED
    BY <1>b, <2>3, <2>4 DEF WireOK, Pushable
<1>2. CASE Lose
  <2>1. wire # <<>> /\ wire' = Tail(wire) /\ hit' = hit \cup {wire[1].of} /\ last' = last
    BY <1>2 DEF Lose, Fault, receiver
  <2> QED
    BY <1>a, <1>b, <1>c, <2>1 DEF WireOK
<1>3. CASE Repeat
  <2>1. wire # <<>> /\ wire' = <<wire[1]>> \o wire /\ hit' = hit \cup {wire[1].of} /\ last' = last
    BY <1>3 DEF Repeat, Fault, receiver
  <2>2. wire' \in Seq(S)
    BY <1>a, <1>c, <2>1
  <2> QED
    BY <1>a, <1>b, <1>c, <2>1, <2>2 DEF WireOK
<1>4. CASE Exchange
  <2>1. /\ Len(wire) >= 2 /\ hit' = hit \cup {wire[1].of, wire[2].of} /\ last' = last
        /\ wire' = <<wire[2], wire[1]>> \o SubSeq(wire, 3, Len(wire))
    BY <1>4 DEF Exchange, Fault, receiver
  <2>2. wire[1] \in S /\ wire[2] \in S /\ \A k \in 3 .. Len(wire) : wire[k] \in S
    BY <1>a, <2>1
  <2>3. SubSeq(wire, 3, Len(wire)) \in Seq(S)
    BY <1>a, <2>2, SubSeqProperties
  <2>4. wire' \in Seq(S)
    <3>1. <<wire[2], wire[1]>> \in Seq(S)
      BY <2>2
    <3> QED
      BY <2>1, <2>3, <3>1
  <2>5. wire[1].of \in 0 .. MaxFrames /\ wire[2].of \in 0 .. MaxFrames
    BY <1>a, <2>2 DEF Pushable
  <2> QED
    BY <1>a, <1>b, <2>1, <2>4, <2>5 DEF WireOK
<1>5. CASE Multiplex
  <2>1. PICK ts \in Others : wire' = <<[ts |-> ts, of |-> last]>> \o wire
    BY <1>5 DEF Multiplex
  <2>2. hit' = hit /\ last' = last
    BY <1>5 DEF Multiplex, Fault, receiver
  <2> DEFINE T == S \cup {[ts |-> ts, of |-> last]}
  <2>3. \A w \in T : Pushable(w)
    BY <1>a, <1>b, OthersPushable
  <2>4. wire' \in Seq(T)
    BY <1>a, <2>1
  <2> HIDE DEF T
  <2> QED
    BY <1>b, <2>2, <2>3, <2>4 DEF WireOK
<1>6. CASE Push
  <2>1. /\ wire # <<>> /\ wire' = Tail(wire) /\ last' = wire[1].of
        /\ hit' = hit \/ hit' = hit \cup {last, last'}
    BY <1>6 DEF Push
  <2> QED
    BY <1>a, <1>b, <1>c, <2>1 DEF WireOK
<1>7. CASE NoMemory
  <2>1. wire' = wire /\ last' = last /\ hit' = hit \cup last .. MaxFrames
    BY <1>7 DEF NoMemory
  <2>2. last .. MaxFrames \subseteq 0 .. MaxFrames
    <3>1. last \in Nat /\ MaxFrames \in Nat
      BY <1>b, TransportAssumption
    <3> QED
      BY <3>1
  <2>3. hit' \subseteq 0 .. MaxFrames
    BY <1>b, <2>1, <2>2
  <2> QED
    BY <1>a, <1>b, <2>1, <2>3 DEF WireOK
<1>8. CASE UNCHANGED <<wire, last, hit>>
  BY <1>a, <1>b, <1>8 DEF WireOK
<1> QED
  <2>1. Begin \/ AppendPacket \/ AppendAborts \/ EndEmpty => UNCHANGED <<wire, last, hit>>
    BY DEF Begin, AppendPacket, AppendAborts, EndEmpty, receiver, network
  <2>2. Extract \/ Deliver \/ UNCHANGED vars => UNCHANGED <<wire, last, hit>>
    BY DEF Extract, Deliver, network, vars, receiver
  <2> QED
    BY <1>1, <1>2, <1>3, <1>4, <1>5, <1>6, <1>7, <1>8, <2>1, <2>2 DEF Next

\* A read keeps the ring a queue.
LEMMA TakeOK ==
  ASSUME ExtractorOK, NEW n \in 0 .. rb.fill, Take(n)
  PROVE  RingOK(rb)' /\ RingIsQueue'
<1>1. PICK fill \in Nat : fill = rb.fill
  BY DEF ExtractorOK, RingOK, IsRing
<1>2. RingOK(rb)' /\ rb'.fill = fill - n /\ Contents(rb') = [k \in 1 .. fill - n |-> Contents(rb)[k + n]]
  BY <1>1, ReadTakes DEF ExtractorOK, Take
<1>3. queue' = [k \in 1 .. fill - n |-> queue[k + n]]
  BY <1>1 DEF Take
<1>4. DOMAIN queue' = 1 .. rb'.fill
  BY <1>2, <1>3
<1>5. ~torn' => queue' = Contents(rb')
  <2>1. CASE torn /\ ~torn'
    <3>1. ~(rb.fill > n)
      BY <2>1 DEF Take
    <3>2. n \in Nat /\ n <= fill
      BY <1>1
    <3>3. fill = n
      BY <1>1, <3>1, <3>2
    <3> QED
      BY <1>1, <1>2, <1>3, <3>3
  <2>2. CASE ~torn
    <3>1. queue = Contents(rb)
      BY <2>2 DEF ExtractorOK, RingIsQueue
    <3> QED
      BY <1>2, <1>3, <3>1
  <2> QED
    BY <2>1, <2>2
<1> QED
  BY <1>2, <1>4, <1>5 DEF RingIsQueue

\* A push keeps the ring a queue, unless it makes a wrapped one grow.
LEMMA PushOK ==
  ASSUME ExtractorOK, NEW ts, PayloadLength(ts) \in Nat, pe_push(ts)
  PROVE  ExtractorOK'
<1>1. CASE UNCHANGED extractor
  BY <1>1 DEF ExtractorOK, RingIsQueue, extractor
<1>2. CASE ~UNCHANGED extractor
  <2> DEFINE n == PayloadLength(ts)
  <2>1. /\ rb' \in rb_write(rb, ts.payload, n)
        /\ queue' = [k \in 1 .. rb.fill + n |-> IF k <= rb.fill THEN queue[k] ELSE ts.payload[k - rb.fill]]
        /\ torn' = (torn \/ (Wrapped(rb) /\ n > rb_remain(rb)))
        /\ at' = "loop" /\ UNCHANGED <<has_sync, b, i>>
    BY <1>2 DEF pe_push
  <2> HIDE DEF n
  <2>2. n \in Nat
    BY DEF n
  <2>3. /\ RingOK(rb)' /\ rb.fill \in Nat /\ rb'.fill = rb.fill + n
        /\ ~(Wrapped(rb) /\ n > rb_remain(rb)) =>
             Contents(rb') = [k \in 1 .. rb.fill + n |-> IF k <= rb.fill THEN Contents(rb)[k] ELSE ts.payload[k - rb.fill]]
    BY <2>1, <2>2, WriteAppends DEF ExtractorOK
  <2>4. ~torn' => queue' = Contents(rb')
    <3> SUFFICES ASSUME ~torn'
                 PROVE  queue' = Contents(rb')
      OBVIOUS
    <3>1. ~torn /\ ~(Wrapped(rb) /\ n > rb_remain(rb))
      BY <2>1
    <3>2. queue = Contents(rb)
      BY <3>1 DEF ExtractorOK, RingIsQueue
    <3> QED
      BY <2>1, <2>3, <3>1, <3>2
  <2>5. RingIsQueue'
    BY <2>1, <2>3, <2>4 DEF RingIsQueue
  <2> QED
    BY <2>1, <2>3, <2>5 DEF ExtractorOK
<1> QED
  BY <1>1, <1>2

\* A peek of as many bytes as there are returns as many.
LEMMA PeekLength ==
  ASSUME NEW r, r.fill \in Nat, NEW n \in 0 .. r.fill
  PROVE  \E S : rb_peek(r, n) \in Seq(S) /\ Len(rb_peek(r, n)) = n
<1> DEFINE p == rb_peek(r, n)
<1>1. n \in Nat /\ p = [k \in 1 .. n |-> p[k]]
  BY DEF rb_peek, Available, rb_used
<1> HIDE DEF p
<1>2. p \in Seq({p[k] : k \in 1 .. n}) /\ Len(p) = n
  BY <1>1
<1> QED
  BY <1>2 DEF p

LEMMA ExtractorStep == IInv /\ [Next]_vars => ExtractorOK'
<1> SUFFICES ASSUME IInv, [Next]_vars
             PROVE  ExtractorOK'
  OBVIOUS
<1>a. ExtractorOK
  BY DEF IInv
<1>b. PICK fill \in Nat : fill = rb.fill
  BY <1>a DEF ExtractorOK, RingOK, IsRing
<1>c. PICK S : b \in Seq(S) /\ Len(b) = 4
  BY <1>a DEF ExtractorOK
<1>1. CASE Push
  <2>1. wire # <<>> /\ pe_push(wire[1].ts)
    BY <1>1 DEF Push
  <2>2. PayloadLength(wire[1].ts) \in Nat
    <3>1. PICK T : wire \in Seq(T) /\ \A w \in T : Pushable(w)
      BY DEF IInv, WireOK
    <3>2. wire[1] \in T
      BY <2>1, <3>1
    <3> QED
      BY <3>1, <3>2 DEF Pushable
  <2> DEFINE ts == wire[1].ts
  <2> HIDE DEF ts
  <2>3. pe_push(ts) /\ PayloadLength(ts) \in Nat
    BY <2>1, <2>2 DEF ts
  <2> QED
    BY <1>a, <2>3, PushOK
<1>2. CASE SearchBegin
  <2>1. rb.fill > 16 /\ Take(4) /\ b' = rb_peek(rb, 4) /\ i' = 0 /\ at' = "search"
    BY <1>2 DEF SearchBegin, rb_used
  <2>2. 4 \in 0 .. rb.fill
    BY <1>b, <2>1
  <2>3. RingOK(rb)' /\ RingIsQueue'
    BY <1>a, <2>1, <2>2, TakeOK
  <2>4. PICK T : rb_peek(rb, 4) \in Seq(T) /\ Len(rb_peek(rb, 4)) = 4
    BY <1>b, <2>2, PeekLength
  <2> QED
    BY <2>1, <2>3, <2>4 DEF ExtractorOK
<1>3. CASE SearchNext
  <2>1. i < rb.fill /\ Take(1) /\ b' = Tail(b) \o rb_peek(rb, 1) /\ i' = i + 1 /\ at' = at
    BY <1>3 DEF SearchNext, rb_used
  <2>2. i \in Nat /\ 1 \in 0 .. rb.fill
    BY <1>a, <1>b, <2>1 DEF ExtractorOK
  <2>3. RingOK(rb)' /\ RingIsQueue'
    BY <1>a, <2>1, <2>2, TakeOK
  <2>4. PICK T : rb_peek(rb, 1) \in Seq(T) /\ Len(rb_peek(rb, 1)) = 1
    BY <1>b, <2>2, PeekLength
  <2> DEFINE p == rb_peek(rb, 1)
  <2> HIDE DEF p
  <2>5. Tail(b) \o p \in Seq(S \cup T) /\ Len(Tail(b) \o p) = 4
    <3> DEFINE q == Tail(b)
    <3>1. p \in Seq(T) /\ Len(p) = 1
      BY <2>4 DEF p
    <3>2. q \in Seq(S) /\ Len(q) = 3
      BY <1>c
    <3> HIDE DEF q
    <3>3. q \in Seq(S \cup T) /\ p \in Seq(S \cup T)
      BY <3>1, <3>2
    <3>4. q \o p \in Seq(S \cup T) /\ Len(q \o p) = Len(q) + Len(p)
      BY <3>3
    <3>5. Len(q \o p) = 4
      BY <3>1, <3>2, <3>4
    <3> QED
      BY <3>4, <3>5 DEF q
  <2>6. b' = Tail(b) \o p
    BY <2>1 DEF p
  <2>7. i' \in Nat
    BY <2>1, <2>2
  <2> QED
    BY <1>a, <2>1, <2>3, <2>5, <2>6, <2>7 DEF ExtractorOK
<1>4. CASE SearchFound \/ SearchEnd \/ NeedMore
  <2>1. /\ UNCHANGED <<rb, b, i, queue, torn>>
        /\ at' \in {"idle", "loop"}
    BY <1>4 DEF SearchFound, SearchEnd, NeedMore
  <2> QED
    BY <1>a, <2>1 DEF ExtractorOK, RingIsQueue
<1>5. CASE Deliver
  <2> DEFINE n == PesLength + 2
  <2>1. rb.fill >= 2 /\ PesLength \in 0 .. rb.fill - 2 /\ Take(n) /\ UNCHANGED <<at, b, i>>
    BY <1>5 DEF Deliver, Dequeue, Complete, Whole, rb_used
  <2>2. n \in 0 .. rb.fill
    BY <1>b, <2>1
  <2> HIDE DEF n
  <2>3. RingOK(rb)' /\ RingIsQueue'
    BY <1>a, <2>1, <2>2, TakeOK
  <2> QED
    BY <1>a, <2>1, <2>3 DEF ExtractorOK
<1>6. CASE UNCHANGED <<rb, at, b, i, queue, torn>>
  BY <1>a, <1>6 DEF ExtractorOK, RingIsQueue
<1> QED
  <2>1. Begin \/ AppendPacket \/ AppendAborts \/ End \/ EndEmpty => UNCHANGED <<rb, at, b, i, queue, torn>>
    BY DEF Begin, AppendPacket, AppendAborts, End, EndEmpty, receiver, extractor
  <2>2. Lose \/ Repeat \/ Exchange \/ Multiplex => UNCHANGED <<rb, at, b, i, queue, torn>>
    BY FaultFrame DEF receiver, extractor
  <2>3. NoMemory \/ UNCHANGED vars => UNCHANGED <<rb, at, b, i, queue, torn>>
    BY DEF NoMemory, DequeueFails, vars, receiver, extractor
  <2> QED
    BY <1>1, <1>2, <1>3, <1>4, <1>5, <1>6, <2>1, <2>2, <2>3 DEF Next, Extract

----------------------------------------------------------------------------
(* Theorems *)

\* The strengthening that is kept by every step of sender, network and receiver:
\* the queued lines are lines the packetizer takes, its members agree, what is on
\* the wire can be pushed, and the ring is a queue that matches the history.
THEOREM TransportInvariant == Spec => []IInv
<1>1. IInv /\ [Next]_vars => IInv'
  BY SenderStep, PacketizerStep, WireStep, ExtractorStep DEF IInv
<1> QED
  BY <1>1, InitOK, PTL DEF Spec

\* For any frames, sizes and faults: the packetizer's length is the length of its
\* buffer (smpte2038.c) and the ring's head and fill stay within its size
\* (klringbuffer.c).
THEOREM TransportTypeCorrect == Spec => []TypeOK
<1>1. IInv => TypeOK
  <2> SUFFICES ASSUME IInv
               PROVE  TypeOK
    OBVIOUS
  <2>1. pk.bufused = ResetOffset + Len(pk.buf)
    <3>1. PICK len \in Nat, used \in Nat : \E S : \E buf \in Seq(S) :
            /\ pk = [buflen |-> len, bufused |-> used, buffree |-> len - used, buf |-> buf]
            /\ used = ResetOffset + Len(buf) /\ used <= len
      BY DEF IInv, PacketizerOK
    <3> QED
      BY <3>1
  <2>2. rb.head \in 0 .. rb.size - 1 /\ rb.fill \in 0 .. rb.size /\ DOMAIN rb.data = 0 .. rb.size - 1
    BY DEF IInv, ExtractorOK, RingOK, IsRing
  <2> QED
    BY <2>1, <2>2 DEF IInv, TypeOK, SenderOK, WireOK, ExtractorOK
<1> QED
  BY <1>1, TransportInvariant, PTL

\* For any sequence of writes, reads, growth and returns to the first size that the
\* extractor makes, the ring holds what was written and not read, in order, unless
\* it grew while wrapped (klringbuffer.c).
THEOREM RingAlwaysQueue == Spec => []RingIsQueue
<1>1. IInv => RingIsQueue
  BY DEF IInv, ExtractorOK
<1> QED
  BY <1>1, TransportInvariant, PTL

\* No frame makes the packetizer write behind its buffer, though a line takes more
\* bytes than two for each word: the growth of klvanc_smpte2038_buffer_adjust
\* leaves room for the line's header and the stuffing.
THEOREM PacketizerStaysInBuffer == Spec => []BufferFits
<1>1. IInv => BufferFits
  <2> SUFFICES ASSUME IInv
               PROVE  BufferFits
    OBVIOUS
  <2>1. PICK len \in Nat, used \in Nat : \E S : \E buf \in Seq(S) :
          /\ pk = [buflen |-> len, bufused |-> used, buffree |-> len - used, buf |-> buf]
          /\ used = ResetOffset + Len(buf) /\ used <= len
    BY DEF IInv, PacketizerOK
  <2>2. pk.buflen = len /\ pk.bufused = used /\ pk.buffree = len - used
    BY <2>1
  <2>3. ResetOffset <= used
    BY <2>1 DEF ResetOffset
  <2> QED
    BY <2>1, <2>2, <2>3 DEF BufferFits
<1> QED
  BY <1>1, TransportInvariant, PTL
=============================================================================
