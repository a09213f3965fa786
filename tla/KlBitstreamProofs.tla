------------------------- MODULE KlBitstreamProofs -------------------------
(***************************************************************************)
(* Proofs about KlBitstream: for buffers of any size, any words and any    *)
(* widths the byte stream is a queue of bits.                              *)
(***************************************************************************)
EXTENDS KlBitstream, SequenceTheorems, TLAPS

----------------------------------------------------------------------------
(* Arithmetic of bytes *)

LEMMA Div8Mod8 ==
  ASSUME NEW k \in Nat
  PROVE  /\ k \div 8 \in Nat /\ k % 8 \in 0 .. 7
         /\ k < 8 => k \div 8 = 0 /\ k % 8 = k
         /\ k >= 8 => (k - 8) \div 8 = (k \div 8) - 1 /\ (k - 8) % 8 = k % 8
         /\ \A n \in Nat : k < 8 * n => k \div 8 < n
  OBVIOUS

\* Room for the bits of a call, and for the bits after one was written.
LEMMA RoomForCall ==
  ASSUME NEW u \in Nat, NEW r \in 0 .. 7, NEW l \in Nat, NEW n \in Nat, 8 * u + r + l <= 8 * n
  PROVE  8 * u + r + l < 8 * n + 8
  OBVIOUS

LEMMA RoomForRest ==
  ASSUME NEW u \in Nat, NEW r \in 0 .. 7, NEW l \in Nat, NEW n \in Nat,
         8 * u + r + l < 8 * n + 8
  PROVE  8 * u + (r + 1) + (l - 1) < 8 * n + 8
  OBVIOUS

LEMMA ByteIsSeq == \A x \in Byte : x \in Seq(Bit) /\ Len(x) = 8
<1>. TAKE x \in Byte
<1>1. x = [k \in 1 .. 8 |-> x[k]] /\ \A k \in 1 .. 8 : x[k] \in Bit
  BY DEF Byte
<1>2. [k \in 1 .. 8 |-> x[k]] \in Seq(Bit) /\ Len([k \in 1 .. 8 |-> x[k]]) = 8
  BY <1>1
<1>. QED BY <1>1, <1>2

LEMMA ShiftType ==
  ASSUME NEW reg \in Byte, NEW b \in Bit
  PROVE  Shift(reg, b) \in Byte
  BY DEF Shift, Byte, Bit

LEMMA CopiesType ==
  ASSUME NEW b \in Bit, NEW n \in Nat
  PROVE  Copies(b, n) \in Seq(Bit) /\ Len(Copies(b, n)) = n
  BY DEF Copies, Bit

LEMMA BitsOfType ==
  ASSUME NEW v \in Nat, NEW n \in Nat
  PROVE  BitsOf(v, n) \in Seq(Bit) /\ Len(BitsOf(v, n)) = n
  BY DEF BitsOf, Bit

LEMMA FreshType == Fresh \in Context
  BY DEF Fresh, Context, Zero, Byte, Bit

----------------------------------------------------------------------------
(* A reader *)

\* A context that a reader may be left in.
Sound(c) == c \in Context /\ c.buflen_used <= buflen

BufferOK == buf \in [0 .. Capacity - 1 -> Byte] /\ buflen \in 0 .. Capacity

LEMMA AheadType ==
  ASSUME BufferOK, NEW c, Sound(c)
  PROVE  /\ Left(c) \in Nat
         /\ Ahead(c) \in Seq(Bit) /\ Len(Ahead(c)) = Left(c)
         /\ DOMAIN Ahead(c) = 1 .. Left(c)
<1>. USE BitstreamAssumption
<1>1. Left(c) \in Nat
  BY DEF Sound, Context, Left, BufferOK
<1>2. ASSUME NEW k \in 1 .. Left(c) PROVE Ahead(c)[k] \in Bit
  <2>1. CASE k <= c.reg_used
    BY <1>2, <2>1 DEF Ahead, Sound, Context, Byte
  <2>2. CASE k > c.reg_used
    <3>. DEFINE j == k - 1 - c.reg_used
    <3>0. /\ c.buflen_used \in Nat /\ c.reg_used \in 0 .. 7 /\ buflen \in Nat
          /\ c.buflen_used <= buflen
      BY DEF Sound, Context, BufferOK
    <3>1. j \in Nat /\ j < 8 * (buflen - c.buflen_used) /\ buflen - c.buflen_used \in Nat
      BY <3>0, <2>2 DEF Left
    <3>. HIDE DEF j
    <3>2. j \div 8 \in Nat /\ j % 8 \in 0 .. 7 /\ j \div 8 < buflen - c.buflen_used
      BY <3>1, Div8Mod8
    <3>3. c.buflen_used + (j \div 8) \in 0 .. Capacity - 1
      BY <3>2 DEF Sound, Context, BufferOK
    <3>4. Ahead(c)[k] = buf[c.buflen_used + (j \div 8)][(j % 8) + 1]
      BY <1>1, <2>2 DEF Ahead, Sound, Context, j
    <3>. QED BY <3>2, <3>3, <3>4, SMTT(30) DEF BufferOK, Byte
  <2>. QED BY <2>1, <2>2 DEF Sound, Context
<1>3. DOMAIN Ahead(c) = 1 .. Left(c)
  BY DEF Ahead
<1>4. Ahead(c) \in [1 .. Left(c) -> Bit]
  BY <1>2, <1>3 DEF Ahead
<1>. QED BY <1>1, <1>3, <1>4

\* klbs_read_bit takes the first of the bits ahead and leaves the others.
LEMMA ReadBit ==
  ASSUME BufferOK, NEW c, Sound(c), Left(c) > 0
  PROVE  /\ Sound(AfterBit(c)) /\ Left(AfterBit(c)) = Left(c) - 1
         /\ BitRead(c) \in Bit /\ BitRead(c) = Ahead(c)[1]
         /\ \A k \in 1 .. Left(c) - 1 : Ahead(AfterBit(c))[k] = Ahead(c)[k + 1]
<1>. USE BitstreamAssumption
<1>. DEFINE d == AfterBit(c)
<1>1. CASE c.reg_used = 0
  <2>1. c.buflen_used \in 0 .. buflen - 1 /\ c.buflen_used \in 0 .. Capacity - 1
    BY <1>1 DEF Sound, Context, Left, BufferOK
  <2>2. buf[c.buflen_used] \in Byte
    BY <2>1 DEF BufferOK
  <2>3. d = [buflen_used |-> c.buflen_used + 1, reg_used |-> 7,
             reg |-> Shift(buf[c.buflen_used], 0)]
    BY <1>1 DEF AfterBit, Filled
  <2>4. Sound(d) /\ Left(d) = Left(c) - 1
    BY <1>1, <2>1, <2>2, <2>3, ShiftType DEF Sound, Context, Left, BufferOK, Bit
  <2>5. BitRead(c) = buf[c.buflen_used][1] /\ BitRead(c) \in Bit
    BY <1>1, <2>2 DEF BitRead, Filled, Byte
  <2>6. BitRead(c) = Ahead(c)[1]
    BY <1>1, <2>1, <2>5, Div8Mod8 DEF Ahead, Left, Sound, Context, BufferOK
  <2>7. ASSUME NEW k \in 1 .. Left(c) - 1 PROVE Ahead(d)[k] = Ahead(c)[k + 1]
    <3>1. Ahead(c)[k + 1] = buf[c.buflen_used + (k \div 8)][(k % 8) + 1]
      BY <1>1 DEF Ahead, Left, Sound, Context, BufferOK
    <3>2. CASE k <= 7
      <4>1. Ahead(d)[k] = Shift(buf[c.buflen_used], 0)[k]
        BY <2>3, <2>4, <3>2 DEF Ahead
      <4>2. @ = buf[c.buflen_used][k + 1]
        BY <3>2 DEF Shift
      <4>3. k \div 8 = 0 /\ k % 8 = k
        BY <1>1, <2>4, <3>2, Div8Mod8 DEF Left, Sound, Context, BufferOK
      <4>. QED BY <3>1, <4>1, <4>2, <4>3, <2>1
    <3>3. CASE k > 7
      <4>1. Ahead(d)[k] = buf[c.buflen_used + 1 + ((k - 8) \div 8)][((k - 8) % 8) + 1]
        BY <2>3, <2>4, <3>3 DEF Ahead
      <4>2. (k - 8) \div 8 = (k \div 8) - 1 /\ (k - 8) % 8 = k % 8 /\ k \div 8 \in Nat
        BY <3>3, Div8Mod8
      <4>. QED BY <2>1, <3>1, <4>1, <4>2
    <3>. QED BY <3>2, <3>3
  <2>. QED BY <2>4, <2>5, <2>6, <2>7
<1>2. CASE c.reg_used > 0
  <2>0. c.reg_used \in 1 .. 7 /\ Left(c) \in Nat
    BY <1>2, AheadType DEF Sound, Context
  <2>1. d = [buflen_used |-> c.buflen_used, reg_used |-> c.reg_used - 1,
             reg |-> Shift(c.reg, 0)]
    BY <1>2 DEF AfterBit, Filled
  <2>2. Sound(d) /\ Left(d) = Left(c) - 1
    BY <1>2, <2>1, ShiftType DEF Sound, Context, Left, BufferOK, Bit
  <2>3. BitRead(c) \in Bit /\ BitRead(c) = Ahead(c)[1]
    BY <1>2 DEF BitRead, Filled, Ahead, Left, Sound, Context, BufferOK, Byte
  <2>4. ASSUME NEW k \in 1 .. Left(c) - 1 PROVE Ahead(d)[k] = Ahead(c)[k + 1]
    <3>1. CASE k <= c.reg_used - 1
      <4>1. Ahead(d)[k] = Shift(c.reg, 0)[k]
        BY <2>0, <2>1, <2>2, <3>1 DEF Ahead
      <4>2. @ = c.reg[k + 1]
        BY <2>0, <3>1 DEF Shift
      <4>3. @ = Ahead(c)[k + 1]
        BY <2>0, <3>1 DEF Ahead
      <4>. QED BY <4>1, <4>2, <4>3
    <3>2. CASE k > c.reg_used - 1
      <4>. DEFINE j == k - c.reg_used
      <4>1. k - 1 - (c.reg_used - 1) = j /\ k + 1 - 1 - c.reg_used = j
        BY <2>0
      <4>2. Ahead(d)[k] = buf[c.buflen_used + (j \div 8)][(j % 8) + 1]
        BY <1>2, <2>1, <2>2, <3>2, <4>1 DEF Ahead, Sound, Context
      <4>3. Ahead(c)[k + 1] = buf[c.buflen_used + (j \div 8)][(j % 8) + 1]
        <5>1. k + 1 \in 1 .. Left(c) /\ ~(k + 1 <= c.reg_used)
          BY <2>0, <3>2
        <5>. QED BY <4>1, <5>1 DEF Ahead
      <4>. QED BY <4>2, <4>3
    <3>. QED BY <2>0, <3>1, <3>2
  <2>. QED BY <2>2, <2>3, <2>4
<1>. QED BY <1>1, <1>2 DEF Sound, Context

\* klbs_read_byte_aligned takes the first eight.
LEMMA ReadByte ==
  ASSUME BufferOK, NEW c, Sound(c), Left(c) >= 8, c.reg_used = 0
  PROVE  /\ Sound(AfterByte(c)) /\ Left(AfterByte(c)) = Left(c) - 8
         /\ c.buflen_used \in 0 .. Capacity - 1 /\ buf[c.buflen_used] \in Byte
         /\ \A k \in 1 .. 8 : buf[c.buflen_used][k] = Ahead(c)[k]
         /\ \A k \in 1 .. Left(c) - 8 : Ahead(AfterByte(c))[k] = Ahead(c)[k + 8]
<1>. USE BitstreamAssumption
<1>. DEFINE d == AfterByte(c)
<1>1. c.buflen_used \in 0 .. buflen - 1 /\ c.buflen_used \in 0 .. Capacity - 1
  BY DEF Sound, Context, Left, BufferOK
<1>2. buf[c.buflen_used] \in Byte
  BY <1>1 DEF BufferOK
<1>3. d = [buflen_used |-> c.buflen_used + 1, reg_used |-> 0, reg |-> c.reg]
  BY DEF AfterByte, Sound, Context
<1>4. Sound(d) /\ Left(d) = Left(c) - 8
  BY <1>1, <1>3 DEF Sound, Context, Left, BufferOK
<1>5. ASSUME NEW k \in 1 .. 8 PROVE buf[c.buflen_used][k] = Ahead(c)[k]
  <2>1. (k - 1) \div 8 = 0 /\ (k - 1) % 8 = k - 1
    OBVIOUS
  <2>2. Ahead(c)[k] = buf[c.buflen_used + ((k - 1) \div 8)][((k - 1) % 8) + 1]
    BY DEF Ahead, Left, Sound, Context, BufferOK
  <2>. QED BY <1>1, <2>1, <2>2
<1>6. ASSUME NEW k \in 1 .. Left(c) - 8 PROVE Ahead(d)[k] = Ahead(c)[k + 8]
  <2>1. Ahead(d)[k] = buf[c.buflen_used + 1 + ((k - 1) \div 8)][((k - 1) % 8) + 1]
    <3>1. k \in 1 .. Left(d) /\ ~(k <= 0) /\ k - 1 - 0 = k - 1
      BY <1>4
    <3>2. d.buflen_used = c.buflen_used + 1 /\ d.reg_used = 0
      BY <1>3
    <3>. HIDE DEF d
    <3>. QED BY <3>1, <3>2 DEF Ahead
  <2>2. Ahead(c)[k + 8] = buf[c.buflen_used + ((k + 7) \div 8)][((k + 7) % 8) + 1]
    BY <1>1 DEF Ahead, Left, Sound, Context, BufferOK
  <2>3. (k - 1) \div 8 = ((k + 7) \div 8) - 1 /\ (k - 1) % 8 = (k + 7) % 8
        /\ (k + 7) \div 8 \in Nat
    BY <1>1, Div8Mod8 DEF Left, Sound, Context, BufferOK
  <2>. QED BY <1>1, <2>1, <2>2, <2>3
<1>. QED BY <1>1, <1>2, <1>4, <1>5, <1>6

----------------------------------------------------------------------------
(* Types *)

LEMMA TypeParts ==
  ASSUME TypeOK
  PROVE  /\ BufferOK /\ buflen \in Nat
         /\ ctx \in Context /\ ctx.buflen_used \in Nat /\ ctx.reg_used \in 0 .. 7
         /\ ctx.buflen_used <= Capacity /\ copy \in Context /\ copy.buflen_used <= Capacity
         /\ want \in Nat /\ got \in Seq(Bit) /\ seen \in Seq(Bit) /\ todo \in Seq(Bit)
         /\ mode # "write" => Sound(ctx)
         /\ mode = "peek" => Sound(copy) /\ want <= Left(copy)
         /\ mode = "read" => want <= Left(ctx)
         /\ mode = "write" =>
              /\ buflen = Capacity /\ want = 0
              /\ 8 * ctx.buflen_used + ctx.reg_used + Len(todo) < 8 * Capacity + 8
<1>1. buflen \in Nat /\ ctx.buflen_used \in Nat /\ ctx.reg_used \in 0 .. 7
  BY BitstreamAssumption DEF TypeOK, Context
<1>2. BufferOK
  BY DEF TypeOK, BufferOK
<1>3. /\ mode # "write" => Sound(ctx)
      /\ mode = "peek" => Sound(copy) /\ want <= Left(copy)
  BY DEF TypeOK, Sound
<1>. QED BY <1>1, <1>2, <1>3 DEF TypeOK, Written

LEMMA TypeInit == Init => TypeOK
<1>. SUFFICES ASSUME Init PROVE TypeOK
  OBVIOUS
<1>. USE BitstreamAssumption
<1>1. buf \in [0 .. Capacity - 1 -> Byte]
  BY DEF Init, Copies, Byte, Bit
<1>2. Written = 0 /\ Len(todo) = 0
  BY DEF Init, Written, Fresh
<1>. QED BY <1>1, <1>2, FreshType DEF Init, TypeOK, Fresh

\* The loop of a writing call starts.
LEMMA TypeWriteCall ==
  ASSUME TypeOK, mode = "write", todo' \in Seq(Bit),
         8 * ctx.buflen_used + ctx.reg_used + Len(todo') < 8 * Capacity + 8,
         UNCHANGED <<mode, buf, buflen, ctx, copy, want, got, seen>>
  PROVE  TypeOK'
BY DEF TypeOK, Written

LEMMA TypeWriteBit == TypeOK /\ klbs_write_bit => TypeOK'
<1>. SUFFICES ASSUME TypeOK, klbs_write_bit PROVE TypeOK'
  OBVIOUS
<1>. USE BitstreamAssumption
<1>. DEFINE reg == Shift(ctx.reg, Head(todo))
<1>1. Head(todo) \in Bit /\ todo' \in Seq(Bit) /\ Len(todo') = Len(todo) - 1 /\ Len(todo) \in Nat
  BY DEF TypeOK, klbs_write_bit
<1>2. reg \in Byte
  BY <1>1, ShiftType, TypeParts DEF Context
<1>3. /\ mode' = "write" /\ mode = "write" /\ buflen' = buflen /\ buflen = Capacity
      /\ copy' = copy /\ want' = want /\ got' = got /\ seen' = seen
  BY DEF TypeOK, klbs_write_bit
<1>4. /\ ctx.buflen_used \in Nat /\ ctx.reg_used \in 0 .. 7 /\ ctx.buflen_used <= Capacity
      /\ 8 * ctx.buflen_used + ctx.reg_used + Len(todo) < 8 * Capacity + 8 /\ Len(todo) > 0
  BY <1>1, <1>3, TypeParts DEF klbs_write_bit
<1>. HIDE DEF reg
<1>5. CASE ctx.reg_used = 7
  <2>1. /\ buf' = [buf EXCEPT ![ctx.buflen_used] = reg]
        /\ ctx' = [buflen_used |-> ctx.buflen_used + 1, reg_used |-> 0, reg |-> reg]
    BY <1>5 DEF klbs_write_bit, reg
  <2>2. ctx.buflen_used < Capacity
    BY <1>1, <1>4, <1>5
  <2>3. buf' \in [0 .. Capacity - 1 -> Byte]
    BY <1>2, <2>1 DEF TypeOK
  <2>4. ctx' \in Context /\ ctx'.buflen_used <= Capacity
    BY <1>2, <1>4, <2>1, <2>2 DEF Context
  <2>5. 8 * ctx'.buflen_used + ctx'.reg_used + Len(todo') < 8 * Capacity + 8
    BY <1>1, <1>4, <1>5, <2>1
  <2>. QED BY <1>1, <1>3, <2>3, <2>4, <2>5 DEF TypeOK, Written
<1>6. CASE ctx.reg_used # 7
  <2>1. /\ buf' = buf
        /\ ctx' = [buflen_used |-> ctx.buflen_used, reg_used |-> ctx.reg_used + 1, reg |-> reg]
    BY <1>6 DEF klbs_write_bit, reg
  <2>2. ctx' \in Context /\ ctx'.buflen_used <= Capacity
    BY <1>2, <1>4, <1>6, <2>1 DEF Context
  <2>3. 8 * ctx'.buflen_used + ctx'.reg_used + Len(todo') < 8 * Capacity + 8
    <3>1. ctx'.buflen_used = ctx.buflen_used /\ ctx'.reg_used = ctx.reg_used + 1
      BY <2>1
    <3>2. PICK l \in Nat, m \in Nat : l = Len(todo) /\ m = Len(todo') /\ m = l - 1
      BY <1>1
    <3>3. 8 * ctx.buflen_used + ctx.reg_used + l < 8 * Capacity + 8
      BY <1>4, <3>2
    <3>4. 8 * ctx.buflen_used + (ctx.reg_used + 1) + (l - 1) < 8 * Capacity + 8
      BY <1>4, <3>3, Capacity \in Nat, RoomForRest, Zenon
    <3>. QED BY <3>1, <3>2, <3>4
  <2>. QED BY <1>1, <1>3, <2>1, <2>2, <2>3 DEF TypeOK, Written
<1>. QED BY <1>5, <1>6

\* A reading call or step leaves a sound context behind.
LEMMA TypeReadStep ==
  ASSUME TypeOK, mode = "read", mode' = "read", Sound(ctx'), want' \in Nat, want' <= Left(ctx'),
         got' \in Seq(Bit), UNCHANGED <<buf, buflen, copy, todo, seen>>
  PROVE  TypeOK'
<1>1. ctx' \in Context /\ ctx'.buflen_used <= buflen /\ ctx'.buflen_used <= Capacity
  BY BitstreamAssumption DEF Sound, TypeOK, Context
<1>2. want' <= Left(ctx)'
  BY DEF Left
<1>. QED BY <1>1, <1>2 DEF TypeOK

LEMMA TypePeekStep ==
  ASSUME TypeOK, mode # "write", mode' = "peek", Sound(copy'), want' \in Nat,
         want' <= Left(copy'), seen' \in Seq(Bit), UNCHANGED <<buf, buflen, ctx, todo, got>>
  PROVE  TypeOK'
<1>1. copy' \in Context /\ copy'.buflen_used <= buflen /\ copy'.buflen_used <= Capacity
  BY BitstreamAssumption DEF Sound, TypeOK, Context
<1>2. want' <= Left(copy)'
  BY DEF Left
<1>. QED BY <1>1, <1>2 DEF TypeOK

LEMMA TypeStep == TypeOK /\ [Next]_vars => TypeOK'
<1>. SUFFICES ASSUME TypeOK, [Next]_vars PROVE TypeOK'
  OBVIOUS
<1>. USE BitstreamAssumption
<1>0. /\ ctx.buflen_used \in Nat /\ ctx.reg_used \in 0 .. 7 /\ buflen \in Nat /\ want \in Nat
      /\ got \in Seq(Bit) /\ seen \in Seq(Bit) /\ Capacity \in Nat
      /\ mode = "write" => buflen = Capacity
                           /\ 8 * ctx.buflen_used + ctx.reg_used + Len(todo) < 8 * Capacity + 8
  BY TypeParts
<1>1. ASSUME NEW w \in Words, klbs_write_bits(w) PROVE TypeOK'
  <2>1. w[1] \in Nat /\ w[2] \in Nat
    OBVIOUS
  <2>2. todo' \in Seq(Bit) /\ Len(todo') = w[2]
    BY <1>1, <2>1, BitsOfType DEF klbs_write_bits
  <2>3. 8 * ctx.buflen_used + ctx.reg_used + w[2] <= 8 * Capacity
    BY <1>0, <1>1 DEF klbs_write_bits, Written
  <2>4. 8 * ctx.buflen_used + ctx.reg_used + Len(todo') < 8 * Capacity + 8
    <3>1. PICK l \in Nat : l = Len(todo') /\ l = w[2]
      BY <2>1, <2>2
    <3>2. 8 * ctx.buflen_used + ctx.reg_used + l <= 8 * Capacity
      BY <2>3, <3>1
    <3>3. 8 * ctx.buflen_used + ctx.reg_used + l < 8 * Capacity + 8
      BY <1>0, <3>2, RoomForCall, Zenon
    <3>. QED BY <3>1, <3>3
  <2>. QED BY <1>1, <2>2, <2>4, TypeWriteCall DEF klbs_write_bits
<1>2. CASE klbs_write_bit
  BY <1>2, TypeWriteBit
<1>3. ASSUME NEW b \in Bit, klbs_write_byte_stuff(b) PROVE TypeOK'
  <2>. DEFINE n == (8 - ctx.reg_used) % 8
  <2>1. n \in Nat /\ (ctx.reg_used = 0 => n = 0) /\ (ctx.reg_used > 0 => n = 8 - ctx.reg_used)
    BY <1>0
  <2>2. todo' \in Seq(Bit) /\ Len(todo') = n
    BY <1>3, <2>1, CopiesType DEF klbs_write_byte_stuff
  <2>3. ctx.buflen_used <= Capacity /\ (ctx.reg_used > 0 => ctx.buflen_used < Capacity)
    BY <1>3, <1>0, TypeParts DEF klbs_write_byte_stuff, Room
  <2>. HIDE DEF n
  <2>4. 8 * ctx.buflen_used + ctx.reg_used + Len(todo') < 8 * Capacity + 8
    <3>1. Len(todo') \in Nat /\ ctx.reg_used + Len(todo') <= 8 /\ ctx.reg_used \in Nat
          /\ (ctx.reg_used = 0 => Len(todo') = 0)
      BY <1>0, <2>1, <2>2
    <3>2. PICK l \in Nat : /\ l = Len(todo') /\ ctx.reg_used + l <= 8
                           /\ (ctx.reg_used = 0 => l = 0)
      BY <3>1
    <3>3. 8 * ctx.buflen_used + ctx.reg_used + l < 8 * Capacity + 8
      BY <1>0, <2>3, <3>1, <3>2, SMTT(30)
    <3>. QED BY <3>2, <3>3
  <2>. QED BY <1>3, <2>2, <2>4, TypeWriteCall DEF klbs_write_byte_stuff
<1>4. CASE klbs_write_buffer_complete
  <2>1. CASE ctx.reg_used = 0
    <3>1. todo' = todo /\ todo \in Seq(Bit) /\ mode = "write"
      BY <1>4, <2>1, TypeParts DEF klbs_write_buffer_complete, Idle
    <3>. QED BY <1>0, <1>4, <3>1, TypeWriteCall DEF klbs_write_buffer_complete
  <2>2. CASE ctx.reg_used > 0
    <3>1. 9 - ctx.reg_used \in Nat /\ 0 \in Bit
      BY <1>0 DEF Bit
    <3>2. todo' \in Seq(Bit) /\ Len(todo') = 9 - ctx.reg_used
      BY <1>4, <2>2, <3>1, CopiesType DEF klbs_write_buffer_complete
    <3>3. ctx.buflen_used < Capacity
      BY <1>0, <1>4, <2>2 DEF klbs_write_buffer_complete, Room
    <3>4. 8 * ctx.buflen_used + ctx.reg_used + Len(todo') < 8 * Capacity + 8
      <4>1. Len(todo') \in Nat /\ ctx.reg_used + Len(todo') <= 9 /\ ctx.reg_used \in Nat
        BY <1>0, <3>1, <3>2
      <4>2. PICK l \in Nat : l = Len(todo') /\ ctx.reg_used + l <= 9
        BY <4>1
      <4>3. 8 * ctx.buflen_used + ctx.reg_used + l < 8 * Capacity + 8
        BY <1>0, <3>3, <4>1, <4>2, SMTT(30)
      <4>. QED BY <4>2, <4>3
    <3>. QED BY <1>4, <3>2, <3>4, TypeWriteCall DEF klbs_write_buffer_complete
  <2>. QED BY <1>0, <2>1, <2>2
<1>5. CASE klbs_read_set_buffer
  <2>1. /\ ctx' = Fresh /\ Fresh.buflen_used = 0 /\ Fresh.reg_used = 0
        /\ buflen' = ctx.buflen_used /\ mode' = "read" /\ want' = 0 /\ todo' = <<>>
    BY <1>5 DEF klbs_read_set_buffer, Fresh, Idle
  <2>2. Left(ctx)' \in Nat
    BY <1>0, <2>1 DEF Left
  <2>. QED BY <1>0, <1>5, <2>1, <2>2, FreshType, TypeParts DEF TypeOK, klbs_read_set_buffer
<1>6. ASSUME NEW n \in Counts, klbs_read_bits(n) PROVE TypeOK'
  <2>1. Sound(ctx) /\ BufferOK /\ n \in Nat /\ n <= Left(ctx) /\ mode = "read" /\ mode' = "read"
    BY <1>6, TypeParts DEF klbs_read_bits
  <2>2. CASE ByteAligned(ctx, n)
    <3>1. ctx.reg_used = 0 /\ Left(ctx) >= 8
      BY <2>1, <2>2 DEF ByteAligned
    <3>2. Sound(AfterByte(ctx)) /\ buf[ctx.buflen_used] \in Byte /\ Left(AfterByte(ctx)) = Left(ctx) - 8
      BY <2>1, <3>1, ReadByte
    <3>3. buf[ctx.buflen_used] \in Seq(Bit)
      BY <3>2, ByteIsSeq
    <3>4. got' \in Seq(Bit) /\ want' = 0 /\ ctx' = AfterByte(ctx)
      BY <1>0, <1>6, <2>2, <3>3, ConcatProperties, ZenonT(40) DEF klbs_read_bits, Idle
    <3>5. Left(ctx') \in Nat /\ 0 <= Left(ctx')
      BY <2>1, <3>1, <3>2, <3>4, AheadType
    <3>. QED BY <1>6, <2>1, <3>2, <3>4, <3>5, TypeReadStep DEF klbs_read_bits
  <2>3. CASE ~ByteAligned(ctx, n)
    BY <1>0, <1>6, <2>1, <2>3, TypeReadStep DEF klbs_read_bits
  <2>. QED BY <2>2, <2>3
<1>7. CASE klbs_read_bit
  <2>1. Sound(ctx) /\ BufferOK /\ mode = "read" /\ mode' = "read" /\ want <= Left(ctx) /\ want > 0
    BY <1>7, TypeParts DEF klbs_read_bit, TypeOK
  <2>2. Left(ctx) \in Nat
    BY <2>1, AheadType
  <2>3. Sound(AfterBit(ctx)) /\ Left(AfterBit(ctx)) = Left(ctx) - 1 /\ BitRead(ctx) \in Bit
    BY <1>0, <2>1, <2>2, ReadBit
  <2>4. got' \in Seq(Bit) /\ want' = want - 1 /\ ctx' = AfterBit(ctx)
    BY <1>0, <1>7, <2>3 DEF klbs_read_bit
  <2>. QED BY <1>0, <1>7, <2>1, <2>2, <2>3, <2>4, TypeReadStep DEF klbs_read_bit
<1>8. CASE klbs_read_byte_stuff
  <2>1. Sound(ctx) /\ mode = "read" /\ mode' = "read" /\ ctx' = ctx /\ want' = ctx.reg_used
        /\ ctx.buflen_used <= buflen
    BY <1>8, TypeParts DEF klbs_read_byte_stuff, Sound
  <2>2. want' \in Nat /\ want' <= Left(ctx')
    BY <1>0, <2>1, SMTT(30) DEF Left
  <2>. QED BY <1>0, <1>8, <2>1, <2>2, TypeReadStep DEF klbs_read_byte_stuff
<1>9. ASSUME NEW n \in Counts, klbs_peek_bits(n) PROVE TypeOK'
  <2>1. Sound(ctx) /\ BufferOK /\ n \in Nat /\ n <= Left(ctx) /\ mode = "read" /\ mode' = "peek"
    BY <1>9, TypeParts DEF klbs_peek_bits
  <2>2. CASE ByteAligned(ctx, n)
    <3>1. ctx.reg_used = 0 /\ Left(ctx) >= 8
      BY <2>1, <2>2 DEF ByteAligned
    <3>2. Sound(AfterByte(ctx)) /\ buf[ctx.buflen_used] \in Byte
      BY <2>1, <3>1, ReadByte
    <3>3. seen' \in Seq(Bit) /\ want' = 0 /\ copy' = AfterByte(ctx)
      BY <1>9, <2>2, <3>2, ByteIsSeq DEF klbs_peek_bits, Idle
    <3>4. Left(copy') \in Nat /\ 0 <= Left(copy')
      BY <2>1, <3>2, <3>3, AheadType
    <3>. QED BY <1>9, <2>1, <3>2, <3>3, <3>4, TypePeekStep DEF klbs_peek_bits
  <2>3. CASE ~ByteAligned(ctx, n)
    BY <1>0, <1>9, <2>1, <2>3, TypePeekStep DEF klbs_peek_bits
  <2>. QED BY <2>2, <2>3
<1>10. CASE PeekBit
  <2>1. Sound(copy) /\ BufferOK /\ mode = "peek" /\ mode' = "peek" /\ want <= Left(copy) /\ want > 0
    BY <1>10, TypeParts DEF PeekBit, TypeOK
  <2>2. Left(copy) \in Nat
    BY <2>1, AheadType
  <2>3. Sound(AfterBit(copy)) /\ Left(AfterBit(copy)) = Left(copy) - 1 /\ BitRead(copy) \in Bit
    BY <1>0, <2>1, <2>2, ReadBit
  <2>4. seen' \in Seq(Bit) /\ want' = want - 1 /\ copy' = AfterBit(copy)
    BY <1>0, <1>10, <2>3 DEF PeekBit
  <2>. QED BY <1>0, <1>10, <2>1, <2>2, <2>3, <2>4, TypePeekStep DEF PeekBit
<1>11. CASE PeekEnd
  <2>1. Sound(ctx) /\ BufferOK
    BY <1>11, TypeParts DEF PeekEnd
  <2>2. Left(ctx) \in Nat
    BY <2>1, AheadType
  <2>3. copy' = Fresh /\ Fresh.buflen_used = 0 /\ Fresh.reg_used = 0
    BY <1>11 DEF PeekEnd, Fresh
  <2>. QED BY <1>0, <1>11, <2>1, <2>2, <2>3, FreshType DEF PeekEnd, TypeOK, Left
<1>12. CASE UNCHANGED vars
  BY <1>12 DEF vars, TypeOK, Written, Left
<1>. QED BY <1>1, <1>2, <1>3, <1>4, <1>5, <1>6, <1>7, <1>8, <1>9, <1>10, <1>11, <1>12 DEF Next

\* Contexts and buffer keep their types, no write passes the end of the buffer,
\* and a read never passes what was written.
THEOREM StreamTypeCorrect == Spec => []TypeOK
BY TypeInit, TypeStep, PTL DEF Spec
----------------------------------------------------------------------------
(* Refinement *)

\* What the byte stream is as a queue.
Contents == IF mode = "write" THEN Behind ELSE Ahead(ctx)

LEMMA BehindType ==
  ASSUME TypeOK, mode = "write"
  PROVE  /\ Written \in Nat /\ Behind \in Seq(Bit) /\ Len(Behind) = Written
         /\ DOMAIN Behind = 1 .. Written
<1>. USE BitstreamAssumption
<1>1. /\ ctx.buflen_used \in Nat /\ ctx.reg_used \in 0 .. 7 /\ ctx.buflen_used <= Capacity
      /\ ctx.reg \in [1 .. 8 -> Bit] /\ buf \in [0 .. Capacity - 1 -> Byte]
  BY TypeParts DEF Context, Byte, BufferOK
<1>2. Written \in Nat
  BY <1>1 DEF Written
<1>3. ASSUME NEW k \in 1 .. Written PROVE Behind[k] \in Bit
  <2>1. CASE k <= 8 * ctx.buflen_used
    <3>1. PICK j \in Nat : j = k - 1
      BY <1>2
    <3>2. j < 8 * ctx.buflen_used
      BY <1>1, <2>1, <3>1
    <3>3. j \div 8 \in Nat /\ j % 8 \in 0 .. 7 /\ j \div 8 < ctx.buflen_used
      BY <1>1, <3>2, Div8Mod8
    <3>4. Behind[k] = buf[j \div 8][(j % 8) + 1]
      BY <2>1, <3>1 DEF Behind
    <3>5. PICK i \in Nat, m \in 0 .. 7 : i = j \div 8 /\ m = j % 8 /\ i < ctx.buflen_used
      BY <3>3, Zenon
    <3>6. i \in 0 .. Capacity - 1 /\ m + 1 \in 1 .. 8
      BY <1>1, <3>5
    <3>7. Behind[k] = buf[i][m + 1]
      BY <3>4, <3>5, Zenon
    <3>. QED BY <1>1, <3>6, <3>7 DEF Byte
  <2>2. CASE ~(k <= 8 * ctx.buflen_used)
    <3>1. PICK u \in Nat, r \in 0 .. 7 : u = ctx.buflen_used /\ r = ctx.reg_used
      BY <1>1
    <3>2. k \in 1 .. 8 * u + r /\ ~(k <= 8 * u)
      BY <2>2, <3>1 DEF Written
    <3>3. 8 - r + k - 8 * u \in 1 .. 8
      BY <3>2
    <3>4. Behind[k] = ctx.reg[8 - r + k - 8 * u]
      BY <2>2, <3>1 DEF Behind
    <3>. QED BY <1>1, <3>3, <3>4
  <2>. QED BY <2>1, <2>2
<1>4. DOMAIN Behind = 1 .. Written
  BY DEF Behind
<1>5. Behind \in [1 .. Written -> Bit]
  BY <1>3, <1>4 DEF Behind
<1>. QED BY <1>2, <1>4, <1>5

\* klbs_write_bit adds its bit behind the others.
LEMMA WriteBit ==
  ASSUME TypeOK, TypeOK', klbs_write_bit
  PROVE  Behind' = Append(Behind, Head(todo))
<1>. USE BitstreamAssumption
<1>1. mode = "write" /\ mode' = "write" /\ Head(todo) \in Bit
  BY DEF klbs_write_bit, TypeOK
<1>2. PICK b \in Bit : b = Head(todo)
  BY <1>1
<1>3. PICK u \in Nat, r \in 0 .. 7, reg \in Byte :
        u = ctx.buflen_used /\ r = ctx.reg_used /\ reg = Shift(ctx.reg, b)
  BY TypeParts, ShiftType DEF Context
<1>4. /\ Behind \in Seq(Bit) /\ Len(Behind) = 8 * u + r
      /\ \A k \in 1 .. 8 * u + r :
           Behind[k] = IF k <= 8 * u THEN buf[(k - 1) \div 8][((k - 1) % 8) + 1]
                       ELSE ctx.reg[8 - r + k - 8 * u]
  BY <1>1, <1>3, BehindType DEF Written, Behind
<1>5. PICK v \in Nat, t \in 0 .. 7 : v = ctx'.buflen_used /\ t = ctx'.reg_used
  BY TypeParts DEF TypeOK, Context
<1>6. \/ r = 7 /\ v = u + 1 /\ t = 0 /\ buf' = [buf EXCEPT ![u] = reg]
      \/ r # 7 /\ v = u /\ t = r + 1 /\ buf' = buf /\ ctx'.reg = reg
  BY <1>2, <1>3, <1>5 DEF klbs_write_bit
<1>7. 8 * v + t = 8 * u + r + 1
  BY <1>6
<1>8. Behind' = [k \in 1 .. 8 * u + r + 1 |->
                   IF k <= 8 * v THEN buf'[(k - 1) \div 8][((k - 1) % 8) + 1]
                   ELSE ctx'.reg[8 - t + k - 8 * v]]
  BY <1>5, <1>7 DEF Behind, Written
<1>9. buf \in [0 .. Capacity - 1 -> Byte] /\ (r = 7 => u \in 0 .. Capacity - 1)
  <2>1. r = 7 => u < Capacity
    BY <1>5, <1>6 DEF TypeOK
  <2>. QED BY <2>1 DEF TypeOK
<1>10. ASSUME NEW k \in 1 .. 8 * u + r + 1, k <= 8 * u PROVE Behind'[k] = Behind[k]
  <2>1. PICK j \in Nat : j = k - 1 /\ j < 8 * u
    BY <1>10
  <2>2. j \div 8 < u /\ j \div 8 \in Nat
    BY <2>1, Div8Mod8
  <2>3. Behind[k] = buf[j \div 8][(j % 8) + 1]
    BY <1>4, <1>10, <2>1
  <2>4. k <= 8 * v
    BY <1>6, <1>10
  <2>5. Behind'[k] = buf'[j \div 8][(j % 8) + 1]
    BY <1>8, <2>1, <2>4
  <2>6. buf'[j \div 8] = buf[j \div 8]
    BY <1>6, <1>9, <2>2
  <2>. QED BY <2>3, <2>5, <2>6
<1>11. ASSUME NEW k \in 1 .. 8 * u + r + 1, ~(k <= 8 * u)
       PROVE  Behind'[k] = IF k = 8 * u + r + 1 THEN b ELSE Behind[k]
  <2>1. PICK j \in 1 .. 8 : k = 8 * u + j /\ j <= r + 1
    <3>1. k - 8 * u \in 1 .. 8 /\ k = 8 * u + (k - 8 * u) /\ k - 8 * u <= r + 1
      BY <1>11
    <3>. QED BY <3>1
  <2>2. j <= r => Behind[k] = ctx.reg[8 - r + j]
    <3>1. ASSUME j <= r PROVE k \in 1 .. 8 * u + r /\ 8 - r + k - 8 * u = 8 - r + j
      BY <2>1, <3>1
    <3>. QED BY <1>4, <1>11, <3>1
  <2>3. CASE r = 7
    <3>1. k <= 8 * v
      BY <1>6, <2>1, <2>3
    <3>2. (k - 1) \div 8 = u /\ (k - 1) % 8 = j - 1
      BY <2>1
    <3>3. Behind'[k] = buf'[u][(j - 1) + 1]
      BY <1>8, <3>1, <3>2
    <3>4. buf'[u] = reg
      BY <1>6, <1>9, <2>3
    <3>5. reg[j] = IF j = 8 THEN b ELSE ctx.reg[j + 1]
      BY <1>3 DEF Shift
    <3>6. (j - 1) + 1 = j /\ 8 - r + j = j + 1 /\ (j = 8 <=> k = 8 * u + r + 1) /\ (j # 8 => j <= r)
      BY <2>1, <2>3
    <3>. QED BY <2>2, <3>3, <3>4, <3>5, <3>6
  <2>4. CASE r # 7
    <3>1. v = u /\ t = r + 1 /\ ctx'.reg = reg
      BY <1>6, <2>4
    <3>2. 8 - t + k - 8 * v = 7 - r + j /\ 7 - r + j \in 1 .. 8
      BY <2>1, <2>4, <3>1
    <3>3. Behind'[k] = reg[7 - r + j]
      BY <1>8, <1>11, <3>1, <3>2
    <3>4. @ = IF 7 - r + j = 8 THEN b ELSE ctx.reg[(7 - r + j) + 1]
      BY <1>3, <3>2 DEF Shift
    <3>5. /\ (7 - r + j) + 1 = 8 - r + j /\ (7 - r + j = 8 <=> k = 8 * u + r + 1)
          /\ (7 - r + j # 8 => j <= r)
      BY <2>1
    <3>. QED BY <2>2, <3>3, <3>4, <3>5
  <2>. QED BY <2>3, <2>4
<1>12. ASSUME NEW k \in 1 .. 8 * u + r + 1 PROVE Behind'[k] = Append(Behind, b)[k]
  <2>1. Append(Behind, b)[k] = IF k = 8 * u + r + 1 THEN b ELSE Behind[k]
    BY <1>4, AppendProperties
  <2>2. k <= 8 * u => k # 8 * u + r + 1
    OBVIOUS
  <2>. QED BY <1>10, <1>11, <2>1, <2>2
<1>13. Append(Behind, b) \in Seq(Bit) /\ Len(Append(Behind, b)) = 8 * u + r + 1
  BY <1>4, AppendProperties
<1>14. Append(Behind, b) = [k \in 1 .. 8 * u + r + 1 |-> Append(Behind, b)[k]]
  BY <1>13, LenProperties
<1>. QED BY <1>2, <1>8, <1>12, <1>14

LEMMA PrefixIs ==
  ASSUME NEW q \in Seq(Bit), NEW p \in Seq(Bit), Len(p) <= Len(q),
         \A k \in 1 .. Len(p) : p[k] = q[k]
  PROVE  p = SubSeq(q, 1, Len(p))
<1>1. Len(p) \in Nat /\ Len(q) \in Nat
  BY LenProperties
<1>2. /\ SubSeq(q, 1, Len(p)) = [k \in 1 .. Len(p) |-> q[k]]
      /\ p = [k \in 1 .. Len(p) |-> p[k]]
  BY <1>1, LenProperties
<1>. QED BY <1>2

LEMMA SuffixIs ==
  ASSUME NEW q \in Seq(Bit), NEW p \in Seq(Bit), NEW n \in Nat, Len(q) = Len(p) + n,
         \A k \in 1 .. Len(p) : p[k] = q[k + n]
  PROVE  p = SubSeq(q, n + 1, Len(q))
<1>1. Len(p) \in Nat /\ Len(q) \in Nat
  BY LenProperties
<1>2. SubSeq(q, n + 1, Len(q)) = [k \in 1 .. Len(p) |-> q[k + n]]
  BY <1>1
<1>3. p = [k \in 1 .. Len(p) |-> p[k]]
  BY LenProperties
<1>. QED BY <1>2, <1>3

LEMMA FirstOnly ==
  ASSUME NEW q \in Seq(Bit), Len(q) > 0
  PROVE  SubSeq(q, 1, 1) = <<q[1]>>
<1>1. q[1] \in Bit
  BY LenProperties
<1>2. <<q[1]>> \in Seq(Bit) /\ Len(<<q[1]>>) = 1 /\ <<q[1]>>[1] = q[1]
  BY <1>1
<1>3. Len(<<q[1]>>) <= Len(q)
  BY <1>2, LenProperties
<1>4. \A k \in 1 .. Len(<<q[1]>>) : <<q[1]>>[k] = q[k]
  BY <1>2
<1>. QED BY <1>2, <1>3, <1>4, PrefixIs

\* A step of a reading call is a Get.
LEMMA GetBit ==
  ASSUME TypeOK, klbs_read_bit
  PROVE  Queue!Get(1)
<1>1. /\ mode = "read" /\ mode' = "read" /\ BufferOK /\ Sound(ctx) /\ want > 0 /\ want <= Left(ctx)
      /\ want \in Nat /\ got \in Seq(Bit) /\ buf' = buf /\ buflen' = buflen
      /\ ctx' = AfterBit(ctx) /\ got' = Append(got, BitRead(ctx))
  BY TypeParts DEF klbs_read_bit
<1>2. /\ Left(ctx) \in Nat /\ Left(ctx) > 0
      /\ Ahead(ctx) \in Seq(Bit) /\ Len(Ahead(ctx)) = Left(ctx)
  BY <1>1, AheadType
<1>3. /\ Sound(AfterBit(ctx)) /\ Left(AfterBit(ctx)) = Left(ctx) - 1
      /\ BitRead(ctx) \in Bit /\ BitRead(ctx) = Ahead(ctx)[1]
      /\ \A k \in 1 .. Left(ctx) - 1 : Ahead(AfterBit(ctx))[k] = Ahead(ctx)[k + 1]
  BY <1>1, <1>2, ReadBit
<1>4. /\ Ahead(AfterBit(ctx)) \in Seq(Bit)
      /\ Len(Ahead(AfterBit(ctx))) = Left(ctx) - 1
  BY <1>1, <1>3, AheadType
<1>5. Ahead(AfterBit(ctx)) = SubSeq(Ahead(ctx), 2, Len(Ahead(ctx)))
  <2>1. Len(Ahead(ctx)) = Len(Ahead(AfterBit(ctx))) + 1
    BY <1>2, <1>4
  <2>2. Ahead(AfterBit(ctx)) = SubSeq(Ahead(ctx), 1 + 1, Len(Ahead(ctx)))
    <3>1. \A k \in 1 .. Len(Ahead(AfterBit(ctx))) : Ahead(AfterBit(ctx))[k] = Ahead(ctx)[k + 1]
      BY <1>3, <1>4
    <3>. QED BY <1>2, <1>4, <2>1, <3>1, SuffixIs
  <2>. QED BY <2>2
<1>6. Ahead(ctx)' = Ahead(AfterBit(ctx))
  BY <1>1 DEF Ahead, Left
<1>7. got' = got \o SubSeq(Ahead(ctx), 1, 1)
  <2>1. SubSeq(Ahead(ctx), 1, 1) = <<Ahead(ctx)[1]>>
    BY <1>2, FirstOnly
  <2>2. Append(got, BitRead(ctx)) = got \o <<BitRead(ctx)>>
    BY <1>1, <1>3, AppendIsConcat
  <2>. QED BY <1>1, <1>3, <2>1, <2>2
<1>. QED BY <1>1, <1>2, <1>5, <1>6, <1>7 DEF Queue!Get

LEMMA GetByte ==
  ASSUME TypeOK, NEW n \in Counts, klbs_read_bits(n), ByteAligned(ctx, n)
  PROVE  Queue!Get(8)
<1>1. /\ mode = "read" /\ mode' = "read" /\ BufferOK /\ Sound(ctx) /\ ctx.reg_used = 0
      /\ n = 8 /\ n <= Left(ctx) /\ got \in Seq(Bit) /\ buf' = buf /\ buflen' = buflen
      /\ ctx' = AfterByte(ctx) /\ got' = got \o buf[ctx.buflen_used]
  BY TypeParts DEF klbs_read_bits, ByteAligned
<1>2. /\ Left(ctx) \in Nat /\ Left(ctx) >= 8
      /\ Ahead(ctx) \in Seq(Bit) /\ Len(Ahead(ctx)) = Left(ctx)
  BY <1>1, AheadType
<1>3. /\ Sound(AfterByte(ctx)) /\ Left(AfterByte(ctx)) = Left(ctx) - 8
      /\ buf[ctx.buflen_used] \in Byte
      /\ \A k \in 1 .. 8 : buf[ctx.buflen_used][k] = Ahead(ctx)[k]
      /\ \A k \in 1 .. Left(ctx) - 8 : Ahead(AfterByte(ctx))[k] = Ahead(ctx)[k + 8]
  BY <1>1, <1>2, ReadByte
<1>4. /\ Ahead(AfterByte(ctx)) \in Seq(Bit)
      /\ Len(Ahead(AfterByte(ctx))) = Left(ctx) - 8
  BY <1>1, <1>3, AheadType
<1>5. Ahead(AfterByte(ctx)) = SubSeq(Ahead(ctx), 8 + 1, Len(Ahead(ctx)))
  <2>1. Len(Ahead(ctx)) = Len(Ahead(AfterByte(ctx))) + 8
    BY <1>2, <1>4
  <2>. QED BY <1>2, <1>3, <1>4, <2>1, SuffixIs
<1>6. Ahead(ctx)' = Ahead(AfterByte(ctx))
  BY <1>1 DEF Ahead, Left
<1>7. buf[ctx.buflen_used] = SubSeq(Ahead(ctx), 1, 8)
  <2>1. buf[ctx.buflen_used] \in Seq(Bit) /\ Len(buf[ctx.buflen_used]) = 8
    BY <1>3, ByteIsSeq
  <2>. QED BY <1>2, <1>3, <2>1, PrefixIs
<1>. QED BY <1>1, <1>2, <1>5, <1>6, <1>7 DEF Queue!Get

\* The first Left bits of what a writer leaves are what a reader finds.
LEMMA RewindIs ==
  ASSUME TypeOK, klbs_read_set_buffer
  PROVE  Queue!Rewind
<1>1. /\ mode = "write" /\ mode' = "read" /\ buf' = buf /\ got' = got
      /\ buflen' = ctx.buflen_used /\ ctx'.buflen_used = 0 /\ ctx'.reg_used = 0
  BY DEF klbs_read_set_buffer, Fresh
<1>2. PICK u \in Nat, r \in 0 .. 7 : u = ctx.buflen_used /\ r = ctx.reg_used
  BY TypeParts
<1>3. Behind \in Seq(Bit) /\ Len(Behind) = 8 * u + r
  BY <1>1, <1>2, BehindType DEF Written
<1>4. (8 * u + r) \div 8 = u
  OBVIOUS
<1>5. Left(ctx)' = 8 * u
  BY <1>1, <1>2 DEF Left
<1>6. Ahead(ctx)' = [k \in 1 .. 8 * u |-> buf[0 + ((k - 1 - 0) \div 8)][((k - 1 - 0) % 8) + 1]]
  BY <1>1, <1>5 DEF Ahead
<1>7. SubSeq(Behind, 1, 8 * u) = [k \in 1 .. 8 * u |-> Behind[k]]
  BY <1>3
<1>8. ASSUME NEW k \in 1 .. 8 * u
      PROVE  Behind[k] = buf[0 + ((k - 1 - 0) \div 8)][((k - 1 - 0) % 8) + 1]
  <2>1. Behind[k] = buf[(k - 1) \div 8][((k - 1) % 8) + 1]
    BY <1>2, SMTT(30) DEF Behind, Written
  <2>2. k - 1 - 0 = k - 1 /\ 0 + ((k - 1) \div 8) = (k - 1) \div 8
    BY Div8Mod8
  <2>. QED BY <2>1, <2>2
<1>9. Ahead(ctx)' = SubSeq(Behind, 1, 8 * u)
  BY <1>6, <1>7, <1>8
<1>. QED BY <1>1, <1>3, <1>4, <1>9 DEF Queue!Rewind

\* A step that moves no bit leaves the queue alone.
LEMMA QueueStutters ==
  ASSUME UNCHANGED <<buf, buflen, ctx, got>>, (mode = "write") = (mode' = "write")
  PROVE  UNCHANGED Queue!vars
BY DEF Queue!vars, Behind, Ahead, Written, Left

LEMMA QueueInit == Init => Queue!Init
<1>. SUFFICES ASSUME Init PROVE Queue!Init
  OBVIOUS
<1>1. Written = 0
  BY DEF Init, Written, Fresh
<1>2. Behind = <<>>
  BY <1>1 DEF Behind
<1>. QED BY <1>2 DEF Init, Queue!Init

LEMMA QueueStep == TypeOK /\ TypeOK' /\ [Next]_vars => [Queue!Next]_(Queue!vars)
<1>. SUFFICES ASSUME TypeOK, TypeOK', [Next]_vars PROVE [Queue!Next]_(Queue!vars)
  OBVIOUS
<1>1. ASSUME NEW w \in Words, klbs_write_bits(w) PROVE UNCHANGED Queue!vars
  BY <1>1, QueueStutters DEF klbs_write_bits
<1>2. ASSUME klbs_write_bit PROVE Queue!Next
  <2>1. Head(todo) \in Queue!Bits /\ mode = "write" /\ mode' = "write" /\ got' = got
    BY <1>2 DEF klbs_write_bit, TypeOK, Bit, Queue!Bits
  <2>2. Queue!Put(Head(todo))
    BY <1>2, <2>1, WriteBit DEF Queue!Put
  <2>. QED BY <2>1, <2>2 DEF Queue!Next
<1>3. ASSUME NEW b \in Bit, klbs_write_byte_stuff(b) PROVE UNCHANGED Queue!vars
  BY <1>3, QueueStutters DEF klbs_write_byte_stuff
<1>4. ASSUME klbs_write_buffer_complete PROVE UNCHANGED Queue!vars
  BY <1>4, QueueStutters DEF klbs_write_buffer_complete
<1>5. ASSUME klbs_read_set_buffer PROVE Queue!Next
  BY <1>5, RewindIs DEF Queue!Next
<1>6. ASSUME NEW n \in Counts, klbs_read_bits(n) PROVE [Queue!Next]_(Queue!vars)
  <2>1. CASE ByteAligned(ctx, n)
    BY <1>6, <2>1, GetByte DEF Queue!Next
  <2>2. CASE ~ByteAligned(ctx, n)
    BY <1>6, <2>2, QueueStutters DEF klbs_read_bits
  <2>. QED BY <2>1, <2>2
<1>7. ASSUME klbs_read_bit PROVE Queue!Next
  BY <1>7, GetBit DEF Queue!Next
<1>8. ASSUME klbs_read_byte_stuff PROVE UNCHANGED Queue!vars
  BY <1>8, QueueStutters DEF klbs_read_byte_stuff
<1>9. ASSUME NEW n \in Counts, klbs_peek_bits(n) PROVE UNCHANGED Queue!vars
  BY <1>9, QueueStutters DEF klbs_peek_bits
<1>10. ASSUME PeekBit PROVE UNCHANGED Queue!vars
  BY <1>10, QueueStutters DEF PeekBit
<1>11. ASSUME PeekEnd PROVE UNCHANGED Queue!vars
  BY <1>11, QueueStutters DEF PeekEnd
<1>12. ASSUME UNCHANGED vars PROVE UNCHANGED Queue!vars
  BY <1>12, QueueStutters DEF vars
<1>. QED BY <1>1, <1>2, <1>3, <1>4, <1>5, <1>6, <1>7, <1>8, <1>9, <1>10, <1>11, <1>12 DEF Next

\* Bytes and shift register behave as a queue of bits: what comes out is what
\* went in, bit for bit, for any buffer, words and widths.
THEOREM StreamIsQueue == Spec => ImplementsQueue
<1>1. Spec => []TypeOK
  BY StreamTypeCorrect
<1>. QED BY <1>1, QueueInit, QueueStep, PTL DEF Spec, ImplementsQueue, Queue!Spec

----------------------------------------------------------------------------
(* Peeks *)

\* While a peek runs, what it saw and what the copy still has before it are
\* together what the context has before it.
PeekInv ==
  /\ mode # "peek" => seen = <<>>
  /\ mode = "peek" =>
       /\ Len(seen) + Left(copy) = Left(ctx)
       /\ \A k \in 1 .. Len(seen) : seen[k] = Ahead(ctx)[k]
       /\ \A k \in 1 .. Left(copy) : Ahead(copy)[k] = Ahead(ctx)[k + Len(seen)]

LEMMA PeekBegins ==
  ASSUME TypeOK, TypeOK', PeekInv, NEW n \in Counts, klbs_peek_bits(n)
  PROVE  PeekInv'
<1>1. /\ mode = "read" /\ mode' = "peek" /\ ctx' = ctx /\ buf' = buf /\ buflen' = buflen
      /\ n <= Left(ctx) /\ seen = <<>> /\ Sound(ctx) /\ BufferOK
  BY TypeParts DEF klbs_peek_bits, PeekInv
<1>2. Left(ctx) \in Nat
  BY <1>1, AheadType
<1>3. /\ Left(ctx)' = Left(ctx) /\ Ahead(ctx)' = Ahead(ctx)
      /\ Left(copy)' = Left(copy') /\ Ahead(copy)' = Ahead(copy')
  BY <1>1 DEF Left, Ahead
<1>4. CASE ByteAligned(ctx, n)
  <2>1. /\ copy' = AfterByte(ctx) /\ seen' = buf[ctx.buflen_used]
        /\ n = 8 /\ ctx.reg_used = 0
    BY <1>4 DEF klbs_peek_bits, ByteAligned
  <2>2. /\ Left(AfterByte(ctx)) = Left(ctx) - 8
        /\ buf[ctx.buflen_used] \in Byte
        /\ \A k \in 1 .. 8 : buf[ctx.buflen_used][k] = Ahead(ctx)[k]
        /\ \A k \in 1 .. Left(ctx) - 8 : Ahead(AfterByte(ctx))[k] = Ahead(ctx)[k + 8]
    BY <1>1, <2>1, ReadByte
  <2>3. Len(seen') = 8
    BY <2>1, <2>2, ByteIsSeq
  <2>. QED BY <1>1, <1>2, <1>3, <2>1, <2>2, <2>3 DEF PeekInv
<1>5. CASE ~ByteAligned(ctx, n)
  <2>1. copy' = ctx /\ seen' = <<>> /\ Len(seen') = 0
    BY <1>1, <1>5 DEF klbs_peek_bits
  <2>. QED BY <1>1, <1>2, <1>3, <2>1 DEF PeekInv
<1>. QED BY <1>4, <1>5

LEMMA PeekGoesOn ==
  ASSUME TypeOK, TypeOK', PeekInv, PeekBit
  PROVE  PeekInv'
<1>1. /\ mode = "peek" /\ mode' = "peek" /\ ctx' = ctx /\ buf' = buf /\ buflen' = buflen
      /\ want \in Nat /\ want > 0 /\ want <= Left(copy) /\ BufferOK
      /\ Sound(copy) /\ Sound(ctx) /\ seen \in Seq(Bit)
      /\ copy' = AfterBit(copy) /\ seen' = Append(seen, BitRead(copy))
  BY TypeParts DEF PeekBit
<1>2. Left(copy) \in Nat /\ Left(ctx) \in Nat /\ Left(copy) > 0
  BY <1>1, AheadType
<1>3. /\ Left(ctx)' = Left(ctx) /\ Ahead(ctx)' = Ahead(ctx)
      /\ Left(copy)' = Left(AfterBit(copy)) /\ Ahead(copy)' = Ahead(AfterBit(copy))
  BY <1>1 DEF Left, Ahead
<1>4. /\ Left(AfterBit(copy)) = Left(copy) - 1
      /\ BitRead(copy) \in Bit /\ BitRead(copy) = Ahead(copy)[1]
      /\ \A k \in 1 .. Left(copy) - 1 : Ahead(AfterBit(copy))[k] = Ahead(copy)[k + 1]
  BY <1>1, <1>2, ReadBit
<1>5. /\ Len(seen) \in Nat /\ Len(seen) + Left(copy) = Left(ctx)
      /\ \A k \in 1 .. Len(seen) : seen[k] = Ahead(ctx)[k]
      /\ \A k \in 1 .. Left(copy) : Ahead(copy)[k] = Ahead(ctx)[k + Len(seen)]
  BY <1>1, LenProperties DEF PeekInv
<1>6. /\ Len(seen') = Len(seen) + 1 /\ seen'[Len(seen) + 1] = BitRead(copy)
      /\ \A k \in 1 .. Len(seen) : seen'[k] = seen[k]
  BY <1>1, <1>4, <1>5, AppendProperties
<1>7. ASSUME NEW k \in 1 .. Len(seen') PROVE seen'[k] = Ahead(ctx)[k]
  <2>1. Ahead(copy)[1] = Ahead(ctx)[1 + Len(seen)]
    BY <1>2, <1>5
  <2>. QED BY <1>4, <1>5, <1>6, <2>1
<1>8. ASSUME NEW k \in 1 .. Left(copy) - 1
      PROVE  Ahead(AfterBit(copy))[k] = Ahead(ctx)[k + Len(seen')]
  <2>1. k + 1 \in 1 .. Left(copy) /\ (k + 1) + Len(seen) = k + Len(seen')
    BY <1>2, <1>5, <1>6
  <2>2. Ahead(copy)[k + 1] = Ahead(ctx)[(k + 1) + Len(seen)]
    BY <1>5, <2>1
  <2>. QED BY <1>4, <2>1, <2>2
<1>9. Len(seen') + Left(copy)' = Left(ctx)'
  BY <1>2, <1>3, <1>4, <1>5, <1>6
<1>. QED BY <1>1, <1>3, <1>4, <1>7, <1>8, <1>9 DEF PeekInv

LEMMA PeekStep == TypeOK /\ TypeOK' /\ PeekInv /\ [Next]_vars => PeekInv'
<1>. SUFFICES ASSUME TypeOK, TypeOK', PeekInv, [Next]_vars PROVE PeekInv'
  OBVIOUS
<1>1. ASSUME mode' # "peek", mode = "read" \/ mode = "write", seen' = seen PROVE PeekInv'
  BY <1>1 DEF PeekInv
<1>2. ASSUME NEW w \in Words, klbs_write_bits(w) PROVE PeekInv'
  BY <1>1, <1>2 DEF klbs_write_bits
<1>3. ASSUME klbs_write_bit PROVE PeekInv'
  BY <1>1, <1>3 DEF klbs_write_bit
<1>4. ASSUME NEW b \in Bit, klbs_write_byte_stuff(b) PROVE PeekInv'
  BY <1>1, <1>4 DEF klbs_write_byte_stuff
<1>5. ASSUME klbs_write_buffer_complete PROVE PeekInv'
  BY <1>1, <1>5 DEF klbs_write_buffer_complete
<1>6. ASSUME klbs_read_set_buffer PROVE PeekInv'
  BY <1>1, <1>6 DEF klbs_read_set_buffer
<1>7. ASSUME NEW n \in Counts, klbs_read_bits(n) PROVE PeekInv'
  BY <1>1, <1>7 DEF klbs_read_bits
<1>8. ASSUME klbs_read_bit PROVE PeekInv'
  BY <1>1, <1>8 DEF klbs_read_bit
<1>9. ASSUME klbs_read_byte_stuff PROVE PeekInv'
  BY <1>1, <1>9 DEF klbs_read_byte_stuff
<1>10. ASSUME NEW n \in Counts, klbs_peek_bits(n) PROVE PeekInv'
  BY <1>10, PeekBegins
<1>11. ASSUME PeekBit PROVE PeekInv'
  BY <1>11, PeekGoesOn
<1>12. ASSUME PeekEnd PROVE PeekInv'
  BY <1>12 DEF PeekEnd, PeekInv
<1>13. ASSUME UNCHANGED vars PROVE PeekInv'
  BY <1>13 DEF vars, PeekInv, Left, Ahead
<1>. QED BY <1>2, <1>3, <1>4, <1>5, <1>6, <1>7, <1>8, <1>9, <1>10, <1>11, <1>12, <1>13 DEF Next

LEMMA PeekInvImplies == TypeOK /\ PeekInv => PeekForesees
<1>. SUFFICES ASSUME TypeOK, PeekInv, mode = "peek"
              PROVE  Len(seen) <= Left(ctx) /\ seen = SubSeq(Ahead(ctx), 1, Len(seen))
  BY DEF PeekForesees
<1>1. BufferOK /\ Sound(ctx) /\ Sound(copy) /\ seen \in Seq(Bit) /\ Len(seen) \in Nat
  BY TypeParts, LenProperties
<1>2. /\ Left(ctx) \in Nat /\ Left(copy) \in Nat
      /\ Ahead(ctx) \in Seq(Bit) /\ Len(Ahead(ctx)) = Left(ctx)
  BY <1>1, AheadType
<1>3. Len(seen) <= Left(ctx) /\ \A k \in 1 .. Len(seen) : seen[k] = Ahead(ctx)[k]
  BY <1>1, <1>2 DEF PeekInv
<1>. QED BY <1>1, <1>2, <1>3, PrefixIs

\* What klbs_peek_bits shows is what the next reads return, for every buffer
\* and every width.
THEOREM PeekIsForesight == Spec => []PeekForesees
<1>1. Spec => []TypeOK
  BY StreamTypeCorrect
<1>2. Init => PeekInv
  BY DEF Init, PeekInv
<1>. QED BY <1>1, <1>2, PeekStep, PeekInvImplies, PTL DEF Spec

=============================================================================
