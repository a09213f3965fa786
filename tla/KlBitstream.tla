---------------------------- MODULE KlBitstream ----------------------------
(***************************************************************************)
(* The bit stream reader and writer (klbitstream_readwriter.h) under every *)
(* codec of the library.                                                   *)
(*                                                                         *)
(* A context is an 8-bit shift register in front of a byte buffer: written *)
(* bits are clocked in at the low end and stored when there are eight of   *)
(* them, read bits are clocked out at the high end.  A call that moves     *)
(* many bits is a loop over single bits: it sets todo, or want, and each   *)
(* round of its loop is a step.                                            *)
(*                                                                         *)
(* A byte is the tuple of its bits, the most significant one first.  The   *)
(* caller keeps to the buffer it provided and reads what was written.      *)
(***************************************************************************)
EXTENDS Naturals, Sequences

CONSTANTS
  Capacity,  \* bytes of the caller's buffer
  Words,     \* arguments of klbs_write_bits: <<bits, bitcount>>
  Counts     \* arguments of klbs_read_bits and klbs_peek_bits

ASSUME BitstreamAssumption ==
  /\ Capacity \in Nat \ {0}
  /\ Words \subseteq Nat \X (1 .. 64)
  /\ Counts \subseteq 1 .. 64

VARIABLES
  mode,    \* "write", "read", or "peek": inside klbs_peek_bits
  buf,     \* the buffer
  buflen,  \* its size in bytes
  ctx,     \* buflen_used, reg_used and reg of the context
  copy,    \* the struct copy of klbs_peek_bits
  todo,    \* bits the current writing call still has to write
  want,    \* how many bits the current reading call still has to read
  got,     \* the bits returned by the reading calls
  seen     \* the bits the current peek has read

vars == <<mode, buf, buflen, ctx, copy, todo, want, got, seen>>

Bit == {0, 1}
Byte == [1 .. 8 -> Bit]
Context == [buflen_used : Nat, reg_used : 0 .. 7, reg : Byte]

Zero == [k \in 1 .. 8 |-> 0]
Copies(b, n) == [k \in 1 .. n |-> b]

\* The bits klbs_write_bits passes on: bits >> i for i from n - 1 down to 0.
BitsOf(v, n) == [k \in 1 .. n |-> IF (v \div 2^(n - k)) % 2 = 1 THEN 1 ELSE 0]

\* The register shifted left by one, with b as its lowest bit.
Shift(reg, b) == [k \in 1 .. 8 |-> IF k = 8 THEN b ELSE reg[k + 1]]

\* memset in klbs_init.
Fresh == [buflen_used |-> 0, reg_used |-> 0, reg |-> Zero]

----------------------------------------------------------------------------
(* Writing *)

\* Bits between the start of the buffer and the writer.
Written == 8 * ctx.buflen_used + ctx.reg_used

Idle == todo = <<>> /\ want = 0

klbs_write_bits(w) ==
  /\ mode = "write" /\ Idle
  /\ Written + w[2] <= 8 * buflen
  /\ todo' = BitsOf(w[1], w[2])
  /\ UNCHANGED <<mode, buf, buflen, ctx, copy, want, got, seen>>

\* One bit goes into the register; a full register goes into the buffer.
klbs_write_bit ==
  /\ mode = "write" /\ todo # <<>>
  /\ LET reg == Shift(ctx.reg, Head(todo)) IN
     IF ctx.reg_used = 7
     THEN /\ buf' = [buf EXCEPT ![ctx.buflen_used] = reg]
          /\ ctx' = [buflen_used |-> ctx.buflen_used + 1, reg_used |-> 0, reg |-> reg]
     ELSE /\ ctx' = [buflen_used |-> ctx.buflen_used, reg_used |-> ctx.reg_used + 1,
                     reg |-> reg]
          /\ UNCHANGED buf
  /\ todo' = Tail(todo)
  /\ UNCHANGED <<mode, buflen, copy, want, got, seen>>

\* The byte that padding completes has room in the buffer.
Room == ctx.reg_used > 0 => ctx.buflen_used < buflen

\* Mutant: the loop tests its condition at the end.
StuffAtLeastOnce(b) ==
  /\ mode = "write" /\ Idle /\ Room
  /\ todo' = Copies(b, 8 - ctx.reg_used)
  /\ UNCHANGED <<mode, buf, buflen, ctx, copy, want, got, seen>>

\* The loop of klbs_write_byte_stuff runs until the register is empty.
klbs_write_byte_stuff(b) ==
  /\ mode = "write" /\ Idle /\ Room
  /\ todo' = Copies(b, (8 - ctx.reg_used) % 8)
  /\ UNCHANGED <<mode, buf, buflen, ctx, copy, want, got, seen>>

\* The loop of klbs_write_buffer_complete runs from reg_used to 8, both
\* included: the last zero stays behind in the register.
klbs_write_buffer_complete ==
  /\ mode = "write" /\ Idle /\ Room
  /\ todo' = IF ctx.reg_used > 0 THEN Copies(0, 9 - ctx.reg_used) ELSE <<>>
  /\ UNCHANGED <<mode, buf, buflen, ctx, copy, want, got, seen>>

----------------------------------------------------------------------------
(* Reading *)

\* klbs_read_set_buffer, on the bytes that klbs_get_byte_count says were written.
klbs_read_set_buffer ==
  /\ mode = "write" /\ Idle
  /\ mode' = "read" /\ ctx' = Fresh /\ buflen' = ctx.buflen_used
  /\ UNCHANGED <<buf, copy, todo, want, got, seen>>

\* The register of a reader, after it was filled if it was empty.
Filled(c) ==
  IF c.reg_used = 0
  THEN [buflen_used |-> c.buflen_used + 1, reg_used |-> 8, reg |-> buf[c.buflen_used]]
  ELSE c

\* klbs_read_bit: the bit it returns, and the context it leaves.
BitRead(c) == Filled(c).reg[1]
AfterBit(c) ==
  [buflen_used |-> Filled(c).buflen_used, reg_used |-> Filled(c).reg_used - 1,
   reg |-> Shift(Filled(c).reg, 0)]

\* klbs_read_byte_aligned: the byte comes straight from the buffer.
AfterByte(c) == [c EXCEPT !.buflen_used = @ + 1]

\* Mutant: the fast path is taken whatever is left in the register.
ByteAlignedAlways(c, n) == n = 8 /\ c.buflen_used < buflen

\* klbs_read_bits takes the fast path.
ByteAligned(c, n) == n = 8 /\ c.reg_used = 0

\* How many bits a reader has left.
Left(c) == 8 * (buflen - c.buflen_used) + c.reg_used

klbs_read_bits(n) ==
  /\ mode = "read" /\ Idle /\ n <= Left(ctx)
  /\ IF ByteAligned(ctx, n)
     THEN /\ ctx' = AfterByte(ctx) /\ got' = got \o buf[ctx.buflen_used]
          /\ UNCHANGED want
     ELSE want' = n /\ UNCHANGED <<ctx, got>>
  /\ UNCHANGED <<mode, buf, buflen, copy, todo, seen>>

klbs_read_bit ==
  /\ mode = "read" /\ want > 0
  /\ got' = Append(got, BitRead(ctx)) /\ ctx' = AfterBit(ctx)
  /\ want' = want - 1
  /\ UNCHANGED <<mode, buf, buflen, copy, todo, seen>>

\* The loop of klbs_read_byte_stuff runs until the register is empty.
klbs_read_byte_stuff ==
  /\ mode = "read" /\ Idle
  /\ want' = ctx.reg_used
  /\ UNCHANGED <<mode, buf, buflen, ctx, copy, todo, got, seen>>

klbs_peek_bits(n) ==
  /\ mode = "read" /\ Idle /\ n <= Left(ctx)
  /\ IF ByteAligned(ctx, n)
     THEN copy' = AfterByte(ctx) /\ seen' = buf[ctx.buflen_used] /\ UNCHANGED want
     ELSE copy' = ctx /\ want' = n /\ UNCHANGED seen
  /\ mode' = "peek"
  /\ UNCHANGED <<buf, buflen, ctx, todo, got>>

\* Mutant: the peek reads the caller's context.
PeekBitMoves ==
  /\ mode = "peek" /\ want > 0
  /\ seen' = Append(seen, BitRead(ctx)) /\ ctx' = AfterBit(ctx)
  /\ want' = want - 1
  /\ UNCHANGED <<mode, buf, buflen, copy, todo, got>>

\* klbs_read_bit on the copy.
PeekBit ==
  /\ mode = "peek" /\ want > 0
  /\ seen' = Append(seen, BitRead(copy)) /\ copy' = AfterBit(copy)
  /\ want' = want - 1
  /\ UNCHANGED <<mode, buf, buflen, ctx, todo, got>>

\* The copy goes out of scope.
PeekEnd ==
  /\ mode = "peek" /\ want = 0
  /\ mode' = "read" /\ copy' = Fresh /\ seen' = <<>>
  /\ UNCHANGED <<buf, buflen, ctx, todo, want, got>>

----------------------------------------------------------------------------

\* klbs_write_set_buffer; the caller's buffer may hold anything.
Init ==
  /\ mode = "write" /\ buflen = Capacity
  /\ buf \in {[n \in 0 .. Capacity - 1 |-> Copies(b, 8)] : b \in Bit}
  /\ ctx = Fresh /\ copy = Fresh
  /\ todo = <<>> /\ want = 0 /\ got = <<>> /\ seen = <<>>

Next ==
  \/ \E w \in Words : klbs_write_bits(w)
  \/ klbs_write_bit
  \/ \E b \in Bit : klbs_write_byte_stuff(b)
  \/ klbs_write_buffer_complete
  \/ klbs_read_set_buffer
  \/ \E n \in Counts : klbs_read_bits(n)
  \/ klbs_read_bit \/ klbs_read_byte_stuff
  \/ \E n \in Counts : klbs_peek_bits(n)
  \/ PeekBit \/ PeekEnd

Spec == Init /\ [][Next]_vars

----------------------------------------------------------------------------
(* Properties *)

\* The bits a reader has before it: the rest of its register, then the bytes.
Ahead(c) ==
  [k \in 1 .. Left(c) |->
     IF k <= c.reg_used THEN c.reg[k]
     ELSE buf[c.buflen_used + (k - 1 - c.reg_used) \div 8][((k - 1 - c.reg_used) % 8) + 1]]

\* The bits a writer has behind it: the bytes, then the low end of the register.
Behind ==
  [k \in 1 .. Written |->
     IF k <= 8 * ctx.buflen_used THEN buf[(k - 1) \div 8][((k - 1) % 8) + 1]
     ELSE ctx.reg[8 - ctx.reg_used + k - 8 * ctx.buflen_used]]

\* Types, and room: a writer is never more than the register ahead of its
\* buffer, a reading call never wants more than there is.
TypeOK ==
  /\ mode \in {"write", "read", "peek"}
  /\ buflen \in 0 .. Capacity /\ buf \in [0 .. Capacity - 1 -> Byte]
  /\ ctx \in Context /\ ctx.buflen_used <= Capacity
  /\ copy \in Context /\ copy.buflen_used <= Capacity
  /\ todo \in Seq(Bit) /\ want \in Nat /\ got \in Seq(Bit) /\ seen \in Seq(Bit)
  /\ mode = "write" => want = 0 /\ buflen = Capacity /\ Written + Len(todo) < 8 * buflen + 8
  /\ mode # "write" => todo = <<>> /\ ctx.buflen_used <= buflen
  /\ mode = "read" => want <= Left(ctx)
  /\ mode = "peek" => copy.buflen_used <= buflen /\ want <= Left(copy)

\* The byte stream behaves as a queue of bits: whatever the widths of writes and
\* reads, aligned or not, bits come out in the order they went in, none is lost,
\* and a peek takes none.
Queue == INSTANCE BitQueue WITH
  writing <- mode = "write",
  queue   <- IF mode = "write" THEN Behind ELSE Ahead(ctx),
  got     <- got
ImplementsQueue == Queue!Spec

\* "consecutive peek calls will always return the same content": what a peek
\* shows is what the next reads will return.
PeekForesees ==
  mode = "peek" =>
    Len(seen) <= Left(ctx) /\ seen = SubSeq(Ahead(ctx), 1, Len(seen))

=============================================================================
