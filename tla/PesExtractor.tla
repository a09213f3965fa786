---------------------------- MODULE PesExtractor ----------------------------
(***************************************************************************)
(* PES packets out of transport packets (pes_extractor.c).  The payload of *)
(* every transport packet of the PID goes into the ring; then a loop looks *)
(* for a start code, waits for as many bytes as the packet says it has,    *)
(* and hands them to the callback.  One step is one call of the ring.      *)
(*                                                                         *)
(* The continuity counter is not looked at: after a loss the bytes of two  *)
(* PES packets run into each other.                                        *)
(***************************************************************************)
EXTENDS RingBuffer, Sequences

CONSTANTS
  PacketSize,  \* bytes of a transport packet
  Pid          \* the PID that is extracted

ASSUME ExtractorAssumption ==
  PacketSize \in Nat /\ PacketSize >= 5 /\ PacketSize - 4 < SizeInitial

VARIABLES
  rb,        \* pe->rb
  has_sync,  \* pe->has_sync: the start code has been read, the length has not
  at,        \* where pe_processPacket is: idle, loop or search
  b,         \* the last four bytes read by the search
  i,         \* the counter of the search
  queue,     \* history: the bytes that went into the ring and have not come out
  torn       \* history: the ring was wrapped when it grew, and not empty since

extractor == <<rb, has_sync, at, b, i, queue, torn>>

ExtractorInit ==
  /\ rb \in rb_new /\ has_sync = FALSE /\ at = "idle"
  /\ b = <<0, 0, 0, 0>> /\ i = 0 /\ queue = <<>> /\ torn = FALSE

StartCode == <<0, 0, 1, 189>>

\* A transport packet has an adaptation field, a payload, or both.  The field
\* takes a byte for its length and as many as that; the faults considered damage no
\* byte, so it leaves the packet no less than nothing.
Offset(ts) == IF ts.adaption \in {2, 3} THEN 5 + ts.adaptation_length ELSE 4
PayloadLength(ts) == PacketSize - Offset(ts)

\* pe_push, for one packet: the PID is compared and the payload written.
pe_push(ts) ==
  LET n == PayloadLength(ts)
  IN /\ at = "idle"
     /\ IF ts.pid # Pid \/ Roomy(rb, n) = {} THEN UNCHANGED extractor
        ELSE /\ rb' \in rb_write(rb, ts.payload, n)
             /\ queue' = [k \in 1 .. rb.fill + n |->
                            IF k <= rb.fill THEN queue[k] ELSE ts.payload[k - rb.fill]]
             /\ torn' = (torn \/ (Wrapped(rb) /\ n > rb_remain(rb)))
             /\ at' = "loop"
             /\ UNCHANGED <<has_sync, b, i>>

\* A read of n bytes, as many as there are.
Take(n) ==
  /\ rb' = rb_read(rb, n)
  /\ queue' = [k \in 1 .. rb.fill - n |-> queue[k + n]]
  /\ torn' = (torn /\ rb.fill > n)

\* The search starts with the next four bytes.
SearchBegin ==
  /\ at = "loop" /\ ~has_sync /\ rb_used(rb) > 16
  /\ Take(4) /\ b' = rb_peek(rb, 4) /\ i' = 0 /\ at' = "search"
  /\ UNCHANGED has_sync

SearchFound ==
  /\ at = "search" /\ i < rb_used(rb) /\ b = StartCode
  /\ has_sync' = TRUE /\ at' = "loop"
  /\ UNCHANGED <<rb, b, i, queue, torn>>

SearchNext ==
  /\ at = "search" /\ i < rb_used(rb) /\ b # StartCode
  /\ Take(1) /\ b' = Tail(b) \o rb_peek(rb, 1) /\ i' = i + 1
  /\ UNCHANGED <<has_sync, at>>

\* The bound of the search falls while its counter rises, so it ends half way
\* through the ring.  The bytes it has in hand then are lost.
SearchEnd ==
  /\ at = "search" /\ i >= rb_used(rb)
  /\ at' = "idle"
  /\ UNCHANGED <<rb, has_sync, b, i, queue, torn>>

PesLength == LET l == rb_peek(rb, 2) IN 256 * l[1] + l[2]

\* The ring holds the length and as many bytes behind it.
Whole == rb_used(rb) >= 2 /\ PesLength \in 0 .. rb_used(rb) - 2

\* Neither in sync nor enough bytes to search, or less of a packet than it has.
NeedMore ==
  /\ at = "loop"
  /\ IF has_sync THEN ~Whole ELSE rb_used(rb) <= 16
  /\ at' = "idle"
  /\ UNCHANGED <<rb, has_sync, b, i, queue, torn>>

Complete == at = "loop" /\ has_sync /\ Whole

\* What the callback is given.
Message == StartCode \o rb_peek(rb, PesLength + 2)

Dequeue ==
  /\ Complete
  /\ Take(PesLength + 2) /\ has_sync' = FALSE
  /\ UNCHANGED <<at, b, i>>

\* No memory for the message: it stays in the ring, without its start code.
DequeueFails ==
  /\ Complete
  /\ has_sync' = FALSE
  /\ UNCHANGED <<rb, at, b, i, queue, torn>>

\* The ring is a queue of bytes, through wraps, growth and return to its first
\* size, until it has to grow while its contents are wrapped: the part behind the
\* wrap stays at the front of the larger array (rb_grow), where no reader looks.
RingIsQueue ==
  /\ DOMAIN queue = 1 .. rb.fill
  /\ ~torn => queue = Contents(rb)
=============================================================================
