------------------------------ MODULE BitQueue ------------------------------
(***************************************************************************)
(* What a bit stream promises, independent of bytes and shift registers: a *)
(* queue of bits that is first written and then read.  Only whole bytes    *)
(* reach the reader.                                                       *)
(***************************************************************************)
EXTENDS Naturals, Sequences

VARIABLES
  writing,  \* the stream is still written
  queue,    \* the bits that were written and not yet read
  got       \* the bits that were read

vars == <<writing, queue, got>>

Bits == {0, 1}

Init == writing = TRUE /\ queue = <<>> /\ got = <<>>

Put(b) ==
  /\ writing
  /\ queue' = Append(queue, b)
  /\ UNCHANGED <<writing, got>>

\* The reader starts at the first bit.
Rewind ==
  /\ writing /\ writing' = FALSE
  /\ queue' = SubSeq(queue, 1, 8 * (Len(queue) \div 8))
  /\ UNCHANGED got

\* The next n bits, one or a byte, leave the queue.
Get(n) ==
  /\ ~writing /\ n <= Len(queue)
  /\ got' = got \o SubSeq(queue, 1, n)
  /\ queue' = SubSeq(queue, n + 1, Len(queue))
  /\ UNCHANGED writing

Next == (\E b \in Bits : Put(b)) \/ Rewind \/ (\E n \in {1, 8} : Get(n))

Spec == Init /\ [][Next]_vars

=============================================================================
