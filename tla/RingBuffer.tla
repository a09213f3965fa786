----------------------------- MODULE RingBuffer -----------------------------
(***************************************************************************)
(* The byte ring of the tools (klringbuffer.c): it grows when a write does *)
(* not fit and returns to its first size when a read empties it.  A ring   *)
(* is a record of the members of KLRingBuffer that change; data is a       *)
(* function of the cell numbers from 0.  Bytes given to and taken from it  *)
(* are functions on 1 .. n, with n passed beside them as in C.             *)
(***************************************************************************)
EXTENDS Integers

CONSTANTS
  SizeInitial,  \* size of a new ring (size_initial)
  SizeMax,      \* size it may grow to (size_max)
  GrowFactor,   \* a write of n bytes that does not fit adds n * GrowFactor cells
  Junk          \* what fresh memory may hold

ASSUME RingAssumption ==
  /\ SizeInitial \in Nat \ {0} /\ SizeMax \in Nat /\ SizeInitial <= SizeMax
  /\ GrowFactor \in Nat \ {0} /\ Junk # {}

rb_new == {[data |-> [c \in 0 .. SizeInitial - 1 |-> j], size |-> SizeInitial,
            head |-> 0, fill |-> 0] : j \in Junk}

rb_used(r)   == r.fill
rb_remain(r) == r.size - r.fill

\* What a reader is going to get.
Contents(r) == [k \in 1 .. r.fill |-> r.data[(r.head + k - 1) % r.size]]

\* The contents run over the last cell to the first.
Wrapped(r) == r.head + r.fill > r.size

\* rb_grow: realloc keeps every cell where it is, those behind the wrap too.  (Its
\* result is not tested: a realloc that fails, which is left out here, makes the
\* memcpy behind it write through a null pointer.)
rb_grow(r, increment) ==
  IF r.size + increment > SizeMax THEN {}
  ELSE {[r EXCEPT !.data = [c \in 0 .. r.size + increment - 1 |-> IF c < r.size THEN r.data[c] ELSE j],
                  !.size = r.size + increment] : j \in Junk}

\* A ring the write of n bytes is made to: none if rb_write returns 0.
Roomy(r, n) == IF n > rb_remain(r) THEN rb_grow(r, n * GrowFactor) ELSE {r}

\* Mutant: the second memcpy is left out.
PutOnce(r, from, n) ==
  LET tail == (r.head + r.fill) % r.size
  IN [r EXCEPT !.data = [c \in 0 .. r.size - 1 |->
                           IF c >= tail /\ c - tail < n THEN from[c - tail + 1] ELSE r.data[c]],
               !.fill = r.fill + n]

\* The copy of rb_write: up to the last cell, then on from the first.  (A write of
\* the whole size to an empty ring takes the branch without wrap, whatever head
\* is; the extractor writes less than that.)
Put(r, from, n) ==
  LET tail == (r.head + r.fill) % r.size
  IN [r EXCEPT !.data = [c \in 0 .. r.size - 1 |->
                           LET k == IF c >= tail THEN c - tail ELSE c - tail + r.size
                           IN  IF k < n THEN from[k + 1] ELSE r.data[c]],
               !.fill = r.fill + n]

rb_write(r, from, n) == {Put(g, from, n) : g \in Roomy(r, n)}

\* rb_peek: the next n bytes, of those that there are.
Available(r, n) == IF n > rb_used(r) THEN rb_used(r) ELSE n
rb_peek(r, n) == [k \in 1 .. Available(r, n) |-> r.data[(r.head + k - 1) % r.size]]

rb_shrink_reset(r) ==
  [data |-> [c \in 0 .. SizeInitial - 1 |-> r.data[c]], size |-> SizeInitial, head |-> 0, fill |-> 0]

\* rb_read: the ring behind rb_peek's bytes.
rb_read(r, n) ==
  LET m == Available(r, n)
      s == [data |-> r.data, size |-> r.size, head |-> (r.head + m) % r.size, fill |-> r.fill - m]
  IN  IF m > 0 /\ s.fill = 0 /\ s.size > SizeInitial THEN rb_shrink_reset(s) ELSE s
=============================================================================
