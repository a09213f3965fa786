--------------------------- MODULE RingBufferProofs ---------------------------
(***************************************************************************)
(* What a write, a growth and a read do to the contents of the ring, for   *)
(* any size, growth factor and bytes.                                      *)
(***************************************************************************)
EXTENDS RingBuffer, TLAPS

\* The members of a ring agree with each other.
IsRing(r, data, size, head, fill) ==
  /\ r = [data |-> data, size |-> size, head |-> head, fill |-> fill]
  /\ data = [c \in 0 .. size - 1 |-> data[c]]
  /\ head < size /\ fill <= size /\ SizeInitial <= size

RingOK(r) ==
  \E size \in Nat \ {0}, head \in Nat, fill \in Nat : \E data : IsRing(r, data, size, head, fill)

\* A position less than two turns ahead is brought back by one turn at most.
LEMMA OneTurn ==
  ASSUME NEW size \in Nat \ {0}
  PROVE  \A x \in Nat : x < 2 * size => x % size = IF x < size THEN x ELSE x - size
<1> SUFFICES ASSUME NEW x \in Nat, x < 2 * size
             PROVE  x % size = IF x < size THEN x ELSE x - size
  OBVIOUS
<1>1. CASE x < size
  BY <1>1
<1>2. CASE x >= size
  <2>1. PICK y \in 0 .. size - 1 : x = y + size
    BY <1>2
  <2>2. y % size = y
    OBVIOUS
  <2>3. (y + size) % size = y
    BY <2>2
  <2> QED
    BY <1>2, <2>1, <2>3
<1> QED
  BY <1>1, <1>2

\* A new ring is a ring, and empty.
LEMMA NewRing ==
  ASSUME NEW r \in rb_new
  PROVE  RingOK(r) /\ r.fill = 0
<1>1. PICK j \in Junk : r = [data |-> [c \in 0 .. SizeInitial - 1 |-> j], size |-> SizeInitial, head |-> 0, fill |-> 0]
  BY DEF rb_new
<1>2. IsRing(r, [c \in 0 .. SizeInitial - 1 |-> j], SizeInitial, 0, 0)
  BY <1>1, RingAssumption DEF IsRing
<1> QED
  BY <1>1, <1>2, RingAssumption DEF RingOK

\* A ring with room has it: it is the old one, or the old one with cells added.
LEMMA RoomyRing ==
  ASSUME NEW r, NEW data, NEW size \in Nat \ {0}, NEW head \in Nat, NEW fill \in Nat,
         IsRing(r, data, size, head, fill), NEW n \in Nat, NEW g \in Roomy(r, n)
  PROVE  \E wide \in Nat \ {0} : \E cells :
           /\ IsRing(g, cells, wide, head, fill) /\ n <= wide - fill /\ size <= wide
           /\ n <= size - fill => g = r
           /\ \A c \in 0 .. size - 1 : cells[c] = data[c]
<1>1. r.size = size /\ r.head = head /\ r.fill = fill /\ r.data = data /\ rb_remain(r) = size - fill
  BY DEF IsRing, rb_remain
<1>2. CASE n <= size - fill
  <2>1. g = r
    BY <1>1, <1>2 DEF Roomy
  <2> QED
    BY <1>2, <2>1
<1>3. CASE ~(n <= size - fill)
  <2> DEFINE m == n * GrowFactor
             wide == size + m
             cells(j) == [c \in 0 .. wide - 1 |-> IF c < size THEN data[c] ELSE j]
  <2>1. m \in Nat /\ m >= n
    <3>1. PICK q \in Nat : GrowFactor = q + 1
      BY RingAssumption
    <3>2. m = n * q + n /\ n * q \in Nat
      BY <3>1
    <3> QED
      BY <3>2
  <2> HIDE DEF m
  <2>2. g \in rb_grow(r, m)
    BY <1>1, <1>3 DEF Roomy, m
  <2>3. PICK j \in Junk :
          g = [r EXCEPT !.data = [c \in 0 .. r.size + m - 1 |-> IF c < r.size THEN r.data[c] ELSE j],
                        !.size = r.size + m]
    BY <2>2, Zenon DEF rb_grow
  <2>4. g = [data |-> cells(j), size |-> wide, head |-> head, fill |-> fill]
    <3>1. cells(j) = [c \in 0 .. r.size + m - 1 |-> IF c < r.size THEN r.data[c] ELSE j] /\ wide = r.size + m
      BY <1>1, <2>1
    <3>2. g = [r EXCEPT !.data = cells(j), !.size = wide]
      BY <2>3, <3>1
    <3> HIDE DEF cells, wide
    <3> QED
      BY <3>2 DEF IsRing
  <2>5. wide \in Nat \ {0} /\ size <= wide /\ n <= wide - fill /\ head < wide /\ fill <= wide /\ SizeInitial <= wide
    BY <2>1, RingAssumption DEF IsRing
  <2>6. \A c \in 0 .. size - 1 : cells(j)[c] = data[c]
    BY <2>5
  <2>7. cells(j) = [c \in 0 .. wide - 1 |-> cells(j)[c]]
    OBVIOUS
  <2> HIDE DEF wide, cells
  <2>8. IsRing(g, cells(j), wide, head, fill)
    BY <2>4, <2>5, <2>7 DEF IsRing
  <2> QED
    BY <1>3, <2>5, <2>6, <2>8
<1> QED
  BY <1>2, <1>3

\* A write puts its bytes behind the ones that are there and touches none of them.
LEMMA PutAppends ==
  ASSUME NEW r, RingOK(r), NEW n \in Nat, n <= r.size - r.fill, NEW from
  PROVE  /\ RingOK(Put(r, from, n)) /\ Put(r, from, n).fill = r.fill + n
         /\ Contents(Put(r, from, n)) =
              [k \in 1 .. r.fill + n |-> IF k <= r.fill THEN Contents(r)[k] ELSE from[k - r.fill]]
<1>a. PICK size \in Nat \ {0}, head \in Nat, fill \in Nat : \E data : IsRing(r, data, size, head, fill)
  BY DEF RingOK
<1>b. PICK data : IsRing(r, data, size, head, fill)
  BY <1>a
<1> DEFINE p == Put(r, from, n)
           tail == (head + fill) % size
           place(c) == IF c >= tail THEN c - tail ELSE c - tail + size
           cells == [c \in 0 .. size - 1 |-> IF place(c) < n THEN from[place(c) + 1] ELSE data[c]]
<1>1. head < size /\ fill + n <= size
  <2>1. r.size = size /\ r.fill = fill
    BY <1>b DEF IsRing
  <2> QED
    BY <1>b, <2>1 DEF IsRing
<1>t. \A x \in Nat : x < 2 * size => x % size = IF x < size THEN x ELSE x - size
  BY OneTurn
<1>2. tail \in 0 .. size - 1 /\ tail = IF head + fill < size THEN head + fill ELSE head + fill - size
  <2>1. head + fill \in Nat /\ head + fill < 2 * size
    BY <1>1
  <2>2. tail = IF head + fill < size THEN head + fill ELSE head + fill - size
    BY <2>1, <1>t
  <2> QED
    BY <1>1, <2>2
<1>3. p = [data |-> cells, size |-> size, head |-> head, fill |-> fill + n]
  <2>1. r.size = size /\ r.head = head /\ r.fill = fill /\ r.data = data
    BY <1>b DEF IsRing
  <2>2. p = [r EXCEPT !.data = cells, !.fill = fill + n]
    BY <2>1 DEF Put
  <2> HIDE DEF cells, p
  <2> QED
    BY <1>b, <2>2 DEF IsRing
<1>4. cells = [c \in 0 .. size - 1 |-> cells[c]]
  OBVIOUS
<1>5. ASSUME NEW k \in 1 .. fill + n
      PROVE  cells[(head + k - 1) % size] = IF k <= fill THEN Contents(r)[k] ELSE from[k - fill]
  <2> DEFINE c == (head + k - 1) % size
  <2>1. c \in 0 .. size - 1 /\ c = IF head + k - 1 < size THEN head + k - 1 ELSE head + k - 1 - size
    <3>1. head + k - 1 \in Nat /\ head + k - 1 < 2 * size
      BY <1>1
    <3>2. c = IF head + k - 1 < size THEN head + k - 1 ELSE head + k - 1 - size
      BY <3>1, <1>t
    <3> QED
      BY <1>1, <3>2
  <2>2. cells[c] = IF place(c) < n THEN from[place(c) + 1] ELSE data[c]
    BY <2>1
  <2>3. k <= fill => Contents(r)[k] = data[c]
    BY <1>b DEF Contents, IsRing
  <2> HIDE DEF tail, c, cells, p
  <2>4. CASE k <= fill
    <3>1. ~(place(c) < n)
      BY <1>1, <1>2, <2>1, <2>4
    <3> QED
      BY <2>2, <2>3, <2>4, <3>1 DEF c
  <2>5. CASE k > fill
    <3>1. place(c) < n /\ place(c) + 1 = k - fill
      BY <1>1, <1>2, <2>1, <2>5
    <3> HIDE DEF place
    <3> QED
      BY <2>2, <2>5, <3>1, <1>1 DEF c
  <2> QED
    BY <2>4, <2>5
<1> HIDE DEF cells, place, tail, p
<1>6. IsRing(p, cells, size, head, fill + n)
  BY <1>1, <1>3, <1>4, <1>b DEF IsRing
<1>7. Contents(p) = [k \in 1 .. fill + n |-> IF k <= fill THEN Contents(r)[k] ELSE from[k - fill]]
  BY <1>3, <1>5 DEF Contents
<1>8. RingOK(p) /\ p.fill = fill + n
  <2>1. fill + n \in Nat
    OBVIOUS
  <2> QED
    BY <1>3, <1>6, <2>1 DEF RingOK
<1>9. r.fill = fill
  BY <1>b DEF IsRing
<1> QED
  BY <1>7, <1>8, <1>9 DEF p

\* A growth keeps the contents of a ring they do not run over the end of.
LEMMA GrowthKeeps ==
  ASSUME NEW r, NEW data, NEW size \in Nat \ {0}, NEW head \in Nat, NEW fill \in Nat,
         IsRing(r, data, size, head, fill),
         NEW g, NEW cells, NEW wide \in Nat \ {0}, IsRing(g, cells, wide, head, fill), size <= wide,
         \A c \in 0 .. size - 1 : cells[c] = data[c], head + fill <= size
  PROVE  Contents(g) = Contents(r)
<1>1. ASSUME NEW k \in 1 .. fill
      PROVE  cells[(head + k - 1) % wide] = data[(head + k - 1) % size]
  <2>1. head + k - 1 < size /\ head + k - 1 < wide /\ head + k - 1 \in Nat
    OBVIOUS
  <2>2. (head + k - 1) % wide = head + k - 1 /\ (head + k - 1) % size = head + k - 1
    BY <2>1
  <2> QED
    BY <2>1, <2>2
<1> QED
  BY <1>1 DEF Contents, IsRing

\* A write that does not make a wrapped ring grow appends its bytes.
LEMMA WriteAppends ==
  ASSUME NEW r, RingOK(r), NEW n \in Nat, NEW from, NEW w \in rb_write(r, from, n)
  PROVE  /\ RingOK(w) /\ r.fill \in Nat /\ w.fill = r.fill + n
         /\ ~(Wrapped(r) /\ n > rb_remain(r)) =>
              Contents(w) = [k \in 1 .. r.fill + n |-> IF k <= r.fill THEN Contents(r)[k] ELSE from[k - r.fill]]
<1>1. PICK size \in Nat \ {0}, head \in Nat, fill \in Nat : \E data : IsRing(r, data, size, head, fill)
  BY DEF RingOK
<1>2. PICK data : IsRing(r, data, size, head, fill)
  BY <1>1
<1>3. PICK g \in Roomy(r, n) : w = Put(g, from, n)
  BY DEF rb_write
<1>4. PICK wide \in Nat \ {0} : \E cells :
        /\ IsRing(g, cells, wide, head, fill) /\ n <= wide - fill /\ size <= wide
        /\ n <= size - fill => g = r
        /\ \A c \in 0 .. size - 1 : cells[c] = data[c]
  BY <1>2, RoomyRing
<1>5. PICK cells :
        /\ IsRing(g, cells, wide, head, fill) /\ n <= wide - fill /\ size <= wide
        /\ n <= size - fill => g = r
        /\ \A c \in 0 .. size - 1 : cells[c] = data[c]
  BY <1>4
<1>6. /\ RingOK(w) /\ w.fill = fill + n
      /\ Contents(w) = [k \in 1 .. fill + n |-> IF k <= fill THEN Contents(g)[k] ELSE from[k - fill]]
  <2>1. RingOK(g) /\ g.fill = fill /\ n <= g.size - g.fill
    BY <1>5 DEF RingOK, IsRing
  <2>2. /\ RingOK(Put(g, from, n)) /\ Put(g, from, n).fill = fill + n
        /\ Contents(Put(g, from, n)) = [k \in 1 .. fill + n |-> IF k <= fill THEN Contents(g)[k] ELSE from[k - fill]]
    BY <2>1, PutAppends
  <2> QED
    BY <1>3, <2>2
<1>7. r.fill = fill /\ r.head = head /\ r.size = size
  BY <1>2 DEF IsRing
<1>8. ~(Wrapped(r) /\ n > rb_remain(r)) => Contents(g) = Contents(r)
  <2>1. CASE n <= size - fill
    BY <1>5, <2>1
  <2>2. CASE head + fill <= size
    BY <1>2, <1>5, <2>2, GrowthKeeps
  <2> QED
    BY <1>7, <2>1, <2>2 DEF Wrapped, rb_remain
<1> QED
  BY <1>6, <1>7, <1>8

\* A read takes bytes off the front, whether the ring returns to its first size or not.
LEMMA ReadTakes ==
  ASSUME NEW r, RingOK(r), NEW n \in 0 .. r.fill
  PROVE  /\ RingOK(rb_read(r, n)) /\ rb_read(r, n).fill = r.fill - n
         /\ Contents(rb_read(r, n)) = [k \in 1 .. r.fill - n |-> Contents(r)[k + n]]
<1>1. PICK size \in Nat \ {0}, head \in Nat, fill \in Nat : \E data : IsRing(r, data, size, head, fill)
  BY DEF RingOK
<1>2. PICK data : IsRing(r, data, size, head, fill)
  BY <1>1
<1>3. /\ r = [data |-> data, size |-> size, head |-> head, fill |-> fill]
      /\ data = [c \in 0 .. size - 1 |-> data[c]]
      /\ head < size /\ fill <= size /\ SizeInitial <= size
  BY <1>2 DEF IsRing
<1>4. n \in 0 .. fill /\ r.fill = fill
  BY <1>3
<1>h. PICK h \in Nat : h = (head + n) % size
  BY <1>4
<1> DEFINE s == [data |-> data, size |-> size, head |-> h, fill |-> fill - n]
<1>5. rb_read(r, n) = IF n > 0 /\ s.fill = 0 /\ s.size > SizeInitial THEN rb_shrink_reset(s) ELSE s
  <2>1. Available(r, n) = n
    BY <1>4 DEF Available, rb_used
  <2>2. r.size = size /\ r.head = head
    BY <1>3
  <2>3. [data |-> r.data, size |-> r.size, head |-> (r.head + n) % r.size, fill |-> r.fill - n] = s
    BY <1>3, <1>4, <1>h, <2>2
  <2> HIDE DEF s
  <2> QED
    BY <2>1, <2>3 DEF rb_read
<1>t. \A x \in Nat : x < 2 * size => x % size = IF x < size THEN x ELSE x - size
  BY OneTurn
<1>6. h \in 0 .. size - 1 /\ h = IF head + n < size THEN head + n ELSE head + n - size
  <2>1. head + n \in Nat /\ head + n < 2 * size
    BY <1>3, <1>4
  <2>2. h = IF head + n < size THEN head + n ELSE head + n - size
    BY <2>1, <1>t, <1>h
  <2> QED
    BY <1>3, <1>4, <2>2
<1>7. IsRing(s, data, size, h, fill - n)
  BY <1>3, <1>4, <1>6 DEF IsRing
<1>8. ASSUME NEW k \in 1 .. fill - n
      PROVE  data[(h + k - 1) % size] = Contents(r)[k + n]
  <2>1. Contents(r)[k + n] = data[(head + k + n - 1) % size]
    <3>1. k + n \in 1 .. fill /\ head + (k + n) - 1 = head + k + n - 1
      BY <1>4
    <3> QED
      BY <1>3, <3>1 DEF Contents
  <2>2. (h + k - 1) % size = IF h + k - 1 < size THEN h + k - 1 ELSE h + k - 1 - size
    <3>0. h + k - 1 \in Nat /\ h + k - 1 < 2 * size
      BY <1>3, <1>4, <1>6, SMTT(30)
    <3>1. PICK x \in Nat : x = h + k - 1 /\ x < 2 * size
      BY <3>0
    <3>2. x % size = IF x < size THEN x ELSE x - size
      BY <3>1, <1>t
    <3> QED
      BY <3>1, <3>2
  <2>3. (head + k + n - 1) % size =
          IF head + k + n - 1 < size THEN head + k + n - 1 ELSE head + k + n - 1 - size
    <3>1. PICK x \in Nat : x = head + k + n - 1 /\ x < 2 * size
      BY <1>3, <1>4
    <3>2. x % size = IF x < size THEN x ELSE x - size
      BY <3>1, <1>t
    <3> QED
      BY <3>1, <3>2
  <2>4. (h + k - 1) % size = (head + k + n - 1) % size
    <3>1. (IF h + k - 1 < size THEN h + k - 1 ELSE h + k - 1 - size)
            = IF head + k + n - 1 < size THEN head + k + n - 1 ELSE head + k + n - 1 - size
      BY <1>3, <1>4, <1>6, SMTT(40)
    <3> QED
      BY <2>2, <2>3, <3>1
  <2> QED
    BY <2>1, <2>4
<1>9. Contents(s) = [k \in 1 .. fill - n |-> Contents(r)[k + n]]
  BY <1>8 DEF Contents
<1>10. CASE rb_read(r, n) = s
  <2>1. RingOK(s)
    <3>1. h \in Nat /\ fill - n \in Nat
      BY <1>4, <1>6
    <3> QED
      BY <1>7, <3>1 DEF RingOK
  <2> QED
    BY <1>4, <1>9, <1>10, <2>1
<1>11. CASE s.fill = 0 /\ rb_read(r, n) = rb_shrink_reset(s)
  <2>1. fill = n
    BY <1>4, <1>11
  <2> DEFINE z == rb_shrink_reset(s)
  <2>2. IsRing(z, [c \in 0 .. SizeInitial - 1 |-> data[c]], SizeInitial, 0, 0)
    BY RingAssumption DEF IsRing, rb_shrink_reset
  <2>3. RingOK(z) /\ z.fill = 0
    <3>1. RingOK(z)
      BY <2>2, RingAssumption DEF RingOK
    <3> QED
      BY <2>2, <3>1 DEF IsRing
  <2>4. Contents(z) = [k \in 1 .. fill - n |-> Contents(r)[k + n]]
    BY <1>4, <2>1, <2>3 DEF Contents
  <2> QED
    BY <1>4, <1>11, <2>1, <2>3, <2>4
<1> QED
  BY <1>5, <1>10, <1>11
=============================================================================
