-------------------------- MODULE VancLinesProofs --------------------------
(***************************************************************************)
(* Proofs about VancLines: for any number of lines, packets, offsets and   *)
(* widths, packets are packed without overlap or gap, the buffer handed to *)
(* the caller has no hole, and the line set has one slot per line number.  *)
(***************************************************************************)
EXTENDS VancLines, TLAPS, SequenceTheorems

(* The inductive invariant: what is known in each loop of the generator.   *)

\* The generator works on an entry of an existing line, and has no buffer
\* before it allocates one.
CursorInv ==
  /\ pc = "pack" => out = Unset
  /\ pc \in {"pack", "copy"} => cur \in 1 .. Len(lines)
  /\ pc \in {"pack", "copy"} => i \in 1 .. Len(Entries) + 1

\* While it copies, the whole line is packed and each sample that belongs to
\* an entry already copied is written.
CopyInv ==
  pc = "copy" =>
    /\ Packed(Len(Entries))
    /\ out.kind = "buffer" /\ Len(out.pixels) = used
    /\ \A j \in 1 .. i - 1 : \A p \in 1 .. used :
         Entries[j].h_offset < p /\ p <= End(Entries[j]) => out.pixels[p] # Hole

LinesInv == TypeOK /\ CursorInv /\ PackedPrefix /\ CopyInv /\ NoHoles

----------------------------------------------------------------------------

\* Sorting a line permutes its packets: the result is a sequence of packets of
\* the same length.
LEMMA SortsType ==
  ASSUME NEW s \in Seq(Entry), NEW r \in Sorts(s)
  PROVE  r \in Seq(Entry) /\ Len(r) = Len(s)
<1>1. PICK q \in [1 .. Len(s) -> 1 .. Len(s)] : r = [j \in 1 .. Len(s) |-> s[q[j]]]
  BY DEF Sorts
<1>2. \A j \in 1 .. Len(s) : s[q[j]] \in Entry
  BY ElementOfSeq
<1>3. r \in [1 .. Len(s) -> Entry]
  BY <1>1, <1>2
<1>4. Len(s) \in Nat
  BY LenProperties
<1> QED
  BY <1>3, <1>4

\* A packet put in its place is a packet, starts at n, and ends on the line.
LEMMA PlaceType ==
  ASSUME NEW e \in Entry, NEW n \in Nat, n <= width, width \in Nat
  PROVE  /\ Place(e, n) \in Entry
         /\ Place(e, n).h_offset = n
         /\ n + Place(e, n).pixel_width <= width
<1> DEFINE dropped == (e.illegal /\ e.pixel_width > 3) \/ n + e.pixel_width > width
           w == IF dropped THEN 0 ELSE e.pixel_width
<1>1. e.pixel_width \in Nat
  BY DEF Entry
<1>2. w \in Nat /\ n + w <= width
  <2>1. CASE dropped
    BY <2>1
  <2>2. CASE ~dropped
    <3>1. ~(n + e.pixel_width > width)
      BY <2>2
    <3>2. w = e.pixel_width
      BY <2>2
    <3> QED
      BY <3>1, <3>2, <1>1
  <2> QED
    BY <2>1, <2>2
<1>3. Place(e, n) = [e EXCEPT !.h_offset = n, !.pixel_width = w]
  BY DEF Place
<1> HIDE DEF w
<1> QED
  BY <1>2, <1>3 DEF Entry

\* A line of the set is a record with a sequence of packets.
LEMMA LineType ==
  ASSUME lines \in Seq(Line), NEW l \in 1 .. Len(lines)
  PROVE  /\ lines[l] \in Line
         /\ lines[l].entries \in Seq(Entry)
         /\ Len(lines[l].entries) \in Nat
<1>1. lines[l] \in Line
  BY ElementOfSeq
<1>2. lines[l].entries \in Seq(Entry)
  BY <1>1 DEF Line
<1> QED
  BY <1>1, <1>2, LenProperties

\* Replacing the packets of a line keeps a line set, its length and every
\* line number.
LEMMA ReplaceEntries ==
  ASSUME lines \in Seq(Line), NEW l \in 1 .. Len(lines), NEW s \in Seq(Entry)
  PROVE  LET new == [lines EXCEPT ![l].entries = s] IN
           /\ new \in Seq(Line) /\ Len(new) = Len(lines)
           /\ new[l].entries = s
           /\ \A m \in 1 .. Len(lines) : new[m].number = lines[m].number
           /\ \A m \in 1 .. Len(lines) : m # l => new[m] = lines[m]
<1> DEFINE r == [lines[l] EXCEPT !.entries = s]
           new == [lines EXCEPT ![l] = r]
<1>1. lines[l] \in Line
  BY LineType
<1>2. r \in Line /\ r.number = lines[l].number /\ r.entries = s
  BY <1>1 DEF Line
<1>3. new \in Seq(Line) /\ Len(new) = Len(lines)
  BY <1>2, ExceptSeq
<1>4. new[l] = r /\ \A m \in 1 .. Len(lines) : m # l => new[m] = lines[m]
  BY LenProperties
<1>5. [lines EXCEPT ![l].entries = s] = new
  OBVIOUS
<1> HIDE DEF r, new
<1> QED
  BY <1>2, <1>3, <1>4, <1>5

\* What GeneratePack does to the line it works on: entry i is replaced by its
\* placed form, every other entry stays.
LEMMA PackStep ==
  ASSUME LinesInv, GeneratePack
  PROVE  LET e == Place(Entries[i], used) IN
           /\ lines' \in Seq(Line) /\ Len(lines') = Len(lines)
           /\ Entries' \in Seq(Entry) /\ Len(Entries') = Len(Entries)
           /\ i \in 1 .. Len(Entries)
           /\ Entries'[i] = e
           /\ \A j \in 1 .. Len(Entries) : j # i => Entries'[j] = Entries[j]
           /\ e \in Entry /\ e.h_offset = used /\ End(e) = used'
           /\ used' <= width /\ used' \in Nat
<1> DEFINE e == Place(Entries[i], used)
           s == [Entries EXCEPT ![i] = e]
<1>1. cur \in 1 .. Len(lines) /\ i \in 1 .. Len(Entries) + 1 /\ i <= Len(Entries)
  BY DEF LinesInv, CursorInv, GeneratePack
<1>2. lines \in Seq(Line) /\ used \in Nat /\ width \in Nat /\ used <= width
  BY DEF LinesInv, TypeOK, PackedPrefix, Packed, GeneratePack
<1>3. Entries \in Seq(Entry) /\ Len(Entries) \in Nat
  BY <1>1, <1>2, LineType DEF Entries
<1>4. i \in 1 .. Len(Entries)
  BY <1>1, <1>3
<1>5. Entries[i] \in Entry
  BY <1>3, <1>4, ElementOfSeq
<1>6. e \in Entry /\ e.h_offset = used /\ used + e.pixel_width <= width
  BY <1>2, <1>5, PlaceType
<1>7. s \in Seq(Entry) /\ Len(s) = Len(Entries)
  BY <1>3, <1>4, <1>6, ExceptSeq
<1>8. s[i] = e /\ \A j \in 1 .. Len(Entries) : j # i => s[j] = Entries[j]
  BY <1>3, <1>4, LenProperties
<1>9. lines' = [lines EXCEPT ![cur].entries = s] /\ cur' = cur /\ used' = used + e.pixel_width
  BY DEF GeneratePack, Entries
<1>10. e.pixel_width \in Nat
  BY <1>6 DEF Entry
<1> HIDE DEF e, s
<1>11. /\ lines' \in Seq(Line) /\ Len(lines') = Len(lines)
       /\ lines'[cur].entries = s
  BY <1>1, <1>2, <1>7, <1>9, ReplaceEntries
<1>12. Entries' = s
  BY <1>9, <1>11 DEF Entries
<1>13. End(e) = used'
  BY <1>6, <1>9 DEF End
<1> QED
  BY <1>2, <1>4, <1>6, <1>7, <1>8, <1>9, <1>10, <1>11, <1>12, <1>13 DEF e

\* What a sort by GenerateBegin leaves: a line set of the same shape.
LEMMA BeginStep ==
  ASSUME LinesInv, GenerateBegin
  PROVE  /\ lines' \in Seq(Line) /\ cur' \in 1 .. Len(lines')
         /\ Entries' \in Seq(Entry)
         /\ pc' = "pack" /\ i' = 1 /\ used' = 0 /\ width' \in Nat
         /\ out' = Unset /\ v210' \in BOOLEAN /\ generated' \in Nat
<1>1. PICK l \in 1 .. Len(lines), w \in LineWidths, packed \in BOOLEAN :
        /\ \E s \in Sorts(lines[l].entries) : lines' = [lines EXCEPT ![l].entries = s]
        /\ cur' = l /\ width' = w /\ v210' = packed
  BY DEF GenerateBegin
<1>2. PICK s \in Sorts(lines[l].entries) : lines' = [lines EXCEPT ![l].entries = s]
  BY <1>1
<1>3. lines \in Seq(Line) /\ generated \in Nat
  BY DEF LinesInv, TypeOK
<1>4. s \in Seq(Entry)
  BY <1>2, <1>3, LineType, SortsType
<1>5. lines' \in Seq(Line) /\ Len(lines') = Len(lines) /\ lines'[l].entries = s
  BY <1>2, <1>3, <1>4, ReplaceEntries
<1>6. Entries' = s
  BY <1>1, <1>5 DEF Entries
<1>7. width' \in Nat
  BY <1>1, LinesAssumption
<1> QED
  BY <1>1, <1>3, <1>4, <1>5, <1>6, <1>7 DEF GenerateBegin

\* Inserting a packet appends it to a line or adds a line.
LEMMA InsertStep ==
  ASSUME LinesInv, klvanc_line_insert
  PROVE  lines' \in Seq(Line) /\ inserted' \in Nat /\ crashed' \in BOOLEAN
<1>1. PICK n \in Numbers, off \in Offsets, w \in PktWidths, bad \in BOOLEAN :
        InsertInLine(n, NewEntry(off, w, bad)) \/ InsertNewLine(n, NewEntry(off, w, bad))
  BY DEF klvanc_line_insert
<1> DEFINE e == NewEntry(off, w, bad)
<1>2. lines \in Seq(Line) /\ inserted \in Nat /\ crashed \in BOOLEAN
  BY DEF LinesInv, TypeOK
<1>3. e \in Entry
  BY <1>2, LinesAssumption DEF NewEntry, Entry
<1>4. inserted' \in Nat
  BY <1>2 DEF klvanc_line_insert
<1> HIDE DEF e
<1>5. CASE InsertInLine(n, e)
  <2>1. PICK l \in 1 .. Len(lines) : lines' = [lines EXCEPT ![l].entries = Append(@, e)]
    BY <1>5 DEF InsertInLine
  <2>2. lines[l].entries \in Seq(Entry)
    BY <1>2, LineType
  <2>3. Append(lines[l].entries, e) \in Seq(Entry)
    BY <1>3, <2>2
  <2>4. lines' = [lines EXCEPT ![l].entries = Append(lines[l].entries, e)]
    BY <2>1
  <2>5. lines' \in Seq(Line)
    BY <1>2, <2>3, <2>4, ReplaceEntries
  <2>6. crashed' = crashed
    BY <1>5 DEF InsertInLine
  <2> QED
    BY <1>2, <1>4, <2>5, <2>6
<1>6. CASE InsertNewLine(n, e)
  <2>1. [number |-> n, entries |-> <<e>>] \in Line
    BY <1>3 DEF Line
  <2>2. \/ lines' = Append(lines, [number |-> n, entries |-> <<e>>]) /\ crashed' = crashed
        \/ lines' = lines /\ crashed' = TRUE
    BY <1>6 DEF InsertNewLine
  <2>3. lines' \in Seq(Line)
    BY <1>2, <2>1, <2>2
  <2>4. crashed' \in BOOLEAN
    BY <1>2, <2>2
  <2> QED
    BY <1>4, <2>3, <2>4
<1> QED
  BY <1>1, <1>5, <1>6 DEF e

\* Type correctness is preserved by every step.
LEMMA LinesTypeStep ==
  ASSUME LinesInv, [Next]_vars
  PROVE  TypeOK'
<1> USE DEF LinesInv
<1>1. CASE klvanc_line_insert
  BY <1>1, InsertStep DEF TypeOK, klvanc_line_insert, gen
<1>2. CASE klvanc_line_free
  BY <1>2 DEF TypeOK, klvanc_line_free, gen, Unset
<1>3. CASE GenerateBegin
  <2>1. inserted' = inserted /\ crashed' = crashed
    BY <1>3 DEF GenerateBegin
  <2>2. lines' \in Seq(Line) /\ cur' \in Nat
    BY <1>3, BeginStep, LenProperties
  <2>3. /\ pc' = "pack" /\ i' = 1 /\ used' = 0 /\ width' \in Nat
        /\ out' = Unset /\ generated' \in Nat
    BY <1>3, BeginStep
  <2>4. v210' \in BOOLEAN
    BY <1>3, BeginStep
  <2>5. out' \in [kind : {"unset", "garbage", "buffer"}, pixels : Seq(Nat \X Nat)]
    BY <2>3 DEF Unset
  <2>6. inserted \in Nat /\ crashed \in BOOLEAN
    BY DEF TypeOK
  <2> QED
    BY <2>1, <2>2, <2>3, <2>4, <2>5, <2>6 DEF TypeOK
<1>4. CASE GeneratePack
  <2>1. /\ UNCHANGED <<inserted, generated, pc, cur, width, v210, out, crashed>>
        /\ i' = i + 1
    BY <1>4 DEF GeneratePack
  <2>2. lines' \in Seq(Line) /\ used' \in Nat
    BY <1>4, PackStep
  <2> QED
    BY <2>1, <2>2 DEF TypeOK
<1>5. CASE GenerateNothing
  BY <1>5 DEF TypeOK, GenerateNothing, Result, Unset, Garbage
<1>6. CASE GenerateNoMemory
  BY <1>6 DEF TypeOK, GenerateNoMemory
<1>7. CASE GenerateAlloc
  <2>1. [p \in 1 .. used |-> Hole] \in Seq(Nat \X Nat)
    BY DEF TypeOK, Hole
  <2> QED
    BY <1>7, <2>1 DEF TypeOK, GenerateAlloc, Buffer
<1>8. CASE GenerateCopy
  <2> DEFINE e == Entries[i]
             px == [p \in 1 .. Len(out.pixels) |->
                      IF e.h_offset < p /\ p <= e.h_offset + e.pixel_width
                      THEN <<e.id, p - e.h_offset>> ELSE out.pixels[p]]
  <2>1. lines \in Seq(Line) /\ cur \in 1 .. Len(lines) /\ i \in 1 .. Len(Entries)
    BY <1>8 DEF TypeOK, CursorInv, GenerateCopy
  <2>2. Entries \in Seq(Entry)
    BY <2>1, LineType DEF Entries
  <2>3. e \in Entry
    BY <2>1, <2>2, ElementOfSeq
  <2>4. e.id \in Nat /\ e.h_offset \in Nat
    BY <2>3 DEF Entry
  <2>5. out.pixels \in Seq(Nat \X Nat)
    BY DEF TypeOK
  <2>6. Len(out.pixels) \in Nat
    BY <2>5
  <2> HIDE DEF e
  <2>7. px \in Seq(Nat \X Nat)
    <3>1. ASSUME NEW p \in 1 .. Len(out.pixels)
          PROVE  px[p] \in Nat \X Nat
      <4>1. out.pixels[p] \in Nat \X Nat
        BY <2>5, ElementOfSeq
      <4>2. e.h_offset < p => p - e.h_offset \in Nat
        BY <2>4
      <4> QED
        BY <4>1, <4>2, <2>4
    <3>2. px \in [1 .. Len(out.pixels) -> Nat \X Nat]
      BY <3>1
    <3> HIDE DEF px
    <3> QED
      BY <3>2, <2>6
  <2>8. out' = [kind |-> "buffer", pixels |-> px]
    BY <1>8 DEF GenerateCopy, Buffer, e
  <2> HIDE DEF px
  <2>9. out' \in [kind : {"unset", "garbage", "buffer"}, pixels : Seq(Nat \X Nat)]
    BY <2>7, <2>8
  <2> QED
    BY <1>8, <2>9 DEF TypeOK, GenerateCopy
<1>9. CASE GenerateEnd
  BY <1>9 DEF TypeOK, GenerateEnd
<1>10. CASE UNCHANGED vars
  BY <1>10 DEF TypeOK, vars, gen
<1> QED
  BY <1>1, <1>2, <1>3, <1>4, <1>5, <1>6, <1>7, <1>8, <1>9, <1>10 DEF Next, Generate

\* Placing one more packet keeps the placed packets packed.
LEMMA PackKeepsPacked ==
  ASSUME LinesInv, GeneratePack
  PROVE  Packed(i - 1)'
<1> DEFINE E == Entries
           F == Entries'
<1>1. /\ used' <= width /\ used' \in Nat /\ i \in 1 .. Len(E)
      /\ F[i] \in Entry /\ F[i].h_offset = used /\ End(F[i]) = used'
      /\ \A j \in 1 .. Len(E) : j # i => F[j] = E[j]
  BY PackStep
<1>2. width' = width /\ i' = i + 1 /\ used \in Nat /\ i \in Nat
  BY DEF GeneratePack, LinesInv, TypeOK
<1>3. /\ \A j \in 1 .. i - 1 : End(E[j]) <= used
      /\ \A j, k \in 1 .. i - 1 : j < k => End(E[j]) <= E[k].h_offset
      /\ \A p \in 0 .. used - 1 :
           \E j \in 1 .. i - 1 : E[j].h_offset <= p /\ p < End(E[j])
  BY DEF LinesInv, PackedPrefix, Packed, GeneratePack
<1>4. Len(E) \in Nat
  <2>1. lines \in Seq(Line) /\ cur \in 1 .. Len(lines)
    BY DEF LinesInv, TypeOK, CursorInv, GeneratePack
  <2> QED
    BY <2>1, LineType DEF Entries
<1>5. used <= used'
  <2>1. F[i].h_offset \in Nat /\ F[i].pixel_width \in Nat
    BY <1>1 DEF Entry
  <2> QED
    BY <1>1, <2>1 DEF End
<1>6. \A j \in 1 .. i - 1 : F[j] = E[j]
  BY <1>1, <1>2, <1>4
<1>7. \A j \in 1 .. i - 1 : End(E[j]) \in Int
  <2>1. \A j \in 1 .. Len(E) : E[j] \in Entry
    <3>1. lines \in Seq(Line) /\ cur \in 1 .. Len(lines)
      BY DEF LinesInv, TypeOK, CursorInv, GeneratePack
    <3>2. E \in Seq(Entry)
      BY <3>1, LineType DEF Entries
    <3> QED
      BY <3>2, ElementOfSeq
  <2>2. \A j \in 1 .. i - 1 : E[j] \in Entry
    BY <1>1, <1>4, <2>1
  <2> QED
    BY <2>2 DEF Entry, End
<1>11. used' \in Nat /\ used \in Nat /\ i \in Nat /\ i >= 1
  BY <1>1, <1>2, <1>4
<1>12. F[i].h_offset = used /\ End(F[i]) = used'
  BY <1>1
<1> HIDE DEF E, F
<1>8. \A j \in 1 .. i : End(F[j]) <= used'
  <2> TAKE j \in 1 .. i
  <2>1. CASE j = i
    BY <2>1, <1>11, <1>12
  <2>2. CASE j \in 1 .. i - 1
    <3>1. End(F[j]) = End(E[j]) /\ End(E[j]) <= used /\ End(E[j]) \in Int
      BY <2>2, <1>3, <1>6, <1>7
    <3> QED
      BY <3>1, <1>5, <1>11
  <2> QED
    BY <2>1, <2>2, <1>2
<1>9. \A j, k \in 1 .. i : j < k => End(F[j]) <= F[k].h_offset
  <2> TAKE j, k \in 1 .. i
  <2> HAVE j < k
  <2>1. j \in 1 .. i - 1
    BY <1>2
  <2>2. CASE k = i
    BY <2>1, <2>2, <1>12, <1>3, <1>6
  <2>3. CASE k \in 1 .. i - 1
    BY <2>1, <2>3, <1>3, <1>6
  <2> QED
    BY <2>2, <2>3, <1>2
<1>13. PICK u \in Nat : u = used'
  BY <1>11
<1>10. \A p \in 0 .. u - 1 : \E j \in 1 .. i : F[j].h_offset <= p /\ p < End(F[j])
  <2> TAKE p \in 0 .. u - 1
  <2>1. CASE p \in 0 .. used - 1
    <3>1. PICK j \in 1 .. i - 1 : E[j].h_offset <= p /\ p < End(E[j])
      BY <2>1, <1>3
    <3>2. j \in 1 .. i /\ F[j] = E[j]
      BY <1>2, <1>6
    <3> QED
      BY <3>1, <3>2
  <2>2. CASE p >= used
    <3>1. i \in 1 .. i /\ p < u
      BY <1>11
    <3> QED
      BY <3>1, <2>2, <1>12, <1>13
  <2> QED
    BY <2>1, <2>2, <1>11
<1>14. (i - 1)' = i /\ used' <= width'
  BY <1>1, <1>2
<1> QED
  BY <1>8, <1>9, <1>10, <1>13, <1>14 DEF Packed, F, End

\* The generator's cursor stays inside the line it works on.
LEMMA CursorStep ==
  ASSUME LinesInv, [Next]_vars
  PROVE  CursorInv'
<1>1. CASE klvanc_line_insert
  <2>1. pc' = "idle"
    BY <1>1 DEF klvanc_line_insert, gen
  <2> QED
    BY <2>1 DEF CursorInv
<1>2. CASE klvanc_line_free
  <2>1. pc' = "idle"
    BY <1>2 DEF klvanc_line_free, gen
  <2> QED
    BY <2>1 DEF CursorInv
<1>3. CASE GenerateBegin
  <2>1. Len(Entries') \in Nat
    BY <1>3, BeginStep, LenProperties
  <2>2. cur' \in 1 .. Len(lines') /\ pc' = "pack" /\ i' = 1 /\ out' = Unset
    BY <1>3, BeginStep
  <2> QED
    BY <2>1, <2>2 DEF CursorInv
<1>4. CASE GeneratePack
  <2>1. cur' = cur /\ i' = i + 1 /\ pc' = pc /\ out' = out /\ pc = "pack"
    BY <1>4 DEF GeneratePack
  <2>2. /\ Len(lines') = Len(lines) /\ Len(Entries') = Len(Entries)
        /\ i \in 1 .. Len(Entries) /\ Entries' \in Seq(Entry)
    BY <1>4, PackStep
  <2>3. Len(Entries') \in Nat
    BY <2>2, LenProperties
  <2> QED
    BY <2>1, <2>2, <2>3 DEF CursorInv, LinesInv
<1>5. CASE GenerateAlloc
  <2>1. /\ cur' = cur /\ lines' = lines /\ i' = 1 /\ pc' = "copy"
        /\ cur \in 1 .. Len(lines) /\ i \in 1 .. Len(Entries) + 1
    BY <1>5 DEF GenerateAlloc, LinesInv, CursorInv
  <2>2. Entries' = Entries
    BY <2>1 DEF Entries
  <2> QED
    BY <2>1, <2>2 DEF CursorInv
<1>6. CASE GenerateCopy
  <2>1. /\ cur' = cur /\ lines' = lines /\ i' = i + 1 /\ pc' = "copy"
        /\ cur \in 1 .. Len(lines) /\ i \in 1 .. Len(Entries) + 1 /\ i <= Len(Entries)
    BY <1>6 DEF GenerateCopy, LinesInv, CursorInv
  <2>2. Entries' = Entries
    BY <2>1 DEF Entries
  <2>3. Len(Entries) \in Nat
    BY <2>1, LineType DEF LinesInv, TypeOK, Entries
  <2> QED
    BY <2>1, <2>2, <2>3 DEF CursorInv
<1>7. CASE GenerateNothing \/ GenerateNoMemory \/ GenerateEnd
  <2>1. pc' = "idle"
    BY <1>7 DEF GenerateNothing, GenerateNoMemory, GenerateEnd
  <2> QED
    BY <2>1 DEF CursorInv
<1>8. CASE UNCHANGED vars
  BY <1>8 DEF CursorInv, LinesInv, Entries, vars, gen
<1> QED
  BY <1>1, <1>2, <1>3, <1>4, <1>5, <1>6, <1>7, <1>8 DEF Next, Generate

\* The placed packets stay packed: placing the next one keeps them so, and no
\* other step touches them while the generator packs.
LEMMA PackedStep ==
  ASSUME LinesInv, [Next]_vars
  PROVE  PackedPrefix'
<1>1. CASE GeneratePack
  BY <1>1, PackKeepsPacked DEF PackedPrefix
<1>2. CASE GenerateBegin
  <2>1. i' = 1 /\ used' = 0 /\ width' \in Nat
    BY <1>2, BeginStep
  <2> QED
    BY <2>1 DEF PackedPrefix, Packed
<1>3. CASE UNCHANGED vars
  BY <1>3 DEF PackedPrefix, Packed, LinesInv, Entries, vars, gen
<1>4. CASE \/ klvanc_line_insert \/ klvanc_line_free \/ GenerateNothing \/ GenerateNoMemory
           \/ GenerateAlloc \/ GenerateCopy \/ GenerateEnd
  <2>1. pc' # "pack"
    BY <1>4 DEF klvanc_line_insert, klvanc_line_free, gen, GenerateNothing,
       GenerateNoMemory, GenerateAlloc, GenerateCopy, GenerateEnd
  <2> QED
    BY <2>1 DEF PackedPrefix
<1> QED
  BY <1>1, <1>2, <1>3, <1>4 DEF Next, Generate

\* The copy loop works on a packed line and fills the samples of each entry.
LEMMA CopyStep ==
  ASSUME LinesInv, [Next]_vars
  PROVE  CopyInv'
<1>1. CASE GenerateAlloc
  <2>1. /\ pc = "pack" /\ i \in 1 .. Len(Entries) + 1 /\ i > Len(Entries)
        /\ lines' = lines /\ cur' = cur /\ used' = used /\ width' = width /\ i' = 1
        /\ used \in Nat /\ cur \in 1 .. Len(lines) /\ lines \in Seq(Line)
    BY <1>1 DEF GenerateAlloc, LinesInv, CursorInv, TypeOK
  <2>2. Len(Entries) \in Nat
    BY <2>1, LineType DEF Entries
  <2>3. i - 1 = Len(Entries)
    BY <2>1, <2>2
  <2>4. Packed(Len(Entries))
    BY <2>1, <2>3 DEF LinesInv, PackedPrefix
  <2>5. Packed(Len(Entries))'
    BY <2>1, <2>4 DEF Packed, Entries
  <2>6. out' = [kind |-> "buffer", pixels |-> [p \in 1 .. used |-> Hole]]
    BY <1>1 DEF GenerateAlloc, Buffer
  <2>7. out'.kind = "buffer" /\ Len(out'.pixels) = used'
    BY <2>1, <2>6
  <2> QED
    BY <2>1, <2>5, <2>7 DEF CopyInv
<1>2. CASE GenerateCopy
  <2> DEFINE e == Entries[i]
             px == [p \in 1 .. Len(out.pixels) |->
                      IF e.h_offset < p /\ p <= e.h_offset + e.pixel_width
                      THEN <<e.id, p - e.h_offset>> ELSE out.pixels[p]]
  <2>1. /\ pc = "copy" /\ i \in 1 .. Len(Entries)
        /\ lines' = lines /\ cur' = cur /\ used' = used /\ width' = width /\ i' = i + 1
        /\ used \in Nat /\ cur \in 1 .. Len(lines) /\ lines \in Seq(Line)
    BY <1>2 DEF GenerateCopy, LinesInv, CursorInv, TypeOK
  <2>2. Entries' = Entries /\ Entries \in Seq(Entry) /\ Len(Entries) \in Nat
    BY <2>1, LineType DEF Entries
  <2>3. /\ Packed(Len(Entries)) /\ out.kind = "buffer" /\ Len(out.pixels) = used
        /\ \A j \in 1 .. i - 1 : \A p \in 1 .. used :
             Entries[j].h_offset < p /\ p <= End(Entries[j]) => out.pixels[p] # Hole
    BY <2>1 DEF LinesInv, CopyInv
  <2>4. Packed(Len(Entries))'
    BY <2>1, <2>2, <2>3 DEF Packed
  <2>5. e \in Entry
    BY <2>1, <2>2, ElementOfSeq
  <2>6. e.h_offset \in Nat
    BY <2>5 DEF Entry
  <2>7. End(e) = e.h_offset + e.pixel_width
    BY DEF End
  <2> HIDE DEF e
  <2>8. out' = [kind |-> "buffer", pixels |-> px]
    BY <1>2 DEF GenerateCopy, Buffer, e
  <2>9. Len(px) = used
    BY <2>1, <2>3
  <2>10. ASSUME NEW j \in 1 .. i, NEW p \in 1 .. used,
                Entries[j].h_offset < p, p <= End(Entries[j])
         PROVE  px[p] # Hole
    <3>1. p \in 1 .. Len(out.pixels)
      BY <2>3
    <3>2. CASE e.h_offset < p /\ p <= e.h_offset + e.pixel_width
      <4>1. px[p] = <<e.id, p - e.h_offset>>
        BY <3>1, <3>2
      <4>2. p - e.h_offset # 0
        BY <3>2, <2>6
      <4> QED
        BY <4>1, <4>2 DEF Hole
    <3>3. CASE ~(e.h_offset < p /\ p <= e.h_offset + e.pixel_width)
      <4>1. j # i
        BY <3>3, <2>7, <2>10 DEF e
      <4>2. j \in 1 .. i - 1
        BY <4>1, <2>1, <2>2
      <4>3. out.pixels[p] # Hole
        BY <4>2, <2>3, <2>10
      <4>4. px[p] = out.pixels[p]
        BY <3>1, <3>3
      <4> QED
        BY <4>3, <4>4
    <3> QED
      BY <3>2, <3>3
  <2> HIDE DEF px
  <2>11. out'.kind = "buffer" /\ out'.pixels = px
    BY <2>8
  <2>12. (i - 1)' = i
    BY <2>1, <2>2
  <2> QED
    BY <2>1, <2>2, <2>4, <2>9, <2>10, <2>11, <2>12 DEF CopyInv
<1>3. CASE UNCHANGED vars
  BY <1>3 DEF CopyInv, Packed, LinesInv, Entries, vars, gen
<1>4. CASE \/ klvanc_line_insert \/ klvanc_line_free \/ GenerateBegin \/ GeneratePack
           \/ GenerateNothing \/ GenerateNoMemory \/ GenerateEnd
  <2>1. pc' # "copy"
    BY <1>4 DEF klvanc_line_insert, klvanc_line_free, gen, GenerateBegin, GeneratePack,
       GenerateNothing, GenerateNoMemory, GenerateEnd
  <2> QED
    BY <2>1 DEF CopyInv
<1> QED
  BY <1>1, <1>2, <1>3, <1>4 DEF Next, Generate

\* A buffer is handed over only when every sample of it was copied.
LEMMA NoHolesStep ==
  ASSUME LinesInv, [Next]_vars
  PROVE  NoHoles'
<1>1. CASE GenerateEnd
  <2>1. /\ pc = "copy" /\ i \in 1 .. Len(Entries) + 1 /\ i > Len(Entries)
        /\ used \in Nat /\ cur \in 1 .. Len(lines) /\ lines \in Seq(Line)
        /\ out' = out /\ width' = width
    BY <1>1 DEF GenerateEnd, LinesInv, CursorInv, TypeOK
  <2>2. Entries \in Seq(Entry) /\ Len(Entries) \in Nat
    BY <2>1, LineType DEF Entries
  <2>3. i - 1 = Len(Entries)
    BY <2>1, <2>2
  <2>4. /\ Packed(Len(Entries)) /\ Len(out.pixels) = used
        /\ \A j \in 1 .. Len(Entries) : \A p \in 1 .. used :
             Entries[j].h_offset < p /\ p <= End(Entries[j]) => out.pixels[p] # Hole
    BY <2>1, <2>3 DEF LinesInv, CopyInv
  <2>5. ASSUME NEW p \in 1 .. used
        PROVE  out.pixels[p] # Hole
    <3>1. p - 1 \in 0 .. used - 1
      BY <2>1
    <3>2. PICK j \in 1 .. Len(Entries) :
            Entries[j].h_offset <= p - 1 /\ p - 1 < End(Entries[j])
      BY <3>1, <2>4 DEF Packed
    <3>3. Entries[j] \in Entry
      BY <2>2, ElementOfSeq
    <3>4. Entries[j].h_offset \in Nat /\ End(Entries[j]) \in Nat
      BY <3>3 DEF Entry, End
    <3>5. Entries[j].h_offset < p /\ p <= End(Entries[j])
      BY <3>2, <3>4
    <3> QED
      BY <3>5, <2>4
  <2>6. used <= width
    BY <2>4 DEF Packed
  <2> QED
    BY <2>1, <2>4, <2>5, <2>6 DEF NoHoles, Finished
<1>2. CASE klvanc_line_insert
  BY <1>2 DEF klvanc_line_insert, gen, LinesInv, NoHoles, Finished
<1>3. CASE klvanc_line_free
  BY <1>3 DEF klvanc_line_free, NoHoles, Finished, Unset
<1>4. CASE GenerateNothing
  BY <1>4 DEF GenerateNothing, NoHoles, Finished, Result, Unset, Garbage
<1>5. CASE GenerateNoMemory
  BY <1>5 DEF GenerateNoMemory, LinesInv, CursorInv, NoHoles, Finished, Unset
<1>6. CASE GenerateBegin \/ GeneratePack \/ GenerateAlloc \/ GenerateCopy
  <2>1. pc' # "idle"
    BY <1>6 DEF GenerateBegin, GeneratePack, GenerateAlloc, GenerateCopy
  <2> QED
    BY <2>1 DEF NoHoles, Finished
<1>7. CASE UNCHANGED vars
  BY <1>7 DEF LinesInv, NoHoles, Finished, vars, gen
<1> QED
  BY <1>1, <1>2, <1>3, <1>4, <1>5, <1>6, <1>7 DEF Next, Generate

----------------------------------------------------------------------------

\* The inductive invariant holds in every reachable state.
THEOREM LinesInvariant == Spec => []LinesInv
<1>1. ASSUME Init
      PROVE  LinesInv
  <2>1. out = [kind |-> "unset", pixels |-> <<>>]
    BY <1>1 DEF Init, Unset
  <2>2. out \in [kind : {"unset", "garbage", "buffer"}, pixels : Seq(Nat \X Nat)]
    BY <2>1
  <2>6. lines \in Seq(Line)
    BY <1>1 DEF Init
  <2>7. v210 \in BOOLEAN /\ crashed \in BOOLEAN
    BY <1>1 DEF Init
  <2>8. /\ inserted \in Nat /\ generated \in Nat /\ pc \in {"idle", "pack", "copy"}
        /\ cur \in Nat /\ i \in Nat /\ used \in Nat /\ width \in Nat
    BY <1>1 DEF Init
  <2>3. TypeOK
    BY <2>2, <2>6, <2>7, <2>8 DEF TypeOK
  <2>4. NoHoles
    BY <2>1 DEF NoHoles, Finished
  <2>5. CursorInv /\ PackedPrefix /\ CopyInv
    BY <1>1 DEF Init, CursorInv, PackedPrefix, CopyInv
  <2> QED
    BY <2>3, <2>4, <2>5 DEF LinesInv
<1>2. LinesInv /\ [Next]_vars => LinesInv'
  BY LinesTypeStep, CursorStep, PackedStep, CopyStep, NoHolesStep DEF LinesInv
<1> QED
  BY <1>1, <1>2, PTL DEF Spec

\* Every variable keeps its type: the line set, the cursor of the generator and
\* the buffer it fills.
THEOREM LinesTypeCorrect == Spec => []TypeOK
<1>1. LinesInv => TypeOK
  BY DEF LinesInv
<1> QED
  BY <1>1, LinesInvariant, PTL

\* klvanc_generate_vanc_line never lets packets overlap, never leaves a gap
\* between them and never runs past the end of the line.
THEOREM PacketsArePacked == Spec => []PackedPrefix
<1>1. LinesInv => PackedPrefix
  BY DEF LinesInv
<1> QED
  BY <1>1, LinesInvariant, PTL

\* The buffer handed to the caller is no longer than the line and each sample of
\* it was copied from a packet: no sample of fresh memory is sent.
THEOREM BufferHasNoHoles == Spec => []NoHoles
<1>1. LinesInv => NoHoles
  BY DEF LinesInv
<1> QED
  BY <1>1, LinesInvariant, PTL

----------------------------------------------------------------------------

\* A step that only replaces the packets of one line by as many as the line may
\* hold keeps the line set sound.
LEMMA SameSlots ==
  ASSUME lines \in Seq(Line), LineSetSound, NEW l \in 1 .. Len(lines), NEW s \in Seq(Entry),
         Len(s) \in 1 .. MaxEntries, lines' = [lines EXCEPT ![l].entries = s]
  PROVE  LineSetSound'
<1>1. /\ Len(lines') = Len(lines) /\ lines'[l].entries = s
      /\ \A m \in 1 .. Len(lines) : lines'[m].number = lines[m].number
      /\ \A m \in 1 .. Len(lines) : m # l => lines'[m] = lines[m]
  BY ReplaceEntries
<1>2. Len(lines') <= MaxLines
  BY <1>1 DEF LineSetSound
<1>3. \A m \in 1 .. Len(lines') : Len(lines'[m].entries) \in 1 .. MaxEntries
  BY <1>1 DEF LineSetSound
<1>4. \A m, n \in 1 .. Len(lines') : lines'[m].number = lines'[n].number => m = n
  BY <1>1 DEF LineSetSound
<1> QED
  BY <1>2, <1>3, <1>4 DEF LineSetSound

\* Filing a packet: in a line with room for it, or in a free slot when no line
\* has its number.
LEMMA InsertKeepsSound ==
  ASSUME LinesInv, LineSetSound, klvanc_line_insert
  PROVE  LineSetSound'
<1>1. PICK n \in Numbers, off \in Offsets, w \in PktWidths, bad \in BOOLEAN :
        InsertInLine(n, NewEntry(off, w, bad)) \/ InsertNewLine(n, NewEntry(off, w, bad))
  BY DEF klvanc_line_insert
<1> DEFINE e == NewEntry(off, w, bad)
<1>2. lines \in Seq(Line) /\ inserted \in Nat
  BY DEF LinesInv, TypeOK
<1>3. e \in Entry
  BY <1>2, LinesAssumption DEF NewEntry, Entry
<1>4. MaxEntries \in Nat \ {0} /\ MaxLines \in Nat
  BY LinesAssumption
<1> HIDE DEF e
<1>5. CASE InsertInLine(n, e)
  <2>1. PICK l \in 1 .. Len(lines) :
          /\ Len(lines[l].entries) < MaxEntries
          /\ lines' = [lines EXCEPT ![l].entries = Append(@, e)]
    BY <1>5 DEF InsertInLine
  <2>2. lines[l].entries \in Seq(Entry) /\ Len(lines[l].entries) \in Nat
    BY <1>2, LineType
  <2> DEFINE s == Append(lines[l].entries, e)
  <2>3. s \in Seq(Entry) /\ Len(s) \in 1 .. MaxEntries
    BY <1>3, <1>4, <2>1, <2>2
  <2>4. lines' = [lines EXCEPT ![l].entries = s]
    BY <2>1
  <2> HIDE DEF s
  <2> QED
    BY <1>2, <2>3, <2>4, SameSlots
<1>6. CASE InsertNewLine(n, e)
  <2> DEFINE new == [number |-> n, entries |-> <<e>>]
  <2>1. CASE lines' = lines
    BY <2>1 DEF LineSetSound
  <2>2. CASE lines' = Append(lines, new)
    <3>1. /\ \A l \in 1 .. Len(lines) : lines[l].number # n
          /\ Len(lines) < MaxLines
      BY <1>6 DEF InsertNewLine
    <3>2. new.number = n /\ Len(new.entries) = 1
      OBVIOUS
    <3> HIDE DEF new
    <3>3. /\ Len(lines) \in Nat /\ Len(lines') = Len(lines) + 1
          /\ lines'[Len(lines) + 1] = new
          /\ \A l \in 1 .. Len(lines) : lines'[l] = lines[l]
      BY <1>2, <2>2, AppendProperties
    <3>4. Len(lines') <= MaxLines
      BY <1>4, <3>1, <3>3
    <3>5. ASSUME NEW l \in 1 .. Len(lines')
          PROVE  Len(lines'[l].entries) \in 1 .. MaxEntries
      <4>1. CASE l = Len(lines) + 1
        <5>1. Len(lines'[l].entries) = 1
          BY <3>2, <3>3, <4>1
        <5> QED
          BY <1>4, <5>1
      <4>2. CASE l # Len(lines) + 1
        <5>1. l \in 1 .. Len(lines)
          BY <3>3, <4>2
        <5>2. lines'[l] = lines[l]
          BY <3>3, <5>1
        <5> QED
          BY <5>1, <5>2 DEF LineSetSound
      <4> QED
        BY <4>1, <4>2
    <3>6. \A l, m \in 1 .. Len(lines') : lines'[l].number = lines'[m].number => l = m
      BY <3>1, <3>2, <3>3 DEF LineSetSound
    <3> QED
      BY <3>4, <3>5, <3>6 DEF LineSetSound
  <2> QED
    BY <1>6, <2>1, <2>2 DEF InsertNewLine
<1> QED
  BY <1>1, <1>5, <1>6 DEF e

\* The line set stays sound in every step.
LEMMA SoundStep ==
  ASSUME LinesInv, LineSetSound, [Next]_vars
  PROVE  LineSetSound'
<1>1. CASE klvanc_line_insert
  BY <1>1, InsertKeepsSound
<1>2. CASE klvanc_line_free
  <2>1. lines' = <<>> /\ MaxLines \in Nat
    BY <1>2, LinesAssumption DEF klvanc_line_free
  <2> QED
    BY <2>1 DEF LineSetSound
<1>3. CASE GenerateBegin
  <2>1. PICK l \in 1 .. Len(lines) :
          \E s \in Sorts(lines[l].entries) : lines' = [lines EXCEPT ![l].entries = s]
    BY <1>3 DEF GenerateBegin
  <2>2. PICK s \in Sorts(lines[l].entries) : lines' = [lines EXCEPT ![l].entries = s]
    BY <2>1
  <2>3. lines \in Seq(Line)
    BY DEF LinesInv, TypeOK
  <2>4. s \in Seq(Entry) /\ Len(s) = Len(lines[l].entries)
    BY <2>2, <2>3, LineType, SortsType
  <2>5. Len(s) \in 1 .. MaxEntries
    BY <2>4 DEF LineSetSound
  <2> QED
    BY <2>2, <2>3, <2>4, <2>5, SameSlots
<1>4. CASE GeneratePack
  <2>1. lines \in Seq(Line) /\ cur \in 1 .. Len(lines)
    BY <1>4 DEF LinesInv, TypeOK, CursorInv, GeneratePack
  <2>2. PICK e : lines' = [lines EXCEPT ![cur].entries[i] = e] /\ e = Place(Entries[i], used)
    BY <1>4 DEF GeneratePack
  <2> DEFINE s == [Entries EXCEPT ![i] = e]
  <2>3. lines' = [lines EXCEPT ![cur].entries = s]
    BY <2>2 DEF Entries
  <2>4. Entries \in Seq(Entry) /\ i \in 1 .. Len(Entries) /\ e \in Entry
    <3>1. Entries \in Seq(Entry)
      BY <2>1, LineType DEF Entries
    <3> QED
      BY <1>4, <2>2, <3>1, PackStep
  <2>5. s \in Seq(Entry) /\ Len(s) = Len(Entries)
    BY <2>4, ExceptSeq
  <2>6. Len(s) \in 1 .. MaxEntries
    BY <2>1, <2>5 DEF LineSetSound, Entries
  <2> HIDE DEF s
  <2> QED
    BY <2>1, <2>3, <2>5, <2>6, SameSlots
<1>5. CASE GenerateNothing \/ GenerateNoMemory \/ GenerateAlloc \/ GenerateCopy \/ GenerateEnd
  <2>1. lines' = lines
    BY <1>5 DEF GenerateNothing, GenerateNoMemory, GenerateAlloc, GenerateCopy, GenerateEnd
  <2> QED
    BY <2>1 DEF LineSetSound
<1>6. CASE UNCHANGED vars
  BY <1>6 DEF LineSetSound, vars
<1> QED
  BY <1>1, <1>2, <1>3, <1>4, <1>5, <1>6 DEF Next, Generate

\* Each line number has one slot with at least one packet and at most as many
\* as fit, and there are no more slots than the line set has.
THEOREM OneSlotPerLine == Spec => []LineSetSound
<1>1. Init => LineSetSound
  <2>1. ASSUME Init
        PROVE  lines = <<>> /\ MaxLines \in Nat
    BY <2>1, LinesAssumption DEF Init
  <2> QED
    BY <2>1 DEF LineSetSound
<1>2. LinesInv /\ LineSetSound /\ [Next]_vars => LineSetSound'
  BY SoundStep
<1> QED
  BY <1>1, <1>2, LinesInvariant, PTL DEF Spec

----------------------------------------------------------------------------
(* Whole packets.  n and g stand for the packets inserted and the lines    *)
(* generated so far, u for the pixels in use and w for the line's width.   *)

\* What is true of the packets of a line whatever was generated: each is there
\* once, and it has its full width or, once it was dropped, none.
SoundEntries(s, n, g) ==
  /\ \A j \in 1 .. Len(s) :
       /\ s[j].id \in 1 .. n /\ s[j].size >= 1
       /\ s[j].pixel_width \in {0, s[j].size}
       /\ g = 0 => s[j].pixel_width = s[j].size
  /\ \A j, k \in 1 .. Len(s) : s[j].id = s[k].id => j = k

EntriesInv == \A l \in 1 .. Len(lines) : SoundEntries(lines[l].entries, inserted, generated)

Legal(e) == ~(e.illegal /\ e.size > 3)

\* A packet that was placed has its full width and is legal, or has none; in the
\* first call it has none only if it is illegal or the line is too full for it.
Settled(e, g, u, w) ==
  /\ e.pixel_width # 0 => e.pixel_width = e.size /\ Legal(e)
  /\ g = 1 /\ e.pixel_width = 0 /\ Legal(e) => u + e.size > w

\* While it packs, the packets before the cursor are settled, and in the first
\* call those behind it still have their full width.
SettledInv ==
  pc = "pack" =>
    /\ generated >= 1
    /\ \A j \in 1 .. i - 1 : Settled(Entries[j], generated, used, width)
    /\ generated = 1 => \A j \in i .. Len(Entries) : Entries[j].pixel_width = Entries[j].size

\* The samples of entry e are in the buffer px, each at its place.
Copied(e, px) ==
  \A p \in 1 .. Len(px) : e.h_offset < p /\ p <= End(e) => px[p] = <<e.id, p - e.h_offset>>

\* While it copies, all packets are settled and those before the cursor are in
\* the buffer.
CopiedInv ==
  pc = "copy" =>
    /\ \A j \in 1 .. Len(Entries) : Settled(Entries[j], generated, used, width)
    /\ \A j \in 1 .. i - 1 : Copied(Entries[j], out.pixels)

\* Until the next call the buffer consists of the packets of the last one; new
\* packets may be filed behind them.
CarriedInv ==
  Finished =>
    /\ cur \in 1 .. Len(lines) /\ i - 1 <= Len(Entries) /\ i >= 1 /\ Len(out.pixels) = used
    /\ \A j \in 1 .. i - 1 :
         /\ Settled(Entries[j], generated, used, width) /\ End(Entries[j]) <= used
         /\ Copied(Entries[j], out.pixels)
    /\ \A p \in 1 .. used :
         \E j \in 1 .. i - 1 : Entries[j].h_offset < p /\ p <= End(Entries[j])

WholeInv == EntriesInv /\ SettledInv /\ CopiedInv /\ CarriedInv

\* Entries stay sound when more packets are inserted and more lines generated.
LEMMA SoundLater ==
  ASSUME NEW s, NEW n \in Nat, NEW m \in Nat, n <= m,
         NEW g \in Nat, NEW h \in Nat, g <= h, SoundEntries(s, n, g)
  PROVE  SoundEntries(s, m, h)
  BY DEF SoundEntries

\* Sorting, filing and placing keep the packets of a line sound.
LEMMA SoundSort ==
  ASSUME NEW s \in Seq(Entry), NEW r \in Sorts(s), NEW n, NEW g, SoundEntries(s, n, g)
  PROVE  SoundEntries(r, n, g)
<1>1. PICK q \in [1 .. Len(s) -> 1 .. Len(s)] :
        /\ r = [j \in 1 .. Len(s) |-> s[q[j]]]
        /\ \A j, k \in 1 .. Len(s) : j # k => q[j] # q[k]
  BY DEF Sorts
<1>2. Len(r) = Len(s)
  BY SortsType
<1>3. \A j \in 1 .. Len(s) : q[j] \in 1 .. Len(s) /\ r[j] = s[q[j]]
  BY <1>1
<1>4. ASSUME NEW j \in 1 .. Len(r)
      PROVE  /\ r[j].id \in 1 .. n /\ r[j].size >= 1 /\ r[j].pixel_width \in {0, r[j].size}
             /\ g = 0 => r[j].pixel_width = r[j].size
  BY <1>2, <1>3 DEF SoundEntries
<1>5. ASSUME NEW j \in 1 .. Len(r), NEW k \in 1 .. Len(r), r[j].id = r[k].id
      PROVE  j = k
  <2>1. \A a, b \in 1 .. Len(s) : s[a].id = s[b].id => a = b
    BY DEF SoundEntries
  <2>2. q[j] \in 1 .. Len(s) /\ q[k] \in 1 .. Len(s) /\ s[q[j]].id = s[q[k]].id
    BY <1>2, <1>3, <1>5
  <2>3. q[j] = q[k]
    BY <2>1, <2>2
  <2> QED
    BY <1>1, <1>2, <2>3
<1> QED
  BY <1>4, <1>5 DEF SoundEntries

LEMMA SoundAppend ==
  ASSUME NEW s \in Seq(Entry), NEW e \in Entry, NEW n \in Nat, NEW g,
         e.id = n + 1, e.size >= 1, e.pixel_width = e.size, SoundEntries(s, n, g)
  PROVE  SoundEntries(Append(s, e), n + 1, g)
<1> DEFINE r == Append(s, e)
<1>1. /\ Len(s) \in Nat /\ Len(r) = Len(s) + 1 /\ r[Len(s) + 1] = e
      /\ \A j \in 1 .. Len(s) : r[j] = s[j]
  BY AppendProperties, LenProperties
<1>2. \A j \in 1 .. Len(r) : j \in 1 .. Len(s) \/ j = Len(s) + 1
  BY <1>1
<1>3. \A j \in 1 .. Len(s) : s[j].id \in 1 .. n
  BY DEF SoundEntries
<1> HIDE DEF r
<1>4. ASSUME NEW j \in 1 .. Len(r)
      PROVE  /\ r[j].id \in 1 .. n + 1 /\ r[j].size >= 1 /\ r[j].pixel_width \in {0, r[j].size}
             /\ g = 0 => r[j].pixel_width = r[j].size
  <2>1. CASE j \in 1 .. Len(s)
    BY <1>1, <1>3, <2>1 DEF SoundEntries
  <2>2. CASE j = Len(s) + 1
    BY <1>1, <2>2
  <2> QED BY <1>2, <2>1, <2>2
<1>5. ASSUME NEW j \in 1 .. Len(r), NEW k \in 1 .. Len(r), r[j].id = r[k].id
      PROVE  j = k
  BY <1>1, <1>2, <1>3, <1>5 DEF SoundEntries
<1> QED
  BY <1>4, <1>5 DEF SoundEntries, r

LEMMA SoundPlace ==
  ASSUME NEW s \in Seq(Entry), NEW k \in 1 .. Len(s), NEW e \in Entry,
         e.id = s[k].id, e.size = s[k].size, e.pixel_width \in {0, s[k].pixel_width},
         NEW n, NEW g \in Nat, g >= 1, SoundEntries(s, n, g)
  PROVE  SoundEntries([s EXCEPT ![k] = e], n, g)
<1> DEFINE r == [s EXCEPT ![k] = e]
<1>1. /\ Len(r) = Len(s) /\ r[k] = e
      /\ \A j \in 1 .. Len(s) : j # k => r[j] = s[j]
  BY ExceptSeq, LenProperties
<1> HIDE DEF r
<1>2. \A j \in 1 .. Len(s) : r[j].id = s[j].id /\ r[j].size = s[j].size
  BY <1>1
<1>3. \A j \in 1 .. Len(s) : r[j].pixel_width \in {0, s[j].pixel_width}
  BY <1>1
<1>4. SoundEntries(r, n, g)
  BY <1>1, <1>2, <1>3 DEF SoundEntries
<1> QED BY <1>4 DEF r

\* All lines stay sound when one line gets sound packets.
LEMMA SoundReplace ==
  ASSUME lines \in Seq(Line), EntriesInv, inserted \in Nat, generated \in Nat,
         inserted' \in Nat, inserted <= inserted', generated' \in Nat, generated <= generated',
         NEW l \in 1 .. Len(lines), NEW s \in Seq(Entry),
         SoundEntries(s, inserted', generated'),
         lines' = [lines EXCEPT ![l].entries = s]
  PROVE  EntriesInv'
<1>1. /\ Len(lines') = Len(lines) /\ lines'[l].entries = s
      /\ \A m \in 1 .. Len(lines) : m # l => lines'[m] = lines[m]
  BY ReplaceEntries
<1>2. \A m \in 1 .. Len(lines) : SoundEntries(lines[m].entries, inserted', generated')
  BY SoundLater DEF EntriesInv
<1> QED
  BY <1>1, <1>2 DEF EntriesInv

\* What placing an entry does to it: it keeps its identity and its size, and is
\* settled.
LEMMA PlaceSettles ==
  ASSUME NEW e \in Entry, NEW g \in Nat, NEW n \in Nat, width \in Nat,
         e.size >= 1, e.pixel_width \in {0, e.size}, g = 1 => e.pixel_width = e.size
  PROVE  LET f == Place(e, n) IN
           /\ f.id = e.id /\ f.size = e.size /\ f.pixel_width \in {0, e.pixel_width}
           /\ f.illegal = e.illegal
           /\ Settled(f, g, n + f.pixel_width, width)
<1> DEFINE f == Place(e, n)
           dropped == (e.illegal /\ e.pixel_width > 3) \/ n + e.pixel_width > width
<1>1. /\ f.id = e.id /\ f.size = e.size /\ f.illegal = e.illegal
      /\ f.pixel_width = IF dropped THEN 0 ELSE e.pixel_width
  BY DEF Place, Entry
<1>2. e.size \in Nat /\ e.pixel_width \in Nat
  BY DEF Entry
<1> HIDE DEF f, dropped
<1>3. ASSUME f.pixel_width # 0
      PROVE  f.pixel_width = f.size /\ Legal(f)
  <2>1. ~dropped /\ f.pixel_width = e.pixel_width /\ e.pixel_width = e.size
    BY <1>1, <1>3
  <2>2. ~(e.illegal /\ e.size > 3)
    BY <2>1 DEF dropped
  <2> QED BY <1>1, <2>1, <2>2 DEF Legal
<1>4. ASSUME g = 1, f.pixel_width = 0, Legal(f)
      PROVE  n + f.pixel_width + f.size > width
  <2>1. e.pixel_width = e.size /\ ~(e.illegal /\ e.size > 3)
    BY <1>1, <1>4 DEF Legal
  <2>2. CASE dropped
    <3>1. n + e.size > width
      BY <2>1, <2>2 DEF dropped
    <3> QED BY <1>1, <1>2, <1>4, <3>1
  <2>3. CASE ~dropped
    <3>1. e.size = 0
      BY <1>1, <1>4, <2>1, <2>3
    <3> QED BY <3>1, <1>2
  <2> QED BY <2>2, <2>3
<1> QED BY <1>1, <1>3, <1>4 DEF Settled, f


\* The entries of the line the generator is at, and those of any line.
LEMMA EntriesType ==
  ASSUME LinesInv, cur \in 1 .. Len(lines)
  PROVE  /\ Entries \in Seq(Entry) /\ Len(Entries) \in Nat
         /\ \A j \in 1 .. Len(Entries) : Entries[j] \in Entry
<1>1. Entries \in Seq(Entry) /\ Len(Entries) \in Nat
  BY LineType DEF LinesInv, TypeOK, Entries
<1> QED BY <1>1, ElementOfSeq

\* Filing a packet changes no entry of the line generated last.
LEMMA InsertKeepsEntries ==
  ASSUME LinesInv, klvanc_line_insert, cur \in 1 .. Len(lines)
  PROVE  /\ cur' \in 1 .. Len(lines') /\ Len(Entries) <= Len(Entries')
         /\ \A j \in 1 .. Len(Entries) : Entries'[j] = Entries[j]
<1>1. PICK n \in Numbers, off \in Offsets, w \in PktWidths, bad \in BOOLEAN :
        InsertInLine(n, NewEntry(off, w, bad)) \/ InsertNewLine(n, NewEntry(off, w, bad))
  BY DEF klvanc_line_insert
<1> DEFINE e == NewEntry(off, w, bad)
<1>2. lines \in Seq(Line) /\ inserted \in Nat /\ Len(lines) \in Nat
  BY LenProperties DEF LinesInv, TypeOK
<1>3. e \in Entry
  BY <1>2, LinesAssumption DEF NewEntry, Entry
<1>4. cur' = cur /\ Entries \in Seq(Entry) /\ Len(Entries) \in Nat
  BY EntriesType DEF klvanc_line_insert, gen
<1> HIDE DEF e
<1>5. CASE InsertInLine(n, e)
  <2>1. PICK l \in 1 .. Len(lines) : lines' = [lines EXCEPT ![l].entries = Append(@, e)]
    BY <1>5 DEF InsertInLine
  <2> DEFINE s == Append(lines[l].entries, e)
  <2>2. lines[l].entries \in Seq(Entry) /\ Len(lines[l].entries) \in Nat
    BY <1>2, LineType
  <2>3. /\ s \in Seq(Entry) /\ Len(s) = Len(lines[l].entries) + 1
        /\ \A j \in 1 .. Len(lines[l].entries) : s[j] = lines[l].entries[j]
    BY <1>3, <2>2, AppendProperties
  <2>4. lines' = [lines EXCEPT ![l].entries = s]
    BY <2>1
  <2> HIDE DEF s
  <2>5. /\ Len(lines') = Len(lines) /\ lines'[l].entries = s
        /\ \A m \in 1 .. Len(lines) : m # l => lines'[m] = lines[m]
    BY <1>2, <2>3, <2>4, ReplaceEntries
  <2>6. CASE l = cur
    BY <1>4, <2>2, <2>3, <2>5, <2>6 DEF Entries
  <2>7. CASE l # cur
    <3>1. Entries' = Entries
      BY <1>4, <2>5, <2>7 DEF Entries
    <3> QED BY <1>4, <2>5, <3>1
  <2> QED BY <2>6, <2>7
<1>6. CASE InsertNewLine(n, e)
  <2> DEFINE new == [number |-> n, entries |-> <<e>>]
  <2>1. CASE lines' = lines
    BY <1>4, <2>1 DEF Entries
  <2>2. CASE lines' = Append(lines, new)
    <3> HIDE DEF new
    <3>1. Len(lines') = Len(lines) + 1 /\ \A l \in 1 .. Len(lines) : lines'[l] = lines[l]
      BY <1>2, <2>2, AppendProperties
    <3>2. Entries' = Entries
      BY <1>4, <3>1 DEF Entries
    <3> QED BY <1>2, <1>4, <3>1, <3>2
  <2> QED
    BY <1>6, <2>1, <2>2 DEF InsertNewLine
<1> QED
  BY <1>1, <1>5, <1>6 DEF e

\* The packets of all lines stay sound: filing one gives it the next identity,
\* and only the packing of a call that has begun clears a width.
LEMMA EntriesStep ==
  ASSUME LinesInv, WholeInv, [Next]_vars
  PROVE  EntriesInv'
<1>1. /\ lines \in Seq(Line) /\ Len(lines) \in Nat /\ inserted \in Nat /\ generated \in Nat
      /\ EntriesInv
  BY LenProperties DEF LinesInv, TypeOK, WholeInv
<1>9. /\ inserted' \in Nat /\ inserted <= inserted'
      /\ generated' \in Nat /\ generated <= generated'
  <2>1. inserted' \in {inserted, inserted + 1} /\ generated' \in {generated, generated + 1}
    BY DEF Next, klvanc_line_insert, klvanc_line_free, GenerateBegin, Generate, GeneratePack,
       GenerateNothing, GenerateNoMemory, GenerateAlloc, GenerateCopy, GenerateEnd, vars
  <2> QED BY <1>1, <2>1
<1>2. CASE klvanc_line_insert
  <2>1. PICK n \in Numbers, off \in Offsets, w \in PktWidths, bad \in BOOLEAN :
          InsertInLine(n, NewEntry(off, w, bad)) \/ InsertNewLine(n, NewEntry(off, w, bad))
    BY <1>2 DEF klvanc_line_insert
  <2> DEFINE e == NewEntry(off, w, bad)
  <2>2. e \in Entry /\ e.id = inserted + 1 /\ e.size >= 1 /\ e.pixel_width = e.size
    BY <1>1, LinesAssumption DEF NewEntry, Entry
  <2>3. inserted' = inserted + 1 /\ generated' = generated
    BY <1>2 DEF klvanc_line_insert
  <2> HIDE DEF e
  <2>4. CASE InsertInLine(n, e)
    <3>1. PICK l \in 1 .. Len(lines) : lines' = [lines EXCEPT ![l].entries = Append(@, e)]
      BY <2>4 DEF InsertInLine
    <3> DEFINE s == Append(lines[l].entries, e)
    <3>2. lines[l].entries \in Seq(Entry)
      BY <1>1, LineType
    <3>3. s \in Seq(Entry) /\ SoundEntries(s, inserted', generated')
      <4>1. SoundEntries(lines[l].entries, inserted, generated)
        BY <1>1 DEF EntriesInv
      <4>2. SoundEntries(s, inserted + 1, generated)
        BY <1>1, <2>2, <3>2, <4>1, SoundAppend
      <4> QED BY <2>2, <2>3, <3>2, <4>2
    <3>4. lines' = [lines EXCEPT ![l].entries = s]
      BY <3>1
    <3> HIDE DEF s
    <3> QED
      BY <1>1, <1>9, <3>3, <3>4, SoundReplace
  <2>5. CASE InsertNewLine(n, e)
    <3> DEFINE new == [number |-> n, entries |-> <<e>>]
    <3>1. \A l \in 1 .. Len(lines) : SoundEntries(lines[l].entries, inserted', generated')
      BY <1>1, <2>3, SoundLater DEF EntriesInv
    <3>2. CASE lines' = lines
      BY <3>1, <3>2 DEF EntriesInv
    <3>3. CASE lines' = Append(lines, new)
      <4>1. SoundEntries(new.entries, inserted', generated')
        <5>1. inserted + 1 \in 1 .. inserted'
          BY <1>1, <2>3
        <5> QED BY <2>2, <5>1 DEF SoundEntries
      <4> HIDE DEF new
      <4>2. /\ Len(lines') = Len(lines) + 1 /\ lines'[Len(lines) + 1] = new
            /\ \A l \in 1 .. Len(lines) : lines'[l] = lines[l]
        BY <1>1, <3>3, AppendProperties
      <4>3. \A l \in 1 .. Len(lines') : l \in 1 .. Len(lines) \/ l = Len(lines) + 1
        BY <1>1, <4>2
      <4> QED BY <3>1, <4>1, <4>2, <4>3 DEF EntriesInv
    <3> QED BY <2>5, <3>2, <3>3 DEF InsertNewLine
  <2> QED BY <2>1, <2>4, <2>5 DEF e
<1>3. CASE klvanc_line_free
  BY <1>3 DEF EntriesInv, klvanc_line_free
<1>4. CASE GenerateBegin
  <2>1. PICK l \in 1 .. Len(lines) :
          \E s \in Sorts(lines[l].entries) : lines' = [lines EXCEPT ![l].entries = s]
    BY <1>4 DEF GenerateBegin
  <2>2. PICK s \in Sorts(lines[l].entries) : lines' = [lines EXCEPT ![l].entries = s]
    BY <2>1
  <2>3. inserted' = inserted /\ generated' = generated + 1
    BY <1>4 DEF GenerateBegin
  <2>4. lines[l].entries \in Seq(Entry)
    BY <1>1, LineType
  <2>5. SoundEntries(s, inserted, generated)
    BY <1>1, <2>4, SoundSort DEF EntriesInv
  <2>6. s \in Seq(Entry) /\ SoundEntries(s, inserted', generated')
    BY <1>1, <2>3, <2>4, <2>5, SortsType, SoundLater
  <2> QED
    BY <1>1, <1>9, <2>2, <2>6, SoundReplace
<1>5. CASE GeneratePack
  <2> DEFINE e == Place(Entries[i], used)
             s == [Entries EXCEPT ![i] = e]
  <2>1. /\ lines' = [lines EXCEPT ![cur].entries[i] = e]
        /\ inserted' = inserted /\ generated' = generated
        /\ cur \in 1 .. Len(lines) /\ generated >= 1 /\ used \in Nat /\ width \in Nat
    BY <1>5 DEF GeneratePack, LinesInv, CursorInv, TypeOK, WholeInv, SettledInv
  <2>2. Entries \in Seq(Entry) /\ i \in 1 .. Len(Entries) /\ e \in Entry
    BY <1>5, <2>1, EntriesType, PackStep
  <2>3. Entries[i] \in Entry
    BY <2>2, ElementOfSeq
  <2>4. /\ e.id = Entries[i].id /\ e.size = Entries[i].size
        /\ e.pixel_width \in {0, Entries[i].pixel_width}
    BY <2>3 DEF Place, Entry
  <2>5. lines' = [lines EXCEPT ![cur].entries = s]
    BY <2>1 DEF Entries
  <2>6. SoundEntries(Entries, inserted', generated')
    BY <1>1, <2>1 DEF EntriesInv, Entries
  <2> HIDE DEF e
  <2>7. s \in Seq(Entry) /\ SoundEntries(s, inserted', generated')
    BY <1>1, <2>1, <2>2, <2>4, <2>6, ExceptSeq, SoundPlace
  <2> HIDE DEF s
  <2> QED
    BY <1>1, <1>9, <2>1, <2>5, <2>7, SoundReplace
<1>6. CASE GenerateNothing \/ GenerateNoMemory \/ GenerateAlloc \/ GenerateCopy \/ GenerateEnd
  <2>1. UNCHANGED <<lines, inserted, generated>>
    BY <1>6 DEF GenerateNothing, GenerateNoMemory, GenerateAlloc, GenerateCopy, GenerateEnd
  <2> QED BY <1>1, <2>1 DEF EntriesInv
<1>7. CASE UNCHANGED vars
  BY <1>1, <1>7 DEF EntriesInv, vars
<1> QED
  BY <1>2, <1>3, <1>4, <1>5, <1>6, <1>7 DEF Next, Generate


\* A packet stays settled while the line fills up.
LEMMA SettledLater ==
  ASSUME NEW e \in Entry, NEW g, NEW u \in Nat, NEW v \in Nat, u <= v, NEW w \in Nat,
         Settled(e, g, u, w)
  PROVE  Settled(e, g, v, w)
<1>1. e.size \in Nat
  BY DEF Entry
<1> QED BY <1>1 DEF Settled

\* Packing settles one packet after the other.
LEMMA SettledStep ==
  ASSUME LinesInv, WholeInv, [Next]_vars
  PROVE  SettledInv'
<1>1. CASE GenerateBegin
  <2>1. PICK l \in 1 .. Len(lines) :
          /\ \E s \in Sorts(lines[l].entries) : lines' = [lines EXCEPT ![l].entries = s]
          /\ cur' = l
    BY <1>1 DEF GenerateBegin
  <2>2. PICK s \in Sorts(lines[l].entries) : lines' = [lines EXCEPT ![l].entries = s]
    BY <2>1
  <2>3. lines \in Seq(Line) /\ generated \in Nat /\ inserted \in Nat
    BY DEF LinesInv, TypeOK
  <2>4. lines[l].entries \in Seq(Entry)
    BY <2>3, LineType
  <2>5. SoundEntries(s, inserted, generated)
    BY <2>4, SoundSort DEF WholeInv, EntriesInv
  <2>6. Entries' = s
    <3>1. s \in Seq(Entry)
      BY <2>4, SortsType
    <3>2. lines'[l].entries = s
      BY <2>2, <2>3, <3>1, ReplaceEntries
    <3> QED BY <2>1, <3>2 DEF Entries
  <2>7. generated' = generated + 1 /\ i' = 1
    BY <1>1 DEF GenerateBegin
  <2>8. generated' = 1 => \A j \in 1 .. Len(s) : s[j].pixel_width = s[j].size
    BY <2>3, <2>5, <2>7 DEF SoundEntries
  <2> QED
    BY <2>3, <2>6, <2>7, <2>8 DEF SettledInv
<1>2. CASE GeneratePack
  <2> DEFINE e == Entries[i]
             f == Place(e, used)
  <2>1. /\ pc = "pack" /\ cur \in 1 .. Len(lines) /\ used \in Nat /\ width \in Nat
        /\ generated \in Nat /\ inserted \in Nat
    BY <1>2 DEF GeneratePack, LinesInv, CursorInv, TypeOK
  <2>2. /\ i' = i + 1 /\ pc' = pc /\ generated' = generated /\ width' = width
        /\ used' = used + f.pixel_width
    BY <1>2 DEF GeneratePack
  <2>3. /\ Len(Entries') = Len(Entries) /\ Entries'[i] = f /\ i \in 1 .. Len(Entries)
        /\ \A j \in 1 .. Len(Entries) : j # i => Entries'[j] = Entries[j]
        /\ used' \in Nat /\ f \in Entry
    BY <1>2, PackStep
  <2>4. Len(Entries) \in Nat /\ \A j \in 1 .. Len(Entries) : Entries[j] \in Entry
    BY <2>1, EntriesType
  <2>5. /\ generated >= 1
        /\ \A j \in 1 .. i - 1 : Settled(Entries[j], generated, used, width)
        /\ generated = 1 => \A j \in i .. Len(Entries) : Entries[j].pixel_width = Entries[j].size
    BY <2>1 DEF WholeInv, SettledInv
  <2>6. e.size >= 1 /\ e.pixel_width \in {0, e.size} /\ e \in Entry
    BY <2>1, <2>3, <2>4 DEF WholeInv, EntriesInv, SoundEntries, Entries
  <2>7. generated = 1 => e.pixel_width = e.size
    <3>1. i \in i .. Len(Entries)
      BY <2>3, <2>4
    <3> QED BY <2>5, <3>1
  <2> HIDE DEF e
  <2>8. Settled(f, generated, used + f.pixel_width, width)
    BY <2>1, <2>6, <2>7, PlaceSettles
  <2>9. f.pixel_width \in Nat /\ used <= used'
    <3>1. f.pixel_width \in Nat
      BY <2>3 DEF Entry
    <3> QED BY <2>1, <2>2, <3>1
  <2> HIDE DEF f
  <2>10. ASSUME NEW j \in 1 .. i
         PROVE  Settled(Entries'[j], generated, used', width)
    <3>1. CASE j = i
      BY <2>2, <2>3, <2>8, <3>1
    <3>2. CASE j \in 1 .. i - 1
      <4>1. j \in 1 .. Len(Entries) /\ j # i
        BY <2>3, <2>4, <3>2
      <4>2. Settled(Entries[j], generated, used', width)
        BY <2>1, <2>3, <2>4, <2>5, <2>9, <3>2, <4>1, SettledLater
      <4> QED BY <2>3, <4>1, <4>2
    <3> QED BY <2>3, <2>4, <3>1, <3>2
  <2>11. ASSUME generated = 1, NEW j \in i + 1 .. Len(Entries)
         PROVE  Entries'[j].pixel_width = Entries'[j].size
    <3>1. j \in 1 .. Len(Entries) /\ j # i /\ j \in i .. Len(Entries)
      BY <2>3, <2>4
    <3> QED BY <2>3, <2>5, <2>11, <3>1
  <2>12. (i - 1)' = i
    BY <2>2, <2>3, <2>4
  <2> QED BY <2>2, <2>3, <2>5, <2>10, <2>11, <2>12 DEF SettledInv
<1>3. CASE \/ klvanc_line_insert \/ klvanc_line_free \/ GenerateNothing \/ GenerateNoMemory
           \/ GenerateAlloc \/ GenerateCopy \/ GenerateEnd
  <2>1. pc' # "pack"
    BY <1>3 DEF klvanc_line_insert, klvanc_line_free, gen, GenerateNothing,
       GenerateNoMemory, GenerateAlloc, GenerateCopy, GenerateEnd
  <2> QED BY <2>1 DEF SettledInv
<1>4. CASE UNCHANGED vars
  <2>1. SettledInv
    BY DEF WholeInv
  <2> QED
    BY <1>4, <2>1 DEF SettledInv, Entries, vars
<1> QED
  BY <1>1, <1>2, <1>3, <1>4 DEF Next, Generate

\* Copying one packet leaves the packets copied before it in the buffer, for no
\* two of them overlap.
LEMMA CopiedStep ==
  ASSUME LinesInv, WholeInv, [Next]_vars
  PROVE  CopiedInv'
<1>1. CASE GenerateAlloc
  <2>1. /\ pc = "pack" /\ i > Len(Entries) /\ i' = 1
        /\ cur \in 1 .. Len(lines) /\ i \in 1 .. Len(Entries) + 1
        /\ UNCHANGED <<lines, generated, cur, used, width>>
    BY <1>1 DEF GenerateAlloc, LinesInv, CursorInv
  <2>2. Len(Entries) \in Nat /\ Entries' = Entries
    BY <2>1, EntriesType DEF Entries
  <2>3. i - 1 = Len(Entries)
    BY <2>1, <2>2
  <2>4. \A j \in 1 .. Len(Entries) : Settled(Entries[j], generated, used, width)
    BY <2>1, <2>3 DEF WholeInv, SettledInv
  <2> QED BY <2>1, <2>2, <2>4 DEF CopiedInv
<1>2. CASE GenerateCopy
  <2> DEFINE e == Entries[i]
             px == [p \in 1 .. Len(out.pixels) |->
                      IF e.h_offset < p /\ p <= e.h_offset + e.pixel_width
                      THEN <<e.id, p - e.h_offset>> ELSE out.pixels[p]]
  <2>1. /\ pc = "copy" /\ i \in 1 .. Len(Entries) /\ i' = i + 1
        /\ UNCHANGED <<lines, generated, cur, used, width>>
        /\ cur \in 1 .. Len(lines) /\ used \in Nat
    BY <1>2 DEF GenerateCopy, LinesInv, CursorInv, TypeOK
  <2>2. /\ Entries' = Entries /\ Len(Entries) \in Nat
        /\ \A j \in 1 .. Len(Entries) : Entries[j] \in Entry
    BY <2>1, EntriesType DEF Entries
  <2>3. /\ Packed(Len(Entries)) /\ Len(out.pixels) = used
        /\ \A j \in 1 .. Len(Entries) : Settled(Entries[j], generated, used, width)
        /\ \A j \in 1 .. i - 1 : Copied(Entries[j], out.pixels)
    BY <2>1 DEF LinesInv, CopyInv, WholeInv, CopiedInv
  <2>4. End(e) = e.h_offset + e.pixel_width /\ e.h_offset \in Nat /\ e.pixel_width \in Nat
    BY <2>1, <2>2 DEF Entry, End
  <2>5. out' = [kind |-> "buffer", pixels |-> px]
    BY <1>2 DEF GenerateCopy, Buffer
  <2>6. Len(px) = used
    BY <2>1, <2>3
  <2>7. ASSUME NEW j \in 1 .. i
        PROVE  Copied(Entries[j], px)
    <3> SUFFICES ASSUME NEW p \in 1 .. used, Entries[j].h_offset < p, p <= End(Entries[j])
                 PROVE  px[p] = <<Entries[j].id, p - Entries[j].h_offset>>
      BY <2>6 DEF Copied
    <3>1. CASE j = i
      BY <2>3, <2>4, <3>1
    <3>2. CASE j \in 1 .. i - 1
      <4>1. j \in 1 .. Len(Entries) /\ j < i
        BY <2>1, <2>2, <3>2
      <4>2. End(Entries[j]) <= e.h_offset
        BY <2>1, <2>3, <4>1 DEF Packed
      <4>3. End(Entries[j]) \in Nat
        BY <2>2, <4>1 DEF Entry, End
      <4>4. px[p] = out.pixels[p]
        BY <2>3, <2>4, <4>2, <4>3
      <4>5. out.pixels[p] = <<Entries[j].id, p - Entries[j].h_offset>>
        BY <2>3, <3>2 DEF Copied
      <4> QED BY <4>4, <4>5
    <3> QED BY <2>1, <2>2, <3>1, <3>2
  <2> HIDE DEF px
  <2>8. (i - 1)' = i /\ out'.pixels = px
    BY <2>1, <2>2, <2>5
  <2> QED BY <2>1, <2>2, <2>3, <2>7, <2>8 DEF CopiedInv
<1>3. CASE \/ klvanc_line_insert \/ klvanc_line_free \/ GenerateBegin \/ GeneratePack
           \/ GenerateNothing \/ GenerateNoMemory \/ GenerateEnd
  <2>1. pc' # "copy"
    BY <1>3 DEF klvanc_line_insert, klvanc_line_free, gen, GenerateBegin, GeneratePack,
       GenerateNothing, GenerateNoMemory, GenerateEnd
  <2> QED BY <2>1 DEF CopiedInv
<1>4. CASE UNCHANGED vars
  <2>1. CopiedInv
    BY DEF WholeInv
  <2> QED
    BY <1>4, <2>1 DEF CopiedInv, Entries, vars
<1> QED
  BY <1>1, <1>2, <1>3, <1>4 DEF Next, Generate

\* The finished buffer consists of the packets of its line, and stays so while
\* more packets are filed.
LEMMA CarriedStep ==
  ASSUME LinesInv, WholeInv, [Next]_vars
  PROVE  CarriedInv'
<1>1. CASE GenerateEnd
  <2>1. /\ pc = "copy" /\ i \in 1 .. Len(Entries) + 1 /\ i > Len(Entries)
        /\ UNCHANGED <<lines, generated, cur, i, used, width, out>>
        /\ cur \in 1 .. Len(lines) /\ used \in Nat
    BY <1>1 DEF GenerateEnd, LinesInv, CursorInv, TypeOK
  <2>2. /\ Entries' = Entries /\ Len(Entries) \in Nat
        /\ \A j \in 1 .. Len(Entries) : Entries[j] \in Entry
    BY <2>1, EntriesType DEF Entries
  <2>3. i - 1 = Len(Entries)
    BY <2>1, <2>2
  <2>4. /\ Packed(Len(Entries)) /\ Len(out.pixels) = used
        /\ \A j \in 1 .. i - 1 : /\ Settled(Entries[j], generated, used, width)
                                 /\ Copied(Entries[j], out.pixels)
    BY <2>1, <2>3 DEF LinesInv, CopyInv, WholeInv, CopiedInv
  <2>5. \A j \in 1 .. i - 1 : End(Entries[j]) <= used
    BY <2>3, <2>4 DEF Packed
  <2>6. ASSUME NEW p \in 1 .. used
        PROVE  \E j \in 1 .. i - 1 : Entries[j].h_offset < p /\ p <= End(Entries[j])
    <3>1. p - 1 \in 0 .. used - 1
      BY <2>1
    <3>2. PICK j \in 1 .. i - 1 : Entries[j].h_offset <= p - 1 /\ p - 1 < End(Entries[j])
      BY <2>3, <2>4, <3>1 DEF Packed
    <3>3. Entries[j].h_offset \in Nat /\ End(Entries[j]) \in Nat
      BY <2>2, <2>3 DEF Entry, End
    <3> QED BY <3>2, <3>3
  <2> QED BY <2>1, <2>2, <2>3, <2>4, <2>5, <2>6 DEF CarriedInv
<1>2. CASE klvanc_line_insert
  <2>1. UNCHANGED <<generated, out, pc, cur, i, used, width>> /\ pc = "idle"
    BY <1>2 DEF klvanc_line_insert, gen
  <2> SUFFICES ASSUME Finished' PROVE CarriedInv'
    BY DEF CarriedInv
  <2>2. /\ cur \in 1 .. Len(lines) /\ i - 1 <= Len(Entries) /\ i >= 1 /\ Len(out.pixels) = used
        /\ \A j \in 1 .. i - 1 :
             /\ Settled(Entries[j], generated, used, width) /\ End(Entries[j]) <= used
             /\ Copied(Entries[j], out.pixels)
        /\ \A p \in 1 .. used :
             \E j \in 1 .. i - 1 : Entries[j].h_offset < p /\ p <= End(Entries[j])
    BY <2>1 DEF Finished, WholeInv, CarriedInv
  <2>3. /\ cur' \in 1 .. Len(lines') /\ Len(Entries) <= Len(Entries')
        /\ \A j \in 1 .. Len(Entries) : Entries'[j] = Entries[j]
    BY <1>2, <2>2, InsertKeepsEntries
  <2>4. Len(Entries) \in Nat /\ Len(Entries') \in Nat /\ i \in Nat
    <3>1. Len(Entries') \in Nat
      <4>1. lines' \in Seq(Line)
        BY <1>2, InsertStep
      <4>2. lines'[cur'] \in Line
        BY <2>3, <4>1, ElementOfSeq
      <4>3. Entries' \in Seq(Entry)
        BY <4>2 DEF Line, Entries
      <4> QED BY <4>3, LenProperties
    <3> QED BY <2>2, <3>1, EntriesType DEF LinesInv, TypeOK
  <2>5. \A j \in 1 .. i - 1 : Entries'[j] = Entries[j]
    BY <2>2, <2>3, <2>4
  <2>6. i - 1 <= Len(Entries')
    BY <2>2, <2>3, <2>4
  <2>7. \A j \in 1 .. i - 1 :
          /\ Settled(Entries'[j], generated, used, width) /\ End(Entries'[j]) <= used
          /\ Copied(Entries'[j], out.pixels)
    BY <2>2, <2>5
  <2>8. \A p \in 1 .. used :
          \E j \in 1 .. i - 1 : Entries'[j].h_offset < p /\ p <= End(Entries'[j])
    BY <2>2, <2>5
  <2> QED BY <2>1, <2>2, <2>3, <2>6, <2>7, <2>8 DEF CarriedInv
<1>3. CASE klvanc_line_free \/ GenerateNothing
  <2>1. ~Finished'
    BY <1>3 DEF klvanc_line_free, GenerateNothing, Finished, Result, Unset, Garbage
  <2> QED BY <2>1 DEF CarriedInv
<1>4. CASE GenerateNoMemory
  <2>1. ~Finished'
    BY <1>4 DEF GenerateNoMemory, LinesInv, CursorInv, Finished, Unset
  <2> QED BY <2>1 DEF CarriedInv
<1>5. CASE GenerateBegin \/ GeneratePack \/ GenerateAlloc \/ GenerateCopy
  <2>1. pc' # "idle"
    BY <1>5 DEF GenerateBegin, GeneratePack, GenerateAlloc, GenerateCopy
  <2> QED BY <2>1 DEF CarriedInv, Finished
<1>6. CASE UNCHANGED vars
  <2>1. CarriedInv
    BY DEF WholeInv
  <2> QED BY <1>6, <2>1 DEF CarriedInv, Finished, Entries, vars
<1> QED
  BY <1>1, <1>2, <1>3, <1>4, <1>5, <1>6 DEF Next, Generate

\* In every reachable state the finished buffer consists of whole packets.
THEOREM LinesCarried == Spec => []WholeInv
<1>1. Init => WholeInv
  BY DEF Init, WholeInv, EntriesInv, SettledInv, CopiedInv, CarriedInv, Finished, Unset
<1>2. LinesInv /\ WholeInv /\ [Next]_vars => WholeInv'
  BY EntriesStep, SettledStep, CopiedStep, CarriedStep DEF WholeInv
<1> QED BY <1>1, <1>2, LinesInvariant, PTL DEF Spec

\* No packet is cut: a packet of which the finished line carries one sample is
\* there with all its samples, in order, and is legal.
THEOREM PacketsAreWhole == Spec => []PacketsWhole
<1>1. ASSUME LinesInv, WholeInv
      PROVE  PacketsWhole
  <2> SUFFICES ASSUME Finished, NEW p \in 1 .. Len(out.pixels)
               PROVE  LET x == out.pixels[p][1]
                          k == out.pixels[p][2]
                          e == EntryOf(x) IN
                      /\ ~(e.illegal /\ e.size > 3)
                      /\ 1 <= k /\ k <= e.size
                      /\ \A m \in 1 .. e.size :
                           p - k + m \in 1 .. Len(out.pixels) /\ out.pixels[p - k + m] = <<x, m>>
    BY DEF PacketsWhole
  <2>1. /\ cur \in 1 .. Len(lines) /\ i - 1 <= Len(Entries) /\ i >= 1 /\ Len(out.pixels) = used
        /\ \A j \in 1 .. i - 1 :
             /\ Settled(Entries[j], generated, used, width) /\ End(Entries[j]) <= used
             /\ Copied(Entries[j], out.pixels)
        /\ \A q \in 1 .. used :
             \E j \in 1 .. i - 1 : Entries[j].h_offset < q /\ q <= End(Entries[j])
    BY <1>1 DEF WholeInv, CarriedInv
  <2>2. i \in Nat /\ used \in Nat /\ Len(Entries) \in Nat
        /\ \A j \in 1 .. Len(Entries) : Entries[j] \in Entry
    BY <1>1, <2>1, EntriesType DEF LinesInv, TypeOK
  <2>3. PICK j \in 1 .. i - 1 : Entries[j].h_offset < p /\ p <= End(Entries[j])
    BY <2>1
  <2> DEFINE e == Entries[j]
  <2>4. j \in 1 .. Len(Entries) /\ e \in Entry
    BY <2>1, <2>2
  <2>5. /\ e.h_offset \in Nat /\ e.pixel_width \in Nat /\ e.size \in Nat
        /\ End(e) = e.h_offset + e.pixel_width
    BY <2>4 DEF Entry, End
  <2>6. out.pixels[p] = <<e.id, p - e.h_offset>>
    BY <2>1, <2>3 DEF Copied
  <2>7. EntryOf(e.id) = e
    <3>1. \A k \in 1 .. Len(Entries) : Entries[k].id = e.id => k = j
      BY <1>1, <2>1, <2>4 DEF WholeInv, EntriesInv, SoundEntries, Entries
    <3>2. e \in {Entries[k] : k \in 1 .. Len(Entries)}
      BY <2>4
    <3>3. \A f \in {Entries[k] : k \in 1 .. Len(Entries)} : f.id = e.id => f = e
      BY <3>1
    <3> HIDE DEF e
    <3> QED BY <3>2, <3>3 DEF EntryOf
  <2>8. e.pixel_width = e.size /\ Legal(e)
    <3>1. e.pixel_width # 0
      BY <2>3, <2>5
    <3> QED BY <2>1, <3>1 DEF Settled
  <2>9. End(e) <= used /\ Copied(e, out.pixels)
    BY <2>1
  <2> HIDE DEF e
  <2>10. e.h_offset < p /\ p <= End(e)
    BY <2>3 DEF e
  <2>11. ASSUME NEW m \in 1 .. e.size
         PROVE  /\ p - (p - e.h_offset) + m \in 1 .. Len(out.pixels)
                /\ out.pixels[p - (p - e.h_offset) + m] = <<e.id, m>>
    <3>1. p - (p - e.h_offset) + m = e.h_offset + m
      BY <2>1, <2>2, <2>5
    <3>2. e.h_offset + m \in 1 .. Len(out.pixels)
      BY <2>1, <2>2, <2>5, <2>8, <2>9, SMTT(30)
    <3>5. e.h_offset < e.h_offset + m /\ e.h_offset + m <= End(e)
      BY <2>5, <2>8
    <3>3. out.pixels[e.h_offset + m] = <<e.id, (e.h_offset + m) - e.h_offset>>
      BY <2>9, <3>2, <3>5 DEF Copied
    <3>4. (e.h_offset + m) - e.h_offset = m
      BY <2>5
    <3> QED BY <3>1, <3>2, <3>3, <3>4
  <2>12. 1 <= p - e.h_offset /\ p - e.h_offset <= e.size
    BY <2>1, <2>2, <2>5, <2>8, <2>10
  <2>13. out.pixels[p][1] = e.id /\ out.pixels[p][2] = p - e.h_offset
    BY <2>6
  <2> QED BY <2>7, <2>8, <2>11, <2>12, <2>13 DEF Legal
<1> QED BY <1>1, LinesInvariant, LinesCarried, PTL

\* A legal packet is left out of the first line generated only when the finished
\* line has no room for it.
THEOREM NoneIsLeftOut == Spec => []NoneLeftOut
<1>1. ASSUME LinesInv, WholeInv
      PROVE  NoneLeftOut
  <2> SUFFICES ASSUME Finished, generated = 1, NEW j \in 1 .. i - 1, Legal(Entries[j]),
                      \A p \in 1 .. Len(out.pixels) : out.pixels[p][1] # Entries[j].id
               PROVE  Len(out.pixels) + Entries[j].size > width
    BY DEF NoneLeftOut, Legal
  <2> DEFINE e == Entries[j]
  <2>1. /\ cur \in 1 .. Len(lines) /\ i - 1 <= Len(Entries) /\ i >= 1 /\ Len(out.pixels) = used
        /\ Settled(e, generated, used, width) /\ End(e) <= used
        /\ Copied(e, out.pixels)
    BY <1>1 DEF WholeInv, CarriedInv
  <2>2. i \in Nat /\ used \in Nat /\ Len(Entries) \in Nat
        /\ \A k \in 1 .. Len(Entries) : Entries[k] \in Entry
    BY <1>1, <2>1, EntriesType DEF LinesInv, TypeOK
  <2>3. e \in Entry
    BY <2>1, <2>2
  <2>4. /\ e.h_offset \in Nat /\ e.pixel_width \in Nat /\ e.size \in Nat
        /\ End(e) = e.h_offset + e.pixel_width
    BY <2>3 DEF Entry, End
  <2>5. ASSUME e.pixel_width # 0
        PROVE  FALSE
    <3> DEFINE o == e.h_offset
               w == e.pixel_width
               t == End(e)
               n == Len(out.pixels)
    <3>0. o \in Nat /\ w \in Nat /\ w # 0 /\ t = o + w /\ t <= n /\ n \in Nat
      BY <2>1, <2>2, <2>4, <2>5
    <3> HIDE DEF o, w, t, n
    <3>a. o + 1 \in 1 .. n /\ o < o + 1 /\ o + 1 <= t
      BY <3>0
    <3> USE DEF o, t, n
    <3>1. e.h_offset + 1 \in 1 .. Len(out.pixels) /\ e.h_offset < e.h_offset + 1
          /\ e.h_offset + 1 <= End(e)
      BY <3>a
    <3>2. out.pixels[e.h_offset + 1] = <<e.id, e.h_offset + 1 - e.h_offset>>
      BY <2>1, <3>1 DEF Copied
    <3> QED BY <3>1, <3>2
  <2> QED BY <2>1, <2>5 DEF Settled
<1> QED BY <1>1, LinesInvariant, LinesCarried, PTL

=============================================================================
