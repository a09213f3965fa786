----------------------------- MODULE VancLines -----------------------------
(***************************************************************************)
(* Assembly of VANC lines for output (core-lines.c, vanc-lines.h).         *)
(*                                                                         *)
(* klvanc_line_insert files packets under their line number;               *)
(* klvanc_generate_vanc_line sorts the packets of one line, moves them     *)
(* together, drops those that are illegal or do not fit, and copies the    *)
(* rest into a new buffer; klvanc_generate_vanc_line_v210 does the same    *)
(* and repacks the buffer.  The loops run one packet per step.  malloc may *)
(* fail wherever it is called.                                             *)
(*                                                                         *)
(* Abstraction: a packet's payload is its identity and its length; sample  *)
(* k of packet x is <<x, k>>, and illegal tells whether a sample after the *)
(* start words is outside 0x004..0x3FB.                                    *)
(***************************************************************************)
EXTENDS Integers, Sequences

CONSTANTS
  MaxLines,      \* KLVANC_MAX_VANC_LINES (64)
  MaxEntries,    \* KLVANC_MAX_VANC_ENTRIES (16)
  Numbers,       \* line numbers callers use
  Offsets,       \* horizontal offsets callers ask for
  PktWidths,     \* widths of the packets callers insert
  LineWidths,    \* widths of the lines callers generate
  MaxInserts,    \* bound: packets inserted
  MaxGenerates   \* bound: lines generated

ASSUME LinesAssumption ==
  /\ MaxLines \in Nat \ {0} /\ MaxEntries \in Nat \ {0}
  /\ Offsets \subseteq Nat
  /\ PktWidths \subseteq Nat \ {0}
  /\ LineWidths \subseteq Nat
  /\ MaxInserts \in Nat /\ MaxGenerates \in Nat

VARIABLES
  lines,      \* klvanc_line_set_s.lines[0 .. num_lines - 1]
  inserted,   \* packets inserted so far; also the last packet's identity
  generated,  \* calls of klvanc_generate_vanc_line so far
  pc,         \* "idle", "pack" or "copy": the loop the generator is in
  cur,        \* index of the line it works on
  i,          \* index of the entry it takes next
  used,       \* pixels_used
  width,      \* line_pixel_width
  v210,       \* it was called by klvanc_generate_vanc_line_v210
  out,        \* the output buffer while it is filled, and the last result
  crashed     \* a null pointer was dereferenced

gen  == <<pc, cur, i, used, width, v210>>
vars == <<lines, inserted, generated, pc, cur, i, used, width, v210, out, crashed>>

Entry == [id : Nat, h_offset : Nat, size : Nat, pixel_width : Nat, illegal : BOOLEAN]
Line  == [number : Numbers, entries : Seq(Entry)]

\* What the caller's outbuf holds: nothing (never written), a buffer of
\* samples with Hole where nothing was copied, or, for the v210 caller, the
\* result of repacking a buffer that was never allocated.
Hole    == <<0, 0>>
Unset   == [kind |-> "unset", pixels |-> <<>>]
Garbage == [kind |-> "garbage", pixels |-> <<>>]
Buffer(px) == [kind |-> "buffer", pixels |-> px]

TypeOK ==
  /\ lines \in Seq(Line)
  /\ inserted \in Nat /\ generated \in Nat
  /\ pc \in {"idle", "pack", "copy"}
  /\ cur \in Nat /\ i \in Nat /\ used \in Nat /\ width \in Nat
  /\ v210 \in BOOLEAN
  /\ out \in [kind : {"unset", "garbage", "buffer"}, pixels : Seq(Nat \X Nat)]
  /\ crashed \in BOOLEAN

Init ==
  /\ lines = <<>> /\ inserted = 0 /\ generated = 0
  /\ pc = "idle" /\ cur = 0 /\ i = 0 /\ used = 0 /\ width = 0 /\ v210 = FALSE
  /\ out = Unset /\ crashed = FALSE

----------------------------------------------------------------------------
(* klvanc_line_insert.  Every -ENOMEM return leaves the line set as it was *)
(* and is a stuttering step: the entry could not be allocated, all slots   *)
(* are taken by other lines, or the line is full.                          *)

\* Mutant: the three start words are not counted.
NewEntryWithoutStart(off, w, bad) ==
  [id |-> inserted + 1, h_offset |-> off, size |-> w, pixel_width |-> w - 3, illegal |-> bad]

NewEntry(off, w, bad) ==
  [id |-> inserted + 1, h_offset |-> off, size |-> w, pixel_width |-> w, illegal |-> bad]

\* Mutant: the test for a full line is off by one.
InsertInLineTooMany(n, e) ==
  \E l \in 1 .. Len(lines) :
    /\ lines[l].number = n
    /\ Len(lines[l].entries) <= MaxEntries
    /\ lines' = [lines EXCEPT ![l].entries = Append(@, e)]
    /\ UNCHANGED crashed

\* The line already has a slot: append the packet to it.
InsertInLine(n, e) ==
  \E l \in 1 .. Len(lines) :
    /\ lines[l].number = n
    /\ Len(lines[l].entries) < MaxEntries
    /\ lines' = [lines EXCEPT ![l].entries = Append(@, e)]
    /\ UNCHANGED crashed

\* The first free slot becomes a new line.  When klvanc_line_create fails
\* the null line is stored and dereferenced.
InsertNewLine(n, e) ==
  /\ \A l \in 1 .. Len(lines) : lines[l].number # n
  /\ Len(lines) < MaxLines
  /\ \/ /\ lines' = Append(lines, [number |-> n, entries |-> <<e>>])
        /\ UNCHANGED crashed
     \/ /\ crashed' = TRUE
        /\ UNCHANGED lines

klvanc_line_insert ==
  /\ pc = "idle" /\ ~crashed /\ inserted < MaxInserts
  /\ \E n \in Numbers, off \in Offsets, w \in PktWidths, bad \in BOOLEAN :
       InsertInLine(n, NewEntry(off, w, bad)) \/ InsertNewLine(n, NewEntry(off, w, bad))
  /\ inserted' = inserted + 1
  /\ UNCHANGED <<generated, out>> /\ UNCHANGED gen

\* The frame is out: its caller frees each line with its packets and starts
\* with an empty line set.
klvanc_line_free ==
  /\ pc = "idle" /\ ~crashed /\ lines # <<>>
  /\ lines' = <<>> /\ out' = Unset
  /\ UNCHANGED <<inserted, generated, crashed>> /\ UNCHANGED gen

----------------------------------------------------------------------------
(* klvanc_generate_vanc_line *)

Entries == lines[cur].entries

\* qsort by h_offset.  It is not stable: packets with equal offsets come out
\* in any order.
Sorts(s) ==
  {[j \in 1 .. Len(s) |-> s[p[j]]] :
     p \in {q \in [1 .. Len(s) -> 1 .. Len(s)] :
              /\ \A j, k \in 1 .. Len(s) : j # k => q[j] # q[k]
              /\ \A j, k \in 1 .. Len(s) : j < k => s[q[j]].h_offset <= s[q[k]].h_offset}}

GenerateBegin ==
  /\ pc = "idle" /\ ~crashed /\ generated < MaxGenerates
  /\ \E l \in 1 .. Len(lines), w \in LineWidths, packed \in BOOLEAN :
       /\ \E s \in Sorts(lines[l].entries) : lines' = [lines EXCEPT ![l].entries = s]
       /\ cur' = l /\ width' = w /\ v210' = packed
  /\ pc' = "pack" /\ i' = 1 /\ used' = 0
  /\ generated' = generated + 1 /\ out' = Unset
  /\ UNCHANGED <<inserted, crashed>>

\* Mutants of Place: only gaps are closed; only overlaps are resolved; a packet
\* too long is cut; a packet that just fits is dropped.
PlaceOverlapping(e, n) ==
  [e EXCEPT !.h_offset = IF @ > n THEN n ELSE @,
            !.pixel_width = IF (e.illegal /\ @ > 3) \/ n + @ > width THEN 0 ELSE @]
PlaceWithGaps(e, n) ==
  [e EXCEPT !.h_offset = IF @ < n THEN n ELSE @,
            !.pixel_width = IF (e.illegal /\ @ > 3) \/ n + @ > width THEN 0 ELSE @]
PlaceCut(e, n) ==
  [e EXCEPT !.h_offset = n,
            !.pixel_width = IF e.illegal /\ @ > 3 THEN 0
                            ELSE IF n + @ > width THEN width - n ELSE @]
PlaceExact(e, n) ==
  [e EXCEPT !.h_offset = n,
            !.pixel_width = IF (e.illegal /\ @ > 3) \/ n + @ >= width THEN 0 ELSE @]

\* Where entry e goes when n pixels are in use: right behind them, with no
\* width when it is illegal or would overflow the line.
Place(e, n) ==
  [e EXCEPT !.h_offset = n,
            !.pixel_width = IF (e.illegal /\ @ > 3) \/ n + @ > width THEN 0 ELSE @]

GeneratePack ==
  /\ pc = "pack" /\ i <= Len(Entries)
  /\ LET e == Place(Entries[i], used) IN
       /\ lines' = [lines EXCEPT ![cur].entries[i] = e]
       /\ used' = used + e.pixel_width
  /\ i' = i + 1
  /\ UNCHANGED <<inserted, generated, pc, cur, width, v210, out, crashed>>

\* What the caller is left with: the wrapper repacks and frees the buffer it
\* believes it has.
Result(buf) == IF v210 /\ buf = Unset THEN Garbage ELSE buf

\* No pixels: success, with outbuf and out_len not written.
GenerateNothing ==
  /\ pc = "pack" /\ i > Len(Entries) /\ used = 0
  /\ out' = Result(Unset) /\ pc' = "idle"
  /\ UNCHANGED <<lines, inserted, generated, cur, i, used, width, v210, crashed>>

\* The buffer cannot be allocated: -ENOMEM, which the wrapper returns.
GenerateNoMemory ==
  /\ pc = "pack" /\ i > Len(Entries) /\ used # 0
  /\ pc' = "idle"
  /\ UNCHANGED <<lines, inserted, generated, cur, i, used, width, v210, out, crashed>>

GenerateAlloc ==
  /\ pc = "pack" /\ i > Len(Entries) /\ used # 0
  /\ out' = Buffer([p \in 1 .. used |-> Hole])
  /\ pc' = "copy" /\ i' = 1
  /\ UNCHANGED <<lines, inserted, generated, cur, used, width, v210, crashed>>

\* memcpy of one entry to its offset
GenerateCopy ==
  /\ pc = "copy" /\ i <= Len(Entries)
  /\ LET e == Entries[i] IN
       out' = Buffer([p \in 1 .. Len(out.pixels) |->
                        IF e.h_offset < p /\ p <= e.h_offset + e.pixel_width
                        THEN <<e.id, p - e.h_offset>> ELSE out.pixels[p]])
  /\ i' = i + 1
  /\ UNCHANGED <<lines, inserted, generated, pc, cur, used, width, v210, crashed>>

GenerateEnd ==
  /\ pc = "copy" /\ i > Len(Entries)
  /\ pc' = "idle"
  /\ UNCHANGED <<lines, inserted, generated, cur, i, used, width, v210, out, crashed>>

Generate ==
  \/ GeneratePack \/ GenerateNothing \/ GenerateNoMemory
  \/ GenerateAlloc \/ GenerateCopy \/ GenerateEnd

Next == klvanc_line_insert \/ klvanc_line_free \/ GenerateBegin \/ Generate
Spec == Init /\ [][Next]_vars

----------------------------------------------------------------------------
(* Properties *)

End(e) == e.h_offset + e.pixel_width

\* The first n packets lie side by side, in the order of their offsets, from
\* the start of the line to used, inside the line.
Packed(n) ==
  /\ used <= width
  /\ \A j \in 1 .. n : End(Entries[j]) <= used
  /\ \A j, k \in 1 .. n : j < k => End(Entries[j]) <= Entries[k].h_offset
  /\ \A p \in 0 .. used - 1 :
       \E j \in 1 .. n : Entries[j].h_offset <= p /\ p < End(Entries[j])

\* Packing: the packets placed so far are packed.  "Ensuring no VANC packets
\* with a given line/offset will overlap", "there are no gaps between VANC
\* packets", "the sum of all VANC packets does not overflow the line length".
PackedPrefix == pc = "pack" => Packed(i - 1)

\* The result of a finished call, when there is one.
Finished == pc = "idle" /\ out.kind = "buffer"

\* The line handed to the caller has no uninitialised sample and is no longer
\* than the line it is for.
NoHoles ==
  Finished => /\ Len(out.pixels) <= width
              /\ \A p \in 1 .. Len(out.pixels) : out.pixels[p] # Hole

\* The entry with identity x on the line generated last.
EntryOf(x) == CHOOSE e \in {Entries[j] : j \in 1 .. Len(Entries)} : e.id = x

\* No packet is cut: a packet of which the line carries one sample is there
\* with all its samples, in order, and is a legal packet of that line.
PacketsWhole ==
  Finished =>
    \A p \in 1 .. Len(out.pixels) :
      LET x == out.pixels[p][1]
          k == out.pixels[p][2]
          e == EntryOf(x) IN
      /\ ~(e.illegal /\ e.size > 3)
      /\ 1 <= k /\ k <= e.size
      /\ \A m \in 1 .. e.size :
           p - k + m \in 1 .. Len(out.pixels) /\ out.pixels[p - k + m] = <<x, m>>

\* Each line number has one slot, filled with at least one packet, so no
\* packet is filed under a line that is generated twice or not at all.
LineSetSound ==
  /\ Len(lines) <= MaxLines
  /\ \A l \in 1 .. Len(lines) : Len(lines[l].entries) \in 1 .. MaxEntries
  /\ \A l, m \in 1 .. Len(lines) : lines[l].number = lines[m].number => l = m

\* A legal packet is left out only for want of room: the finished line is too
\* full to take it.  (For the first call: generating clears the width of a
\* packet that does not fit, so it stays out of a wider line generated later.)
NoneLeftOut ==
  Finished /\ generated = 1 =>
    \A j \in 1 .. i - 1 :
      LET e == Entries[j] IN
      /\ ~(e.illegal /\ e.size > 3)
      /\ \A p \in 1 .. Len(out.pixels) : out.pixels[p][1] # e.id
      => Len(out.pixels) + e.size > width

\* Whoever asks for a line gets one he can use: the wrapper never repacks and
\* frees a buffer that was not allocated ("The memory for the buffer will be
\* allocated by the function").
NeverGarbage == out.kind # "garbage"

=============================================================================
