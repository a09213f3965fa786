-------------------------- MODULE MCPacketParser --------------------------
(* Model checking PacketParser: the lines that arrive.  The lines are made *)
(* from the frames below, whole or damaged.                                *)
EXTENDS PacketParser

Scte104 == [did |-> 65, sdid |-> 7]   \* 0x41, 0x07: a type with a decoder
Other   == [did |-> 80, sdid |-> 1]   \* no decoder

MCTypes == {<<65, 7>>}

Item(gap, id, bytes) == [gap |-> gap, did |-> id.did, sdid |-> id.sdid, bytes |-> bytes]

First  == {Item(0, Scte104, <<1>>), Item(2, Scte104, <<255, 0>>)}
Second == {Item(g, id, b) : g \in {0, 3}, id \in {Scte104, Other}, b \in {<<4>>, <<3, 254>>}}

Sent  == {<<f>> : f \in First} \cup {<<f, s>> : f \in First, s \in Second}

WholeLine(s) == [sent |-> s, words |-> Wire(s), bad |-> 0]
WholeLines   == {WholeLine(s) : s \in Sent}

\* One word takes another value: a word of the flag, or one bit more or less.
Flip(w, k) == IF Bit(w, k) THEN w - 2^k ELSE w + 2^k
Damage(w) == {0, 1023, Flip(w, 0), Flip(w, 3), Flip(w, 8), Flip(w, 9)} \ {w}
DamagedLines ==
  UNION {UNION {{[sent |-> l.sent, words |-> [l.words EXCEPT ![p] = v], bad |-> p] :
                   v \in Damage(l.words[p])} : p \in 1 .. Len(l.words)} : l \in WholeLines}

\* The line ends early, but not before its seventh word.
CutLines ==
  UNION {{[l EXCEPT !.words = SubSeq(@, 1, n)] : n \in 7 .. Len(l.words) - 1} : l \in WholeLines}

\* A flag without a frame somewhere before the last frame.
StrayLines ==
  {[sent |-> s, words |-> <<0, 1023, 1023>> \o [k \in 1 .. n |-> 64] \o Wire(s), bad |-> 0] :
     s \in Sent, n \in 0 .. 5}

\* Nothing, and more than the parser takes.
OddLines == {[sent |-> <<>>, words |-> [k \in 1 .. n |-> 64], bad |-> 0] : n \in {0, 7, 301}}

AllLines == WholeLines \cup DamagedLines \cup CutLines \cup StrayLines \cup OddLines

\* The lines meet the hypothesis of the theorems about what was sent.
ASSUME ShortAssumption == ShortPayloads

=============================================================================
