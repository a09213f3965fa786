------------------------- MODULE Scte104Fragments -------------------------
(***************************************************************************)
(* Reassembly of SCTE-104 messages that SMPTE ST 2010 splits over several  *)
(* VANC packets (core-packet-scte_104.c: parse_SCTE_104 and the            *)
(* messageFragment* functions; klvanc_context_s.scte104_fragments).        *)
(*                                                                         *)
(* A sender emits messages of one or more packets.  The raster carrying    *)
(* them may lose a packet (a dropped frame, or a bad checksum, which makes *)
(* klvanc_packet_parse skip the decoder), repeat one (a repeated frame) or *)
(* carry packets the decoder rejects.  malloc may fail.                    *)
(*                                                                         *)
(* Abstraction: the content of a packet after its descriptor byte is one   *)
(* word naming the message and the position it was cut from; the first     *)
(* word stands for the message header with its messageSize.  A message     *)
(* whose operations do not decode (wrong opID, too short, an operation     *)
(* running past the end) has ok = FALSE.  Words that are not a whole       *)
(* message as it was sent, because one is missing, repeated or of another  *)
(* message, shift its operations: whether those decode is up to their      *)
(* bytes, so either may happen.  The decoder runs with an scte_104         *)
(* callback installed: without one it returns at once.                     *)
(***************************************************************************)
EXTENDS Integers, Sequences, FiniteSets

CONSTANTS
  MaxFragments,   \* LIBKLVANC_SCTE104_MAX_FRAGMENTS (10)
  MaxPayload,     \* LIBKLVANC_PACKET_MAX_PAYLOAD (16384)
  MaxMessages,    \* bound: messages the sender emits
  MaxPackets,     \* bound: packets of a message
  MaxLost,        \* bound: packets lost, on the raster or to a failed malloc
  MaxRepeated,    \* bound: packets repeated
  Malformed       \* TRUE if senders may emit malformed messages

ASSUME FragmentsAssumption ==
  /\ MaxFragments \in Nat /\ MaxFragments > 1
  /\ MaxPayload \in Nat /\ MaxPayload >= MaxFragments * 9
  /\ MaxMessages \in Nat
  /\ MaxPackets \in Nat \ {0}
  /\ MaxLost \in Nat /\ MaxRepeated \in Nat
  /\ Malformed \in BOOLEAN

VARIABLES
  msgs,        \* the messages emitted so far, the last one in progress
  next,        \* the packet of the last message the sender emits next
  fragments,   \* ctx->scte104_fragments[0 .. scte104_fragment_count - 1]
  live,        \* packet headers allocated for reassembly and not freed
  last,        \* words of the message last passed to callbacks->scte_104
  lost,        \* packets lost so far
  repeated,    \* packets repeated so far
  clean,       \* nothing disturbed the message in progress so far
  destroyed    \* klvanc_context_destroy has run

vars == <<msgs, next, fragments, live, last, lost, repeated, clean, destroyed>>

\* A message: its packets, its messageSize field in words, whether the rest
\* of it decodes.
Message == [n : 1 .. MaxPackets, size : 1 .. MaxPackets + 1, ok : BOOLEAN]
Honest(m) == m.size = m.n /\ m.ok

Word == [id : Nat, pos : Nat]
Packet == [desc : 0 .. 255, word : Word]

TypeOK ==
  /\ msgs \in Seq(Message)
  /\ next \in Nat
  /\ fragments \in Seq(Packet)
  /\ live \in Nat
  /\ last \in Seq(Word)
  /\ lost \in Nat /\ repeated \in Nat
  /\ clean \in BOOLEAN /\ destroyed \in BOOLEAN

Init ==
  /\ msgs = <<>> /\ next = 1
  /\ fragments = <<>> /\ live = 0 /\ last = <<>>
  /\ lost = 0 /\ repeated = 0 /\ clean = TRUE /\ destroyed = FALSE

----------------------------------------------------------------------------
(* The payload descriptor byte *)

\* Version in bits 4-3, continued in bit 2, following in bit 1, duplicate in
\* bit 0.
Duplicate(b) == b % 2 = 1
Following(b) == (b \div 2) % 2 = 1
Continued(b) == (b \div 4) % 2 = 1

\* What parse_SCTE_104 takes a packet for.
Kind(b) ==
  IF Duplicate(b) THEN "duplicate"
  ELSE IF b = 8 THEN "single"
  ELSE IF Continued(b) THEN (IF Following(b) THEN "mid" ELSE "first")
  ELSE IF Following(b) THEN "final" ELSE "other"

\* The descriptor byte ST 2010 prescribes for packet i of a message of n.
Descriptor(i, n) ==
  8 + (IF i < n THEN 4 ELSE 0) + (IF i > 1 THEN 2 ELSE 0)

----------------------------------------------------------------------------
(* parse_SCTE_104 *)

WordsOf(frags) == [i \in 1 .. Len(frags) |-> frags[i].word]

\* The words of a message as it was sent.
WordsOfMessage(id) == [i \in 1 .. msgs[id].n |-> [id |-> id, pos |-> i]]

\* Mutant of Decodings: the size the message claims is not compared with what
\* was received.
DecodingsAnySize(words) ==
  IF words = WordsOfMessage(words[1].id) THEN {msgs[words[1].id].ok} ELSE BOOLEAN

\* Whether the decoder accepts these words.  The header of the message is the
\* first: one that claims more than was received is refused.  A message as it
\* was sent decodes if it is well formed; of other words the operations may
\* decode or run past the end.
Decodings(words) ==
  LET m == msgs[words[1].id]
  IN  IF m.size > Len(words) THEN {FALSE}
      ELSE IF words = WordsOfMessage(words[1].id) THEN {m.ok} ELSE BOOLEAN

\* klvanc_packet_payload_append refuses to exceed the raw array; a fragment has
\* two payload words (descriptor and content) and seven words around them.
RawWords == 2 + 7
Overflows(frags) == Len(frags) * RawWords > MaxPayload

\* Mutant of messageFragmentReset: the count is not set back to zero.
ResetKeepsCount ==
  /\ UNCHANGED fragments
  /\ live' = live - Len(fragments)

\* messageFragmentReset: every stored header is freed.
messageFragmentReset ==
  /\ fragments' = <<>>
  /\ live' = live - Len(fragments)

\* messageFragmentAppend: a copy of the header becomes the last fragment.
messageFragmentAppend(p) ==
  /\ fragments' = Append(fragments, p)
  /\ live' = live + 1

\* A complete message in one packet loses any fragments collected so far.
HandleSingle(p) ==
  /\ Kind(p.desc) = "single"
  /\ messageFragmentReset
  /\ \E decoded \in Decodings(<<p.word>>) : last' = IF decoded THEN <<p.word>> ELSE last

\* Mutant of HandleFirst: a partial message is not reset first.
HandleFirstWithoutReset(p) ==
  /\ Kind(p.desc) = "first"
  /\ messageFragmentAppend(p)
  /\ UNCHANGED last

\* First packet: reset, then messageFragmentContinued.
HandleFirst(p) ==
  /\ Kind(p.desc) = "first"
  /\ fragments' = <<p>>
  /\ live' = live - Len(fragments) + 1
  /\ UNCHANGED last

\* Mutants of HandleFollowing: the overflow check compares the count itself,
\* or is one too strict, or is missing.
HandleFollowingLate(p) ==
  /\ Kind(p.desc) = "mid"
  /\ IF Len(fragments) = 0 \/ Len(fragments) = MaxFragments
     THEN messageFragmentReset
     ELSE messageFragmentAppend(p)
  /\ UNCHANGED last

HandleFollowingEarly(p) ==
  /\ Kind(p.desc) = "mid"
  /\ IF Len(fragments) = 0 \/ Len(fragments) + 2 = MaxFragments
     THEN messageFragmentReset
     ELSE messageFragmentAppend(p)
  /\ UNCHANGED last

HandleFollowingUnchecked(p) ==
  /\ Kind(p.desc) = "mid"
  /\ IF Len(fragments) = 0 THEN messageFragmentReset ELSE messageFragmentAppend(p)
  /\ UNCHANGED last

\* Intermediate packet: messageFragmentFollowing.
HandleFollowing(p) ==
  /\ Kind(p.desc) = "mid"
  /\ IF Len(fragments) = 0 \/ Len(fragments) + 1 = MaxFragments
     THEN messageFragmentReset
     ELSE messageFragmentAppend(p)
  /\ UNCHANGED last

\* Mutant of HandleFinal: the assembled header is not freed after the callback.
HandleFinalKeepsHeader(p) ==
  LET all == Append(fragments, p) IN
  /\ Kind(p.desc) = "final"
  /\ fragments' = <<>>
  /\ IF Len(fragments) = 0 THEN UNCHANGED <<live, last>>
     ELSE /\ live' = live - Len(fragments) + 1
          /\ \E decoded \in Decodings(WordsOf(all)) :
               last' = IF ~Overflows(all) /\ decoded THEN WordsOf(all) ELSE last

\* Final packet: messageFragmentFinal assembles the payloads of the fragments
\* in a header of its own, which is freed only after a successful decode.
HandleFinal(p) ==
  LET all == Append(fragments, p) IN
  /\ Kind(p.desc) = "final"
  /\ fragments' = <<>>
  /\ IF Len(fragments) = 0 THEN UNCHANGED <<live, last>>
     ELSE \E decoded \in Decodings(WordsOf(all)) :
       IF ~Overflows(all) /\ decoded
       THEN /\ last' = WordsOf(all)
            /\ live' = live - Len(fragments)
       ELSE /\ live' = live - Len(fragments) + 1
            /\ UNCHANGED last

\* A packet flagged as duplicate, or with a descriptor of no known kind.
HandleRejected(p) ==
  /\ Kind(p.desc) \in {"duplicate", "other"}
  /\ UNCHANGED <<fragments, live, last>>

parse_SCTE_104(p) ==
  \/ HandleSingle(p) \/ HandleFirst(p) \/ HandleFollowing(p)
  \/ HandleFinal(p) \/ HandleRejected(p)

\* The same handler when an allocation fails: the packet object itself (no
\* effect), the copy of a first packet (the list stays empty), of an
\* intermediate packet (the list stays as it was), of a final packet or the
\* assembled header (the list is reset), or the operations of a message: then
\* the list is reset as well, and an assembled header is left behind.
ParseOutOfMemory(p) ==
  /\ \/ UNCHANGED <<fragments, live>>
     \/ Kind(p.desc) \in {"single", "first", "final"} /\ messageFragmentReset
     \/ /\ Kind(p.desc) = "final" /\ Len(fragments) > 0
        /\ fragments' = <<>>
        /\ live' = live - Len(fragments) + 1
  /\ UNCHANGED last

----------------------------------------------------------------------------
(* The sender and the raster *)

Current == msgs[Len(msgs)]
Done == IF msgs = <<>> THEN TRUE ELSE next > Current.n
PacketAt(i) ==
  [desc |-> Descriptor(i, Current.n), word |-> [id |-> Len(msgs), pos |-> i]]

StartMessage ==
  /\ Done /\ ~destroyed /\ Len(msgs) < MaxMessages
  /\ \E m \in Message :
       /\ Malformed \/ Honest(m)
       /\ msgs' = Append(msgs, m)
  /\ next' = 1 /\ clean' = TRUE
  /\ UNCHANGED <<fragments, live, last, lost, repeated, destroyed>>

Receive ==
  /\ ~Done /\ ~destroyed
  /\ parse_SCTE_104(PacketAt(next))
  /\ next' = next + 1
  /\ UNCHANGED <<msgs, lost, repeated, clean, destroyed>>

Lose ==
  /\ ~Done /\ ~destroyed /\ lost < MaxLost
  /\ \/ UNCHANGED <<fragments, live, last>>
     \/ ParseOutOfMemory(PacketAt(next))
  /\ next' = next + 1 /\ lost' = lost + 1 /\ clean' = FALSE
  /\ UNCHANGED <<msgs, repeated, destroyed>>

\* The packet emitted last is received once more.
Repeat ==
  /\ Len(msgs) > 0 /\ next > 1 /\ ~destroyed /\ repeated < MaxRepeated
  /\ parse_SCTE_104(PacketAt(next - 1))
  /\ repeated' = repeated + 1 /\ clean' = (clean /\ Done)
  /\ UNCHANGED <<msgs, next, lost, destroyed>>

\* A packet flagged duplicate, or with a descriptor that means nothing.
Noise ==
  /\ Len(msgs) > 0 /\ ~destroyed
  /\ \E b \in {0, 9, 13} :
       parse_SCTE_104([desc |-> b, word |-> [id |-> Len(msgs), pos |-> 1]])
  /\ UNCHANGED <<msgs, next, lost, repeated, clean, destroyed>>

\* klvanc_context_destroy -> cleanup_SCTE_104.
cleanup_SCTE_104 ==
  /\ ~destroyed /\ destroyed' = TRUE
  /\ messageFragmentReset
  /\ UNCHANGED <<msgs, next, last, lost, repeated, clean>>

Next == StartMessage \/ Receive \/ Lose \/ Repeat \/ Noise \/ cleanup_SCTE_104

\* The sender emits, and the library handles, what has been started.
Spec == Init /\ [][Next]_vars

----------------------------------------------------------------------------
(* Properties *)

\* A partial message is a first packet followed by intermediate ones, and
\* leaves room for the final packet: messageFragmentFinal appends to
\* scte104_fragments[10] without checking the count.
StoredRun ==
  /\ Len(fragments) < MaxFragments
  /\ \A i \in 1 .. Len(fragments) :
       Kind(fragments[i].desc) = IF i = 1 THEN "first" ELSE "mid"

Before(v, w) == v.id < w.id \/ (v.id = w.id /\ v.pos < w.pos)
InOrder(words) ==
  \A i, j \in 1 .. Len(words) : i < j => Before(words[i], words[j])

\* Whatever was lost, a message handed to the application starts at the head
\* of a message, is at least as long as that message says it is, and its words
\* are in the order they were sent (repeats aside).
DeliveredFromHead ==
  last # <<>> =>
    /\ last[1].pos = 1
    /\ Len(last) >= msgs[last[1].id].size
    /\ repeated = 0 => InOrder(last)

\* One lost packet never produces a wrong message: splicing the head of one
\* message to the tail of another takes two losses (the final packet of the
\* one and the first packet of the other) or a repeat.
OneLossHarmless ==
  last # <<>> /\ lost <= 1 /\ repeated = 0 /\ (\A i \in 1 .. Len(msgs) : Honest(msgs[i]))
    => last = WordsOfMessage(last[1].id)

\* Recovery: a message of at most MaxFragments packets, none of them lost or
\* repeated, reaches the application intact whatever state earlier losses,
\* repeats and malformed messages left behind.
Recovers ==
  Len(msgs) > 0 /\ Done /\ clean /\ ~destroyed /\ Honest(Current) /\ Current.n <= MaxFragments
    => last = WordsOfMessage(Len(msgs))

\* Why Recovers holds: while a message arrives undisturbed, the list is
\* exactly the part of it received so far, and empty again at its end.
CollectsPrefix ==
  Len(msgs) > 0 /\ clean /\ ~destroyed /\ Current.n <= MaxFragments /\ next > 1 =>
    IF next <= Current.n
    THEN fragments = [i \in 1 .. next - 1 |-> PacketAt(i)]
    ELSE fragments = <<>>

\* A message longer than the list can hold is never delivered, in whole or in
\* part, whatever was lost or repeated: the overflow check of
\* messageFragmentFollowing throws it away and the size check of the decoder
\* refuses any remainder.
TooLongNeverDelivered ==
  last # <<>> => /\ Len(last) <= MaxFragments
                 /\ msgs[last[1].id].size <= MaxFragments

\* The inductive invariant of the list: it is a stored run, its first packet
\* is the head of a message, its packets come from messages that were sent,
\* and every entry is a live copy.
ListInv ==
  /\ TypeOK
  /\ next >= 1
  /\ msgs # <<>> => next <= Current.n + 1
  /\ StoredRun
  /\ live >= Len(fragments)
  /\ fragments # <<>> => fragments[1].word.pos = 1
  /\ \A i \in 1 .. Len(fragments) : fragments[i].word.id \in 1 .. Len(msgs)
  /\ last # <<>> => /\ last[1].pos = 1
                    /\ last[1].id \in 1 .. Len(msgs)
                    /\ Len(last) >= msgs[last[1].id].size
                    /\ Len(last) <= MaxFragments

Dishonest == {i \in 1 .. Len(msgs) : ~Honest(msgs[i])}

\* The headers allocated for reassembly should be those in the list ("Create storage
\* for 10 packets, track them, free them etc."), so that klvanc_context_destroy
\* leaves none.  An assembled header is left behind when its message does not decode
\* or does not fit, but each of them is paid for by a lost packet, a repeated one or
\* a malformed message of its own.  In particular
\* nothing leaks from honest messages that arrive undisturbed, too long for the
\* list or not.
LeaksArePaidFor == live - Len(fragments) <= lost + repeated + Cardinality(Dishonest)

=============================================================================
