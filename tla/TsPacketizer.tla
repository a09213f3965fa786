---------------------------- MODULE TsPacketizer ----------------------------
(***************************************************************************)
(* Transport packets of the bytes of a PES packet (ts_packetizer.c).  The  *)
(* four bytes of a transport packet's header are members of a record.      *)
(***************************************************************************)
EXTENDS Integers, Sequences

\* Mutant: the rest behind the last full packet is not sent.
NeededFull(byteCount, max) == byteCount \div max

\* Transport packets for so many bytes, each with a payload of max bytes.
Needed(byteCount, max) == (byteCount + max - 1) \div max

\* The last one is filled up with 0xff.  cc is the number of packets sent before.
ts_packetizer(buf, cc, pid, packetSize) ==
  LET max == packetSize - 4
  IN [n \in 1 .. Needed(Len(buf), max) |->
        [pid |-> pid, unit_start |-> n = 1, cc |-> (cc + n - 1) % 16, adaption |-> 1,
         adaptation_length |-> 0,
         payload |-> [k \in 1 .. max |-> IF (n - 1) * max + k <= Len(buf) THEN buf[(n - 1) * max + k] ELSE 255]]]
=============================================================================
