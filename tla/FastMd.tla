------------------------------- MODULE FastMd -------------------------------
(***************************************************************************)
(* What the pipeline of the user module carries beside the words of a      *)
(* packet: the metadata bus (MD) that travels from gpp to gac, and the     *)
(* FIFOs that wait between the blocks.  The packet header vector (PHV)     *)
(* moves with the MD, strobe by strobe, and is not kept apart from it.     *)
(***************************************************************************)
EXTENDS FastBeat, Sequences

CONSTANTS
  DataDepth,  \* words of the data FIFOs of data_cache and gac: 1024
  MdDepth,    \* entries of the metadata FIFOs of gme and gac: 256
  MdAlfAt     \* above this many the metadata FIFO is almost full: 250

\* The module identifiers a packet's DMID field (bits [87:80]) may hold.
Mids == 0 .. 255

\* Protocol types gpp finds; "raw" is whatever the field held before.
Psts == {"none", "ip", "tcp", "udp", "arp", "vlan", "raw"}

\* Ethernet types: IPv4 or IPv6, the two others gpp knows, the rest.
EthTypes == {"ip", "arp", "vlan", "other"}

NoIdx == -1

(***************************************************************************)
(* A kind of packet: the module it is addressed to, what its Ethernet and  *)
(* IP headers say, its length, whether it arrives valid, and the rule of   *)
(* the flow table the external matcher gives it.                           *)
(***************************************************************************)
Kind == [dmid : Mids, eth : EthTypes, proto : {"tcp", "udp", "other"},
         len : Nat, good : BOOLEAN, idx : Nat]

Md == [wr : BOOLEAN, pkt : Nat, dmid : Mids, pst : Psts, len : Nat,
       idx : Nat \cup {NoIdx}]

NoMd == [wr |-> FALSE, pkt |-> 0, dmid |-> 0, pst |-> "none", len |-> 0,
         idx |-> NoIdx]

(***************************************************************************)
(* A first-word-fall-through FIFO of the Xilinx library: the first entry   *)
(* is on the output before it is read, and a write to a full FIFO is lost. *)
(***************************************************************************)
Front(q, none) == IF q = <<>> THEN none ELSE Head(q)

FifoNext(q, rd, wr, d, depth) ==
  LET p == IF rd /\ q # <<>> THEN Tail(q) ELSE q
  IN  IF wr /\ Len(q) < depth THEN Append(p, d) ELSE p

\* data_count of a FIFO of 2^n entries has n bits: a full FIFO counts 0.
Usedw(q, depth) == Len(q) % depth

\* Almost full: the top bit of a data FIFO's count, a level for metadata.
DataAlfNever(q) == FALSE
DataAlf(q) == Usedw(q, DataDepth) >= DataDepth \div 2
MdAlf(q) == Usedw(q, MdDepth) > MdAlfAt
=============================================================================
