------------------------------ MODULE GacPort -------------------------------
(***************************************************************************)
(* The wires from gac to pgm: gac delivers a packet in consecutive clocks  *)
(* and leaves the strobe low for at least one clock before the next one;   *)
(* while the strobe is low the data wires are zero or still show the last  *)
(* word.  The packet generator is modelled against these steps, and the    *)
(* pipeline in front of it is shown to take no others.                     *)
(***************************************************************************)
EXTENDS FastBeat

CONSTANTS
  Lens,       \* lengths, in words, of the packets gac may deliver
  MidGap,     \* whether a packet may pause between two of its words
  Numbers     \* numbers of packets when the port is looked at by itself

VARIABLE
  gacOut      \* out_gac_data, out_gac_data_wr

Word(flag, pkt, seq) == [wr |-> TRUE, flag |-> flag, pkt |-> pkt, seq |-> seq]

InPacket(b) == b.flag \in {"head", "body"}

NextWords(b) ==
  {Word("body", b.pkt, b.seq + 1) : n \in {l \in Lens : l > b.seq + 2}}
    \cup {Word("tail", b.pkt, b.seq + 1) : n \in {l \in Lens : l = b.seq + 2}}

GacContinue == InPacket(gacOut) /\ gacOut' \in NextWords(gacOut)

GacUnderrun ==
  /\ MidGap /\ InPacket(gacOut) /\ gacOut.wr
  /\ gacOut' = [gacOut EXCEPT !.wr = FALSE]

GacPause ==
  /\ ~InPacket(gacOut)
  /\ gacOut' \in {[gacOut EXCEPT !.wr = FALSE], Idle}

GacHead(pkt) ==
  /\ ~InPacket(gacOut) /\ ~gacOut.wr
  /\ gacOut' = Word("head", pkt, 0)

\* The port by itself: packets are numbered in the order they leave.
PortSpec ==
  /\ gacOut = Idle
  /\ [][\/ GacContinue \/ GacUnderrun \/ GacPause
        \/ \E p \in Numbers : GacHead(p)]_gacOut
=============================================================================
