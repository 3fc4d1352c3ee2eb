------------------------------ MODULE FastBeat ------------------------------
(***************************************************************************)
(* The word that travels between two modules of the pipeline in one clock: *)
(* a 134-bit data bus and its write strobe.  Bits [133:132] say whether    *)
(* the word is the first, a middle or the last one of a packet; the first  *)
(* word of a packet carries a 3-bit priority that is 7 only in the model   *)
(* packet the software sends.  The payload is abstracted to the identity   *)
(* of its packet and the position of the word in it.                       *)
(***************************************************************************)
EXTENDS Integers

Flags == {"none", "head", "body", "tail"}

\* In the packet generator pkt is 0 for ordinary traffic and k for the model
\* packet of the k-th test; in the pipeline it numbers the packets.
Beat == [wr : BOOLEAN, flag : Flags, pkt : Nat, seq : Nat]

Idle == [wr |-> FALSE, flag |-> "none", pkt |-> 0, seq |-> 0]

IsHead(b) == b.wr /\ b.flag = "head"
IsBodyUnstrobed(b) == b.flag = "body"
IsBody(b) == b.wr /\ b.flag = "body"
IsTail(b) == b.wr /\ b.flag = "tail"

\* in_wr_data[111:109] == 3'b111
IsModelAlways(b) == TRUE
IsModel(b) == b.pkt # 0
=============================================================================
