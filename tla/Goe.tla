-------------------------------- MODULE Goe ---------------------------------
(***************************************************************************)
(* goe.v: its data half and its register half on one RAM of counters, with *)
(* what surrounds them: the generator, the control chain, pktout and the   *)
(* DMA engine.                                                             *)
(*                                                                         *)
(* What comes from pgm comes in consecutive clocks, a packet at a time,    *)
(* with a clock between two (FramedOutput of Pgm).  out_goe_alf stops only *)
(* gac, and only between packets: the generator does not look at it, so it *)
(* is left out, and pktout may stall only while StallUpTo words wait.      *)
(***************************************************************************)
EXTENDS GoeData, GoeCtrl

CONSTANTS
  Ops,        \* commands on the chain
  StallUpTo   \* pktout stalls only while no more words than these wait

\* An Ethernet frame has four words and the two in front of it make six; the
\* tail must come after the third word.
ASSUME GoeAssumption ==
  /\ \A k \in DOMAIN Kinds :
       /\ k \in Nat /\ Kinds[k].drop \in BOOLEAN
       /\ Kinds[k].len \in Nat /\ Kinds[k].len >= 4
  /\ StreamDepth \in Nat \ {0} /\ CountMod \in Nat \ {0}
  /\ StallUpTo \in Nat /\ CtrlDepth \in Nat /\ CtrlDepth >= 2
  /\ Ops \subseteq {"read", "write"}

VARIABLES
  inGoe,      \* in_goe_data, in_goe_data_wr
  cinGoe,     \* cin_goe_data, cin_goe_data_wr
  portA       \* address_a, data_a, cnt_rw: what port A writes

vars == <<dataVars, goeVars, inGoe, cinGoe, portA>>

Init == DataInit /\ GoeInit /\ inGoe = Idle /\ cinGoe = Quiet /\ portA = <<>>

-----------------------------------------------------------------------------
(* The wires from pgm *)

Word(k, n) == [wr |-> TRUE, pkt |-> k, seq |-> n,
               flag |-> IF n = 0 THEN "head"
                        ELSE IF n = Kinds[k].len - 1 THEN "tail" ELSE "body"]

Open(b) == b.wr /\ b.flag # "tail"

PgmSends ==
  \/ Open(inGoe) /\ inGoe' = Word(inGoe.pkt, inGoe.seq + 1)
  \/ ~Open(inGoe) /\ inGoe' = Idle
  \/ ~inGoe.wr /\ \E k \in DOMAIN Kinds : inGoe' = Word(k, 0)

\* A command clears or reads the counter of flow 0.  Bound: one at a time.
Command(op) == [op |-> op, mid |-> GoeMid, reg |-> "goe_count", val |-> 0,
                id |-> 0]

ChainSends ==
  \/ CmdHead(cinGoe) /\ cinGoe' = TailBeat(Command(cinGoe.op))
  \/ ~CmdHead(cinGoe) /\ cinGoe' = Quiet
  \/ /\ ~cinGoe.wr /\ goeFifo = <<>> /\ goeState = "idle"
     /\ \E op \in Ops : cinGoe' = HeadBeat(Command(op))

-----------------------------------------------------------------------------
Clock(ready, dmaReady) ==
  /\ PgmSends /\ ChainSends
  /\ DataClock(inGoe, ready, portA)
  /\ GoeClock(cinGoe, dmaReady, counts[0])
  /\ portA' = IF goeState = "write" THEN <<0, GoeWord.val>> ELSE <<>>

Stall == Len(stream) <= StallUpTo

Next == \E ready, dmaReady \in BOOLEAN : (ready \/ Stall) /\ Clock(ready, dmaReady)

Spec == Init /\ [][Next]_vars

\* The clock ticks, and pktout is ready again and again.
FairSpec ==
  Spec /\ WF_vars(Next) /\ SF_vars(\E dmaReady \in BOOLEAN : Clock(TRUE, dmaReady))
-----------------------------------------------------------------------------
(***************************************************************************)
(* What arrives finds room: although nothing stops the generator, goe      *)
(* sends as fast as packets come, when pktout lets it (a clock between two *)
(* packets is all it needs).                                               *)
(***************************************************************************)
Room == inStream.wr => Len(stream) < StreamDepth

(* What Egress sees: the words that came and have not left, the one that   *)
(* leaves, and the counters with the one that is being written.            *)

Q == IF inStream.wr THEN Append(stream, inStream) ELSE stream

Out == IF pktout.wr THEN pktout ELSE Idle

Taken == IF cntState = "wait1" THEN core
         ELSE IF cntState = "write" THEN qB ELSE 0

Counters == [f \in Flows |-> IF streamRw /\ addressB = f THEN dataB
                             ELSE counts[f]]

(***************************************************************************)
(* Whatever is dropped between them and however pktout stalls, packets     *)
(* leave whole, in order and once, each adds one to its flow's counter     *)
(* although that takes four clocks, packets follow each other and software *)
(* writes the same RAM, and none that is complete stays.                   *)
(***************************************************************************)
Engine == INSTANCE Egress WITH
  FlowOf <- LAMBDA w : Kinds[w.pkt].flow, Written <- {0}, Nothing <- Idle,
  queue <- Q, out <- Out, taken <- Taken, tally <- Counters

ImplementsEgress == Engine!ESpec
=============================================================================
