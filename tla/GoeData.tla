------------------------------ MODULE GoeData -------------------------------
(***************************************************************************)
(* goe.v, its data half: packets marked to be dropped are left out, the    *)
(* others wait in a FIFO until they are complete, leave for pktout and are *)
(* counted per flow in a RAM.  One step is one clock; each operator is one *)
(* state of one of the two state machines.  A word carries the strobe of   *)
(* its bus, and its first word the flow of its packet and whether that is  *)
(* to be dropped.                                                          *)
(***************************************************************************)
EXTENDS FastBeat, Sequences

CONSTANTS
  Kinds,        \* packet -> its flow, its length, whether it is dropped
  StreamDepth,  \* words of stream_data: 256
  CountMod      \* 2^32: the range of a counter

VARIABLES
  delState, writeEn,
  inStream, inValid,    \* in_stream_data{,_wr}; in_stream_valid{,_wr}
  stream,     \* the FIFO stream_data
  valids,     \* stream_valid: a FIFO of ones
  cntState, dataRd, validRd, streamAddr,
  addressB, dataB, streamRw,
  counts, core, qB,     \* goe_ram_inst: memory, and port B on its way
  pktout      \* pktout_data, pktout_data_wr

delVars == <<delState, writeEn, inStream, inValid>>
cntVars == <<cntState, dataRd, validRd, streamAddr, addressB, dataB, streamRw,
             pktout>>
dataVars == <<delVars, stream, valids, cntVars, counts, core, qB>>

Flows == {Kinds[k].flow : k \in DOMAIN Kinds} \cup {0}

DataInit ==
  /\ delState = "idle" /\ writeEn = FALSE
  /\ inStream = Idle /\ inValid = FALSE
  /\ stream = <<>> /\ valids = 0
  /\ cntState = "idle" /\ dataRd = FALSE /\ validRd = FALSE
  /\ streamAddr = 0 /\ addressB = 0 /\ dataB = 0 /\ streamRw = FALSE
  /\ counts = [f \in Flows |-> 0] /\ core = 0 /\ qB = 0
  /\ pktout = Idle

-----------------------------------------------------------------------------
(* Discard *)

Store(b, drop) == inStream' = IF drop THEN Idle ELSE b

DelIdle(in) ==
  /\ delState = "idle"
  /\ inValid' = FALSE
  /\ \/ /\ IsHead(in)
        /\ writeEn' = Kinds[in.pkt].drop
        /\ Store(in, Kinds[in.pkt].drop)
        /\ delState' = "trans"
     \/ /\ ~IsHead(in)
        /\ writeEn' = FALSE
        /\ inStream' = Idle
        /\ UNCHANGED delState

DelTrans(in) ==
  /\ delState = "trans"
  /\ IF in.wr THEN Store(in, writeEn) ELSE inStream' = Idle
  /\ inValid' = (IsTail(in) /\ ~writeEn)
  /\ delState' = IF IsTail(in) THEN "idle" ELSE "trans"
  /\ UNCHANGED writeEn

-----------------------------------------------------------------------------
(* Send and count *)

\* A first-word-fall-through FIFO.
StreamQ == IF stream = <<>> THEN Idle ELSE Head(stream)

Emit == pktout' = [StreamQ EXCEPT !.wr = TRUE]

CntIdle(ready) ==
  /\ cntState = "idle"
  /\ pktout' = Idle /\ dataB' = 0 /\ streamRw' = FALSE
  /\ \/ /\ ready /\ valids > 0
        /\ validRd' = TRUE /\ dataRd' = TRUE
        /\ addressB' = Kinds[StreamQ.pkt].flow
        /\ streamAddr' = Kinds[StreamQ.pkt].flow
        /\ cntState' = "wait0"
     \/ /\ ~(ready /\ valids > 0)
        /\ validRd' = FALSE /\ dataRd' = FALSE
        /\ addressB' = 0 /\ streamAddr' = 0
        /\ UNCHANGED cntState

\* Mutant: the valid bit is read for two clocks.
CntWait0Twice ==
  /\ cntState = "wait0"
  /\ Emit
  /\ streamRw' = FALSE /\ validRd' = TRUE /\ dataRd' = TRUE
  /\ cntState' = "wait1"
  /\ UNCHANGED <<streamAddr, addressB, dataB>>

CntWait0 ==
  /\ cntState = "wait0"
  /\ Emit
  /\ streamRw' = FALSE /\ validRd' = FALSE /\ dataRd' = TRUE
  /\ cntState' = "wait1"
  /\ UNCHANGED <<streamAddr, addressB, dataB>>

\* Mutant: the FIFO waits for the counter.
CntWait1Holds ==
  /\ cntState = "wait1"
  /\ Emit
  /\ validRd' = FALSE /\ dataRd' = FALSE
  /\ cntState' = "write"
  /\ UNCHANGED <<streamAddr, addressB, dataB, streamRw>>

CntWait1 ==
  /\ cntState = "wait1"
  /\ Emit
  /\ validRd' = FALSE /\ dataRd' = TRUE
  /\ cntState' = "write"
  /\ UNCHANGED <<streamAddr, addressB, dataB, streamRw>>

\* The counter was asked for three clocks ago.
CntWrite ==
  /\ cntState = "write"
  /\ Emit
  /\ streamRw' = TRUE /\ addressB' = streamAddr
  /\ dataB' = (qB + 1) % CountMod
  /\ validRd' = FALSE /\ dataRd' = TRUE
  /\ cntState' = "trans"
  /\ UNCHANGED streamAddr

\* Mutant: the FIFO is read for one clock too long.
CntTransOverread ==
  /\ cntState = "trans"
  /\ Emit
  /\ streamRw' = FALSE
  /\ dataRd' = TRUE
  /\ cntState' = IF StreamQ.flag = "tail" THEN "idle" ELSE "trans"
  /\ UNCHANGED <<validRd, streamAddr, addressB, dataB>>

CntTrans ==
  /\ cntState = "trans"
  /\ Emit
  /\ streamRw' = FALSE
  /\ dataRd' = (StreamQ.flag # "tail")
  /\ cntState' = IF StreamQ.flag = "tail" THEN "idle" ELSE "trans"
  /\ UNCHANGED <<validRd, streamAddr, addressB, dataB>>

-----------------------------------------------------------------------------
\* A word written to a full FIFO is lost.
StreamFifo ==
  LET p == IF dataRd /\ stream # <<>> THEN Tail(stream) ELSE stream
  IN  stream' = IF inStream.wr /\ Len(stream) < StreamDepth
                THEN Append(p, inStream) ELSE p

ValidFifo ==
  valids' = (IF validRd /\ valids > 0 THEN valids - 1 ELSE valids)
            + (IF inValid THEN 1 ELSE 0)

\* What port A writes into a counter: <<flow, value>>, or nothing.
After(t, a) == IF a = <<>> THEN t ELSE [t EXCEPT ![a[1]] = a[2]]

\* What port B reads is there two clocks after the address.  Where the ports
\* meet at one address, what is read is the old or the new value, and what
\* stays is what one of them wrote.
goe_ram_inst(a) ==
  LET b == IF streamRw THEN <<addressB, dataB>> ELSE <<>>
  IN  /\ core' \in {counts[addressB], After(counts, a)[addressB]}
      /\ qB' = core
      /\ counts' \in {After(After(counts, a), b), After(After(counts, b), a)}

DataClock(in, ready, a) ==
  /\ DelIdle(in) \/ DelTrans(in)
  /\ CntIdle(ready) \/ CntWait0 \/ CntWait1 \/ CntWrite \/ CntTrans
  /\ StreamFifo /\ ValidFifo /\ goe_ram_inst(a)
=============================================================================
