------------------------------- MODULE PgmRd --------------------------------
(***************************************************************************)
(* pgm_rd.v: the half of the packet generator that faces the output.  It   *)
(* passes ordinary traffic on and, once pgm_wr raises the start flag,      *)
(* replays the model packet from the RAM, pausing sent_rate_reg + 1 clocks *)
(* between copies, until the test time is over; then it waits in FIN for   *)
(* the software to reset it.  Each operator is one branch of the clocked   *)
(* block; its arguments are the input wires it reads.                      *)
(***************************************************************************)
EXTENDS PgmRam

CONSTANTS
  RateMod,    \* 2^32: the range of sent_rate_cnt
  TailBytes   \* bits [131:128] of the last word of the model packet

VARIABLES
  rdState,    \* pgm_rd_state
  rdAddr,     \* rd2ram_addr
  rdOut,      \* out_rd_data, out_rd_data_wr
  rdVwr,      \* out_rd_valid_wr
  rdTimeReg,  \* sent_time_reg, the copy taken when the test starts
  rdTimeCnt,  \* sent_time_cnt
  rateReg, rateCnt,   \* sent_rate_reg, sent_rate_cnt
  latFlag, latPktCnt, \* lat_flag, lat_pkt_cnt
  bitCnt, pktCnt,     \* sent_bit_cnt (it counts bytes), sent_pkt_cnt
  cycleCnt,   \* pkt_cycle_cnt
  softRst     \* soft_rst

rdVars == <<rdState, rdAddr, rdOut, rdVwr, rdTimeReg, rdTimeCnt, rateCnt,
            latPktCnt, bitCnt, pktCnt, cycleCnt>>
rdRegs == <<rateReg, latFlag, softRst>>
rdCounters == <<rateCnt, latPktCnt, bitCnt, pktCnt, rdTimeCnt, cycleCnt>>

RdStates ==
  {"IDLE", "SENT", "HAUNT1", "HAUNT2", "READ", "WAIT", "PROBE", "FIN"}

\* States in which the model packet is being replayed.
Replaying == rdState \in {"HAUNT1", "HAUNT2", "READ", "WAIT", "PROBE"}

(***************************************************************************)
(* An output word.  The sixth word of a copy is overwritten by the packet  *)
(* counter and a timestamp: "stamp" is that counter, NoStamp elsewhere.    *)
(***************************************************************************)
NoStamp == -1
OutBeat == [wr : BOOLEAN, flag : Flags, pkt : Nat, seq : Nat,
            stamp : Nat \cup {NoStamp}]

Out(b, stamp) == [wr |-> b.wr, flag |-> b.flag, pkt |-> b.pkt,
                  seq |-> b.seq, stamp |-> stamp]
NoOut == [wr |-> FALSE, flag |-> "none", pkt |-> 0, seq |-> 0,
          stamp |-> NoStamp]
Strobed(b) == [b EXCEPT !.wr = TRUE]

\* Bytes of a full word.
WordBytes == 16

\* The word of a copy that pkt_cycle_cnt picks for the timestamp.
StampCycle == 4

RateVals == 0 .. RateMod - 1
CycleVals == 0 .. 2047

RdTypeOK ==
  /\ rdState \in RdStates
  /\ rdAddr \in Addr
  /\ rdOut \in OutBeat
  /\ rdVwr \in BOOLEAN
  /\ rdTimeReg \in Nat
  /\ rdTimeCnt \in Nat
  /\ rateReg \in RateVals
  /\ rateCnt \in RateVals
  /\ latFlag \in BOOLEAN
  /\ latPktCnt \in Nat
  /\ bitCnt \in Nat
  /\ pktCnt \in Nat
  /\ cycleCnt \in CycleVals
  /\ softRst \in BOOLEAN

RdInit ==
  /\ rdState = "IDLE"
  /\ rdAddr = 0
  /\ rdOut = NoOut
  /\ rdVwr = FALSE
  /\ rdTimeReg = 0
  /\ rdTimeCnt = 0
  /\ rateReg = 0
  /\ rateCnt = 0
  /\ latFlag = FALSE
  /\ latPktCnt = 0
  /\ bitCnt = 0
  /\ pktCnt = 0
  /\ cycleCnt = 0
  /\ softRst = FALSE
-----------------------------------------------------------------------------
\* Nothing leaves in the next clock.
RdQuiet == rdOut' = NoOut /\ rdVwr' = FALSE

RdBypass(in, vwr, byp) ==
  /\ rdState = "IDLE"
  /\ byp /\ IsHead(in)
  /\ rdOut' = Out(in, NoStamp)
  /\ rdVwr' = vwr
  /\ rdState' = "SENT"
  /\ UNCHANGED <<rdAddr, rdTimeReg, rdCounters>>

\* The counters of the previous test survive this branch.
RdStart(in, byp, go, time) ==
  /\ rdState = "IDLE"
  /\ ~(byp /\ IsHead(in))
  /\ go
  /\ rdAddr' = 0
  /\ rdOut' = NoOut
  /\ rdTimeReg' = time
  /\ rdState' = "HAUNT1"
  /\ UNCHANGED <<rdVwr, rdCounters>>

RdClearKeepsTime(in, byp, go) ==
  /\ rdState = "IDLE"
  /\ ~(byp /\ IsHead(in))
  /\ ~go
  /\ rdAddr' = 0
  /\ RdQuiet
  /\ rateCnt' = 0 /\ latPktCnt' = 0 /\ bitCnt' = 0 /\ pktCnt' = 0
  /\ cycleCnt' = 0
  /\ UNCHANGED <<rdState, rdTimeReg, rdTimeCnt>>
RdClear(in, byp, go) ==
  /\ rdState = "IDLE"
  /\ ~(byp /\ IsHead(in))
  /\ ~go
  /\ rdAddr' = 0
  /\ RdQuiet
  /\ rateCnt' = 0 /\ latPktCnt' = 0 /\ bitCnt' = 0 /\ pktCnt' = 0
  /\ rdTimeCnt' = 0 /\ cycleCnt' = 0
  /\ UNCHANGED <<rdState, rdTimeReg>>

RdSent(in, vwr) ==
  /\ rdState = "SENT"
  /\ \/ /\ IsBody(in)
        /\ rdOut' = Out(in, NoStamp)
        /\ rdVwr' = vwr
        /\ UNCHANGED rdState
     \/ /\ IsTail(in)
        /\ rdOut' = Out(in, NoStamp)
        /\ rdVwr' = TRUE
        /\ rdState' = "IDLE"
     \/ /\ ~IsBody(in) /\ ~IsTail(in)
        /\ rdOut' = [rdOut EXCEPT !.wr = FALSE]
        /\ rdVwr' = vwr
        /\ rdState' = "IDLE"
  /\ UNCHANGED <<rdAddr, rdTimeReg, rdCounters>>

\* Two states cover the latency of the RAM; only the second counts time.
RdHaunt1Counts ==
  /\ rdState = "HAUNT1"
  /\ rdAddr' = 1
  /\ rdState' = "HAUNT2"
  /\ rdTimeCnt' = rdTimeCnt + 1
  /\ UNCHANGED <<rdOut, rdVwr, rdTimeReg, rateCnt, latPktCnt, bitCnt, pktCnt,
                 cycleCnt>>
RdHaunt1 ==
  /\ rdState = "HAUNT1"
  /\ rdAddr' = 1
  /\ rdState' = "HAUNT2"
  /\ UNCHANGED <<rdOut, rdVwr, rdTimeReg, rdCounters>>

RdHaunt2Late ==
  /\ rdState = "HAUNT2"
  /\ rdAddr' = 1
  /\ rdState' = IF latFlag THEN "PROBE" ELSE "READ"
  /\ rdTimeCnt' = rdTimeCnt + 1
  /\ UNCHANGED <<rdOut, rdVwr, rdTimeReg, rateCnt, latPktCnt, bitCnt, pktCnt,
                 cycleCnt>>
RdHaunt2 ==
  /\ rdState = "HAUNT2"
  /\ rdAddr' = 2
  /\ rdState' = IF latFlag THEN "PROBE" ELSE "READ"
  /\ rdTimeCnt' = rdTimeCnt + 1
  /\ UNCHANGED <<rdOut, rdVwr, rdTimeReg, rateCnt, latPktCnt, bitCnt, pktCnt,
                 cycleCnt>>

StampLate == IF cycleCnt = StampCycle + 1 THEN pktCnt ELSE NoStamp
Stamp == IF cycleCnt = StampCycle THEN pktCnt ELSE NoStamp

\* The end of the test is only looked at at the end of a copy.
TimeOverStrict == rdTimeCnt > rdTimeReg
TimeOver == rdTimeCnt >= rdTimeReg

RdHead(q) ==
  /\ rdState = "READ" /\ q.flag = "head"
  /\ rdAddr' = NextAddr(rdAddr)
  /\ rdOut' = Out(Strobed(q), NoStamp)
  /\ rdVwr' = FALSE
  /\ bitCnt' = bitCnt + WordBytes
  /\ cycleCnt' = 0
  /\ rdTimeCnt' = rdTimeCnt + 1
  /\ UNCHANGED <<rdState, rdTimeReg, rateCnt, latPktCnt, pktCnt>>

RdBody(q) ==
  /\ rdState = "READ" /\ q.flag = "body"
  /\ rdAddr' = NextAddr(rdAddr)
  /\ rdOut' = Out(Strobed(q), Stamp)
  /\ rdVwr' = FALSE
  /\ bitCnt' = bitCnt + WordBytes
  /\ cycleCnt' = (cycleCnt + 1) % 2048
  /\ rdTimeCnt' = rdTimeCnt + 1
  /\ UNCHANGED <<rdState, rdTimeReg, rateCnt, latPktCnt, pktCnt>>

\* READ_S has no branch for a word with flags 00: it would stay there for ever.
RdTail(q) ==
  /\ rdState = "READ" /\ q.flag = "tail"
  /\ rdAddr' = 0
  /\ rdOut' = Out(Strobed(q), Stamp)
  /\ rdVwr' = TRUE
  /\ bitCnt' = bitCnt + TailBytes
  /\ pktCnt' = pktCnt + 1
  /\ rdTimeCnt' = rdTimeCnt + 1
  /\ rdState' = IF TimeOver THEN "FIN" ELSE "WAIT"
  /\ UNCHANGED <<rdTimeReg, rateCnt, latPktCnt, cycleCnt>>

\* The last clock of the pause is left out.
RdWaitShort ==
  /\ rdState = "WAIT"
  /\ rdTimeCnt' = rdTimeCnt + 1
  /\ RdQuiet
  /\ \/ /\ rateCnt + 1 >= rateReg
        /\ rdAddr' = 0
        /\ rateCnt' = 0
        /\ rdState' = "HAUNT1"
        /\ UNCHANGED latPktCnt
     \/ /\ rateCnt + 1 < rateReg
        /\ rateCnt' = (rateCnt + 1) % RateMod
        /\ latPktCnt' = latPktCnt + 1
        /\ UNCHANGED <<rdState, rdAddr>>
  /\ UNCHANGED <<rdTimeReg, bitCnt, pktCnt, cycleCnt>>
RdWait ==
  /\ rdState = "WAIT"
  /\ rdTimeCnt' = rdTimeCnt + 1
  /\ RdQuiet
  /\ \/ /\ rateCnt = rateReg
        /\ rdAddr' = 0
        /\ rateCnt' = 0
        /\ rdState' = "HAUNT1"
        /\ UNCHANGED latPktCnt
     \/ /\ rateCnt # rateReg
        /\ rateCnt' = (rateCnt + 1) % RateMod
        /\ latPktCnt' = latPktCnt + 1
        /\ UNCHANGED <<rdState, rdAddr>>
  /\ UNCHANGED <<rdTimeReg, bitCnt, pktCnt, cycleCnt>>

\* With lat_flag set the end of the copy is seen one word late.
RdProbe(q) ==
  /\ rdState = "PROBE"
  /\ rdTimeCnt' = rdTimeCnt + 1
  /\ rdOut' = Out(Strobed(q), NoStamp)
  /\ \/ /\ rdOut.flag # "tail"
        /\ rdAddr' = NextAddr(rdAddr)
        /\ rdVwr' = FALSE
        /\ UNCHANGED <<rdState, rateCnt, latPktCnt>>
     \/ /\ rdOut.flag = "tail"
        /\ rdAddr' = 0
        /\ rdVwr' = TRUE
        /\ rateCnt' = 0
        /\ latPktCnt' = 0
        /\ rdState' = IF TimeOver THEN "FIN" ELSE "WAIT"
  /\ UNCHANGED <<rdTimeReg, bitCnt, pktCnt, cycleCnt>>

\* A reset leaves the outputs as they are for one more clock.
RdFin ==
  /\ rdState = "FIN"
  /\ \/ /\ softRst
        /\ rdState' = "IDLE"
        /\ UNCHANGED <<rdOut, rdVwr>>
     \/ /\ ~softRst
        /\ RdQuiet
        /\ UNCHANGED rdState
  /\ UNCHANGED <<rdAddr, rdTimeReg, rdCounters>>

\* in, vwr, byp and go come from pgm_wr, q and time from the RAM and from
\* sent_time_reg.
RdStep(in, vwr, byp, go, q, time) ==
  \/ RdBypass(in, vwr, byp)
  \/ RdStart(in, byp, go, time)
  \/ RdClear(in, byp, go)
  \/ RdSent(in, vwr)
  \/ RdHaunt1
  \/ RdHaunt2
  \/ RdHead(q)
  \/ RdBody(q)
  \/ RdTail(q)
  \/ RdWait
  \/ RdProbe(q)
  \/ RdFin
-----------------------------------------------------------------------------
\* The register block.
RdSetRate(v)  == rateReg' = v /\ UNCHANGED <<latFlag, softRst>>
RdSetLat(b)   == latFlag' = b /\ UNCHANGED <<rateReg, softRst>>
RdSoftRstSticks(b) == softRst' = TRUE /\ UNCHANGED <<rateReg, latFlag>>
RdSoftRstIgnored(b) == softRst' = FALSE /\ UNCHANGED <<rateReg, latFlag>>
RdSoftRst(b)  == softRst' = b /\ UNCHANGED <<rateReg, latFlag>>
=============================================================================
