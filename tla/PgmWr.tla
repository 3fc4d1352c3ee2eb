------------------------------- MODULE PgmWr --------------------------------
(***************************************************************************)
(* pgm_wr.v: the half of the packet generator that faces the pipeline.  A  *)
(* packet whose priority is not 7 goes through to pgm_rd; a packet of      *)
(* priority 7 is the model packet: it is stored in the RAM, pgm_rd is told *)
(* to start replaying it and sent_time_cnt counts the clocks of the test.  *)
(* Each operator below is one branch of the clocked block; `in' is the     *)
(* word on the input wires in this clock.                                  *)
(***************************************************************************)
EXTENDS PgmRam

CONSTANT
  HalfWord    \* 2^32: sent_time_reg is written in two halves

VARIABLES
  wrState,    \* pgm_wr_state
  wrOut,      \* out_wr_data, out_wr_data_wr
  wrVwr,      \* out_wr_valid_wr
  ramWe, ramAddr, ramData, \* wr2ram_wr_en, wr2ram_addr, wr2ram_wdata
  wrTimeCnt,  \* sent_time_cnt
  timeReg,    \* sent_time_reg, its two halves
  bypass, start, finish    \* pgm_bypass_flag, pgm_sent_{start,finish}_flag

wrVars == <<wrState, wrOut, wrVwr, ramWe, ramAddr, ramData, wrTimeCnt,
            bypass, start, finish>>

WrStates == {"IDLE", "WAIT", "STORE", "SENT", "DISCARD"}

SentTime == timeReg.hi * HalfWord + timeReg.lo

TimeRegs == [hi : Nat, lo : Nat]

WrTypeOK ==
  /\ wrState \in WrStates
  /\ wrOut \in Beat
  /\ wrVwr \in BOOLEAN
  /\ ramWe \in BOOLEAN
  /\ ramAddr \in Addr
  /\ ramData \in Beat
  /\ wrTimeCnt \in Nat
  /\ timeReg \in TimeRegs
  /\ bypass \in BOOLEAN
  /\ start \in BOOLEAN
  /\ finish \in BOOLEAN

WrInit ==
  /\ wrState = "IDLE"
  /\ wrOut = Idle
  /\ wrVwr = FALSE
  /\ ramWe = FALSE
  /\ ramAddr = 0
  /\ ramData = Idle
  /\ wrTimeCnt = 0
  /\ timeReg = [hi |-> 0, lo |-> 0]
  /\ bypass = FALSE
  /\ start = FALSE
  /\ finish = FALSE
-----------------------------------------------------------------------------
\* The first word of ordinary traffic: let the packet through.
WrBypass(in) ==
  /\ wrState = "IDLE"
  /\ IsHead(in) /\ ~IsModel(in)
  /\ wrOut' = in
  /\ bypass' = TRUE
  /\ wrState' = "SENT"
  /\ UNCHANGED <<wrVwr, ramWe, ramAddr, ramData, wrTimeCnt, start, finish>>

\* The first word of a model packet goes to address 0 of the RAM.
WrStoreHead(in) ==
  /\ wrState = "IDLE"
  /\ IsHead(in) /\ IsModel(in)
  /\ ramWe' = TRUE
  /\ ramAddr' = 0
  /\ ramData' = in
  /\ wrState' = "STORE"
  /\ UNCHANGED <<wrOut, wrVwr, wrTimeCnt, bypass, start, finish>>

\* No packet begins: only this branch drops the flags and the time counter.
WrClear(in) ==
  /\ wrState = "IDLE"
  /\ ~IsHead(in)
  /\ ramWe' = FALSE
  /\ ramAddr' = 0
  /\ ramData' = Idle
  /\ wrOut' = Idle
  /\ wrVwr' = FALSE
  /\ wrTimeCnt' = 0
  /\ bypass' = FALSE
  /\ start' = FALSE
  /\ finish' = FALSE
  /\ UNCHANGED wrState

WrSent(in) ==
  /\ wrState = "SENT"
  /\ \/ /\ IsBody(in)
        /\ wrOut' = in
        /\ UNCHANGED <<wrVwr, wrState>>
     \/ /\ IsTail(in)
        /\ wrOut' = in
        /\ wrVwr' = TRUE
        /\ wrState' = "IDLE"
     \/ /\ ~IsBody(in) /\ ~IsTail(in)
        /\ wrOut' = Idle
        /\ wrVwr' = FALSE
        /\ wrState' = "DISCARD"
  /\ UNCHANGED <<ramWe, ramAddr, ramData, wrTimeCnt, bypass, start, finish>>

\* The last word is taken from the data bus without looking at the strobe.
WrStore(in) ==
  /\ wrState = "STORE"
  /\ \/ /\ IsBody(in)
        /\ ramWe' = TRUE
        /\ ramAddr' = NextAddr(ramAddr)
        /\ ramData' = in
        /\ UNCHANGED <<start, wrState>>
     \/ /\ in.flag = "tail"
        /\ ramWe' = TRUE
        /\ ramAddr' = NextAddr(ramAddr)
        /\ ramData' = in
        /\ start' = TRUE
        /\ wrState' = "WAIT"
     \/ /\ ~IsBody(in) /\ in.flag # "tail"
        /\ ramWe' = FALSE
        /\ wrState' = "DISCARD"
        /\ UNCHANGED <<ramAddr, ramData, start>>
  /\ UNCHANGED <<wrOut, wrVwr, wrTimeCnt, bypass, finish>>

\* The clocks of the test are counted here, and packets that arrive are lost.
WrWait ==
  /\ wrState = "WAIT"
  /\ \/ /\ wrTimeCnt <= SentTime
        /\ wrTimeCnt' = wrTimeCnt + 1
        /\ ramAddr' = 0
        /\ ramData' = Idle
        /\ ramWe' = FALSE
        /\ UNCHANGED <<finish, wrState>>
     \/ /\ wrTimeCnt > SentTime
        /\ finish' = TRUE
        /\ wrState' = "IDLE"
        /\ UNCHANGED <<wrTimeCnt, ramWe, ramAddr, ramData>>
  /\ UNCHANGED <<wrOut, wrVwr, bypass, start>>

WrDiscard(in) ==
  /\ wrState = "DISCARD"
  /\ \/ /\ in.wr /\ in.flag # "tail"
        /\ ramWe' = FALSE
        /\ wrOut' = Idle
        /\ wrVwr' = FALSE
        /\ UNCHANGED wrState
     \/ /\ ~in.wr \/ in.flag = "tail"
        /\ wrState' = "IDLE"
        /\ UNCHANGED <<ramWe, wrOut, wrVwr>>
  /\ UNCHANGED <<ramAddr, ramData, wrTimeCnt, bypass, start, finish>>

WrStep(in) ==
  \/ WrBypass(in)
  \/ WrStoreHead(in)
  \/ WrClear(in)
  \/ WrSent(in)
  \/ WrStore(in)
  \/ WrWait
  \/ WrDiscard(in)
-----------------------------------------------------------------------------
\* The register block: software writes one half of sent_time_reg at a time.
WrSetTimeHigh(v) == timeReg' = [timeReg EXCEPT !.hi = v]
WrSetTimeLow(v)  == timeReg' = [timeReg EXCEPT !.lo = v]
=============================================================================
