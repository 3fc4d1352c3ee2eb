-------------------------------- MODULE Pgm ---------------------------------
(***************************************************************************)
(* pgm.v: pgm_wr, the RAM and pgm_rd wired together, clocked by one clock, *)
(* with what surrounds them: the action module gac that delivers packets   *)
(* and the test program that sets the registers, sends the model packet,   *)
(* polls for the end of the test and resets the generator.  In every step  *)
(* of the specification all the hardware takes one clock.                  *)
(***************************************************************************)
EXTENDS PgmWr, PgmRd, GacPort

CONSTANTS
  Highs, Lows,\* halves of sent_time_reg the test program may write
  Rates,      \* values of sent_rate_reg
  LatFlags,   \* values of lat_flag
  MaxTests,   \* bound: tests the program runs
  Traffic,    \* whether ordinary packets arrive besides the model packet
  SlowReset   \* whether the reset arrives only after the start flag fell

ASSUME PgmAssumption ==
  /\ RamDepth \in Nat /\ RamDepth >= 4
  /\ \A n \in Lens : n \in Nat /\ n >= 2 /\ n + 2 <= RamDepth
  /\ HalfWord \in Nat \ {0}
  /\ RateMod \in Nat \ {0}
  /\ TailBytes \in 0 .. 15
  /\ Highs \subseteq Nat /\ Lows \subseteq Nat
  /\ Rates \subseteq 0 .. RateMod - 1
  /\ LatFlags \subseteq BOOLEAN
  /\ MaxTests \in Nat
  /\ {Traffic, MidGap, SlowReset} \subseteq BOOLEAN

VARIABLES
  swPc,       \* what the test program does next
  testNo      \* the test it is in

hwVars == <<wrVars, ramVars, rdVars>>
vars == <<hwVars, timeReg, rdRegs, gacOut, swPc, testNo>>

SwSteps == {"high", "low", "rate", "lat", "send", "poll", "reset", "unreset",
            "end"}

TypeOK ==
  /\ WrTypeOK
  /\ RamTypeOK
  /\ RdTypeOK
  /\ gacOut \in Beat
  /\ swPc \in SwSteps
  /\ testNo \in 0 .. MaxTests

Init ==
  /\ WrInit
  /\ RamInit
  /\ RdInit
  /\ gacOut = Idle
  /\ swPc = "high"
  /\ testNo = 0
-----------------------------------------------------------------------------
\* What arrives on the wires from gac in one clock.
GacStep ==
  \/ GacContinue
  \/ GacUnderrun
  \/ GacPause
  \/ Traffic /\ GacHead(0)
-----------------------------------------------------------------------------
\* One clock of pgm: every block reads the wires as they were before it.
Hardware ==
  /\ WrStep(gacOut)
  /\ RamStep(ramWe, ramAddr, ramData, rdAddr)
  /\ RdStep(wrOut, wrVwr, bypass, start, ramQ, SentTime)

\* No command reaches the registers in this clock.
Tick ==
  /\ GacStep
  /\ Hardware
  /\ UNCHANGED <<timeReg, rdRegs, swPc, testNo>>

\* The test program moves from one step to the next in this clock.
SwMove(from, to) ==
  /\ swPc = from
  /\ swPc' = to
  /\ Hardware

\* ant_set_sent_time_reg writes the high half first.
SwTimeHigh ==
  /\ SwMove("high", "low") /\ GacStep
  /\ \E v \in Highs : WrSetTimeHigh(v)
  /\ UNCHANGED <<rdRegs, testNo>>

SwTimeLow ==
  /\ SwMove("low", "rate") /\ GacStep
  /\ \E v \in Lows : WrSetTimeLow(v)
  /\ UNCHANGED <<rdRegs, testNo>>

SwRate ==
  /\ SwMove("rate", "lat") /\ GacStep
  /\ \E v \in Rates : RdSetRate(v)
  /\ UNCHANGED <<timeReg, testNo>>

SwLat ==
  /\ SwMove("lat", "send") /\ GacStep
  /\ \E b \in LatFlags : RdSetLat(b)
  /\ UNCHANGED <<timeReg, testNo>>

\* The model packet reaches the generator.
SwSend ==
  /\ testNo < MaxTests
  /\ SwMove("send", "poll")
  /\ GacHead(testNo + 1)
  /\ testNo' = testNo + 1
  /\ UNCHANGED <<timeReg, rdRegs>>

\* ant_check_finish reads FIN_S in pgm_rd_state.
SwSeeFinish ==
  /\ rdState = "FIN"
  /\ SwMove("poll", "reset") /\ GacStep
  /\ UNCHANGED <<timeReg, rdRegs, testNo>>

\* ant_rst sets soft_rst and clears it again.
SwReset ==
  /\ SlowReset => ~start
  /\ SwMove("reset", "unreset") /\ GacStep
  /\ RdSoftRst(TRUE)
  /\ UNCHANGED <<timeReg, testNo>>

SwUnreset ==
  /\ SwMove("unreset", IF testNo < MaxTests THEN "high" ELSE "end")
  /\ GacStep
  /\ RdSoftRst(FALSE)
  /\ UNCHANGED <<timeReg, testNo>>

Software ==
  \/ SwTimeHigh \/ SwTimeLow \/ SwRate \/ SwLat
  \/ SwSend \/ SwSeeFinish \/ SwReset \/ SwUnreset

Next == Tick \/ Software

Spec == Init /\ [][Next]_vars

\* The clock never stops and the test program runs.
FairSpec == Spec /\ WF_vars(Next) /\ WF_vars(Software)
-----------------------------------------------------------------------------
\* Where the last word of the stored packet is, and what one copy adds to
\* sent_time_cnt, which HAUNT1_S does not count.  Behind the last word the RAM
\* may still hold the last word of a longer packet.
ModelTail == CHOOSE a \in Addr : /\ ram[a].flag = "tail"
                                 /\ \A b \in 0 .. a - 1 : ram[b].flag # "tail"
ModelLen  == ModelTail + 1
Period    == ModelLen + rateReg + 2

(***************************************************************************)
(* pgm_rd never ends the test before pgm_wr does: the two count the time   *)
(* of the test separately, and pgm_rd's reading starts later and skips a   *)
(* clock for every copy.  Were it otherwise a reset would find the start   *)
(* flag of the same test still up and pgm_rd would replay it again.        *)
(***************************************************************************)
RdNeverFinishesFirst == rdState = "FIN" => wrState # "WAIT"

(***************************************************************************)
(* While pgm_rd replays the model packet (states HAUNT1_S to READ_S and    *)
(* WAIT_S) pgm_wr does not store into the RAM, and what is stored there is *)
(* one whole packet, from its first to its last word.                      *)
(***************************************************************************)
ReplayIntact ==
  Replaying => /\ wrState # "STORE"
               /\ \E n \in Lens : \A i \in 0 .. n - 1 :
                    /\ ram[i].pkt = testNo
                    /\ ram[i].seq = i
                    /\ (ram[i].flag = "tail") <=> (i = n - 1)

(***************************************************************************)
(* Whatever the order of traffic, test and reset, the words pgm emits form *)
(* whole packets: after a first or middle word comes the next word of the  *)
(* same packet in the very next clock, and in no other way does a middle   *)
(* or last word appear.                                                    *)
(***************************************************************************)
Continues(b, c) == /\ c.wr /\ c.flag \in {"body", "tail"}
                   /\ c.pkt = b.pkt /\ c.seq = b.seq + 1
Unfinished(b) == b.wr /\ b.flag \in {"head", "body"}

FramedOutput ==
  [][IF Unfinished(rdOut)
     THEN Continues(rdOut, rdOut')
     ELSE rdOut'.wr => rdOut'.flag = "head" /\ ~rdOut.wr]_vars

(***************************************************************************)
(* The counters keep step with the copies: when the first word of a copy   *)
(* is about to be emitted, sent_time_cnt is exactly what the copies sent   *)
(* so far, sent_rate_reg and the length of the packet make it, and the     *)
(* counters that the test program collects agree with those copies.        *)
(***************************************************************************)
PacedReplay ==
  rdState = "READ" /\ ramQ.flag = "head" =>
    /\ rdTimeCnt = 1 + pktCnt * Period
    /\ bitCnt = pktCnt * (WordBytes * (ModelLen - 1) + TailBytes)

(***************************************************************************)
(* The test ends at the first end of a copy at which sent_time_cnt has     *)
(* reached sent_time_reg: the overshoot is at most what a copy adds to it. *)
(***************************************************************************)
TestLength ==
  rdState = "FIN" =>
    /\ rdTimeReg < rdTimeCnt
    /\ pktCnt > 1 => rdTimeCnt <= rdTimeReg + Period

(***************************************************************************)
(* pgm_rd, the RAM and pgm_wr implement the abstract generator: the two    *)
(* clocks of RAM latency, the read address that runs ahead and the flags   *)
(* between the halves are invisible at the output.  A copy's position is   *)
(* read off the address, which is two words ahead of the word emitted.     *)
(***************************************************************************)
Phase == IF Replaying THEN "run" ELSE IF rdState = "FIN" THEN "done" ELSE "idle"

Generator == INSTANCE PktGenerator WITH
  PktIds <- 1 .. MaxTests,
  phase  <- Phase,
  pkt    <- IF Phase = "idle" THEN 0 ELSE ram[0].pkt,
  len    <- IF Phase = "idle" THEN 0 ELSE ModelLen,
  pos    <- IF rdState = "READ" THEN rdAddr - 2 ELSE 0,
  count  <- IF Phase = "idle" THEN 0 ELSE pktCnt,
  out    <- IF Phase # "idle" /\ rdOut.wr
            THEN [pkt |-> rdOut.pkt, pos |-> rdOut.seq,
                  last |-> rdOut.flag = "tail", stamp |-> rdOut.stamp]
            ELSE [pkt |-> 0, pos |-> -1, last |-> FALSE, stamp |-> -1]

ImplementsGenerator == Generator!Spec

(***************************************************************************)
(* When the model packet of a test is about to be sent, the reset of the   *)
(* test before has taken effect: pgm_rd is idle, or busy with ordinary     *)
(* traffic, and the start flag is down.                                    *)
(***************************************************************************)
ReadyForTest == swPc = "send" => rdState \in {"IDLE", "SENT"} /\ ~start

(***************************************************************************)
(* Every test the program starts ends: it sees FIN, resets pgm_rd, and is  *)
(* free to begin the next one.                                             *)
(***************************************************************************)
TestCompletes == swPc = "poll" ~> swPc \in {"high", "end"}
=============================================================================
