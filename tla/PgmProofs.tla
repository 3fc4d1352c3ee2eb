----------------------------- MODULE PgmProofs ------------------------------
(***************************************************************************)
(* What is proved of the packet generator for every RAM depth, every set   *)
(* of packet lengths, register values and number of tests.                 *)
(***************************************************************************)
EXTENDS Pgm, TLAPS

(***************************************************************************)
(* Type correctness, block by block.                                       *)
(***************************************************************************)

\* The address after the last one is address 0.
LEMMA NextAddrType == ASSUME NEW a \in Addr PROVE NextAddr(a) \in Addr
  BY PgmAssumption DEF Addr, NextAddr

\* One clock of pgm_wr keeps its registers in their ranges.
LEMMA WrStepType ==
  ASSUME WrTypeOK, NEW in \in Beat, WrStep(in), timeReg' \in TimeRegs
  PROVE  WrTypeOK'
<1> USE DEF WrTypeOK, WrStates
<1>0. /\ Idle \in Beat /\ 0 \in Addr
      /\ NextAddr(ramAddr) \in Addr
      /\ wrTimeCnt + 1 \in Nat
  BY PgmAssumption, NextAddrType DEF Idle, Beat, Flags, Addr
<1>1. CASE WrBypass(in)
  BY <1>1 DEF WrBypass
<1>2. CASE WrStoreHead(in)
  BY <1>0, <1>2 DEF WrStoreHead
<1>3. CASE WrClear(in)
  BY <1>0, <1>3 DEF WrClear
<1>4. CASE WrSent(in)
  BY <1>0, <1>4 DEF WrSent
<1>5. CASE WrStore(in)
  BY <1>0, <1>5 DEF WrStore
<1>6. CASE WrWait
  BY <1>0, <1>6 DEF WrWait
<1>7. CASE WrDiscard(in)
  BY <1>0, <1>7 DEF WrDiscard
<1>8. QED
  BY <1>1, <1>2, <1>3, <1>4, <1>5, <1>6, <1>7 DEF WrStep

\* One clock of the RAM.
LEMMA RamStepType ==
  ASSUME RamTypeOK, NEW we \in BOOLEAN, NEW wa \in Addr, NEW wd \in Beat,
         NEW ra \in Addr, RamStep(we, wa, wd, ra)
  PROVE  RamTypeOK'
  BY DEF RamTypeOK, RamStep

\* What pgm_rd puts on its output is an output word.
LEMMA OutType ==
  ASSUME NEW b \in Beat, NEW s \in Nat \cup {NoStamp}
  PROVE  Out(b, s) \in OutBeat /\ Out(Strobed(b), s) \in OutBeat
  BY DEF Out, OutBeat, Beat, Strobed

\* An output word without its strobe, or none at all.
LEMMA OutTypeNone ==
  /\ NoOut \in OutBeat
  /\ \A o \in OutBeat : [o EXCEPT !.wr = FALSE] \in OutBeat
<1>1. NoOut \in OutBeat
  BY DEF NoOut, OutBeat, Flags, NoStamp
<1>2. ASSUME NEW o \in OutBeat PROVE [o EXCEPT !.wr = FALSE] \in OutBeat
  BY DEF OutBeat
<1>3. QED BY <1>1, <1>2

\* One clock of pgm_rd keeps its registers in their ranges.
LEMMA RdStepType ==
  ASSUME RdTypeOK, NEW in \in Beat, NEW vwr \in BOOLEAN, NEW byp \in BOOLEAN,
         NEW go \in BOOLEAN, NEW q \in Beat, NEW time \in Nat,
         RdStep(in, vwr, byp, go, q, time),
         rateReg' \in RateVals, latFlag' \in BOOLEAN,
         softRst' \in BOOLEAN
  PROVE  RdTypeOK'
<1> USE DEF RdTypeOK, RdStates, rdCounters
<1>a. 0 \in Addr /\ 1 \in Addr /\ 2 \in Addr /\ NextAddr(rdAddr) \in Addr
  BY PgmAssumption, NextAddrType DEF Addr
<1>o. NoOut \in OutBeat /\ [rdOut EXCEPT !.wr = FALSE] \in OutBeat
  BY OutTypeNone
<1>s. NoStamp \in Nat \cup {NoStamp} /\ Stamp \in Nat \cup {NoStamp}
  BY DEF Stamp
<1>z. 0 \in Nat /\ 0 \in RateVals /\ 0 \in CycleVals
  BY PgmAssumption DEF RateVals, CycleVals
<1>t. rdTimeCnt + 1 \in Nat
  OBVIOUS
<1>r. (rateCnt + 1) % RateMod \in RateVals
  BY PgmAssumption DEF RateVals
<1>y. (cycleCnt + 1) % 2048 \in CycleVals
  BY DEF CycleVals
<1>b. bitCnt + WordBytes \in Nat
  BY DEF WordBytes
<1>e. bitCnt + TailBytes \in Nat
  BY PgmAssumption
<1>l. latPktCnt + 1 \in Nat
  OBVIOUS
<1>p. pktCnt + 1 \in Nat
  OBVIOUS
<1>w. ASSUME NEW s \in Nat \cup {NoStamp} PROVE Out(Strobed(q), s) \in OutBeat
  BY OutType
<1>1. CASE RdBypass(in, vwr, byp)
  BY <1>1, <1>s, OutType, Zenon DEF RdBypass
<1>2. CASE RdStart(in, byp, go, time)
  BY <1>2, <1>a, <1>o, Zenon DEF RdStart
<1>3. CASE RdClear(in, byp, go)
  BY <1>3, <1>a, <1>o, <1>z, Zenon DEF RdClear, RdQuiet
<1>4. CASE RdSent(in, vwr)
  BY <1>4, <1>o, <1>s, OutType, Zenon DEF RdSent
<1>5. CASE RdHaunt1
  BY <1>5, <1>a, Zenon DEF RdHaunt1
<1>6. CASE RdHaunt2
  BY <1>6, <1>a, <1>t, Zenon DEF RdHaunt2
<1>7. CASE RdHead(q)
  BY <1>7, <1>a, <1>s, <1>z, <1>t, <1>b, <1>w, Zenon DEF RdHead
<1>8. CASE RdBody(q)
  <2>1. rdOut' \in OutBeat
    BY <1>8, <1>s, <1>w, Zenon DEF RdBody
  <2>2. cycleCnt' \in CycleVals
    BY <1>8, <1>y DEF RdBody
  <2>3. rdAddr' \in Addr /\ rdTimeCnt' \in Nat /\ bitCnt' \in Nat
    BY <1>8, <1>a, <1>t, <1>b, Zenon DEF RdBody
  <2>4. rdVwr' \in BOOLEAN
    BY <1>8, Zenon DEF RdBody
  <2>5. UNCHANGED <<rdState, rdTimeReg, rateCnt, latPktCnt, pktCnt>>
    BY <1>8, Zenon DEF RdBody
  <2>6. QED
    BY <2>1, <2>2, <2>3, <2>4, <2>5, Zenon
<1>9. CASE RdTail(q)
  <2>1. rdState' \in RdStates
    BY <1>9 DEF RdTail
  <2>2. rdOut' \in OutBeat
    BY <1>9, <1>s, <1>w, Zenon DEF RdTail
  <2>3. QED
    BY <1>9, <1>a, <1>t, <1>e, <1>p, <2>1, <2>2, Zenon DEF RdTail
<1>10. CASE RdWait
  BY <1>10, <1>a, <1>o, <1>z, <1>t, <1>r, <1>l, Zenon DEF RdWait, RdQuiet
<1>11. CASE RdProbe(q)
  BY <1>11, <1>a, <1>s, <1>z, <1>t, OutType, Zenon DEF RdProbe
<1>12. CASE RdFin
  BY <1>12, <1>o, Zenon DEF RdFin, RdQuiet
<1>13. QED
  BY <1>1, <1>2, <1>3, <1>4, <1>5, <1>6, <1>7, <1>8, <1>9, <1>10, <1>11,
     <1>12 DEF RdStep
-----------------------------------------------------------------------------
\* A word on the wires.
LEMMA WordType ==
  ASSUME NEW f \in Flags, NEW p \in Nat, NEW n \in Nat
  PROVE  Word(f, p, n) \in Beat
  BY DEF Word, Beat

\* What gac puts on the wires is a word, or no word.
LEMMA GacType ==
  ASSUME gacOut \in Beat, GacStep
  PROVE  gacOut' \in Beat
<1>1. gacOut.pkt \in Nat /\ gacOut.seq + 1 \in Nat /\ 0 \in Nat
  BY DEF Beat
<1>2. {"head", "body", "tail"} \subseteq Flags
  BY DEF Flags
<1>3. CASE GacContinue
  <2>1. gacOut' \in NextWords(gacOut)
    BY <1>3 DEF GacContinue
  <2>2. \/ gacOut' = Word("body", gacOut.pkt, gacOut.seq + 1)
        \/ gacOut' = Word("tail", gacOut.pkt, gacOut.seq + 1)
    BY <2>1, Zenon DEF NextWords
  <2>3. QED
    BY <1>1, <1>2, <2>2, WordType
<1>4. CASE GacUnderrun
  BY <1>4 DEF GacUnderrun, Beat
<1>5. CASE GacPause
  <2>1. Idle \in Beat
    BY DEF Idle, Beat, Flags
  <2>2. [gacOut EXCEPT !.wr = FALSE] \in Beat
    BY DEF Beat
  <2>3. QED
    BY <1>5, <2>1, <2>2 DEF GacPause
<1>6. CASE GacHead(0)
  BY <1>1, <1>2, <1>6, WordType DEF GacHead
<1>7. QED
  BY <1>3, <1>4, <1>5, <1>6 DEF GacStep

\* sent_time_reg is a number whatever its halves.
LEMMA SentTimeType == ASSUME timeReg \in TimeRegs PROVE SentTime \in Nat
<1>1. timeReg.hi \in Nat /\ timeReg.lo \in Nat /\ HalfWord \in Nat
  BY PgmAssumption DEF TimeRegs
<1>2. timeReg.hi * HalfWord \in Nat
  BY <1>1
<1>3. QED
  BY <1>1, <1>2 DEF SentTime

\* One clock of the whole block.
LEMMA HardwareType ==
  ASSUME TypeOK, Hardware, timeReg' \in TimeRegs,
         rateReg' \in RateVals, latFlag' \in BOOLEAN, softRst' \in BOOLEAN
  PROVE  WrTypeOK' /\ RamTypeOK' /\ RdTypeOK'
<1>1. WrTypeOK'
  BY WrStepType DEF TypeOK, Hardware
<1>2. RamTypeOK'
  BY RamStepType DEF TypeOK, Hardware, WrTypeOK, RdTypeOK
<1>3. SentTime \in Nat
  BY SentTimeType DEF TypeOK, WrTypeOK
<1>4. ramQ \in Beat /\ wrOut \in Beat /\ {wrVwr, bypass, start} \subseteq BOOLEAN
  BY DEF TypeOK, RamTypeOK, WrTypeOK
<1>5. RdTypeOK'
  BY <1>3, <1>4, RdStepType DEF TypeOK, Hardware
<1>6. QED BY <1>1, <1>2, <1>5

\* The registers that only the register block writes keep their ranges.
RegsOK == /\ timeReg \in TimeRegs /\ rateReg \in RateVals
          /\ latFlag \in BOOLEAN /\ softRst \in BOOLEAN

\* A command leaves them in their ranges too.
LEMMA RegsType ==
  ASSUME TypeOK, Next
  PROVE  RegsOK'
<1> USE DEF RegsOK
<1>1. timeReg \in TimeRegs /\ rateReg \in RateVals /\ latFlag \in BOOLEAN
      /\ softRst \in BOOLEAN
  BY DEF TypeOK, WrTypeOK, RdTypeOK
<1>2. CASE Tick
  BY <1>1, <1>2 DEF Tick, rdRegs
<1>3. CASE SwTimeHigh
  <2>1. PICK v \in Highs : WrSetTimeHigh(v)
    BY <1>3 DEF SwTimeHigh
  <2>2. v \in Nat
    BY PgmAssumption
  <2>3. timeReg' \in TimeRegs
    BY <1>1, <2>1, <2>2 DEF WrSetTimeHigh, TimeRegs
  <2>4. QED
    BY <1>1, <1>3, <2>3 DEF SwTimeHigh, rdRegs
<1>4. CASE SwTimeLow
  <2>1. PICK v \in Lows : WrSetTimeLow(v)
    BY <1>4 DEF SwTimeLow
  <2>2. v \in Nat
    BY PgmAssumption
  <2>3. timeReg' \in TimeRegs
    BY <1>1, <2>1, <2>2 DEF WrSetTimeLow, TimeRegs
  <2>4. QED
    BY <1>1, <1>4, <2>3 DEF SwTimeLow, rdRegs
<1>5. CASE SwRate
  BY <1>1, <1>5, PgmAssumption DEF SwRate, RdSetRate, RateVals
<1>6. CASE SwLat
  BY <1>1, <1>6, PgmAssumption DEF SwLat, RdSetLat
<1>7. CASE SwSend
  BY <1>1, <1>7 DEF SwSend, rdRegs
<1>8. CASE SwSeeFinish
  BY <1>1, <1>8 DEF SwSeeFinish, rdRegs
<1>9. CASE SwReset
  BY <1>1, <1>9 DEF SwReset, RdSoftRst
<1>10. CASE SwUnreset
  BY <1>1, <1>10 DEF SwUnreset, RdSoftRst
<1>11. QED
  BY <1>2, <1>3, <1>4, <1>5, <1>6, <1>7, <1>8, <1>9, <1>10
  DEF Next, Software

\* Every step clocks the hardware, and the wires carry words.
LEMMA StepShape ==
  ASSUME TypeOK, Next
  PROVE  Hardware /\ gacOut' \in Beat
<1>1. Hardware
  BY DEF Next, Tick, Software, SwTimeHigh, SwTimeLow, SwRate, SwLat, SwSend,
         SwSeeFinish, SwReset, SwUnreset, SwMove
<1>2. CASE GacStep
  BY <1>1, <1>2, GacType DEF TypeOK
<1>3. CASE SwSend
  <2>1. testNo + 1 \in Nat /\ "head" \in Flags /\ 0 \in Nat
    BY PgmAssumption DEF TypeOK, Flags
  <2>2. gacOut' \in Beat
    BY <1>3, <2>1, WordType DEF SwSend, GacHead
  <2>3. QED BY <1>1, <2>2
<1>4. QED
  BY <1>2, <1>3 DEF Next, Tick, Software, SwTimeHigh, SwTimeLow, SwRate,
     SwLat, SwSeeFinish, SwReset, SwUnreset

\* Every step keeps the type invariant.
LEMMA TypeStep == ASSUME TypeOK, [Next]_vars PROVE TypeOK'
<1>1. CASE UNCHANGED vars
  BY <1>1, Zenon DEF TypeOK, WrTypeOK, RamTypeOK, RdTypeOK, vars, hwVars,
     wrVars, ramVars, rdVars, rdRegs
<1>2. CASE Next
  <2>1. Hardware /\ gacOut' \in Beat
    BY <1>2, StepShape
  <2>2. WrTypeOK' /\ RamTypeOK' /\ RdTypeOK'
    BY <1>2, <2>1, RegsType, HardwareType DEF RegsOK
  <2>3. testNo' \in 0 .. MaxTests
    <3>1. testNo' = testNo \/ (testNo < MaxTests /\ testNo' = testNo + 1)
      BY <1>2 DEF Next, Tick, Software, SwTimeHigh, SwTimeLow, SwRate, SwLat,
         SwSend, SwSeeFinish, SwReset, SwUnreset
    <3>2. QED
      BY <3>1, PgmAssumption DEF TypeOK
  <2>4. swPc' \in SwSteps
    BY <1>2 DEF TypeOK, SwSteps, Next, Tick, Software, SwTimeHigh, SwTimeLow,
       SwRate, SwLat, SwSend, SwSeeFinish, SwReset, SwUnreset, SwMove
  <2>5. QED
    BY <2>1, <2>2, <2>3, <2>4 DEF TypeOK
<1>3. QED
  BY <1>1, <1>2

\* The hardware comes out of reset with every register in its range.
LEMMA TypeInit == Init => TypeOK
<1> SUFFICES ASSUME Init PROVE TypeOK
  OBVIOUS
<1>1. Idle \in Beat /\ NoOut \in OutBeat /\ 0 \in Addr
      /\ 0 \in RateVals /\ 0 \in CycleVals
  BY PgmAssumption, OutTypeNone DEF Idle, Beat, Flags, Addr, RateVals, CycleVals
<1>2. WrTypeOK
  BY <1>1 DEF Init, WrInit, WrTypeOK, WrStates, TimeRegs
<1>3. RamTypeOK
  BY <1>1 DEF Init, RamInit, RamTypeOK
<1>4. RdTypeOK
  BY <1>1 DEF Init, RdInit, RdTypeOK, RdStates
<1>5. QED
  BY <1>1, <1>2, <1>3, <1>4, PgmAssumption DEF Init, TypeOK, SwSteps

(***************************************************************************)
(* Every register of pgm_wr, pgm_rd and the RAM stays in its range: the    *)
(* addresses inside the RAM, the counters non-negative, the states among   *)
(* the ones the case statements name.                                      *)
(***************************************************************************)
THEOREM TypeCorrect == Spec => []TypeOK
  BY TypeInit, TypeStep, PTL DEF Spec
-----------------------------------------------------------------------------
(***************************************************************************)
(* The test protocol.  pgm_rd can only be between its start and its end    *)
(* while the test program polls or resets; the start flag is down whenever *)
(* a model packet is on its way; and as long as pgm_wr counts, its count   *)
(* is ahead of pgm_rd's by the clocks pgm_rd spends before its first word. *)
(***************************************************************************)
Preparing == swPc \in {"high", "low", "rate", "lat", "send", "end"}

ModelHead(b) == IsHead(b) /\ IsModel(b)

\* A first word is on pgm_wr's output only while it passes a packet on, and
\* pgm_rd is done with a packet one clock after pgm_wr is.
PassOn ==
  /\ IsHead(wrOut) => wrState = "SENT"
  /\ rdState = "SENT" =>
       \/ wrState = "SENT"
       \/ wrState \in {"IDLE", "DISCARD"} /\ ~IsHead(wrOut) /\ ~IsBody(wrOut)

\* Where pgm_rd can be at each step of the test program.
ProgramPhase ==
  /\ Preparing => rdState \in {"IDLE", "SENT"} /\ ~start
  /\ softRst <=> swPc = "unreset"
  /\ swPc = "reset" => rdState = "FIN"
  /\ swPc = "unreset" => rdState \in {"FIN", "IDLE", "SENT"} /\ ~start
  /\ ~start => wrTimeCnt = 0

\* A model packet finds the generator at rest, from its first word on.
ModelArrives ==
  /\ ModelHead(gacOut) =>
       /\ swPc = "poll" /\ ~start
       /\ rdState \in {"IDLE", "SENT"}
       /\ wrState \notin {"STORE", "WAIT"}
  /\ wrState = "STORE" => swPc = "poll" /\ ~start /\ rdState = "IDLE"

\* While pgm_wr counts, pgm_rd is behind.
Lead ==
  wrState = "WAIT" =>
    /\ swPc = "poll" /\ start
    /\ wrTimeCnt <= SentTime + 1
    /\ rdState \notin {"SENT", "FIN"}
    /\ rdState = "IDLE" => rdTimeCnt = 0
    /\ rdState = "HAUNT1" => wrTimeCnt >= rdTimeCnt + 1
    /\ rdState \in {"HAUNT2", "READ", "WAIT", "PROBE"} =>
         wrTimeCnt >= rdTimeCnt + 2
    /\ Replaying => rdTimeReg = SentTime

TestInv == TypeOK /\ PassOn /\ ProgramPhase /\ ModelArrives /\ Lead

\* How pgm_wr moves between its states.
LEMMA WrMoves ==
  ASSUME WrStep(gacOut)
  PROVE
    /\ wrState' = "STORE" => wrState = "STORE" \/ ModelHead(gacOut)
    /\ wrState' = "STORE" => start' = start
    /\ wrState' = "WAIT" =>
         \/ wrState = "STORE" /\ start' /\ wrTimeCnt' = wrTimeCnt
         \/ /\ wrState = "WAIT" /\ start' = start
            /\ wrTimeCnt <= SentTime /\ wrTimeCnt' = wrTimeCnt + 1
    /\ \/ start' = start
       \/ ~start' /\ wrTimeCnt' = 0
       \/ wrState = "STORE" /\ wrState' = "WAIT"
    /\ wrState # "WAIT" => wrTimeCnt' \in {0, wrTimeCnt}
<1> USE DEF ModelHead
<1>1. CASE WrBypass(gacOut)
  BY <1>1 DEF WrBypass
<1>2. CASE WrStoreHead(gacOut)
  BY <1>2 DEF WrStoreHead
<1>3. CASE WrClear(gacOut)
  BY <1>3 DEF WrClear
<1>4. CASE WrSent(gacOut)
  BY <1>4 DEF WrSent
<1>5. CASE WrStore(gacOut)
  BY <1>5 DEF WrStore
<1>6. CASE WrWait
  BY <1>6 DEF WrWait
<1>7. CASE WrDiscard(gacOut)
  BY <1>7 DEF WrDiscard
<1>8. QED
  BY <1>1, <1>2, <1>3, <1>4, <1>5, <1>6, <1>7 DEF WrStep

\* What pgm_wr's output shows after each of its states.
LEMMA WrOutMoves ==
  ASSUME WrStep(gacOut)
  PROVE
    /\ \/ wrState' = "SENT" \/ ~IsHead(wrOut')
       \/ wrOut' = wrOut /\ wrState # "SENT"
    /\ wrState = "SENT" =>
         \/ wrState' = "SENT"
         \/ wrState' \in {"IDLE", "DISCARD"} /\ ~IsHead(wrOut') /\ ~IsBody(wrOut')
<1>i. ~IsHead(Idle) /\ ~IsBody(Idle)
  BY DEF IsHead, IsBody, Idle
<1>1. CASE WrBypass(gacOut)
  BY <1>1 DEF WrBypass
<1>2. CASE WrStoreHead(gacOut)
  BY <1>2 DEF WrStoreHead
<1>3. CASE WrClear(gacOut)
  BY <1>3, <1>i DEF WrClear
<1>4. CASE WrSent(gacOut)
  <2>1. IsTail(gacOut) => ~IsHead(gacOut) /\ ~IsBody(gacOut)
    BY DEF IsTail, IsHead, IsBody
  <2>2. QED
    BY <1>4, <1>i, <2>1 DEF WrSent
<1>5. CASE WrStore(gacOut)
  BY <1>5 DEF WrStore
<1>6. CASE WrWait
  BY <1>6 DEF WrWait
<1>7. CASE WrDiscard(gacOut)
  BY <1>7, <1>i DEF WrDiscard
<1>8. QED
  BY <1>1, <1>2, <1>3, <1>4, <1>5, <1>6, <1>7 DEF WrStep

\* How pgm_rd moves between its states, and when it counts time.
LEMMA RdMoves ==
  ASSUME RdStep(wrOut, wrVwr, bypass, start, ramQ, SentTime)
  PROVE
    /\ rdState = "IDLE" /\ ~start =>
         \/ rdState' = "SENT" /\ IsHead(wrOut)
         \/ rdState' = "IDLE" /\ rdTimeCnt' = 0
    /\ rdState = "IDLE" /\ start =>
         \/ rdState' = "SENT" /\ IsHead(wrOut)
         \/ /\ rdState' = "HAUNT1"
            /\ rdTimeReg' = SentTime /\ rdTimeCnt' = rdTimeCnt
    /\ rdState = "SENT" => \/ rdState' = "SENT" /\ IsBody(wrOut)
                           \/ rdState' = "IDLE"
    /\ rdState = "HAUNT1" =>
         rdState' = "HAUNT2" /\ UNCHANGED <<rdTimeReg, rdTimeCnt>>
    /\ rdState \in {"HAUNT2", "READ", "WAIT", "PROBE"} =>
         /\ rdTimeCnt' = rdTimeCnt + 1 /\ rdTimeReg' = rdTimeReg
         /\ \/ rdState' \in {"HAUNT1", "READ", "WAIT", "PROBE"}
            \/ rdState' = "FIN" /\ TimeOver
    /\ rdState = "FIN" => rdState' = IF softRst THEN "IDLE" ELSE "FIN"
<1> USE DEF rdCounters
<1>1. CASE RdBypass(wrOut, wrVwr, bypass)
  BY <1>1 DEF RdBypass
<1>2. CASE RdStart(wrOut, bypass, start, SentTime)
  BY <1>2 DEF RdStart
<1>3. CASE RdClear(wrOut, bypass, start)
  BY <1>3 DEF RdClear
<1>4. CASE RdSent(wrOut, wrVwr)
  BY <1>4 DEF RdSent
<1>5. CASE RdHaunt1
  BY <1>5 DEF RdHaunt1
<1>6. CASE RdHaunt2
  BY <1>6 DEF RdHaunt2
<1>7. CASE RdHead(ramQ)
  BY <1>7 DEF RdHead
<1>8. CASE RdBody(ramQ)
  BY <1>8 DEF RdBody
<1>9. CASE RdTail(ramQ)
  BY <1>9 DEF RdTail
<1>10. CASE RdWait
  BY <1>10 DEF RdWait
<1>11. CASE RdProbe(ramQ)
  BY <1>11 DEF RdProbe
<1>12. CASE RdFin
  BY <1>12 DEF RdFin
<1>13. QED
  BY <1>1, <1>2, <1>3, <1>4, <1>5, <1>6, <1>7, <1>8, <1>9, <1>10, <1>11,
     <1>12 DEF RdStep

\* How the test program moves, and when sent_time_reg can change.
LEMMA ProgramMoves ==
  ASSUME Next
  PROVE
    /\ \/ swPc' = swPc /\ softRst' = softRst
       \/ /\ swPc \in {"high", "low", "rate", "lat"}
          /\ swPc' \in {"low", "rate", "lat", "send"} /\ softRst' = softRst
       \/ swPc = "send" /\ swPc' = "poll" /\ softRst' = softRst
       \/ /\ swPc = "poll" /\ swPc' = "reset"
          /\ rdState = "FIN" /\ softRst' = softRst
       \/ /\ swPc = "reset" /\ swPc' = "unreset"
          /\ (SlowReset => ~start) /\ softRst'
       \/ swPc = "unreset" /\ swPc' \in {"high", "end"} /\ ~softRst'
    /\ swPc \notin {"high", "low"} => timeReg' = timeReg
<1>1. CASE Tick
  BY <1>1 DEF Tick, rdRegs
<1>2. CASE SwTimeHigh \/ SwTimeLow
  BY <1>2 DEF SwTimeHigh, SwTimeLow, SwMove, rdRegs
<1>3. CASE SwRate \/ SwLat
  BY <1>3 DEF SwRate, SwLat, SwMove, RdSetRate, RdSetLat
<1>4. CASE SwSend \/ SwSeeFinish
  BY <1>4 DEF SwSend, SwSeeFinish, SwMove, rdRegs
<1>5. CASE SwReset \/ SwUnreset
  BY <1>5 DEF SwReset, SwUnreset, SwMove, RdSoftRst
<1>6. QED
  BY <1>1, <1>2, <1>3, <1>4, <1>5 DEF Next, Software

\* Only the test program sends a model packet.
LEMMA OnlyProgramSends ==
  ASSUME TypeOK, Next, ModelHead(gacOut')
  PROVE  swPc = "send" /\ swPc' = "poll" /\ ~IsHead(gacOut)
<1>1. ~GacStep
  <2>1. ASSUME GacContinue PROVE FALSE
    <3>1. gacOut' \in NextWords(gacOut)
      BY <2>1 DEF GacContinue
    <3>2. \/ gacOut' = Word("body", gacOut.pkt, gacOut.seq + 1)
          \/ gacOut' = Word("tail", gacOut.pkt, gacOut.seq + 1)
      BY <3>1, Zenon DEF NextWords
    <3>3. QED
      BY <3>2 DEF ModelHead, IsHead, Word
  <2>a. gacOut \in Beat /\ gacOut'.wr
    BY DEF TypeOK, ModelHead, IsHead
  <2>b. [gacOut EXCEPT !.wr = FALSE].wr = FALSE
    BY <2>a DEF Beat
  <2>2. ~GacUnderrun
    BY <2>a, <2>b DEF GacUnderrun
  <2>c. Idle.wr = FALSE
    BY DEF Idle
  <2>3. ~GacPause
    BY <2>a, <2>b, <2>c, Zenon DEF GacPause
  <2>4. ~GacHead(0)
    BY DEF GacHead, ModelHead, IsModel, Word
  <2>5. QED
    BY <2>1, <2>2, <2>3, <2>4 DEF GacStep
<1>2. SwSend
  BY <1>1 DEF Next, Tick, Software, SwTimeHigh, SwTimeLow, SwRate, SwLat,
     SwSeeFinish, SwReset, SwUnreset
<1>3. QED
  BY <1>2 DEF SwSend, SwMove, GacHead, IsHead

\* Each part of the invariant is kept by a step of the system.
LEMMA PassOnStep ==
  ASSUME TestInv, Next
  PROVE  PassOn'
<1>1. WrStep(gacOut) /\ RdStep(wrOut, wrVwr, bypass, start, ramQ, SentTime)
  BY StepShape DEF TestInv, Hardware
<1>2. IsHead(wrOut') => wrState' = "SENT"
  BY <1>1, WrOutMoves DEF TestInv, PassOn
<1>3. rdState' = "SENT" => wrState = "SENT"
  <2>1. rdState' = "SENT" =>
          \/ rdState = "IDLE" /\ IsHead(wrOut)
          \/ rdState = "SENT" /\ IsBody(wrOut)
    BY <1>1, RdMoves DEF TestInv, TypeOK, RdTypeOK, RdStates
  <2>2. QED
    BY <2>1 DEF TestInv, PassOn
<1>4. rdState' = "SENT" =>
        \/ wrState' = "SENT"
        \/ wrState' \in {"IDLE", "DISCARD"} /\ ~IsHead(wrOut') /\ ~IsBody(wrOut')
  BY <1>1, <1>3, WrOutMoves
<1>5. QED
  BY <1>2, <1>4 DEF PassOn

LEMMA ProgramPhaseStep ==
  ASSUME TestInv, Next, SlowReset
  PROVE  ProgramPhase'
<1>1. WrStep(gacOut) /\ RdStep(wrOut, wrVwr, bypass, start, ramQ, SentTime)
  BY StepShape DEF TestInv, Hardware
<1>2. start \in BOOLEAN /\ rdState \in RdStates
  BY DEF TestInv, TypeOK, WrTypeOK, RdTypeOK
<1>3. ~start /\ wrState # "STORE" => ~start'
  BY <1>1, WrMoves
<1>4. Preparing \/ swPc \in {"reset", "unreset"} => wrState # "STORE"
  BY DEF TestInv, ModelArrives, Preparing
<1>5. rdState \in {"IDLE", "SENT"} /\ ~start => rdState' \in {"IDLE", "SENT"}
  BY <1>1, <1>2, RdMoves
<1>6. rdState = "FIN" => rdState' = IF softRst THEN "IDLE" ELSE "FIN"
  BY <1>1, RdMoves
<1>7. softRst' <=> swPc' = "unreset"
  BY ProgramMoves DEF TestInv, ProgramPhase
<1>8. Preparing' => rdState' \in {"IDLE", "SENT"} /\ ~start'
  BY <1>3, <1>4, <1>5, <1>6, ProgramMoves
  DEF TestInv, ProgramPhase, Preparing
<1>9. swPc' = "reset" => rdState' = "FIN"
  BY <1>6, ProgramMoves DEF TestInv, ProgramPhase
<1>10. swPc' = "unreset" => rdState' \in {"FIN", "IDLE", "SENT"} /\ ~start'
  BY <1>3, <1>4, <1>5, <1>6, ProgramMoves DEF TestInv, ProgramPhase
<1>11. ~start' => wrTimeCnt' = 0
  BY <1>1, <1>2, WrMoves DEF TestInv, ProgramPhase, Lead
<1>12. QED
  BY <1>7, <1>8, <1>9, <1>10, <1>11 DEF ProgramPhase

LEMMA ModelArrivesStep ==
  ASSUME TestInv, Next
  PROVE  ModelArrives'
<1>1. WrStep(gacOut) /\ RdStep(wrOut, wrVwr, bypass, start, ramQ, SentTime)
  BY StepShape DEF TestInv, Hardware
<1>2. rdState \in {"IDLE", "SENT"} /\ ~start => rdState' \in {"IDLE", "SENT"}
  BY <1>1, RdMoves
<1>3. ASSUME ModelHead(gacOut')
      PROVE  /\ swPc' = "poll" /\ ~start'
             /\ rdState' \in {"IDLE", "SENT"}
             /\ wrState' \notin {"STORE", "WAIT"}
  <2>1. swPc = "send" /\ swPc' = "poll" /\ ~IsHead(gacOut)
    BY <1>3, OnlyProgramSends DEF TestInv
  <2>2. rdState \in {"IDLE", "SENT"} /\ ~start
    BY <2>1 DEF TestInv, ProgramPhase, Preparing
  <2>3. wrState \notin {"STORE", "WAIT"}
    BY <2>1 DEF TestInv, ModelArrives, Lead
  <2>4. wrState' \notin {"STORE", "WAIT"} /\ ~start'
    BY <1>1, <2>1, <2>2, <2>3, WrMoves DEF ModelHead
  <2>5. QED
    BY <1>2, <2>1, <2>2, <2>4
<1>4. ASSUME wrState' = "STORE"
      PROVE  swPc' = "poll" /\ ~start' /\ rdState' = "IDLE"
  <2>1. wrState = "STORE" \/ ModelHead(gacOut)
    BY <1>1, <1>4, WrMoves
  <2>2. swPc = "poll" /\ ~start /\ rdState \in {"IDLE", "SENT"}
    BY <2>1 DEF TestInv, ModelArrives
  <2>3. swPc' = "poll"
    BY <2>2, ProgramMoves
  <2>4. ~start'
    BY <1>1, <1>4, <2>2, WrMoves
  <2>5. wrState # "SENT"
    BY <1>1, <1>4 DEF WrStep, WrBypass, WrStoreHead, WrClear, WrSent, WrStore,
       WrWait, WrDiscard
  <2>6. ~IsHead(wrOut) /\ (rdState = "SENT" => ~IsBody(wrOut))
    BY <2>5 DEF TestInv, PassOn
  <2>7. rdState' = "IDLE"
    BY <1>1, <2>2, <2>6, RdMoves
  <2>8. QED
    BY <2>3, <2>4, <2>7
<1>5. QED
  BY <1>3, <1>4 DEF ModelArrives, ModelHead

LEMMA LeadStep ==
  ASSUME TestInv, Next
  PROVE  Lead'
<1> SUFFICES ASSUME wrState' = "WAIT"
             PROVE  /\ swPc' = "poll" /\ start'
                    /\ wrTimeCnt' <= SentTime' + 1
                    /\ rdState' \notin {"SENT", "FIN"}
                    /\ rdState' = "IDLE" => rdTimeCnt' = 0
                    /\ rdState' = "HAUNT1" => wrTimeCnt' >= rdTimeCnt' + 1
                    /\ rdState' \in {"HAUNT2", "READ", "WAIT", "PROBE"} =>
                         wrTimeCnt' >= rdTimeCnt' + 2
                    /\ Replaying' => rdTimeReg' = SentTime'
  BY DEF Lead
<1>1. WrStep(gacOut) /\ RdStep(wrOut, wrVwr, bypass, start, ramQ, SentTime)
  BY StepShape DEF TestInv, Hardware
<1>2. SentTime \in Nat /\ wrTimeCnt \in Nat /\ rdTimeCnt \in Nat
  BY SentTimeType DEF TestInv, TypeOK, WrTypeOK, RdTypeOK
<1>3. wrState \in {"STORE", "WAIT"}
  BY <1>1, WrMoves
<1>4. swPc = "poll"
  BY <1>3 DEF TestInv, ModelArrives, Lead
<1>5. SentTime' = SentTime
  BY <1>4, ProgramMoves DEF SentTime
<1>6. swPc' = "poll"
  <2>1. rdState # "FIN"
    BY <1>3 DEF TestInv, ModelArrives, Lead
  <2>2. QED
    BY <1>4, <2>1, ProgramMoves
<1>7. ~IsHead(wrOut)
  BY <1>3 DEF TestInv, PassOn
<1>8. CASE wrState = "STORE"
  <2>1. ~start /\ rdState = "IDLE" /\ wrTimeCnt = 0
    BY <1>8 DEF TestInv, ModelArrives, ProgramPhase
  <2>2. start' /\ wrTimeCnt' = 0
    BY <1>1, <1>8, <2>1, WrMoves
  <2>3. rdState' = "IDLE" /\ rdTimeCnt' = 0
    BY <1>1, <1>7, <2>1, RdMoves
  <2>4. QED
    BY <1>2, <1>5, <1>6, <2>2, <2>3 DEF Replaying
<1>9. CASE wrState = "WAIT"
  <2>1. start' /\ wrTimeCnt <= SentTime /\ wrTimeCnt' = wrTimeCnt + 1
    BY <1>1, <1>9, WrMoves DEF TestInv, Lead
  <2>2. start
    BY <1>9 DEF TestInv, Lead
  <2>3. rdState \in {"IDLE", "HAUNT1", "HAUNT2", "READ", "WAIT", "PROBE"}
    BY <1>9 DEF TestInv, Lead, TypeOK, RdTypeOK, RdStates
  <2>4. CASE rdState = "IDLE"
    <3>1. rdState' = "HAUNT1" /\ rdTimeReg' = SentTime /\ rdTimeCnt' = 0
      BY <1>1, <1>7, <1>9, <2>2, <2>4, RdMoves DEF TestInv, Lead
    <3>2. QED
      BY <1>2, <1>5, <1>6, <2>1, <3>1
  <2>5. CASE rdState = "HAUNT1"
    <3>1. /\ rdState' = "HAUNT2" /\ UNCHANGED <<rdTimeReg, rdTimeCnt>>
          /\ rdTimeReg = SentTime /\ wrTimeCnt >= rdTimeCnt + 1
      BY <1>1, <1>9, <2>5, RdMoves DEF TestInv, Lead, Replaying
    <3>2. QED
      BY <1>2, <1>5, <1>6, <2>1, <3>1
  <2>6. CASE rdState \in {"HAUNT2", "READ", "WAIT", "PROBE"}
    <3>1. /\ rdTimeCnt' = rdTimeCnt + 1 /\ rdTimeReg' = rdTimeReg
          /\ \/ rdState' \in {"HAUNT1", "READ", "WAIT", "PROBE"}
             \/ rdState' = "FIN" /\ TimeOver
      BY <1>1, <2>6, RdMoves
    <3>2. rdTimeReg = SentTime /\ wrTimeCnt >= rdTimeCnt + 2
      BY <1>9, <2>6 DEF TestInv, Lead, Replaying
    <3>3. ~TimeOver
      BY <1>2, <2>1, <3>2 DEF TimeOver
    <3>4. QED
      BY <1>2, <1>5, <1>6, <2>1, <3>1, <3>2, <3>3
  <2>7. QED
    BY <2>3, <2>4, <2>5, <2>6
<1>10. QED
  BY <1>3, <1>8, <1>9

\* The invariant is inductive, as long as the reset is not too early.
LEMMA TestInvInit == Init => TestInv
<1> SUFFICES ASSUME Init PROVE TestInv
  OBVIOUS
<1>1. TypeOK
  BY TypeInit
<1>2. PassOn
  BY DEF Init, WrInit, RdInit, PassOn, IsHead, IsBody, Idle
<1>3. ProgramPhase
  BY DEF Init, WrInit, RdInit, ProgramPhase
<1>4. ModelArrives
  BY DEF Init, WrInit, RdInit, ModelArrives, ModelHead, IsHead, Idle
<1>5. Lead
  BY DEF Init, WrInit, Lead
<1>6. QED
  BY <1>1, <1>2, <1>3, <1>4, <1>5 DEF TestInv

LEMMA TestInvStep ==
  ASSUME TestInv, [Next]_vars, SlowReset
  PROVE  TestInv'
<1>1. TypeOK'
  BY TypeStep DEF TestInv
<1>2. CASE Next
  BY <1>1, <1>2, PassOnStep, ProgramPhaseStep, ModelArrivesStep, LeadStep
  DEF TestInv
<1>3. CASE UNCHANGED vars
  <2>1. PassOn' /\ ProgramPhase' /\ ModelArrives'
    BY <1>3 DEF TestInv, PassOn, ProgramPhase, Preparing, ModelArrives,
       ModelHead, vars, hwVars, wrVars, rdVars, rdRegs
  <2>2. Lead'
    BY <1>3 DEF TestInv, Lead, Replaying, SentTime, vars, hwVars, wrVars, rdVars
  <2>3. QED
    BY <1>1, <2>1, <2>2 DEF TestInv
<1>4. QED
  BY <1>2, <1>3

LEMMA TestInvHolds == ASSUME SlowReset PROVE Spec => []TestInv
  BY TestInvInit, TestInvStep, PTL DEF Spec

(***************************************************************************)
(* Two counters in two modules agree on the end of the test: whenever      *)
(* pgm_rd has reached its FIN state, pgm_wr has left its WAIT state, for   *)
(* every packet length, rate and test time, provided the reset of a test   *)
(* comes after the start flag fell.                                        *)
(***************************************************************************)
THEOREM FinishOrder == ASSUME SlowReset PROVE Spec => []RdNeverFinishesFirst
<1>1. TestInv => RdNeverFinishesFirst
  BY DEF TestInv, Lead, RdNeverFinishesFirst
<1>2. QED
  BY <1>1, TestInvHolds, PTL

(***************************************************************************)
(* The next model packet finds the generator reset: the protocol of set,   *)
(* send, poll and reset never sends one into a test that still runs.       *)
(***************************************************************************)
THEOREM ResetBeforeTest == ASSUME SlowReset PROVE Spec => []ReadyForTest
<1>1. TestInv => ReadyForTest
  BY DEF TestInv, ProgramPhase, Preparing, ReadyForTest
<1>2. QED
  BY <1>1, TestInvHolds, PTL
-----------------------------------------------------------------------------
(***************************************************************************)
(* The replay of the model packet: what is proved of the RAM and of pgm_rd *)
(* for every RAM depth, set of lengths, rate and test time.  pgm_wr leaves *)
(* one whole packet in the RAM before pgm_rd reads it; pgm_rd reads it two *)
(* words ahead of the word it emits; its counters are functions of the     *)
(* copies it has sent and of where it is in the next one.                  *)
(***************************************************************************)

(***************************************************************************)
(* The wires from gac: every packet has one of the lengths of Lens, its    *)
(* words are numbered from 0, and it is ordinary traffic or the model      *)
(* packet of the test.                                                     *)
(***************************************************************************)
OnWire ==
  /\ gacOut.pkt \in {0, testNo}
  /\ gacOut.flag = "head" => gacOut.seq = 0
  /\ gacOut.flag = "body" => /\ gacOut.seq >= 1
                             /\ \E l \in Lens : l >= gacOut.seq + 2
  /\ gacOut.flag = "tail" => gacOut.seq + 1 \in Lens

\* b is word i of the model packet of the test.
ModelWord(b, i, last) ==
  /\ b.pkt = testNo
  /\ b.seq = i
  /\ b.flag = IF i = 0 THEN "head" ELSE IF last THEN "tail" ELSE "body"

\* The words before address a are the first ones of the model packet.
Opening(a) == \A i \in 0 .. a - 1 : ModelWord(ram[i], i, FALSE)

\* The first n words of the RAM are the model packet.
WholeOf(n) == \A i \in 0 .. n - 1 : ModelWord(ram[i], i, i = n - 1)
Whole == \E n \in Lens : WholeOf(n)

\* While pgm_wr stores, the word it writes follows those already there, and
\* what arrives is the next one or a word without strobe.
Storing ==
  wrState = "STORE" =>
    /\ ramWe
    /\ ModelWord(ramData, ramAddr, FALSE)
    /\ Opening(ramAddr)
    /\ ramAddr >= 1 => \E l \in Lens : l >= ramAddr + 2
    /\ \/ /\ gacOut.flag \in {"body", "tail"}
          /\ gacOut.pkt = testNo /\ gacOut.seq = ramAddr + 1
       \/ ~gacOut.wr /\ InPacket(gacOut)

\* pgm_wr writes the last word in the clock before pgm_rd starts.
Busy == Replaying \/ rdState = "FIN"

Handover ==
  /\ wrState = "WAIT" /\ ramWe =>
       /\ rdState = "IDLE" /\ wrTimeCnt = 0
       /\ ramAddr >= 1 /\ ramAddr + 1 \in Lens
       /\ ModelWord(ramData, ramAddr, TRUE)
       /\ Opening(ramAddr)
  /\ ramWe => wrState \in {"STORE", "WAIT"}
  /\ start /\ rdState \in {"IDLE", "SENT"} => wrState = "WAIT" /\ ramWe
  /\ Busy => Whole /\ ~ramWe

Numbered == swPc \in {"poll", "reset", "unreset"} => testNo >= 1

StoreInv == OnWire /\ Storing /\ Handover /\ Numbered

(***************************************************************************)
(* The read address is two words ahead of the word on the output register  *)
(* of the RAM, and never leaves the model packet by more than two words.   *)
(***************************************************************************)
Ahead ==
  /\ rdState = "HAUNT1" => rdAddr = 0
  /\ rdState = "HAUNT2" => rdAddr = 1 /\ ramCore = ram[0]
  /\ rdState = "READ" =>
       /\ rdAddr \in 2 .. ModelLen + 1
       /\ ramQ = ram[rdAddr - 2]
       /\ ramCore = ram[rdAddr - 1]

Modes ==
  /\ rdState = "READ" => ~latFlag
  /\ rdState = "PROBE" => latFlag
  /\ TRUE \notin LatFlags => ~latFlag

(***************************************************************************)
(* The counters.  Before the first word of copy k + 1 the clocks counted   *)
(* are those of k copies and of k pauses.                                  *)
(***************************************************************************)
CopyBytes == WordBytes * (ModelLen - 1) + TailBytes

Zeroed == pktCnt = 0 /\ bitCnt = 0 /\ rateCnt = 0 /\ rdTimeCnt = 0

Counted ==
  ~latFlag =>
    /\ rdState \in {"HAUNT1", "HAUNT2"} =>
         /\ rdTimeCnt = pktCnt * Period
         /\ bitCnt = pktCnt * CopyBytes
         /\ rateCnt = 0
    /\ rdState = "READ" =>
         /\ rdTimeCnt = pktCnt * Period + (rdAddr - 1)
         /\ bitCnt = pktCnt * CopyBytes + WordBytes * (rdAddr - 2)
         /\ rateCnt = 0
    /\ rdState \in {"WAIT", "FIN"} =>
         /\ pktCnt >= 1
         /\ rdTimeCnt = (pktCnt - 1) * Period + (ModelLen + 1 + rateCnt)
         /\ bitCnt = pktCnt * CopyBytes
         /\ rateCnt <= rateReg

AtStart == wrState = "WAIT" /\ rdState = "IDLE" => Zeroed

\* At the end of every copy but the last the test time was not over.
NotOver ==
  ~latFlag =>
    /\ Replaying /\ pktCnt >= 1 => (pktCnt - 1) * Period + ModelLen < rdTimeReg
    /\ rdState = "FIN" =>
         /\ rdTimeReg < rdTimeCnt
         /\ rateCnt = 0
         /\ pktCnt > 1 => (pktCnt - 2) * Period + ModelLen < rdTimeReg

\* The word that carries the number of copies is picked by pkt_cycle_cnt.
Cycle ==
  RamDepth <= 2048 /\ rdState = "READ" /\ rdAddr > 2 => cycleCnt = rdAddr - 3

(***************************************************************************)
(* The output: silence before the first word of a copy, the previous word  *)
(* of the copy before every other.                                         *)
(***************************************************************************)
Emitted ==
  /\ rdState \in {"HAUNT1", "HAUNT2"} => ~rdOut.wr
  /\ rdState = "READ" =>
       IF rdAddr = 2
       THEN ~rdOut.wr
       ELSE /\ rdOut.wr /\ rdOut.flag \in {"head", "body"}
            /\ rdOut.pkt = testNo /\ rdOut.seq = rdAddr - 3
  /\ ~latFlag /\ rdState \in {"WAIT", "FIN"} /\ rdOut.wr => rdOut.flag = "tail"
  /\ rdState = "FIN" /\ swPc # "poll" => ~rdOut.wr

\* What is said of pgm_rd and the read port in one state of pgm_rd.
ReadInv == Ahead /\ Counted /\ NotOver /\ Cycle /\ Emitted
ReplayInv == TestInv /\ StoreInv /\ Modes /\ AtStart /\ ReadInv

(***************************************************************************)
(* Ordinary traffic, when gac never pauses inside a packet: the words on   *)
(* gac's output, pgm_wr's and pgm_rd's follow each other.                  *)
(***************************************************************************)
Passing ==
  ~MidGap =>
    /\ InPacket(gacOut) => gacOut.wr
    /\ wrState # "DISCARD"
    /\ wrState = "SENT" => Unfinished(wrOut) /\ Continues(wrOut, gacOut)
    /\ Unfinished(wrOut) => wrState = "SENT"
    /\ IsTail(wrOut) => ~gacOut.wr /\ wrState = "IDLE"
    /\ rdState = "SENT" => Unfinished(rdOut) /\ Continues(rdOut, wrOut)
    /\ rdState = "IDLE" /\ rdOut.wr => ~Unfinished(rdOut) /\ ~wrOut.wr
-----------------------------------------------------------------------------
\* The word on the wires, field by field.
LEMMA WireWords ==
  ASSUME TypeOK
  PROVE  /\ gacOut.wr \in BOOLEAN /\ gacOut.flag \in Flags
         /\ gacOut.pkt \in Nat /\ gacOut.seq \in Nat
         /\ [gacOut EXCEPT !.wr = FALSE].wr = FALSE
         /\ [gacOut EXCEPT !.wr = FALSE].flag = gacOut.flag
         /\ [gacOut EXCEPT !.wr = FALSE].pkt = gacOut.pkt
         /\ [gacOut EXCEPT !.wr = FALSE].seq = gacOut.seq
         /\ testNo \in Nat
<1>1. testNo \in Nat
  BY PgmAssumption DEF TypeOK
<1>2. gacOut \in Beat
  BY DEF TypeOK
<1>3. QED
  BY <1>1, <1>2 DEF Beat

\* What can follow on the wires from gac, and when the number of the test
\* moves.
Continued(f) ==
  /\ InPacket(gacOut) /\ testNo' = testNo
  /\ gacOut' = Word(f, gacOut.pkt, gacOut.seq + 1)

Paused(b) ==
  /\ testNo' = testNo /\ gacOut' = b

Began(p) ==
  /\ ~InPacket(gacOut) /\ ~gacOut.wr
  /\ gacOut' = Word("head", p, 0)

LEMMA GacMoves ==
  ASSUME TypeOK, Next
  PROVE  \/ Continued("body") /\ \E l \in Lens : l > gacOut.seq + 2
         \/ Continued("tail") /\ gacOut.seq + 2 \in Lens
         \/ /\ MidGap /\ InPacket(gacOut) /\ gacOut.wr
            /\ Paused([gacOut EXCEPT !.wr = FALSE])
         \/ /\ ~InPacket(gacOut)
            /\ Paused(Idle) \/ Paused([gacOut EXCEPT !.wr = FALSE])
         \/ Began(0) /\ testNo' = testNo
         \/ /\ swPc = "send" /\ swPc' = "poll"
            /\ Began(testNo + 1) /\ testNo' = testNo + 1
<1>1. CASE GacStep /\ testNo' = testNo
  <2>1. CASE GacContinue
    <3>1. InPacket(gacOut) /\ gacOut' \in NextWords(gacOut)
      BY <2>1 DEF GacContinue
    <3>2. CASE gacOut' \in {Word("body", gacOut.pkt, gacOut.seq + 1) :
                              n \in {l \in Lens : l > gacOut.seq + 2}}
      BY <1>1, <3>1, <3>2 DEF Continued
    <3>3. CASE gacOut' \in {Word("tail", gacOut.pkt, gacOut.seq + 1) :
                              n \in {l \in Lens : l = gacOut.seq + 2}}
      BY <1>1, <3>1, <3>3 DEF Continued
    <3>4. QED
      BY <3>1, <3>2, <3>3 DEF NextWords
  <2>2. CASE GacUnderrun
    BY <1>1, <2>2 DEF GacUnderrun, Paused
  <2>3. CASE GacPause
    BY <1>1, <2>3 DEF GacPause, Paused
  <2>4. CASE GacHead(0)
    BY <1>1, <2>4 DEF GacHead, Began
  <2>5. QED
    BY <1>1, <2>1, <2>2, <2>3, <2>4 DEF GacStep
<1>2. CASE SwSend
  BY <1>2 DEF SwSend, SwMove, GacHead, Began
<1>3. QED
  BY <1>1, <1>2 DEF Next, Tick, Software, SwTimeHigh, SwTimeLow, SwRate, SwLat,
     SwSeeFinish, SwReset, SwUnreset

LEMMA OnWireStep ==
  ASSUME TypeOK, OnWire, Next
  PROVE  OnWire'
<1> USE WireWords, PgmAssumption DEF OnWire, InPacket, Word
<1>1. CASE Continued("body") /\ \E l \in Lens : l > gacOut.seq + 2
  <2>1. PICK l \in Lens : l > gacOut.seq + 2
    BY <1>1
  <2>2. /\ gacOut'.pkt = gacOut.pkt /\ gacOut'.seq = gacOut.seq + 1
        /\ gacOut'.flag = "body" /\ testNo' = testNo
    BY <1>1 DEF Continued
  <2>3. l >= gacOut'.seq + 2 /\ gacOut'.seq >= 1
    BY <2>1, <2>2
  <2>4. QED
    BY <2>2, <2>3
<1>2. CASE Continued("tail") /\ gacOut.seq + 2 \in Lens
  BY <1>2 DEF Continued
<1>3. CASE Paused([gacOut EXCEPT !.wr = FALSE])
  <2>1. /\ gacOut'.pkt = gacOut.pkt /\ gacOut'.seq = gacOut.seq
        /\ gacOut'.flag = gacOut.flag /\ testNo' = testNo
    BY <1>3 DEF Paused
  <2>2. QED
    BY <2>1
<1>4. CASE Paused(Idle)
  BY <1>4 DEF Paused, Idle
<1>5. CASE (Began(0) /\ testNo' = testNo) \/ (Began(testNo + 1) /\ testNo' = testNo + 1)
  <2>1. gacOut'.pkt \in {0, testNo'} /\ gacOut'.seq = 0 /\ gacOut'.flag = "head"
    BY <1>5 DEF Began
  <2>2. QED
    BY <2>1
<1>6. QED
  BY <1>1, <1>2, <1>3, <1>4, <1>5, GacMoves
-----------------------------------------------------------------------------
\* When pgm_wr writes into the RAM, and what.
StoresHead ==
  /\ wrState = "IDLE" /\ wrState' = "STORE" /\ ModelHead(gacOut)
  /\ ramAddr' = 0 /\ ramData' = gacOut /\ ramWe'
StoresWord(last) ==
  /\ wrState = "STORE" /\ wrState' = IF last THEN "WAIT" ELSE "STORE"
  /\ IF last THEN gacOut.flag = "tail" ELSE IsBody(gacOut)
  /\ ramAddr' = NextAddr(ramAddr) /\ ramData' = gacOut /\ ramWe'

LEMMA StoreMoves ==
  ASSUME WrStep(gacOut), ramWe \in BOOLEAN
  PROVE  /\ wrState' = "STORE" => StoresHead \/ StoresWord(FALSE)
         /\ wrState' = "WAIT" => wrState = "WAIT" \/ StoresWord(TRUE)
         /\ ramWe' => \/ StoresHead \/ StoresWord(FALSE) \/ StoresWord(TRUE)
                      \/ /\ ramWe /\ wrState # "STORE"
                         /\ wrState = "WAIT" => wrTimeCnt > SentTime
<1> USE DEF StoresHead, StoresWord, ModelHead
<1>1. CASE WrBypass(gacOut)
  BY <1>1 DEF WrBypass
<1>2. CASE WrStoreHead(gacOut)
  BY <1>2 DEF WrStoreHead
<1>3. CASE WrClear(gacOut)
  BY <1>3 DEF WrClear
<1>4. CASE WrSent(gacOut)
  BY <1>4 DEF WrSent
<1>5. CASE WrStore(gacOut)
  BY <1>5 DEF WrStore
<1>6. CASE WrWait
  BY <1>6 DEF WrWait
<1>7. CASE WrDiscard(gacOut)
  BY <1>7 DEF WrDiscard
<1>8. QED
  BY <1>1, <1>2, <1>3, <1>4, <1>5, <1>6, <1>7 DEF WrStep

\* The words stored so far, one clock later.
LEMMA OpeningGrows ==
  ASSUME TypeOK, Next, ramWe, testNo' = testNo,
         ModelWord(ramData, ramAddr, FALSE), Opening(ramAddr)
  PROVE  \A i \in 0 .. ramAddr : ModelWord(ram'[i], i, FALSE)
<1>1. ram' = [ram EXCEPT ![ramAddr] = ramData] /\ ram \in [Addr -> Beat]
      /\ ramAddr \in Addr /\ Addr \subseteq Nat
  BY StepShape DEF Hardware, RamStep, TypeOK, RamTypeOK, WrTypeOK, Addr
<1>2. ASSUME NEW i \in 0 .. ramAddr PROVE ModelWord(ram'[i], i, FALSE)
  <2>1. i \in Addr
    BY <1>1, <1>2, PgmAssumption DEF Addr
  <2>2. CASE i = ramAddr
    BY <1>1, <2>2
  <2>3. CASE i # ramAddr
    <3>1. i \in 0 .. ramAddr - 1 /\ ram'[i] = ram[i]
      BY <1>1, <2>1, <2>3
    <3>2. QED
      BY <3>1 DEF Opening
  <2>4. QED
    BY <2>2, <2>3
<1>3. QED
  BY <1>2

\* Inside a packet the number of the test does not move.
LEMMA WireInPacket ==
  ASSUME TypeOK, Next, InPacket(gacOut)
  PROVE  /\ testNo' = testNo
         /\ \/ /\ gacOut'.flag \in {"body", "tail"} /\ gacOut'.wr
               /\ gacOut'.pkt = gacOut.pkt /\ gacOut'.seq = gacOut.seq + 1
            \/ /\ MidGap /\ ~gacOut'.wr /\ InPacket(gacOut')
<1> USE WireWords DEF Word
<1>1. CASE Continued("body") \/ Continued("tail")
  BY <1>1 DEF Continued
<1>2. CASE MidGap /\ Paused([gacOut EXCEPT !.wr = FALSE])
  <2>1. gacOut'.flag = gacOut.flag /\ gacOut'.wr = FALSE /\ testNo' = testNo
    BY <1>2 DEF Paused
  <2>2. QED
    BY <1>2, <2>1 DEF InPacket
<1>3. QED
  BY <1>1, <1>2, GacMoves DEF Began

LEMMA StoringStep ==
  ASSUME TestInv, StoreInv, Next
  PROVE  Storing'
<1> SUFFICES ASSUME wrState' = "STORE"
             PROVE  /\ ramWe'
                    /\ ModelWord(ramData, ramAddr, FALSE)'
                    /\ Opening(ramAddr)'
                    /\ ramAddr' >= 1 => \E l \in Lens : l >= ramAddr' + 2
                    /\ \/ /\ gacOut'.flag \in {"body", "tail"}
                          /\ gacOut'.pkt = testNo' /\ gacOut'.seq = ramAddr' + 1
                       \/ ~gacOut'.wr /\ InPacket(gacOut')
  BY DEF Storing
<1>t. TypeOK /\ OnWire /\ Storing
  BY DEF TestInv, StoreInv
<1>1. StoresHead \/ StoresWord(FALSE)
  BY <1>t, StepShape, StoreMoves DEF Hardware, TypeOK, WrTypeOK
<1>2. InPacket(gacOut) /\ ramWe'
  BY <1>1 DEF StoresHead, StoresWord, ModelHead, IsHead, IsBody, InPacket
<1>3. testNo' = testNo
  BY <1>t, <1>2, WireInPacket
<1>4. CASE StoresHead
  <2>1. /\ gacOut.pkt = testNo /\ gacOut.seq = 0 /\ gacOut.flag = "head"
        /\ ramAddr' = 0 /\ ramData' = gacOut
    BY <1>t, <1>4 DEF StoresHead, ModelHead, IsHead, IsModel, OnWire
  <2>2. ModelWord(ramData, ramAddr, FALSE)'
    BY <1>3, <2>1 DEF ModelWord
  <2>3. Opening(ramAddr)'
    BY <2>1 DEF Opening
  <2>4. \/ /\ gacOut'.flag \in {"body", "tail"}
           /\ gacOut'.pkt = testNo' /\ gacOut'.seq = ramAddr' + 1
        \/ ~gacOut'.wr /\ InPacket(gacOut')
    BY <1>t, <1>2, <1>3, <2>1, WireInPacket
  <2>5. ~(ramAddr' >= 1)
    BY <2>1
  <2>6. QED
    BY <1>2, <2>2, <2>3, <2>4, <2>5
<1>5. CASE StoresWord(FALSE)
  <2>1. /\ gacOut.flag = "body" /\ gacOut.pkt = testNo
        /\ gacOut.seq = ramAddr + 1
        /\ ramAddr' = NextAddr(ramAddr) /\ ramData' = gacOut
    BY <1>t, <1>5 DEF StoresWord, IsBody, Storing
  <2>2. PICK l \in Lens : l >= gacOut.seq + 2
    BY <1>t, <2>1 DEF OnWire
  <2>3. ramAddr \in Nat
    BY <1>t, PgmAssumption DEF TypeOK, WrTypeOK, Addr
  <2>4. ramAddr' = ramAddr + 1
    BY <2>1, <2>2, <2>3, PgmAssumption DEF NextAddr
  <2>5. ModelWord(ramData, ramAddr, FALSE)'
    BY <1>3, <2>1, <2>3, <2>4 DEF ModelWord
  <2>6. Opening(ramAddr)'
    <3>1. \A i \in 0 .. ramAddr : ModelWord(ram'[i], i, FALSE)
      BY <1>t, <1>3, <1>5, OpeningGrows DEF Storing, StoresWord
    <3>2. ASSUME NEW i \in 0 .. ramAddr' - 1 PROVE ModelWord(ram[i], i, FALSE)'
      BY <1>3, <2>3, <2>4, <3>1 DEF ModelWord
    <3>3. QED
      BY <3>2 DEF Opening
  <2>7. l >= ramAddr' + 2
    BY <2>1, <2>2, <2>4
  <2>8. \/ /\ gacOut'.flag \in {"body", "tail"}
           /\ gacOut'.pkt = testNo' /\ gacOut'.seq = ramAddr' + 1
        \/ ~gacOut'.wr /\ InPacket(gacOut')
    BY <1>t, <1>2, <1>3, <2>1, <2>3, <2>4, WireInPacket
  <2>9. QED
    BY <1>2, <2>2, <2>5, <2>6, <2>7, <2>8
<1>6. QED
  BY <1>1, <1>4, <1>5

\* Inside a test neither its number nor its parameters change.
LEMMA TestFixed ==
  ASSUME TestInv, Next, Busy \/ wrState \in {"STORE", "WAIT"}
  PROVE  /\ testNo' = testNo /\ rateReg' = rateReg /\ latFlag' = latFlag
         /\ swPc \in {"poll", "reset", "unreset"}
<1>1. swPc \in {"poll", "reset", "unreset"}
  <2>1. ~Preparing
    BY DEF TestInv, ProgramPhase, ModelArrives, Lead, Busy, Replaying, Preparing
  <2>2. QED
    BY <2>1 DEF TestInv, TypeOK, SwSteps, Preparing
<1>2. testNo' = testNo
  BY <1>1, GacMoves DEF TestInv, Continued, Paused
<1>3. rateReg' = rateReg /\ latFlag' = latFlag
  BY <1>1 DEF Next, Tick, Software, SwTimeHigh, SwTimeLow, SwRate, SwLat,
     SwSend, SwSeeFinish, SwReset, SwUnreset, SwMove, RdSoftRst, rdRegs
<1>4. QED
  BY <1>1, <1>2, <1>3

\* A test that begins: pgm_rd starts while the last word is being written.
LEMMA BusyMoves ==
  ASSUME TestInv, StoreInv, Next
  PROVE  /\ Busy' => \/ Busy
                     \/ rdState = "IDLE" /\ wrState = "WAIT" /\ ramWe /\ start
         /\ Busy => ~ramWe'
         /\ wrState = "WAIT" => ~ramWe'
         /\ ramWe' => wrState' \in {"STORE", "WAIT"}
<1>t. TypeOK /\ Handover
  BY DEF TestInv, StoreInv
<1>1. WrStep(gacOut) /\ RdStep(wrOut, wrVwr, bypass, start, ramQ, SentTime)
  BY <1>t, StepShape DEF Hardware
<1>2. rdState \in RdStates /\ start \in BOOLEAN /\ ramWe \in BOOLEAN
      /\ SentTime \in Nat
  BY <1>t, SentTimeType DEF TypeOK, WrTypeOK, RdTypeOK
<1>3. Busy => wrState # "STORE" /\ ~ModelHead(gacOut)
  BY DEF TestInv, ModelArrives, Busy, Replaying
<1>4. ramWe' => \/ StoresHead \/ StoresWord(FALSE) \/ StoresWord(TRUE)
  <2>1. ~(ramWe /\ wrState # "STORE" /\ (wrState = "WAIT" => wrTimeCnt > SentTime))
    <3>1. ramWe /\ wrState # "STORE" => wrState = "WAIT" /\ wrTimeCnt = 0
      BY <1>t, Zenon DEF Handover
    <3>2. QED
      BY <1>2, <3>1
  <2>2. QED
    BY <1>1, <1>2, <2>1, StoreMoves
<1>5. Busy => ~ramWe'
  BY <1>3, <1>4 DEF StoresHead, StoresWord
<1>6. wrState = "WAIT" => ~ramWe'
  BY <1>4 DEF StoresHead, StoresWord
<1>7. ramWe' => wrState' \in {"STORE", "WAIT"}
  BY <1>4 DEF StoresHead, StoresWord
<1>8. ASSUME Busy', ~Busy
      PROVE  rdState = "IDLE" /\ wrState = "WAIT" /\ ramWe /\ start
  <2>1. rdState \in {"IDLE", "SENT"} /\ rdState' \notin {"IDLE", "SENT"}
    BY <1>2, <1>8 DEF Busy, Replaying, RdStates
  <2>2. rdState = "IDLE" /\ start
    BY <1>1, <1>2, <2>1, RdMoves
  <2>3. QED
    BY <1>t, <2>2 DEF Handover
<1>9. QED
  BY <1>5, <1>6, <1>7, <1>8

LEMMA HandoverStep ==
  ASSUME TestInv, StoreInv, Next
  PROVE  Handover'
<1>t. TypeOK /\ OnWire /\ Storing /\ Handover
  BY DEF TestInv, StoreInv
<1>1. WrStep(gacOut) /\ RdStep(wrOut, wrVwr, bypass, start, ramQ, SentTime)
  BY <1>t, StepShape DEF Hardware
<1>2. rdState \in RdStates /\ start \in BOOLEAN /\ ramWe \in BOOLEAN
      /\ ramAddr \in Addr /\ ramAddr \in Nat
  BY <1>t, PgmAssumption DEF TypeOK, WrTypeOK, RdTypeOK, Addr
<1>3. wrState' = "WAIT" /\ ramWe' => StoresWord(TRUE)
  BY <1>1, <1>2, StoreMoves, BusyMoves
<1>4. ASSUME StoresWord(TRUE)
      PROVE  /\ rdState' = "IDLE" /\ wrTimeCnt' = 0
             /\ ramAddr' >= 1 /\ ramAddr' + 1 \in Lens
             /\ ModelWord(ramData, ramAddr, TRUE)'
             /\ Opening(ramAddr)'
  <2>1. /\ gacOut.flag = "tail" /\ wrState = "STORE"
        /\ ramAddr' = NextAddr(ramAddr) /\ ramData' = gacOut
    BY <1>4 DEF StoresWord
  <2>2. gacOut.pkt = testNo /\ gacOut.seq = ramAddr + 1 /\ ramWe
    BY <1>t, <2>1 DEF Storing, InPacket
  <2>3. gacOut.seq + 1 \in Lens
    BY <1>t, <2>1 DEF OnWire
  <2>4. ramAddr' = ramAddr + 1
    BY <1>2, <2>1, <2>2, <2>3, PgmAssumption DEF NextAddr
  <2>5. testNo' = testNo
    BY <2>1, TestFixed
  <2>6. rdState' = "IDLE" /\ wrTimeCnt' = 0
    <3>1. ~start /\ rdState = "IDLE" /\ wrTimeCnt = 0 /\ ~IsHead(wrOut)
      BY <2>1 DEF TestInv, ModelArrives, ProgramPhase, PassOn
    <3>2. QED
      BY <1>1, <2>1, <3>1, RdMoves, WrMoves
  <2>7. ModelWord(ramData, ramAddr, TRUE)'
    BY <1>2, <2>1, <2>2, <2>4, <2>5 DEF ModelWord
  <2>8. Opening(ramAddr)'
    <3>1. \A i \in 0 .. ramAddr : ModelWord(ram'[i], i, FALSE)
      BY <1>t, <2>1, <2>5, OpeningGrows DEF Storing
    <3>2. ASSUME NEW i \in 0 .. ramAddr' - 1 PROVE ModelWord(ram[i], i, FALSE)'
      BY <1>2, <2>4, <2>5, <3>1 DEF ModelWord
    <3>3. QED
      BY <3>2 DEF Opening
  <2>9. ramAddr' >= 1 /\ ramAddr' + 1 \in Lens
    BY <1>2, <2>2, <2>3, <2>4
  <2>10. QED
    BY <2>6, <2>7, <2>8, <2>9
<1>5. ASSUME start', rdState' \in {"IDLE", "SENT"}
      PROVE  wrState' = "WAIT" /\ ramWe'
  <2>1. CASE start
    <3>1. rdState \notin {"IDLE", "SENT"}
      <4>1. SUFFICES ASSUME rdState \in {"IDLE", "SENT"} PROVE FALSE
        OBVIOUS
      <4>2. rdState = "IDLE" /\ ~IsHead(wrOut)
        BY <1>t, <2>1, <4>1 DEF Handover, TestInv, PassOn
      <4>3. QED
        BY <1>1, <1>5, <2>1, <4>2, RdMoves
    <3>2. rdState = "FIN" /\ softRst
      BY <1>1, <1>2, <1>5, <3>1, RdMoves DEF RdStates
    <3>3. QED
      BY <2>1, <3>2 DEF TestInv, ProgramPhase
  <2>2. CASE ~start
    <3>1. wrState = "STORE" /\ wrState' = "WAIT"
      BY <1>1, <1>2, <1>5, <2>2, WrMoves
    <3>2. QED
      BY <1>1, <1>2, <3>1, StoreMoves DEF StoresWord
  <2>3. QED
    BY <2>1, <2>2
<1>6. ASSUME Busy' PROVE Whole' /\ ~ramWe'
  <2>1. testNo' = testNo
    BY <1>6, BusyMoves, TestFixed
  <2>2. CASE Busy
    <3>1. ~ramWe /\ ram' = ram
      BY <1>t, <2>2, StepShape DEF Handover, Hardware, RamStep
    <3>2. Whole'
      BY <1>t, <2>1, <2>2, <3>1 DEF Handover, Whole, WholeOf, ModelWord
    <3>3. QED
      BY <2>2, <3>2, BusyMoves
  <2>3. CASE ~Busy
    <3>1. wrState = "WAIT" /\ ramWe
      BY <1>6, <2>3, BusyMoves
    <3>2. /\ ramAddr >= 1 /\ ramAddr + 1 \in Lens
          /\ ModelWord(ramData, ramAddr, TRUE) /\ Opening(ramAddr)
      BY <1>t, <3>1 DEF Handover
    <3>3. ram' = [ram EXCEPT ![ramAddr] = ramData] /\ ram \in [Addr -> Beat]
      BY <1>t, <3>1, StepShape DEF Hardware, RamStep, TypeOK, RamTypeOK
    <3>4. ASSUME NEW i \in 0 .. ramAddr
          PROVE  ModelWord(ram'[i], i, i = ramAddr)
      <4>1. i \in Addr
        BY <1>2, PgmAssumption DEF Addr
      <4>2. CASE i = ramAddr
        BY <2>1, <3>2, <3>3, <4>1, <4>2 DEF ModelWord
      <4>3. CASE i # ramAddr
        <5>1. i \in 0 .. ramAddr - 1 /\ ram'[i] = ram[i]
          BY <1>2, <3>3, <4>1, <4>3
        <5>2. ModelWord(ram[i], i, FALSE)
          BY <3>2, <5>1 DEF Opening
        <5>3. QED
          BY <2>1, <4>3, <5>1, <5>2 DEF ModelWord
      <4>4. QED
        BY <4>2, <4>3
    <3>5. PICK n \in Lens : n = ramAddr + 1
      BY <3>2
    <3>6. ASSUME NEW i \in 0 .. n - 1 PROVE ModelWord(ram[i], i, i = n - 1)'
      <4>1. i \in 0 .. ramAddr /\ (i = n - 1 <=> i = ramAddr)
        BY <1>2, <3>5
      <4>2. QED
        BY <2>1, <3>4, <4>1 DEF ModelWord
    <3>7. QED
      BY <3>1, <3>6, BusyMoves DEF Whole, WholeOf
  <2>4. QED
    BY <2>2, <2>3
<1>7. QED
  BY <1>3, <1>4, <1>5, <1>6, BusyMoves DEF Handover

\* The model packet of a test is what gives it its number.
LEMMA NumberedStep ==
  ASSUME TypeOK, Numbered, Next
  PROVE  Numbered'
<1>1. testNo \in Nat
  BY PgmAssumption DEF TypeOK
<1>2. CASE SwSend
  BY <1>1, <1>2 DEF SwSend, Numbered
<1>3. CASE Tick
  BY <1>3 DEF Tick, Numbered
<1>4. CASE Software /\ ~SwSend
  <2>1. /\ testNo' = testNo
        /\ swPc' \in {"poll", "reset", "unreset"} => swPc \in {"poll", "reset", "unreset"}
    BY <1>4 DEF Software, SwTimeHigh, SwTimeLow, SwRate, SwLat, SwSeeFinish,
       SwReset, SwUnreset, SwMove
  <2>2. QED
    BY <2>1 DEF Numbered
<1>5. QED
  BY <1>2, <1>3, <1>4 DEF Next

\* What is stored, from reset on.
LEMMA StoreInvInit == Init => StoreInv
<1> SUFFICES ASSUME Init PROVE StoreInv
  OBVIOUS
<1>1. OnWire
  BY DEF Init, OnWire, Idle
<1>2. Storing /\ Handover
  BY DEF Init, WrInit, RdInit, Storing, Handover, Busy, Replaying
<1>3. Numbered
  BY DEF Init, Numbered
<1>4. QED
  BY <1>1, <1>2, <1>3 DEF StoreInv

LEMMA StoreInvStep ==
  ASSUME TestInv, StoreInv, [Next]_vars
  PROVE  StoreInv'
<1>1. CASE Next
  BY <1>1, OnWireStep, StoringStep, HandoverStep, NumberedStep
  DEF StoreInv, TestInv
<1>2. CASE UNCHANGED vars
  <2> USE <1>2 DEF vars, hwVars, wrVars, ramVars, rdVars, rdRegs, StoreInv
  <2>1. OnWire'
    BY DEF OnWire, InPacket
  <2>2. Storing'
    BY DEF Storing, Opening, ModelWord, InPacket
  <2>3. Handover'
    <3>1. Whole => Whole'
      BY DEF Whole, WholeOf, ModelWord
    <3>2. Opening(ramAddr) => Opening(ramAddr)'
      BY DEF Opening, ModelWord
    <3>3. ModelWord(ramData, ramAddr, TRUE) => ModelWord(ramData, ramAddr, TRUE)'
      BY DEF ModelWord
    <3>4. QED
      BY <3>1, <3>2, <3>3 DEF Handover, Busy, Replaying
  <2>4. Numbered'
    BY DEF Numbered
  <2>5. QED
    BY <2>1, <2>2, <2>3, <2>4
<1>3. QED
  BY <1>1, <1>2

LEMMA StoreInvHolds == ASSUME SlowReset PROVE Spec => [](TestInv /\ StoreInv)
<1>1. Init => TestInv /\ StoreInv
  BY TestInvInit, StoreInvInit
<1>2. TestInv /\ StoreInv /\ [Next]_vars => TestInv' /\ StoreInv'
  BY TestInvStep, StoreInvStep
<1>3. QED
  BY <1>1, <1>2, PTL DEF Spec

(***************************************************************************)
(* While pgm_rd replays, pgm_wr does not store, and the RAM holds one      *)
(* whole packet, the model packet of this test: for every RAM depth and    *)
(* set of lengths, with or without gaps inside the packets gac delivers,   *)
(* with or without ordinary traffic, in both modes of pgm_rd.              *)
(***************************************************************************)
THEOREM StoredWhole == ASSUME SlowReset PROVE Spec => []ReplayIntact
<1>1. TestInv /\ StoreInv => ReplayIntact
  <2> SUFFICES ASSUME TestInv, StoreInv, Replaying
               PROVE  /\ wrState # "STORE"
                      /\ \E n \in Lens : \A i \in 0 .. n - 1 :
                           /\ ram[i].pkt = testNo
                           /\ ram[i].seq = i
                           /\ (ram[i].flag = "tail") <=> (i = n - 1)
    BY DEF ReplayIntact
  <2>1. wrState # "STORE"
    BY DEF TestInv, ModelArrives, Replaying
  <2>2. PICK n \in Lens : WholeOf(n)
    BY DEF StoreInv, Handover, Busy, Whole
  <2>3. n \in Nat /\ n >= 2
    BY PgmAssumption
  <2>4. ASSUME NEW i \in 0 .. n - 1
        PROVE  /\ ram[i].pkt = testNo
               /\ ram[i].seq = i
               /\ (ram[i].flag = "tail") <=> (i = n - 1)
    BY <2>2, <2>3 DEF WholeOf, ModelWord
  <2>5. QED
    BY <2>1, <2>4
<1>2. QED
  BY <1>1, StoreInvHolds, PTL
-----------------------------------------------------------------------------
\* Where the first last word of a memory is.
LEMMA TailFound ==
  ASSUME NEW r, NEW n \in Lens,
         \A i \in 0 .. n - 1 : r[i].flag = "tail" <=> i = n - 1
  PROVE  n - 1 = CHOOSE a \in Addr : /\ r[a].flag = "tail"
                                     /\ \A b \in 0 .. a - 1 : r[b].flag # "tail"
<1>1. n \in Nat /\ n >= 2 /\ n + 2 <= RamDepth /\ RamDepth \in Nat
  BY PgmAssumption
<1> DEFINE Last(a) == /\ r[a].flag = "tail"
                      /\ \A b \in 0 .. a - 1 : r[b].flag # "tail"
<1>2. n - 1 \in Addr /\ Last(n - 1)
  BY <1>1 DEF Addr
<1>3. ASSUME NEW a \in Addr, Last(a) PROVE a = n - 1
  <2>1. a \in Nat
    BY DEF Addr
  <2>2. ~(a < n - 1)
    BY <1>1, <1>3, <2>1
  <2>3. ~(n - 1 < a)
    <3>1. SUFFICES ASSUME n - 1 < a PROVE FALSE
      OBVIOUS
    <3>2. n - 1 \in 0 .. a - 1
      BY <1>1, <2>1, <3>1
    <3>3. QED
      BY <1>2, <1>3, <3>2
  <2>4. QED
    BY <1>1, <2>1, <2>2, <2>3
<1>4. SUFFICES n - 1 = CHOOSE a \in Addr : Last(a)
  OBVIOUS
<1> HIDE DEF Last
<1>5. QED
  BY <1>2, <1>3

\* A whole packet fixes the length that pgm_rd finds, whatever is behind it.
LEMMA LenOfWhole ==
  /\ \A n \in Lens : WholeOf(n) => ModelLen = n
  /\ \A n \in Lens : WholeOf(n)' => ModelLen' = n
<1>1. ASSUME NEW n \in Lens, WholeOf(n) PROVE ModelLen = n
  <2>1. n \in Nat /\ n >= 2
    BY PgmAssumption
  <2>2. \A i \in 0 .. n - 1 : ram[i].flag = "tail" <=> i = n - 1
    BY <1>1, <2>1 DEF WholeOf, ModelWord
  <2>3. ModelTail = n - 1
    BY <2>2, TailFound DEF ModelTail
  <2>4. QED
    BY <2>1, <2>3 DEF ModelLen
<1>2. ASSUME NEW n \in Lens, WholeOf(n)' PROVE ModelLen' = n
  <2>1. n \in Nat /\ n >= 2
    BY PgmAssumption
  <2>2. \A i \in 0 .. n - 1 : ram'[i].flag = "tail" <=> i = n - 1
    BY <1>2, <2>1 DEF WholeOf, ModelWord
  <2>3. ModelTail' = n - 1
    BY <2>2, TailFound DEF ModelTail
  <2>4. QED
    BY <2>1, <2>3 DEF ModelLen
<1>3. QED
  BY <1>1, <1>2

\* While pgm_rd is busy with a test nothing it depends on changes.
ModelLenOK == /\ ModelLen \in Lens /\ ModelLen \in Nat
              /\ ModelLen >= 2 /\ ModelLen + 2 <= RamDepth
              /\ WholeOf(ModelLen)

LEMMA BusyFrame ==
  ASSUME TestInv, StoreInv, Next, Busy
  PROVE  /\ ram' = ram /\ ramCore' = ram[rdAddr] /\ ramQ' = ramCore
         /\ testNo' = testNo /\ rateReg' = rateReg /\ latFlag' = latFlag
         /\ ModelLenOK /\ Period \in Nat /\ CopyBytes \in Int
         /\ ModelLen' = ModelLen /\ Period' = Period
         /\ CopyBytes' = CopyBytes
<1>1. ram' = ram /\ ramCore' = ram[rdAddr] /\ ramQ' = ramCore
  BY StepShape DEF TestInv, StoreInv, Handover, Hardware, RamStep
<1>2. testNo' = testNo /\ rateReg' = rateReg /\ latFlag' = latFlag
  BY TestFixed
<1>3. ModelLenOK
  <2>1. PICK n \in Lens : WholeOf(n)
    BY DEF StoreInv, Handover, Whole
  <2>2. ModelLen = n
    BY <2>1, LenOfWhole
  <2>3. QED
    BY <2>1, <2>2, PgmAssumption DEF ModelLenOK
<1>4. rateReg \in Nat
  BY PgmAssumption DEF TestInv, TypeOK, RdTypeOK, RateVals
<1>5. Period \in Nat /\ CopyBytes \in Int
  BY <1>3, <1>4, PgmAssumption DEF ModelLenOK, Period, CopyBytes, WordBytes
<1>6. ModelLen' = ModelLen
  BY <1>1 DEF ModelLen, ModelTail
<1>7. Period' = Period /\ CopyBytes' = CopyBytes
  BY <1>2, <1>6 DEF Period, CopyBytes
<1>8. QED
  BY <1>1, <1>2, <1>3, <1>5, <1>6, <1>7

\* Clocks of k copies.
LEMMA Copies ==
  ASSUME NEW k \in Nat, NEW d \in Int
  PROVE  k * d \in Int /\ (k + 1) * d = k * d + d /\ ((k + 1) - 1) * d = k * d
         /\ 0 * d = 0
  OBVIOUS

\* Which branch of pgm_rd each state takes.
LEMMA RdBranch ==
  ASSUME RdStep(wrOut, wrVwr, bypass, start, ramQ, SentTime)
  PROVE  /\ rdState = "IDLE" =>
              \/ RdBypass(wrOut, wrVwr, bypass)
              \/ RdStart(wrOut, bypass, start, SentTime)
              \/ RdClear(wrOut, bypass, start)
         /\ rdState = "SENT" => RdSent(wrOut, wrVwr)
         /\ rdState = "HAUNT1" => RdHaunt1
         /\ rdState = "HAUNT2" => RdHaunt2
         /\ rdState = "READ" => RdHead(ramQ) \/ RdBody(ramQ) \/ RdTail(ramQ)
         /\ rdState = "WAIT" => RdWait
         /\ rdState = "PROBE" => RdProbe(ramQ)
         /\ rdState = "FIN" => RdFin
<1>1. CASE rdState = "IDLE"
  BY <1>1 DEF RdStep, RdSent, RdHaunt1, RdHaunt2, RdHead, RdBody, RdTail,
     RdWait, RdProbe, RdFin
<1>2. CASE rdState = "SENT"
  BY <1>2 DEF RdStep, RdBypass, RdStart, RdClear, RdHaunt1, RdHaunt2, RdHead,
     RdBody, RdTail, RdWait, RdProbe, RdFin
<1>3. CASE rdState = "HAUNT1"
  BY <1>3 DEF RdStep, RdBypass, RdStart, RdClear, RdSent, RdHaunt2, RdHead,
     RdBody, RdTail, RdWait, RdProbe, RdFin
<1>4. CASE rdState = "HAUNT2"
  BY <1>4 DEF RdStep, RdBypass, RdStart, RdClear, RdSent, RdHaunt1, RdHead,
     RdBody, RdTail, RdWait, RdProbe, RdFin
<1>5. CASE rdState = "READ"
  BY <1>5 DEF RdStep, RdBypass, RdStart, RdClear, RdSent, RdHaunt1, RdHaunt2,
     RdWait, RdProbe, RdFin
<1>6. CASE rdState = "WAIT"
  BY <1>6 DEF RdStep, RdBypass, RdStart, RdClear, RdSent, RdHaunt1, RdHaunt2,
     RdHead, RdBody, RdTail, RdProbe, RdFin
<1>7. CASE rdState = "PROBE"
  BY <1>7 DEF RdStep, RdBypass, RdStart, RdClear, RdSent, RdHaunt1, RdHaunt2,
     RdHead, RdBody, RdTail, RdWait, RdFin
<1>8. CASE rdState = "FIN"
  BY <1>8 DEF RdStep, RdBypass, RdStart, RdClear, RdSent, RdHaunt1, RdHaunt2,
     RdHead, RdBody, RdTail, RdWait, RdProbe
<1>9. QED
  BY <1>1, <1>2, <1>3, <1>4, <1>5, <1>6, <1>7, <1>8
-----------------------------------------------------------------------------
\* The registers of pgm_rd as numbers.
LEMMA RdNumbers ==
  ASSUME TypeOK
  PROVE  /\ {rdTimeCnt, rdTimeReg, pktCnt, bitCnt, rateCnt, rateReg, cycleCnt} \subseteq Nat
         /\ rdAddr \in Nat /\ rateCnt < RateMod /\ rateReg < RateMod
         /\ latFlag \in BOOLEAN /\ softRst \in BOOLEAN
         /\ ramQ \in Beat /\ RateMod \in Nat \ {0} /\ TailBytes \in Nat
  BY PgmAssumption DEF TypeOK, RdTypeOK, RamTypeOK, Addr, RateVals, CycleVals

\* pgm_rd starts.
LEMMA StartKeeps ==
  ASSUME ReplayInv, Next, Busy', ~Busy
  PROVE  /\ ReadInv'
         /\ rdState' = "HAUNT1" /\ rdOut' = NoOut /\ pktCnt' = 0
<1>t. TypeOK /\ TestInv /\ StoreInv
  BY DEF ReplayInv, TestInv
<1>1. rdState = "IDLE" /\ wrState = "WAIT" /\ start
  BY <1>t, BusyMoves
<1>2. ~IsHead(wrOut)
  BY <1>t, <1>1 DEF TestInv, PassOn
<1>3. RdStart(wrOut, bypass, start, SentTime)
  BY <1>t, <1>1, <1>2, StepShape, RdBranch DEF Hardware, RdBypass, RdClear
<1>4. /\ rdState' = "HAUNT1" /\ rdAddr' = 0 /\ rdOut' = NoOut
      /\ pktCnt' = 0 /\ bitCnt' = 0 /\ rateCnt' = 0 /\ rdTimeCnt' = 0
  BY <1>1, <1>3 DEF RdStart, rdCounters, ReplayInv, AtStart, Zeroed
<1>5. Period' \in Int /\ CopyBytes' \in Int
  <2>1. Whole'
    BY <1>t, HandoverStep DEF Handover
  <2>2. PICK n \in Lens : WholeOf(n)'
    BY <2>1 DEF Whole
  <2>3. ModelLen' = n /\ n \in Nat
    BY <2>2, LenOfWhole, PgmAssumption
  <2>4. rateReg' \in Nat
    BY <1>t, RegsType, PgmAssumption DEF RegsOK, RateVals
  <2>5. QED
    BY <2>3, <2>4, PgmAssumption DEF Period, CopyBytes, WordBytes
<1>6. Ahead' /\ NotOver' /\ Cycle' /\ Emitted'
  BY <1>4 DEF Ahead, NotOver, Cycle, Emitted, NoOut, Replaying
<1>7. Counted'
  BY <1>4, <1>5, Copies DEF Counted
<1>8. QED
  BY <1>4, <1>6, <1>7 DEF ReadInv

\* The two clocks of latency.
LEMMA Haunt1Keeps ==
  ASSUME ReplayInv, Next, rdState = "HAUNT1"
  PROVE  ReadInv'
<1>t. TypeOK /\ TestInv /\ StoreInv /\ Busy
  BY DEF ReplayInv, TestInv, Busy, Replaying
<1>1. RdHaunt1
  BY <1>t, StepShape, RdBranch DEF Hardware
<1>2. /\ rdState' = "HAUNT2" /\ rdAddr' = 1 /\ rdOut' = rdOut
      /\ UNCHANGED <<rdTimeReg, rdTimeCnt, pktCnt, bitCnt, rateCnt>>
  BY <1>1 DEF RdHaunt1, rdCounters
<1>f. /\ ram' = ram /\ ramCore' = ram[rdAddr] /\ latFlag' = latFlag
      /\ ModelLen' = ModelLen /\ Period' = Period /\ CopyBytes' = CopyBytes
  BY <1>t, BusyFrame
<1>3. Ahead'
  BY <1>2, <1>f DEF ReplayInv, ReadInv, Ahead
<1>4. Counted'
  BY <1>2, <1>f DEF ReplayInv, ReadInv, Counted
<1>5. NotOver'
  BY <1>2, <1>f DEF ReplayInv, ReadInv, NotOver, Replaying
<1>6. Cycle' /\ Emitted'
  BY <1>2 DEF ReplayInv, ReadInv, Cycle, Emitted
<1>7. QED
  BY <1>3, <1>4, <1>5, <1>6 DEF ReadInv

LEMMA Haunt2Keeps ==
  ASSUME ReplayInv, Next, rdState = "HAUNT2"
  PROVE  ReadInv'
<1>t. TypeOK /\ TestInv /\ StoreInv /\ Busy
  BY DEF ReplayInv, TestInv, Busy, Replaying
<1>1. RdHaunt2
  BY <1>t, StepShape, RdBranch DEF Hardware
<1>2. /\ rdState' = IF latFlag THEN "PROBE" ELSE "READ"
      /\ rdAddr' = 2 /\ rdOut' = rdOut
      /\ rdTimeCnt' = rdTimeCnt + 1
      /\ UNCHANGED <<rdTimeReg, pktCnt, bitCnt, rateCnt>>
  BY <1>1 DEF RdHaunt2
<1>f. /\ ram' = ram /\ ramCore' = ram[rdAddr] /\ ramQ' = ramCore
      /\ latFlag' = latFlag /\ ModelLenOK
      /\ Period \in Nat /\ CopyBytes \in Int
      /\ ModelLen' = ModelLen /\ Period' = Period /\ CopyBytes' = CopyBytes
  BY <1>t, BusyFrame
<1>3. Ahead'
  <2>1. rdAddr = 1 /\ ramCore = ram[0]
    BY DEF ReplayInv, ReadInv, Ahead
  <2>2. rdAddr' \in 2 .. ModelLen' + 1
    BY <1>2, <1>f DEF ModelLenOK
  <2>3. ramQ' = ram'[rdAddr' - 2] /\ ramCore' = ram'[rdAddr' - 1]
    BY <1>2, <1>f, <2>1
  <2>4. QED
    BY <1>2, <2>2, <2>3 DEF Ahead
<1>4. Counted'
  <2> DEFINE T == pktCnt * Period
             B == pktCnt * CopyBytes
  <2>1. pktCnt' * Period' = T /\ pktCnt' * CopyBytes' = B /\ B \in Int
    BY <1>t, <1>2, <1>f, RdNumbers, Copies
  <2>2. ~latFlag => rdTimeCnt = T /\ bitCnt = B /\ rateCnt = 0
    BY DEF ReplayInv, ReadInv, Counted
  <2>3. WordBytes * (rdAddr' - 2) = 0 /\ rdAddr' - 1 = 1
    BY <1>2 DEF WordBytes
  <2> HIDE DEF T, B
  <2>4. QED
    BY <1>2, <1>f, <2>1, <2>2, <2>3 DEF Counted
<1>5. NotOver'
  BY <1>2, <1>f DEF ReplayInv, ReadInv, NotOver, Replaying
<1>6. Cycle' /\ Emitted'
  BY <1>2, <1>f DEF ReplayInv, ReadInv, Cycle, Emitted
<1>7. QED
  BY <1>3, <1>4, <1>5, <1>6 DEF ReadInv

\* In READ_S the word on the output register of the RAM is the one whose
\* turn it is, and the branch taken is the one of its place in the packet.
Turn == rdAddr - 2

LEMMA ReadWord ==
  ASSUME ReplayInv, Next, rdState = "READ"
  PROVE  /\ Turn \in 0 .. ModelLen - 1 /\ rdAddr = Turn + 2
         /\ ramQ.pkt = testNo /\ ramQ.seq = Turn
         /\ ramCore = ram[Turn + 1]
         /\ Turn < ModelLen - 1 => /\ ramQ.flag \in {"head", "body"}
                                   /\ ramQ.flag = "head" <=> Turn = 0
                                   /\ RdHead(ramQ) \/ RdBody(ramQ)
         /\ Turn = ModelLen - 1 => ramQ.flag = "tail" /\ RdTail(ramQ) /\ Turn >= 1
<1>t. TypeOK /\ TestInv /\ StoreInv /\ Busy
  BY DEF ReplayInv, TestInv, Busy, Replaying
<1>1. /\ rdAddr \in 2 .. ModelLen + 1
      /\ ramQ = ram[rdAddr - 2] /\ ramCore = ram[rdAddr - 1]
  BY DEF ReplayInv, ReadInv, Ahead
<1>2. /\ ModelLen \in Nat /\ ModelLen >= 2 /\ WholeOf(ModelLen)
  BY <1>t, BusyFrame DEF ModelLenOK
<1>3. Turn \in 0 .. ModelLen - 1 /\ rdAddr = Turn + 2 /\ rdAddr - 1 = Turn + 1
  BY <1>1, <1>2 DEF Turn
<1>4. ModelWord(ramQ, Turn, Turn = ModelLen - 1)
  BY <1>1, <1>2, <1>3 DEF WholeOf, Turn
<1>5. RdHead(ramQ) \/ RdBody(ramQ) \/ RdTail(ramQ)
  BY <1>t, StepShape, RdBranch DEF Hardware
<1>6. (RdHead(ramQ) => ramQ.flag = "head") /\ (RdBody(ramQ) => ramQ.flag = "body")
      /\ (RdTail(ramQ) => ramQ.flag = "tail")
  BY DEF RdHead, RdBody, RdTail
<1>7. QED
  BY <1>1, <1>2, <1>3, <1>4, <1>5, <1>6 DEF ModelWord

\* What goes out.
LEMMA OutWord ==
  ASSUME NEW b \in Beat, NEW st
  PROVE  Out(Strobed(b), st) = [wr |-> TRUE, flag |-> b.flag, pkt |-> b.pkt,
                                seq |-> b.seq, stamp |-> st]
  BY DEF Out, Strobed, Beat

\* A word that is not the last one.
LEMMA ReadKeeps ==
  ASSUME ReplayInv, Next, rdState = "READ", Turn < ModelLen - 1
  PROVE  ReadInv' /\ rdState' = "READ" /\ rdAddr' = rdAddr + 1
<1>t. TypeOK /\ TestInv /\ StoreInv /\ Busy
  BY DEF ReplayInv, TestInv, Busy, Replaying
<1>f. /\ ram' = ram /\ ramCore' = ram[rdAddr] /\ ramQ' = ramCore
      /\ testNo' = testNo /\ latFlag' = latFlag /\ ModelLenOK
      /\ Period \in Nat /\ CopyBytes \in Int
      /\ ModelLen' = ModelLen /\ Period' = Period /\ CopyBytes' = CopyBytes
  BY <1>t, BusyFrame
<1>n. /\ ModelLen \in Nat /\ ModelLen + 2 <= RamDepth /\ RamDepth \in Nat
      /\ {rdTimeCnt, pktCnt, bitCnt, cycleCnt} \subseteq Nat
  BY <1>f, <1>t, RdNumbers, PgmAssumption DEF ModelLenOK
<1>1. /\ Turn \in 0 .. ModelLen - 1 /\ rdAddr = Turn + 2
      /\ ramQ.pkt = testNo /\ ramQ.seq = Turn
      /\ ramCore = ram[Turn + 1]
      /\ ramQ.flag \in {"head", "body"} /\ (ramQ.flag = "head" <=> Turn = 0)
      /\ RdHead(ramQ) \/ RdBody(ramQ)
  BY ReadWord
<1>2. /\ rdState' = "READ" /\ rdAddr' = NextAddr(rdAddr)
      /\ rdTimeCnt' = rdTimeCnt + 1 /\ bitCnt' = bitCnt + WordBytes
      /\ UNCHANGED <<rdTimeReg, rateCnt, pktCnt>>
  BY <1>1 DEF RdHead, RdBody
<1>3. rdAddr' = rdAddr + 1
  BY <1>1, <1>2, <1>n DEF NextAddr
<1>4. Ahead'
  <2>1. rdAddr' \in 2 .. ModelLen' + 1
    BY <1>1, <1>3, <1>f, <1>n
  <2>2. ramQ' = ram'[rdAddr' - 2]
    BY <1>1, <1>3, <1>f
  <2>3. ramCore' = ram'[rdAddr' - 1]
    BY <1>1, <1>3, <1>f
  <2>4. QED
    BY <1>2, <2>1, <2>2, <2>3 DEF Ahead
<1>5. Counted'
  <2> DEFINE T == pktCnt * Period
             B == pktCnt * CopyBytes
  <2>1. pktCnt' * Period' = T /\ pktCnt' * CopyBytes' = B /\ B \in Int /\ T \in Int
    BY <1>n, <1>2, <1>f, Copies
  <2> HIDE DEF T, B
  <2>2. ~latFlag => /\ rdTimeCnt = T + (rdAddr - 1)
                    /\ bitCnt = B + 16 * (rdAddr - 2) /\ rateCnt = 0
    BY DEF ReplayInv, ReadInv, Counted, WordBytes, T, B
  <2>3. ~latFlag => /\ rdTimeCnt' = T + (rdAddr' - 1)
                    /\ bitCnt' = B + WordBytes * (rdAddr' - 2) /\ rateCnt' = 0
    BY <1>1, <1>2, <1>3, <1>n, <2>1, <2>2 DEF WordBytes
  <2>4. QED
    BY <1>2, <1>f, <2>1, <2>3 DEF Counted
<1>6. NotOver'
  BY <1>2, <1>f DEF ReplayInv, ReadInv, NotOver, Replaying
<1>7. Cycle'
  <2>1. ASSUME RamDepth <= 2048 PROVE cycleCnt' = rdAddr' - 3
    <3>1. CASE Turn = 0
      BY <1>1, <1>3, <3>1 DEF RdHead, RdBody
    <3>2. CASE Turn # 0
      <4>1. cycleCnt = rdAddr - 3
        BY <1>1, <2>1, <3>2 DEF ReplayInv, ReadInv, Cycle
      <4>2. cycleCnt' = (cycleCnt + 1) % 2048
        BY <1>1, <3>2 DEF RdHead, RdBody
      <4>3. cycleCnt + 1 \in 0 .. 2047
        BY <1>1, <1>n, <2>1, <4>1
      <4>4. cycleCnt' = cycleCnt + 1
        BY <4>2, <4>3
      <4>5. QED
        BY <1>1, <1>3, <4>1, <4>4
    <3>3. QED
      BY <3>1, <3>2
  <2>2. QED
    BY <2>1 DEF Cycle
<1>8. Emitted'
  <2>1. rdOut' = Out(Strobed(ramQ), NoStamp) \/ rdOut' = Out(Strobed(ramQ), Stamp)
    BY <1>1 DEF RdHead, RdBody
  <2>2. /\ rdOut'.wr /\ rdOut'.flag = ramQ.flag
        /\ rdOut'.pkt = testNo /\ rdOut'.seq = Turn
    BY <1>t, <1>1, <2>1, OutWord, RdNumbers
  <2>3. rdAddr' # 2 /\ rdOut'.seq = rdAddr' - 3
    BY <1>1, <1>3, <2>2
  <2>4. QED
    BY <1>1, <1>2, <1>f, <2>2, <2>3 DEF Emitted
<1>9. QED
  BY <1>2, <1>3, <1>4, <1>5, <1>6, <1>7, <1>8 DEF ReadInv

\* The last word of a copy.
LEMMA TailKeeps ==
  ASSUME ReplayInv, Next, rdState = "READ", Turn = ModelLen - 1
  PROVE  ReadInv' /\ rdState' \in {"WAIT", "FIN"}
<1>t. TypeOK /\ TestInv /\ StoreInv /\ Busy
  BY DEF ReplayInv, TestInv, Busy, Replaying
<1>f. /\ testNo' = testNo /\ latFlag' = latFlag /\ rateReg' = rateReg /\ ModelLenOK
      /\ Period \in Nat /\ CopyBytes \in Int
      /\ ModelLen' = ModelLen /\ Period' = Period /\ CopyBytes' = CopyBytes
  BY <1>t, BusyFrame
<1>n. /\ ModelLen \in Nat
      /\ {rdTimeCnt, rdTimeReg, pktCnt, bitCnt, rateReg} \subseteq Nat
      /\ TailBytes \in Nat
  BY <1>f, <1>t, RdNumbers DEF ModelLenOK
<1>1. Turn \in 0 .. ModelLen - 1 /\ rdAddr = Turn + 2
      /\ ramQ.flag = "tail" /\ RdTail(ramQ)
  BY ReadWord
<1>2. /\ rdState' = IF TimeOver THEN "FIN" ELSE "WAIT"
      /\ rdTimeCnt' = rdTimeCnt + 1 /\ bitCnt' = bitCnt + TailBytes
      /\ pktCnt' = pktCnt + 1
      /\ UNCHANGED <<rdTimeReg, rateCnt>>
  BY <1>1 DEF RdTail
<1>l. ~latFlag
  BY DEF ReplayInv, Modes
<1> DEFINE T == pktCnt * Period
           B == pktCnt * CopyBytes
<1>3. /\ T \in Int /\ B \in Int /\ (pktCnt' - 1) * Period' = T
      /\ pktCnt' * CopyBytes' = B + CopyBytes
  <2>1. /\ T \in Int /\ B \in Int /\ ((pktCnt + 1) - 1) * Period = T
        /\ (pktCnt + 1) * CopyBytes = B + CopyBytes
    <3>1. pktCnt \in Nat /\ Period \in Int /\ CopyBytes \in Int
      BY <1>n, <1>f
    <3>2. QED
      BY <3>1, Copies, Zenon
  <2>2. pktCnt' = pktCnt + 1 /\ Period' = Period /\ CopyBytes' = CopyBytes
    BY <1>2, <1>f
  <2> HIDE DEF T, B
  <2>3. QED
    BY <2>1, <2>2
<1>p. pktCnt >= 1 => (pktCnt - 1) * Period \in Int /\ (pktCnt' - 2) * Period' = (pktCnt - 1) * Period
  <2>1. pktCnt' - 2 = pktCnt - 1
    BY <1>2, <1>n
  <2>2. pktCnt - 1 \in Int
    BY <1>n
  <2>3. (pktCnt - 1) * Period \in Int
    BY <1>f, <2>2
  <2>4. QED
    BY <1>f, <2>1, <2>3
<1>4. /\ rdTimeCnt = T + (rdAddr - 1) /\ bitCnt = B + 16 * (rdAddr - 2)
      /\ rateCnt = 0
  BY <1>l DEF ReplayInv, ReadInv, Counted, WordBytes
<1> HIDE DEF T, B
<1>5. Ahead' /\ Cycle'
  BY <1>2 DEF Ahead, Cycle
<1>6. Counted'
  <2>1. pktCnt' >= 1 /\ rateCnt' = 0 /\ rateCnt' <= rateReg'
    BY <1>2, <1>4, <1>n, <1>f
  <2>2. rdTimeCnt' = T + (ModelLen' + 1 + rateCnt')
    BY <1>1, <1>2, <1>3, <1>4, <1>n, <1>f
  <2>3. bitCnt' = B + CopyBytes
    BY <1>1, <1>2, <1>3, <1>4, <1>n DEF CopyBytes, WordBytes
  <2>4. QED
    BY <1>2, <1>3, <2>1, <2>2, <2>3 DEF Counted
<1>7. NotOver'
  <2>1. CASE TimeOver
    <3>1. rdState' = "FIN" /\ rdTimeCnt >= rdTimeReg
      BY <1>2, <2>1 DEF TimeOver
    <3>2. rdTimeReg' < rdTimeCnt' /\ rateCnt' = 0
      BY <1>2, <1>4, <1>n, <3>1
    <3>3. pktCnt' > 1 => pktCnt >= 1
      BY <1>2, <1>n
    <3>4. pktCnt >= 1 => (pktCnt - 1) * Period + ModelLen < rdTimeReg
      BY <1>l DEF ReplayInv, ReadInv, NotOver, Replaying
    <3>5. QED
      BY <1>2, <1>p, <1>f, <3>1, <3>2, <3>3, <3>4 DEF NotOver, Replaying
  <2>2. CASE ~TimeOver
    <3>1. rdState' = "WAIT" /\ rdTimeCnt < rdTimeReg
      BY <1>2, <1>n, <2>2 DEF TimeOver
    <3>2. (pktCnt' - 1) * Period' + ModelLen' < rdTimeReg'
      BY <1>1, <1>2, <1>3, <1>4, <1>n, <1>f, <3>1
    <3>3. QED
      BY <3>1, <3>2 DEF NotOver
  <2>3. QED
    BY <2>1, <2>2
<1>8. Emitted'
  <2>1. rdOut' = Out(Strobed(ramQ), Stamp)
    BY <1>1 DEF RdTail
  <2>2. rdOut'.flag = "tail"
    BY <1>t, <1>1, <2>1, OutWord, RdNumbers
  <2>3. swPc' = "poll"
    BY <1>t, ProgramMoves, TestFixed DEF TestInv, ProgramPhase
  <2>4. QED
    BY <1>2, <2>2, <2>3 DEF Emitted
<1>9. QED
  BY <1>2, <1>5, <1>6, <1>7, <1>8 DEF ReadInv

\* The pause between two copies.
LEMMA WaitKeeps ==
  ASSUME ReplayInv, Next, rdState = "WAIT"
  PROVE  ReadInv'
<1>t. TypeOK /\ TestInv /\ StoreInv /\ Busy
  BY DEF ReplayInv, TestInv, Busy, Replaying
<1>f. /\ latFlag' = latFlag /\ rateReg' = rateReg /\ ModelLenOK
      /\ Period \in Nat
      /\ ModelLen' = ModelLen /\ Period' = Period /\ CopyBytes' = CopyBytes
  BY <1>t, BusyFrame
<1>n. /\ ModelLen \in Nat
      /\ {rdTimeCnt, rdTimeReg, pktCnt, rateCnt, rateReg} \subseteq Nat
      /\ rateReg < RateMod /\ RateMod \in Nat
  BY <1>f, <1>t, RdNumbers DEF ModelLenOK
<1>1. RdWait
  BY <1>t, StepShape, RdBranch DEF Hardware
<1>2. /\ rdTimeCnt' = rdTimeCnt + 1 /\ rdOut' = NoOut
      /\ UNCHANGED <<rdTimeReg, bitCnt, pktCnt>>
  BY <1>1 DEF RdWait, RdQuiet
<1>3. ~latFlag => /\ pktCnt >= 1
                  /\ rdTimeCnt = (pktCnt - 1) * Period + (ModelLen + 1 + rateCnt)
                  /\ bitCnt = pktCnt * CopyBytes
                  /\ rateCnt <= rateReg
  BY DEF ReplayInv, ReadInv, Counted
<1>4. CASE rateCnt = rateReg
  <2>1. rdState' = "HAUNT1" /\ rdAddr' = 0 /\ rateCnt' = 0
    BY <1>1, <1>4 DEF RdWait
  <2>2. Ahead' /\ Cycle' /\ Emitted'
    BY <1>2, <2>1 DEF Ahead, Cycle, Emitted, NoOut
  <2>3. ~latFlag => rdTimeCnt' = pktCnt * Period
    <3>1. SUFFICES ASSUME ~latFlag PROVE rdTimeCnt' = pktCnt * Period
      OBVIOUS
    <3> DEFINE K == pktCnt - 1
    <3>2. K \in Nat /\ Period \in Int /\ pktCnt = K + 1
      BY <1>3, <1>n, <1>f, <3>1
    <3>3. K * Period \in Int /\ (K + 1) * Period = K * Period + Period
      <4> HIDE DEF K
      <4>1. QED
        BY <3>2, Copies, Zenon
    <3>4. rdTimeCnt = K * Period + (ModelLen + 1 + rateCnt)
      BY <1>3, <3>1
    <3>5. pktCnt * Period = K * Period + Period
      <4> HIDE DEF K
      <4>1. QED
        BY <3>2, <3>3, Zenon
    <3>6. Period = ModelLen + rateReg + 2
      BY DEF Period
    <3> DEFINE T == K * Period
    <3>7. T \in Int /\ rdTimeCnt = T + (ModelLen + 1 + rateCnt)
          /\ pktCnt * Period = T + Period
      BY <3>3, <3>4, <3>5
    <3> HIDE DEF T, K
    <3>8. QED
      BY <1>2, <1>4, <1>n, <3>6, <3>7
  <2>4. Counted'
    BY <1>2, <1>3, <1>f, <2>1, <2>3 DEF Counted
  <2>5. NotOver'
    BY <1>2, <1>f, <2>1 DEF ReplayInv, ReadInv, NotOver, Replaying
  <2>6. QED
    BY <2>2, <2>4, <2>5 DEF ReadInv
<1>5. CASE rateCnt # rateReg
  <2>1. rdState' = "WAIT" /\ rateCnt' = (rateCnt + 1) % RateMod
    BY <1>1, <1>5 DEF RdWait
  <2>2. Ahead' /\ Cycle' /\ Emitted'
    BY <1>2, <2>1 DEF Ahead, Cycle, Emitted, NoOut
  <2>3. ~latFlag => rateCnt' = rateCnt + 1 /\ rateCnt' <= rateReg
    BY <1>3, <1>5, <1>n, <2>1
  <2> DEFINE T == (pktCnt - 1) * Period
  <2>4. T \in Int /\ (pktCnt' - 1) * Period' = T
    BY <1>2, <1>f, <1>n
  <2>5. ~latFlag => rdTimeCnt = T + (ModelLen + 1 + rateCnt)
    BY <1>3
  <2> HIDE DEF T
  <2>6. ~latFlag => rdTimeCnt' = T + (ModelLen' + 1 + rateCnt')
    BY <1>2, <1>f, <1>n, <2>3, <2>4, <2>5
  <2>7. Counted'
    BY <1>2, <1>3, <1>f, <2>1, <2>3, <2>4, <2>6 DEF Counted
  <2>8. NotOver'
    BY <1>2, <1>f, <2>1 DEF ReplayInv, ReadInv, NotOver, Replaying
  <2>9. QED
    BY <2>2, <2>7, <2>8 DEF ReadInv
<1>6. QED
  BY <1>4, <1>5

\* The latency probe counts nothing that is claimed.
LEMMA ProbeKeeps ==
  ASSUME ReplayInv, Next, rdState = "PROBE"
  PROVE  ReadInv'
<1>t. TypeOK /\ TestInv /\ StoreInv /\ Busy
  BY DEF ReplayInv, TestInv, Busy, Replaying
<1>1. RdProbe(ramQ)
  BY <1>t, StepShape, RdBranch DEF Hardware
<1>2. rdState' \in {"PROBE", "WAIT", "FIN"}
  BY <1>1 DEF RdProbe
<1>3. latFlag'
  BY <1>t, BusyFrame DEF ReplayInv, Modes
<1>4. swPc' = "poll"
  BY <1>t, ProgramMoves, TestFixed DEF TestInv, ProgramPhase
<1>5. Ahead' /\ Counted' /\ NotOver' /\ Cycle' /\ Emitted'
  BY <1>2, <1>3, <1>4 DEF Ahead, Counted, NotOver, Cycle, Emitted
<1>6. QED
  BY <1>5 DEF ReadInv

\* The end of the test, until the reset.
LEMMA FinKeeps ==
  ASSUME ReplayInv, Next, rdState = "FIN"
  PROVE  ReadInv'
<1>t. TypeOK /\ TestInv /\ StoreInv /\ Busy
  BY DEF ReplayInv, TestInv, Busy, Replaying
<1>f. /\ latFlag' = latFlag /\ rateReg' = rateReg
      /\ ModelLen' = ModelLen /\ Period' = Period /\ CopyBytes' = CopyBytes
  BY <1>t, BusyFrame
<1>1. RdFin
  BY <1>t, StepShape, RdBranch DEF Hardware
<1>2. UNCHANGED <<rdTimeReg, rdTimeCnt, pktCnt, bitCnt, rateCnt>>
  BY <1>1 DEF RdFin, rdCounters
<1>3. \/ rdState' = "IDLE"
      \/ rdState' = "FIN" /\ rdOut' = NoOut
  BY <1>1 DEF RdFin, RdQuiet
<1>4. Ahead' /\ Cycle' /\ Emitted'
  BY <1>3 DEF Ahead, Cycle, Emitted, NoOut
<1>5. Counted'
  BY <1>2, <1>3, <1>f DEF ReplayInv, ReadInv, Counted
<1>6. NotOver'
  BY <1>2, <1>3, <1>f DEF ReplayInv, ReadInv, NotOver, Replaying
<1>7. QED
  BY <1>4, <1>5, <1>6 DEF ReadInv

\* Every step of the system.
LEMMA ReadInvStep ==
  ASSUME ReplayInv, Next
  PROVE  ReadInv'
<1>1. CASE ~Busy'
  BY <1>1 DEF ReadInv, Ahead, Counted, NotOver, Cycle, Emitted, Busy, Replaying
<1>2. CASE Busy' /\ ~Busy
  BY <1>2, StartKeeps
<1>3. CASE rdState = "READ"
  <2>1. Turn < ModelLen - 1 \/ Turn = ModelLen - 1
    <3>1. ModelLen \in Nat
      BY <1>3, BusyFrame DEF ReplayInv, Busy, Replaying, ModelLenOK
    <3>2. Turn \in 0 .. ModelLen - 1
      BY <1>3, ReadWord
    <3>3. QED
      BY <3>1, <3>2
  <2>2. QED
    BY <1>3, <2>1, ReadKeeps, TailKeeps
<1>4. CASE Busy /\ rdState # "READ"
  BY <1>4, Haunt1Keeps, Haunt2Keeps, WaitKeeps, ProbeKeeps, FinKeeps
  DEF Busy, Replaying
<1>5. QED
  BY <1>1, <1>2, <1>3, <1>4

\* The mode of a test is fixed before it begins.
LEMMA ModesStep ==
  ASSUME TestInv, StoreInv, Modes, Next
  PROVE  Modes'
<1>t. TypeOK
  BY DEF TestInv
<1>1. RdStep(wrOut, wrVwr, bypass, start, ramQ, SentTime)
  BY <1>t, StepShape DEF Hardware
<1>2. TRUE \notin LatFlags => ~latFlag'
  <2>1. latFlag' = latFlag \/ latFlag' \in LatFlags
    BY DEF Next, Tick, Software, SwTimeHigh, SwTimeLow, SwRate, SwLat, SwSend,
       SwSeeFinish, SwReset, SwUnreset, RdSetRate, RdSetLat, RdSoftRst, rdRegs
  <2>2. latFlag' \in BOOLEAN
    BY <1>t, RegsType DEF RegsOK
  <2>3. QED
    BY <2>1, <2>2 DEF Modes
<1>3. ASSUME rdState' \in {"READ", "PROBE"}
      PROVE  rdState' = "READ" <=> ~latFlag'
  <2>1. rdState \in {"HAUNT2", "READ", "PROBE"}
    <3>1. rdState \in RdStates
      BY <1>t DEF TypeOK, RdTypeOK
    <3>2. rdState = "WAIT" => rdState' \in {"WAIT", "HAUNT1"}
      BY <1>1, RdBranch DEF RdWait
    <3>3. QED
      BY <1>1, <1>3, <3>1, <3>2, RdMoves DEF RdStates
  <2>2. latFlag' = latFlag /\ latFlag \in BOOLEAN
    BY <1>t, <2>1, TestFixed DEF Busy, Replaying, TypeOK, RdTypeOK
  <2>3. CASE rdState = "HAUNT2"
    BY <1>1, <1>3, <2>2, <2>3, RdBranch DEF RdHaunt2
  <2>4. CASE rdState = "READ"
    <3>1. RdHead(ramQ) \/ RdBody(ramQ) \/ RdTail(ramQ)
      BY <1>1, <2>4, RdBranch
    <3>2. rdState' # "PROBE"
      BY <2>4, <3>1 DEF RdHead, RdBody, RdTail
    <3>3. ~latFlag
      BY <2>4 DEF Modes
    <3>4. QED
      BY <1>3, <2>2, <3>2, <3>3
  <2>5. CASE rdState = "PROBE"
    <3>1. rdState' # "READ" /\ latFlag
      BY <1>1, <2>5, RdBranch DEF RdProbe, Modes
    <3>2. QED
      BY <1>3, <2>2, <3>1
  <2>6. QED
    BY <2>1, <2>3, <2>4, <2>5
<1>4. QED
  BY <1>2, <1>3 DEF Modes

\* The counters of the test before have been cleared when a test begins.
LEMMA AtStartStep ==
  ASSUME TestInv, StoreInv, AtStart, Next
  PROVE  AtStart'
<1> SUFFICES ASSUME wrState' = "WAIT", rdState' = "IDLE" PROVE Zeroed'
  BY DEF AtStart
<1>t. TypeOK
  BY DEF TestInv
<1>1. WrStep(gacOut) /\ RdStep(wrOut, wrVwr, bypass, start, ramQ, SentTime)
  BY <1>t, StepShape DEF Hardware
<1>2. wrState \in {"STORE", "WAIT"}
  BY <1>1, WrMoves
<1>3. ~IsHead(wrOut)
  BY <1>2 DEF TestInv, PassOn
<1>4. CASE wrState = "STORE"
  <2>1. rdState = "IDLE" /\ ~start
    BY <1>4 DEF TestInv, ModelArrives
  <2>2. RdClear(wrOut, bypass, start)
    BY <1>1, <1>3, <2>1, RdBranch DEF RdBypass, RdStart
  <2>3. QED
    BY <2>2 DEF RdClear, Zeroed
<1>5. CASE wrState = "WAIT"
  <2>1. start /\ rdState \notin {"SENT", "FIN"} /\ rdState \in RdStates
    BY <1>5, <1>t DEF TestInv, Lead, TypeOK, RdTypeOK
  <2>2. rdState' # "IDLE"
    BY <1>1, <1>3, <2>1, RdMoves DEF RdStates
  <2>3. QED
    BY <2>2
<1>6. QED
  BY <1>2, <1>4, <1>5

LEMMA ReplayInvInit == Init => ReplayInv
<1> SUFFICES ASSUME Init PROVE ReplayInv
  OBVIOUS
<1>1. TestInv /\ StoreInv
  BY TestInvInit, StoreInvInit
<1>2. Modes
  BY DEF Init, RdInit, Modes
<1>3. AtStart
  BY DEF Init, WrInit, AtStart
<1>4. ReadInv
  BY DEF Init, RdInit, ReadInv, Ahead, Counted, NotOver, Cycle, Emitted, Replaying
<1>5. QED
  BY <1>1, <1>2, <1>3, <1>4 DEF ReplayInv

LEMMA ReplayInvStep ==
  ASSUME ReplayInv, [Next]_vars, SlowReset
  PROVE  ReplayInv'
<1>1. TestInv' /\ StoreInv'
  BY TestInvStep, StoreInvStep DEF ReplayInv
<1>2. CASE Next
  BY <1>1, <1>2, ReadInvStep, ModesStep, AtStartStep DEF ReplayInv
<1>3. CASE UNCHANGED vars
  <2> USE <1>3 DEF vars, hwVars, wrVars, ramVars, rdVars, rdRegs, ReplayInv
  <2>1. Modes' /\ AtStart'
    BY DEF Modes, AtStart, Zeroed
  <2>2. ModelLen' = ModelLen /\ Period' = Period /\ CopyBytes' = CopyBytes
    <3>1. ram' = ram /\ rateReg' = rateReg
      OBVIOUS
    <3>2. ModelLen' = ModelLen
      BY <3>1 DEF ModelLen, ModelTail
    <3>3. QED
      BY <3>1, <3>2 DEF Period, CopyBytes
  <2>3. Ahead'
    BY <2>2 DEF ReadInv, Ahead
  <2>4. Counted'
    BY <2>2 DEF ReadInv, Counted
  <2>5. NotOver'
    BY <2>2 DEF ReadInv, NotOver, Replaying
  <2>6. Cycle' /\ Emitted'
    BY DEF ReadInv, Cycle, Emitted
  <2>7. QED
    BY <1>1, <2>1, <2>3, <2>4, <2>5, <2>6 DEF ReadInv
<1>4. QED
  BY <1>2, <1>3

LEMMA ReplayInvHolds == ASSUME SlowReset PROVE Spec => []ReplayInv
  BY ReplayInvInit, ReplayInvStep, PTL DEF Spec

(***************************************************************************)
(* The copies leave at equal distances, and the counters the test program  *)
(* collects agree with them, for every length, rate and test time and in   *)
(* every test that does not use the latency probe.                         *)
(***************************************************************************)
THEOREM PacedCopies == ASSUME SlowReset PROVE Spec => []PacedReplay
<1>1. ReplayInv => PacedReplay
  <2> SUFFICES ASSUME ReplayInv, rdState = "READ", ramQ.flag = "head"
               PROVE  /\ rdTimeCnt = 1 + pktCnt * Period
                      /\ bitCnt = pktCnt * CopyBytes
    BY DEF PacedReplay, CopyBytes
  <2>1. Busy /\ TypeOK /\ ~latFlag
    BY DEF Busy, Replaying, ReplayInv, TestInv, Modes
  <2>2. PICK n \in Lens : WholeOf(n)
    BY <2>1 DEF ReplayInv, StoreInv, Handover, Whole
  <2>3. ModelLen = n /\ n \in Nat /\ n >= 2
    BY <2>2, LenOfWhole, PgmAssumption
  <2>4. rdAddr \in 2 .. n + 1 /\ ramQ = ram[rdAddr - 2]
    BY <2>3 DEF ReplayInv, ReadInv, Ahead
  <2>5. rdAddr - 2 \in 0 .. n - 1
    BY <2>3, <2>4
  <2>6. ModelWord(ramQ, rdAddr - 2, rdAddr - 2 = n - 1)
    BY <2>2, <2>4, <2>5 DEF WholeOf
  <2>7. rdAddr = 2
    BY <2>3, <2>4, <2>6 DEF ModelWord
  <2> DEFINE T == pktCnt * Period
             B == pktCnt * CopyBytes
  <2>8. rdTimeCnt = T + (rdAddr - 1) /\ bitCnt = B + WordBytes * (rdAddr - 2)
    BY <2>1 DEF ReplayInv, ReadInv, Counted
  <2>9. T \in Int /\ B \in Int
    <3>1. rateReg \in Nat /\ pktCnt \in Nat
      BY <2>1, RdNumbers
    <3>2. Period \in Int /\ CopyBytes \in Int
      BY <2>3, <3>1, PgmAssumption DEF Period, CopyBytes, WordBytes
    <3>3. QED
      BY <3>1, <3>2
  <2> HIDE DEF T, B
  <2>10. rdTimeCnt = 1 + T /\ bitCnt = B
    BY <2>7, <2>8, <2>9 DEF WordBytes
  <2>11. QED
    BY <2>10 DEF T, B
<1>2. QED
  BY <1>1, ReplayInvHolds, PTL

(***************************************************************************)
(* The test ends at the first end of a copy at or after sent_time_reg, and *)
(* oversteps it by less than the distance of two copies, when the latency  *)
(* probe is not used.                                                      *)
(***************************************************************************)
THEOREM TestEnds ==
  ASSUME SlowReset, TRUE \notin LatFlags
  PROVE  Spec => []TestLength
<1>1. ReplayInv => TestLength
  <2> SUFFICES ASSUME ReplayInv, rdState = "FIN"
               PROVE  /\ rdTimeReg < rdTimeCnt
                      /\ pktCnt > 1 => rdTimeCnt <= rdTimeReg + Period
    BY DEF TestLength
  <2>1. Busy /\ TypeOK /\ ~latFlag
    BY DEF Busy, Replaying, ReplayInv, TestInv, Modes
  <2>2. PICK n \in Lens : WholeOf(n)
    BY <2>1 DEF ReplayInv, StoreInv, Handover, Whole
  <2>3. ModelLen = n /\ n \in Nat /\ n >= 2
    BY <2>2, LenOfWhole, PgmAssumption
  <2>4. {rdTimeCnt, rdTimeReg, rateReg, pktCnt, rateCnt} \subseteq Nat
    BY <2>1, RdNumbers
  <2>5. rdTimeReg < rdTimeCnt /\ rateCnt = 0
    BY <2>1 DEF ReplayInv, ReadInv, NotOver
  <2>6. ASSUME pktCnt > 1 PROVE rdTimeCnt <= rdTimeReg + Period
    <3> DEFINE K == pktCnt - 2
    <3>1. K \in Nat /\ pktCnt - 1 = K + 1
      BY <2>4, <2>6
    <3>2. Period \in Int
      BY <2>3, <2>4 DEF Period
    <3> DEFINE T == K * Period
    <3>3. T \in Int /\ (pktCnt - 1) * Period = T + Period
      <4>1. T \in Int /\ (K + 1) * Period = T + Period
        <5> HIDE DEF K
        <5>1. QED
          BY <3>1, <3>2, Copies, Zenon
      <4>2. QED
        <5> HIDE DEF T, K
        <5>1. QED
          BY <3>1, <4>1, Zenon
    <3>4. rdTimeCnt = (pktCnt - 1) * Period + (ModelLen + 1 + rateCnt)
      BY <2>1 DEF ReplayInv, ReadInv, Counted
    <3>5. T + ModelLen < rdTimeReg
      BY <2>1, <2>6 DEF ReplayInv, ReadInv, NotOver
    <3>6. rdTimeCnt = T + Period + (ModelLen + 1)
      <4> HIDE DEF T
      <4>1. QED
        BY <2>3, <2>5, <3>2, <3>3, <3>4
    <3> HIDE DEF T, K
    <3>7. QED
      BY <2>3, <2>4, <3>2, <3>3, <3>5, <3>6
  <2>7. QED
    BY <2>5, <2>6
<1>2. QED
  BY <1>1, ReplayInvHolds, PTL
-----------------------------------------------------------------------------
\* The wires from gac when no packet pauses.
LEMMA WireNoGap ==
  ASSUME TypeOK, Next, ~MidGap, InPacket(gacOut) => gacOut.wr
  PROVE  /\ InPacket(gacOut') => gacOut'.wr
         /\ InPacket(gacOut) => Continues(gacOut, gacOut')
         /\ IsTail(gacOut) => ~gacOut'.wr
<1>1. InPacket(gacOut) => Continues(gacOut, gacOut')
  BY WireInPacket DEF Continues
<1>2. CASE InPacket(gacOut)
  BY <1>1, <1>2 DEF Continues, InPacket, IsTail
<1>3. CASE ~InPacket(gacOut)
  <2>1. CASE Paused(Idle) \/ Paused([gacOut EXCEPT !.wr = FALSE])
    <3>1. CASE gacOut' = Idle
      BY <1>3, <3>1 DEF Idle, InPacket
    <3>2. CASE gacOut' = [gacOut EXCEPT !.wr = FALSE]
      <4>1. gacOut'.wr = FALSE /\ gacOut'.flag = gacOut.flag
        BY <3>2, WireWords, Zenon
      <4>2. QED
        BY <1>3, <4>1 DEF InPacket
    <3>3. QED
      BY <2>1, <3>1, <3>2 DEF Paused
  <2>2. CASE Began(0) \/ Began(testNo + 1)
    BY <1>3, <2>2 DEF Began, Word, IsTail
  <2>3. QED
    BY <1>3, <2>1, <2>2, GacMoves DEF Continued
<1>4. QED
  BY <1>1, <1>2, <1>3

\* What pgm_wr puts on its output then.
LEMMA WrNoGap ==
  ASSUME TestInv, StoreInv, Passing, Next, ~MidGap
  PROVE  /\ wrState' # "DISCARD"
         /\ wrState = "SENT" =>
              wrOut' = gacOut /\ wrState' = IF gacOut.flag = "body" THEN "SENT" ELSE "IDLE"
         /\ wrState' = "SENT" => wrOut' = gacOut /\ InPacket(gacOut)
         /\ wrState # "SENT" =>
              \/ wrState' = "SENT"
              \/ wrOut' = Idle
              \/ wrOut' = wrOut /\ ~IsTail(wrOut)
         /\ IsTail(wrOut) => wrOut' = Idle
<1>1. WrStep(gacOut)
  BY StepShape DEF TestInv, Hardware
<1>p. /\ InPacket(gacOut) => gacOut.wr
      /\ wrState # "DISCARD"
      /\ wrState = "SENT" => gacOut.wr /\ gacOut.flag \in {"body", "tail"}
      /\ IsTail(wrOut) => ~gacOut.wr /\ wrState = "IDLE"
  BY DEF Passing, Continues
<1>2. CASE WrBypass(gacOut)
  BY <1>p, <1>2 DEF WrBypass, IsHead, InPacket
<1>3. CASE WrStoreHead(gacOut)
  BY <1>p, <1>3 DEF WrStoreHead, IsHead
<1>4. CASE WrClear(gacOut)
  BY <1>4 DEF WrClear
<1>5. CASE WrSent(gacOut)
  BY <1>p, <1>5 DEF WrSent, IsBody, IsTail, InPacket
<1>6. CASE WrStore(gacOut)
  <2>1. gacOut.flag = "body" \/ gacOut.flag = "tail"
    BY <1>p, <1>6 DEF WrStore, StoreInv, Storing
  <2>2. IsBody(gacOut) \/ gacOut.flag = "tail"
    BY <1>p, <2>1 DEF IsBody, InPacket
  <2>3. QED
    BY <1>p, <1>6, <2>2 DEF WrStore
<1>7. CASE WrWait
  BY <1>p, <1>7 DEF WrWait
<1>8. CASE WrDiscard(gacOut)
  BY <1>p, <1>8 DEF WrDiscard
<1>9. QED
  BY <1>1, <1>2, <1>3, <1>4, <1>5, <1>6, <1>7, <1>8 DEF WrStep

\* And pgm_rd.
LEMMA RdNoGap ==
  ASSUME ReplayInv, Passing, Next, ~MidGap
  PROVE  /\ rdState = "IDLE" =>
              \/ /\ IsHead(wrOut) /\ ~rdOut.wr
                 /\ rdState' = "SENT" /\ rdOut' = Out(wrOut, NoStamp)
              \/ rdState' # "SENT" /\ rdOut' = NoOut
         /\ rdState = "SENT" =>
              /\ rdOut' = Out(wrOut, NoStamp)
              /\ rdState' = IF wrOut.flag = "body" THEN "SENT" ELSE "IDLE"
         /\ rdState \notin {"IDLE", "SENT"} => rdState' # "SENT"
         /\ rdState \notin {"IDLE", "SENT"} /\ rdState' = "IDLE" => ~rdOut'.wr
<1>1. RdStep(wrOut, wrVwr, bypass, start, ramQ, SentTime)
  BY StepShape DEF ReplayInv, TestInv, Hardware
<1>2. ASSUME rdState = "IDLE"
      PROVE  \/ /\ IsHead(wrOut) /\ ~rdOut.wr
                /\ rdState' = "SENT" /\ rdOut' = Out(wrOut, NoStamp)
             \/ rdState' # "SENT" /\ rdOut' = NoOut
  <2>1. CASE RdBypass(wrOut, wrVwr, bypass)
    BY <1>2, <2>1 DEF RdBypass, Passing, IsHead
  <2>2. CASE RdStart(wrOut, bypass, start, SentTime)
    BY <2>2 DEF RdStart
  <2>3. CASE RdClear(wrOut, bypass, start)
    BY <2>3 DEF RdClear, RdQuiet
  <2>4. QED
    BY <1>1, <1>2, <2>1, <2>2, <2>3, RdBranch
<1>3. ASSUME rdState = "SENT"
      PROVE  /\ rdOut' = Out(wrOut, NoStamp)
             /\ rdState' = IF wrOut.flag = "body" THEN "SENT" ELSE "IDLE"
  <2>1. wrOut.wr /\ wrOut.flag \in {"body", "tail"}
    BY <1>3 DEF Passing, Continues
  <2>2. RdSent(wrOut, wrVwr)
    BY <1>1, <1>3, RdBranch
  <2>3. QED
    BY <1>3, <2>1, <2>2 DEF RdSent, IsBody, IsTail
<1>4. ASSUME rdState \notin {"IDLE", "SENT"}
      PROVE  rdState' # "SENT" /\ (rdState' = "IDLE" => ~rdOut'.wr)
  <2>1. rdState \in RdStates
    BY DEF ReplayInv, TestInv, TypeOK, RdTypeOK
  <2>2. CASE rdState = "FIN"
    <3>1. RdFin
      BY <1>1, <2>2, RdBranch
    <3>2. softRst => swPc # "poll"
      BY DEF ReplayInv, TestInv, ProgramPhase
    <3>3. QED
      BY <2>2, <3>1, <3>2 DEF RdFin, RdQuiet, NoOut, ReplayInv, ReadInv, Emitted
  <2>3. CASE rdState # "FIN"
    BY <1>1, <1>4, <2>1, <2>3, RdMoves DEF RdStates
  <2>4. QED
    BY <2>2, <2>3
<1>5. QED
  BY <1>2, <1>3, <1>4

LEMMA PassingStep ==
  ASSUME ReplayInv, Passing, Next
  PROVE  Passing'
<1> SUFFICES ASSUME ~MidGap
             PROVE  /\ InPacket(gacOut') => gacOut'.wr
                    /\ wrState' # "DISCARD"
                    /\ wrState' = "SENT" => Unfinished(wrOut') /\ Continues(wrOut', gacOut')
                    /\ Unfinished(wrOut') => wrState' = "SENT"
                    /\ IsTail(wrOut') => ~gacOut'.wr /\ wrState' = "IDLE"
                    /\ rdState' = "SENT" => Unfinished(rdOut') /\ Continues(rdOut', wrOut')
                    /\ rdState' = "IDLE" /\ rdOut'.wr => ~Unfinished(rdOut') /\ ~wrOut'.wr
  BY DEF Passing
<1>t. TestInv /\ StoreInv /\ TypeOK
  BY DEF ReplayInv, TestInv
<1>p. /\ InPacket(gacOut) => gacOut.wr
      /\ wrState = "SENT" => Unfinished(wrOut) /\ Continues(wrOut, gacOut)
      /\ Unfinished(wrOut) => wrState = "SENT"
      /\ IsTail(wrOut) => ~gacOut.wr /\ wrState = "IDLE"
      /\ rdState = "SENT" => Unfinished(rdOut) /\ Continues(rdOut, wrOut)
  BY DEF Passing
<1>g. /\ InPacket(gacOut') => gacOut'.wr
      /\ InPacket(gacOut) => Continues(gacOut, gacOut')
      /\ IsTail(gacOut) => ~gacOut'.wr
  BY <1>t, <1>p, WireNoGap
<1>i. ~Unfinished(Idle) /\ ~IsTail(Idle) /\ ~Idle.wr
  BY DEF Unfinished, IsTail, Idle
<1>1. wrState' = "SENT" => Unfinished(wrOut') /\ Continues(wrOut', gacOut')
  BY <1>t, <1>p, <1>g, WrNoGap DEF Unfinished, InPacket
<1>2. Unfinished(wrOut') => wrState' = "SENT"
  <2>1. CASE wrState = "SENT"
    <3>1. wrOut' = gacOut /\ wrState' = IF gacOut.flag = "body" THEN "SENT" ELSE "IDLE"
      BY <1>t, <2>1, WrNoGap
    <3>2. gacOut.flag \in {"body", "tail"}
      BY <1>p, <2>1 DEF Continues
    <3>3. QED
      BY <3>1, <3>2 DEF Unfinished
  <2>2. CASE wrState # "SENT"
    BY <1>t, <1>p, <1>i, <2>2, WrNoGap
  <2>3. QED
    BY <2>1, <2>2
<1>3. IsTail(wrOut') => ~gacOut'.wr /\ wrState' = "IDLE"
  <2>1. CASE wrState = "SENT"
    <3>1. wrOut' = gacOut /\ wrState' = IF gacOut.flag = "body" THEN "SENT" ELSE "IDLE"
      BY <1>t, <2>1, WrNoGap
    <3>2. QED
      BY <1>g, <3>1 DEF IsTail
  <2>2. CASE wrState # "SENT"
    <3>1. wrState' = "SENT" => ~IsTail(wrOut')
      BY <1>1 DEF Unfinished, IsTail
    <3>2. QED
      BY <1>t, <1>i, <2>2, <3>1, WrNoGap
  <2>3. QED
    BY <2>1, <2>2
<1>4. ASSUME rdState' = "SENT"
      PROVE  Unfinished(rdOut') /\ Continues(rdOut', wrOut')
  <2>1. rdOut' = Out(wrOut, NoStamp) /\ Unfinished(wrOut)
    <3>1. CASE rdState = "IDLE"
      BY <1>4, <3>1, RdNoGap DEF IsHead, Unfinished
    <3>2. CASE rdState = "SENT"
      BY <1>4, <1>p, <3>2, RdNoGap DEF Unfinished, Continues
    <3>3. QED
      BY <1>4, <3>1, <3>2, RdNoGap
  <2>2. Continues(wrOut, gacOut) /\ wrOut' = gacOut
    BY <1>t, <1>p, <2>1, WrNoGap
  <2>3. /\ rdOut'.wr = wrOut.wr /\ rdOut'.flag = wrOut.flag
        /\ rdOut'.pkt = wrOut.pkt /\ rdOut'.seq = wrOut.seq
    BY <2>1 DEF Out
  <2>4. QED
    BY <2>1, <2>2, <2>3 DEF Unfinished, Continues
<1>5. ASSUME rdState' = "IDLE", rdOut'.wr
      PROVE  ~Unfinished(rdOut') /\ ~wrOut'.wr
  <2>1. ~NoOut.wr
    BY DEF NoOut
  <2>2. rdState = "SENT"
    BY <1>5, <2>1, RdNoGap
  <2>3. rdOut' = Out(wrOut, NoStamp) /\ wrOut.flag # "body"
    BY <1>5, <2>2, RdNoGap
  <2>4. IsTail(wrOut)
    BY <1>p, <2>2, <2>3 DEF Continues, IsTail
  <2>5. wrOut' = Idle
    BY <1>t, <2>4, WrNoGap
  <2>6. QED
    BY <1>i, <2>3, <2>4, <2>5 DEF Unfinished, Out, IsTail
<1>6. QED
  BY <1>g, <1>1, <1>2, <1>3, <1>4, <1>5, <1>t, WrNoGap

LEMMA PassingHolds == ASSUME SlowReset PROVE Spec => [](ReplayInv /\ Passing)
<1>1. Init => ReplayInv /\ Passing
  <2>1. Init => Passing
    BY DEF Init, WrInit, RdInit, Passing, InPacket, Unfinished, IsTail, Idle, NoOut
  <2>2. QED
    BY <2>1, ReplayInvInit
<1>2. ReplayInv /\ Passing /\ [Next]_vars => ReplayInv' /\ Passing'
  <2>1. ReplayInv /\ Passing /\ Next => Passing'
    BY PassingStep
  <2>2. Passing /\ UNCHANGED vars => Passing'
    BY DEF Passing, InPacket, Unfinished, Continues, IsTail, vars, hwVars,
       wrVars, rdVars
  <2>3. QED
    BY <2>1, <2>2, ReplayInvStep
<1>3. QED
  BY <1>1, <1>2, PTL DEF Spec

\* One clock of the output during a replay.
LEMMA ReplayOut ==
  ASSUME ReplayInv, Next, ~latFlag, Busy
  PROVE  IF Unfinished(rdOut)
         THEN Continues(rdOut, rdOut')
         ELSE rdOut'.wr => rdOut'.flag = "head" /\ ~rdOut.wr
<1>t. TypeOK /\ TestInv /\ RdStep(wrOut, wrVwr, bypass, start, ramQ, SentTime)
  BY StepShape DEF ReplayInv, TestInv, Hardware
<1>n. ~NoOut.wr
  BY DEF NoOut
<1>1. CASE rdState \in {"HAUNT1", "HAUNT2"}
  <2>1. ~rdOut.wr
    BY <1>1 DEF ReplayInv, ReadInv, Emitted
  <2>2. rdOut' = rdOut
    BY <1>t, <1>1, RdBranch DEF RdHaunt1, RdHaunt2
  <2>3. QED
    BY <2>1, <2>2 DEF Unfinished
<1>2. CASE rdState = "READ"
  <2>1. /\ Turn \in 0 .. ModelLen - 1 /\ rdAddr = Turn + 2
        /\ ramQ.pkt = testNo /\ ramQ.seq = Turn
        /\ ModelLen \in Nat
    BY <1>2, ReadWord, BusyFrame DEF ReplayInv, ModelLenOK
  <2>2. /\ ramQ.flag \in {"head", "body", "tail"}
        /\ ramQ.flag = "head" <=> Turn = 0
        /\ RdHead(ramQ) \/ RdBody(ramQ) \/ RdTail(ramQ)
    BY <1>2, <2>1, ReadWord
  <2>3. rdOut' = Out(Strobed(ramQ), NoStamp) \/ rdOut' = Out(Strobed(ramQ), Stamp)
    BY <2>2 DEF RdHead, RdBody, RdTail
  <2>4. /\ rdOut'.wr /\ rdOut'.flag = ramQ.flag
        /\ rdOut'.pkt = testNo /\ rdOut'.seq = Turn
    BY <1>t, <2>1, <2>3, OutWord, RdNumbers
  <2>5. IF Turn = 0
        THEN ~rdOut.wr
        ELSE /\ rdOut.wr /\ rdOut.flag \in {"head", "body"}
             /\ rdOut.pkt = testNo /\ rdOut.seq = Turn - 1
    BY <1>2, <2>1 DEF ReplayInv, ReadInv, Emitted
  <2>6. QED
    BY <2>1, <2>2, <2>4, <2>5 DEF Unfinished, Continues
<1>3. CASE rdState \in {"WAIT", "FIN"}
  <2>1. rdOut.wr => rdOut.flag = "tail"
    BY <1>3 DEF ReplayInv, ReadInv, Emitted
  <2>2. rdOut' = NoOut \/ (rdState = "FIN" /\ softRst /\ rdOut' = rdOut)
    BY <1>t, <1>3, RdBranch DEF RdWait, RdFin, RdQuiet
  <2>3. rdState = "FIN" /\ softRst => ~rdOut.wr
    BY DEF ReplayInv, ReadInv, Emitted, TestInv, ProgramPhase
  <2>4. QED
    BY <1>n, <2>1, <2>2, <2>3 DEF Unfinished
<1>4. QED
  BY <1>1, <1>2, <1>3 DEF Busy, Replaying, ReplayInv, Modes

(***************************************************************************)
(* The words pgm emits form whole packets, each word in the clock after    *)
(* the one before it, whatever the order of traffic, test and reset: for   *)
(* every length and RAM depth, when gac does not pause inside a packet and *)
(* the latency probe is not used.                                          *)
(***************************************************************************)
THEOREM FramedCopies ==
  ASSUME SlowReset, ~MidGap, TRUE \notin LatFlags
  PROVE  Spec => FramedOutput
<1>1. ReplayInv /\ Passing /\ [Next]_vars =>
        [IF Unfinished(rdOut)
         THEN Continues(rdOut, rdOut')
         ELSE rdOut'.wr => rdOut'.flag = "head" /\ ~rdOut.wr]_vars
  <2> SUFFICES ASSUME ReplayInv, Passing, Next
               PROVE  IF Unfinished(rdOut)
                      THEN Continues(rdOut, rdOut')
                      ELSE rdOut'.wr => rdOut'.flag = "head" /\ ~rdOut.wr
    OBVIOUS
  <2>1. ~latFlag
    BY DEF ReplayInv, Modes
  <2>2. CASE Busy
    BY <2>1, <2>2, ReplayOut
  <2>3. CASE rdState = "IDLE"
    <3>1. ~Unfinished(rdOut)
      BY <2>3 DEF Passing, Unfinished
    <3>2. ~NoOut.wr
      BY DEF NoOut
    <3>3. IsHead(wrOut) => Out(wrOut, NoStamp).flag = "head"
      BY DEF IsHead, Out
    <3>4. QED
      BY <2>3, <3>1, <3>2, <3>3, RdNoGap
  <2>4. CASE rdState = "SENT"
    <3>1. Unfinished(rdOut) /\ Continues(rdOut, wrOut)
      BY <2>4 DEF Passing
    <3>2. rdOut' = Out(wrOut, NoStamp)
      BY <2>4, RdNoGap
    <3>3. /\ rdOut'.wr = wrOut.wr /\ rdOut'.flag = wrOut.flag
          /\ rdOut'.pkt = wrOut.pkt /\ rdOut'.seq = wrOut.seq
      BY <3>2 DEF Out
    <3>4. QED
      BY <3>1, <3>3 DEF Continues
  <2>5. rdState \in {"IDLE", "SENT"} \/ Busy
    BY DEF ReplayInv, TestInv, TypeOK, RdTypeOK, RdStates, Busy, Replaying
  <2>6. QED
    BY <2>2, <2>3, <2>4, <2>5
<1>2. QED
  BY <1>1, PassingHolds, PTL DEF Spec, FramedOutput
-----------------------------------------------------------------------------
\* The state of the abstract generator.
LEMMA Phases ==
  /\ Replaying => Phase = "run"
  /\ rdState = "FIN" => Phase = "done"
  /\ ~Busy => Phase = "idle"
  /\ Replaying' => Phase' = "run"
  /\ (rdState' = "FIN") => Phase' = "done"
  /\ ~Busy' => Phase' = "idle"
  BY DEF Phase, Busy, Replaying

\* The abstract output.
AbsOut == IF Phase # "idle" /\ rdOut.wr
          THEN [pkt |-> rdOut.pkt, pos |-> rdOut.seq,
                last |-> rdOut.flag = "tail", stamp |-> rdOut.stamp]
          ELSE [pkt |-> 0, pos |-> -1, last |-> FALSE, stamp |-> -1]

LEMMA Silence ==
  /\ ~rdOut.wr \/ Phase = "idle" => AbsOut = Generator!Nothing
  /\ ~rdOut'.wr \/ Phase' = "idle" => AbsOut' = Generator!Nothing
  BY DEF AbsOut, Generator!Nothing

LEMMA GeneratorInit == Init => Generator!Init
<1> SUFFICES ASSUME Init PROVE Generator!Init
  OBVIOUS
<1>1. rdState = "IDLE" /\ ~rdOut.wr
  BY DEF Init, RdInit, NoOut
<1>2. Phase = "idle" /\ rdState # "READ"
  BY <1>1, Phases DEF Busy, Replaying
<1>3. QED
  BY <1>1, <1>2 DEF Generator!Init, Generator!Nothing

\* Outside a test the generator is idle, whatever passes through pgm.
LEMMA GeneratorIdle ==
  ASSUME ~Busy, ~Busy'
  PROVE  UNCHANGED Generator!genVars
<1>1. /\ Phase = "idle" /\ Phase' = "idle"
      /\ rdState # "READ" /\ rdState' # "READ"
  BY Phases DEF Busy, Replaying
<1>2. QED
  BY <1>1 DEF Generator!genVars

LEMMA GeneratorStart ==
  ASSUME ReplayInv, Next, ~Busy, Busy'
  PROVE  Generator!Next
<1>t. TypeOK /\ TestInv /\ StoreInv
  BY DEF ReplayInv, TestInv
<1>1. rdState' = "HAUNT1" /\ rdOut' = NoOut /\ pktCnt' = 0
  BY StartKeeps
<1>2. Phase = "idle" /\ Phase' = "run" /\ rdState' # "READ"
  BY <1>1, Phases DEF Replaying
<1>3. wrState = "WAIT"
  BY <1>t, BusyMoves
<1>4. testNo' = testNo /\ testNo \in 1 .. MaxTests
  BY <1>t, <1>3, TestFixed, PgmAssumption DEF StoreInv, Numbered, TypeOK
<1>5. PICK n \in Lens : WholeOf(n)'
  BY <1>t, HandoverStep DEF Handover, Whole
<1>6. ModelLen' = n
  BY <1>5, LenOfWhole
<1>7. ram'[0].pkt = testNo
  <2>1. 0 \in 0 .. n - 1
    BY PgmAssumption
  <2>2. QED
    BY <1>4, <1>5, <2>1 DEF WholeOf, ModelWord
<1>8. AbsOut' = Generator!Nothing
  BY <1>1, Silence DEF NoOut
<1>9. Generator!Start(testNo, n)
  BY <1>1, <1>2, <1>6, <1>7, <1>8 DEF Generator!Start, AbsOut
<1>10. QED
  BY <1>4, <1>9 DEF Generator!Next

\* The latency of the RAM and the pauses between copies are pauses.
LEMMA GeneratorPause ==
  ASSUME ReplayInv, Next, rdState \in {"HAUNT1", "HAUNT2", "WAIT"}, ~latFlag
  PROVE  Generator!Next
<1>t. TypeOK /\ TestInv /\ StoreInv /\ Busy /\ Replaying
  BY DEF ReplayInv, TestInv, Busy, Replaying
<1>f. ram' = ram /\ ModelLen' = ModelLen
  BY <1>t, BusyFrame
<1>r. RdStep(wrOut, wrVwr, bypass, start, ramQ, SentTime)
  BY <1>t, StepShape DEF Hardware
<1>1. /\ rdState' \in {"HAUNT1", "HAUNT2", "WAIT", "READ"}
      /\ rdState' = "READ" => rdAddr' = 2
      /\ pktCnt' = pktCnt /\ ~rdOut'.wr
  <2>1. CASE rdState = "HAUNT1"
    BY <1>r, <2>1, RdBranch
    DEF RdHaunt1, rdCounters, ReplayInv, ReadInv, Emitted
  <2>2. CASE rdState = "HAUNT2"
    BY <1>r, <2>2, RdBranch DEF RdHaunt2, ReplayInv, ReadInv, Emitted
  <2>3. CASE rdState = "WAIT"
    BY <1>r, <2>3, RdBranch DEF RdWait, RdQuiet, NoOut
  <2>4. QED
    BY <2>1, <2>2, <2>3
<1>2. Phase = "run" /\ Phase' = "run"
  BY <1>t, <1>1, Phases DEF Replaying
<1>3. AbsOut' = Generator!Nothing
  BY <1>1, Silence
<1>4. /\ (IF rdState = "READ" THEN rdAddr - 2 ELSE 0) = 0
      /\ (IF rdState' = "READ" THEN rdAddr' - 2 ELSE 0) = 0
  BY <1>1
<1>5. Generator!Pause
  BY <1>1, <1>2, <1>3, <1>4, <1>f DEF Generator!Pause, AbsOut
<1>6. QED
  BY <1>5 DEF Generator!Next

\* A word of a copy, as the generator promises it.
LEMMA GeneratorWord ==
  ASSUME ReplayInv, Next, rdState = "READ", RamDepth <= 2048
  PROVE  rdOut'.wr /\ rdOut'.pkt = ram[0].pkt /\ rdOut'.seq = Turn
         /\ (rdOut'.flag = "tail") = (Turn = ModelLen - 1)
         /\ rdOut'.stamp = IF Turn = 5 THEN pktCnt ELSE -1
<1>t. TypeOK /\ TestInv /\ StoreInv /\ Busy
  BY DEF ReplayInv, TestInv, Busy, Replaying
<1>1. /\ Turn \in 0 .. ModelLen - 1 /\ rdAddr = Turn + 2
      /\ ramQ.pkt = testNo /\ ramQ.seq = Turn
      /\ ModelLen \in Nat /\ ModelLen >= 2 /\ WholeOf(ModelLen)
  BY <1>t, ReadWord, BusyFrame DEF ModelLenOK
<1>2. /\ (ramQ.flag = "tail") = (Turn = ModelLen - 1)
      /\ ramQ.flag \in {"head", "body", "tail"}
      /\ ramQ.flag = "head" <=> Turn = 0
      /\ RdHead(ramQ) \/ RdBody(ramQ) \/ RdTail(ramQ)
  BY <1>1, ReadWord
<1>3. ram[0].pkt = testNo
  BY <1>1 DEF WholeOf, ModelWord
<1>4. PICK st \in {NoStamp, Stamp} : /\ rdOut' = Out(Strobed(ramQ), st)
                                     /\ st = IF Turn = 0 THEN NoStamp ELSE Stamp
  BY <1>2 DEF RdHead, RdBody, RdTail
<1>5. /\ rdOut'.wr /\ rdOut'.flag = ramQ.flag /\ rdOut'.pkt = ramQ.pkt
      /\ rdOut'.seq = ramQ.seq /\ rdOut'.stamp = st
  BY <1>t, <1>4, OutWord, RdNumbers
<1>6. Turn # 0 => Stamp = IF Turn = 5 THEN pktCnt ELSE NoStamp
  <2>1. Turn # 0 => cycleCnt = rdAddr - 3
    BY <1>1 DEF ReplayInv, ReadInv, Cycle
  <2>2. QED
    BY <1>1, <2>1 DEF Stamp, StampCycle
<1>7. st = IF Turn = 5 THEN pktCnt ELSE -1
  BY <1>1, <1>4, <1>6 DEF NoStamp
<1>8. QED
  BY <1>1, <1>2, <1>3, <1>5, <1>7

LEMMA GeneratorEmits ==
  ASSUME ReplayInv, Next, rdState = "READ", RamDepth <= 2048
  PROVE  Generator!Next
<1>t. TypeOK /\ TestInv /\ StoreInv /\ Busy /\ Replaying
  BY DEF ReplayInv, TestInv, Busy, Replaying
<1>f. ram' = ram /\ ModelLen' = ModelLen /\ ModelLen \in Nat
  BY <1>t, BusyFrame DEF ModelLenOK
<1>1. /\ Turn \in 0 .. ModelLen - 1 /\ rdAddr = Turn + 2
      /\ Turn < ModelLen - 1 => /\ rdState' = "READ" /\ rdAddr' = rdAddr + 1
                                /\ RdHead(ramQ) \/ RdBody(ramQ)
      /\ Turn = ModelLen - 1 => rdState' \in {"WAIT", "FIN"} /\ RdTail(ramQ)
  BY ReadWord, ReadKeeps, TailKeeps
<1>2. Phase = "run" /\ Phase' \in {"run", "done"}
  BY <1>t, <1>1, <1>f, Phases DEF Replaying
<1>3. AbsOut' = [pkt |-> ram[0].pkt, pos |-> Turn, last |-> Turn = ModelLen - 1,
                 stamp |-> IF Turn = 5 THEN pktCnt ELSE -1]
  BY <1>2, GeneratorWord DEF AbsOut
<1> DEFINE P == IF Phase = "idle" THEN 0 ELSE ram[0].pkt
           N == IF Phase = "idle" THEN 0 ELSE ModelLen
           Q == IF rdState = "READ" THEN rdAddr - 2 ELSE 0
           C == IF Phase = "idle" THEN 0 ELSE pktCnt
<1>4. P = ram[0].pkt /\ N = ModelLen /\ Q = Turn /\ C = pktCnt
  BY <1>2 DEF Turn
<1>a. AbsOut' = [pkt |-> P, pos |-> Q, last |-> Q = N - 1,
                 stamp |-> IF Q = 5 THEN C ELSE -1]
  <2> HIDE DEF P, N, Q, C
  <2>1. (Q = N - 1) = (Turn = ModelLen - 1)
    BY <1>4
  <2>2. (IF Q = 5 THEN C ELSE -1) = (IF Turn = 5 THEN pktCnt ELSE -1)
    BY <1>4
  <2>3. QED
    BY <1>3, <1>4, <2>1, <2>2
<1>b. /\ ~(Phase = "idle") /\ ~(Phase' = "idle")
      /\ P' = P /\ N' = N
  BY <1>2, <1>f
<1>5. CASE Turn < ModelLen - 1
  <2>1. rdState' = "READ" /\ rdAddr' - 2 = Turn + 1 /\ Phase' = "run"
    BY <1>1, <1>5, Phases DEF Replaying
  <2>2. pktCnt' = pktCnt
    BY <1>1, <1>5 DEF RdHead, RdBody
  <2>3. Q < N - 1 /\ Q' = Q + 1 /\ Phase' = Phase /\ C' = C
    BY <1>2, <1>4, <1>5, <2>1, <2>2 DEF Turn
  <2>4. Generator!EmitWord
    BY <1>2, <1>a, <1>b, <2>3
    DEF Generator!EmitWord, Generator!StampPos, AbsOut
  <2>5. QED
    BY <2>4 DEF Generator!Next
<1>6. CASE Turn = ModelLen - 1
  <2>1. rdState' # "READ" /\ pktCnt' = pktCnt + 1
    BY <1>1, <1>6 DEF RdTail
  <2>2. Q = N - 1 /\ Q' = 0 /\ C' = C + 1
    BY <1>2, <1>4, <1>6, <2>1
  <2>3. Generator!EmitWord
    BY <1>2, <1>a, <1>b, <2>2
    DEF Generator!EmitWord, Generator!StampPos, AbsOut
  <2>4. QED
    BY <2>3 DEF Generator!Next
<1>7. QED
  BY <1>1, <1>5, <1>6, <1>f

\* The end of the test, and the reset.
LEMMA GeneratorRest ==
  ASSUME ReplayInv, Next, rdState = "FIN"
  PROVE  Generator!Next
<1>t. TypeOK /\ TestInv /\ StoreInv /\ Busy
  BY DEF ReplayInv, TestInv, Busy, Replaying
<1>f. ram' = ram /\ ModelLen' = ModelLen
  BY <1>t, BusyFrame
<1>1. RdFin
  BY <1>t, StepShape, RdBranch DEF Hardware
<1>2. pktCnt' = pktCnt /\ Phase = "done"
  BY <1>1, Phases DEF RdFin, rdCounters
<1>3. CASE rdState' = "IDLE"
  <2>1. Phase' = "idle"
    BY <1>3, Phases DEF Busy, Replaying
  <2>2. Generator!Reset
    BY <1>2, <1>3, <2>1 DEF Generator!Reset, Generator!Nothing
  <2>3. QED
    BY <2>2 DEF Generator!Next
<1>4. CASE rdState' = "FIN"
  <2>1. Phase' = "done"
    BY <1>4, Phases
  <2>2. ~rdOut'.wr
    BY <1>1, <1>4 DEF RdFin, RdQuiet, NoOut
  <2>3. AbsOut' = Generator!Nothing
    BY <2>2, Silence
  <2>4. Generator!Rest
    BY <1>2, <1>4, <1>f, <2>1, <2>3 DEF Generator!Rest, AbsOut
  <2>5. QED
    BY <2>4 DEF Generator!Next
<1>5. QED
  BY <1>1, <1>3, <1>4 DEF RdFin

LEMMA GeneratorStep ==
  ASSUME ReplayInv, [Next]_vars, TRUE \notin LatFlags, RamDepth <= 2048
  PROVE  [Generator!Next]_(Generator!genVars)
<1>l. ~latFlag
  BY DEF ReplayInv, Modes
<1>1. CASE UNCHANGED vars
  <2>1. ram' = ram /\ rdOut' = rdOut /\ pktCnt' = pktCnt /\ rdState' = rdState
        /\ rdAddr' = rdAddr
    BY <1>1 DEF vars, hwVars, ramVars, rdVars
  <2>2. ModelLen' = ModelLen /\ Phase' = Phase
    BY <2>1 DEF ModelLen, ModelTail, Phase, Replaying
  <2>3. QED
    BY <2>1, <2>2 DEF Generator!genVars
<1>2. CASE Next /\ ~Busy /\ ~Busy'
  BY <1>2, GeneratorIdle
<1>3. CASE Next /\ ~Busy /\ Busy'
  BY <1>3, GeneratorStart
<1>4. CASE Next /\ Busy
  <2>1. rdState # "PROBE"
    BY <1>l DEF ReplayInv, Modes
  <2>2. QED
    BY <1>4, <1>l, <2>1, GeneratorPause, GeneratorEmits, GeneratorRest
    DEF Busy, Replaying
<1>5. QED
  BY <1>1, <1>2, <1>3, <1>4

(***************************************************************************)
(* pgm implements the abstract generator, step by step: the latency of the *)
(* RAM, the read address that runs ahead, the counter that picks the word  *)
(* with the number of the copy and the flags between the two halves cannot *)
(* be seen at the output.  The RAM may not be longer than the counter of   *)
(* words (11 bits) can tell; that of the code has 128 words.               *)
(***************************************************************************)
THEOREM PgmIsGenerator ==
  ASSUME SlowReset, TRUE \notin LatFlags, RamDepth <= 2048
  PROVE  Spec => ImplementsGenerator
<1>1. ReplayInv /\ [Next]_vars => [Generator!Next]_(Generator!genVars)
  BY GeneratorStep
<1>2. QED
  BY <1>1, GeneratorInit, ReplayInvHolds, PTL
  DEF Spec, ImplementsGenerator, Generator!Spec
=============================================================================
