----------------------------- MODULE CtrlChain ------------------------------
(***************************************************************************)
(* The control chain from the library call of the test program to the      *)
(* registers and back: libua queues commands, the DMA engine puts them on  *)
(* the chain, two words each, they pass scm, pgm_wr, pgm_rd and goe, and   *)
(* what leaves goe is handed to the call that waits.  gpp, gke, gme and    *)
(* gac are wires here (um.v 501-870).                                      *)
(***************************************************************************)
EXTENDS CtrlCmd, Sequences, FiniteSets

CONSTANTS
  Setters,    \* the registers the library sets and
  Getters,    \* those it gets: names of LibAnt
  Values,     \* what the test program writes
  Latency,    \* what every address of the latency RAM holds
  CtrlDepth,  \* words of ctrl_fifo: 128 in the code
  MaxWords    \* bound: words of commands between the library and goe

VARIABLES
  call,       \* the library call: idle, waiting for an answer, returned
  last,       \* history: what was last written through each name
  queue,      \* commands the driver holds
  dmaTail,    \* <<c>>: the second word of c is next on the chain
  dmaHead,    \* the first word of an answer the driver has received
  scmCtl, scmRegs, scmFlag, scmSecond, scmCout,
  wrRegs, wrFlag, wrCout,
  rdRegs, rdFlag, rdCout,
  goeFifo, goeShown, goeRd, goeState, goeOut,
  goeCount    \* one counter of goe_ram_inst

softVars == <<call, last, queue>>
chainVars == <<scmCtl, scmRegs, scmFlag, scmSecond, scmCout, wrRegs, wrFlag,
               wrCout, rdRegs, rdFlag, rdCout, goeFifo, goeShown, goeRd,
               goeState, goeCount, goeOut>>
vars == <<softVars, dmaTail, dmaHead, chainVars>>

\* The registers and their widths.
WrBits == [sent_time_low |-> 32, sent_time_high |-> 32]
RdBits == [sent_rate_reg |-> 32, lat_pkt_reg |-> 32, lat_flag |-> 1,
           soft_rst |-> 1]

SCM == INSTANCE ScmCtrl
PGM_WR == INSTANCE RegBlock WITH
  Mid <- PgmWrMid, Bits <- WrBits,
  regs <- wrRegs, flag <- wrFlag, out <- wrCout
PGM_RD == INSTANCE RegBlock WITH
  Mid <- PgmRdMid, Bits <- RdBits,
  regs <- rdRegs, flag <- rdFlag, out <- rdCout
GOE == INSTANCE GoeCtrl
-----------------------------------------------------------------------------
\* The setters and getters of libant: the register each of them names.
At(mid, set, get) == [mid |-> mid, set |-> set, get |-> get]
LibAnt == [
  sent_time_high |-> At(PgmWrMid, "sent_time_high", "sent_time_high"),
  sent_time_low  |-> At(PgmWrMid, "sent_time_low", "sent_time_low"),
  sent_rate      |-> At(PgmRdMid, "sent_rate_reg", "lat_pkt_reg"),
  lat_pkt        |-> At(PgmRdMid, "lat_pkt_reg", "lat_pkt_reg"),
  lat_flag       |-> At(PgmRdMid, "lat_flag", "lat_flag"),
  rd_soft_rst    |-> At(PgmRdMid, "soft_rst", "soft_rst"),
  proto_type     |-> At(ScmMid, "proto_type", "proto_type"),
  scm_soft_rst   |-> At(ScmMid, "scm_soft_rst", "scm_soft_rst"),
  n_rtt          |-> At(ScmMid, "n_rtt", "n_rtt"),
  latency        |-> At(ScmMid, "none", "lat_ram"),
  goe_count      |-> At(GoeMid, "goe_count", "goe_count")]

\* hw_rd sends 0x0923 as its data.
ReadFill == 2339

ASSUME ChainAssumption ==
  /\ Setters \subseteq DOMAIN LibAnt /\ Getters \subseteq DOMAIN LibAnt
  /\ Values \subseteq Nat /\ Latency \in Nat
  /\ CtrlDepth \in Nat /\ CtrlDepth >= 2
  /\ MaxWords \in Nat /\ MaxWords >= 2

Init ==
  /\ call = [st |-> "idle", name |-> "", val |-> 0]
  /\ last = [n \in DOMAIN LibAnt |-> 0]
  /\ queue = <<>>
  /\ dmaTail = <<>>
  /\ dmaHead = Quiet
  /\ SCM!ScmCtlInit /\ PGM_WR!RegInit /\ PGM_RD!RegInit
  /\ GOE!GoeInit /\ goeCount = 0
-----------------------------------------------------------------------------
\* Words still on their way.
OnTheWay ==
  2 * Len(queue) + Len(dmaTail) + Len(goeFifo)
  + Cardinality({i \in 1..3 : <<scmCout, wrCout, rdCout>>[i].wr})
RoomToSend == OnTheWay + 2 <= MaxWords

\* The caller goes on at once; the session word of the packet is not set.
fast_ua_hw_wr(n, v) ==
  /\ call.st # "waiting" /\ RoomToSend
  /\ LibAnt[n].set # "none"
  /\ queue' = Append(queue, [op |-> "write", mid |-> LibAnt[n].mid,
                             reg |-> LibAnt[n].set, val |-> v, id |-> 0])
  /\ last' = [last EXCEPT ![n] = v]
  /\ call' = [st |-> "idle", name |-> "", val |-> 0]
  /\ UNCHANGED <<dmaTail, dmaHead, chainVars>>

\* The caller sleeps until its answer is in.
fast_ua_hw_rd(n) ==
  /\ call.st # "waiting" /\ RoomToSend
  /\ queue' = Append(queue, [op |-> "read", mid |-> LibAnt[n].mid,
                             reg |-> LibAnt[n].get, val |-> ReadFill,
                             id |-> 1])
  /\ call' = [st |-> "waiting", name |-> n, val |-> 0]
  /\ UNCHANGED <<last, dmaTail, dmaHead, chainVars>>

\* The word the DMA engine puts on the chain, and what remains to send.
DmaSends(in) ==
  IF dmaTail # <<>>
  THEN in = TailBeat(dmaTail[1]) /\ dmaTail' = <<>> /\ UNCHANGED queue
  ELSE IF queue # <<>> /\ GOE!GoeReady
  THEN /\ in = HeadBeat(Head(queue))
       /\ dmaTail' = <<Head(queue)>>
       /\ queue' = Tail(queue)
  ELSE in = Quiet /\ UNCHANGED <<dmaTail, queue>>

\* The driver pairs a first word with the second that follows it, and
\* recv_thread writes the value where the waiting call looks for it.
DmaReceives ==
  /\ dmaHead' = IF CmdHead(goeOut) THEN goeOut
                ELSE IF CmdTail(goeOut) THEN Quiet ELSE dmaHead
  /\ call' = IF /\ CmdTail(goeOut) /\ dmaHead.dst = AntMid
                /\ goeOut.id = 1 /\ call.st = "waiting"
             THEN [call EXCEPT !.st = "returned", !.val = dmaHead.val]
             ELSE call

ChainClock(in, dmaReady) ==
  /\ SCM!ScmCtlClock(in, GOE!GoeReady)
  /\ PGM_WR!RegClock(scmCout)
  /\ PGM_RD!RegClock(wrCout)
  /\ GOE!GoeClock(rdCout, dmaReady, goeCount)
  /\ goeCount' = GOE!GoeStored(goeCount)

\* The words the chain may be offered in a clock.
Words ==
  {Quiet} \cup (IF dmaTail = <<>> THEN {} ELSE {TailBeat(dmaTail[1])})
          \cup (IF queue = <<>> THEN {} ELSE {HeadBeat(Head(queue))})

Clock(dmaReady) ==
  /\ \E in \in Words : DmaSends(in) /\ ChainClock(in, dmaReady)
  /\ DmaReceives
  /\ UNCHANGED last

Next ==
  \/ \E n \in Setters, v \in Values : fast_ua_hw_wr(n, v)
  \/ \E n \in Getters : fast_ua_hw_rd(n)
  \/ \E dmaReady \in BOOLEAN : Clock(dmaReady)

Spec == Init /\ [][Next]_vars

\* The clock runs, and the DMA engine takes words again and again.
FairSpec == Spec /\ WF_vars(Clock(TRUE))
-----------------------------------------------------------------------------
\* The registers behind the names of the library, and whether each of them
\* holds what it was last given, cut to its width.
Registered == {n \in DOMAIN LibAnt : LibAnt[n].set \notin {"none", "n_rtt"}}
Holds(n) ==
  LET r == LibAnt[n].set
  IN  CASE LibAnt[n].mid = ScmMid   ->
             scmRegs[r] = Cut(last[n], SCM!ScmBits[r])
        [] LibAnt[n].mid = PgmWrMid -> wrRegs[r] = Cut(last[n], WrBits[r])
        [] LibAnt[n].mid = PgmRdMid -> rdRegs[r] = Cut(last[n], RdBits[r])
        [] LibAnt[n].mid = GoeMid   -> goeCount = last[n]

\* A read is a barrier: when it returns, every write made before it has
\* arrived in its register, in whichever block that is.
ReadIsBarrier ==
  call.st = "returned" => \A n \in Registered : Holds(n)

\* Writes land where they were sent: with no command left on the way, every
\* register holds what it was last given.
Settled == OnTheWay = 0 /\ scmCtl = "IDLE" /\ goeState = "idle"
WritesLand == Settled => \A n \in Registered : Holds(n)

\* What goe sends to the DMA engine is an answer for the call that waits,
\* first word and second word in turn; no write and no lone word gets out.
AnswersFramed ==
  goeOut.wr =>
    /\ call.st = "waiting"
    /\ IF dmaHead = Quiet
       THEN /\ CmdHead(goeOut) /\ goeOut.op = "reply"
            /\ goeOut.dst = AntMid /\ goeOut.src = LibAnt[call.name].mid
       ELSE CmdTail(goeOut) /\ goeOut.id = 1

\* The library, the chain and the blocks on it are a file of registers: the
\* getter of a name returns, and returns what its setter was last given.
File == INSTANCE RegFile WITH
  Names <- DOMAIN LibAnt,
  mem <- [n \in DOMAIN LibAnt |-> IF n = "latency" THEN Latency ELSE last[n]]
ImplementsRegFile == File!Spec
=============================================================================
