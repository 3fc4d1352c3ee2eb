------------------------------ MODULE ScmCtrl -------------------------------
(***************************************************************************)
(* scm.v, its register half: like the registers of pgm, and reads of the   *)
(* latency RAM, which hold the chain for three clocks.                     *)
(***************************************************************************)
EXTENDS CtrlCmd

CONSTANT
  Latency     \* the contents of the latency RAM, all addresses alike

VARIABLES
  scmCtl,     \* scm_ctl_state
  scmRegs,    \* statistic_reset, protocol_type
  scmFlag,    \* ctl_write_flag
  scmSecond,  \* cin_scm_data_2_cycle
  scmCout     \* cout_scm_data, cout_scm_data_wr

scmCtlVars == <<scmCtl, scmRegs, scmFlag, scmSecond, scmCout>>

\* statistic_reset and protocol_type; only the second can be read back.
ScmBits == [scm_soft_rst |-> 1, proto_type |-> 8]
ScmReadable == {"proto_type"}

ScmCtlInit ==
  /\ scmCtl = "IDLE"
  /\ scmRegs = [r \in DOMAIN ScmBits |-> 0]
  /\ scmFlag \in BOOLEAN
  /\ scmSecond = Quiet
  /\ scmCout = Quiet
-----------------------------------------------------------------------------
RamRead(in) == CmdHead(in) /\ in.reg = "lat_ram" /\ in.op = "read"
RegHead(in) == CmdHead(in) /\ in.reg # "lat_ram"
Own(in, op) == RegHead(in) /\ in.dst = ScmMid /\ in.op = op

\* The module identifier is not looked at.
ScmAskRam(in) ==
  /\ RamRead(in)
  /\ scmCout' = [in EXCEPT !.wr = FALSE]
  /\ scmCtl' = "WAIT"
  /\ UNCHANGED <<scmRegs, scmFlag, scmSecond>>

ScmWriteAnyMid(in) ==
  /\ RegHead(in) /\ in.op = "write"
  /\ scmFlag' = TRUE
  /\ scmRegs' = IF in.reg \in DOMAIN ScmBits
                THEN [scmRegs EXCEPT ![in.reg] = Cut(in.val, ScmBits[in.reg])]
                ELSE scmRegs
  /\ scmCout' = Quiet
  /\ UNCHANGED <<scmCtl, scmSecond>>
ScmWrite(in) ==
  /\ Own(in, "write")
  /\ scmFlag' = TRUE
  /\ scmRegs' = IF in.reg \in DOMAIN ScmBits
                THEN [scmRegs EXCEPT ![in.reg] = Cut(in.val, ScmBits[in.reg])]
                ELSE scmRegs
  /\ scmCout' = Quiet
  /\ UNCHANGED <<scmCtl, scmSecond>>

\* A read of n_rtt assigns nothing to the data: the old word is sent.
ScmRead(in) ==
  /\ Own(in, "read")
  /\ scmFlag' = FALSE
  /\ scmCout' = IF in.reg = "n_rtt" THEN [scmCout EXCEPT !.wr = TRUE]
                ELSE Reply(in, IF in.reg \in ScmReadable THEN scmRegs[in.reg]
                               ELSE AllOnes)
  /\ UNCHANGED <<scmCtl, scmRegs, scmSecond>>

\* A command for another module that finds the chain not ready is not taken.
ScmPass(in, ready) ==
  /\ RegHead(in) /\ ~Own(in, "read") /\ ~Own(in, "write")
  /\ scmFlag' = (scmFlag /\ ~ready)
  /\ scmCout' = IF ready THEN in ELSE scmCout
  /\ UNCHANGED <<scmCtl, scmRegs, scmSecond>>

ScmTail(in) ==
  /\ CmdTail(in)
  /\ scmCout' = IF scmFlag THEN Quiet ELSE in
  /\ scmFlag' = FALSE
  /\ UNCHANGED <<scmCtl, scmRegs, scmSecond>>

\* No command, or a write to the RAM, whose first word is lost.
ScmQuiet(in) ==
  /\ ~RamRead(in) /\ ~RegHead(in) /\ ~CmdTail(in)
  /\ scmCout' = [in EXCEPT !.wr = FALSE]
  /\ UNCHANGED <<scmCtl, scmRegs, scmFlag, scmSecond>>

ScmWaitRam(in) ==
  /\ scmCout' = [scmCout EXCEPT !.wr = FALSE]
  /\ scmSecond' = in
  /\ scmCtl' = "RESP1"
  /\ UNCHANGED <<scmRegs, scmFlag>>

ScmRespond1 ==
  /\ scmCout' = [Reply(scmCout, Latency) EXCEPT !.wr = TRUE]
  /\ scmCtl' = "RESP2"
  /\ UNCHANGED <<scmRegs, scmFlag, scmSecond>>

ScmRespond2 ==
  /\ scmCout' = [scmSecond EXCEPT !.wr = TRUE]
  /\ scmCtl' = "IDLE"
  /\ UNCHANGED <<scmRegs, scmFlag, scmSecond>>

ScmCtlClock(in, ready) ==
  \/ /\ scmCtl = "IDLE"
     /\ \/ ScmAskRam(in) \/ ScmWrite(in) \/ ScmRead(in) \/ ScmPass(in, ready)
        \/ ScmTail(in) \/ ScmQuiet(in)
  \/ scmCtl = "WAIT" /\ ScmWaitRam(in)
  \/ scmCtl = "RESP1" /\ ScmRespond1
  \/ scmCtl = "RESP2" /\ ScmRespond2
=============================================================================
