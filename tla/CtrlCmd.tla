------------------------------ MODULE CtrlCmd -------------------------------
(***************************************************************************)
(* Commands on the control chain: two words in consecutive clocks.  The    *)
(* first names the operation, the module asked and the module asking, the  *)
(* register and a value; the second carries the session of the asker.      *)
(***************************************************************************)
EXTENDS Integers

\* Module identifiers: the four blocks that answer, and the test program.
ScmMid == 7
PgmWrMid == 61
PgmRdMid == 62
GoeMid == 5
AntMid == 140
ModuleIds == {0, ScmMid, PgmWrMid, PgmRdMid, GoeMid, AntMid}

\* A register of 0x80000000 and above is an address of the latency RAM.
Registers == {"none", "scm_soft_rst", "n_rtt", "proto_type", "lat_ram",
              "sent_time_low", "sent_time_high", "sent_rate_reg",
              "lat_pkt_reg", "lat_flag", "soft_rst", "goe_count"}

\* What a read of an address without a register answers.
AllOnes == -1

CmdBeat == [wr : BOOLEAN, part : {"none", "head", "tail"},
            op : {"none", "read", "write", "reply"},
            dst : ModuleIds, src : ModuleIds, reg : Registers,
            val : Int, id : Nat]

Quiet == [wr |-> FALSE, part |-> "none", op |-> "none", dst |-> 0, src |-> 0,
          reg |-> "none", val |-> 0, id |-> 0]

HeadBeat(c) == [wr |-> TRUE, part |-> "head", op |-> c.op, dst |-> c.mid,
                src |-> AntMid, reg |-> c.reg, val |-> c.val, id |-> c.id]
TailBeat(c) == [Quiet EXCEPT !.wr = TRUE, !.part = "tail", !.id = c.id]

CmdHead(b) == b.wr /\ b.part = "head"
CmdTail(b) == b.wr /\ b.part = "tail"

\* An answer goes back to the module that asked.
Reply(b, v) == [b EXCEPT !.op = "reply", !.dst = b.src, !.src = b.dst,
                         !.val = v]

\* A register of fewer than 32 bits keeps the low bits of what is written.
Cut(v, bits) == IF bits = 32 THEN v ELSE v % 2^bits
=============================================================================
