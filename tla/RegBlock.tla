------------------------------ MODULE RegBlock ------------------------------
(***************************************************************************)
(* The registers of pgm_wr and pgm_rd on the control chain.  A write to    *)
(* this module is taken off the chain, both words of it; a read is turned  *)
(* into its answer on the fly; all else goes on in the next clock.         *)
(***************************************************************************)
EXTENDS CtrlCmd

CONSTANTS
  Mid,        \* the module identifier
  Bits        \* the registers it has, with their widths

VARIABLES
  regs,       \* their contents
  flag,       \* ctl_write_flag: the first word of a write was swallowed
  out         \* cout_*_data, cout_*_data_wr

\* The flag has no reset.
RegInit ==
  /\ regs = [r \in DOMAIN Bits |-> 0]
  /\ flag \in BOOLEAN
  /\ out = Quiet

RegIsFor(in, op) == CmdHead(in) /\ in.dst = Mid /\ in.op = op

Stored(in) == IF in.reg \in DOMAIN Bits
              THEN [regs EXCEPT ![in.reg] = Cut(in.val, Bits[in.reg])]
              ELSE regs

\* The answer for a one-bit register keeps the other bits of the request.
Answer(in) ==
  IF in.reg \notin DOMAIN Bits THEN AllOnes
  ELSE IF Bits[in.reg] = 1 THEN (in.val \div 2) * 2 + regs[in.reg]
  ELSE regs[in.reg]
-----------------------------------------------------------------------------
RegWriteAnyMid(in) ==
  /\ CmdHead(in) /\ in.op = "write"
  /\ regs' = Stored(in)
  /\ flag' = TRUE
  /\ out' = Quiet
RegWrite(in) ==
  /\ RegIsFor(in, "write")
  /\ regs' = Stored(in)
  /\ flag' = TRUE
  /\ out' = Quiet

RegReadKeepsFlag(in) ==
  /\ RegIsFor(in, "read")
  /\ out' = Reply(in, Answer(in))
  /\ UNCHANGED <<regs, flag>>
RegRead(in) ==
  /\ RegIsFor(in, "read")
  /\ out' = Reply(in, Answer(in))
  /\ flag' = FALSE
  /\ UNCHANGED regs

RegPass(in) ==
  /\ CmdHead(in) /\ ~RegIsFor(in, "read") /\ ~RegIsFor(in, "write")
  /\ out' = in
  /\ flag' = FALSE
  /\ UNCHANGED regs

RegTailPasses(in) ==
  /\ CmdTail(in)
  /\ out' = in
  /\ flag' = FALSE
  /\ UNCHANGED regs
RegTail(in) ==
  /\ CmdTail(in)
  /\ out' = IF flag THEN Quiet ELSE in
  /\ flag' = FALSE
  /\ UNCHANGED regs

RegNothing(in) ==
  /\ ~CmdHead(in) /\ ~CmdTail(in)
  /\ out' = Quiet
  /\ UNCHANGED <<regs, flag>>

RegClock(in) ==
  \/ RegWrite(in) \/ RegRead(in) \/ RegPass(in) \/ RegTail(in)
  \/ RegNothing(in)
=============================================================================
