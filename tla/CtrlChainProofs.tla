--------------------------- MODULE CtrlChainProofs ---------------------------
(***************************************************************************)
(* What is proved of the control chain, for every set of registers that    *)
(* are set and read, every set of values and every depth of the FIFO.      *)
(***************************************************************************)
EXTENDS CtrlChain, SequenceTheorems, FiniteSetTheorems, TLAPS

\* The FIFO of goe takes the words that one caller can have on the way; and
\* the two registers whose reads the code does not answer are not read
\* (scm.v 234-271, n_rtt; goe.v 324-336, its counters).
Sane == MaxWords <= CtrlDepth /\ "n_rtt" \notin Getters /\ "goe_count" \notin Getters

(***************************************************************************)
(* The ranges.                                                             *)
(***************************************************************************)
Cmds == [op : {"read", "write"}, mid : ModuleIds, reg : Registers, val : Int,
         id : {0, 1}]

CallNames == DOMAIN LibAnt \cup {""}

Ranges ==
  /\ call \in [st : {"idle", "waiting", "returned"},
               name : CallNames, val : Int]
  /\ last \in [DOMAIN LibAnt -> Int]
  /\ queue \in Seq(Cmds)
  /\ dmaTail \in Seq(Cmds) /\ Len(dmaTail) <= 1
  /\ dmaHead \in CmdBeat
  /\ scmCtl \in {"IDLE", "WAIT", "RESP1", "RESP2"}
  /\ scmRegs \in [DOMAIN SCM!ScmBits -> Int] /\ scmFlag \in BOOLEAN
  /\ scmSecond \in CmdBeat /\ scmCout \in CmdBeat
  /\ wrRegs \in [DOMAIN WrBits -> Int] /\ wrFlag \in BOOLEAN /\ wrCout \in CmdBeat
  /\ rdRegs \in [DOMAIN RdBits -> Int] /\ rdFlag \in BOOLEAN /\ rdCout \in CmdBeat
  /\ goeFifo \in Seq(CmdBeat) /\ goeOut \in CmdBeat
  /\ goeState \in {"idle", "write", "tran", "discard"}
  /\ goeRd = (goeState # "idle")
  /\ goeCount \in Int

(***************************************************************************)
(* The words.  On a wire is nothing, the first word of a write to a block  *)
(* that is still ahead, of a read or of its answer, or a second word.      *)
(***************************************************************************)
Settable == {n \in Setters : LibAnt[n].set # "none"}

ToSet(op, mid, reg, id) ==
  /\ op = "write" /\ id = 0
  /\ \E n \in Settable : mid = LibAnt[n].mid /\ reg = LibAnt[n].set
ToAsk(op, mid, reg, id) ==
  /\ op = "read" /\ id = 1 /\ call.name \in Getters
  /\ mid = LibAnt[call.name].mid /\ reg = LibAnt[call.name].get

Waiting == call.st = "waiting"

SetHead(b, ahead) == ToSet(b.op, b.dst, b.reg, b.id) /\ b.dst \in ahead
AskHead(b, ahead) ==
  Waiting /\ ToAsk(b.op, b.dst, b.reg, b.id) /\ b.dst \in ahead /\ b.src = AntMid
AnswerHead(b) ==
  /\ Waiting /\ b.op = "reply" /\ b.id = 1 /\ b.dst = AntMid
  /\ b.src = LibAnt[call.name].mid

Known(b, ahead) ==
  CmdHead(b) => SetHead(b, ahead) \/ AskHead(b, ahead) \/ AnswerHead(b)
Framed(b) == b.wr => b.part \in {"head", "tail"} /\ b.id \in {0, 1}

AfterScm == {PgmWrMid, PgmRdMid, GoeMid}
AfterWr == {PgmRdMid, GoeMid}
AfterRd == {GoeMid}

Wires ==
  /\ Framed(scmCout) /\ Known(scmCout, AfterScm)
  /\ Framed(wrCout) /\ Known(wrCout, AfterWr)
  /\ Framed(rdCout) /\ Known(rdCout, AfterRd)
  /\ \A i \in 1 .. Len(goeFifo) :
       goeFifo[i].wr /\ Framed(goeFifo[i]) /\ Known(goeFifo[i], AfterRd)

\* The commands that have not been sent: only the youngest can be a read.
Queued ==
  \A i \in 1 .. Len(queue) :
    LET c == queue[i]
    IN  \/ ToSet(c.op, c.mid, c.reg, c.id)
        \/ /\ i = Len(queue) /\ Waiting
           /\ ToAsk(c.op, c.mid, c.reg, c.id)

(***************************************************************************)
(* The second word of a command is one clock behind the first; where the   *)
(* first was swallowed, the flag of that block is up.                      *)
(***************************************************************************)
Follows(tail, flag, ahead) ==
  /\ CmdTail(tail) => IF flag THEN ~ahead.wr /\ tail.id = 0
                      ELSE CmdHead(ahead) /\ ahead.id = tail.id
  /\ CmdHead(ahead) => CmdTail(tail) /\ ~flag

ScmPairs ==
  /\ dmaTail # <<>> => scmCtl \in {"IDLE", "WAIT"}
  /\ dmaTail # <<>> /\ scmCtl = "IDLE" =>
       IF scmFlag THEN ~scmCout.wr /\ dmaTail[1].id = 0
       ELSE CmdHead(scmCout) /\ scmCout.id = dmaTail[1].id
  /\ CmdHead(scmCout) =>
       scmCtl = "RESP2" \/ (scmCtl = "IDLE" /\ dmaTail # <<>> /\ ~scmFlag)

\* While scm looks into the latency RAM it holds the one read there is.
ScmHolds ==
  /\ scmCtl # "IDLE" => Waiting /\ queue = <<>>
  /\ scmCtl = "WAIT" =>
       dmaTail # <<>> /\ dmaTail[1].id = 1 /\ ~scmCout.wr /\ scmCout.part = "head"
  /\ scmCtl \in {"RESP1", "RESP2"} =>
       dmaTail = <<>> /\ CmdTail(scmSecond) /\ scmSecond.id = 1
  /\ scmCtl \in {"WAIT", "RESP1"} => AskHead(scmCout, {ScmMid})
  /\ scmCtl = "RESP1" => ~scmCout.wr /\ scmCout.part = "head"
  /\ scmCtl = "RESP2" => CmdHead(scmCout) /\ scmCout.id = 1

FifoPairs ==
  /\ \A i \in 1 .. Len(goeFifo) - 1 :
       IF CmdHead(goeFifo[i])
       THEN CmdTail(goeFifo[i + 1]) /\ goeFifo[i + 1].id = goeFifo[i].id
       ELSE CmdHead(goeFifo[i + 1])
  /\ goeFifo # <<>> /\ CmdHead(goeFifo[Len(goeFifo)]) =>
       CmdTail(rdCout) /\ rdCout.id = goeFifo[Len(goeFifo)].id
  /\ CmdTail(rdCout) => goeFifo # <<>> /\ CmdHead(goeFifo[Len(goeFifo)])

Pairs ==
  /\ ScmPairs /\ ScmHolds
  /\ Follows(scmCout, wrFlag, wrCout)
  /\ Follows(wrCout, rdFlag, rdCout)
  /\ FifoPairs

(***************************************************************************)
(* Where goe is in the command it works on.                                *)
(***************************************************************************)
GoePlace ==
  /\ goeState = "idle" /\ goeFifo # <<>> => CmdHead(goeFifo[1])
  /\ goeState = "write" =>
       /\ Len(goeFifo) >= 2 /\ CmdHead(goeFifo[1]) /\ SetHead(goeFifo[1], AfterRd)
       /\ ~goeOut.wr
  /\ goeState = "discard" => goeFifo # <<>> /\ CmdTail(goeFifo[1]) /\ ~goeOut.wr
  /\ goeState = "tran" =>
       \/ /\ Len(goeFifo) >= 2 /\ CmdHead(goeFifo[1]) /\ AnswerHead(goeFifo[1])
          /\ ~goeOut.wr
       \/ /\ goeFifo # <<>> /\ CmdTail(goeFifo[1]) /\ goeFifo[1].id = 1
          /\ CmdHead(goeOut)
  /\ Framed(goeOut)
  /\ CmdHead(goeOut) => goeState = "tran" /\ AnswerHead(goeOut) /\ ~CmdHead(goeFifo[1])
  /\ CmdTail(goeOut) => goeState = "idle" /\ goeOut.id = 1
  /\ IF CmdTail(goeOut) THEN CmdHead(dmaHead) /\ dmaHead.dst = AntMid
                        ELSE dmaHead = Quiet

(***************************************************************************)
(* Behind an answer, or the read it answers, there is nothing: the caller  *)
(* waits for it.                                                           *)
(***************************************************************************)
Behind1 == queue = <<>>
Behind2 == Behind1 /\ dmaTail = <<>> /\ scmCtl = "IDLE"
Behind3 == Behind2 /\ ~scmCout.wr
Behind4 == Behind3 /\ ~wrCout.wr
Behind5 == Behind4 /\ ~rdCout.wr
Behind6 == Behind5 /\ goeFifo = <<>>

LastWord(b) == CmdTail(b) /\ b.id = 1

Alone ==
  /\ dmaTail # <<>> /\ dmaTail[1].id = 1 => Waiting /\ Behind1
  /\ LastWord(scmCout) => Waiting /\ Behind2
  /\ LastWord(wrCout)  => Waiting /\ Behind3
  /\ LastWord(rdCout)  => Waiting /\ Behind4
  /\ \A i \in 1 .. Len(goeFifo) :
       LastWord(goeFifo[i]) => i = Len(goeFifo) /\ Waiting /\ Behind5
  /\ LastWord(goeOut) => Waiting /\ Behind6
  /\ call.st = "returned" => Behind6 /\ ~goeOut.wr /\ goeState = "idle"

(***************************************************************************)
(* The words on the way, with those scm holds, find room in the FIFO.      *)
(***************************************************************************)
One(b) == IF b.wr THEN 1 ELSE 0
Held == CASE scmCtl = "IDLE" -> 0 [] scmCtl = "RESP1" -> 2 [] OTHER -> 1
Unsent == 2 * Len(queue) + Len(dmaTail)
OnWires == One(scmCout) + One(wrCout) + One(rdCout)
Crowd == Unsent + Len(goeFifo) + OnWires + Held
Roomy == Crowd <= CtrlDepth

Traffic == Ranges /\ Wires /\ Queued /\ Pairs /\ GoePlace /\ Alone /\ Roomy

(***************************************************************************)
(* Of each register: the youngest write on the way, or the register itself *)
(* when there is none, has what was last written through its name.         *)
(***************************************************************************)
Sets(b, n) ==
  CmdHead(b) /\ b.op = "write" /\ b.dst = LibAnt[n].mid /\ b.reg = LibAnt[n].set
Orders(c, n) ==
  c.op = "write" /\ c.mid = LibAnt[n].mid /\ c.reg = LibAnt[n].set

NoneQueued(n) == \A i \in 1 .. Len(queue) : ~Orders(queue[i], n)
NoneScm(n) == NoneQueued(n) /\ ~Sets(scmCout, n)
NoneWr(n) == NoneScm(n) /\ ~Sets(wrCout, n)
NoneRd(n) == NoneWr(n) /\ ~Sets(rdCout, n)
NoneFifo(n) == NoneRd(n) /\ \A i \in 1 .. Len(goeFifo) : ~Sets(goeFifo[i], n)

Latest(n) ==
  /\ \A i \in 1 .. Len(queue) :
       Orders(queue[i], n)
       /\ (\A j \in i + 1 .. Len(queue) : ~Orders(queue[j], n))
         => queue[i].val = last[n]
  /\ NoneQueued(n) /\ Sets(scmCout, n) => scmCout.val = last[n]
  /\ NoneScm(n) /\ Sets(wrCout, n) => wrCout.val = last[n]
  /\ NoneWr(n) /\ Sets(rdCout, n) => rdCout.val = last[n]
  /\ NoneRd(n) =>
       \A i \in 1 .. Len(goeFifo) :
         Sets(goeFifo[i], n)
         /\ (\A j \in i + 1 .. Len(goeFifo) : ~Sets(goeFifo[j], n))
           => goeFifo[i].val = last[n]
  /\ NoneFifo(n) => Holds(n)

WritesInv == \A n \in Registered : Latest(n)

ChainInv == Traffic /\ WritesInv
-----------------------------------------------------------------------------
Blocks == {ScmMid, PgmWrMid, PgmRdMid, GoeMid}

\* The names of the library: which blocks and registers are behind them.
LEMMA Names ==
  /\ \A n \in DOMAIN LibAnt :
       /\ LibAnt[n].mid \in Blocks
       /\ LibAnt[n].set \in Registers \ {"lat_ram"} /\ LibAnt[n].get \in Registers
       /\ LibAnt[n].get = "lat_ram" => LibAnt[n].mid = ScmMid
       /\ LibAnt[n].get = "n_rtt" => n = "n_rtt"
       /\ LibAnt[n].mid = GoeMid <=> n = "goe_count"
  /\ \A m \in Registered, n \in DOMAIN LibAnt :
       LibAnt[m].mid = LibAnt[n].mid /\ LibAnt[m].set = LibAnt[n].set => m = n
  /\ "goe_count" \in Registered
  /\ LibAnt["goe_count"].set = "goe_count"
  BY DEF LibAnt, At, Blocks, Registers, Registered, ScmMid, PgmWrMid, PgmRdMid, GoeMid

LEMMA NamesOfBlocks ==
  ASSUME NEW n \in Registered
  PROVE  /\ n \in DOMAIN LibAnt
         /\ LibAnt[n].set # "none"
         /\ LibAnt[n].mid = ScmMid => LibAnt[n].set \in DOMAIN SCM!ScmBits
         /\ LibAnt[n].mid = PgmWrMid => LibAnt[n].set \in DOMAIN WrBits
         /\ LibAnt[n].mid = PgmRdMid => LibAnt[n].set \in DOMAIN RdBits
  BY DEF LibAnt, At, Registered, ScmMid, PgmWrMid, PgmRdMid, GoeMid,
         SCM!ScmBits, WrBits, RdBits

LEMMA Mids == /\ ScmMid # PgmWrMid /\ ScmMid # PgmRdMid /\ ScmMid # GoeMid
              /\ PgmWrMid # PgmRdMid /\ PgmWrMid # GoeMid /\ PgmRdMid # GoeMid
              /\ AntMid \notin Blocks /\ AntMid \in ModuleIds
              /\ Blocks \subseteq ModuleIds
              /\ 0 \notin Blocks \cup {AntMid} /\ 0 \in ModuleIds
  BY DEF ScmMid, PgmWrMid, PgmRdMid, GoeMid, AntMid, Blocks, ModuleIds

\* Whether a register holds its value, block by block, before and after a step.
LEMMA Held4 ==
  ASSUME NEW n \in Registered
  PROVE  /\ LibAnt[n].mid = ScmMid =>
              Holds(n) = (scmRegs[LibAnt[n].set] = Cut(last[n], SCM!ScmBits[LibAnt[n].set]))
         /\ LibAnt[n].mid = PgmWrMid =>
              Holds(n) = (wrRegs[LibAnt[n].set] = Cut(last[n], WrBits[LibAnt[n].set]))
         /\ LibAnt[n].mid = PgmRdMid =>
              Holds(n) = (rdRegs[LibAnt[n].set] = Cut(last[n], RdBits[LibAnt[n].set]))
         /\ LibAnt[n].mid = GoeMid => Holds(n) = (goeCount = last[n])
  BY Mids DEF Holds

LEMMA HeldNext4 ==
  ASSUME NEW n \in Registered
  PROVE  /\ LibAnt[n].mid = ScmMid =>
              Holds(n)' = (scmRegs'[LibAnt[n].set] = Cut(last'[n], SCM!ScmBits[LibAnt[n].set]))
         /\ LibAnt[n].mid = PgmWrMid =>
              Holds(n)' = (wrRegs'[LibAnt[n].set] = Cut(last'[n], WrBits[LibAnt[n].set]))
         /\ LibAnt[n].mid = PgmRdMid =>
              Holds(n)' = (rdRegs'[LibAnt[n].set] = Cut(last'[n], RdBits[LibAnt[n].set]))
         /\ LibAnt[n].mid = GoeMid => Holds(n)' = (goeCount' = last'[n])
  BY Mids DEF Holds

LEMMA CutIsInt == \A v \in Int, bits \in {1, 8, 32} : Cut(v, bits) \in Int
<1>1. \A v \in Int : Cut(v, 1) \in Int /\ Cut(v, 8) \in Int /\ Cut(v, 32) \in Int
  BY DEF Cut
<1>2. QED
  BY <1>1

\* The words.
LEMMA QuietFacts ==
  /\ Quiet \in CmdBeat /\ ~Quiet.wr /\ Framed(Quiet)
  /\ ~CmdHead(Quiet) /\ ~CmdTail(Quiet)
<1>1. ~Quiet.wr /\ Quiet \in CmdBeat
  BY Mids DEF Quiet, CmdBeat, Registers
<1>2. QED
  BY <1>1 DEF Framed, CmdHead, CmdTail

LEMMA HeadBeatFacts ==
  ASSUME NEW c \in Cmds
  PROVE  LET b == HeadBeat(c)
         IN  /\ b \in CmdBeat /\ CmdHead(b) /\ ~CmdTail(b) /\ Framed(b)
             /\ b.op = c.op /\ b.dst = c.mid /\ b.src = AntMid
             /\ b.reg = c.reg /\ b.val = c.val /\ b.id = c.id
  BY Mids DEF HeadBeat, Cmds, CmdBeat, CmdHead, CmdTail, Framed

LEMMA TailBeatFacts ==
  ASSUME NEW c \in Cmds
  PROVE  LET b == TailBeat(c)
         IN  b \in CmdBeat /\ CmdTail(b) /\ ~CmdHead(b) /\ Framed(b) /\ b.id = c.id
<1>1. /\ TailBeat(c).wr /\ TailBeat(c).part = "tail" /\ TailBeat(c).id = c.id
      /\ TailBeat(c) \in CmdBeat
  <2>1. c.id \in Nat
    BY DEF Cmds
  <2>2. QED
    BY <2>1, QuietFacts DEF TailBeat, CmdBeat
<1>2. c.id \in {0, 1}
  BY DEF Cmds
<1>3. QED
  BY <1>1, <1>2 DEF CmdHead, CmdTail, Framed

LEMMA SetWrFacts ==
  ASSUME NEW b \in CmdBeat, NEW w \in BOOLEAN
  PROVE  LET d == [b EXCEPT !.wr = w]
         IN  /\ d \in CmdBeat /\ d.wr = w /\ d.part = b.part /\ d.op = b.op
             /\ d.dst = b.dst /\ d.src = b.src /\ d.reg = b.reg /\ d.val = b.val
             /\ d.id = b.id
  BY DEF CmdBeat

LEMMA ReplyFacts ==
  ASSUME NEW b \in CmdBeat, NEW v \in Int
  PROVE  LET d == Reply(b, v)
         IN  /\ d \in CmdBeat /\ d.wr = b.wr /\ d.part = b.part /\ d.op = "reply"
             /\ d.dst = b.src /\ d.src = b.dst /\ d.reg = b.reg /\ d.id = b.id
  BY DEF CmdBeat, Reply

LEMMA HeadOrTail ==
  ASSUME NEW b \in CmdBeat, Framed(b)
  PROVE  /\ b.wr <=> CmdHead(b) \/ CmdTail(b)
         /\ ~(CmdHead(b) /\ CmdTail(b))
         /\ b.wr \in BOOLEAN
  BY DEF CmdBeat, Framed, CmdHead, CmdTail
-----------------------------------------------------------------------------
(***************************************************************************)
(* A clock, part by part.  What the DMA engine offers is a second word, a  *)
(* first word, or nothing.                                                 *)
(***************************************************************************)
TailSent(in) ==
  /\ dmaTail # <<>> /\ dmaTail' = <<>> /\ queue' = queue
  /\ CmdTail(in) /\ in.id = dmaTail[1].id
HeadSent(in) ==
  /\ dmaTail = <<>> /\ dmaTail' = <<queue[1]>>
  /\ queue # <<>> /\ queue' = Tail(queue) /\ GOE!GoeReady
  /\ CmdHead(in) /\ in.op = queue[1].op /\ in.dst = queue[1].mid
  /\ in.reg = queue[1].reg /\ in.val = queue[1].val /\ in.id = queue[1].id
  /\ in.src = AntMid
NoneSent(in) ==
  /\ in = Quiet /\ dmaTail = <<>> /\ dmaTail' = dmaTail /\ queue' = queue

LEMMA Offered ==
  ASSUME Ranges, NEW in, DmaSends(in)
  PROVE  /\ in \in CmdBeat /\ Framed(in)
         /\ TailSent(in) \/ HeadSent(in) \/ NoneSent(in)
         /\ queue' \in Seq(Cmds) /\ dmaTail' \in Seq(Cmds) /\ Len(dmaTail') <= 1
<1>1. CASE dmaTail # <<>>
  <2>1. dmaTail[1] \in Cmds
    <3>1. dmaTail \in Seq(Cmds)
      BY DEF Ranges
    <3>2. QED
      BY <1>1, <3>1
  <2>2. in = TailBeat(dmaTail[1]) /\ dmaTail' = <<>> /\ queue' = queue
    BY <1>1 DEF DmaSends
  <2>3. in \in CmdBeat /\ Framed(in) /\ CmdTail(in) /\ in.id = dmaTail[1].id
    BY <2>1, <2>2, TailBeatFacts
  <2>4. QED
    <3>1. TailSent(in)
      BY <1>1, <2>2, <2>3 DEF TailSent
    <3>2. queue \in Seq(Cmds)
      BY DEF Ranges
    <3>3. <<>> \in Seq(Cmds) /\ Len(<<>>) <= 1
      OBVIOUS
    <3>4. QED
      BY <2>2, <2>3, <3>1, <3>2, <3>3
<1>2. CASE dmaTail = <<>> /\ queue # <<>> /\ GOE!GoeReady
  <2>1. queue[1] \in Cmds /\ Head(queue) = queue[1] /\ Tail(queue) \in Seq(Cmds)
    <3>1. queue \in Seq(Cmds)
      BY DEF Ranges
    <3>2. QED
      BY <1>2, <3>1
  <2>2. /\ in = HeadBeat(queue[1]) /\ dmaTail' = <<queue[1]>>
        /\ queue' = Tail(queue)
    BY <1>2, <2>1 DEF DmaSends
  <2>3. HeadSent(in) /\ in \in CmdBeat /\ Framed(in)
    <3>1. queue[1] \in Cmds
      BY <2>1
    <3> DEFINE b == HeadBeat(queue[1])
    <3>2. /\ b \in CmdBeat /\ CmdHead(b) /\ Framed(b)
          /\ b.op = queue[1].op /\ b.dst = queue[1].mid /\ b.src = AntMid
          /\ b.reg = queue[1].reg /\ b.val = queue[1].val /\ b.id = queue[1].id
      BY <3>1, HeadBeatFacts
    <3> HIDE DEF b
    <3>3. in = b
      BY <2>2 DEF b
    <3>4. QED
      BY <1>2, <2>2, <3>2, <3>3 DEF HeadSent
  <2>4. dmaTail' \in Seq(Cmds) /\ Len(dmaTail') <= 1
    BY <2>1, <2>2
  <2>5. QED
    BY <2>1, <2>2, <2>3, <2>4
<1>3. CASE dmaTail = <<>> /\ ~(queue # <<>> /\ GOE!GoeReady)
  BY <1>3, QuietFacts DEF DmaSends, NoneSent, Ranges
<1>4. QED
  BY <1>1, <1>2, <1>3

\* A first word that is offered is a write, or the read the caller waits for,
\* and then the last command there is.
LEMMA OfferedHead ==
  ASSUME Ranges, Queued, Sane, NEW in, HeadSent(in)
  PROVE  /\ SetHead(in, Blocks) \/ AskHead(in, Blocks \ {GoeMid})
         /\ in.op = "read" => Waiting /\ queue' = <<>>
         /\ in.reg = "lat_ram" => in.dst = ScmMid /\ in.op = "read"
         /\ in.op = "read" => in.reg # "n_rtt"
         /\ in.op = "read" <=> in.id = 1
         /\ in.op = "write" <=> in.id = 0
<1>1. \/ ToSet(in.op, in.dst, in.reg, in.id)
      \/ 1 = Len(queue) /\ Waiting /\ ToAsk(in.op, in.dst, in.reg, in.id)
  <2>1. 1 \in 1 .. Len(queue)
    <3>1. queue \in Seq(Cmds) /\ queue # <<>>
      BY DEF Ranges, HeadSent
    <3>2. QED
      BY <3>1
  <2>2. QED
    BY <2>1 DEF Queued, HeadSent
<1>2. CASE ToSet(in.op, in.dst, in.reg, in.id)
  <2>1. in.op = "write" /\ in.id = 0
    BY <1>2 DEF ToSet
  <2>2. PICK n \in Settable : in.dst = LibAnt[n].mid /\ in.reg = LibAnt[n].set
    BY <1>2 DEF ToSet
  <2>3. n \in DOMAIN LibAnt
    BY ChainAssumption DEF Settable
  <2>4. LibAnt[n].mid \in Blocks /\ LibAnt[n].set \in Registers \ {"lat_ram"}
    BY <2>3, Names
  <2>5. SetHead(in, Blocks)
    BY <1>2, <2>2, <2>4 DEF SetHead
  <2>6. QED
    BY <2>1, <2>2, <2>4, <2>5
<1>3. CASE 1 = Len(queue) /\ Waiting /\ ToAsk(in.op, in.dst, in.reg, in.id)
  <2>1. queue' = <<>>
    <3>1. queue \in Seq(Cmds) /\ queue # <<>> /\ queue' = Tail(queue)
      BY DEF Ranges, HeadSent
    <3>2. Tail(queue) \in Seq(Cmds) /\ Len(Tail(queue)) = 0
      BY <1>3, <3>1, HeadTailProperties
    <3>3. QED
      BY <3>1, <3>2
  <2>2. /\ in.op = "read" /\ in.id = 1 /\ call.name \in Getters
        /\ in.dst = LibAnt[call.name].mid /\ in.reg = LibAnt[call.name].get
    BY <1>3 DEF ToAsk
  <2>3. call.name \in DOMAIN LibAnt /\ call.name # "n_rtt" /\ call.name # "goe_count"
    BY <2>2, ChainAssumption DEF Sane
  <2>4. /\ in.dst \in Blocks \ {GoeMid} /\ in.reg # "n_rtt"
        /\ in.reg = "lat_ram" => in.dst = ScmMid
    BY <2>2, <2>3, Names
  <2>5. AskHead(in, Blocks \ {GoeMid})
    BY <1>3, <2>4 DEF AskHead, HeadSent
  <2>6. QED
    BY <1>3, <2>1, <2>2, <2>4, <2>5
<1>4. QED
  BY <1>1, <1>2, <1>3
-----------------------------------------------------------------------------
\* The blocks use the words of the chain.
LEMMA ScmWords ==
         /\ SCM!Quiet = Quiet
         /\ \A b : (SCM!CmdHead(b) <=> CmdHead(b)) /\ (SCM!CmdTail(b) <=> CmdTail(b))
         /\ \A b, v : SCM!Reply(b, v) = Reply(b, v)
         /\ \A v, k : SCM!Cut(v, k) = Cut(v, k)
         /\ SCM!ScmMid = ScmMid
         /\ SCM!AllOnes \in Int
  BY DEF SCM!Quiet, Quiet, SCM!CmdHead, CmdHead, SCM!CmdTail, CmdTail, SCM!Reply, Reply, SCM!Cut, Cut, SCM!AllOnes, AllOnes, SCM!ScmMid, ScmMid

LEMMA WrWords ==
         /\ PGM_WR!Quiet = Quiet
         /\ \A b : (PGM_WR!CmdHead(b) <=> CmdHead(b)) /\ (PGM_WR!CmdTail(b) <=> CmdTail(b))
         /\ \A b, v : PGM_WR!Reply(b, v) = Reply(b, v)
         /\ \A v, k : PGM_WR!Cut(v, k) = Cut(v, k)
         /\ PGM_WR!AllOnes \in Int
  BY DEF PGM_WR!Quiet, Quiet, PGM_WR!CmdHead, CmdHead, PGM_WR!CmdTail, CmdTail, PGM_WR!Reply, Reply, PGM_WR!Cut, Cut, PGM_WR!AllOnes, AllOnes

LEMMA RdWords ==
         /\ PGM_RD!Quiet = Quiet
         /\ \A b : (PGM_RD!CmdHead(b) <=> CmdHead(b)) /\ (PGM_RD!CmdTail(b) <=> CmdTail(b))
         /\ \A b, v : PGM_RD!Reply(b, v) = Reply(b, v)
         /\ \A v, k : PGM_RD!Cut(v, k) = Cut(v, k)
         /\ PGM_RD!AllOnes \in Int
  BY DEF PGM_RD!Quiet, Quiet, PGM_RD!CmdHead, CmdHead, PGM_RD!CmdTail, CmdTail, PGM_RD!Reply, Reply, PGM_RD!Cut, Cut, PGM_RD!AllOnes, AllOnes

LEMMA GoeWords ==
         /\ GOE!Quiet = Quiet
         /\ \A b : (GOE!CmdHead(b) <=> CmdHead(b)) /\ (GOE!CmdTail(b) <=> CmdTail(b))
         /\ \A b, v : GOE!Reply(b, v) = Reply(b, v)
         /\ GOE!GoeMid = GoeMid
  BY DEF GOE!Quiet, Quiet, GOE!CmdHead, CmdHead, GOE!CmdTail, CmdTail, GOE!Reply, Reply, GOE!GoeMid, GoeMid
-----------------------------------------------------------------------------
(***************************************************************************)
(* What scm does in a clock.                                               *)
(***************************************************************************)
ScmKeeps == scmRegs' = scmRegs
ScmStays == scmCtl = "IDLE" /\ scmCtl' = "IDLE" /\ scmSecond' = scmSecond

ScmSilent(in) ==
  ScmStays /\ ScmKeeps /\ NoneSent(in) /\ scmFlag' = scmFlag /\ ~scmCout'.wr
ScmSecondWord(in) ==
  /\ ScmStays /\ ScmKeeps /\ TailSent(in) /\ scmFlag' = FALSE
  /\ scmCout' = IF scmFlag THEN Quiet ELSE in
ScmTakes(in) ==
  /\ ScmStays /\ HeadSent(in) /\ in.dst = ScmMid /\ in.op = "write"
  /\ scmFlag' = TRUE /\ scmCout' = Quiet
  /\ scmRegs' = IF in.reg \in DOMAIN SCM!ScmBits
                THEN [scmRegs EXCEPT ![in.reg] = Cut(in.val, SCM!ScmBits[in.reg])]
                ELSE scmRegs
ScmAnswers(in) ==
  /\ ScmStays /\ ScmKeeps /\ HeadSent(in) /\ in.dst = ScmMid /\ in.op = "read"
  /\ scmFlag' = FALSE
  /\ CmdHead(scmCout') /\ scmCout'.op = "reply" /\ scmCout'.dst = AntMid
  /\ scmCout'.src = ScmMid /\ scmCout'.id = in.id
ScmForwards(in) ==
  /\ ScmStays /\ ScmKeeps /\ HeadSent(in) /\ in.dst # ScmMid
  /\ scmFlag' = FALSE /\ scmCout' = in
ScmAsks(in) ==
  /\ scmCtl = "IDLE" /\ scmCtl' = "WAIT" /\ scmSecond' = scmSecond /\ ScmKeeps
  /\ HeadSent(in) /\ in.dst = ScmMid /\ in.op = "read" /\ scmFlag' = scmFlag
  /\ scmCout' = [in EXCEPT !.wr = FALSE]
ScmWaits(in) ==
  /\ scmCtl = "WAIT" /\ scmCtl' = "RESP1" /\ scmSecond' = in /\ ScmKeeps
  /\ TailSent(in) /\ scmFlag' = scmFlag
  /\ scmCout' = [scmCout EXCEPT !.wr = FALSE]
ScmTells(in) ==
  /\ scmCtl = "RESP1" /\ scmCtl' = "RESP2" /\ scmSecond' = scmSecond /\ ScmKeeps
  /\ NoneSent(in) /\ scmFlag' = scmFlag
  /\ CmdHead(scmCout') /\ scmCout'.op = "reply" /\ scmCout'.dst = AntMid
  /\ scmCout'.src = ScmMid /\ scmCout'.id = scmCout.id
ScmTellsOn(in) ==
  /\ scmCtl = "RESP2" /\ scmCtl' = "IDLE" /\ scmSecond' = scmSecond /\ ScmKeeps
  /\ NoneSent(in) /\ scmFlag' = scmFlag
  /\ CmdTail(scmCout') /\ scmCout'.id = scmSecond.id

ScmOutcome(in) ==
  \/ ScmSilent(in) \/ ScmSecondWord(in) \/ ScmTakes(in) \/ ScmAnswers(in)
  \/ ScmForwards(in) \/ ScmAsks(in) \/ ScmWaits(in) \/ ScmTells(in)
  \/ ScmTellsOn(in)

ScmTypes ==
  /\ scmRegs \in [DOMAIN SCM!ScmBits -> Int] /\ scmFlag \in BOOLEAN
  /\ scmSecond \in CmdBeat /\ scmCout \in CmdBeat

\* The first words, and only they, are not second words.
LEMMA Apart ==
  ASSUME NEW in \in CmdBeat
  PROVE  /\ TailSent(in) => CmdTail(in) /\ ~CmdHead(in)
         /\ HeadSent(in) => CmdHead(in) /\ ~CmdTail(in)
         /\ NoneSent(in) => ~CmdHead(in) /\ ~CmdTail(in)
  BY QuietFacts DEF TailSent, HeadSent, NoneSent, CmdHead, CmdTail

LEMMA ScmDoes ==
  ASSUME Ranges, Queued, ScmHolds, Sane, NEW in, DmaSends(in),
         SCM!ScmCtlClock(in, GOE!GoeReady)
  PROVE  ScmOutcome(in) /\ ScmTypes'
<1>1. /\ in \in CmdBeat /\ Framed(in)
      /\ TailSent(in) \/ HeadSent(in) \/ NoneSent(in)
  BY Offered
<1>2. ScmTypes
  BY DEF Ranges, ScmTypes
<1>3. HeadSent(in) =>
        /\ in.reg = "lat_ram" => in.dst = ScmMid /\ in.op = "read"
        /\ in.op = "read" => in.reg # "n_rtt"
        /\ in.op \in {"read", "write"}
        /\ in.src = AntMid /\ GOE!GoeReady
  BY OfferedHead DEF HeadSent, SetHead, AskHead, ToSet, ToAsk
<1>4. /\ TailSent(in) => CmdTail(in) /\ ~CmdHead(in)
      /\ HeadSent(in) => CmdHead(in) /\ ~CmdTail(in)
      /\ NoneSent(in) => ~CmdHead(in) /\ ~CmdTail(in)
  BY <1>1, Apart
<1>5. CASE scmCtl = "IDLE" /\ SCM!ScmAskRam(in)
  <2>1. HeadSent(in) /\ in.reg = "lat_ram"
    BY <1>1, <1>4, <1>5, ScmWords DEF SCM!ScmAskRam, SCM!RamRead
  <2>2. ScmAsks(in)
    BY <1>3, <1>5, <2>1 DEF SCM!ScmAskRam, ScmAsks, ScmKeeps
  <2>3. ScmTypes'
    BY <1>1, <1>2, <1>5, SetWrFacts DEF SCM!ScmAskRam, ScmTypes
  <2>4. QED
    BY <2>2, <2>3 DEF ScmOutcome
<1>6. CASE scmCtl = "IDLE" /\ SCM!ScmWrite(in)
  <2>1. HeadSent(in) /\ in.dst = ScmMid /\ in.op = "write"
    BY <1>1, <1>4, <1>6, ScmWords DEF SCM!ScmWrite, SCM!Own, SCM!RegHead
  <2>2. /\ scmFlag' = TRUE /\ scmCout' = Quiet /\ scmCtl' = scmCtl /\ scmSecond' = scmSecond
        /\ scmRegs' = IF in.reg \in DOMAIN SCM!ScmBits
                THEN [scmRegs EXCEPT ![in.reg] = Cut(in.val, SCM!ScmBits[in.reg])]
                ELSE scmRegs
    BY <1>6, ScmWords DEF SCM!ScmWrite
  <2>3. in.reg \in DOMAIN SCM!ScmBits => Cut(in.val, SCM!ScmBits[in.reg]) \in Int
    <3>1. in.val \in Int
      BY <1>1 DEF CmdBeat
    <3>2. in.reg \in DOMAIN SCM!ScmBits => SCM!ScmBits[in.reg] \in {1, 8, 32}
      BY DEF SCM!ScmBits
    <3>3. QED
      BY <3>1, <3>2, CutIsInt
  <2>4. ScmTypes'
    <3>1. scmRegs' \in [DOMAIN SCM!ScmBits -> Int]
      BY <1>2, <2>2, <2>3 DEF ScmTypes
    <3>2. QED
      BY <1>2, <2>2, <3>1, QuietFacts DEF ScmTypes
  <2>5. ScmTakes(in)
    BY <1>6, <2>1, <2>2 DEF ScmTakes, ScmStays
  <2>6. QED
    BY <2>4, <2>5 DEF ScmOutcome
<1>7. CASE scmCtl = "IDLE" /\ SCM!ScmRead(in)
  <2>1. HeadSent(in) /\ in.dst = ScmMid /\ in.op = "read"
    BY <1>1, <1>4, <1>7, ScmWords DEF SCM!ScmRead, SCM!Own, SCM!RegHead
  <2> DEFINE v == IF in.reg \in SCM!ScmReadable THEN scmRegs[in.reg] ELSE SCM!AllOnes
  <2>2. /\ scmFlag' = FALSE /\ scmCout' = Reply(in, v)
        /\ scmCtl' = scmCtl /\ scmSecond' = scmSecond /\ scmRegs' = scmRegs
    BY <1>3, <1>7, <2>1, ScmWords DEF SCM!ScmRead
  <2>3. v \in Int
    BY <1>2, ScmWords DEF ScmTypes, SCM!ScmReadable, SCM!ScmBits
  <2> HIDE DEF v
  <2>4. /\ scmCout' \in CmdBeat /\ scmCout'.wr = in.wr /\ scmCout'.part = in.part
        /\ scmCout'.op = "reply" /\ scmCout'.dst = AntMid /\ scmCout'.src = ScmMid
        /\ scmCout'.id = in.id
    BY <1>1, <1>3, <2>1, <2>2, <2>3, ReplyFacts
  <2>5. CmdHead(scmCout')
    BY <1>4, <2>1, <2>4 DEF CmdHead
  <2>6. ScmAnswers(in)
    BY <1>7, <2>1, <2>2, <2>4, <2>5 DEF ScmAnswers, ScmStays, ScmKeeps
  <2>7. ScmTypes'
    BY <1>2, <2>2, <2>4 DEF ScmTypes
  <2>8. QED
    BY <2>6, <2>7 DEF ScmOutcome
<1>8. CASE scmCtl = "IDLE" /\ SCM!ScmPass(in, GOE!GoeReady)
  <2>1. HeadSent(in)
    BY <1>1, <1>4, <1>8, ScmWords DEF SCM!ScmPass, SCM!RegHead
  <2>2. in.dst # ScmMid
    BY <1>3, <1>4, <1>8, <2>1, ScmWords DEF SCM!ScmPass, SCM!Own, SCM!RegHead
  <2>3. /\ scmFlag' = FALSE /\ scmCout' = in
        /\ scmCtl' = scmCtl /\ scmSecond' = scmSecond /\ scmRegs' = scmRegs
    BY <1>3, <1>8, <2>1 DEF SCM!ScmPass
  <2>4. ScmForwards(in)
    BY <1>8, <2>1, <2>2, <2>3 DEF ScmForwards, ScmStays, ScmKeeps
  <2>5. QED
    BY <1>1, <1>2, <2>3, <2>4 DEF ScmOutcome, ScmTypes
<1>9. CASE scmCtl = "IDLE" /\ SCM!ScmTail(in)
  <2>1. TailSent(in)
    BY <1>1, <1>4, <1>9, ScmWords DEF SCM!ScmTail
  <2>2. ScmSecondWord(in)
    BY <1>9, <2>1, ScmWords DEF SCM!ScmTail, ScmSecondWord, ScmStays, ScmKeeps
  <2>3. ScmTypes'
    BY <1>1, <1>2, <1>9, ScmWords, QuietFacts DEF SCM!ScmTail, ScmTypes
  <2>4. QED
    BY <2>2, <2>3 DEF ScmOutcome
<1>10. CASE scmCtl = "IDLE" /\ SCM!ScmQuiet(in)
  <2>1. NoneSent(in)
    BY <1>1, <1>3, <1>4, <1>10, ScmWords DEF SCM!ScmQuiet, SCM!RamRead, SCM!RegHead
  <2>2. scmCout' \in CmdBeat /\ scmCout'.wr = FALSE
    BY <1>1, <1>10, SetWrFacts DEF SCM!ScmQuiet
  <2>3. ScmSilent(in)
    BY <1>10, <2>1, <2>2 DEF SCM!ScmQuiet, ScmSilent, ScmStays, ScmKeeps
  <2>4. ScmTypes'
    BY <1>2, <1>10, <2>2 DEF SCM!ScmQuiet, ScmTypes
  <2>5. QED
    BY <2>3, <2>4 DEF ScmOutcome
<1>11. CASE scmCtl = "WAIT" /\ SCM!ScmWaitRam(in)
  <2>1. TailSent(in)
    BY <1>1, <1>11 DEF ScmHolds, HeadSent, NoneSent
  <2>2. ScmWaits(in)
    BY <1>11, <2>1 DEF SCM!ScmWaitRam, ScmWaits, ScmKeeps
  <2>3. ScmTypes'
    BY <1>1, <1>2, <1>11, SetWrFacts DEF SCM!ScmWaitRam, ScmTypes
  <2>4. QED
    BY <2>2, <2>3 DEF ScmOutcome
<1>12. CASE scmCtl = "RESP1" /\ SCM!ScmRespond1
  <2>1. NoneSent(in)
    BY <1>1, <1>12 DEF ScmHolds, HeadSent, TailSent
  <2>2. AskHead(scmCout, {ScmMid}) /\ scmCout.part = "head" /\ scmCout \in CmdBeat
    BY <1>2, <1>12 DEF ScmHolds, ScmTypes
  <2>3. scmCout.dst = ScmMid /\ scmCout.src = AntMid
    BY <2>2 DEF AskHead
  <2>4. Latency \in Int
    BY ChainAssumption
  <2> DEFINE r == Reply(scmCout, Latency)
  <2>5. /\ r \in CmdBeat /\ r.part = "head" /\ r.op = "reply" /\ r.dst = AntMid
        /\ r.src = ScmMid /\ r.id = scmCout.id
    BY <2>2, <2>3, <2>4, ReplyFacts
  <2>6. /\ scmCout' = [r EXCEPT !.wr = TRUE] /\ scmCtl' = "RESP2"
        /\ scmRegs' = scmRegs /\ scmFlag' = scmFlag /\ scmSecond' = scmSecond
    BY <1>12, ScmWords DEF SCM!ScmRespond1
  <2> HIDE DEF r
  <2>7. /\ scmCout' \in CmdBeat /\ scmCout'.wr = TRUE /\ scmCout'.part = "head"
        /\ scmCout'.op = "reply" /\ scmCout'.dst = AntMid /\ scmCout'.src = ScmMid
        /\ scmCout'.id = scmCout.id
    BY <2>5, <2>6, SetWrFacts
  <2>8. ScmTells(in)
    BY <1>12, <2>1, <2>6, <2>7 DEF ScmTells, CmdHead, ScmKeeps
  <2>9. QED
    BY <1>2, <2>6, <2>7, <2>8 DEF ScmOutcome, ScmTypes
<1>13. CASE scmCtl = "RESP2" /\ SCM!ScmRespond2
  <2>1. NoneSent(in)
    BY <1>1, <1>13 DEF ScmHolds, HeadSent, TailSent
  <2>2. CmdTail(scmSecond) /\ scmSecond \in CmdBeat
    BY <1>2, <1>13 DEF ScmHolds, ScmTypes
  <2>3. /\ scmCout' \in CmdBeat /\ scmCout'.wr = TRUE
        /\ scmCout'.part = scmSecond.part /\ scmCout'.id = scmSecond.id
    BY <1>13, <2>2, SetWrFacts DEF SCM!ScmRespond2
  <2>4. ScmTellsOn(in)
    BY <1>13, <2>1, <2>2, <2>3 DEF SCM!ScmRespond2, ScmTellsOn, CmdTail, ScmKeeps
  <2>5. QED
    BY <1>2, <1>13, <2>3, <2>4 DEF SCM!ScmRespond2, ScmOutcome, ScmTypes
<1>14. QED
  BY <1>5, <1>6, <1>7, <1>8, <1>9, <1>10, <1>11, <1>12, <1>13 DEF SCM!ScmCtlClock
-----------------------------------------------------------------------------
\* What the invariant asks of scm after its clock; call stays as it is.
ScmWire(in) ==
  /\ Framed(scmCout') /\ Known(scmCout', AfterScm)
  /\ CmdTail(scmCout') <=> CmdHead(scmCout)
  /\ CmdHead(scmCout) => scmCout'.id = scmCout.id
  /\ HeadSent(in) /\ in.dst # ScmMid => scmCout' = in
  /\ CmdHead(scmCout') /\ scmCout'.op = "write" =>
       HeadSent(in) /\ in.dst # ScmMid /\ scmCout' = in
ScmAlone ==
  /\ dmaTail' # <<>> /\ dmaTail'[1].id = 1 => Waiting /\ Behind1'
  /\ LastWord(scmCout') => Waiting /\ Behind2'
  /\ Behind2 => Behind3'
ScmRoom(in) == One(scmCout') + Held' <= One(in) + Held

ScmBefore == Ranges /\ Queued /\ Wires /\ ScmPairs /\ ScmHolds /\ Alone /\ Sane

LEMMA ScmPlaces ==
  ASSUME ScmBefore, NEW in, in \in CmdBeat, Framed(in), ScmOutcome(in), ScmTypes',
         call' = call
  PROVE  ScmWire(in) /\ ScmAlone /\ ScmRoom(in) /\ ScmPairs' /\ ScmHolds'
<1> USE DEF ScmBefore
<1>1. /\ scmCout \in CmdBeat /\ scmCout' \in CmdBeat /\ Framed(scmCout)
      /\ scmSecond \in CmdBeat /\ scmSecond' \in CmdBeat
      /\ scmFlag \in BOOLEAN /\ scmFlag' \in BOOLEAN
  BY DEF Ranges, ScmTypes, Wires
<1>2. /\ TailSent(in) => CmdTail(in) /\ ~CmdHead(in)
      /\ HeadSent(in) => CmdHead(in) /\ ~CmdTail(in)
      /\ NoneSent(in) => ~CmdHead(in) /\ ~CmdTail(in)
  BY Apart
<1>3. /\ scmCout.wr <=> CmdHead(scmCout) \/ CmdTail(scmCout)
      /\ ~(CmdHead(scmCout) /\ CmdTail(scmCout))
      /\ in.wr <=> CmdHead(in) \/ CmdTail(in)
      /\ \A b : CmdHead(b) \/ CmdTail(b) => b.wr
      /\ \A b : ~(CmdHead(b) /\ CmdTail(b))
  BY <1>1, HeadOrTail DEF CmdHead, CmdTail
<1>4. HeadSent(in) =>
        /\ SetHead(in, Blocks) \/ AskHead(in, Blocks \ {GoeMid})
        /\ in.op = "read" => Waiting /\ queue' = <<>>
        /\ in.op = "read" <=> in.id = 1
        /\ in.op = "write" <=> in.id = 0
        /\ in.dst # ScmMid => SetHead(in, AfterScm) \/ AskHead(in, AfterScm)
        /\ in.op = "read" =>
             /\ Waiting /\ ToAsk(in.op, in.dst, in.reg, in.id)
             /\ LibAnt[call.name].mid = in.dst /\ in.src = AntMid
  <2>1. HeadSent(in) =>
        /\ SetHead(in, Blocks) \/ AskHead(in, Blocks \ {GoeMid})
        /\ in.op = "read" => Waiting /\ queue' = <<>>
        /\ in.op = "read" <=> in.id = 1
        /\ in.op = "write" <=> in.id = 0
    BY OfferedHead
  <2>2. Blocks \ {ScmMid} = AfterScm
    BY Mids DEF Blocks, AfterScm
  <2>3. HeadSent(in) /\ in.dst # ScmMid => SetHead(in, AfterScm) \/ AskHead(in, AfterScm)
    BY <2>1, <2>2 DEF SetHead, AskHead
  <2>4. HeadSent(in) /\ in.op = "read" =>
             /\ Waiting /\ ToAsk(in.op, in.dst, in.reg, in.id)
             /\ LibAnt[call.name].mid = in.dst /\ in.src = AntMid
    BY <2>1 DEF SetHead, AskHead, ToSet, ToAsk
  <2>5. QED
    BY <2>1, <2>3, <2>4
<1>5. Waiting' = Waiting
  BY DEF Waiting
<1>6. /\ ~Quiet.wr /\ Framed(Quiet) /\ ~CmdHead(Quiet) /\ ~CmdTail(Quiet)
  BY QuietFacts
<1>7. CASE ScmSilent(in)
  <2>1. ScmWire(in)
    <3>1. Framed(scmCout')
      BY <1>1, <1>2, <1>3, <1>4, <1>6, <1>7 DEF ScmSilent, ScmStays, NoneSent, Framed, CmdHead, CmdTail
    <3>2. Known(scmCout', AfterScm)
      BY <1>1, <1>2, <1>3, <1>4, <1>6, <1>7 DEF ScmSilent, ScmStays, NoneSent, Known
    <3>3. CmdTail(scmCout') <=> CmdHead(scmCout)
      BY <1>1, <1>2, <1>3, <1>4, <1>6, <1>7 DEF ScmSilent, ScmStays, NoneSent, ScmPairs, ScmHolds
    <3>4. CmdHead(scmCout) => scmCout'.id = scmCout.id
      BY <1>1, <1>2, <1>3, <1>4, <1>6, <1>7 DEF ScmSilent, ScmStays, NoneSent, ScmPairs, ScmHolds
    <3>5. /\ HeadSent(in) /\ in.dst # ScmMid => scmCout' = in
          /\ CmdHead(scmCout') /\ scmCout'.op = "write" =>
               HeadSent(in) /\ in.dst # ScmMid /\ scmCout' = in
      BY <1>2, <1>3, <1>6, <1>7 DEF ScmSilent, ScmStays, NoneSent
    <3>6. QED
      BY <3>1, <3>2, <3>3, <3>4, <3>5 DEF ScmWire
  <2>2. ScmAlone
    BY <1>1, <1>2, <1>3, <1>4, <1>6, <1>7
       DEF ScmSilent, ScmStays, NoneSent, ScmAlone, Alone, Behind1, Behind2, Behind3, LastWord, ScmHolds
  <2>3. ScmRoom(in)
    BY <1>1, <1>2, <1>3, <1>6, <1>7 DEF ScmSilent, ScmStays, NoneSent, ScmRoom, One, Held
  <2>4. ScmPairs'
    BY <1>1, <1>2, <1>3, <1>4, <1>6, <1>7 DEF ScmSilent, ScmStays, NoneSent, ScmPairs
  <2>5. ScmHolds'
    BY <1>1, <1>2, <1>3, <1>4, <1>5, <1>6, <1>7 DEF ScmSilent, ScmStays, NoneSent, ScmHolds
  <2> QED
    BY <2>1, <2>2, <2>3, <2>4, <2>5
<1>8. CASE ScmSecondWord(in)
  <2>1. ScmWire(in)
    <3>1. Framed(scmCout')
      BY <1>1, <1>2, <1>3, <1>4, <1>6, <1>8 DEF ScmSecondWord, ScmStays, TailSent, Framed, CmdHead, CmdTail
    <3>2. Known(scmCout', AfterScm)
      BY <1>1, <1>2, <1>3, <1>4, <1>6, <1>8 DEF ScmSecondWord, ScmStays, TailSent, Known
    <3>3. CmdTail(scmCout') <=> CmdHead(scmCout)
      BY <1>1, <1>2, <1>3, <1>4, <1>6, <1>8 DEF ScmSecondWord, ScmStays, TailSent, ScmPairs, ScmHolds
    <3>4. CmdHead(scmCout) => scmCout'.id = scmCout.id
      BY <1>1, <1>2, <1>3, <1>4, <1>6, <1>8 DEF ScmSecondWord, ScmStays, TailSent, ScmPairs, ScmHolds
    <3>5. /\ HeadSent(in) /\ in.dst # ScmMid => scmCout' = in
          /\ CmdHead(scmCout') /\ scmCout'.op = "write" =>
               HeadSent(in) /\ in.dst # ScmMid /\ scmCout' = in
      BY <1>2, <1>3, <1>6, <1>8 DEF ScmSecondWord, ScmStays, TailSent
    <3>6. QED
      BY <3>1, <3>2, <3>3, <3>4, <3>5 DEF ScmWire
  <2>2. ScmAlone
    BY <1>1, <1>2, <1>3, <1>4, <1>6, <1>8
       DEF ScmSecondWord, ScmStays, TailSent, ScmAlone, Alone, Behind1, Behind2, Behind3, LastWord, ScmHolds
  <2>3. ScmRoom(in)
    BY <1>1, <1>2, <1>3, <1>6, <1>8 DEF ScmSecondWord, ScmStays, TailSent, ScmRoom, One, Held
  <2>4. ScmPairs'
    BY <1>1, <1>2, <1>3, <1>4, <1>6, <1>8 DEF ScmSecondWord, ScmStays, TailSent, ScmPairs
  <2>5. ScmHolds'
    BY <1>1, <1>2, <1>3, <1>4, <1>5, <1>6, <1>8 DEF ScmSecondWord, ScmStays, TailSent, ScmHolds
  <2> QED
    BY <2>1, <2>2, <2>3, <2>4, <2>5
<1>9. CASE ScmTakes(in)
  <2>1. ScmWire(in)
    <3>1. Framed(scmCout')
      BY <1>1, <1>2, <1>3, <1>4, <1>6, <1>9 DEF ScmTakes, ScmStays, HeadSent, Framed, CmdHead, CmdTail
    <3>2. Known(scmCout', AfterScm)
      BY <1>1, <1>2, <1>3, <1>4, <1>6, <1>9 DEF ScmTakes, ScmStays, HeadSent, Known
    <3>3. CmdTail(scmCout') <=> CmdHead(scmCout)
      BY <1>1, <1>2, <1>3, <1>4, <1>6, <1>9 DEF ScmTakes, ScmStays, HeadSent, ScmPairs, ScmHolds
    <3>4. CmdHead(scmCout) => scmCout'.id = scmCout.id
      BY <1>1, <1>2, <1>3, <1>4, <1>6, <1>9 DEF ScmTakes, ScmStays, HeadSent, ScmPairs, ScmHolds
    <3>5. /\ HeadSent(in) /\ in.dst # ScmMid => scmCout' = in
          /\ CmdHead(scmCout') /\ scmCout'.op = "write" =>
               HeadSent(in) /\ in.dst # ScmMid /\ scmCout' = in
      BY <1>2, <1>3, <1>6, <1>9 DEF ScmTakes, ScmStays, HeadSent
    <3>6. QED
      BY <3>1, <3>2, <3>3, <3>4, <3>5 DEF ScmWire
  <2>2. ScmAlone
    BY <1>1, <1>2, <1>3, <1>4, <1>6, <1>9
       DEF ScmTakes, ScmStays, HeadSent, ScmAlone, Alone, Behind1, Behind2, Behind3, LastWord, ScmHolds
  <2>3. ScmRoom(in)
    BY <1>1, <1>2, <1>3, <1>6, <1>9 DEF ScmTakes, ScmStays, HeadSent, ScmRoom, One, Held
  <2>4. ScmPairs'
    BY <1>1, <1>2, <1>3, <1>4, <1>6, <1>9 DEF ScmTakes, ScmStays, HeadSent, ScmPairs
  <2>5. ScmHolds'
    BY <1>1, <1>2, <1>3, <1>4, <1>5, <1>6, <1>9 DEF ScmTakes, ScmStays, HeadSent, ScmHolds
  <2> QED
    BY <2>1, <2>2, <2>3, <2>4, <2>5
<1>10. CASE ScmAnswers(in)
  <2>0. AnswerHead(scmCout') /\ scmCout'.id = 1 /\ Waiting
    BY <1>4, <1>10 DEF ScmAnswers, AnswerHead
  <2>1. ScmWire(in)
    <3>1. Framed(scmCout')
      BY <1>1, <1>2, <1>3, <1>4, <1>6, <2>0, <1>10 DEF ScmAnswers, ScmStays, HeadSent, Framed, CmdHead, CmdTail
    <3>2. Known(scmCout', AfterScm)
      BY <1>1, <1>2, <1>3, <1>4, <1>6, <2>0, <1>10 DEF ScmAnswers, ScmStays, HeadSent, Known
    <3>3. CmdTail(scmCout') <=> CmdHead(scmCout)
      BY <1>1, <1>2, <1>3, <1>4, <1>6, <2>0, <1>10 DEF ScmAnswers, ScmStays, HeadSent, ScmPairs, ScmHolds
    <3>4. CmdHead(scmCout) => scmCout'.id = scmCout.id
      BY <1>1, <1>2, <1>3, <1>4, <1>6, <2>0, <1>10 DEF ScmAnswers, ScmStays, HeadSent, ScmPairs, ScmHolds
    <3>5. /\ HeadSent(in) /\ in.dst # ScmMid => scmCout' = in
          /\ CmdHead(scmCout') /\ scmCout'.op = "write" =>
               HeadSent(in) /\ in.dst # ScmMid /\ scmCout' = in
      BY <1>2, <1>3, <1>6, <2>0, <1>10 DEF ScmAnswers, ScmStays, HeadSent
    <3>6. QED
      BY <3>1, <3>2, <3>3, <3>4, <3>5 DEF ScmWire
  <2>2. ScmAlone
    BY <1>1, <1>2, <1>3, <1>4, <1>6, <2>0, <1>10
       DEF ScmAnswers, ScmStays, HeadSent, ScmAlone, Alone, Behind1, Behind2, Behind3, LastWord, ScmHolds
  <2>3. ScmRoom(in)
    BY <1>1, <1>2, <1>3, <1>6, <2>0, <1>10 DEF ScmAnswers, ScmStays, HeadSent, ScmRoom, One, Held
  <2>4. ScmPairs'
    BY <1>1, <1>2, <1>3, <1>4, <1>6, <2>0, <1>10 DEF ScmAnswers, ScmStays, HeadSent, ScmPairs
  <2>5. ScmHolds'
    BY <1>1, <1>2, <1>3, <1>4, <1>5, <1>6, <2>0, <1>10 DEF ScmAnswers, ScmStays, HeadSent, ScmHolds
  <2> QED
    BY <2>1, <2>2, <2>3, <2>4, <2>5
<1>11. CASE ScmForwards(in)
  <2>0. SetHead(scmCout', AfterScm) \/ AskHead(scmCout', AfterScm)
    BY <1>4, <1>11 DEF ScmForwards
  <2>1. ScmWire(in)
    <3>1. Framed(scmCout')
      BY <1>1, <1>2, <1>3, <1>4, <1>6, <2>0, <1>11 DEF ScmForwards, ScmStays, HeadSent, Framed, CmdHead, CmdTail
    <3>2. Known(scmCout', AfterScm)
      BY <1>1, <1>2, <1>3, <1>4, <1>6, <2>0, <1>11 DEF ScmForwards, ScmStays, HeadSent, Known
    <3>3. CmdTail(scmCout') <=> CmdHead(scmCout)
      BY <1>1, <1>2, <1>3, <1>4, <1>6, <2>0, <1>11 DEF ScmForwards, ScmStays, HeadSent, ScmPairs, ScmHolds
    <3>4. CmdHead(scmCout) => scmCout'.id = scmCout.id
      BY <1>1, <1>2, <1>3, <1>4, <1>6, <2>0, <1>11 DEF ScmForwards, ScmStays, HeadSent, ScmPairs, ScmHolds
    <3>5. /\ HeadSent(in) /\ in.dst # ScmMid => scmCout' = in
          /\ CmdHead(scmCout') /\ scmCout'.op = "write" =>
               HeadSent(in) /\ in.dst # ScmMid /\ scmCout' = in
      BY <1>2, <1>3, <1>6, <2>0, <1>11 DEF ScmForwards, ScmStays, HeadSent
    <3>6. QED
      BY <3>1, <3>2, <3>3, <3>4, <3>5 DEF ScmWire
  <2>2. ScmAlone
    BY <1>1, <1>2, <1>3, <1>4, <1>6, <2>0, <1>11
       DEF ScmForwards, ScmStays, HeadSent, ScmAlone, Alone, Behind1, Behind2, Behind3, LastWord, ScmHolds
  <2>3. ScmRoom(in)
    BY <1>1, <1>2, <1>3, <1>6, <2>0, <1>11 DEF ScmForwards, ScmStays, HeadSent, ScmRoom, One, Held
  <2>4. ScmPairs'
    BY <1>1, <1>2, <1>3, <1>4, <1>6, <2>0, <1>11 DEF ScmForwards, ScmStays, HeadSent, ScmPairs
  <2>5. ScmHolds'
    BY <1>1, <1>2, <1>3, <1>4, <1>5, <1>6, <2>0, <1>11 DEF ScmForwards, ScmStays, HeadSent, ScmHolds
  <2> QED
    BY <2>1, <2>2, <2>3, <2>4, <2>5
<1>12. CASE ScmAsks(in)
  <2>0. /\ ~scmCout'.wr /\ scmCout'.part = "head" /\ AskHead(scmCout, {ScmMid})'
        /\ in.op = "read" /\ in.id = 1 /\ Waiting /\ queue' = <<>>
        /\ ~CmdHead(scmCout') /\ ~CmdTail(scmCout')
    <3>1. /\ ~scmCout'.wr /\ scmCout'.part = in.part /\ scmCout'.op = in.op
          /\ scmCout'.dst = in.dst /\ scmCout'.src = in.src /\ scmCout'.reg = in.reg
          /\ scmCout'.id = in.id
      BY <1>12, SetWrFacts DEF ScmAsks
    <3>2. in.op = "read" /\ in.id = 1 /\ Waiting /\ queue' = <<>> /\ in.part = "head"
      BY <1>2, <1>4, <1>12 DEF ScmAsks, CmdHead
    <3>3. AskHead(scmCout, {ScmMid})'
      BY <1>4, <1>12, <3>1, <3>2 DEF ScmAsks, AskHead, ToAsk, Waiting
    <3>4. QED
      BY <3>1, <3>2, <3>3 DEF CmdHead, CmdTail
  <2>1. ScmWire(in)
    <3>1. Framed(scmCout')
      BY <1>1, <1>2, <1>3, <1>4, <1>6, <2>0, <1>12 DEF ScmAsks, HeadSent, Framed, CmdHead, CmdTail
    <3>2. Known(scmCout', AfterScm)
      BY <1>1, <1>2, <1>3, <1>4, <1>6, <2>0, <1>12 DEF ScmAsks, HeadSent, Known
    <3>3. CmdTail(scmCout') <=> CmdHead(scmCout)
      BY <1>1, <1>2, <1>3, <1>4, <1>6, <2>0, <1>12 DEF ScmAsks, HeadSent, ScmPairs, ScmHolds
    <3>4. CmdHead(scmCout) => scmCout'.id = scmCout.id
      BY <1>1, <1>2, <1>3, <1>4, <1>6, <2>0, <1>12 DEF ScmAsks, HeadSent, ScmPairs, ScmHolds
    <3>5. /\ HeadSent(in) /\ in.dst # ScmMid => scmCout' = in
          /\ CmdHead(scmCout') /\ scmCout'.op = "write" =>
               HeadSent(in) /\ in.dst # ScmMid /\ scmCout' = in
      BY <1>2, <1>3, <1>6, <2>0, <1>12 DEF ScmAsks, HeadSent
    <3>6. QED
      BY <3>1, <3>2, <3>3, <3>4, <3>5 DEF ScmWire
  <2>2. ScmAlone
    BY <1>1, <1>2, <1>3, <1>4, <1>6, <2>0, <1>12
       DEF ScmAsks, HeadSent, ScmAlone, Alone, Behind1, Behind2, Behind3, LastWord, ScmHolds
  <2>3. ScmRoom(in)
    BY <1>1, <1>2, <1>3, <1>6, <2>0, <1>12 DEF ScmAsks, HeadSent, ScmRoom, One, Held
  <2>4. ScmPairs'
    BY <1>1, <1>2, <1>3, <1>4, <1>6, <2>0, <1>12 DEF ScmAsks, HeadSent, ScmPairs
  <2>5. ScmHolds'
    BY <1>1, <1>2, <1>3, <1>4, <1>5, <1>6, <2>0, <1>12 DEF ScmAsks, HeadSent, ScmHolds
  <2> QED
    BY <2>1, <2>2, <2>3, <2>4, <2>5
<1>13. CASE ScmWaits(in)
  <2>0. /\ ~scmCout'.wr /\ scmCout'.part = "head" /\ AskHead(scmCout, {ScmMid})'
        /\ ~CmdHead(scmCout') /\ ~CmdTail(scmCout')
    <3>1. /\ ~scmCout'.wr /\ scmCout'.part = scmCout.part /\ scmCout'.op = scmCout.op
          /\ scmCout'.dst = scmCout.dst /\ scmCout'.src = scmCout.src
          /\ scmCout'.reg = scmCout.reg /\ scmCout'.id = scmCout.id
      BY <1>1, <1>13, SetWrFacts DEF ScmWaits
    <3>2. AskHead(scmCout, {ScmMid}) /\ scmCout.part = "head"
      BY <1>13 DEF ScmWaits, ScmHolds
    <3>3. AskHead(scmCout, {ScmMid})'
      BY <3>1, <3>2 DEF AskHead, ToAsk, Waiting
    <3>4. QED
      BY <3>1, <3>2, <3>3 DEF CmdHead, CmdTail
  <2>1. ScmWire(in)
    <3>1. Framed(scmCout')
      BY <1>1, <1>2, <1>3, <1>4, <1>6, <2>0, <1>13 DEF ScmWaits, TailSent, Framed, CmdHead, CmdTail
    <3>2. Known(scmCout', AfterScm)
      BY <1>1, <1>2, <1>3, <1>4, <1>6, <2>0, <1>13 DEF ScmWaits, TailSent, Known
    <3>3. CmdTail(scmCout') <=> CmdHead(scmCout)
      BY <1>1, <1>2, <1>3, <1>4, <1>6, <2>0, <1>13 DEF ScmWaits, TailSent, ScmPairs, ScmHolds
    <3>4. CmdHead(scmCout) => scmCout'.id = scmCout.id
      BY <1>1, <1>2, <1>3, <1>4, <1>6, <2>0, <1>13 DEF ScmWaits, TailSent, ScmPairs, ScmHolds
    <3>5. /\ HeadSent(in) /\ in.dst # ScmMid => scmCout' = in
          /\ CmdHead(scmCout') /\ scmCout'.op = "write" =>
               HeadSent(in) /\ in.dst # ScmMid /\ scmCout' = in
      BY <1>2, <1>3, <1>6, <2>0, <1>13 DEF ScmWaits, TailSent
    <3>6. QED
      BY <3>1, <3>2, <3>3, <3>4, <3>5 DEF ScmWire
  <2>2. ScmAlone
    BY <1>1, <1>2, <1>3, <1>4, <1>6, <2>0, <1>13
       DEF ScmWaits, TailSent, ScmAlone, Alone, Behind1, Behind2, Behind3, LastWord, ScmHolds
  <2>3. ScmRoom(in)
    BY <1>1, <1>2, <1>3, <1>6, <2>0, <1>13 DEF ScmWaits, TailSent, ScmRoom, One, Held
  <2>4. ScmPairs'
    BY <1>1, <1>2, <1>3, <1>4, <1>6, <2>0, <1>13 DEF ScmWaits, TailSent, ScmPairs
  <2>5. ScmHolds'
    BY <1>1, <1>2, <1>3, <1>4, <1>5, <1>6, <2>0, <1>13 DEF ScmWaits, TailSent, ScmHolds
  <2> QED
    BY <2>1, <2>2, <2>3, <2>4, <2>5
<1>14. CASE ScmTells(in)
  <2>0. /\ AnswerHead(scmCout') /\ scmCout'.id = 1
        /\ Waiting /\ ~scmCout.wr /\ queue = <<>> /\ CmdTail(scmSecond) /\ scmSecond.id = 1
    <3>1. AskHead(scmCout, {ScmMid}) /\ Waiting /\ ~scmCout.wr /\ queue = <<>>
      BY <1>14 DEF ScmTells, ScmHolds
    <3>2. scmCout.id = 1 /\ LibAnt[call.name].mid = ScmMid
      BY <3>1 DEF AskHead, ToAsk
    <3>3. CmdTail(scmSecond) /\ scmSecond.id = 1
      BY <1>14 DEF ScmTells, ScmHolds
    <3>4. QED
      BY <1>14, <3>1, <3>2, <3>3 DEF ScmTells, AnswerHead
  <2>1. ScmWire(in)
    <3>1. Framed(scmCout')
      BY <1>1, <1>2, <1>3, <1>4, <1>6, <2>0, <1>14 DEF ScmTells, NoneSent, Framed, CmdHead, CmdTail
    <3>2. Known(scmCout', AfterScm)
      BY <1>1, <1>2, <1>3, <1>4, <1>6, <2>0, <1>14 DEF ScmTells, NoneSent, Known
    <3>3. CmdTail(scmCout') <=> CmdHead(scmCout)
      BY <1>1, <1>2, <1>3, <1>4, <1>6, <2>0, <1>14 DEF ScmTells, NoneSent, ScmPairs, ScmHolds
    <3>4. CmdHead(scmCout) => scmCout'.id = scmCout.id
      BY <1>1, <1>2, <1>3, <1>4, <1>6, <2>0, <1>14 DEF ScmTells, NoneSent, ScmPairs, ScmHolds
    <3>5. /\ HeadSent(in) /\ in.dst # ScmMid => scmCout' = in
          /\ CmdHead(scmCout') /\ scmCout'.op = "write" =>
               HeadSent(in) /\ in.dst # ScmMid /\ scmCout' = in
      BY <1>2, <1>3, <1>6, <2>0, <1>14 DEF ScmTells, NoneSent
    <3>6. QED
      BY <3>1, <3>2, <3>3, <3>4, <3>5 DEF ScmWire
  <2>2. ScmAlone
    BY <1>1, <1>2, <1>3, <1>4, <1>6, <2>0, <1>14
       DEF ScmTells, NoneSent, ScmAlone, Alone, Behind1, Behind2, Behind3, LastWord, ScmHolds
  <2>3. ScmRoom(in)
    BY <1>1, <1>2, <1>3, <1>6, <2>0, <1>14 DEF ScmTells, NoneSent, ScmRoom, One, Held
  <2>4. ScmPairs'
    BY <1>1, <1>2, <1>3, <1>4, <1>6, <2>0, <1>14 DEF ScmTells, NoneSent, ScmPairs
  <2>5. ScmHolds'
    BY <1>1, <1>2, <1>3, <1>4, <1>5, <1>6, <2>0, <1>14 DEF ScmTells, NoneSent, ScmHolds
  <2> QED
    BY <2>1, <2>2, <2>3, <2>4, <2>5
<1>15. CASE ScmTellsOn(in)
  <2>0. /\ CmdHead(scmCout) /\ scmCout.id = 1 /\ scmCout'.id = 1
        /\ Waiting /\ queue = <<>>
    BY <1>15 DEF ScmTellsOn, ScmHolds
  <2>1. ScmWire(in)
    <3>1. Framed(scmCout')
      BY <1>1, <1>2, <1>3, <1>4, <1>6, <2>0, <1>15 DEF ScmTellsOn, NoneSent, Framed, CmdHead, CmdTail
    <3>2. Known(scmCout', AfterScm)
      BY <1>1, <1>2, <1>3, <1>4, <1>6, <2>0, <1>15 DEF ScmTellsOn, NoneSent, Known
    <3>3. CmdTail(scmCout') <=> CmdHead(scmCout)
      BY <1>1, <1>2, <1>3, <1>4, <1>6, <2>0, <1>15 DEF ScmTellsOn, NoneSent, ScmPairs, ScmHolds
    <3>4. CmdHead(scmCout) => scmCout'.id = scmCout.id
      BY <1>1, <1>2, <1>3, <1>4, <1>6, <2>0, <1>15 DEF ScmTellsOn, NoneSent, ScmPairs, ScmHolds
    <3>5. /\ HeadSent(in) /\ in.dst # ScmMid => scmCout' = in
          /\ CmdHead(scmCout') /\ scmCout'.op = "write" =>
               HeadSent(in) /\ in.dst # ScmMid /\ scmCout' = in
      BY <1>2, <1>3, <1>6, <2>0, <1>15 DEF ScmTellsOn, NoneSent
    <3>6. QED
      BY <3>1, <3>2, <3>3, <3>4, <3>5 DEF ScmWire
  <2>2. ScmAlone
    BY <1>1, <1>2, <1>3, <1>4, <1>6, <2>0, <1>15
       DEF ScmTellsOn, NoneSent, ScmAlone, Alone, Behind1, Behind2, Behind3, LastWord, ScmHolds
  <2>3. ScmRoom(in)
    BY <1>1, <1>2, <1>3, <1>6, <2>0, <1>15 DEF ScmTellsOn, NoneSent, ScmRoom, One, Held
  <2>4. ScmPairs'
    BY <1>1, <1>2, <1>3, <1>4, <1>6, <2>0, <1>15 DEF ScmTellsOn, NoneSent, ScmPairs
  <2>5. ScmHolds'
    BY <1>1, <1>2, <1>3, <1>4, <1>5, <1>6, <2>0, <1>15 DEF ScmTellsOn, NoneSent, ScmHolds
  <2> QED
    BY <2>1, <2>2, <2>3, <2>4, <2>5
<1>16. QED
  BY <1>7, <1>8, <1>9, <1>10, <1>11, <1>12, <1>13, <1>14, <1>15 DEF ScmOutcome
-----------------------------------------------------------------------------
(***************************************************************************)
(* What the registers of pgm_wr and of pgm_rd do in a clock, with the word *)
(* in, the flag and what they send before and after it.                    *)
(***************************************************************************)
Takes(mid, in) == CmdHead(in) /\ in.dst = mid /\ in.op = "write"
Turns(mid, in) == CmdHead(in) /\ in.dst = mid /\ in.op = "read"

RegOutcome(mid, in, flag, flag2, out2) ==
  \/ ~in.wr /\ out2 = Quiet /\ flag2 = flag
  \/ CmdTail(in) /\ flag2 = FALSE /\ out2 = IF flag THEN Quiet ELSE in
  \/ Takes(mid, in) /\ flag2 = TRUE /\ out2 = Quiet
  \/ /\ Turns(mid, in) /\ flag2 = FALSE
     /\ CmdHead(out2) /\ out2.op = "reply" /\ out2.dst = in.src
     /\ out2.src = mid /\ out2.id = in.id
  \/ /\ CmdHead(in) /\ ~Takes(mid, in) /\ ~Turns(mid, in)
     /\ flag2 = FALSE /\ out2 = in

LEMMA WrDoes ==
  ASSUME Ranges, Framed(scmCout), PGM_WR!RegClock(scmCout)
  PROVE  /\ RegOutcome(PgmWrMid, scmCout, wrFlag, wrFlag', wrCout')
         /\ wrCout' \in CmdBeat /\ wrFlag' \in BOOLEAN
         /\ wrRegs' \in [DOMAIN WrBits -> Int]
         /\ wrRegs' = IF Takes(PgmWrMid, scmCout) /\ scmCout.reg \in DOMAIN WrBits
                     THEN [wrRegs EXCEPT ![scmCout.reg] = Cut(scmCout.val, WrBits[scmCout.reg])]
                     ELSE wrRegs
<1>1. scmCout \in CmdBeat /\ scmCout.val \in Int
  BY DEF Ranges, CmdBeat
<1>2. wrFlag \in BOOLEAN /\ wrRegs \in [DOMAIN WrBits -> Int]
  BY DEF Ranges
<1>3. /\ scmCout.wr <=> CmdHead(scmCout) \/ CmdTail(scmCout)
      /\ ~(CmdHead(scmCout) /\ CmdTail(scmCout))
  BY <1>1, HeadOrTail
<1>4. CASE PGM_WR!RegWrite(scmCout)
  <2>1. Takes(PgmWrMid, scmCout) /\ wrFlag' = TRUE /\ wrCout' = Quiet
    BY <1>4, WrWords DEF PGM_WR!RegWrite, PGM_WR!RegIsFor, Takes
  <2>2. wrRegs' = IF scmCout.reg \in DOMAIN WrBits
                  THEN [wrRegs EXCEPT ![scmCout.reg] = Cut(scmCout.val, WrBits[scmCout.reg])]
                  ELSE wrRegs
    BY <1>4, WrWords DEF PGM_WR!RegWrite, PGM_WR!Stored
  <2>3. scmCout.reg \in DOMAIN WrBits => WrBits[scmCout.reg] \in {1, 8, 32}
    BY DEF WrBits
  <2>4. scmCout.reg \in DOMAIN WrBits => Cut(scmCout.val, WrBits[scmCout.reg]) \in Int
    BY <1>1, <2>3, CutIsInt
  <2>5. wrRegs' \in [DOMAIN WrBits -> Int]
    BY <1>2, <2>2, <2>4
  <2>6. QED
    BY <2>1, <2>2, <2>5, QuietFacts DEF RegOutcome
<1>5. CASE PGM_WR!RegRead(scmCout)
  <2>1. Turns(PgmWrMid, scmCout) /\ wrFlag' = FALSE /\ wrRegs' = wrRegs
    BY <1>5, WrWords DEF PGM_WR!RegRead, PGM_WR!RegIsFor, Turns
  <2>2. ~Takes(PgmWrMid, scmCout)
    BY <2>1 DEF Turns, Takes
  <2> DEFINE v == PGM_WR!Answer(scmCout)
  <2>3. wrCout' = Reply(scmCout, v)
    BY <1>5, WrWords DEF PGM_WR!RegRead
  <2>4. v \in Int
    BY <1>1, <1>2, WrWords DEF PGM_WR!Answer
  <2> HIDE DEF v
  <2>5. /\ wrCout' \in CmdBeat /\ wrCout'.wr = scmCout.wr /\ wrCout'.part = scmCout.part
        /\ wrCout'.op = "reply" /\ wrCout'.dst = scmCout.src /\ wrCout'.src = scmCout.dst
        /\ wrCout'.id = scmCout.id
    BY <1>1, <2>3, <2>4, ReplyFacts
  <2>6. CmdHead(wrCout') /\ wrCout'.src = PgmWrMid
    BY <2>1, <2>5 DEF Turns, CmdHead
  <2>7. QED
    BY <1>2, <2>1, <2>2, <2>5, <2>6 DEF RegOutcome
<1>6. CASE PGM_WR!RegPass(scmCout)
  <2>1. /\ CmdHead(scmCout) /\ ~Takes(PgmWrMid, scmCout) /\ ~Turns(PgmWrMid, scmCout)
        /\ wrFlag' = FALSE /\ wrCout' = scmCout /\ wrRegs' = wrRegs
    BY <1>6, WrWords DEF PGM_WR!RegPass, PGM_WR!RegIsFor, Takes, Turns
  <2>2. QED
    BY <1>1, <1>2, <2>1 DEF RegOutcome
<1>7. CASE PGM_WR!RegTail(scmCout)
  <2>1. /\ CmdTail(scmCout) /\ wrFlag' = FALSE /\ wrRegs' = wrRegs
        /\ wrCout' = IF wrFlag THEN Quiet ELSE scmCout
    BY <1>7, WrWords DEF PGM_WR!RegTail
  <2>2. ~Takes(PgmWrMid, scmCout)
    BY <1>3, <2>1 DEF Takes
  <2>3. QED
    BY <1>1, <1>2, <2>1, <2>2, QuietFacts DEF RegOutcome
<1>8. CASE PGM_WR!RegNothing(scmCout)
  <2>1. ~scmCout.wr /\ wrCout' = Quiet /\ wrFlag' = wrFlag /\ wrRegs' = wrRegs
    BY <1>3, <1>8, WrWords DEF PGM_WR!RegNothing
  <2>2. ~Takes(PgmWrMid, scmCout)
    BY <2>1, <1>3 DEF Takes
  <2>3. QED
    BY <1>2, <2>1, <2>2, QuietFacts DEF RegOutcome
<1>9. QED
  BY <1>4, <1>5, <1>6, <1>7, <1>8 DEF PGM_WR!RegClock

LEMMA RdDoes ==
  ASSUME Ranges, Framed(wrCout), PGM_RD!RegClock(wrCout)
  PROVE  /\ RegOutcome(PgmRdMid, wrCout, rdFlag, rdFlag', rdCout')
         /\ rdCout' \in CmdBeat /\ rdFlag' \in BOOLEAN
         /\ rdRegs' \in [DOMAIN RdBits -> Int]
         /\ rdRegs' = IF Takes(PgmRdMid, wrCout) /\ wrCout.reg \in DOMAIN RdBits
                     THEN [rdRegs EXCEPT ![wrCout.reg] = Cut(wrCout.val, RdBits[wrCout.reg])]
                     ELSE rdRegs
<1>1. wrCout \in CmdBeat /\ wrCout.val \in Int
  BY DEF Ranges, CmdBeat
<1>2. rdFlag \in BOOLEAN /\ rdRegs \in [DOMAIN RdBits -> Int]
  BY DEF Ranges
<1>3. /\ wrCout.wr <=> CmdHead(wrCout) \/ CmdTail(wrCout)
      /\ ~(CmdHead(wrCout) /\ CmdTail(wrCout))
  BY <1>1, HeadOrTail
<1>4. CASE PGM_RD!RegWrite(wrCout)
  <2>1. Takes(PgmRdMid, wrCout) /\ rdFlag' = TRUE /\ rdCout' = Quiet
    BY <1>4, RdWords DEF PGM_RD!RegWrite, PGM_RD!RegIsFor, Takes
  <2>2. rdRegs' = IF wrCout.reg \in DOMAIN RdBits
                  THEN [rdRegs EXCEPT ![wrCout.reg] = Cut(wrCout.val, RdBits[wrCout.reg])]
                  ELSE rdRegs
    BY <1>4, RdWords DEF PGM_RD!RegWrite, PGM_RD!Stored
  <2>3. wrCout.reg \in DOMAIN RdBits => RdBits[wrCout.reg] \in {1, 8, 32}
    BY DEF RdBits
  <2>4. wrCout.reg \in DOMAIN RdBits => Cut(wrCout.val, RdBits[wrCout.reg]) \in Int
    BY <1>1, <2>3, CutIsInt
  <2>5. rdRegs' \in [DOMAIN RdBits -> Int]
    BY <1>2, <2>2, <2>4
  <2>6. QED
    BY <2>1, <2>2, <2>5, QuietFacts DEF RegOutcome
<1>5. CASE PGM_RD!RegRead(wrCout)
  <2>1. Turns(PgmRdMid, wrCout) /\ rdFlag' = FALSE /\ rdRegs' = rdRegs
    BY <1>5, RdWords DEF PGM_RD!RegRead, PGM_RD!RegIsFor, Turns
  <2>2. ~Takes(PgmRdMid, wrCout)
    BY <2>1 DEF Turns, Takes
  <2> DEFINE v == PGM_RD!Answer(wrCout)
  <2>3. rdCout' = Reply(wrCout, v)
    BY <1>5, RdWords DEF PGM_RD!RegRead
  <2>4. v \in Int
    BY <1>1, <1>2, RdWords DEF PGM_RD!Answer
  <2> HIDE DEF v
  <2>5. /\ rdCout' \in CmdBeat /\ rdCout'.wr = wrCout.wr /\ rdCout'.part = wrCout.part
        /\ rdCout'.op = "reply" /\ rdCout'.dst = wrCout.src /\ rdCout'.src = wrCout.dst
        /\ rdCout'.id = wrCout.id
    BY <1>1, <2>3, <2>4, ReplyFacts
  <2>6. CmdHead(rdCout') /\ rdCout'.src = PgmRdMid
    BY <2>1, <2>5 DEF Turns, CmdHead
  <2>7. QED
    BY <1>2, <2>1, <2>2, <2>5, <2>6 DEF RegOutcome
<1>6. CASE PGM_RD!RegPass(wrCout)
  <2>1. /\ CmdHead(wrCout) /\ ~Takes(PgmRdMid, wrCout) /\ ~Turns(PgmRdMid, wrCout)
        /\ rdFlag' = FALSE /\ rdCout' = wrCout /\ rdRegs' = rdRegs
    BY <1>6, RdWords DEF PGM_RD!RegPass, PGM_RD!RegIsFor, Takes, Turns
  <2>2. QED
    BY <1>1, <1>2, <2>1 DEF RegOutcome
<1>7. CASE PGM_RD!RegTail(wrCout)
  <2>1. /\ CmdTail(wrCout) /\ rdFlag' = FALSE /\ rdRegs' = rdRegs
        /\ rdCout' = IF rdFlag THEN Quiet ELSE wrCout
    BY <1>7, RdWords DEF PGM_RD!RegTail
  <2>2. ~Takes(PgmRdMid, wrCout)
    BY <1>3, <2>1 DEF Takes
  <2>3. QED
    BY <1>1, <1>2, <2>1, <2>2, QuietFacts DEF RegOutcome
<1>8. CASE PGM_RD!RegNothing(wrCout)
  <2>1. ~wrCout.wr /\ rdCout' = Quiet /\ rdFlag' = rdFlag /\ rdRegs' = rdRegs
    BY <1>3, <1>8, RdWords DEF PGM_RD!RegNothing
  <2>2. ~Takes(PgmRdMid, wrCout)
    BY <2>1, <1>3 DEF Takes
  <2>3. QED
    BY <1>2, <2>1, <2>2, QuietFacts DEF RegOutcome
<1>9. QED
  BY <1>4, <1>5, <1>6, <1>7, <1>8 DEF PGM_RD!RegClock

\* What a block sends next, out2, after the word in has come and out was sent.
Passes(mid, in, out, out2, ahead) ==
  /\ Framed(out2) /\ Known(out2, ahead \ {mid})
  /\ CmdTail(out2) <=> CmdHead(out)
  /\ CmdTail(out2) => out2 = in /\ CmdTail(in)
  /\ CmdHead(out) => out2.id = out.id
  /\ CmdHead(out2) => CmdHead(in)
  /\ CmdHead(in) /\ in.op = "write" /\ in.dst # mid => out2 = in
  /\ CmdHead(out2) /\ out2.op = "write" => out2 = in /\ in.dst # mid
  /\ One(out2) <= One(in)

\* A block keeps the words in pairs, and lets nothing pass that is its own.
LEMMA BlockStep ==
  ASSUME NEW mid, NEW in \in CmdBeat, NEW flag \in BOOLEAN, NEW out \in CmdBeat,
         NEW in2 \in CmdBeat, NEW flag2 \in BOOLEAN, NEW out2 \in CmdBeat,
         NEW ahead, mid \in ahead, Framed(in), Known(in, ahead),
         Follows(in, flag, out), RegOutcome(mid, in, flag, flag2, out2),
         CmdTail(in2) <=> CmdHead(in), CmdHead(in) => in2.id = in.id
  PROVE  Passes(mid, in, out, out2, ahead) /\ Follows(in2, flag2, out2)
<1> USE DEF Passes
<1>1. /\ in.wr <=> CmdHead(in) \/ CmdTail(in)
      /\ \A b : CmdHead(b) \/ CmdTail(b) => b.wr
      /\ \A b : ~(CmdHead(b) /\ CmdTail(b))
  BY HeadOrTail DEF CmdHead, CmdTail
<1>2. CmdHead(in) =>
        /\ in.op = "write" => in.id = 0 /\ SetHead(in, ahead)
        /\ in.op = "read" => in.id = 1 /\ AskHead(in, ahead)
        /\ in.op \notin {"read", "write"} => AnswerHead(in)
        /\ in.id \in {0, 1}
  BY DEF Known, SetHead, AskHead, AnswerHead, ToSet, ToAsk
<1>3. ~Quiet.wr /\ ~CmdHead(Quiet) /\ ~CmdTail(Quiet) /\ Framed(Quiet)
  BY QuietFacts
<1>4. CASE ~in.wr /\ out2 = Quiet /\ flag2 = flag
  BY <1>1, <1>3, <1>4 DEF Known, Follows, One
<1>5. CASE CmdTail(in) /\ flag2 = FALSE /\ out2 = IF flag THEN Quiet ELSE in
  BY <1>1, <1>3, <1>5 DEF Known, Follows, One
<1>6. CASE Takes(mid, in) /\ flag2 = TRUE /\ out2 = Quiet
  BY <1>1, <1>2, <1>3, <1>6 DEF Known, Follows, One, Takes
<1>7. CASE /\ Turns(mid, in) /\ flag2 = FALSE
           /\ CmdHead(out2) /\ out2.op = "reply" /\ out2.dst = in.src
           /\ out2.src = mid /\ out2.id = in.id
  <2>1. AskHead(in, ahead) /\ in.id = 1 /\ in.dst = mid
    BY <1>2, <1>7 DEF Turns
  <2>2. AnswerHead(out2)
    BY <1>7, <2>1 DEF AskHead, AnswerHead, ToAsk
  <2>3. Framed(out2)
    BY <1>7, <2>1 DEF Framed, CmdHead
  <2>4. QED
    BY <1>1, <1>7, <2>1, <2>2, <2>3 DEF Known, Follows, One, Turns
<1>8. CASE /\ CmdHead(in) /\ ~Takes(mid, in) /\ ~Turns(mid, in)
           /\ flag2 = FALSE /\ out2 = in
  <2>1. SetHead(in, ahead \ {mid}) \/ AskHead(in, ahead \ {mid}) \/ AnswerHead(in)
    BY <1>8 DEF Known, SetHead, AskHead, ToSet, ToAsk, Takes, Turns
  <2>2. Known(out2, ahead \ {mid})
    BY <1>8, <2>1 DEF Known
  <2>3. QED
    BY <1>1, <1>2, <1>8, <2>2 DEF Follows, One, Takes, Turns
<1>9. QED
  BY <1>4, <1>5, <1>6, <1>7, <1>8 DEF RegOutcome
-----------------------------------------------------------------------------
(***************************************************************************)
(* What goe does in a clock.  The word at the head of the FIFO leaves it   *)
(* in every state but idle, and the word from pgm_rd enters.               *)
(***************************************************************************)
Gone == IF goeState = "idle" THEN 0 ELSE 1
Kept == Len(goeFifo) - Gone

FifoMoves ==
  /\ Len(goeFifo') = Kept + One(rdCout)
  /\ \A i \in 1 .. Kept : goeFifo'[i] = goeFifo[i + Gone]
  /\ rdCout.wr => goeFifo'[Kept + 1] = rdCout

LEMMA QueueMoves ==
  ASSUME NEW S, NEW q \in Seq(S), NEW b \in S, NEW k \in {0, 1}, k <= Len(q),
         NEW p, p = IF k = 1 THEN Tail(q) ELSE q
  PROVE  /\ p \in Seq(S) /\ Len(p) = Len(q) - k
         /\ \A i \in 1 .. Len(q) - k : p[i] = q[i + k]
         /\ Append(p, b) \in Seq(S) /\ Len(Append(p, b)) = Len(q) - k + 1
         /\ \A i \in 1 .. Len(q) - k : Append(p, b)[i] = q[i + k]
         /\ Append(p, b)[Len(q) - k + 1] = b
<1>1. p \in Seq(S) /\ Len(p) = Len(q) - k
  BY HeadTailProperties
<1>2. \A i \in 1 .. Len(q) - k : p[i] = q[i + k]
  BY HeadTailProperties
<1>3. /\ Append(p, b) \in Seq(S) /\ Len(Append(p, b)) = Len(p) + 1
      /\ \A i \in 1 .. Len(p) : Append(p, b)[i] = p[i]
      /\ Append(p, b)[Len(p) + 1] = b
  BY <1>1, AppendProperties
<1>4. QED
  BY <1>1, <1>2, <1>3

\* goeOut shows the word at the head of the FIFO.
Shows ==
  /\ goeOut'.part = goeFifo[1].part /\ goeOut'.op = goeFifo[1].op
  /\ goeOut'.dst = goeFifo[1].dst /\ goeOut'.src = goeFifo[1].src
  /\ goeOut'.id = goeFifo[1].id

GoeRests ==
  /\ goeState = "idle" /\ goeState' = "idle" /\ goeCount' = goeCount
  /\ goeOut' = Quiet
GoeStarts ==
  /\ goeState = "idle" /\ goeFifo # <<>> /\ goeCount' = goeCount
  /\ goeOut' = Quiet
  /\ \/ goeState' = "write" /\ SetHead(goeFifo[1], AfterRd)
     \/ goeState' = "tran" /\ AnswerHead(goeFifo[1])
GoeStores ==
  /\ goeState = "write" /\ goeState' = "discard" /\ goeCount' = goeFifo[1].val
  /\ goeOut' = goeOut
GoeDrops ==
  /\ goeState = "discard" /\ goeState' = "idle" /\ goeCount' = goeCount
  /\ ~goeOut'.wr
GoeAnswers ==
  /\ goeState = "tran" /\ goeCount' = goeCount /\ goeOut'.wr /\ Shows
  /\ goeState' = IF CmdTail(goeFifo[1]) THEN "idle" ELSE "tran"

GoeOutcome == GoeRests \/ GoeStarts \/ GoeStores \/ GoeDrops \/ GoeAnswers

LEMMA GoeDoes ==
  ASSUME Ranges, Wires, GoePlace, Roomy, Sane, NEW dmaReady \in BOOLEAN,
         GOE!GoeClock(rdCout, dmaReady, goeCount),
         goeCount' = GOE!GoeStored(goeCount)
  PROVE  /\ GoeOutcome /\ FifoMoves
         /\ goeFifo' \in Seq(CmdBeat) /\ goeOut' \in CmdBeat /\ goeCount' \in Int
         /\ goeState' \in {"idle", "write", "tran", "discard"}
         /\ goeRd' = (goeState' # "idle")
<1> USE DEF Gone, Kept
<1>1. /\ goeFifo \in Seq(CmdBeat) /\ goeOut \in CmdBeat /\ goeCount \in Int
      /\ goeRd = (goeState # "idle") /\ rdCout \in CmdBeat
      /\ goeState \in {"idle", "write", "tran", "discard"}
  BY DEF Ranges
<1>2. goeState # "idle" => goeFifo # <<>> /\ Len(goeFifo) >= 1
  BY <1>1 DEF GoePlace
<1>3. goeFifo # <<>> =>
        /\ GOE!GoeWord = goeFifo[1] /\ goeFifo[1] \in CmdBeat
        /\ goeFifo[1].wr /\ Framed(goeFifo[1]) /\ Known(goeFifo[1], AfterRd)
        /\ Len(goeFifo) >= 1
  <2>1. goeFifo # <<>> => 1 \in 1 .. Len(goeFifo) /\ goeFifo[1] \in CmdBeat
    BY <1>1
  <2>2. goeFifo # <<>> => GOE!GoeWord = goeFifo[1]
    BY <1>1 DEF GOE!GoeWord
  <2>3. QED
    BY <2>1, <2>2 DEF Wires
<1>4. goeFifo # <<>> /\ CmdHead(goeFifo[1]) =>
        \/ SetHead(goeFifo[1], AfterRd) /\ goeFifo[1].op = "write" /\ goeFifo[1].dst = GoeMid
        \/ AnswerHead(goeFifo[1]) /\ goeFifo[1].dst = AntMid
  <2>1. ASSUME AskHead(goeFifo[1], AfterRd) PROVE FALSE
    <3>1. call.name \in Getters /\ LibAnt[call.name].mid = GoeMid
      BY <2>1 DEF AskHead, ToAsk, AfterRd
    <3>2. call.name = "goe_count"
      BY <3>1, Names, ChainAssumption
    <3>3. QED
      BY <3>1, <3>2 DEF Sane
  <2>2. QED
    BY <1>3, <2>1 DEF Known, SetHead, AnswerHead, ToSet, AfterRd
<1>5. FifoMoves /\ goeFifo' \in Seq(CmdBeat)
  <2> DEFINE p == IF goeRd /\ goeFifo # <<>> THEN Tail(goeFifo) ELSE goeFifo
  <2>1. goeFifo' = IF rdCout.wr /\ Len(goeFifo) < CtrlDepth
                   THEN Append(p, rdCout) ELSE p
    BY DEF GOE!GoeClock
  <2>2. p = IF Gone = 1 THEN Tail(goeFifo) ELSE goeFifo
    <3>1. CASE goeState = "idle"
      <4>1. goeRd = FALSE
        BY <1>1, <3>1
      <4>2. QED
        BY <3>1, <4>1
    <3>2. CASE goeState # "idle"
      <4>1. goeRd = TRUE /\ goeFifo # <<>>
        BY <1>1, <1>2, <3>2
      <4>2. QED
        BY <3>2, <4>1
    <3>3. QED
      BY <3>1, <3>2
  <2>3. Gone \in {0, 1} /\ Gone <= Len(goeFifo)
    BY <1>1, <1>2
  <2> HIDE DEF p, Gone
  <2>4. rdCout.wr => Len(goeFifo) < CtrlDepth
    <3>1. /\ Len(queue) \in Nat /\ Len(dmaTail) \in Nat /\ Len(goeFifo) \in Nat
          /\ One(scmCout) \in {0, 1} /\ One(wrCout) \in {0, 1}
          /\ Held \in {0, 1, 2}
      <4>1. queue \in Seq(Cmds) /\ dmaTail \in Seq(Cmds)
        BY DEF Ranges
      <4>2. Held \in {0, 1, 2}
        BY DEF Held
      <4>3. QED
        BY <1>1, <4>1, <4>2 DEF One
    <3>2. rdCout.wr => One(rdCout) = 1
      BY DEF One
    <3>3. CtrlDepth \in Nat
      BY ChainAssumption
    <3>4. QED
      BY <3>1, <3>2, <3>3 DEF Roomy, Crowd, Unsent, OnWires
  <2>5. /\ p \in Seq(CmdBeat) /\ Len(p) = Len(goeFifo) - Gone
        /\ \A i \in 1 .. Len(goeFifo) - Gone : p[i] = goeFifo[i + Gone]
        /\ Append(p, rdCout) \in Seq(CmdBeat)
        /\ Len(Append(p, rdCout)) = Len(goeFifo) - Gone + 1
        /\ \A i \in 1 .. Len(goeFifo) - Gone : Append(p, rdCout)[i] = goeFifo[i + Gone]
        /\ Append(p, rdCout)[Len(goeFifo) - Gone + 1] = rdCout
    BY <1>1, <2>2, <2>3, QueueMoves
  <2>6. Len(goeFifo) \in Nat
    BY <1>1
  <2>7. CASE rdCout.wr
    BY <2>1, <2>3, <2>4, <2>5, <2>6, <2>7 DEF FifoMoves, One
  <2>8. CASE ~rdCout.wr
    BY <2>1, <2>3, <2>5, <2>6, <2>8 DEF FifoMoves, One
  <2>9. QED
    BY <2>7, <2>8
<1>6. CASE GOE!GoeIdle(dmaReady)
  <2>1. goeState = "idle" /\ goeOut' = Quiet /\ goeCount' = goeCount
    BY <1>6, GoeWords DEF GOE!GoeIdle, GOE!GoeStored
  <2>2. CASE goeFifo # <<>> /\ dmaReady
    <3>1. CmdHead(goeFifo[1])
      BY <2>1, <2>2 DEF GoePlace
    <3>2. /\ goeRd' = TRUE
          /\ goeState' = IF goeFifo[1].dst # GoeMid THEN "tran"
                       ELSE IF CmdHead(goeFifo[1]) /\ goeFifo[1].op = "read"
                            THEN "wait0"
                       ELSE IF CmdHead(goeFifo[1]) /\ goeFifo[1].op = "write"
                            THEN "write"
                       ELSE "idle"
      BY <1>3, <1>6, <2>2, GoeWords DEF GOE!GoeIdle
    <3>3. CASE SetHead(goeFifo[1], AfterRd) /\ goeFifo[1].op = "write"
               /\ goeFifo[1].dst = GoeMid
      <4>1. goeState' = "write"
        BY <3>1, <3>2, <3>3
      <4>2. GoeStarts
        BY <2>1, <2>2, <3>3, <4>1 DEF GoeStarts
      <4>3. QED
        BY <1>1, <1>5, <2>1, <3>2, <4>1, <4>2, QuietFacts DEF GoeOutcome
    <3>4. CASE AnswerHead(goeFifo[1]) /\ goeFifo[1].dst = AntMid
      <4>1. goeState' = "tran"
        BY <3>1, <3>2, <3>4, Mids DEF Blocks
      <4>2. GoeStarts
        BY <2>1, <2>2, <3>4, <4>1 DEF GoeStarts
      <4>3. QED
        BY <1>1, <1>5, <2>1, <3>2, <4>1, <4>2, QuietFacts DEF GoeOutcome
    <3>5. QED
      BY <1>4, <2>2, <3>1, <3>3, <3>4
  <2>3. CASE ~(goeFifo # <<>> /\ dmaReady)
    <3>1. goeRd' = goeRd /\ goeState' = goeState
      BY <1>6, <2>3 DEF GOE!GoeIdle
    <3>2. QED
      BY <1>1, <1>5, <2>1, <3>1, QuietFacts DEF GoeOutcome, GoeRests
  <2>4. QED
    BY <2>2, <2>3
<1>7. CASE GOE!GoeWrite
  <2>1. /\ goeState = "write" /\ goeState' = "discard" /\ goeRd' = TRUE
        /\ goeOut' = goeOut /\ goeCount' = GOE!GoeWord.val
    BY <1>7 DEF GOE!GoeWrite, GOE!GoeStored
  <2>2. GOE!GoeWord.val = goeFifo[1].val /\ goeFifo[1].val \in Int
    BY <1>2, <1>3, <2>1 DEF CmdBeat
  <2>3. QED
    BY <1>1, <1>5, <2>1, <2>2 DEF GoeOutcome, GoeStores
<1>8. CASE GOE!GoeWait0 \/ GOE!GoeRead(goeCount)
  BY <1>1, <1>8 DEF GOE!GoeWait0, GOE!GoeRead
<1>9. CASE GOE!GoeTran
  <2>1. /\ goeState = "tran" /\ goeFifo # <<>> /\ goeCount' = goeCount
        /\ goeOut' = [goeFifo[1] EXCEPT !.wr = TRUE]
        /\ goeRd' = (goeFifo[1].part # "tail")
        /\ goeState' = IF goeFifo[1].part = "tail" THEN "idle" ELSE "tran"
    BY <1>2, <1>3, <1>9 DEF GOE!GoeTran, GOE!GoeStored
  <2>2. /\ goeOut' \in CmdBeat /\ goeOut'.wr /\ Shows
    BY <1>3, <2>1, SetWrFacts DEF Shows
  <2>3. goeFifo[1].part = "tail" <=> CmdTail(goeFifo[1])
    BY <1>3, <2>1 DEF CmdTail
  <2>4. QED
    BY <1>1, <1>5, <2>1, <2>2, <2>3 DEF GoeOutcome, GoeAnswers
<1>10. CASE GOE!GoeDiscard
  <2>1. /\ goeState = "discard" /\ goeFifo # <<>> /\ goeCount' = goeCount
        /\ goeOut' = [goeFifo[1] EXCEPT !.wr = goeOut.wr]
        /\ goeRd' = (goeFifo[1].part # "tail")
        /\ goeState' = IF goeFifo[1].part = "tail" THEN "idle" ELSE "discard"
    BY <1>2, <1>3, <1>10 DEF GOE!GoeDiscard, GOE!GoeStored
  <2>2. goeFifo[1].part = "tail" /\ ~goeOut.wr
    BY <2>1 DEF GoePlace, CmdTail
  <2>3. goeOut.wr \in BOOLEAN
    BY <1>1 DEF CmdBeat
  <2>4. goeOut' \in CmdBeat /\ ~goeOut'.wr
    BY <1>3, <2>1, <2>2, <2>3, SetWrFacts
  <2>5. QED
    BY <1>1, <1>5, <2>1, <2>2, <2>4 DEF GoeOutcome, GoeDrops
<1>11. QED
  BY <1>6, <1>7, <1>8, <1>9, <1>10 DEF GOE!GoeClock
-----------------------------------------------------------------------------
\* The words in the FIFO after a clock, given what pgm_rd sends next.
FifoBefore ==
  /\ Ranges /\ Wires /\ FifoPairs /\ GoePlace /\ Alone
  /\ GoeOutcome /\ FifoMoves
  /\ goeFifo' \in Seq(CmdBeat) /\ goeOut' \in CmdBeat /\ call' = call
  /\ CmdTail(rdCout') <=> CmdHead(rdCout)
  /\ CmdHead(rdCout) => rdCout'.id = rdCout.id
  /\ Behind4 => Behind5'

LEMMA Places ==
  ASSUME FifoBefore
  PROVE  /\ Gone \in {0, 1} /\ Kept \in Nat /\ Len(goeFifo) = Kept + Gone
         /\ Gone = 0 <=> goeState = "idle"
         /\ Len(goeFifo') \in Nat
         /\ rdCout.wr => Len(goeFifo') = Kept + 1
         /\ ~rdCout.wr => Len(goeFifo') = Kept
         /\ rdCout.wr <=> CmdHead(rdCout) \/ CmdTail(rdCout)
         /\ \A i \in 1 .. Len(goeFifo) :
              CmdHead(goeFifo[i]) <=> ~CmdTail(goeFifo[i])
         /\ goeFifo = <<>> <=> Len(goeFifo) = 0
         /\ goeFifo' = <<>> <=> Len(goeFifo') = 0
<1>1. goeFifo \in Seq(CmdBeat) /\ rdCout \in CmdBeat
  BY DEF FifoBefore, Ranges
<1>2. goeFifo' \in Seq(CmdBeat)
  BY DEF FifoBefore
<1>3. goeState # "idle" => goeFifo # <<>> /\ Len(goeFifo) >= 1
  <2>1. goeState \in {"idle", "write", "tran", "discard"}
    BY DEF FifoBefore, Ranges
  <2>2. GoePlace
    BY DEF FifoBefore
  <2>3. QED
    BY <1>1, <2>1, <2>2 DEF GoePlace
<1>4. Len(goeFifo) \in Nat /\ Len(goeFifo') \in Nat
  BY <1>1, <1>2
<1>5. /\ Gone \in {0, 1} /\ Kept \in Nat /\ Len(goeFifo) = Kept + Gone
      /\ Gone = 0 <=> goeState = "idle"
  BY <1>3, <1>4 DEF Gone, Kept
<1>6. /\ rdCout.wr => Len(goeFifo') = Kept + 1
      /\ ~rdCout.wr => Len(goeFifo') = Kept
  BY <1>5 DEF FifoBefore, FifoMoves, One
<1>7. rdCout.wr <=> CmdHead(rdCout) \/ CmdTail(rdCout)
  BY <1>1, HeadOrTail DEF FifoBefore, Wires
<1>8. ASSUME NEW i \in 1 .. Len(goeFifo)
      PROVE  CmdHead(goeFifo[i]) <=> ~CmdTail(goeFifo[i])
  <2>1. goeFifo[i] \in CmdBeat
    BY <1>1
  <2>2. goeFifo[i].wr /\ Framed(goeFifo[i])
    BY DEF FifoBefore, Wires
  <2>3. QED
    BY <2>1, <2>2, HeadOrTail
<1>9. goeFifo = <<>> <=> Len(goeFifo) = 0
  BY <1>1
<1>10. goeFifo' = <<>> <=> Len(goeFifo') = 0
  BY <1>2
<1>11. QED
  BY <1>4, <1>5, <1>6, <1>7, <1>8, <1>9, <1>10

\* Where a word in the FIFO comes from.
LEMMA FromWhere ==
  ASSUME FifoBefore, NEW i \in 1 .. Len(goeFifo')
  PROVE  \/ /\ i \in 1 .. Kept /\ i + Gone \in 1 .. Len(goeFifo)
            /\ goeFifo'[i] = goeFifo[i + Gone]
         \/ /\ i = Kept + 1 /\ rdCout.wr /\ i = Len(goeFifo')
            /\ goeFifo'[i] = rdCout
<1>1. CASE i <= Kept
  BY <1>1, Places DEF FifoBefore, FifoMoves
<1>2. CASE i > Kept
  BY <1>2, Places DEF FifoBefore, FifoMoves
<1>3. Kept \in Nat /\ i \in Int
  BY Places
<1>4. QED
  BY <1>1, <1>2, <1>3

LEMMA FifoWords ==
  ASSUME FifoBefore
  PROVE  \A i \in 1 .. Len(goeFifo') :
           goeFifo'[i].wr /\ Framed(goeFifo'[i]) /\ Known(goeFifo'[i], AfterRd)
  BY FromWhere DEF FifoBefore, Wires

LEMMA FifoInPairs ==
  ASSUME FifoBefore
  PROVE  FifoPairs'
<1>1. ASSUME NEW i \in 1 .. Len(goeFifo') - 1
      PROVE  IF CmdHead(goeFifo'[i])
             THEN CmdTail(goeFifo'[i + 1]) /\ goeFifo'[i + 1].id = goeFifo'[i].id
             ELSE CmdHead(goeFifo'[i + 1])
  <2>1. /\ i \in 1 .. Kept /\ i + Gone \in 1 .. Len(goeFifo)
        /\ goeFifo'[i] = goeFifo[i + Gone]
    BY Places, FromWhere
  <2>2. CASE i + 1 <= Kept
    <3>1. goeFifo'[i + 1] = goeFifo[i + Gone + 1] /\ i + Gone \in 1 .. Len(goeFifo) - 1
      BY <2>2, Places DEF FifoBefore, FifoMoves
    <3>2. QED
      BY <2>1, <3>1 DEF FifoBefore, FifoPairs
  <2>3. CASE i = Kept
    <3>1. rdCout.wr /\ goeFifo'[i + 1] = rdCout /\ i + Gone = Len(goeFifo)
      BY <2>3, Places DEF FifoBefore, FifoMoves
    <3>2. goeFifo # <<>>
      BY <2>1, Places
    <3>3. QED
      BY <2>1, <3>1, <3>2, Places DEF FifoBefore, FifoPairs
  <2>4. QED
    BY <2>1, <2>2, <2>3, Places
<1>2. ASSUME goeFifo' # <<>>, CmdHead(goeFifo'[Len(goeFifo')])
      PROVE  CmdTail(rdCout') /\ rdCout'.id = goeFifo'[Len(goeFifo')].id
  <2>1. Len(goeFifo') \in 1 .. Len(goeFifo')
    BY <1>2, Places
  <2>2. CASE rdCout.wr
    <3>1. goeFifo'[Len(goeFifo')] = rdCout
      BY <2>2, Places DEF FifoBefore, FifoMoves
    <3>2. QED
      BY <1>2, <3>1 DEF FifoBefore
  <2>3. CASE ~rdCout.wr
    <3>1. goeFifo'[Len(goeFifo')] = goeFifo[Len(goeFifo)] /\ goeFifo # <<>>
      BY <2>1, <2>3, FromWhere, Places
    <3>2. CmdTail(rdCout)
      BY <1>2, <3>1 DEF FifoBefore, FifoPairs
    <3>3. QED
      BY <2>3, <3>2, Places
  <2>4. QED
    BY <2>2, <2>3
<1>3. ASSUME CmdTail(rdCout')
      PROVE  goeFifo' # <<>> /\ CmdHead(goeFifo'[Len(goeFifo')])
  <2>1. CmdHead(rdCout) /\ rdCout.wr
    BY <1>3, Places DEF FifoBefore
  <2>2. goeFifo'[Len(goeFifo')] = rdCout /\ goeFifo' # <<>>
    BY <2>1, Places DEF FifoBefore, FifoMoves
  <2>3. QED
    BY <2>1, <2>2
<1>4. QED
  BY <1>1, <1>2, <1>3 DEF FifoPairs

LEMMA FifoAlone ==
  ASSUME FifoBefore
  PROVE  \A i \in 1 .. Len(goeFifo') :
           LastWord(goeFifo'[i]) => i = Len(goeFifo') /\ Waiting /\ Behind5'
<1> SUFFICES ASSUME NEW i \in 1 .. Len(goeFifo'), LastWord(goeFifo'[i])
             PROVE  i = Len(goeFifo') /\ Waiting /\ Behind5'
  OBVIOUS
<1>1. CASE /\ i \in 1 .. Kept /\ i + Gone \in 1 .. Len(goeFifo)
           /\ goeFifo'[i] = goeFifo[i + Gone]
  <2>1. i + Gone = Len(goeFifo) /\ Waiting /\ Behind5
    BY <1>1 DEF FifoBefore, Alone
  <2>2. ~rdCout.wr /\ Behind5'
    BY <2>1 DEF FifoBefore, Behind5
  <2>3. QED
    BY <2>1, <2>2, Places
<1>2. CASE i = Kept + 1 /\ rdCout.wr /\ i = Len(goeFifo') /\ goeFifo'[i] = rdCout
  BY <1>2 DEF FifoBefore, Alone
<1>3. QED
  BY <1>1, <1>2, FromWhere
LEMMA GoeGoesOn ==
  ASSUME FifoBefore, DmaReceives
  PROVE  GoePlace' /\ (LastWord(goeOut') => Waiting /\ Behind6')
<1>1. /\ CmdHead(goeOut) => dmaHead' = goeOut
      /\ CmdTail(goeOut) => dmaHead' = Quiet
      /\ ~CmdHead(goeOut) /\ ~CmdTail(goeOut) => dmaHead' = dmaHead
  BY DEF DmaReceives, CmdHead, CmdTail
<1>2. GoePlace /\ goeOut \in CmdBeat /\ Framed(goeOut)
  BY DEF FifoBefore, Ranges, GoePlace
<1>3. /\ goeOut.wr <=> CmdHead(goeOut) \/ CmdTail(goeOut)
      /\ ~(CmdHead(goeOut) /\ CmdTail(goeOut))
  BY <1>2, HeadOrTail
<1>4. ~CmdHead(goeOut) => dmaHead' = Quiet
  BY <1>1, <1>2 DEF GoePlace
<1>5. Kept >= 1 => goeFifo'[1] = goeFifo[1 + Gone] /\ Len(goeFifo) >= 1
  BY Places DEF FifoBefore, FifoMoves
<1>6. Kept = 0 /\ goeFifo' # <<>> => goeFifo'[1] = rdCout /\ rdCout.wr
  BY Places DEF FifoBefore, FifoMoves
<1>7. /\ ~Quiet.wr /\ Framed(Quiet) /\ ~CmdHead(Quiet) /\ ~CmdTail(Quiet)
  BY QuietFacts
<1>8. FifoPairs
  BY DEF FifoBefore
<1>9. (Waiting' <=> Waiting) /\ \A b : AnswerHead(b) => Waiting
  BY DEF FifoBefore, Waiting, AnswerHead
<1>10. CASE GoeRests
  <2>1. ~CmdHead(goeOut) /\ ~goeOut'.wr /\ Gone = 0 /\ ~CmdHead(goeOut') /\ ~CmdTail(goeOut')
    BY <1>2, <1>7, <1>10 DEF GoePlace, GoeRests, Gone
  <2>2. goeFifo' # <<>> => CmdHead(goeFifo'[1])
    <3>1. CASE Kept >= 1
      BY <1>2, <1>5, <1>10, <2>1, <3>1, Places DEF GoePlace, GoeRests
    <3>2. CASE Kept = 0
      BY <1>6, <1>8, <2>1, <3>2, Places DEF FifoPairs
    <3>3. QED
      BY <3>1, <3>2, Places
  <2>3. QED
    BY <1>4, <1>7, <1>10, <2>1, <2>2 DEF GoePlace, GoeRests, LastWord
<1>11. CASE GoeStarts
  <2>1. /\ ~CmdHead(goeOut) /\ ~goeOut'.wr /\ Gone = 0 /\ Kept >= 1
        /\ ~CmdHead(goeOut') /\ ~CmdTail(goeOut')
    BY <1>2, <1>7, <1>11, Places DEF GoePlace, GoeStarts, Gone
  <2>2. CmdHead(goeFifo[1]) /\ goeFifo'[1] = goeFifo[1]
    BY <1>2, <1>5, <1>11, <2>1 DEF GoePlace, GoeStarts
  <2>3. Len(goeFifo') >= 2
    <3>1. CASE Kept = 1
      <4>1. CmdTail(rdCout)
        <5>1. Len(goeFifo) = 1 /\ goeFifo # <<>>
          BY <2>1, <3>1, Places
        <5>2. CmdHead(goeFifo[Len(goeFifo)])
          BY <2>2, <5>1
        <5>3. QED
          BY <1>8, <5>1, <5>2 DEF FifoPairs
      <4>2. QED
        BY <3>1, <4>1, Places
    <3>2. CASE Kept >= 2
      BY <3>2, Places
    <3>3. QED
      BY <2>1, <3>1, <3>2, Places
  <2>4. \/ goeState' = "write" /\ SetHead(goeFifo'[1], AfterRd)
        \/ goeState' = "tran" /\ AnswerHead(goeFifo'[1])
    BY <1>11, <2>2 DEF GoeStarts
  <2>5. AnswerHead(goeFifo'[1]) => AnswerHead(goeFifo[1])'
    BY DEF FifoBefore, AnswerHead, Waiting
  <2>6. SetHead(goeFifo'[1], AfterRd) => SetHead(goeFifo[1], AfterRd)'
    BY DEF SetHead, ToSet
  <2>7. Framed(goeOut)'
    BY <2>1 DEF Framed
  <2>8. goeFifo' # <<>>
    BY <2>3, Places
  <2>9. dmaHead' = Quiet
    BY <1>4, <2>1
  <2>10. CmdHead(goeFifo'[1])
    BY <2>2
  <2>11. QED
    BY <2>1, <2>3, <2>4, <2>5, <2>6, <2>7, <2>8, <2>9, <2>10 DEF GoePlace, LastWord
<1>12. CASE GoeStores
  <2>1. /\ ~goeOut.wr /\ ~CmdHead(goeOut) /\ ~goeOut'.wr /\ Gone = 1 /\ Kept >= 1
        /\ ~CmdHead(goeOut') /\ ~CmdTail(goeOut') /\ CmdHead(goeFifo[1])
    BY <1>2, <1>3, <1>12, Places DEF GoePlace, GoeStores, Gone
  <2>2. CmdTail(goeFifo'[1])
    BY <1>5, <1>8, <2>1, Places DEF FifoPairs
  <2>3. goeFifo' # <<>>
    BY <2>1, Places
  <2>4. QED
    BY <1>4, <1>12, <2>1, <2>2, <2>3 DEF GoePlace, GoeStores, LastWord, Framed
<1>13. CASE GoeDrops
  <2>1. /\ ~goeOut.wr /\ ~CmdHead(goeOut) /\ ~goeOut'.wr /\ Gone = 1
        /\ ~CmdHead(goeOut') /\ ~CmdTail(goeOut') /\ CmdTail(goeFifo[1])
        /\ goeFifo # <<>>
    BY <1>2, <1>3, <1>13 DEF GoePlace, GoeDrops, Gone, CmdHead, CmdTail
  <2>2. goeFifo' # <<>> => CmdHead(goeFifo'[1])
    <3>1. CASE Kept >= 1
      BY <1>5, <1>8, <2>1, <3>1, Places DEF FifoPairs
    <3>2. CASE Kept = 0
      <4>1. Len(goeFifo) = 1 /\ goeFifo # <<>>
        BY <2>1, <3>2, Places
      <4>2. ~CmdHead(goeFifo[Len(goeFifo)])
        BY <2>1, <4>1, Places DEF CmdHead, CmdTail
      <4>3. ~CmdTail(rdCout)
        BY <1>8, <4>1, <4>2 DEF FifoPairs
      <4>4. QED
        BY <1>6, <3>2, <4>3, Places
    <3>3. QED
      BY <3>1, <3>2, Places
  <2>3. QED
    BY <1>4, <1>13, <2>1, <2>2 DEF GoePlace, GoeDrops, LastWord, Framed
<1>14. CASE GoeAnswers /\ CmdHead(goeFifo[1])
  <2>1. goeState = "tran" /\ goeFifo # <<>>
    BY <1>2, <1>14, Places DEF GoePlace, GoeAnswers
  <2>2. ~CmdTail(goeFifo[1])
    BY <1>14, <2>1, Places
  <2>3. /\ Len(goeFifo) >= 2 /\ AnswerHead(goeFifo[1]) /\ ~goeOut.wr
    BY <1>2, <2>1, <2>2 DEF GoePlace
  <2>4. Gone = 1 /\ Kept >= 1 /\ goeState' = "tran"
    BY <1>14, <2>1, <2>2, <2>3, Places DEF Gone, GoeAnswers
  <2>5. CmdTail(goeFifo'[1]) /\ goeFifo'[1].id = goeFifo[1].id
    BY <1>5, <1>8, <1>14, <2>3, <2>4, Places DEF FifoPairs
  <2>6. goeFifo[1].id = 1 /\ Waiting
    BY <2>3 DEF AnswerHead
  <2>7. CmdHead(goeOut') /\ ~CmdTail(goeOut') /\ goeOut'.id = 1
    BY <1>14, <2>6 DEF GoeAnswers, Shows, CmdHead, CmdTail
  <2>8. AnswerHead(goeOut)'
    BY <1>14, <2>3 DEF GoeAnswers, Shows, AnswerHead, Waiting, FifoBefore
  <2>9. dmaHead' = Quiet
    BY <1>3, <1>4, <2>3
  <2>10. goeFifo' # <<>> /\ ~CmdHead(goeFifo'[1])
    BY <2>4, <2>5, Places DEF CmdHead, CmdTail
  <2>11. Framed(goeOut)'
    BY <2>7 DEF Framed, CmdHead
  <2>12. QED
    BY <2>4, <2>5, <2>6, <2>7, <2>8, <2>9, <2>10, <2>11 DEF GoePlace, LastWord
<1>15. CASE GoeAnswers /\ ~CmdHead(goeFifo[1])
  <2>1. /\ goeState = "tran" /\ goeFifo # <<>> /\ CmdTail(goeFifo[1])
        /\ goeFifo[1].id = 1 /\ CmdHead(goeOut) /\ AnswerHead(goeOut)
    BY <1>2, <1>15 DEF GoePlace, GoeAnswers
  <2>2. 1 \in 1 .. Len(goeFifo)
    BY <2>1, Places
  <2>3. Len(goeFifo) = 1 /\ Waiting /\ Behind5
    BY <2>1, <2>2 DEF FifoBefore, Alone, LastWord
  <2>4. ~rdCout.wr /\ Behind5'
    BY <2>3 DEF FifoBefore, Behind5
  <2>5. goeFifo' = <<>>
    BY <2>1, <2>3, <2>4, Places
  <2>6. goeState' = "idle" /\ CmdTail(goeOut') /\ ~CmdHead(goeOut') /\ goeOut'.id = 1
    BY <1>15, <2>1 DEF GoeAnswers, Shows, CmdHead, CmdTail
  <2>7. CmdHead(dmaHead') /\ dmaHead'.dst = AntMid
    BY <1>1, <2>1 DEF AnswerHead
  <2>8. Framed(goeOut)'
    BY <2>6 DEF Framed, CmdTail
  <2>9. GoePlace'
    BY <2>5, <2>6, <2>7, <2>8 DEF GoePlace
  <2>10. QED
    BY <2>3, <2>4, <2>5, <2>9 DEF Behind6
<1>16. QED
  BY <1>10, <1>11, <1>12, <1>13, <1>14, <1>15 DEF FifoBefore, GoeOutcome
-----------------------------------------------------------------------------
(***************************************************************************)
(* A clock of the whole chain in which no answer reaches the caller.       *)
(***************************************************************************)
Loads(mid, in, regs, bits) ==
  IF Takes(mid, in) /\ in.reg \in DOMAIN bits
  THEN [regs EXCEPT ![in.reg] = Cut(in.val, bits[in.reg])] ELSE regs

ClockDoes(in) ==
  /\ in \in CmdBeat /\ Framed(in)
  /\ TailSent(in) \/ HeadSent(in) \/ NoneSent(in)
  /\ ScmOutcome(in) /\ ScmWire(in) /\ ScmAlone /\ ScmRoom(in)
  /\ ScmPairs' /\ ScmHolds'
  /\ Passes(PgmWrMid, scmCout, wrCout, wrCout', AfterScm)
  /\ Passes(PgmRdMid, wrCout, rdCout, rdCout', AfterWr)
  /\ Follows(scmCout, wrFlag, wrCout)' /\ Follows(wrCout, rdFlag, rdCout)'
  /\ wrRegs' = Loads(PgmWrMid, scmCout, wrRegs, WrBits)
  /\ rdRegs' = Loads(PgmRdMid, wrCout, rdRegs, RdBits)
  /\ GoeOutcome /\ FifoMoves

LEMMA ClockFacts ==
  ASSUME Traffic, Sane, NEW in, NEW dmaReady \in BOOLEAN, DmaSends(in),
         ChainClock(in, dmaReady), DmaReceives, last' = last, call' = call
  PROVE  ClockDoes(in) /\ Ranges'
<1>1. /\ Ranges /\ Wires /\ Queued /\ ScmPairs /\ ScmHolds /\ FifoPairs
      /\ Follows(scmCout, wrFlag, wrCout) /\ Follows(wrCout, rdFlag, rdCout)
      /\ GoePlace /\ Alone /\ Roomy
  BY DEF Traffic, Pairs
<1>2. /\ SCM!ScmCtlClock(in, GOE!GoeReady)
      /\ PGM_WR!RegClock(scmCout) /\ PGM_RD!RegClock(wrCout)
      /\ GOE!GoeClock(rdCout, dmaReady, goeCount)
      /\ goeCount' = GOE!GoeStored(goeCount)
  BY DEF ChainClock
<1>3. /\ in \in CmdBeat /\ Framed(in)
      /\ TailSent(in) \/ HeadSent(in) \/ NoneSent(in)
      /\ queue' \in Seq(Cmds) /\ dmaTail' \in Seq(Cmds) /\ Len(dmaTail') <= 1
  BY <1>1, Offered
<1>4. ScmOutcome(in) /\ ScmTypes'
  BY <1>1, <1>2, ScmDoes
<1>5. ScmWire(in) /\ ScmAlone /\ ScmRoom(in) /\ ScmPairs' /\ ScmHolds'
  BY <1>1, <1>3, <1>4, ScmPlaces DEF ScmBefore
<1>6. Framed(scmCout) /\ Known(scmCout, AfterScm) /\ Framed(wrCout) /\ Known(wrCout, AfterWr)
  BY <1>1 DEF Wires
<1>7. /\ scmCout \in CmdBeat /\ wrCout \in CmdBeat /\ rdCout \in CmdBeat
      /\ wrFlag \in BOOLEAN /\ rdFlag \in BOOLEAN
  BY <1>1 DEF Ranges
<1>8. /\ RegOutcome(PgmWrMid, scmCout, wrFlag, wrFlag', wrCout')
      /\ wrCout' \in CmdBeat /\ wrFlag' \in BOOLEAN
      /\ wrRegs' \in [DOMAIN WrBits -> Int]
      /\ wrRegs' = Loads(PgmWrMid, scmCout, wrRegs, WrBits)
  BY <1>1, <1>2, <1>6, WrDoes DEF Loads
<1>9. /\ RegOutcome(PgmRdMid, wrCout, rdFlag, rdFlag', rdCout')
      /\ rdCout' \in CmdBeat /\ rdFlag' \in BOOLEAN
      /\ rdRegs' \in [DOMAIN RdBits -> Int]
      /\ rdRegs' = Loads(PgmRdMid, wrCout, rdRegs, RdBits)
  BY <1>1, <1>2, <1>6, RdDoes DEF Loads
<1>10. PgmWrMid \in AfterScm /\ PgmRdMid \in AfterWr
  BY DEF AfterScm, AfterWr
<1>11. /\ scmCout' \in CmdBeat
       /\ CmdTail(scmCout') <=> CmdHead(scmCout)
       /\ CmdHead(scmCout) => scmCout'.id = scmCout.id
  BY <1>4, <1>5 DEF ScmTypes, ScmWire
<1>12. /\ Passes(PgmWrMid, scmCout, wrCout, wrCout', AfterScm)
       /\ Follows(scmCout', wrFlag', wrCout')
  BY <1>1, <1>6, <1>7, <1>8, <1>10, <1>11, BlockStep
<1>13. /\ CmdTail(wrCout') <=> CmdHead(wrCout)
       /\ CmdHead(wrCout) => wrCout'.id = wrCout.id
  BY <1>12 DEF Passes
<1>14. /\ Passes(PgmRdMid, wrCout, rdCout, rdCout', AfterWr)
       /\ Follows(wrCout', rdFlag', rdCout')
  BY <1>1, <1>6, <1>7, <1>8, <1>9, <1>10, <1>13, BlockStep
<1>15. Follows(scmCout, wrFlag, wrCout)' /\ Follows(wrCout, rdFlag, rdCout)'
  BY <1>12, <1>14 DEF Follows
<1>16. /\ GoeOutcome /\ FifoMoves
       /\ goeFifo' \in Seq(CmdBeat) /\ goeOut' \in CmdBeat /\ goeCount' \in Int
       /\ goeState' \in {"idle", "write", "tran", "discard"}
       /\ goeRd' = (goeState' # "idle")
  BY <1>1, <1>2, GoeDoes
<1>17. ClockDoes(in)
  BY <1>3, <1>4, <1>5, <1>8, <1>9, <1>12, <1>14, <1>15, <1>16 DEF ClockDoes
<1>18. dmaHead' \in CmdBeat
  BY <1>1, QuietFacts DEF DmaReceives, Ranges
<1>19. scmCtl' \in {"IDLE", "WAIT", "RESP1", "RESP2"}
  BY <1>4 DEF ScmOutcome, ScmSilent, ScmSecondWord, ScmTakes, ScmAnswers, ScmForwards,
              ScmAsks, ScmWaits, ScmTells, ScmTellsOn, ScmStays
<1>20. Ranges'
  <2>1. /\ call' \in [st : {"idle", "waiting", "returned"},
                      name : CallNames, val : Int]
        /\ last' \in [DOMAIN LibAnt -> Int]
    BY <1>1 DEF Ranges
  <2>2. QED
    BY <1>3, <1>4, <1>8, <1>9, <1>16, <1>18, <1>19, <2>1 DEF Ranges, ScmTypes
<1>21. QED
  BY <1>17, <1>20

LEMMA SendingMovesWords ==
  ASSUME Ranges, Ranges', NEW in, TailSent(in) \/ HeadSent(in) \/ NoneSent(in)
  PROVE  /\ 2 * Len(queue') + Len(dmaTail') + One(in) <= 2 * Len(queue) + Len(dmaTail)
         /\ Len(queue) \in Nat /\ Len(queue') \in Nat
         /\ Len(dmaTail) \in Nat /\ Len(dmaTail') \in Nat
<1>1. /\ queue \in Seq(Cmds) /\ queue' \in Seq(Cmds)
      /\ dmaTail \in Seq(Cmds) /\ dmaTail' \in Seq(Cmds)
  BY DEF Ranges
<1>2. /\ Len(queue) \in Nat /\ Len(queue') \in Nat
      /\ Len(dmaTail) \in Nat /\ Len(dmaTail') \in Nat
  BY <1>1
<1>3. CASE TailSent(in)
  <2>1. Len(dmaTail) >= 1 /\ Len(dmaTail') = 0 /\ queue' = queue
    BY <1>1, <1>3 DEF TailSent
  <2>2. QED
    BY <1>2, <2>1 DEF One
<1>4. CASE HeadSent(in)
  <2>1. /\ Len(dmaTail) = 0 /\ Len(dmaTail') = 1
        /\ queue # <<>> /\ queue' = Tail(queue)
    BY <1>4 DEF HeadSent
  <2>2. Len(queue') = Len(queue) - 1
    BY <1>1, <2>1, HeadTailProperties
  <2>3. QED
    BY <1>2, <2>1, <2>2 DEF One
<1>5. CASE NoneSent(in)
  <2>1. queue' = queue /\ dmaTail' = dmaTail /\ One(in) = 0
    BY <1>5, QuietFacts DEF NoneSent, One
  <2>2. QED
    BY <1>2, <2>1
<1>6. QED
  BY <1>2, <1>3, <1>4, <1>5

\* Nothing comes to stand behind an answer.
LEMMA NothingBehind ==
  ASSUME Ranges, Ranges', Wires, NEW in, ClockDoes(in)
  PROVE  /\ Behind2 => Behind3'
         /\ Behind3 => Behind4'
         /\ Behind4 => Behind5'
<1>1. Behind2 => Behind3'
  BY DEF ClockDoes, ScmAlone, Behind3
<1>2. ~scmCout.wr => ~wrCout'.wr
  BY DEF ClockDoes, Passes, One
<1>3. ~wrCout.wr => ~rdCout'.wr
  BY DEF ClockDoes, Passes, One
<1>4. Behind3 => Behind4'
  BY <1>1, <1>2 DEF Behind3, Behind4
<1>5. Behind4 => Behind5'
  BY <1>3, <1>4 DEF Behind4, Behind5
<1>6. QED
  BY <1>1, <1>4, <1>5

LEMMA ClockTraffic ==
  ASSUME Traffic, Sane, NEW in, NEW dmaReady \in BOOLEAN, DmaSends(in),
         ChainClock(in, dmaReady), DmaReceives, last' = last, call' = call
  PROVE  Traffic'
<1>1. ClockDoes(in) /\ Ranges'
  BY ClockFacts
<1>2. /\ Ranges /\ Wires /\ Queued /\ Pairs /\ GoePlace /\ Alone /\ Roomy
  BY DEF Traffic
<1>3. /\ Behind2 => Behind3'
      /\ Behind3 => Behind4'
      /\ Behind4 => Behind5'
  BY <1>1, <1>2, NothingBehind
<1>4. AfterScm \ {PgmWrMid} = AfterWr /\ AfterWr \ {PgmRdMid} = AfterRd
  BY Mids DEF AfterScm, AfterWr, AfterRd
<1>5. FifoBefore
  BY <1>1, <1>2, <1>3 DEF FifoBefore, Pairs, ClockDoes, Passes, Ranges
<1>6. Wires'
  <2>1. Framed(scmCout') /\ Known(scmCout', AfterScm)
    BY <1>1 DEF ClockDoes, ScmWire
  <2>2. Framed(wrCout') /\ Known(wrCout', AfterWr)
    BY <1>1, <1>4 DEF ClockDoes, Passes
  <2>3. Framed(rdCout') /\ Known(rdCout', AfterRd)
    BY <1>1, <1>4 DEF ClockDoes, Passes
  <2>4. \A i \in 1 .. Len(goeFifo') :
           goeFifo'[i].wr /\ Framed(goeFifo'[i]) /\ Known(goeFifo'[i], AfterRd)
    BY <1>5, FifoWords
  <2>5. Known(scmCout', AfterScm) => Known(scmCout, AfterScm)'
    BY DEF Known, SetHead, AskHead, AnswerHead, ToSet, ToAsk, Waiting
  <2>6. Known(wrCout', AfterWr) => Known(wrCout, AfterWr)'
    BY DEF Known, SetHead, AskHead, AnswerHead, ToSet, ToAsk, Waiting
  <2>7. Known(rdCout', AfterRd) => Known(rdCout, AfterRd)'
    BY DEF Known, SetHead, AskHead, AnswerHead, ToSet, ToAsk, Waiting
  <2>8. ASSUME NEW i \in 1 .. Len(goeFifo')
        PROVE  Known(goeFifo'[i], AfterRd) => Known(goeFifo[i], AfterRd)'
    BY DEF Known, SetHead, AskHead, AnswerHead, ToSet, ToAsk, Waiting
  <2>9. QED
    BY <2>1, <2>2, <2>3, <2>4, <2>5, <2>6, <2>7, <2>8 DEF Wires, Framed
<1>7. Queued'
  <2>1. queue' = queue \/ (queue # <<>> /\ queue' = Tail(queue))
    BY <1>1 DEF ClockDoes, TailSent, HeadSent, NoneSent
  <2>2. queue \in Seq(Cmds)
    BY <1>2 DEF Ranges
  <2>3. CASE queue' = queue
    BY <1>2, <2>3 DEF Queued, ToSet, ToAsk, Waiting
  <2>4. CASE queue # <<>> /\ queue' = Tail(queue)
    <3>1. /\ Len(queue') = Len(queue) - 1 /\ Len(queue) \in Nat
          /\ \A i \in 1 .. Len(queue') : queue'[i] = queue[i + 1]
      BY <2>2, <2>4, HeadTailProperties
    <3>2. ASSUME NEW i \in 1 .. Len(queue')
          PROVE  LET c == queue'[i]
                 IN  \/ ToSet(c.op, c.mid, c.reg, c.id)
                     \/ /\ i = Len(queue') /\ Waiting
                        /\ ToAsk(c.op, c.mid, c.reg, c.id)
      <4>1. queue'[i] = queue[i + 1] /\ i + 1 \in 1 .. Len(queue)
        BY <3>1
      <4>2. i = Len(queue') <=> i + 1 = Len(queue)
        BY <3>1
      <4>3. QED
        BY <1>2, <4>1, <4>2 DEF Queued
    <3>3. QED
      BY <3>2 DEF Queued, ToSet, ToAsk, Waiting
  <2>5. QED
    BY <2>1, <2>3, <2>4
<1>8. Pairs'
  BY <1>1, <1>5, FifoInPairs DEF Pairs, ClockDoes
<1>9. GoePlace' /\ (LastWord(goeOut') => Waiting /\ Behind6')
  BY <1>5, GoeGoesOn
<1>10. Alone'
  <2>1. Waiting' = Waiting
    BY DEF Waiting
  <2>2. dmaTail' # <<>> /\ dmaTail'[1].id = 1 => Waiting /\ Behind1'
    BY <1>1 DEF ClockDoes, ScmAlone
  <2>3. LastWord(scmCout') => Waiting /\ Behind2'
    BY <1>1 DEF ClockDoes, ScmAlone
  <2>4. LastWord(wrCout') => Waiting /\ Behind3'
    <3>1. LastWord(wrCout') => LastWord(scmCout)
      BY <1>1 DEF ClockDoes, Passes, LastWord
    <3>2. QED
      BY <1>2, <1>3, <3>1 DEF Alone
  <2>5. LastWord(rdCout') => Waiting /\ Behind4'
    <3>1. LastWord(rdCout') => LastWord(wrCout)
      BY <1>1 DEF ClockDoes, Passes, LastWord
    <3>2. QED
      BY <1>2, <1>3, <3>1 DEF Alone
  <2>6. \A i \in 1 .. Len(goeFifo') :
           LastWord(goeFifo'[i]) => i = Len(goeFifo') /\ Waiting /\ Behind5'
    BY <1>5, FifoAlone
  <2>7. call'.st = "returned" => Behind6' /\ ~goeOut'.wr /\ goeState' = "idle"
    <3> SUFFICES ASSUME call.st = "returned"
                 PROVE  Behind6' /\ ~goeOut'.wr /\ goeState' = "idle"
      OBVIOUS
    <3>1. Behind6 /\ goeState = "idle"
      BY <1>2 DEF Alone
    <3>2. Behind5' /\ goeFifo = <<>> /\ ~rdCout.wr
      BY <1>3, <3>1 DEF Behind6, Behind5
    <3>3. goeFifo' = <<>>
      BY <1>5, <3>1, <3>2, Places
    <3>4. GoeRests
      BY <1>1, <3>1, <3>2 DEF ClockDoes, GoeOutcome, GoeStarts, GoeStores, GoeDrops, GoeAnswers
    <3>5. QED
      BY <3>2, <3>3, <3>4, QuietFacts DEF GoeRests, Behind6
  <2>8. QED
    BY <1>9, <2>1, <2>2, <2>3, <2>4, <2>5, <2>6, <2>7 DEF Alone, LastWord
<1>11. Roomy'
  <2>1. /\ Unsent' + One(in) <= Unsent
        /\ Unsent \in Nat /\ Unsent' \in Nat
    <3>1. /\ 2 * Len(queue') + Len(dmaTail') + One(in) <= 2 * Len(queue) + Len(dmaTail)
          /\ Len(queue) \in Nat /\ Len(queue') \in Nat
          /\ Len(dmaTail) \in Nat /\ Len(dmaTail') \in Nat
      BY <1>1, <1>2, SendingMovesWords DEF ClockDoes
    <3>2. QED
      BY <3>1 DEF Unsent
  <2>2. /\ One(scmCout') \in {0, 1} /\ One(wrCout') \in {0, 1} /\ One(rdCout') \in {0, 1}
        /\ One(scmCout) \in {0, 1} /\ One(wrCout) \in {0, 1} /\ One(rdCout) \in {0, 1}
        /\ One(in) \in {0, 1}
    BY DEF One
  <2>3. /\ One(scmCout') + Held' <= One(in) + Held
        /\ One(wrCout') <= One(scmCout) /\ One(rdCout') <= One(wrCout)
    BY <1>1 DEF ClockDoes, ScmRoom, Passes
  <2>4. Held \in Nat /\ Held' \in Nat
    BY DEF Held
  <2>5. /\ OnWires' + One(rdCout) + Held' <= One(in) + OnWires + Held
        /\ OnWires \in Nat /\ OnWires' \in Nat
    <3>1. OnWires' = One(scmCout') + One(wrCout') + One(rdCout')
      BY DEF OnWires, One
    <3>2. QED
      BY <2>2, <2>3, <2>4, <3>1 DEF OnWires
  <2>6. Len(goeFifo') <= Len(goeFifo) + One(rdCout) /\ Len(goeFifo) \in Nat /\ Len(goeFifo') \in Nat
    BY <1>5, Places DEF One
  <2>7. Crowd' = Unsent' + Len(goeFifo') + OnWires' + Held'
    BY DEF Crowd
  <2>8. Crowd = Unsent + Len(goeFifo) + OnWires + Held /\ Crowd <= CtrlDepth
    BY <1>2 DEF Crowd, Roomy
  <2>9. CtrlDepth \in Nat
    BY ChainAssumption
  <2>10. PICK u2, w2, h2 \in Nat : u2 = Unsent' /\ w2 = OnWires' /\ h2 = Held'
    BY <2>1, <2>4, <2>5
  <2>11. u2 + w2 + h2 + One(rdCout) <= Unsent + OnWires + Held
    BY <2>1, <2>2, <2>4, <2>5, <2>10
  <2>12. u2 + Len(goeFifo') + w2 + h2 <= Unsent + Len(goeFifo) + OnWires + Held
    BY <2>1, <2>2, <2>4, <2>5, <2>6, <2>11, SMTT(30)
  <2>13. u2 + Len(goeFifo') + w2 + h2 <= CtrlDepth
    BY <2>1, <2>4, <2>5, <2>6, <2>8, <2>9, <2>12
  <2>14. QED
    BY <2>7, <2>10, <2>13 DEF Roomy
<1>12. QED
  BY <1>1, <1>6, <1>7, <1>8, <1>9, <1>10, <1>11 DEF Traffic
\* A chain with nothing on it.
Empty == Behind6 /\ goeState = "idle" /\ goeOut = Quiet /\ dmaHead = Quiet

LEMMA EmptyTraffic == Ranges /\ Empty => Traffic
<1> SUFFICES ASSUME Ranges, Empty PROVE Traffic
  OBVIOUS
<1>1. /\ queue = <<>> /\ dmaTail = <<>> /\ scmCtl = "IDLE"
      /\ ~scmCout.wr /\ ~wrCout.wr /\ ~rdCout.wr /\ goeFifo = <<>>
      /\ goeState = "idle" /\ goeOut = Quiet /\ dmaHead = Quiet
  BY DEF Empty, Behind1, Behind2, Behind3, Behind4, Behind5, Behind6
<1>2. /\ ~Quiet.wr /\ Framed(Quiet) /\ ~CmdHead(Quiet) /\ ~CmdTail(Quiet)
  BY QuietFacts
<1>3. /\ ~CmdHead(scmCout) /\ ~CmdTail(scmCout) /\ ~CmdHead(wrCout) /\ ~CmdTail(wrCout)
      /\ ~CmdHead(rdCout) /\ ~CmdTail(rdCout)
  BY <1>1 DEF CmdHead, CmdTail
<1>4. Len(queue) = 0 /\ Len(dmaTail) = 0 /\ Len(goeFifo) = 0
  BY <1>1
<1>5. Wires
  BY <1>1, <1>3, <1>4 DEF Wires, Framed, Known
<1>6. Queued
  BY <1>4 DEF Queued
<1>7. ScmPairs /\ ScmHolds
  BY <1>1, <1>3 DEF ScmPairs, ScmHolds
<1>8. Follows(scmCout, wrFlag, wrCout) /\ Follows(wrCout, rdFlag, rdCout)
  BY <1>3 DEF Follows
<1>9. FifoPairs
  BY <1>1, <1>3, <1>4 DEF FifoPairs
<1>10. GoePlace
  BY <1>1, <1>2 DEF GoePlace
<1>11. Alone
  BY <1>1, <1>2, <1>3, <1>4 DEF Empty, Alone, LastWord
<1>12. Roomy
  BY <1>1, <1>4, ChainAssumption DEF Roomy, Crowd, Unsent, OnWires, One, Held
<1>13. QED
  BY <1>5, <1>6, <1>7, <1>8, <1>9, <1>10, <1>11, <1>12 DEF Traffic, Pairs

(***************************************************************************)
(* The clock in which the second word of the answer reaches the caller:    *)
(* nothing is on the chain any more.                                       *)
(***************************************************************************)
LEMMA AnswerArrives ==
  ASSUME Traffic, Sane, NEW in, NEW dmaReady \in BOOLEAN, DmaSends(in),
         ChainClock(in, dmaReady), DmaReceives, last' = last, call' # call
  PROVE  /\ Empty' /\ Ranges' /\ call'.name = call.name
         /\ scmRegs' = scmRegs /\ wrRegs' = wrRegs /\ rdRegs' = rdRegs
         /\ goeCount' = goeCount /\ Behind6
<1>1. /\ Ranges /\ Wires /\ Queued /\ Pairs /\ GoePlace /\ Alone /\ Roomy
      /\ ScmHolds
  BY DEF Traffic, Pairs
<1>2. /\ CmdTail(goeOut) /\ goeOut.id = 1 /\ call.st = "waiting"
      /\ call' = [call EXCEPT !.st = "returned", !.val = dmaHead.val]
      /\ dmaHead' = Quiet
  BY DEF DmaReceives, CmdHead, CmdTail
<1>3. Behind6 /\ goeState = "idle"
  BY <1>1, <1>2 DEF Alone, LastWord, GoePlace
<1>4. /\ queue = <<>> /\ dmaTail = <<>> /\ scmCtl = "IDLE"
      /\ ~scmCout.wr /\ ~wrCout.wr /\ ~rdCout.wr /\ goeFifo = <<>>
  BY <1>3 DEF Behind1, Behind2, Behind3, Behind4, Behind5, Behind6
<1>5. /\ SCM!ScmCtlClock(in, GOE!GoeReady)
      /\ PGM_WR!RegClock(scmCout) /\ PGM_RD!RegClock(wrCout)
      /\ GOE!GoeClock(rdCout, dmaReady, goeCount)
      /\ goeCount' = GOE!GoeStored(goeCount)
  BY DEF ChainClock
<1>6. /\ in \in CmdBeat /\ NoneSent(in)
      /\ queue' \in Seq(Cmds) /\ dmaTail' \in Seq(Cmds) /\ Len(dmaTail') <= 1
  BY <1>1, <1>4, Offered DEF TailSent, HeadSent
<1>7. ~CmdHead(in) /\ ~CmdTail(in)
  BY <1>6, QuietFacts DEF NoneSent
<1>8. ScmOutcome(in) /\ ScmTypes'
  BY <1>1, <1>5, ScmDoes
<1>9. ScmSilent(in)
  BY <1>4, <1>8 DEF ScmOutcome, ScmSecondWord, ScmTakes, ScmAnswers, ScmForwards,
                    ScmAsks, ScmWaits, ScmTells, ScmTellsOn, TailSent, HeadSent
<1>10. /\ queue' = <<>> /\ dmaTail' = <<>> /\ scmCtl' = "IDLE" /\ ~scmCout'.wr
       /\ scmRegs' = scmRegs
  BY <1>4, <1>6, <1>9 DEF NoneSent, ScmSilent, ScmStays, ScmKeeps
<1>11. Framed(scmCout) /\ Framed(wrCout)
  BY <1>1 DEF Wires
<1>12. /\ RegOutcome(PgmWrMid, scmCout, wrFlag, wrFlag', wrCout')
       /\ wrCout' \in CmdBeat /\ wrFlag' \in BOOLEAN
       /\ wrRegs' \in [DOMAIN WrBits -> Int]
       /\ wrRegs' = Loads(PgmWrMid, scmCout, wrRegs, WrBits)
  BY <1>1, <1>5, <1>11, WrDoes DEF Loads
<1>13. /\ RegOutcome(PgmRdMid, wrCout, rdFlag, rdFlag', rdCout')
       /\ rdCout' \in CmdBeat /\ rdFlag' \in BOOLEAN
       /\ rdRegs' \in [DOMAIN RdBits -> Int]
       /\ rdRegs' = Loads(PgmRdMid, wrCout, rdRegs, RdBits)
  BY <1>1, <1>5, <1>11, RdDoes DEF Loads
<1>14. ~wrCout'.wr /\ ~rdCout'.wr /\ wrRegs' = wrRegs /\ rdRegs' = rdRegs
  BY <1>4, <1>12, <1>13, QuietFacts DEF RegOutcome, Takes, Turns, CmdHead, CmdTail, Loads
<1>15. /\ GoeOutcome /\ FifoMoves
       /\ goeFifo' \in Seq(CmdBeat) /\ goeOut' \in CmdBeat /\ goeCount' \in Int
       /\ goeState' \in {"idle", "write", "tran", "discard"}
       /\ goeRd' = (goeState' # "idle")
  BY <1>1, <1>5, GoeDoes
<1>16. GoeRests
  BY <1>3, <1>4, <1>15 DEF GoeOutcome, GoeStarts, GoeStores, GoeDrops, GoeAnswers
<1>17. goeFifo' = <<>>
  <2>1. Len(goeFifo') = 0
    BY <1>3, <1>4, <1>15 DEF FifoMoves, Kept, Gone, One
  <2>2. QED
    BY <1>15, <2>1
<1>18. goeState' = "idle" /\ goeOut' = Quiet /\ goeCount' = goeCount
  BY <1>16 DEF GoeRests
<1>19. Empty'
  BY <1>2, <1>10, <1>14, <1>17, <1>18
     DEF Empty, Behind1, Behind2, Behind3, Behind4, Behind5, Behind6
<1>20. Ranges'
  <2>1. /\ call' \in [st : {"idle", "waiting", "returned"},
                      name : CallNames, val : Int]
        /\ call'.name = call.name
    <3>1. dmaHead.val \in Int
      BY <1>1 DEF Ranges, CmdBeat
    <3>2. QED
      BY <1>1, <1>2, <3>1 DEF Ranges
  <2>2. last' \in [DOMAIN LibAnt -> Int] /\ dmaHead' \in CmdBeat
    BY <1>1, <1>2, QuietFacts DEF Ranges
  <2>3. QED
    BY <1>6, <1>8, <1>10, <1>12, <1>13, <1>15, <2>1, <2>2 DEF Ranges, ScmTypes
<1>21. call'.name = call.name
  BY <1>1, <1>2 DEF Ranges
<1>22. QED
  BY <1>3, <1>10, <1>14, <1>18, <1>19, <1>20, <1>21

LEMMA ClockKeepsTraffic ==
  ASSUME Traffic, Sane, NEW dmaReady \in BOOLEAN, Clock(dmaReady)
  PROVE  Traffic'
<1>1. PICK in : DmaSends(in) /\ ChainClock(in, dmaReady)
  BY DEF Clock
<1>2. DmaReceives /\ last' = last
  BY DEF Clock
<1>3. CASE call' = call
  BY <1>1, <1>2, <1>3, ClockTraffic
<1>4. CASE call' # call
  <2>1. Ranges' /\ Empty'
    BY <1>1, <1>2, <1>4, AnswerArrives
  <2>2. Ranges' /\ Empty' => Traffic'
    BY EmptyTraffic, PTL
  <2>3. QED
    BY <2>1, <2>2
<1>5. QED
  BY <1>3, <1>4-----------------------------------------------------------------------------
(***************************************************************************)
(* The calls of the library.                                               *)
(***************************************************************************)
LEMMA WordsOnWires ==
  ASSUME Ranges
  PROVE  Cardinality({i \in 1 .. 3 : <<scmCout, wrCout, rdCout>>[i].wr}) = OnWires
<1>1. scmCout.wr \in BOOLEAN /\ wrCout.wr \in BOOLEAN /\ rdCout.wr \in BOOLEAN
  BY DEF Ranges, CmdBeat
<1> DEFINE A == IF scmCout.wr THEN {1} ELSE {}
           B == IF wrCout.wr THEN A \cup {2} ELSE A
           C == IF rdCout.wr THEN B \cup {3} ELSE B
<1>2. {i \in 1 .. 3 : <<scmCout, wrCout, rdCout>>[i].wr} = C
  <2>1. 1 .. 3 = {1, 2, 3}
    OBVIOUS
  <2>2. /\ <<scmCout, wrCout, rdCout>>[1] = scmCout
        /\ <<scmCout, wrCout, rdCout>>[2] = wrCout
        /\ <<scmCout, wrCout, rdCout>>[3] = rdCout
    OBVIOUS
  <2>3. QED
    BY <2>1, <2>2
<1>3. IsFiniteSet(A) /\ Cardinality(A) = One(scmCout)
  BY FS_EmptySet, FS_Singleton DEF One
<1>4. IsFiniteSet(B) /\ Cardinality(B) = One(scmCout) + One(wrCout)
  <2>1. 2 \notin A /\ One(scmCout) \in Nat
    BY DEF One
  <2>2. /\ IsFiniteSet(A \cup {2})
        /\ Cardinality(A \cup {2}) = Cardinality(A) + 1
    BY <1>3, <2>1, FS_AddElement
  <2>3. QED
    BY <1>3, <2>1, <2>2 DEF One
<1>5. IsFiniteSet(C) /\ Cardinality(C) = One(scmCout) + One(wrCout) + One(rdCout)
  <2>1. 3 \notin B /\ One(scmCout) + One(wrCout) \in Nat
    BY DEF One
  <2>2. /\ IsFiniteSet(B \cup {3})
        /\ Cardinality(B \cup {3}) = Cardinality(B) + 1
    BY <1>4, <2>1, FS_AddElement
  <2>3. QED
    BY <1>4, <2>1, <2>2 DEF One
<1>6. QED
  BY <1>2, <1>5 DEF OnWires

\* While nobody waits there is no read and no answer anywhere.
OnlyWrites ==
  /\ scmCtl = "IDLE" /\ goeState # "tran" /\ ~goeOut.wr /\ dmaHead = Quiet
  /\ \A i \in 1 .. Len(queue) :
       ToSet(queue[i].op, queue[i].mid, queue[i].reg, queue[i].id)
  /\ dmaTail # <<>> => dmaTail[1].id # 1
  /\ CmdHead(scmCout) => SetHead(scmCout, AfterScm)
  /\ CmdHead(wrCout) => SetHead(wrCout, AfterWr)
  /\ CmdHead(rdCout) => SetHead(rdCout, AfterRd)
  /\ ~LastWord(scmCout) /\ ~LastWord(wrCout) /\ ~LastWord(rdCout)
  /\ \A i \in 1 .. Len(goeFifo) :
       /\ ~LastWord(goeFifo[i])
       /\ CmdHead(goeFifo[i]) => SetHead(goeFifo[i], AfterRd)

LEMMA NobodyWaits ==
  ASSUME Traffic, ~Waiting
  PROVE  OnlyWrites
<1>1. /\ Ranges /\ Wires /\ Queued /\ ScmHolds /\ GoePlace /\ Alone
  BY DEF Traffic, Pairs
<1>2. \A b : ~AnswerHead(b)
  BY DEF AnswerHead
<1>3. \A b, ahead : ~AskHead(b, ahead)
  BY DEF AskHead
<1>4. scmCtl = "IDLE"
  BY <1>1 DEF ScmHolds
<1>5. /\ CmdHead(scmCout) => SetHead(scmCout, AfterScm)
      /\ CmdHead(wrCout) => SetHead(wrCout, AfterWr)
      /\ CmdHead(rdCout) => SetHead(rdCout, AfterRd)
      /\ \A i \in 1 .. Len(goeFifo) :
           CmdHead(goeFifo[i]) => SetHead(goeFifo[i], AfterRd)
  BY <1>1, <1>2, <1>3 DEF Wires, Known
<1>6. ~CmdHead(goeOut) /\ ~CmdTail(goeOut)
  BY <1>1, <1>2 DEF GoePlace, Alone, LastWord
<1>7. goeOut.wr <=> CmdHead(goeOut) \/ CmdTail(goeOut)
  BY <1>1, HeadOrTail DEF Ranges, GoePlace
<1>8. goeState # "tran" /\ dmaHead = Quiet
  BY <1>1, <1>2, <1>6 DEF GoePlace
<1>9. \A i \in 1 .. Len(queue) :
         ToSet(queue[i].op, queue[i].mid, queue[i].reg, queue[i].id)
  BY <1>1 DEF Queued
<1>10. QED
  BY <1>1, <1>4, <1>5, <1>6, <1>7, <1>8, <1>9 DEF OnlyWrites, Alone

LEMMA CallKeepsTraffic ==
  ASSUME Traffic, Sane, ~Waiting, RoomToSend, NEW c \in Cmds,
         queue' = Append(queue, c), UNCHANGED <<dmaTail, dmaHead, chainVars>>,
         call' \in [st : {"idle", "waiting"}, name : CallNames, val : Int],
         last' \in [DOMAIN LibAnt -> Int],
         \/ ToSet(c.op, c.mid, c.reg, c.id)
         \/ Waiting' /\ ToAsk(c.op, c.mid, c.reg, c.id)'
  PROVE  Traffic'
<1>1. /\ Ranges /\ Wires /\ Queued /\ ScmPairs /\ ScmHolds /\ FifoPairs
      /\ Follows(scmCout, wrFlag, wrCout) /\ Follows(wrCout, rdFlag, rdCout)
      /\ GoePlace /\ Alone /\ Roomy
  BY DEF Traffic, Pairs
<1>2. OnlyWrites
  BY NobodyWaits
<1>3. /\ dmaTail' = dmaTail /\ dmaHead' = dmaHead
      /\ scmCtl' = scmCtl /\ scmRegs' = scmRegs /\ scmFlag' = scmFlag
      /\ scmSecond' = scmSecond /\ scmCout' = scmCout
      /\ wrRegs' = wrRegs /\ wrFlag' = wrFlag /\ wrCout' = wrCout
      /\ rdRegs' = rdRegs /\ rdFlag' = rdFlag /\ rdCout' = rdCout
      /\ goeFifo' = goeFifo /\ goeRd' = goeRd /\ goeState' = goeState
      /\ goeCount' = goeCount /\ goeOut' = goeOut
  BY DEF chainVars
<1>4. /\ queue \in Seq(Cmds) /\ queue' \in Seq(Cmds) /\ Len(queue) \in Nat
      /\ Len(queue') = Len(queue) + 1 /\ queue'[Len(queue) + 1] = c
      /\ \A i \in 1 .. Len(queue) : queue'[i] = queue[i]
  <2>1. queue \in Seq(Cmds)
    BY <1>1 DEF Ranges
  <2>2. Len(queue) \in Nat
    BY <2>1
  <2>3. queue' = Append(queue, c)
    OBVIOUS
  <2>4. /\ queue' \in Seq(Cmds) /\ Len(queue') = Len(queue) + 1
        /\ \A i \in 1 .. Len(queue) : queue'[i] = queue[i]
        /\ queue'[Len(queue) + 1] = c
    BY <2>1, <2>3, AppendProperties
  <2>5. QED
    BY <2>1, <2>2, <2>4
<1>5. Ranges'
  BY <1>1, <1>3, <1>4 DEF Ranges
<1>6. \A b, ahead : SetHead(b, ahead) => SetHead(b, ahead)'
  BY DEF SetHead, ToSet
<1>7. Wires'
  BY <1>1, <1>2, <1>3 DEF Wires, Framed, Known, OnlyWrites, SetHead, ToSet
<1>8. Queued'
  <2>1. ASSUME NEW i \in 1 .. Len(queue')
        PROVE  \/ ToSet(queue'[i].op, queue'[i].mid, queue'[i].reg, queue'[i].id)
               \/ /\ i = Len(queue') /\ Waiting' /\ queue'[i] = c
                  /\ ToAsk(c.op, c.mid, c.reg, c.id)'
    <3>1. CASE i \in 1 .. Len(queue)
      BY <1>2, <1>4, <3>1 DEF OnlyWrites
    <3>2. CASE i = Len(queue) + 1
      BY <1>4, <3>2
    <3>3. i \in 1 .. Len(queue) \/ i = Len(queue) + 1
      BY <1>4
    <3>4. QED
      BY <3>1, <3>2, <3>3
  <2>2. QED
    BY <2>1 DEF Queued, ToSet, ToAsk, Waiting
<1>9. Pairs'
  <2>1. ScmPairs' /\ ScmHolds'
    BY <1>1, <1>2, <1>3 DEF ScmPairs, ScmHolds, OnlyWrites, CmdHead
  <2>2. Follows(scmCout, wrFlag, wrCout)' /\ Follows(wrCout, rdFlag, rdCout)'
    BY <1>1, <1>3 DEF Follows
  <2>3. FifoPairs'
    BY <1>1, <1>3 DEF FifoPairs
  <2>4. QED
    BY <2>1, <2>2, <2>3 DEF Pairs
<1>10. GoePlace'
  <2>1. ~CmdHead(goeOut) /\ ~CmdTail(goeOut)
    BY <1>2 DEF OnlyWrites, CmdHead, CmdTail
  <2>2. QED
    BY <1>1, <1>2, <1>3, <2>1 DEF GoePlace, OnlyWrites, SetHead, ToSet, Framed
<1>11. Alone'
  <2>1. ~LastWord(goeOut)
    BY <1>2 DEF OnlyWrites, CmdTail, LastWord
  <2>2. call'.st # "returned"
    OBVIOUS
  <2>3. QED
    BY <1>2, <1>3, <2>1, <2>2 DEF Alone, OnlyWrites, LastWord
<1>12. Roomy'
  <2>1. Len(dmaTail) \in Nat /\ Len(goeFifo) \in Nat
    BY <1>1 DEF Ranges
  <2>2. OnWires \in Nat /\ OnWires' = OnWires
    BY <1>3 DEF OnWires, One
  <2>3. 2 * Len(queue) + Len(dmaTail) + Len(goeFifo) + OnWires + 2 <= MaxWords
    BY <1>1, WordsOnWires DEF RoomToSend, OnTheWay
  <2>4. Held' = 0
    BY <1>2, <1>3 DEF Held, OnlyWrites
  <2>5. Crowd' = 2 * Len(queue') + Len(dmaTail) + Len(goeFifo) + OnWires + 0
    BY <1>3, <2>2, <2>4 DEF Crowd, Unsent
  <2>6. MaxWords <= CtrlDepth /\ MaxWords \in Nat /\ CtrlDepth \in Nat
    BY ChainAssumption DEF Sane
  <2>7. 2 * Len(queue') + Len(dmaTail) + Len(goeFifo) + OnWires + 0 <= CtrlDepth
    <3>1. PICK k, k2, d, f, w \in Nat :
            /\ k = Len(queue) /\ k2 = Len(queue') /\ d = Len(dmaTail)
            /\ f = Len(goeFifo) /\ w = OnWires
      BY <1>4, <2>1, <2>2
    <3>2. k2 = k + 1 /\ 2 * k + d + f + w + 2 <= MaxWords
      BY <1>4, <2>3, <3>1
    <3>3. 2 * k2 + d + f + w + 0 <= CtrlDepth
      BY <2>6, <3>2
    <3>4. QED
      BY <3>1, <3>3
  <2>8. QED
    BY <2>5, <2>7 DEF Roomy
<1>13. QED
  BY <1>5, <1>7, <1>8, <1>9, <1>10, <1>11, <1>12 DEF Traffic

LEMMA WriteKeepsTraffic ==
  ASSUME Traffic, Sane, NEW n \in Setters, NEW v \in Values, fast_ua_hw_wr(n, v)
  PROVE  Traffic' /\ n \in Settable
<1> DEFINE c == [op |-> "write", mid |-> LibAnt[n].mid, reg |-> LibAnt[n].set,
                 val |-> v, id |-> 0]
<1>1. n \in DOMAIN LibAnt /\ v \in Int
  BY ChainAssumption
<1>2. c \in Cmds
  BY <1>1, Names, Mids DEF Cmds
<1>3. n \in Settable
  BY DEF fast_ua_hw_wr, Settable
<1>4. ToSet(c.op, c.mid, c.reg, c.id)
  BY <1>3 DEF ToSet
<1>5. last' \in [DOMAIN LibAnt -> Int]
  BY <1>1 DEF fast_ua_hw_wr, Traffic, Ranges
<1>6. /\ ~Waiting /\ RoomToSend /\ queue' = Append(queue, c)
      /\ UNCHANGED <<dmaTail, dmaHead, chainVars>>
  BY DEF fast_ua_hw_wr, Waiting
<1>7. call' \in [st : {"idle", "waiting"}, name : CallNames, val : Int]
  <2>1. \A x \in CallNames :
          [st |-> "idle", name |-> x, val |-> 0]
            \in [st : {"idle", "waiting"}, name : CallNames, val : Int]
    OBVIOUS
  <2>2. PICK x \in CallNames : call' = [st |-> "idle", name |-> x, val |-> 0]
    BY DEF fast_ua_hw_wr, CallNames
  <2>3. QED
    BY <2>1, <2>2
<1> HIDE DEF c
<1>8. QED
  BY <1>2, <1>3, <1>4, <1>5, <1>6, <1>7, CallKeepsTraffic

LEMMA ReadKeepsTraffic ==
  ASSUME Traffic, Sane, NEW n \in Getters, fast_ua_hw_rd(n)
  PROVE  Traffic'
<1> DEFINE c == [op |-> "read", mid |-> LibAnt[n].mid, reg |-> LibAnt[n].get,
                 val |-> ReadFill, id |-> 1]
<1>1. n \in DOMAIN LibAnt
  BY ChainAssumption
<1>2. c \in Cmds
  BY <1>1, Names, Mids DEF Cmds, ReadFill
<1>3. /\ ~Waiting /\ RoomToSend /\ queue' = Append(queue, c) /\ last' = last
      /\ UNCHANGED <<dmaTail, dmaHead, chainVars>>
      /\ call' = [st |-> "waiting", name |-> n, val |-> 0]
  BY DEF fast_ua_hw_rd, Waiting
<1>4. call' \in [st : {"idle", "waiting"}, name : CallNames, val : Int]
  <2>1. n \in CallNames
    BY <1>1 DEF CallNames
  <2>2. QED
    BY <1>3, <2>1
<1>5. Waiting' /\ ToAsk(c.op, c.mid, c.reg, c.id)'
  BY <1>3 DEF ToAsk, Waiting
<1>6. last' \in [DOMAIN LibAnt -> Int]
  BY <1>3 DEF Traffic, Ranges
<1> HIDE DEF c
<1>7. QED
  BY <1>2, <1>3, <1>4, <1>5, <1>6, CallKeepsTraffic-----------------------------------------------------------------------------
(***************************************************************************)
(* No write is lost: when nothing for the register of n is left before a   *)
(* place, nothing was left before the place in front of it.                *)
(***************************************************************************)
LEMMA OnlyAhead ==
  ASSUME Wires, NEW n
  PROVE  /\ Sets(scmCout, n) => LibAnt[n].mid \in AfterScm
         /\ Sets(wrCout, n) => LibAnt[n].mid \in AfterWr
         /\ Sets(rdCout, n) => LibAnt[n].mid \in AfterRd
         /\ \A i \in 1 .. Len(goeFifo) :
              Sets(goeFifo[i], n) => LibAnt[n].mid \in AfterRd
<1>1. ASSUME NEW b, NEW ahead, Known(b, ahead), Sets(b, n)
      PROVE  LibAnt[n].mid \in ahead
  BY <1>1 DEF Known, Sets, SetHead, AskHead, AnswerHead, ToAsk
<1>2. QED
  BY <1>1 DEF Wires

\* The youngest command for n has left the queue.
LEMMA LeavesQueue ==
  ASSUME Ranges, NEW n, Latest(n), NEW in, in \in CmdBeat,
         TailSent(in) \/ HeadSent(in) \/ NoneSent(in), last' = last,
         NoneQueued(n)'
  PROVE  NoneQueued(n) \/ (HeadSent(in) /\ Sets(in, n) /\ in.val = last[n])
<1>1. queue \in Seq(Cmds)
  BY DEF Ranges
<1>2. CASE queue' = queue
  BY <1>2 DEF NoneQueued, Orders
<1>3. CASE HeadSent(in)
  <2>1. queue # <<>> /\ queue' = Tail(queue) /\ CmdHead(in)
        /\ in.op = queue[1].op /\ in.dst = queue[1].mid
        /\ in.reg = queue[1].reg /\ in.val = queue[1].val
    BY <1>3 DEF HeadSent
  <2>2. /\ Len(queue') = Len(queue) - 1 /\ Len(queue) \in Nat
        /\ \A i \in 1 .. Len(queue') : queue'[i] = queue[i + 1]
    BY <1>1, <2>1, HeadTailProperties
  <2>3. \A i \in 1 .. Len(queue') : ~Orders(queue'[i], n)
    BY DEF NoneQueued, Orders
  <2>4. ASSUME NEW j \in 2 .. Len(queue) PROVE ~Orders(queue[j], n)
    <3>1. j - 1 \in 1 .. Len(queue') /\ queue'[j - 1] = queue[j]
      <4>1. j - 1 \in 1 .. Len(queue') /\ (j - 1) + 1 = j
        BY <2>2
      <4>2. QED
        BY <2>2, <4>1
    <3>2. QED
      BY <2>3, <3>1
  <2>5. CASE Orders(queue[1], n)
    <3>1. 1 \in 1 .. Len(queue) /\ \A j \in 1 + 1 .. Len(queue) : ~Orders(queue[j], n)
      BY <1>1, <2>1, <2>2, <2>4
    <3>2. queue[1].val = last[n]
      BY <2>5, <3>1 DEF Latest
    <3>3. Sets(in, n)
      BY <2>1, <2>5 DEF Sets, Orders
    <3>4. QED
      BY <1>3, <2>1, <3>2, <3>3
  <2>6. CASE ~Orders(queue[1], n)
    <3>1. ASSUME NEW j \in 1 .. Len(queue) PROVE ~Orders(queue[j], n)
      <4>1. j = 1 \/ j \in 2 .. Len(queue)
        BY <2>2
      <4>2. QED
        BY <2>4, <2>6, <4>1
    <3>2. QED
      BY <3>1 DEF NoneQueued
  <2>7. QED
    BY <2>5, <2>6
<1>4. QED
  BY <1>2, <1>3 DEF TailSent, NoneSent

LEMMA LeavesWires ==
  ASSUME Ranges, Wires, NEW n, Latest(n), NEW in, ClockDoes(in), last' = last
  PROVE  /\ NoneScm(n)' /\ LibAnt[n].mid \in AfterScm => NoneQueued(n)
         /\ NoneWr(n)' /\ LibAnt[n].mid \in AfterWr => NoneScm(n)
         /\ NoneRd(n)' /\ LibAnt[n].mid \in AfterRd => NoneWr(n)
<1>1. /\ AfterWr \subseteq AfterScm /\ AfterRd \subseteq AfterWr
      /\ ScmMid \notin AfterScm /\ PgmWrMid \notin AfterWr /\ PgmRdMid \notin AfterRd
  BY Mids DEF AfterScm, AfterWr, AfterRd
<1>2. ASSUME NoneScm(n)', LibAnt[n].mid \in AfterScm
      PROVE  NoneQueued(n)
  <2>1. NoneQueued(n)' /\ ~Sets(scmCout', n)
    BY <1>2 DEF NoneScm, Sets
  <2>2. CASE HeadSent(in) /\ Sets(in, n)
    <3>1. in.dst # ScmMid
      BY <1>1, <1>2, <2>2 DEF Sets
    <3>2. scmCout' = in
      BY <2>2, <3>1 DEF ClockDoes, ScmWire
    <3>3. QED
      BY <2>1, <2>2, <3>2
  <2>3. QED
    BY <2>1, <2>2, LeavesQueue DEF ClockDoes
<1>3. ASSUME NoneWr(n)', LibAnt[n].mid \in AfterWr
      PROVE  NoneScm(n)
  <2>1. NoneScm(n)' /\ ~Sets(wrCout', n)
    BY <1>3 DEF NoneWr, Sets
  <2>2. CASE Sets(scmCout, n)
    <3>1. scmCout.dst # PgmWrMid /\ CmdHead(scmCout) /\ scmCout.op = "write"
      BY <1>1, <1>3, <2>2 DEF Sets
    <3>2. wrCout' = scmCout
      BY <3>1 DEF ClockDoes, Passes
    <3>3. QED
      BY <2>1, <2>2, <3>2
  <2>3. QED
    BY <1>1, <1>2, <1>3, <2>1, <2>2 DEF NoneScm
<1>4. ASSUME NoneRd(n)', LibAnt[n].mid \in AfterRd
      PROVE  NoneWr(n)
  <2>1. NoneWr(n)' /\ ~Sets(rdCout', n)
    BY <1>4 DEF NoneRd, Sets
  <2>2. CASE Sets(wrCout, n)
    <3>1. wrCout.dst # PgmRdMid /\ CmdHead(wrCout) /\ wrCout.op = "write"
      BY <1>1, <1>4, <2>2 DEF Sets
    <3>2. rdCout' = wrCout
      BY <3>1 DEF ClockDoes, Passes
    <3>3. QED
      BY <2>1, <2>2, <3>2
  <2>3. QED
    BY <1>1, <1>3, <1>4, <2>1, <2>2 DEF NoneWr
<1>5. QED
  BY <1>2, <1>3, <1>4
\* The youngest write in the FIFO, and one that has just entered it.
LEMMA LatestInFifo ==
  ASSUME FifoBefore, NEW n, Latest(n), last' = last,
         NoneRd(n)' /\ LibAnt[n].mid \in AfterRd => NoneWr(n),
         NoneRd(n)',
         NEW i \in 1 .. Len(goeFifo'), Sets(goeFifo'[i], n),
         \A j \in i + 1 .. Len(goeFifo') : ~Sets(goeFifo'[j], n)
  PROVE  goeFifo'[i].val = last[n]
<1>1. Wires /\ FifoMoves
  BY DEF FifoBefore
<1>2. CASE /\ i = Kept + 1 /\ rdCout.wr /\ i = Len(goeFifo')
           /\ goeFifo'[i] = rdCout
  <2>1. LibAnt[n].mid \in AfterRd
    BY <1>1, <1>2, OnlyAhead
  <2>2. NoneWr(n) /\ Sets(rdCout, n)
    BY <1>2, <2>1
  <2>3. QED
    BY <1>2, <2>2 DEF Latest
<1>3. CASE /\ i \in 1 .. Kept /\ i + Gone \in 1 .. Len(goeFifo)
           /\ goeFifo'[i] = goeFifo[i + Gone]
  <2>1. LibAnt[n].mid \in AfterRd
    BY <1>1, <1>3, OnlyAhead
  <2>2. ~Sets(rdCout, n)
    <3>1. ASSUME Sets(rdCout, n) PROVE FALSE
      <4>1. rdCout.wr
        BY <3>1 DEF Sets, CmdHead
      <4>2. Kept + 1 \in i + 1 .. Len(goeFifo') /\ goeFifo'[Kept + 1] = rdCout
        BY <1>1, <1>3, <4>1, Places DEF FifoMoves
      <4>3. QED
        BY <3>1, <4>2
    <3>2. QED
      BY <3>1
  <2>3. NoneRd(n)
    BY <2>1, <2>2 DEF NoneRd
  <2>4. ASSUME NEW j \in (i + Gone) + 1 .. Len(goeFifo) PROVE ~Sets(goeFifo[j], n)
    <3>1. j - Gone \in 1 .. Kept /\ j - Gone \in i + 1 .. Len(goeFifo') /\ (j - Gone) + Gone = j
      BY <1>3, Places
    <3>2. goeFifo'[j - Gone] = goeFifo[j]
      BY <1>1, <3>1 DEF FifoMoves
    <3>3. QED
      BY <3>1, <3>2
  <2>5. goeFifo[i + Gone].val = last[n]
    BY <1>3, <2>3, <2>4 DEF Latest
  <2>6. QED
    BY <1>3, <2>5
<1>4. QED
  BY <1>2, <1>3, FromWhere

\* With nothing left for n after the clock, what goe works on is the youngest.
LEMMA LeavesFifo ==
  ASSUME FifoBefore, NEW n, n \in Registered, Latest(n), last' = last,
         NoneRd(n)' /\ LibAnt[n].mid \in AfterRd => NoneWr(n),
         NoneFifo(n)', LibAnt[n].mid \in AfterRd
  PROVE  goeCount' = last[n]
<1>1. Ranges /\ Wires /\ GoePlace /\ FifoMoves /\ GoeOutcome
  BY DEF FifoBefore
<1>2. NoneRd(n)' /\ NoneWr(n)
  BY DEF NoneFifo
<1>3. \A i \in 1 .. Len(goeFifo') : ~Sets(goeFifo'[i], n)
  BY DEF NoneFifo, Sets
<1>4. ~Sets(rdCout, n)
  <2>1. ASSUME Sets(rdCout, n) PROVE FALSE
    <3>1. rdCout.wr
      BY <2>1 DEF Sets, CmdHead
    <3>2. Kept + 1 \in 1 .. Len(goeFifo') /\ goeFifo'[Kept + 1] = rdCout
      BY <1>1, <3>1, Places DEF FifoMoves
    <3>3. QED
      BY <1>3, <2>1, <3>2
  <2>2. QED
    BY <2>1
<1>5. NoneRd(n)
  BY <1>2, <1>4 DEF NoneRd
<1>6. ASSUME NEW j \in Gone + 1 .. Len(goeFifo) PROVE ~Sets(goeFifo[j], n)
  <2>1. j - Gone \in 1 .. Kept /\ j - Gone \in 1 .. Len(goeFifo') /\ (j - Gone) + Gone = j
    BY Places
  <2>2. goeFifo'[j - Gone] = goeFifo[j]
    BY <1>1, <2>1 DEF FifoMoves
  <2>3. QED
    BY <1>3, <2>1, <2>2
<1>7. n \in DOMAIN LibAnt /\ LibAnt[n].mid = GoeMid
  BY NamesOfBlocks DEF AfterRd
<1>8. n = "goe_count" /\ Holds(n) = (goeCount = last[n])
  BY <1>7, Names, Held4
<1>9. CASE Gone = 0 \/ ~Sets(goeFifo[1], n)
  <2>1. ASSUME NEW j \in 1 .. Len(goeFifo) PROVE ~Sets(goeFifo[j], n)
    <3>1. j \in Gone + 1 .. Len(goeFifo) \/ (j = 1 /\ Gone # 0)
      BY Places
    <3>2. QED
      BY <1>6, <1>9, <3>1
  <2>2. NoneFifo(n)
    BY <1>5, <2>1 DEF NoneFifo
  <2>3. goeCount = last[n]
    BY <1>8, <2>2 DEF Latest
  <2>4. ~GoeStores
    <3>1. ASSUME GoeStores PROVE FALSE
      <4>1. /\ goeState = "write" /\ Len(goeFifo) >= 2 /\ CmdHead(goeFifo[1])
            /\ SetHead(goeFifo[1], AfterRd)
        BY <1>1, <3>1 DEF GoeStores, GoePlace
      <4>2. PICK m \in Settable : goeFifo[1].dst = LibAnt[m].mid /\ goeFifo[1].reg = LibAnt[m].set
        BY <4>1 DEF SetHead, ToSet
      <4>3. goeFifo[1].dst = GoeMid /\ goeFifo[1].op = "write"
        BY <4>1 DEF SetHead, ToSet, AfterRd
      <4>4. m = n
        BY <1>8, <4>2, <4>3, Names, ChainAssumption DEF Settable
      <4>5. Sets(goeFifo[1], n)
        BY <4>1, <4>2, <4>3, <4>4 DEF Sets
      <4>6. Len(goeFifo) \in Nat
        BY <1>1 DEF Ranges
      <4>7. QED
        BY <2>1, <4>1, <4>5, <4>6
    <3>2. QED
      BY <3>1
  <2>5. QED
    BY <1>1, <2>3, <2>4 DEF GoeOutcome, GoeRests, GoeStarts, GoeDrops, GoeAnswers
<1>10. CASE Gone = 1 /\ Sets(goeFifo[1], n)
  <2>1. goeState # "idle" /\ goeFifo # <<>> /\ 1 \in 1 .. Len(goeFifo)
    BY <1>10, Places
  <2>2. CmdHead(goeFifo[1]) /\ goeFifo[1].op = "write" /\ ~CmdTail(goeFifo[1])
    BY <1>10, <2>1, Places DEF Sets
  <2>3. goeState \in {"write", "tran", "discard"}
    BY <1>1, <2>1 DEF Ranges
  <2>4. goeState = "write"
    BY <1>1, <2>2, <2>3 DEF GoePlace, AnswerHead
  <2>5. goeCount' = goeFifo[1].val
    BY <1>1, <2>4 DEF GoeOutcome, GoeRests, GoeStarts, GoeStores, GoeDrops, GoeAnswers
  <2>6. goeFifo[1].val = last[n]
    BY <1>5, <1>6, <1>10, <2>1 DEF Latest
  <2>7. QED
    BY <2>5, <2>6
<1>11. QED
  BY <1>9, <1>10, Places
\* What arrives in a register is the youngest write for it.
LEMMA ArrivesScm ==
  ASSUME Ranges, Wires, NEW n, n \in Registered, Latest(n), NEW in, ClockDoes(in),
         last' = last, NoneFifo(n)', LibAnt[n].mid = ScmMid
  PROVE  Holds(n)'
<1> DEFINE r == LibAnt[n].set
<1>1. r \in DOMAIN SCM!ScmBits /\ n \in DOMAIN LibAnt
  BY NamesOfBlocks
<1>2. /\ Holds(n) = (scmRegs[r] = Cut(last[n], SCM!ScmBits[r]))
      /\ Holds(n)' = (scmRegs'[r] = Cut(last[n], SCM!ScmBits[r]))
  BY Held4, HeldNext4
<1>3. scmRegs \in [DOMAIN SCM!ScmBits -> Int]
  BY DEF Ranges
<1>4. LibAnt[n].mid \notin AfterScm \cup AfterWr \cup AfterRd
  BY Mids DEF AfterScm, AfterWr, AfterRd
<1>5. NoneQueued(n) => NoneFifo(n)
  BY <1>4, OnlyAhead DEF NoneFifo, NoneRd, NoneWr, NoneScm
<1>6. NoneQueued(n)'
  BY DEF NoneFifo, NoneRd, NoneWr, NoneScm
<1>7. NoneQueued(n) \/ (HeadSent(in) /\ Sets(in, n) /\ in.val = last[n])
  BY <1>6, LeavesQueue DEF ClockDoes
<1>8. CASE HeadSent(in) /\ Sets(in, n) /\ in.val = last[n]
  <2>1. HeadSent(in) /\ in.dst = ScmMid /\ in.op = "write" /\ in.reg = r
    BY <1>8 DEF Sets
  <2>2. ScmTakes(in)
    <3>1. ~TailSent(in) /\ ~NoneSent(in)
      BY <1>8, Apart DEF ClockDoes
    <3>2. QED
      BY <2>1, <3>1 DEF ClockDoes, ScmOutcome, ScmSilent, ScmSecondWord, ScmAnswers,
                        ScmForwards, ScmAsks, ScmWaits, ScmTells, ScmTellsOn
  <2>3. scmRegs' = [scmRegs EXCEPT ![r] = Cut(in.val, SCM!ScmBits[r])]
    BY <1>1, <2>1, <2>2 DEF ScmTakes
  <2>4. QED
    BY <1>1, <1>2, <1>3, <1>8, <2>3
<1>9. CASE NoneQueued(n) /\ ~(HeadSent(in) /\ Sets(in, n))
  <2>1. Holds(n)
    BY <1>5, <1>9 DEF Latest
  <2>2. scmRegs'[r] = scmRegs[r]
    <3>1. CASE ScmTakes(in)
      <4>1. in.reg # r
        BY <1>9, <3>1 DEF ScmTakes, Sets, HeadSent
      <4>2. QED
        BY <1>1, <1>3, <3>1, <4>1 DEF ScmTakes
    <3>2. CASE ~ScmTakes(in)
      BY <3>2 DEF ClockDoes, ScmOutcome, ScmSilent, ScmSecondWord, ScmAnswers,
                  ScmForwards, ScmAsks, ScmWaits, ScmTells, ScmTellsOn, ScmKeeps
    <3>3. QED
      BY <3>1, <3>2
  <2>3. QED
    BY <1>2, <2>1, <2>2
<1>10. CASE NoneQueued(n) /\ HeadSent(in) /\ Sets(in, n)
  <2>1. /\ queue \in Seq(Cmds) /\ queue # <<>>
        /\ Orders(queue[1], n)
    BY <1>10 DEF Ranges, HeadSent, Sets, Orders
  <2>2. 1 \in 1 .. Len(queue)
    BY <2>1
  <2>3. QED
    BY <1>10, <2>1, <2>2 DEF NoneQueued
<1>11. QED
  BY <1>7, <1>8, <1>9, <1>10
LEMMA ArrivesWr ==
  ASSUME Ranges, Wires, NEW n, n \in Registered, Latest(n), NEW in, ClockDoes(in),
         last' = last, NoneFifo(n)', LibAnt[n].mid = PgmWrMid
  PROVE  Holds(n)'
<1> DEFINE r == LibAnt[n].set
<1>1. r \in DOMAIN WrBits /\ n \in DOMAIN LibAnt
  BY NamesOfBlocks
<1>2. /\ Holds(n) = (wrRegs[r] = Cut(last[n], WrBits[r]))
      /\ Holds(n)' = (wrRegs'[r] = Cut(last[n], WrBits[r]))
  BY Held4, HeldNext4
<1>3. wrRegs \in [DOMAIN WrBits -> Int] /\ wrRegs' = Loads(PgmWrMid, scmCout, wrRegs, WrBits)
  BY DEF Ranges, ClockDoes
<1>4. LibAnt[n].mid \in AfterScm /\ LibAnt[n].mid \notin AfterWr \cup AfterRd
  BY Mids DEF AfterScm, AfterWr, AfterRd
<1>5. NoneScm(n)'
  BY DEF NoneFifo, NoneRd, NoneWr
<1>6. NoneQueued(n)
  BY <1>4, <1>5, LeavesWires
<1>7. CASE Sets(scmCout, n)
  <2>1. scmCout.val = last[n]
    BY <1>6, <1>7 DEF Latest
  <2>2. Takes(PgmWrMid, scmCout) /\ scmCout.reg = r
    BY <1>7 DEF Takes, Sets
  <2>3. wrRegs' = [wrRegs EXCEPT ![r] = Cut(scmCout.val, WrBits[r])]
    BY <1>1, <1>3, <2>2 DEF Loads
  <2>4. QED
    BY <1>1, <1>2, <1>3, <2>1, <2>3
<1>8. CASE ~Sets(scmCout, n)
  <2>1. NoneFifo(n)
    BY <1>4, <1>6, <1>8, OnlyAhead DEF NoneFifo, NoneRd, NoneWr, NoneScm
  <2>2. Holds(n)
    BY <2>1 DEF Latest
  <2>3. ~(Takes(PgmWrMid, scmCout) /\ scmCout.reg = r)
    BY <1>8 DEF Takes, Sets
  <2>4. wrRegs'[r] = wrRegs[r]
    BY <1>1, <1>3, <2>3 DEF Loads
  <2>5. QED
    BY <1>2, <2>2, <2>4
<1>9. QED
  BY <1>7, <1>8

LEMMA ArrivesRd ==
  ASSUME Ranges, Wires, NEW n, n \in Registered, Latest(n), NEW in, ClockDoes(in),
         last' = last, NoneFifo(n)', LibAnt[n].mid = PgmRdMid
  PROVE  Holds(n)'
<1> DEFINE r == LibAnt[n].set
<1>1. r \in DOMAIN RdBits /\ n \in DOMAIN LibAnt
  BY NamesOfBlocks
<1>2. /\ Holds(n) = (rdRegs[r] = Cut(last[n], RdBits[r]))
      /\ Holds(n)' = (rdRegs'[r] = Cut(last[n], RdBits[r]))
  BY Held4, HeldNext4
<1>3. rdRegs \in [DOMAIN RdBits -> Int] /\ rdRegs' = Loads(PgmRdMid, wrCout, rdRegs, RdBits)
  BY DEF Ranges, ClockDoes
<1>4. LibAnt[n].mid \in AfterWr /\ LibAnt[n].mid \notin AfterRd
  BY Mids DEF AfterWr, AfterRd
<1>5. NoneWr(n)'
  BY DEF NoneFifo, NoneRd
<1>6. NoneScm(n)
  BY <1>4, <1>5, LeavesWires
<1>7. CASE Sets(wrCout, n)
  <2>1. wrCout.val = last[n]
    BY <1>6, <1>7 DEF Latest
  <2>2. Takes(PgmRdMid, wrCout) /\ wrCout.reg = r
    BY <1>7 DEF Takes, Sets
  <2>3. rdRegs' = [rdRegs EXCEPT ![r] = Cut(wrCout.val, RdBits[r])]
    BY <1>1, <1>3, <2>2 DEF Loads
  <2>4. QED
    BY <1>1, <1>2, <1>3, <2>1, <2>3
<1>8. CASE ~Sets(wrCout, n)
  <2>1. NoneFifo(n)
    BY <1>4, <1>6, <1>8, OnlyAhead DEF NoneFifo, NoneRd, NoneWr
  <2>2. Holds(n)
    BY <2>1 DEF Latest
  <2>3. ~(Takes(PgmRdMid, wrCout) /\ wrCout.reg = r)
    BY <1>8 DEF Takes, Sets
  <2>4. rdRegs'[r] = rdRegs[r]
    BY <1>1, <1>3, <2>3 DEF Loads
  <2>5. QED
    BY <1>2, <2>2, <2>4
<1>9. QED
  BY <1>7, <1>8

LEMMA ClockLatest ==
  ASSUME Ranges, Wires, FifoBefore, NEW n, n \in Registered, Latest(n),
         NEW in, ClockDoes(in), last' = last
  PROVE  Latest(n)'
<1>1. /\ NoneScm(n)' /\ LibAnt[n].mid \in AfterScm => NoneQueued(n)
      /\ NoneWr(n)' /\ LibAnt[n].mid \in AfterWr => NoneScm(n)
      /\ NoneRd(n)' /\ LibAnt[n].mid \in AfterRd => NoneWr(n)
  BY LeavesWires
<1>2. ASSUME NEW i \in 1 .. Len(queue'), Orders(queue'[i], n),
             \A j \in i + 1 .. Len(queue') : ~Orders(queue'[j], n)
      PROVE  queue'[i].val = last[n]
  <2>1. queue \in Seq(Cmds)
    BY DEF Ranges
  <2>2. CASE queue' = queue
    BY <1>2, <2>2 DEF Latest
  <2>3. CASE queue # <<>> /\ queue' = Tail(queue)
    <3>1. /\ Len(queue') = Len(queue) - 1 /\ Len(queue) \in Nat
          /\ \A k \in 1 .. Len(queue') : queue'[k] = queue[k + 1]
      BY <2>1, <2>3, HeadTailProperties
    <3>2. i + 1 \in 1 .. Len(queue) /\ queue'[i] = queue[i + 1]
      BY <3>1
    <3>3. ASSUME NEW j \in (i + 1) + 1 .. Len(queue) PROVE ~Orders(queue[j], n)
      <4>1. j - 1 \in i + 1 .. Len(queue') /\ j - 1 \in 1 .. Len(queue') /\ (j - 1) + 1 = j
        BY <3>1
      <4>2. queue'[j - 1] = queue[j]
        BY <3>1, <4>1
      <4>3. QED
        BY <1>2, <4>1, <4>2
    <3>4. queue[i + 1].val = last[n]
      BY <1>2, <3>2, <3>3 DEF Latest
    <3>5. QED
      BY <3>2, <3>4
  <2>4. QED
    BY <2>2, <2>3 DEF ClockDoes, TailSent, HeadSent, NoneSent
<1>3. ASSUME NoneQueued(n)', Sets(scmCout', n)
      PROVE  scmCout'.val = last[n]
  <2>1. CmdHead(scmCout') /\ scmCout'.op = "write"
    BY <1>3 DEF Sets
  <2>2. HeadSent(in) /\ scmCout' = in
    BY <2>1 DEF ClockDoes, ScmWire
  <2>3. NoneQueued(n) \/ in.val = last[n]
    BY <1>3, LeavesQueue DEF ClockDoes
  <2>4. ~NoneQueued(n)
    <3>1. queue \in Seq(Cmds) /\ queue # <<>> /\ Orders(queue[1], n)
      BY <1>3, <2>2 DEF Ranges, HeadSent, Sets, Orders
    <3>2. 1 \in 1 .. Len(queue)
      BY <3>1
    <3>3. QED
      BY <3>1, <3>2 DEF NoneQueued
  <2>5. QED
    BY <2>2, <2>3, <2>4
<1>4. ASSUME NoneScm(n)', Sets(wrCout', n)
      PROVE  wrCout'.val = last[n]
  <2>1. CmdHead(wrCout') /\ wrCout'.op = "write"
    BY <1>4 DEF Sets
  <2>2. wrCout' = scmCout
    BY <2>1 DEF ClockDoes, Passes
  <2>3. Sets(scmCout, n) /\ LibAnt[n].mid \in AfterScm
    BY <1>4, <2>2, OnlyAhead
  <2>4. QED
    BY <1>1, <1>4, <2>2, <2>3 DEF Latest
<1>5. ASSUME NoneWr(n)', Sets(rdCout', n)
      PROVE  rdCout'.val = last[n]
  <2>1. CmdHead(rdCout') /\ rdCout'.op = "write"
    BY <1>5 DEF Sets
  <2>2. rdCout' = wrCout
    BY <2>1 DEF ClockDoes, Passes
  <2>3. Sets(wrCout, n) /\ LibAnt[n].mid \in AfterWr
    BY <1>5, <2>2, OnlyAhead
  <2>4. QED
    BY <1>1, <1>5, <2>2, <2>3 DEF Latest
<1>6. ASSUME NoneRd(n)', NEW i \in 1 .. Len(goeFifo'), Sets(goeFifo'[i], n),
             \A j \in i + 1 .. Len(goeFifo') : ~Sets(goeFifo'[j], n)
      PROVE  goeFifo'[i].val = last[n]
  BY <1>1, <1>6, LatestInFifo
<1>7. ASSUME NoneFifo(n)' PROVE Holds(n)'
  <2>1. LibAnt[n].mid \in Blocks
    BY NamesOfBlocks, Names
  <2>2. CASE LibAnt[n].mid = ScmMid
    BY <1>7, <2>2, ArrivesScm
  <2>3. CASE LibAnt[n].mid = PgmWrMid
    BY <1>7, <2>3, ArrivesWr
  <2>4. CASE LibAnt[n].mid = PgmRdMid
    BY <1>7, <2>4, ArrivesRd
  <2>5. CASE LibAnt[n].mid = GoeMid
    <3>1. LibAnt[n].mid \in AfterRd
      BY <2>5 DEF AfterRd
    <3>2. goeCount' = last[n]
      BY <1>1, <1>7, <3>1, LeavesFifo
    <3>3. QED
      BY <2>5, <3>2, HeldNext4
  <2>6. QED
    BY <2>1, <2>2, <2>3, <2>4, <2>5 DEF Blocks
<1>8. QED
  BY <1>2, <1>3, <1>4, <1>5, <1>6, <1>7 DEF Latest, Sets, Orders
\* On an empty chain the registers themselves are the latest.
LEMMA EmptyLatest ==
  ASSUME NEW n, Behind6
  PROVE  NoneFifo(n) /\ (Latest(n) <=> Holds(n))
<1>1. /\ Len(queue) = 0 /\ Len(goeFifo) = 0
      /\ ~scmCout.wr /\ ~wrCout.wr /\ ~rdCout.wr
  BY DEF Behind1, Behind2, Behind3, Behind4, Behind5, Behind6
<1>2. ~Sets(scmCout, n) /\ ~Sets(wrCout, n) /\ ~Sets(rdCout, n)
  BY <1>1 DEF Sets, CmdHead
<1>3. NoneFifo(n)
  BY <1>1, <1>2 DEF NoneFifo, NoneRd, NoneWr, NoneScm, NoneQueued
<1>4. QED
  BY <1>1, <1>2, <1>3 DEF Latest

LEMMA ClockKeepsWrites ==
  ASSUME Traffic, WritesInv, Sane, NEW dmaReady \in BOOLEAN, Clock(dmaReady)
  PROVE  WritesInv'
<1>1. PICK in : DmaSends(in) /\ ChainClock(in, dmaReady)
  BY DEF Clock
<1>2. DmaReceives /\ last' = last
  BY DEF Clock
<1>3. SUFFICES ASSUME NEW n \in Registered
               PROVE  Latest(n)'
  BY DEF WritesInv, Registered
<1>4. Latest(n)
  BY DEF WritesInv
<1>5. CASE call' = call
  <2>1. ClockDoes(in) /\ Ranges'
    BY <1>1, <1>2, <1>5, ClockFacts
  <2>2. /\ Ranges /\ Wires /\ Pairs /\ GoePlace /\ Alone
    BY DEF Traffic
  <2>3. Behind4 => Behind5'
    BY <2>1, <2>2, NothingBehind
  <2>4. FifoBefore
    BY <1>5, <2>1, <2>2, <2>3 DEF FifoBefore, Pairs, ClockDoes, Passes, Ranges
  <2>5. QED
    BY <1>2, <1>4, <2>1, <2>2, <2>4, ClockLatest
<1>6. CASE call' # call
  <2>1. /\ Empty' /\ Behind6
        /\ scmRegs' = scmRegs /\ wrRegs' = wrRegs /\ rdRegs' = rdRegs
        /\ goeCount' = goeCount
    BY <1>1, <1>2, <1>6, AnswerArrives
  <2>2. Holds(n)
    BY <1>4, <2>1, EmptyLatest
  <2>3. Holds(n)'
    BY <1>2, <2>1, <2>2 DEF Holds
  <2>4. Empty' => (Latest(n)' <=> Holds(n)')
    <3>1. /\ Len(queue') = 0 /\ Len(goeFifo') = 0
          /\ ~scmCout'.wr /\ ~wrCout'.wr /\ ~rdCout'.wr
      BY <2>1 DEF Empty, Behind1, Behind2, Behind3, Behind4, Behind5, Behind6
    <3>2. ~Sets(scmCout', n) /\ ~Sets(wrCout', n) /\ ~Sets(rdCout', n)
      BY <3>1 DEF Sets, CmdHead
    <3>3. NoneFifo(n)'
      BY <3>1, <3>2 DEF NoneFifo, NoneRd, NoneWr, NoneScm, NoneQueued, Sets
    <3>4. QED
      BY <3>1, <3>2, <3>3 DEF Latest, Sets
  <2>5. QED
    BY <2>1, <2>3, <2>4
<1>7. QED
  BY <1>5, <1>6

\* A call of the library adds at the end of the queue.
LEMMA CallKeepsWrites ==
  ASSUME Ranges, WritesInv, NEW c \in Cmds, queue' = Append(queue, c),
         UNCHANGED <<dmaTail, dmaHead, chainVars>>,
         \A n \in Registered :
           IF Orders(c, n) THEN c.val = last'[n] ELSE last'[n] = last[n]
  PROVE  WritesInv'
<1>1. SUFFICES ASSUME NEW n \in Registered
               PROVE  Latest(n)'
  BY DEF WritesInv, Registered
<1>2. Latest(n)
  BY DEF WritesInv
<1>3. /\ scmCout' = scmCout /\ wrCout' = wrCout /\ rdCout' = rdCout
      /\ goeFifo' = goeFifo /\ goeCount' = goeCount
      /\ scmRegs' = scmRegs /\ wrRegs' = wrRegs /\ rdRegs' = rdRegs
  BY DEF chainVars
<1>4. queue \in Seq(Cmds) /\ Len(queue) \in Nat
  BY DEF Ranges
<1>5. /\ Len(queue') = Len(queue) + 1
      /\ \A i \in 1 .. Len(queue) : queue'[i] = queue[i]
      /\ queue'[Len(queue) + 1] = c
  BY <1>4, AppendProperties
<1>6. Len(queue) + 1 \in 1 .. Len(queue')
  BY <1>4, <1>5
<1>7. CASE Orders(c, n)
  <2>1. c.val = last'[n]
    BY <1>7
  <2>2. ~NoneQueued(n)'
    BY <1>5, <1>6, <1>7 DEF NoneQueued, Orders
  <2>3. ASSUME NEW i \in 1 .. Len(queue'),
               \A j \in i + 1 .. Len(queue') : ~Orders(queue'[j], n)
        PROVE  queue'[i].val = last'[n]
    <3>1. i = Len(queue) + 1
      <4>1. ASSUME i # Len(queue) + 1 PROVE FALSE
        <5>1. Len(queue) + 1 \in i + 1 .. Len(queue')
          BY <1>4, <1>5, <4>1
        <5>2. QED
          BY <1>5, <1>7, <2>3, <5>1
      <4>2. QED
        BY <4>1
    <3>2. QED
      BY <1>5, <2>1, <3>1
  <2>4. QED
    BY <2>2, <2>3 DEF Latest, NoneFifo, NoneRd, NoneWr, NoneScm, Orders
<1>8. CASE ~Orders(c, n)
  <2>1. last'[n] = last[n]
    BY <1>8
  <2>2. ASSUME NEW i \in 1 .. Len(queue'), Orders(queue'[i], n),
               \A j \in i + 1 .. Len(queue') : ~Orders(queue'[j], n)
        PROVE  queue'[i].val = last'[n]
    <3>1. i # Len(queue) + 1
      BY <1>5, <1>8, <2>2
    <3>2. i \in 1 .. Len(queue) /\ queue'[i] = queue[i]
      BY <1>4, <1>5, <3>1
    <3>3. ASSUME NEW j \in i + 1 .. Len(queue) PROVE ~Orders(queue[j], n)
      <4>1. j \in i + 1 .. Len(queue') /\ j \in 1 .. Len(queue)
        BY <1>4, <1>5
      <4>2. QED
        BY <1>5, <2>2, <4>1
    <3>4. queue[i].val = last[n]
      BY <1>2, <2>2, <3>2, <3>3 DEF Latest
    <3>5. QED
      BY <2>1, <3>2, <3>4
  <2>3. NoneQueued(n)' => NoneQueued(n)
    <3>1. ASSUME \A i \in 1 .. Len(queue') : ~Orders(queue'[i], n), NEW i \in 1 .. Len(queue)
          PROVE  ~Orders(queue[i], n)
      <4>1. i \in 1 .. Len(queue')
        BY <1>4, <1>5
      <4>2. QED
        BY <1>5, <3>1, <4>1
    <3>2. QED
      BY <3>1 DEF NoneQueued, Orders
  <2>4. /\ NoneScm(n)' => NoneScm(n)
        /\ NoneWr(n)' => NoneWr(n)
        /\ NoneRd(n)' => NoneRd(n)
        /\ NoneFifo(n)' => NoneFifo(n)
    BY <1>3, <2>3 DEF NoneFifo, NoneRd, NoneWr, NoneScm, Sets
  <2>5. Holds(n)' = Holds(n)
    BY <1>3, <2>1 DEF Holds
  <2>6. /\ \A i \in 1 .. Len(queue') :
             Orders(queue'[i], n) /\ (\A j \in i + 1 .. Len(queue') : ~Orders(queue'[j], n))
               => queue'[i].val = last'[n]
        /\ NoneQueued(n)' /\ Sets(scmCout', n) => scmCout'.val = last'[n]
        /\ NoneScm(n)' /\ Sets(wrCout', n) => wrCout'.val = last'[n]
        /\ NoneWr(n)' /\ Sets(rdCout', n) => rdCout'.val = last'[n]
        /\ NoneFifo(n)' => Holds(n)'
    BY <1>2, <1>3, <2>1, <2>2, <2>3, <2>4, <2>5 DEF Latest
  <2>7. NoneRd(n)' =>
          \A i \in 1 .. Len(goeFifo') :
            Sets(goeFifo'[i], n) /\ (\A j \in i + 1 .. Len(goeFifo') : ~Sets(goeFifo'[j], n))
              => goeFifo'[i].val = last'[n]
    BY <1>2, <1>3, <2>1, <2>4 DEF Latest
  <2>8. QED
    BY <2>6, <2>7 DEF Latest, Orders, Sets
<1>9. QED
  BY <1>7, <1>8

LEMMA WriteKeepsWrites ==
  ASSUME Ranges, WritesInv, NEW n \in Setters, NEW v \in Values, fast_ua_hw_wr(n, v)
  PROVE  WritesInv'
<1> DEFINE c == [op |-> "write", mid |-> LibAnt[n].mid, reg |-> LibAnt[n].set,
                 val |-> v, id |-> 0]
<1>1. n \in DOMAIN LibAnt /\ v \in Int
  BY ChainAssumption
<1>2. c \in Cmds
  BY <1>1, Names, Mids DEF Cmds
<1>3. /\ queue' = Append(queue, c) /\ UNCHANGED <<dmaTail, dmaHead, chainVars>>
      /\ last' = [last EXCEPT ![n] = v] /\ last \in [DOMAIN LibAnt -> Int]
  BY DEF fast_ua_hw_wr, Ranges
<1>4. ASSUME NEW m \in Registered
      PROVE  IF Orders(c, m) THEN c.val = last'[m] ELSE last'[m] = last[m]
  <2>1. m \in DOMAIN LibAnt
    BY NamesOfBlocks
  <2>2. Orders(c, m) <=> m = n
    BY <1>1, Names DEF Orders
  <2>3. QED
    BY <1>3, <2>1, <2>2
<1> HIDE DEF c
<1>5. QED
  BY <1>2, <1>3, <1>4, CallKeepsWrites

LEMMA ReadKeepsWrites ==
  ASSUME Ranges, WritesInv, NEW n \in Getters, fast_ua_hw_rd(n)
  PROVE  WritesInv'
<1> DEFINE c == [op |-> "read", mid |-> LibAnt[n].mid, reg |-> LibAnt[n].get,
                 val |-> ReadFill, id |-> 1]
<1>1. n \in DOMAIN LibAnt
  BY ChainAssumption
<1>2. c \in Cmds
  BY <1>1, Names, Mids DEF Cmds, ReadFill
<1>3. /\ queue' = Append(queue, c) /\ UNCHANGED <<dmaTail, dmaHead, chainVars>>
      /\ last' = last
  BY DEF fast_ua_hw_rd
<1>4. \A m : ~Orders(c, m)
  BY DEF Orders
<1> HIDE DEF c
<1>5. QED
  BY <1>2, <1>3, <1>4, CallKeepsWrites-----------------------------------------------------------------------------
(***************************************************************************)
(* The invariant.                                                          *)
(***************************************************************************)
LEMMA InitChainInv ==
  ASSUME Init
  PROVE  ChainInv
<1>1. /\ last = [n \in DOMAIN LibAnt |-> 0]
      /\ queue = <<>> /\ dmaTail = <<>> /\ dmaHead = Quiet
      /\ SCM!ScmCtlInit /\ PGM_WR!RegInit /\ PGM_RD!RegInit
      /\ GOE!GoeInit /\ goeCount = 0
  BY DEF Init
<1>2. /\ scmCtl = "IDLE" /\ scmRegs = [r \in DOMAIN SCM!ScmBits |-> 0]
      /\ scmFlag \in BOOLEAN /\ scmSecond = Quiet /\ scmCout = Quiet
  BY <1>1, ScmWords DEF SCM!ScmCtlInit
<1>3. /\ wrRegs = [r \in DOMAIN WrBits |-> 0] /\ wrFlag \in BOOLEAN /\ wrCout = Quiet
  BY <1>1, WrWords DEF PGM_WR!RegInit
<1>4. /\ rdRegs = [r \in DOMAIN RdBits |-> 0] /\ rdFlag \in BOOLEAN /\ rdCout = Quiet
  BY <1>1, RdWords DEF PGM_RD!RegInit
<1>5. /\ goeFifo = <<>> /\ goeRd = FALSE /\ goeState = "idle" /\ goeOut = Quiet
  BY <1>1, GoeWords DEF GOE!GoeInit
<1>6. call \in [st : {"idle", "waiting", "returned"}, name : CallNames, val : Int]
  <2>1. \A x \in CallNames :
          [st |-> "idle", name |-> x, val |-> 0]
            \in [st : {"idle", "waiting", "returned"}, name : CallNames, val : Int]
    OBVIOUS
  <2>2. PICK x \in CallNames : call = [st |-> "idle", name |-> x, val |-> 0]
    BY DEF Init, CallNames
  <2>3. QED
    BY <2>1, <2>2
<1>7. Ranges
  <2>1. /\ queue \in Seq(Cmds) /\ dmaTail \in Seq(Cmds) /\ Len(dmaTail) <= 1
        /\ goeFifo \in Seq(CmdBeat)
    BY <1>1, <1>5
  <2>2. /\ last \in [DOMAIN LibAnt -> Int] /\ scmRegs \in [DOMAIN SCM!ScmBits -> Int]
        /\ wrRegs \in [DOMAIN WrBits -> Int] /\ rdRegs \in [DOMAIN RdBits -> Int]
        /\ goeCount \in Int
    BY <1>1, <1>2, <1>3, <1>4
  <2>3. QED
    BY <1>1, <1>2, <1>3, <1>4, <1>5, <1>6, <2>1, <2>2, QuietFacts DEF Ranges
<1>8. Empty
  BY <1>1, <1>2, <1>3, <1>4, <1>5, QuietFacts
     DEF Empty, Behind1, Behind2, Behind3, Behind4, Behind5, Behind6
<1>9. Traffic
  BY <1>7, <1>8, EmptyTraffic
<1>10. ASSUME NEW n \in Registered PROVE Holds(n)
  <2>1. n \in DOMAIN LibAnt /\ last[n] = 0
    BY <1>1, NamesOfBlocks
  <2>2. Cut(0, 1) = 0 /\ Cut(0, 8) = 0 /\ Cut(0, 32) = 0
    BY DEF Cut
  <2>3. /\ \A r \in DOMAIN SCM!ScmBits : SCM!ScmBits[r] \in {1, 8}
        /\ \A r \in DOMAIN WrBits : WrBits[r] = 32
        /\ \A r \in DOMAIN RdBits : RdBits[r] \in {1, 32}
    BY DEF SCM!ScmBits, WrBits, RdBits
  <2>4. LibAnt[n].mid \in Blocks
    BY <2>1, Names
  <2>5. CASE LibAnt[n].mid = ScmMid
    <3>1. LibAnt[n].set \in DOMAIN SCM!ScmBits
      BY <2>5, NamesOfBlocks
    <3>2. Cut(0, SCM!ScmBits[LibAnt[n].set]) = 0
      BY <2>2, <2>3, <3>1
    <3>3. QED
      BY <1>2, <2>1, <2>5, <3>1, <3>2, Held4
  <2>6. CASE LibAnt[n].mid = PgmWrMid
    <3>1. LibAnt[n].set \in DOMAIN WrBits
      BY <2>6, NamesOfBlocks
    <3>2. Cut(0, WrBits[LibAnt[n].set]) = 0
      BY <2>2, <2>3, <3>1
    <3>3. QED
      BY <1>3, <2>1, <2>6, <3>1, <3>2, Held4
  <2>7. CASE LibAnt[n].mid = PgmRdMid
    <3>1. LibAnt[n].set \in DOMAIN RdBits
      BY <2>7, NamesOfBlocks
    <3>2. Cut(0, RdBits[LibAnt[n].set]) = 0
      BY <2>2, <2>3, <3>1
    <3>3. QED
      BY <1>4, <2>1, <2>7, <3>1, <3>2, Held4
  <2>8. CASE LibAnt[n].mid = GoeMid
    BY <1>1, <2>1, <2>8, Held4
  <2>9. QED
    BY <2>4, <2>5, <2>6, <2>7, <2>8 DEF Blocks
<1>11. WritesInv
  BY <1>8, <1>10, EmptyLatest DEF WritesInv, Empty
<1>12. QED
  BY <1>9, <1>11 DEF ChainInv

LEMMA NothingHappens ==
  ASSUME ChainInv, UNCHANGED vars
  PROVE  ChainInv'
<1>1. /\ call' = call /\ last' = last /\ queue' = queue
      /\ dmaTail' = dmaTail /\ dmaHead' = dmaHead
      /\ scmCtl' = scmCtl /\ scmRegs' = scmRegs /\ scmFlag' = scmFlag
      /\ scmSecond' = scmSecond /\ scmCout' = scmCout
      /\ wrRegs' = wrRegs /\ wrFlag' = wrFlag /\ wrCout' = wrCout
      /\ rdRegs' = rdRegs /\ rdFlag' = rdFlag /\ rdCout' = rdCout
      /\ goeFifo' = goeFifo /\ goeRd' = goeRd /\ goeState' = goeState
      /\ goeCount' = goeCount /\ goeOut' = goeOut
  BY DEF vars, softVars, chainVars
<1>2. /\ Ranges /\ Wires /\ Queued /\ ScmPairs /\ ScmHolds /\ FifoPairs
      /\ Follows(scmCout, wrFlag, wrCout) /\ Follows(wrCout, rdFlag, rdCout)
      /\ GoePlace /\ Alone /\ Roomy /\ WritesInv
  BY DEF ChainInv, Traffic, Pairs
<1>3. Ranges'
  BY <1>1, <1>2 DEF Ranges
<1>4. Wires' /\ Queued'
  BY <1>1, <1>2 DEF Wires, Queued, Framed, Known, SetHead, AskHead, AnswerHead,
                    ToSet, ToAsk, Waiting
<1>5. Pairs'
  BY <1>1, <1>2 DEF Pairs, ScmPairs, ScmHolds, FifoPairs, Follows, AskHead, ToAsk, Waiting
<1>6. GoePlace'
  BY <1>1, <1>2 DEF GoePlace, Framed, SetHead, AnswerHead, ToSet, Waiting
<1>7. Alone'
  BY <1>1, <1>2 DEF Alone, LastWord, Waiting, Behind1, Behind2, Behind3, Behind4,
                    Behind5, Behind6
<1>8. Roomy'
  BY <1>1, <1>2 DEF Roomy, Crowd, Unsent, OnWires, Held, One
<1>9. ASSUME NEW n \in Registered PROVE Latest(n)'
  <2>1. Latest(n)
    BY <1>2 DEF WritesInv
  <2>2. Holds(n)' = Holds(n)
    BY <1>1 DEF Holds
  <2>3. QED
    BY <1>1, <2>1, <2>2 DEF Latest, NoneFifo, NoneRd, NoneWr, NoneScm, NoneQueued,
                            Sets, Orders
<1>10. WritesInv'
  BY <1>9 DEF WritesInv, Registered
<1>11. QED
  BY <1>3, <1>4, <1>5, <1>6, <1>7, <1>8, <1>10 DEF ChainInv, Traffic

LEMMA NextChainInv ==
  ASSUME ChainInv, Sane, [Next]_vars
  PROVE  ChainInv'
<1>1. Traffic /\ WritesInv /\ Ranges
  BY DEF ChainInv, Traffic
<1>2. ASSUME NEW n \in Setters, NEW v \in Values, fast_ua_hw_wr(n, v)
      PROVE  ChainInv'
  BY <1>1, <1>2, WriteKeepsTraffic, WriteKeepsWrites DEF ChainInv
<1>3. ASSUME NEW n \in Getters, fast_ua_hw_rd(n)
      PROVE  ChainInv'
  BY <1>1, <1>3, ReadKeepsTraffic, ReadKeepsWrites DEF ChainInv
<1>4. ASSUME NEW dmaReady \in BOOLEAN, Clock(dmaReady)
      PROVE  ChainInv'
  BY <1>1, <1>4, ClockKeepsTraffic, ClockKeepsWrites DEF ChainInv
<1>5. CASE UNCHANGED vars
  BY <1>5, NothingHappens
<1>6. QED
  BY <1>2, <1>3, <1>4, <1>5 DEF Next

LEMMA ChainInvHolds ==
  ASSUME Sane
  PROVE  Spec => []ChainInv
<1>1. Init => ChainInv
  BY InitChainInv
<1>2. ChainInv /\ [Next]_vars => ChainInv'
  BY NextChainInv
<1>3. QED
  BY <1>1, <1>2, PTL DEF Spec
-----------------------------------------------------------------------------
\* The getter of one register is a barrier for the setters of all: the
\* answer travels behind every write made before it, so when fast_ua_hw_rd
\* returns they have all been stored, cut to the width of their registers.
THEOREM ReadsAreBarriers ==
  ASSUME Sane
  PROVE  Spec => []ReadIsBarrier
<1>1. ChainInv => ReadIsBarrier
  <2> SUFFICES ASSUME ChainInv, call.st = "returned", NEW n \in Registered
               PROVE  Holds(n)
    BY DEF ReadIsBarrier
  <2>1. Behind6 /\ Latest(n)
    BY DEF ChainInv, Traffic, Alone, WritesInv
  <2>2. QED
    BY <2>1, EmptyLatest
<1>2. QED
  BY <1>1, ChainInvHolds, PTL

\* What leaves goe for the DMA engine is the answer for the call that waits,
\* its first word and then its second: no write and no single word gets past
\* goe, in whatever order reads and writes were made.
THEOREM AnswersComeFramed ==
  ASSUME Sane
  PROVE  Spec => []AnswersFramed
<1>1. ChainInv => AnswersFramed
  <2> SUFFICES ASSUME ChainInv, goeOut.wr
               PROVE  /\ call.st = "waiting"
                      /\ IF dmaHead = Quiet
                         THEN /\ CmdHead(goeOut) /\ goeOut.op = "reply"
                              /\ goeOut.dst = AntMid
                              /\ goeOut.src = LibAnt[call.name].mid
                         ELSE CmdTail(goeOut) /\ goeOut.id = 1
    BY DEF AnswersFramed
  <2>1. GoePlace /\ Alone /\ goeOut \in CmdBeat
    BY DEF ChainInv, Traffic, Ranges
  <2>2. CmdHead(goeOut) \/ CmdTail(goeOut)
    BY <2>1, HeadOrTail DEF GoePlace
  <2>3. CASE CmdTail(goeOut)
    <3>1. goeOut.id = 1 /\ CmdHead(dmaHead) /\ Waiting
      BY <2>1, <2>3 DEF GoePlace, Alone, LastWord
    <3>2. dmaHead # Quiet
      BY <3>1, QuietFacts
    <3>3. QED
      BY <2>3, <3>1, <3>2 DEF Waiting
  <2>4. CASE CmdHead(goeOut) /\ ~CmdTail(goeOut)
    <3>1. dmaHead = Quiet /\ AnswerHead(goeOut)
      BY <2>1, <2>4 DEF GoePlace
    <3>2. QED
      BY <2>4, <3>1 DEF AnswerHead, Waiting
  <2>5. QED
    BY <2>2, <2>3, <2>4
<1>2. QED
  BY <1>1, ChainInvHolds, PTL

\* No write is lost, reordered with another to the same register or stored in
\* the wrong block: when nothing is left on the way, every register of scm,
\* pgm_wr, pgm_rd and goe holds what the library last wrote to it.
THEOREM WritesArrive ==
  ASSUME Sane
  PROVE  Spec => []WritesLand
<1>1. ChainInv => WritesLand
  <2> SUFFICES ASSUME ChainInv, Settled, NEW n \in Registered
               PROVE  Holds(n)
    BY DEF WritesLand
  <2>1. Ranges /\ Latest(n)
    BY DEF ChainInv, Traffic, WritesInv
  <2>2. /\ queue \in Seq(Cmds) /\ dmaTail \in Seq(Cmds) /\ goeFifo \in Seq(CmdBeat)
        /\ Len(queue) \in Nat /\ Len(dmaTail) \in Nat /\ Len(goeFifo) \in Nat
    BY <2>1 DEF Ranges
  <2>3. OnWires \in Nat
    BY DEF OnWires, One
  <2>4. 2 * Len(queue) + Len(dmaTail) + Len(goeFifo) + OnWires = 0
    BY <2>1, WordsOnWires DEF Settled, OnTheWay
  <2>5. Len(queue) = 0 /\ Len(dmaTail) = 0 /\ Len(goeFifo) = 0 /\ OnWires = 0
    BY <2>2, <2>3, <2>4
  <2>6. queue = <<>> /\ dmaTail = <<>> /\ goeFifo = <<>>
    BY <2>2, <2>5
  <2>7. ~scmCout.wr /\ ~wrCout.wr /\ ~rdCout.wr
    BY <2>5 DEF OnWires, One
  <2>8. Behind6
    BY <2>6, <2>7 DEF Settled, Behind1, Behind2, Behind3, Behind4, Behind5, Behind6
  <2>9. QED
    BY <2>1, <2>8, EmptyLatest
<1>2. QED
  BY <1>1, ChainInvHolds, PTL
=============================================================================
