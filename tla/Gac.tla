-------------------------------- MODULE Gac ---------------------------------
(***************************************************************************)
(* gac.v: the generic action.  It joins a packet's words, waiting in its   *)
(* data FIFO, with the packet's metadata, waiting in its metadata FIFO:    *)
(* for metadata addressed to gac it reads the action of the index in the   *)
(* flow table, writes it into the first word and sends the packet; other   *)
(* packets go out as they came.                                            *)
(***************************************************************************)
EXTENDS FastMd

CONSTANTS
  Table,      \* gac_ram: the action of each index
  SysMaxCpu   \* sys_max_cpuid

VARIABLES
  gacFifo, gacVFifo, gacMds,  \* gac_dfifo, gac_vfifo, MD_fifo (and PHV_fifo)
  gacRd, gacVRd, gacMdRd,     \* gac_dfifo_rd, gac_vfifo_rd, MD_fifo_rd
  gacState,   \* gac_state
  gacAddr,    \* gac_address
  gacCore, gacQ,  \* gac_ram: port B, memory and output register
  pollCpu,    \* polling_cpuid
  gacOut, gacVwr, \* out_gac_data{,_wr}, out_gac_valid_wr
  gacHdr      \* the header fields of the last first word sent

gacVars == <<gacFifo, gacVFifo, gacMds, gacRd, gacVRd, gacMdRd, gacState,
             gacAddr, gacCore, gacQ, pollCpu, gacOut, gacVwr, gacHdr>>

Indices == DOMAIN Table

\* Threads that polling hands packets to.
CpuIds == {0} \cup 0 .. SysMaxCpu - 1

(***************************************************************************)
(* The fields of a first word that gac may rewrite: where the packet goes, *)
(* with Own for what it came with.                                         *)
(***************************************************************************)
Own == -1
Hdr == [pkt : Nat, des : {"cpu", "port", "own"}, out : Nat \cup {Own},
        dmid : Nat \cup {Own}, pst : Psts]
RawHdr(pkt) == [pkt |-> pkt, des |-> "own", out |-> Own, dmid |-> Own,
                pst |-> "raw"]

GacTypeOK ==
  /\ gacFifo \in Seq(Beat) /\ Len(gacFifo) <= DataDepth
  /\ gacVFifo \in Seq(BOOLEAN)
  /\ gacMds \in Seq(Md) /\ Len(gacMds) <= MdDepth
  /\ gacRd \in BOOLEAN /\ gacVRd \in BOOLEAN /\ gacMdRd \in BOOLEAN
  /\ gacState \in {"IDLE", "LOOKUP", "WAIT", "METADATA", "TRANS"}
  /\ gacAddr \in Indices
  /\ pollCpu \in CpuIds
  /\ gacOut \in Beat
  /\ gacVwr \in BOOLEAN
  /\ gacHdr \in Hdr

GacInit ==
  /\ gacFifo = <<>> /\ gacVFifo = <<>> /\ gacMds = <<>>
  /\ gacRd = FALSE /\ gacVRd = FALSE /\ gacMdRd = FALSE
  /\ gacState = "IDLE"
  /\ gacAddr = 0
  /\ gacCore = Table[0] /\ gacQ = Table[0]
  /\ pollCpu = 0
  /\ gacOut = Idle
  /\ gacVwr = FALSE
  /\ gacHdr = RawHdr(0)
-----------------------------------------------------------------------------
GacWord == Front(gacFifo, Idle)
GacMd == Front(gacMds, NoMd)

ReadAll == gacRd' = TRUE /\ gacVRd' = TRUE /\ gacMdRd' = TRUE
ReadNone == gacRd' = FALSE /\ gacVRd' = FALSE /\ gacMdRd' = FALSE

\* A packet is complete, its metadata are here, and pgm has room.
Ready(alf) == gacVFifo # <<>> /\ gacMds # <<>> /\ ~alf

GacIdleLookup(alf) ==
  /\ gacState = "IDLE"
  /\ Ready(alf) /\ GacMd.dmid = 4
  /\ ReadNone
  /\ gacAddr' = GacMd.idx
  /\ gacOut' = [gacOut EXCEPT !.wr = FALSE] /\ gacVwr' = FALSE
  /\ gacState' = "LOOKUP"
  /\ UNCHANGED <<pollCpu, gacHdr>>

GacIdleBypass(alf) ==
  /\ gacState = "IDLE"
  /\ Ready(alf) /\ GacMd.dmid # 4
  /\ ReadAll
  /\ gacAddr' = 0
  /\ gacOut' = [gacOut EXCEPT !.wr = FALSE] /\ gacVwr' = FALSE
  /\ gacState' = "TRANS"
  /\ UNCHANGED <<pollCpu, gacHdr>>

GacIdleWait(alf) ==
  /\ gacState = "IDLE"
  /\ ~Ready(alf)
  /\ ReadNone
  /\ gacAddr' = 0
  /\ gacOut' = Idle /\ gacVwr' = FALSE
  /\ UNCHANGED <<gacState, pollCpu, gacHdr>>

\* The flow table answers two clocks after the address.
GacLookupShort ==
  /\ gacState = "LOOKUP"
  /\ gacState' = "METADATA"
  /\ ReadAll
  /\ UNCHANGED <<gacAddr, gacOut, gacVwr, pollCpu, gacHdr>>
GacLookup ==
  /\ gacState = "LOOKUP"
  /\ gacState' = "WAIT"
  /\ gacMdRd' = FALSE
  /\ UNCHANGED <<gacRd, gacVRd, gacAddr, gacOut, gacVwr, pollCpu, gacHdr>>

GacWait ==
  /\ gacState = "WAIT"
  /\ ReadAll
  /\ gacState' = "METADATA"
  /\ UNCHANGED <<gacAddr, gacOut, gacVwr, pollCpu, gacHdr>>

Action(entry, w, m, cpu) ==
  CASE entry.op = "user" -> [pkt |-> m.pkt, des |-> "cpu", out |-> entry.arg,
                             dmid |-> 5, pst |-> m.pst]
    [] entry.op = "poll" -> [pkt |-> m.pkt, des |-> "cpu", out |-> cpu,
                             dmid |-> 5, pst |-> m.pst]
    [] entry.op = "port" -> [pkt |-> m.pkt, des |-> "port", out |-> entry.arg,
                             dmid |-> 5, pst |-> m.pst]
    [] entry.op = "mid"  -> [pkt |-> m.pkt, des |-> "cpu", out |-> Own,
                             dmid |-> entry.arg, pst |-> m.pst]
    [] OTHER             -> [RawHdr(w.pkt) EXCEPT !.dmid = 5]

\* polling_cpuid has 6 bits.
NextCpuAtMost ==
  IF (pollCpu + 1) % 64 <= SysMaxCpu THEN (pollCpu + 1) % 64 ELSE 0
NextCpu == IF (pollCpu + 1) % 64 < SysMaxCpu THEN (pollCpu + 1) % 64 ELSE 0

\* The first word leaves with the action's fields.
GacMetadata ==
  /\ gacState = "METADATA"
  /\ gacVRd' = FALSE /\ gacMdRd' = FALSE
  /\ gacOut' = [GacWord EXCEPT !.wr = TRUE]
  /\ gacHdr' = Action(gacQ, GacWord, GacMd, pollCpu)
  /\ pollCpu' = IF gacQ.op = "poll" THEN NextCpu ELSE pollCpu
  /\ gacState' = "TRANS"
  /\ UNCHANGED <<gacRd, gacAddr, gacVwr>>

GacTrans ==
  /\ gacState = "TRANS"
  /\ gacVRd' = FALSE /\ gacMdRd' = FALSE
  /\ gacOut' = [GacWord EXCEPT !.wr = TRUE]
  /\ gacHdr' = IF GacWord.flag = "head" THEN RawHdr(GacWord.pkt) ELSE gacHdr
  /\ gacRd' = (GacWord.flag # "tail")
  /\ gacVwr' = (GacWord.flag = "tail")
  /\ gacState' = IF GacWord.flag = "tail" THEN "IDLE" ELSE "TRANS"
  /\ UNCHANGED <<gacAddr, pollCpu>>

\* b and vwr come from the data cache, m from scm, alf from pgm.
GacClock(b, vwr, m, alf) ==
  /\ \/ GacIdleLookup(alf) \/ GacIdleBypass(alf) \/ GacIdleWait(alf)
     \/ GacLookup \/ GacWait \/ GacMetadata \/ GacTrans
  /\ gacCore' = Table[gacAddr] /\ gacQ' = gacCore
  /\ gacFifo' = FifoNext(gacFifo, gacRd, b.wr, b, DataDepth)
  /\ gacVFifo' = FifoNext(gacVFifo, gacVRd, vwr, TRUE, DataDepth)
  /\ gacMds' = FifoNext(gacMds, gacMdRd, m.wr, m, MdDepth)
=============================================================================
