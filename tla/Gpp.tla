-------------------------------- MODULE Gpp ---------------------------------
(***************************************************************************)
(* gpp.v: the generic packet parser.  It passes the words of a packet on   *)
(* to the data cache and, at the packet's last word, its metadata to gke.  *)
(* Beside the state machine that forwards the words, one clocked block per *)
(* register follows the words: a step counter, the headers seen at fixed   *)
(* steps, and the protocol type computed from them.                        *)
(***************************************************************************)
EXTENDS FastMd

VARIABLES
  gppState,   \* gpp_state
  gppFlag,    \* flag: the packet on the wires was accepted
  gppStep,    \* pkt_step_count
  gppMd,      \* MD: packet, DMID, length of the last first word
  gppEth, gppProto,   \* PHV: Ethernet type and IP protocol
  gppPst,     \* PST
  gppOut, gppVal, gppVwr,   \* out_gpp_data{,_wr}, out_gpp_valid{,_wr}
  gppMdOut    \* out_gpp_md, out_gpp_md_wr

gppVars == <<gppState, gppFlag, gppStep, gppMd, gppEth, gppProto, gppPst,
             gppOut, gppVal, gppVwr, gppMdOut>>

GppTypeOK ==
  /\ gppState \in {"IDLE", "TRANS", "DISCARD"}
  /\ gppFlag \in BOOLEAN
  /\ gppStep \in 0 .. 255
  /\ gppMd \in [pkt : Nat, dmid : Mids, len : Nat, idx : Nat \cup {NoIdx}]
  /\ gppEth \in {"none"} \cup EthTypes
  /\ gppProto \in {"none", "tcp", "udp", "other"}
  /\ gppPst \in Psts
  /\ gppOut \in Beat
  /\ gppVal \in BOOLEAN /\ gppVwr \in BOOLEAN
  /\ gppMdOut \in Md

GppInit ==
  /\ gppState = "IDLE"
  /\ gppFlag = FALSE
  /\ gppStep = 0
  /\ gppMd = [pkt |-> 0, dmid |-> 0, len |-> 0, idx |-> NoIdx]
  /\ gppEth = "none" /\ gppProto = "none"
  /\ gppPst = "none"
  /\ gppOut = Idle
  /\ gppVal = FALSE /\ gppVwr = FALSE
  /\ gppMdOut = NoMd
-----------------------------------------------------------------------------
\* Packets for the parser itself or for a module behind the matcher.
AcceptsAll(dmid) == TRUE
Accepts(dmid) == dmid = 1 \/ dmid > 4

\* The words: b is on the wires, k is the kind of its packet.
GppForward(b, valid, k) ==
  \/ /\ gppState = "IDLE"
     /\ gppVal' = FALSE /\ gppVwr' = FALSE
     /\ \/ /\ IsHead(b) /\ Accepts(k.dmid)
           /\ gppOut' = b
           /\ gppFlag' = TRUE
           /\ gppState' = "TRANS"
        \/ /\ IsHead(b) /\ ~Accepts(k.dmid)
           /\ gppOut' = Idle
           /\ gppFlag' = FALSE
           /\ gppState' = "DISCARD"
        \/ /\ ~IsHead(b)
           /\ gppOut' = Idle
           /\ UNCHANGED <<gppFlag, gppState>>
  \/ /\ gppState = "TRANS"
     /\ gppOut' = [b EXCEPT !.wr = TRUE]
     /\ gppVal' = valid
     /\ gppVwr' = (b.flag = "tail")
     /\ gppState' = IF b.flag = "tail" THEN "IDLE" ELSE "TRANS"
     /\ UNCHANGED gppFlag
  \/ /\ gppState = "DISCARD"
     /\ gppOut' = [gppOut EXCEPT !.wr = FALSE]
     /\ gppVwr' = FALSE
     /\ gppState' = IF b.flag = "tail" THEN "IDLE" ELSE "DISCARD"
     /\ UNCHANGED <<gppFlag, gppVal>>

\* The combinational step count: 0 at a first word.
StepNow(b) == IF b.wr /\ b.flag # "head" THEN (gppStep + 1) % 256 ELSE 0

\* The headers are taken at fixed steps and stay until the next packet's.
GppParse(b, k) ==
  /\ gppStep' = StepNow(b)
  /\ gppMd' = IF b.wr /\ StepNow(b) = 0
              THEN [pkt |-> b.pkt, dmid |-> k.dmid, len |-> k.len,
                    idx |-> IF k.dmid = 1 THEN NoIdx ELSE k.idx]
              ELSE gppMd
  /\ gppEth' = IF b.wr /\ StepNow(b) = 2 THEN k.eth ELSE gppEth
  /\ gppProto' = IF b.wr /\ StepNow(b) = 3 THEN k.proto ELSE gppProto

\* An unknown Ethernet type leaves the protocol type of the packet before.
GppProtocol ==
  gppPst' = CASE gppEth = "ip" ->
                   IF gppProto \in {"tcp", "udp"} THEN gppProto ELSE "ip"
              [] gppEth \in {"arp", "vlan"} -> gppEth
              [] OTHER -> gppPst

MdNow(wr) ==
  [wr   |-> wr,
   pkt  |-> gppMd.pkt,
   dmid |-> IF gppMd.dmid = 1 THEN 2 ELSE gppMd.dmid,
   pst  |-> IF gppMd.dmid = 1 THEN gppPst ELSE "raw",
   len  |-> gppMd.len,
   idx  |-> gppMd.idx]

\* The metadata leave with the last word, if the packet is valid.
GppMetadataUnflagged(valid) == gppMdOut' = MdNow(valid)
GppMetadata(valid) == gppMdOut' = MdNow(gppFlag /\ valid)

GppClock(b, valid, k) ==
  /\ GppForward(b, valid, k)
  /\ GppParse(b, k)
  /\ GppProtocol
  /\ GppMetadata(valid)
=============================================================================
