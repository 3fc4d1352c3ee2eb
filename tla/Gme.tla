-------------------------------- MODULE Gme ---------------------------------
(***************************************************************************)
(* gme.v: the generic match engine.  It sends the key of a packet to the   *)
(* external matcher, keeps the metadata in a FIFO, and when the matcher    *)
(* answers joins the index, from a FIFO of its own, to the oldest metadata *)
(* that wait for one.  Metadata of other modules pass in their turn.       *)
(***************************************************************************)
EXTENDS Gke

VARIABLES
  gmeKeyOut,  \* out_gme_key, out_gme_key_wr
  gmeMds,     \* MD_fifo (and PHV_fifo)
  gmeIdxs,    \* fifo_16_1024: indices
  gmeRd, gmeIdxRd,    \* MD_fifo_rd, index_fifo_rd
  gmeFlag,    \* md_flag: the packet on its way out takes an index
  gmeState,   \* md_phv_state
  gmeMdOut    \* out_gme_md, out_gme_md_wr

gmeVars == <<gmeKeyOut, gmeMds, gmeIdxs, gmeRd, gmeIdxRd, gmeFlag, gmeState,
             gmeMdOut>>

\* The answers of the matcher.
IdxBus == [wr : BOOLEAN, idx : Nat]
NoAnswer == [wr |-> FALSE, idx |-> 0]

GmeTypeOK ==
  /\ gmeKeyOut \in KeyBus
  /\ gmeMds \in Seq(Md) /\ Len(gmeMds) <= MdDepth
  /\ gmeIdxs \in Seq(Nat)
  /\ gmeRd \in BOOLEAN /\ gmeIdxRd \in BOOLEAN /\ gmeFlag \in BOOLEAN
  /\ gmeState \in {"idle", "data"}
  /\ gmeMdOut \in Md

GmeInit ==
  /\ gmeKeyOut = NoKey
  /\ gmeMds = <<>> /\ gmeIdxs = <<>>
  /\ gmeRd = FALSE /\ gmeIdxRd = FALSE /\ gmeFlag = FALSE
  /\ gmeState = "idle"
  /\ gmeMdOut = NoMd
-----------------------------------------------------------------------------
GmeKey(key, m) ==
  gmeKeyOut' = [wr |-> key.wr /\ m.dmid = 3, pkt |-> key.pkt]

GmeHead == Front(gmeMds, NoMd)

GmeWait ==
  /\ gmeState = "idle"
  /\ gmeMdOut' = NoMd
  /\ \/ /\ gmeMds # <<>> /\ GmeHead.dmid = 3 /\ gmeIdxs # <<>>
        /\ gmeRd' = TRUE /\ gmeIdxRd' = TRUE /\ gmeFlag' = TRUE
        /\ gmeState' = "data"
     \/ /\ gmeMds # <<>> /\ GmeHead.dmid # 3
        /\ gmeRd' = TRUE /\ gmeIdxRd' = FALSE /\ gmeFlag' = FALSE
        /\ gmeState' = "data"
     \/ /\ gmeMds # <<>> => GmeHead.dmid = 3 /\ gmeIdxs = <<>>
        /\ gmeRd' = FALSE /\ gmeIdxRd' = FALSE /\ gmeFlag' = FALSE
        /\ UNCHANGED gmeState

GmeJoined ==
  IF gmeFlag
  THEN [GmeHead EXCEPT !.wr = TRUE, !.dmid = 7, !.idx = Front(gmeIdxs, 0)]
  ELSE [GmeHead EXCEPT !.wr = TRUE]

GmeSendKeepsRd ==
  /\ gmeState = "data"
  /\ gmeRd' = FALSE /\ UNCHANGED gmeIdxRd
  /\ gmeMdOut' = GmeJoined
  /\ gmeState' = "idle"
  /\ UNCHANGED gmeFlag
GmeSend ==
  /\ gmeState = "data"
  /\ gmeRd' = FALSE /\ gmeIdxRd' = FALSE
  /\ gmeMdOut' = GmeJoined
  /\ gmeState' = "idle"
  /\ UNCHANGED gmeFlag

\* key and m come from gke, a from the matcher.
GmeClock(key, m, a) ==
  /\ GmeKey(key, m)
  /\ GmeWait \/ GmeSend
  /\ gmeMds' = FifoNext(gmeMds, gmeRd, m.wr, m, MdDepth)
  /\ gmeIdxs' = FifoNext(gmeIdxs, gmeIdxRd, a.wr, a.idx, MdDepth)
=============================================================================
