----------------------------- MODULE DataCache ------------------------------
(***************************************************************************)
(* data_cache.v: a FIFO of words and a FIFO of valid bits, one per packet. *)
(* A packet moves on once its last word is stored, if it arrived valid and *)
(* gac has room; an invalid packet is read and dropped.                    *)
(***************************************************************************)
EXTENDS FastMd

VARIABLES
  dcFifo, dcVFifo,    \* pkt_dfifo, pkt_vfifo
  dcRd, dcVRd,        \* pkt_dfifo_rd, pkt_vfifo_rd
  dcState,            \* data_cache_state
  dcOut, dcVwr        \* out_data_cache_data{,_wr}, out_data_cache_valid_wr

dcVars == <<dcFifo, dcVFifo, dcRd, dcVRd, dcState, dcOut, dcVwr>>

DcTypeOK ==
  /\ dcFifo \in Seq(Beat) /\ Len(dcFifo) <= DataDepth
  /\ dcVFifo \in Seq(BOOLEAN)
  /\ dcRd \in BOOLEAN /\ dcVRd \in BOOLEAN
  /\ dcState \in {"IDLE", "SEND", "DISCARD"}
  /\ dcOut \in Beat
  /\ dcVwr \in BOOLEAN

DcInit ==
  /\ dcFifo = <<>> /\ dcVFifo = <<>>
  /\ dcRd = FALSE /\ dcVRd = FALSE
  /\ dcState = "IDLE"
  /\ dcOut = Idle
  /\ dcVwr = FALSE

DcStart(alf) ==
  /\ dcState = "IDLE"
  /\ dcOut' = [dcOut EXCEPT !.wr = FALSE]
  /\ dcVwr' = FALSE
  /\ \/ /\ dcVFifo # <<>> /\ ~Head(dcVFifo)
        /\ dcRd' = TRUE /\ dcVRd' = TRUE
        /\ dcState' = "DISCARD"
     \/ /\ dcVFifo # <<>> /\ Head(dcVFifo) /\ ~alf
        /\ dcRd' = TRUE /\ dcVRd' = TRUE
        /\ dcState' = "SEND"
     \/ /\ dcVFifo # <<>> => Head(dcVFifo) /\ alf
        /\ dcRd' = FALSE /\ dcVRd' = FALSE
        /\ UNCHANGED dcState

DcWord == Front(dcFifo, Idle)

DcSend ==
  /\ dcState = "SEND"
  /\ dcVRd' = FALSE
  /\ dcOut' = [DcWord EXCEPT !.wr = TRUE]
  /\ dcRd' = (DcWord.flag # "tail")
  /\ dcVwr' = (DcWord.flag = "tail")
  /\ dcState' = IF DcWord.flag = "tail" THEN "IDLE" ELSE "SEND"

\* The last word of a dropped packet is the last one read.
DcDiscardOverread ==
  /\ dcState = "DISCARD"
  /\ dcVRd' = FALSE
  /\ dcOut' = Idle
  /\ dcVwr' = FALSE
  /\ dcRd' = TRUE
  /\ dcState' = IF DcWord.flag = "tail" THEN "IDLE" ELSE "DISCARD"
DcDiscard ==
  /\ dcState = "DISCARD"
  /\ dcVRd' = FALSE
  /\ dcOut' = Idle
  /\ dcVwr' = FALSE
  /\ dcRd' = (DcWord.flag # "tail")
  /\ dcState' = IF DcWord.flag = "tail" THEN "IDLE" ELSE "DISCARD"

\* b, val and vwr come from gpp, alf from gac.
DcClock(b, val, vwr, alf) ==
  /\ DcStart(alf) \/ DcSend \/ DcDiscard
  /\ dcFifo' = FifoNext(dcFifo, dcRd, b.wr, b, DataDepth)
  /\ dcVFifo' = FifoNext(dcVFifo, dcVRd, vwr, val, DataDepth)
=============================================================================
