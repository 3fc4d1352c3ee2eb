------------------------------ MODULE GoeCtrl -------------------------------
(***************************************************************************)
(* goe.v, its register half: the last block of the control chain keeps the *)
(* words in a FIFO, passes answers on to the DMA engine when that is       *)
(* ready, and reads or writes its own packet counters.                     *)
(***************************************************************************)
EXTENDS CtrlCmd, Sequences

CONSTANT
  CtrlDepth   \* words of ctrl_fifo

VARIABLES
  goeFifo,    \* ctrl_fifo
  goeShown,   \* its output register: the word it showed last
  goeRd,      \* cin_goe_rd
  goeState,   \* cfg_state
  goeOut      \* cout_goe_data, cout_goe_data_wr

goeVars == <<goeFifo, goeShown, goeRd, goeState, goeOut>>

GoeInit ==
  /\ goeFifo = <<>>
  /\ goeShown = Quiet
  /\ goeRd = FALSE
  /\ goeState = "idle"
  /\ goeOut = Quiet
-----------------------------------------------------------------------------
GoeReady == Len(goeFifo) < CtrlDepth

\* The word on the output of the FIFO; an empty one keeps showing the last.
GoeWord == IF goeFifo = <<>> THEN goeShown ELSE Head(goeFifo)

GoeIdle(dmaReady) ==
  /\ goeState = "idle"
  /\ goeOut' = Quiet
  /\ \/ /\ goeFifo # <<>> /\ dmaReady
        /\ goeRd' = TRUE
        /\ goeState' = IF GoeWord.dst # GoeMid THEN "tran"
                       ELSE IF CmdHead(GoeWord) /\ GoeWord.op = "read"
                            THEN "wait0"
                       ELSE IF CmdHead(GoeWord) /\ GoeWord.op = "write"
                            THEN "write"
                       ELSE "idle"
     \/ /\ ~(goeFifo # <<>> /\ dmaReady)
        /\ UNCHANGED <<goeRd, goeState>>

GoeWrite ==
  /\ goeState = "write"
  /\ goeRd' = TRUE
  /\ goeState' = "discard"
  /\ UNCHANGED goeOut

GoeWait0 ==
  /\ goeState = "wait0"
  /\ goeRd' = TRUE
  /\ goeState' = "read"
  /\ UNCHANGED goeOut

\* The first word of the command has left the FIFO two clocks ago.
GoeRead(count) ==
  /\ goeState = "read"
  /\ goeRd' = TRUE
  /\ goeOut' = [Reply(GoeWord, count) EXCEPT !.wr = TRUE]
  /\ goeState' = "tran"

GoeTran ==
  /\ goeState = "tran"
  /\ goeOut' = [GoeWord EXCEPT !.wr = TRUE]
  /\ goeRd' = (GoeWord.part # "tail")
  /\ goeState' = IF GoeWord.part = "tail" THEN "idle" ELSE "tran"

GoeDiscard ==
  /\ goeState = "discard"
  /\ goeOut' = [GoeWord EXCEPT !.wr = goeOut.wr]
  /\ goeRd' = (GoeWord.part # "tail")
  /\ goeState' = IF GoeWord.part = "tail" THEN "idle" ELSE "discard"

\* What the state write_s puts into goe_ram_inst.
GoeStored(count) == IF goeState = "write" THEN GoeWord.val ELSE count

\* count is the counter that the command asks for.
GoeClock(in, dmaReady, count) ==
  /\ \/ GoeIdle(dmaReady) \/ GoeWrite \/ GoeWait0 \/ GoeRead(count)
     \/ GoeTran \/ GoeDiscard
  /\ goeShown' = GoeWord
  /\ LET p == IF goeRd /\ goeFifo # <<>> THEN Tail(goeFifo) ELSE goeFifo
     IN  goeFifo' = IF in.wr /\ Len(goeFifo) < CtrlDepth
                    THEN Append(p, in) ELSE p
=============================================================================
