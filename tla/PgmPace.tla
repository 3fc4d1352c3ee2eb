------------------------------ MODULE PgmPace -------------------------------
(***************************************************************************)
(* The pace of the copies in clocks.  sent_time_cnt of pgm_rd stands still *)
(* in HAUNT1_S, so what it counts from one copy to the next (Period of     *)
(* Pgm) is not what a clock beside it would: here one is added.            *)
(***************************************************************************)
EXTENDS Pgm

VARIABLE since  \* history: clocks since the first word of a copy was read, or 0

paceVars == <<vars, since>>

CopyStarts == rdState = "READ" /\ ramQ.flag = "head"

PaceInit == Init /\ since = 0

\* Every step of Pgm is one clock.
PaceNext ==
  /\ Next
  /\ since' = IF CopyStarts THEN 1
              ELSE IF Replaying /\ since > 0 THEN since + 1
              ELSE 0

PaceSpec == PaceInit /\ [][PaceNext]_paceVars

\* As FairSpec of Pgm: the clock never stops and the test program runs.
FairPaceSpec == PaceSpec /\ WF_vars(Next) /\ WF_vars(Software)
-----------------------------------------------------------------------------
(***************************************************************************)
(* The first words of two copies are as far apart as the packet has words, *)
(* the pause in WAIT_S takes (sent_rate_reg + 1), and the RAM needs to be  *)
(* read from its start again (HAUNT1_S and HAUNT2_S): three clocks more    *)
(* than words and register, which the software has to take off a pace.     *)
(***************************************************************************)
HeadsApart == CopyStarts /\ since > 0 => since = ModelLen + rateReg + 3
=============================================================================
