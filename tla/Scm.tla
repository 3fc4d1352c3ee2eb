-------------------------------- MODULE Scm ---------------------------------
(***************************************************************************)
(* scm.v, its metadata half: the statistics collector passes the metadata  *)
(* on to gac and counts, while the generator's start flag is up, the       *)
(* packets of one protocol type.                                           *)
(***************************************************************************)
EXTENDS FastMd

VARIABLES
  scmMdOut,   \* out_scm_md, out_scm_md_wr
  scmPkts,    \* scm_pkt_num_cnt
  scmBits,    \* scm_bit_num_cnt (it counts the length field)
  protoType,  \* protocol_type
  statReset   \* statistic_reset

scmVars == <<scmMdOut, scmPkts, scmBits>>

ScmTypeOK ==
  /\ scmMdOut \in Md
  /\ scmPkts \in Nat /\ scmBits \in Nat
  /\ protoType \in Psts
  /\ statReset \in BOOLEAN

ScmInit ==
  /\ scmMdOut = NoMd
  /\ scmPkts = 0 /\ scmBits = 0
  /\ statReset = FALSE
-----------------------------------------------------------------------------
\* While statistic_reset is up no metadata pass, and those that come are lost.
ScmReset ==
  /\ statReset
  /\ scmMdOut' = NoMd
  /\ scmPkts' = 0 /\ scmBits' = 0

\* Packets of the statistics module: count, and send on to gac.
ScmCountAnyType(m, started) ==
  /\ ~statReset
  /\ m.wr /\ m.dmid = 7
  /\ scmMdOut' = [m EXCEPT !.dmid = 4]
  /\ \/ /\ started
        /\ scmPkts' = scmPkts + 1 /\ scmBits' = scmBits + m.len
     \/ /\ ~started
        /\ UNCHANGED <<scmPkts, scmBits>>
ScmCount(m, started) ==
  /\ ~statReset
  /\ m.wr /\ m.dmid = 7
  /\ scmMdOut' = [m EXCEPT !.dmid = 4]
  /\ \/ /\ started /\ protoType = m.pst
        /\ scmPkts' = scmPkts + 1 /\ scmBits' = scmBits + m.len
     \/ /\ ~(started /\ protoType = m.pst)
        /\ UNCHANGED <<scmPkts, scmBits>>

ScmBypass(m) ==
  /\ ~statReset
  /\ m.wr /\ m.dmid # 7
  /\ scmMdOut' = m
  /\ UNCHANGED <<scmPkts, scmBits>>

ScmNothing(m) ==
  /\ ~statReset
  /\ ~m.wr
  /\ scmMdOut' = NoMd
  /\ UNCHANGED <<scmPkts, scmBits>>

\* m comes from gme, started is the generator's start flag.
ScmClock(m, started) ==
  ScmReset \/ ScmCount(m, started) \/ ScmBypass(m) \/ ScmNothing(m)
=============================================================================
