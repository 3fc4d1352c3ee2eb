------------------------------- MODULE Egress -------------------------------
(***************************************************************************)
(* What the output engine promises: the packets it keeps leave once each   *)
(* and in the order they came, none of them before it is complete and its  *)
(* words in consecutive steps; and what is complete leaves.  A packet      *)
(* takes the counter of its flow with its first word and gives it back,    *)
(* one higher, with the third: what software writes meanwhile is lost.     *)
(***************************************************************************)
EXTENDS Integers, Sequences

CONSTANTS FlowOf(_),   \* word -> flow
          Flows,
          Written,     \* what software may write into a counter
          Nothing,     \* no word
          CountMod     \* the counters count modulo that

VARIABLES queue,  \* words that came and have not left
          out,    \* the word on the output
          taken,  \* the counter of the packet that leaves
          tally   \* packets of each flow

evars == <<queue, out, taken, tally>>

Inside(w) == w # Nothing /\ w.flag # "tail"

EInit == /\ queue = <<>> /\ out = Nothing
         /\ taken = 0 /\ tally = [f \in Flows |-> 0]

\* q or q and one word more: the first of a packet or the one that follows.
Arrive(q) ==
  \/ queue' = q
  \/ /\ queue' # <<>>
     /\ LET w == queue'[Len(queue')] IN
          /\ queue' = Append(q, w)
          /\ IF q # <<>> /\ q[Len(q)].flag # "tail"
             THEN w.pkt = q[Len(q)].pkt /\ w.seq = q[Len(q)].seq + 1
             ELSE w.flag = "head" /\ w.seq = 0

Complete == \E i \in 1 .. Len(queue) : queue[i].flag = "tail"

Counted(t, w) ==
  IF w # Nothing /\ w.seq = 2
  THEN [t EXCEPT ![FlowOf(w)] = (taken + 1) % CountMod] ELSE t

\* Software may write a counter in any step, before or after it counts.
Tally(w) ==
  tally' \in {Counted(tally, w)}
    \cup {[Counted(tally, w) EXCEPT ![f] = v] : f \in Flows, v \in Written}
    \cup {Counted([tally EXCEPT ![f] = v], w) : f \in Flows, v \in Written}

Rest == /\ ~Inside(out)
        /\ out' = Nothing
        /\ Arrive(queue)
        /\ Tally(Nothing) /\ taken' = 0

Send == /\ Inside(out) \/ Complete
        /\ out' = Head(queue)
        /\ Arrive(Tail(queue))
        /\ Tally(out')
        /\ CASE out'.seq = 0 -> taken' \in {tally[FlowOf(out')],
                                             tally'[FlowOf(out')]}
             [] out'.seq = 1 -> taken' = taken
             [] OTHER -> taken' = 0

ESafe == EInit /\ [][Rest \/ Send]_evars

ESpec == ESafe /\ WF_evars(Send)
=============================================================================
