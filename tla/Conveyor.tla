------------------------------ MODULE Conveyor ------------------------------
(***************************************************************************)
(* What the pipeline from pktin to gac promises: of the packets that       *)
(* arrive, those that are valid and addressed to a module it serves leave, *)
(* each exactly once and in the order of arrival, and the first word of a  *)
(* packet leaves with header fields that its own rule allows.              *)
(***************************************************************************)
EXTENDS Integers, Sequences

CONSTANTS
  Kinds,          \* the kinds of packets that may arrive
  Wanted(_),      \* those that must leave
  Allowed(_)      \* header fields a packet of a kind may leave with

VARIABLES
  queue,          \* packets that arrived and have not left
  left            \* the packet that left last: its kind and header

Nobody == [some |-> FALSE]

Init ==
  /\ queue = <<>>
  /\ left = Nobody

\* In one step a packet may arrive and another one may leave.
Arrive(q) ==
  \/ queue' = q
  \/ queue' \in {Append(q, k) : k \in {x \in Kinds : Wanted(x)}}

\* The packet in front leaves.
Depart ==
  /\ queue # <<>>
  /\ \E k \in {Head(queue)} : \E h \in Allowed(k) :
       left' = [some |-> TRUE, kind |-> k, hdr |-> h]
  /\ Arrive(Tail(queue))

Next ==
  \/ UNCHANGED left /\ Arrive(queue)
  \/ Depart

Spec == Init /\ [][Next]_<<queue, left>>

\* As long as something waits, something leaves in the end.
FairSpec == Spec /\ WF_<<queue, left>>(Depart)
=============================================================================
