------------------------------ MODULE RegFile -------------------------------
(***************************************************************************)
(* What the test program relies on: a file of registers.  A setter is done *)
(* at once; a getter waits, and returns what was last set before it asked. *)
(***************************************************************************)
EXTENDS Integers

CONSTANTS Names, Values

VARIABLES call, mem

Init ==
  /\ call = [st |-> "idle", name |-> "", val |-> 0]
  /\ mem \in [Names -> Int]

Set(n, v) ==
  /\ call.st # "waiting"
  /\ mem' = [mem EXCEPT ![n] = v]
  /\ call' = [st |-> "idle", name |-> "", val |-> 0]

Ask(n) ==
  /\ call.st # "waiting"
  /\ call' = [st |-> "waiting", name |-> n, val |-> 0]
  /\ UNCHANGED mem

Return ==
  /\ call.st = "waiting"
  /\ call' = [call EXCEPT !.st = "returned", !.val = mem[call.name]]
  /\ UNCHANGED mem

Next ==
  \/ \E n \in Names, v \in Values : Set(n, v)
  \/ \E n \in Names : Ask(n)
  \/ Return

Spec == Init /\ [][Next]_<<call, mem>> /\ WF_<<call, mem>>(Return)
=============================================================================
