---------------------------- MODULE PktGenerator ----------------------------
(***************************************************************************)
(* What the packet generator promises: given a model packet it emits       *)
(* copies of it, each of them whole, its words in order in consecutive     *)
(* steps, with pauses only between copies; the sixth word of a copy        *)
(* carries the number of copies that went before.  After some whole number *)
(* of copies it is done, and it begins again only after a reset.           *)
(***************************************************************************)
EXTENDS Integers

CONSTANTS
  PktIds,     \* identities of model packets
  Lens        \* their lengths in words

VARIABLES
  phase,      \* idle, run or done
  pkt, len,   \* the model packet
  pos,        \* the position of the next word to emit
  count,      \* copies emitted
  out         \* the word on the output, or Nothing

genVars == <<phase, pkt, len, pos, count, out>>

Nothing == [pkt |-> 0, pos |-> -1, last |-> FALSE, stamp |-> -1]

StampPos == 5

Init ==
  /\ phase = "idle"
  /\ pkt = 0 /\ len = 0
  /\ pos = 0
  /\ count = 0
  /\ out = Nothing

Start(p, n) ==
  /\ phase = "idle"
  /\ phase' = "run"
  /\ pkt' = p /\ len' = n
  /\ pos' = 0
  /\ count' = 0
  /\ out' = Nothing

EmitWord ==
  /\ phase = "run"
  /\ out' = [pkt |-> pkt, pos |-> pos, last |-> pos = len - 1,
             stamp |-> IF pos = StampPos THEN count ELSE -1]
  /\ \/ /\ pos < len - 1
        /\ pos' = pos + 1
        /\ UNCHANGED <<phase, count>>
     \/ /\ pos = len - 1
        /\ pos' = 0
        /\ count' = count + 1
        /\ phase' \in {"run", "done"}
  /\ UNCHANGED <<pkt, len>>

Pause ==
  /\ phase = "run" /\ pos = 0
  /\ out' = Nothing
  /\ UNCHANGED <<phase, pkt, len, pos, count>>

Rest ==
  /\ phase = "done"
  /\ out' = Nothing
  /\ UNCHANGED <<phase, pkt, len, pos, count>>

Reset ==
  /\ phase = "done"
  /\ phase' = "idle"
  /\ pkt' = 0 /\ len' = 0
  /\ pos' = 0
  /\ count' = 0
  /\ out' = Nothing

Next ==
  \/ \E p \in PktIds, n \in Lens : Start(p, n)
  \/ EmitWord
  \/ Pause
  \/ Rest
  \/ Reset

Spec == Init /\ [][Next]_genVars
=============================================================================
