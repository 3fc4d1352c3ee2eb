----------------------------- MODULE MCAntTest ------------------------------
(***************************************************************************)
(* Command lines and moments of death for TLC.                             *)
(***************************************************************************)
EXTENDS AntTest

\* A frame of whole words at full rate, one whose last word is not full, a rate given
\* in Mbps as the usage text has it, and arguments that main refuses.
CommandLines == {[time |-> 1, rate |-> 100, len |-> 80],
                 [time |-> 2, rate |-> 37, len |-> 61],
                 [time |-> 2, rate |-> 1000, len |-> 64],
                 [time |-> 1, rate |-> 100, len |-> 59]}

\* Everywhere but between the two writes that pulse a reset bit.
Killable == Steps \ {"unreset", "scm_unreset", "done", "gone"}
=============================================================================
