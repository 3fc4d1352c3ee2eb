------------------------------- MODULE MCGoe --------------------------------
EXTENDS Goe

\* Two flows, two lengths, and packets that are dropped.
Packets == <<[flow |-> 0, len |-> 6, drop |-> FALSE],
             [flow |-> 1, len |-> 7, drop |-> FALSE],
             [flow |-> 1, len |-> 6, drop |-> TRUE]>>
=============================================================================
