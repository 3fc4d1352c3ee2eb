------------------------------ MODULE BusFile -------------------------------
(***************************************************************************)
(* What the local bus promises its host: a file of registers with one      *)
(* access at a time.  A write to the block of the flow table goes into the *)
(* table, also when it names a counter; the other blocks have counters     *)
(* only, and ignore it.                                                    *)
(***************************************************************************)
CONSTANTS Accesses, NoAccess, Words, Zero, Data(_), Count(_, _)

VARIABLES ask,     \* the access under way
          done,    \* whether its write is done
          table,   \* the flow table
          answer   \* what the last read returned, until the next access

bvars == <<ask, done, table, answer>>

BInit == /\ ask = NoAccess /\ done = FALSE /\ answer = Zero
         /\ table = [w \in Words |-> Zero]

Ask == /\ ask = NoAccess
       /\ ask' \in Accesses
       /\ done' = FALSE /\ answer' = Zero
       /\ UNCHANGED table

Perform == /\ ask # NoAccess /\ ask.rw = "write" /\ ~done
           /\ done' = TRUE
           /\ table' = IF ask.addr.block = "gac"
                       THEN [table EXCEPT ![ask.addr.word] = Data(ask.data)]
                       ELSE table
           /\ UNCHANGED <<ask, answer>>

Held(a) == IF a.block = "gac" /\ ~a.high THEN table[a.word]
           ELSE Count(a.block, a.word)

Return == /\ ask # NoAccess /\ (ask.rw = "write" => done)
          /\ ask' = NoAccess
          /\ done' = FALSE
          /\ answer' = IF ask.rw = "read" THEN Held(ask.addr) ELSE Zero
          /\ UNCHANGED table

\* The answer goes when the host has seen the acknowledgement fall.
Rest == /\ ask = NoAccess
        /\ answer' = Zero
        /\ UNCHANGED <<ask, done, table>>

BSpec == /\ BInit /\ [][Ask \/ Perform \/ Return \/ Rest]_bvars
         /\ WF_bvars(Perform \/ Return)
=============================================================================
