------------------------------- MODULE PgmRam -------------------------------
(***************************************************************************)
(* The two-port block RAM that holds the model packet.  pgm_wr drives port *)
(* A, pgm_rd reads port B.  The IP core has an output register on port B,  *)
(* so the word at an address arrives two clocks after the address; what    *)
(* port B returns while port A writes the same address is not defined by   *)
(* the core, which is the choice between the old and the new word here.    *)
(***************************************************************************)
EXTENDS FastBeat

CONSTANT
  RamDepth    \* words of the RAM: 128, addresses have 7 bits

VARIABLES
  ram,        \* the memory
  ramCore,    \* port B, the word the memory array delivers
  ramQ        \* port B, the output register (ram2rd_rdata)

ramVars == <<ram, ramCore, ramQ>>

Addr == 0 .. RamDepth - 1
NextAddr(a) == (a + 1) % RamDepth

RamTypeOK ==
  /\ ram \in [Addr -> Beat]
  /\ ramCore \in Beat
  /\ ramQ \in Beat

RamInit ==
  /\ ram = [a \in Addr |-> Idle]
  /\ ramCore = Idle
  /\ ramQ = Idle

\* One clock of both ports: (we, wa, wd) drive port A and ra is port B's
\* address.
RamStep(we, wa, wd, ra) ==
  /\ ram' = IF we THEN [ram EXCEPT ![wa] = wd] ELSE ram
  /\ ramCore' \in IF we /\ wa = ra THEN {ram[ra], wd} ELSE {ram[ra]}
  /\ ramQ' = ramCore
=============================================================================
