------------------------------ MODULE LocalBus ------------------------------
(***************************************************************************)
(* The local bus: the arbiter of um.v, the six blocks behind it and the    *)
(* synchronisers between them.  The host holds an access until it is       *)
(* acknowledged and starts no other before the acknowledgement is gone; it *)
(* has a clock of its own.  An access whose address selects no block is    *)
(* left out: it never ends (the assignment after the case in um.v).        *)
(* No packet comes meanwhile, so the counters stand still.                 *)
(***************************************************************************)
EXTENDS Integers

CONSTANTS
  Words,      \* addr[9:2]: which words of a block are accessed
  Values      \* what is written

ASSUME LocalBusAssumption == Words \subseteq Nat /\ 0 \in Words /\ Values \subseteq Nat

VARIABLES
  host,       \* what the host does: "idle", "wait" or "acked"
  access,     \* ctrl_cmd, ctrl_addr, ctrl_datain, which the host holds
  valid,      \* sync_sig of the host's select: cfg_valid
  cfg_state,
  um2ctrl_ack, ctrl_dataout,
  cs,         \* cfg2*_cs_n: the block selected, or none
  cfg2,       \* cfg2*_rw, cfg2*_addr, cfg2*_wdata
  block,      \* block -> its synchroniser, state and answer
  gac,        \* that of gac, which keeps a flow table
  flow_table, core, cfg_rdata   \* gac_ram, port A

vars == <<host, access, valid, cfg_state, um2ctrl_ack, ctrl_dataout, cs, cfg2,
          block, gac, flow_table, core, cfg_rdata>>

Blocks == {"data_cache", "gpp", "gke", "gme", "goe"}

\* Only gac looks at addr[10]: high selects its counters.
Addresses == [block : Blocks, word : Words]
             \cup [block : {"gac"}, word : Words, high : BOOLEAN]
Accesses == [rw : {"read"}, addr : Addresses]
            \cup [rw : {"write"}, addr : Addresses, data : Values]
NoAccess == [rw |-> "none"]
None == "none"

\* What a word of 32 bits holds: what was written, or the counter of a block.
Data(d) == <<"data", d>>
Zero == Data(0)

\* The status and the counters of a block are its odd words.
Counters(b) == CASE b = "data_cache" -> {1, 3, 5}
                 [] b = "goe"        -> {1, 3, 5, 7}
                 [] b = "gpp"        -> {1, 3, 5, 7, 9}
                 [] b = "gke"        -> {1, 3, 5, 7, 9, 11}
                 [] b = "gac"        -> {1, 3, 5, 7, 9, 11}
                 [] b = "gme"        -> {1, 3, 5, 7, 9, 11, 13, 15}
Count(b, w) == IF w \in Counters(b) THEN <<b, w>> ELSE Zero

Low == [dly |-> <<FALSE, FALSE>>, out |-> FALSE]
sync_sig(s, in) ==
  [dly |-> <<in, s.dly[1]>>,
   out |-> CASE s.dly = <<FALSE, FALSE>> -> FALSE
             [] s.dly = <<TRUE, TRUE>>   -> TRUE
             [] OTHER -> s.out]

Init ==
  /\ host = "idle" /\ access = NoAccess /\ valid = Low
  /\ cfg_state = "IDLE" /\ um2ctrl_ack = FALSE /\ ctrl_dataout = Zero
  /\ cs = None /\ cfg2 = NoAccess
  /\ block = [b \in Blocks |-> [cs |-> Low, state |-> "IDLE", ack |-> FALSE,
                                rdata |-> Zero]]
  /\ \E f \in BOOLEAN :      \* flag has no reset
       gac = [cs |-> Low, state |-> "IDLE", ack |-> FALSE, rdata |-> Zero,
              flag |-> f, wr |-> FALSE, word |-> 0, wdata |-> Zero]
  /\ flow_table = [w \in Words |-> Zero]
  /\ core = Zero /\ cfg_rdata = Zero

Acks == gac.ack \/ \E b \in Blocks : block[b].ack
-----------------------------------------------------------------------------
(* The arbiter *)

ArbIdle ==
  /\ cfg_state = "IDLE"
  /\ um2ctrl_ack' = FALSE /\ cs' = None
  /\ \/ /\ valid.out /\ ~Acks
        /\ cfg2' = access
        /\ cfg_state' = "PARSE"
     \/ /\ ~(valid.out /\ ~Acks)
        /\ UNCHANGED <<cfg2, cfg_state>>
  /\ UNCHANGED ctrl_dataout

ArbParse ==
  /\ cfg_state = "PARSE"
  /\ cs' = access.addr.block
  /\ cfg_state' = "WAIT_ACK"
  /\ UNCHANGED <<um2ctrl_ack, ctrl_dataout, cfg2>>

ArbWaitAck ==
  /\ cfg_state = "WAIT_ACK"
  /\ \/ /\ Acks
        /\ ctrl_dataout' = IF cs = "gac" THEN gac.rdata ELSE block[cs].rdata
        /\ cs' = None
        /\ cfg_state' = "RELEASE"
     \/ /\ ~Acks
        /\ UNCHANGED <<cs, ctrl_dataout, cfg_state>>
  /\ UNCHANGED <<um2ctrl_ack, cfg2>>

\* Mutant: the host is not waited for.
ArbReleaseAtOnce ==
  /\ cfg_state = "RELEASE"
  /\ um2ctrl_ack' = valid.out
  /\ cfg_state' = "IDLE"
  /\ UNCHANGED <<ctrl_dataout, cs, cfg2>>

ArbRelease ==
  /\ cfg_state = "RELEASE"
  /\ um2ctrl_ack' = valid.out
  /\ cfg_state' = IF valid.out THEN "RELEASE" ELSE "IDLE"
  /\ UNCHANGED <<ctrl_dataout, cs, cfg2>>
-----------------------------------------------------------------------------
(* The blocks *)

\* They do not differ but in their counters: gpp, data_cache, gke, gme, goe.
Respond(b) ==
  LET r == block[b] IN
  [CASE r.state = "IDLE" ->
          [r EXCEPT !.ack = FALSE, !.rdata = Zero,
                    !.state = IF r.cs.out /\ ~r.ack
                              THEN IF cfg2.rw = "write" THEN "WRITE" ELSE "READ"
                              ELSE "IDLE"]
     [] r.state \in {"WRITE", "WAIT"} -> [r EXCEPT !.state = "ACK"]
     [] r.state = "READ" -> [r EXCEPT !.state = "WAIT"]
     [] r.state = "ACK" ->
          [r EXCEPT !.ack = r.cs.out, !.rdata = Count(b, cfg2.addr.word),
                    !.state = IF r.cs.out THEN "ACK" ELSE "IDLE"]
   EXCEPT !.cs = sync_sig(r.cs, cs = b)]

gpp_cfg == Respond("gpp")
data_cache_cfg == Respond("data_cache")
gke_cfg == Respond("gke")
gme_cfg == Respond("gme")
goe_cfg == Respond("goe")

\* gac writes a word of its flow table wherever in gac the address points.
GacIdle ==
  LET q == [gac EXCEPT !.rdata = Zero, !.ack = FALSE, !.word = 0,
                       !.wdata = Zero] IN
  CASE ~gac.cs.out -> q
    [] gac.cs.out /\ cfg2.rw = "write" ->
         [q EXCEPT !.wr = TRUE, !.ack = TRUE, !.wdata = Data(cfg2.data),
                   !.word = cfg2.addr.word, !.state = "WRITE"]
    [] gac.cs.out /\ cfg2.rw = "read" ->
         [q EXCEPT !.flag = ~cfg2.addr.high, !.state = "READ",
                   !.word = IF cfg2.addr.high THEN 0 ELSE cfg2.addr.word]

GacRead == [gac EXCEPT !.state = "WAIT"]

GacAck == [gac EXCEPT !.rdata = IF gac.flag THEN cfg_rdata ELSE Count("gac", cfg2.addr.word),
                      !.ack = gac.cs.out,
                      !.state = IF gac.cs.out THEN "ACK" ELSE "IDLE"]

GacRespond ==
  [CASE gac.state = "IDLE"  -> GacIdle
     [] gac.state = "WRITE" -> [gac EXCEPT !.wr = FALSE, !.state = "ACK"]
     [] gac.state = "READ"  -> GacRead
     [] gac.state = "WAIT"  -> [gac EXCEPT !.state = "ACK"]
     [] gac.state = "ACK"   -> GacAck
   EXCEPT !.cs = sync_sig(gac.cs, cs = "gac")]

\* What port A reads is there two clocks after the address.
gac_ram ==
  /\ flow_table' = IF gac.wr THEN [flow_table EXCEPT ![gac.word] = gac.wdata]
                   ELSE flow_table
  /\ core' = flow_table[gac.word]
  /\ cfg_rdata' = core

Clock ==
  /\ ArbIdle \/ ArbParse \/ ArbWaitAck \/ ArbRelease
  /\ valid' = sync_sig(valid, host = "wait")
  /\ block' = [gpp |-> gpp_cfg, data_cache |-> data_cache_cfg, gke |-> gke_cfg,
               gme |-> gme_cfg, goe |-> goe_cfg]
  /\ gac' = GacRespond
  /\ gac_ram
  /\ UNCHANGED <<host, access>>
-----------------------------------------------------------------------------
(* The host *)

bus == <<valid, cfg_state, um2ctrl_ack, ctrl_dataout, cs, cfg2, block, gac,
         flow_table, core, cfg_rdata>>

HostAsks == /\ host = "idle" /\ host' = "wait"
            /\ access' \in Accesses
            /\ UNCHANGED bus

HostTakes == /\ host = "wait" /\ um2ctrl_ack /\ host' = "acked"
             /\ UNCHANGED <<access, bus>>

HostRests == /\ host = "acked" /\ ~um2ctrl_ack /\ host' = "idle"
             /\ UNCHANGED <<access, bus>>

Next == Clock \/ HostAsks \/ HostTakes \/ HostRests

FairSpec == Init /\ [][Next]_vars /\ WF_vars(Clock) /\ WF_vars(HostTakes)
-----------------------------------------------------------------------------
(***************************************************************************)
(* Six state machines, two synchronisers between the host and any of them, *)
(* and acknowledgements that all meet in one wire: still every access      *)
(* reaches the block of its address and no other, is done before it is     *)
(* acknowledged, answers with what that block holds, and ends.             *)
(***************************************************************************)
Done == \/ cfg_state = "RELEASE"
        \/ cfg_state = "WAIT_ACK" /\ (Acks \/ gac.state # "IDLE")

File == INSTANCE BusFile WITH
  ask    <- IF host = "wait" THEN access ELSE NoAccess,
  done   <- host = "wait" /\ access.rw = "write" /\ Done,
  table  <- IF gac.wr THEN [flow_table EXCEPT ![gac.word] = gac.wdata]
            ELSE flow_table,
  answer <- IF host = "acked" /\ access.rw = "read" THEN ctrl_dataout ELSE Zero

ImplementsBusFile == File!BSpec
=============================================================================
