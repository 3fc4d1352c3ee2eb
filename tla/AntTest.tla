------------------------------ MODULE AntTest -------------------------------
(***************************************************************************)
(* The test program as a user runs it: main_ant.c and libant, started      *)
(* again and again on hardware that is never reset, and killed at any of   *)
(* its steps.  The generator and the statistics are those of Pgm and Scm,  *)
(* reduced to what the program can tell apart; what it assumes of the      *)
(* generator is what Pgm's properties say.                                 *)
(***************************************************************************)
EXTENDS Integers, Sequences

CONSTANTS
  Args,       \* command lines: test time, rate and packet length
  Half,       \* 2^32: what half a counter counts
  RateMod,    \* 2^32: the range of sent_rate_reg
  KillAt,     \* the steps at which the program may be killed
  MaxKills    \* bound: how often it is

ASSUME AntTestAssumption ==
  /\ Args \subseteq [time : Nat, rate : Int, len : 0 .. 4063]  \* um.len: 12 bits
  /\ Half \in Nat \ {0} /\ RateMod \in Nat \ {0}
  /\ MaxKills \in Nat

VARIABLES
  pc,         \* what the program does next
  args,       \* its command line
  got, reads, \* demo_cnt, and the half registers read into it
  kernel,     \* whom the kernel sends packets of module ANT_MID to
  kills,
  ready,      \* history: whether the hardware was Ready when the run began
  regs,       \* the registers a test is set up with
  softRst, statRst,   \* soft_rst of pgm_rd, statistic_reset of scm
  wr, rd,     \* pgm_wr waits for the end of the test; the state of pgm_rd
  paired,     \* pgm_wr's waiting and pgm_rd's test began together
  ramWords, ramOwn,     \* the stored model packet, and whether it is this run's
  sent, recv, \* sent_pkt_cnt and scm_pkt_num_cnt
  mine        \* history: copies sent of this run's packet

soft == <<args, got, reads, kernel, kills, ready>>
gen  == <<wr, rd, paired, ramWords, ramOwn, sent, mine>>
hard == <<regs, softRst, statRst, gen, recv>>
vars == <<pc, soft, hard>>

\* 64-bit counters, read and written in halves.
Wide == 0 .. Half * Half - 1
Plus1(n) == (n + 1) % (Half * Half)
Hi(n) == n \div Half
Lo(n) == n % Half

Regs == {"hi", "lo", "rate", "lat_flag", "proto_type"}
UDP == 2

\* What ant_collect_counters reads, each high half first.
Counters == <<"time", "sent", "recv">>

Steps == {"args", "open_hw", "register", "file", "hi", "lo", "rate", "lat_flag", "proto_type",
          "send", "sleep", "poll", "collect", "print", "check", "reset",
          "unreset", "scm_reset", "scm_unreset", "import", "done", "gone"}

\* Nothing of an earlier test is left.
Ready == rd = "idle" /\ ~wr /\ ~softRst /\ ~statRst /\ sent = 0 /\ recv = 0

\* The registers keep what they have from power-up; lat_flag matters.
Init ==
  /\ pc = "args" /\ args \in Args
  /\ got = [c \in {"time", "sent", "recv"} |-> 0] /\ reads = 0
  /\ kernel = "nobody" /\ kills = 0 /\ ready = TRUE
  /\ \E b \in {0, 1} : regs = [r \in Regs |-> IF r = "lat_flag" THEN b ELSE 0]
  /\ softRst = FALSE /\ statRst = FALSE
  /\ wr = FALSE /\ rd = "idle" /\ paired = FALSE
  /\ ramWords = 0 /\ ramOwn = FALSE
  /\ sent = 0 /\ recv = 0 /\ mine = 0
-----------------------------------------------------------------------------
\* The generator.  pgm_wr lowers its flags as soon as it is idle, long before
\* the software can look (SlowReset of Pgm).
WrEnd ==
  /\ wr
  /\ wr' = FALSE /\ paired' = FALSE
  /\ UNCHANGED <<pc, soft, regs, softRst, statRst, rd, ramWords, ramOwn, sent,
                 mine, recv>>

\* soft_rst takes pgm_rd from FIN to IDLE, where it clears its counters only
\* if the start flag is down; otherwise it starts again and counts on.
LeaveFin(n) == IF wr THEN rd' = "test" /\ sent' = n ELSE rd' = "idle" /\ sent' = 0

Finish(n) == IF softRst THEN LeaveFin(n) ELSE rd' = "fin" /\ sent' = n

\* The last word of a copy.  pgm_rd never ends before the pgm_wr it started
\* with (RdNeverFinishesFirst of Pgm).
Copy(over) ==
  /\ rd = "test"
  /\ over => ~paired
  /\ IF over THEN Finish(Plus1(sent)) ELSE sent' = Plus1(sent) /\ UNCHANGED rd
  /\ mine' = IF ramOwn THEN Plus1(mine) ELSE mine
  /\ UNCHANGED <<pc, soft, regs, softRst, statRst, wr, paired, ramWords, ramOwn,
                 recv>>

\* A packet reaches scm; it counts while the start flag is up.
Receive ==
  /\ wr /\ ~statRst /\ regs["proto_type"] = UDP
  /\ recv' = Plus1(recv)
  /\ UNCHANGED <<pc, soft, regs, softRst, statRst, gen>>

SoftReset(b) ==
  /\ softRst' = b
  /\ IF b /\ rd = "fin" THEN LeaveFin(sent) ELSE UNCHANGED <<rd, sent>>
  /\ UNCHANGED <<wr, paired, ramWords, ramOwn, mine>>

\* The words of the packet main makes: two of metadata, then the frame.
ModelWords(a) == 2 + (a.len + 15) \div 16

\* pgm_wr takes a model packet only when it is idle.
TakeModel(words) ==
  IF wr
  THEN UNCHANGED gen
  ELSE /\ wr' = TRUE /\ ramWords' = words /\ ramOwn' = TRUE /\ mine' = 0
       /\ rd' = IF rd = "idle" THEN "test" ELSE rd
       /\ paired' = (rd = "idle")
       /\ UNCHANGED sent
-----------------------------------------------------------------------------
\* main refuses bad arguments; a rate of zero kills it in the division.
Accepted(a) == a.rate # 0 /\ a.len >= 60

\* Mutant: the clocks that the generator adds are not taken off.
PauseNoSlack(a) ==
  (((a.len + 20) * 80) \div a.rate - a.len \div 16) % RateMod

\* The pause between two copies in clocks, from a rate in per cent.
Pause(a) ==
  (((a.len + 20) * 80) \div a.rate - a.len \div 16 - 2 - 2) % RateMod

Move(from, to) == pc = from /\ pc' = to

\* The user starts the program again.
StartRun ==
  /\ pc \in {"done", "gone"} /\ pc' = "args"
  /\ args' \in Args
  /\ got' = [c \in {"time", "sent", "recv"} |-> 0] /\ reads' = 0
  /\ ready' = Ready
  /\ ramOwn' = FALSE /\ mine' = 0
  /\ kernel' = IF kernel = "this" THEN "dead" ELSE kernel
  /\ UNCHANGED <<kills, regs, softRst, statRst, wr, rd, paired, ramWords, sent,
                 recv>>

ReadArgs ==
  /\ Move("args", IF Accepted(args) THEN "open_hw" ELSE "gone")
  /\ UNCHANGED <<soft, hard>>

\* The memory of the device is opened and mapped, or the program exits.
fast_init_hw(ok) ==
  /\ Move("open_hw", IF ok THEN "register" ELSE "gone")
  /\ UNCHANGED <<soft, hard>>

\* The kernel registers the program and the handlers are set, or main exits.
fast_ua_register(ok) ==
  /\ Move("register", IF ok THEN "file" ELSE "gone")
  /\ kernel' = IF ok THEN "this" ELSE kernel
  /\ UNCHANGED <<args, got, reads, kills, ready, hard>>

\* Where the file of the module does not open, the program exits and leaves
\* its pid with the kernel.
fast_ua_file(ok) ==
  /\ Move("file", IF ok THEN "hi" ELSE "gone")
  /\ kernel' = IF ok THEN kernel ELSE "dead"
  /\ UNCHANGED <<args, got, reads, kills, ready, hard>>

fast_ua_init(ok) ==
  fast_init_hw(ok) \/ fast_ua_register(ok) \/ fast_ua_file(ok)

Write(step, next, value) ==
  /\ Move(step, next)
  /\ regs' = [regs EXCEPT ![step] = value]
  /\ UNCHANGED <<soft, softRst, statRst, gen, recv>>

\* lat_pkt_reg and N_RTT are written too, and no block uses them.
ant_set_test_para ==
  \/ Write("hi", "lo", Hi(args.time))
  \/ Write("lo", "rate", Lo(args.time))
  \/ Write("rate", "lat_flag", Pause(args))
  \/ Write("lat_flag", "proto_type", 0)
  \/ Write("proto_type", "send", UDP)

\* The kernel's driver takes the packet and the hardware receives it, after the
\* writes, which have landed (WritesLand of CtrlChain).
fast_ua_send(words) ==
  /\ TakeModel(words)
  /\ UNCHANGED <<soft, regs, softRst, statRst, recv>>

ant_pkt_send == Move("send", "sleep") /\ fast_ua_send(ModelWords(args))

\* main sleeps sent_time / 100 us, as long as pgm_wr waits; the packet's way and
\* the clock it is late are made up for by the reads that come before the reset.
SleepNot == Move("sleep", "poll") /\ UNCHANGED <<soft, hard>>
Sleep == ~wr /\ Move("sleep", "poll") /\ UNCHANGED <<soft, hard>>

check_finish_early ==
  /\ rd # "idle"
  /\ Move("poll", "collect")
  /\ UNCHANGED <<soft, hard>>
ant_check_finish ==
  /\ rd = "fin"
  /\ Move("poll", "collect")
  /\ UNCHANGED <<soft, hard>>

Value(c) == CASE c = "time" -> regs["hi"] * Half + regs["lo"]
              [] c = "sent" -> sent
              [] c = "recv" -> recv

\* One register of the six; the bit counters are read in the same way beside
\* the packet counters.
ant_collect_counters ==
  LET c == Counters[1 + reads \div 2]
      value == Value(c)
  IN /\ pc = "collect"
     /\ got' = [got EXCEPT ![c] = IF reads % 2 = 0 THEN Hi(value) * Half
                                                   ELSE @ + Lo(value)]
     /\ reads' = (reads + 1) % 6
     /\ pc' = IF reads = 5 THEN "print" ELSE "collect"
     /\ UNCHANGED <<args, kernel, kills, ready, hard>>

ant_print_counters == Move("print", "check") /\ UNCHANGED <<soft, hard>>

ResetBits(soft_rst, stat_rst) ==
  /\ IF soft_rst = softRst THEN UNCHANGED <<softRst, gen>> ELSE SoftReset(soft_rst)
  /\ statRst' = stat_rst
  /\ recv' = IF stat_rst THEN 0 ELSE recv
  /\ UNCHANGED <<soft, regs>>

ant_rst ==
  \/ Move("check", IF rd = "fin" THEN "reset" ELSE "import") /\ UNCHANGED <<soft, hard>>
  \/ Move("reset", "unreset") /\ ResetBits(TRUE, statRst)
  \/ Move("unreset", "scm_reset") /\ ResetBits(FALSE, statRst)
  \/ Move("scm_reset", "scm_unreset") /\ ResetBits(softRst, TRUE)
  \/ Move("scm_unreset", "import") /\ ResetBits(softRst, FALSE)

\* 1023 words of the latency RAM are read into a file; main returns and the
\* kernel is not told.
import_latency_to_txt ==
  /\ Move("import", "done")
  /\ UNCHANGED <<soft, hard>>

\* A signal.  Once registered the program tells the kernel before it exits.
ua_improper_quit ==
  /\ kills < MaxKills /\ pc \in KillAt
  /\ pc' = "gone" /\ kills' = kills + 1
  /\ kernel' = IF pc \in {"args", "open_hw", "register"} THEN kernel ELSE "nobody"
  /\ UNCHANGED <<args, got, reads, ready, hard>>

Program ==
  \/ ReadArgs \/ fast_ua_init(TRUE) \/ ant_set_test_para \/ ant_pkt_send \/ Sleep
  \/ ant_check_finish \/ ant_collect_counters \/ ant_print_counters
  \/ ant_rst \/ import_latency_to_txt

Hardware == WrEnd \/ Copy(FALSE) \/ Copy(TRUE) \/ Receive

Next ==
  \/ Program \/ fast_ua_init(FALSE) \/ StartRun \/ ua_improper_quit
  \/ Hardware

Spec == Init /\ [][Next]_vars

\* The clock ticks, so both halves of the generator come to their end; the
\* program goes on, and polls in a loop; the system does not refuse for ever.
FairSpec ==
  /\ Spec
  /\ WF_vars(WrEnd) /\ WF_vars(Copy(TRUE))
  /\ WF_vars(Program) /\ WF_vars(StartRun) /\ SF_vars(fast_init_hw(TRUE))
  /\ SF_vars(fast_ua_register(TRUE)) /\ SF_vars(fast_ua_file(TRUE))
-----------------------------------------------------------------------------
(***************************************************************************)
(* A run that began on ready hardware reports its own whole test: the time *)
(* it was given, the copies that were sent of its packet, and the count of *)
(* arrivals scm ended with, no value put together from two moments.        *)
(***************************************************************************)
OwnResult ==
  ready /\ pc \in {"print", "check"} =>
    /\ rd = "fin" /\ ramOwn
    /\ got = [time |-> args.time, sent |-> mine, recv |-> recv]

(***************************************************************************)
(* The clocks from the head of one copy to the head of the next (HeadsApart *)
(* of PgmPace): the words, the pause of rate + 1, and two while the RAM is *)
(* read again.  And those that a command line asks for: of frames of its   *)
(* length at the given per cent of a gigabit.                              *)
(***************************************************************************)
Period == ramWords + regs["rate"] + 3
Asked  == ((args.len + 20) * 80) \div args.rate

(***************************************************************************)
(* While copies of this run's packet are sent the registers hold this      *)
(* run's command line, both halves of the time included, and the copies    *)
(* are never closer than it asks, and one or two clocks further apart:     *)
(* main takes off one clock less than the generator adds, and another is   *)
(* lost where the last word is not full.                                   *)
(***************************************************************************)
RunsAsAsked ==
  rd = "test" /\ ramOwn =>
    /\ regs["hi"] * Half + regs["lo"] = args.time
    /\ regs["lat_flag"] = 0 /\ regs["proto_type"] = UDP
    /\ args.rate \in 1 .. 100 => Period - Asked \in {1, 2}

(***************************************************************************)
(* When the program is no longer killed, after some run every run finds    *)
(* the hardware ready and so reports its own test, although a killed run   *)
(* may have left a test running, a finished one, or counters of scm.  It   *)
(* takes the sleep: a run that reset pgm_rd while its own packet had       *)
(* raised the start flag would leave a test to the next run, for ever.     *)
(***************************************************************************)
Recovers == <>[](pc = "register" => ready)
=============================================================================
