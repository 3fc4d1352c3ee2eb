---------------------------- MODULE AntTestProofs ----------------------------
(***************************************************************************)
(* What is proved of the test program, for every set of command lines,     *)
(* every width of the counters, any number of kills at any set of steps.   *)
(***************************************************************************)
EXTENDS AntTest, TLAPS

(***************************************************************************)
(* The steps in the order of a run.                                        *)
(***************************************************************************)
Entering  == {"args", "open_hw", "register", "file"}
Setting   == {"hi", "lo", "rate", "lat_flag", "proto_type", "send"}
Waiting   == {"sleep", "poll"}
Reporting == {"print", "check"}
Closing   == {"reset", "unreset", "scm_reset", "scm_unreset", "import"}
Over      == {"done", "gone"}

Sent == Waiting \cup {"collect"} \cup Reporting \cup Closing

\* The ranges of what the properties are about.
Flags ==
  /\ softRst \in BOOLEAN /\ statRst \in BOOLEAN /\ wr \in BOOLEAN
  /\ ramOwn \in BOOLEAN /\ ready \in BOOLEAN
  /\ rd \in {"idle", "test", "fin"}

Counts == sent \in Nat /\ recv \in Nat /\ mine \in Nat

Halfway == got \in [{"time", "sent", "recv"} -> Int] /\ reads \in 0 .. 5

Registers ==
  regs = [r \in Regs |-> regs[r]] /\ regs["hi"] \in Nat /\ regs["lo"] \in Nat

Ranges == pc \in Steps /\ args \in Args /\ Flags /\ Counts /\ Halfway /\ Registers

(***************************************************************************)
(* The registers of a run are set one after the other, and nothing else    *)
(* writes them: when its packet is in the RAM all of them hold what its    *)
(* command line asks for.                                                  *)
(***************************************************************************)
After(step) ==
  CASE step = "hi"         -> {"lo", "rate", "lat_flag", "proto_type", "send"} \cup Sent
    [] step = "lo"         -> {"rate", "lat_flag", "proto_type", "send"} \cup Sent
    [] step = "rate"       -> {"lat_flag", "proto_type", "send"} \cup Sent
    [] step = "lat_flag"   -> {"proto_type", "send"} \cup Sent
    [] step = "proto_type" -> {"send"} \cup Sent

Wanted(step) ==
  CASE step = "hi"         -> Hi(args.time)
    [] step = "lo"         -> Lo(args.time)
    [] step = "rate"       -> Pause(args)
    [] step = "lat_flag"   -> 0
    [] step = "proto_type" -> UDP

SetUp ==
  /\ pc \notin Over \cup {"args"} => Accepted(args)
  /\ \A r \in Regs : pc \in After(r) => regs[r] = Wanted(r)
  /\ ramOwn => /\ pc \in Sent \cup Over
               /\ Accepted(args)
               /\ ramWords = ModelWords(args)
               /\ \A r \in Regs : regs[r] = Wanted(r)

(***************************************************************************)
(* A run that began on ready hardware has it for itself: up to its packet  *)
(* nothing moves; from then on the generator tests this run's packet and   *)
(* no reset bit is up; and once it has slept nothing more arrives.         *)
(***************************************************************************)
Fresh == /\ rd = "idle" /\ ~wr /\ ~softRst /\ ~statRst
         /\ sent = 0 /\ recv = 0

OwnTest ==
  ready =>
    /\ pc \in Entering \cup Setting => Fresh /\ ~ramOwn
    /\ pc \in Waiting \cup {"collect"} \cup Reporting =>
         ramOwn /\ ~softRst /\ ~statRst /\ sent = mine /\ rd \in {"test", "fin"}
    /\ pc \in {"poll", "collect"} \cup Reporting => ~wr
    /\ pc \in {"collect"} \cup Reporting => rd = "fin"

(***************************************************************************)
(* The halves read so far: those of a counter whose first half is read     *)
(* will make up its value, which no longer changes.                        *)
(***************************************************************************)
Known(c, n) ==
  LET v == Value(c) IN
  /\ reads = n => got[c] = Hi(v) * Half
  /\ reads > n => got[c] = v

Collected ==
  /\ pc \in Entering \cup Setting \cup Waiting \cup Reporting => reads = 0
  /\ ready /\ pc = "collect" =>
       Known("time", 1) /\ Known("sent", 3) /\ Known("recv", 5)
  /\ ready /\ pc \in Reporting =>
       got = [time |-> Value("time"), sent |-> sent, recv |-> recv]

TestInv == Ranges /\ SetUp /\ OwnTest /\ Collected

-----------------------------------------------------------------------------
(***************************************************************************)
(* Numbers.                                                                *)
(***************************************************************************)

\* The halves of a counter make it up again.
LEMMA Halves ==
  ASSUME NEW n \in Nat
  PROVE  Hi(n) \in Nat /\ Lo(n) \in Nat /\ Hi(n) * Half + Lo(n) = n
  BY AntTestAssumption DEF Hi, Lo

\* One more, around the end of the range.
LEMMA Plus1Type == ASSUME NEW n \in Nat PROVE Plus1(n) \in Nat
<1>1. Half * Half \in Nat \ {0}
  BY AntTestAssumption
<1> DEFINE m == Half * Half
<1>2. m \in Nat \ {0}
  BY <1>1
<1> HIDE DEF m
<1>3. (n + 1) % m \in Nat
  BY <1>2
<1>4. QED
  BY <1>3 DEF Plus1, m

\* The longest distance a command line can ask for, in clocks: the longest
\* frame at one per cent.
Farthest == (4063 + 20) * 80

PerCent(a)  == a.rate \in 1 .. 100
Distance(a) == (ModelWords(a) + Pause(a) + 3) - ((a.len + 20) * 80) \div a.rate

\* The pause that main computes for a rate between 1 and 100 per cent does not
\* wrap, and makes of the stored words and the three clocks the generator adds
\* one clock more than the rate asks for, or two.
LEMMA PauseFits ==
  ASSUME NEW a \in Args, Accepted(a), PerCent(a), RateMod >= Farthest
  PROVE  Distance(a) \in {1, 2}
<1>1. a \in [time : Nat, rate : Int, len : 0 .. 4063] /\ RateMod \in Nat \ {0}
  BY AntTestAssumption, SMT
<1> DEFINE l == a.len
           r == a.rate
           x == (l + 20) * 80
           q == x \div r
           s == l \div 16
<1>2. l \in Int /\ 60 <= l /\ l <= 4063
  <2>1. a.len \in 0 .. 4063
    BY <1>1, SMT
  <2>2. a.len >= 60
    BY SMT DEF Accepted
  <2> HIDE DEF l
  <2>3. l \in 0 .. 4063 /\ l >= 60
    BY <2>1, <2>2, SMT DEF l
  <2>4. QED
    BY <2>3, SMT
<1>3. r \in Int /\ 1 <= r /\ r <= 100
  BY SMT DEF PerCent
<1>4. x \in Int /\ x = (l + 20) * 80 /\ 0 < x /\ x <= Farthest
  BY <1>2, SMT DEF Farthest
<1>5. s \in Int /\ 16 * s <= l /\ l < 16 * s + 16
      /\ (l + 15) \div 16 - s \in {0, 1}
  BY <1>2, SMT
<1>6. /\ ModelWords(a) = 2 + (l + 15) \div 16
      /\ Pause(a) = (q - s - 2 - 2) % RateMod
      /\ ((a.len + 20) * 80) \div a.rate = q
  BY SMT DEF ModelWords, Pause
<1> DEFINE up == (l + 15) \div 16
<1>7. up = (l + 15) \div 16
  OBVIOUS
<1> HIDE DEF l, r, x, s, up
<1>8. q \in Int /\ r * q <= x /\ x < r * q + r
  BY <1>3, <1>4, SMT
<1> HIDE DEF q
<1>9. q <= x /\ 0 <= q
  <2>1. ASSUME q < 0 PROVE FALSE
    <3>1. r * q + r = r * (q + 1) /\ r * (q + 1) <= 0
      BY <1>3, <1>8, <2>1, SMT
    <3>2. QED
      BY <1>3, <1>4, <1>8, <3>1, SMT
  <2>2. q <= r * q
    BY <1>3, <1>8, <2>1, SMT
  <2>3. 0 <= q
    BY <1>8, <2>1, SMT
  <2>4. QED
    BY <1>3, <1>4, <1>8, <2>2, <2>3, SMT
<1>10. x < 100 * q + 100
  <2>1. r * (q + 1) <= 100 * (q + 1)
    BY <1>3, <1>8, <1>9, SMT
  <2>2. QED
    BY <1>3, <1>4, <1>8, <2>1, SMT
<1>11. 0 <= q - s - 2 - 2 /\ q - s - 2 - 2 < RateMod
  <2>1. 0 <= q - s - 2 - 2
    BY <1>2, <1>4, <1>5, <1>8, <1>10, SMT
  <2>2. 0 <= s
    BY <1>2, <1>5, SMT
  <2>3. q <= RateMod
    BY <1>1, <1>4, <1>8, <1>9, SMT DEF Farthest
  <2>4. QED
    BY <1>1, <1>5, <1>8, <2>1, <2>2, <2>3, SMT
<1>12. (q - s - 2 - 2) % RateMod = q - s - 2 - 2
  <2> DEFINE d == q - s - 2 - 2
  <2>1. d \in Int /\ 0 <= d /\ d < RateMod
    BY <1>5, <1>8, <1>11, SMT
  <2> HIDE DEF d
  <2>2. d % RateMod = d
    BY <1>1, <2>1, SMT
  <2>3. QED
    BY <2>2 DEF d
<1>13. (ModelWords(a) + Pause(a) + 3) - ((a.len + 20) * 80) \div a.rate = up - s + 1
  <2>1. ((2 + up) + (q - s - 2 - 2) + 3) - q = up - s + 1
    BY <1>5, <1>7, <1>8, <1>2, SMT
  <2>2. QED
    BY <1>6, <1>7, <1>12, <2>1, Zenon
<1>14. up - s + 1 \in {1, 2}
  BY <1>5, <1>7, SMT
<1>15. QED
  BY <1>13, <1>14, Zenon DEF Distance

-----------------------------------------------------------------------------
(***************************************************************************)
(* The initial states, and every step.                                     *)
(***************************************************************************)

LEMMA Initially == Init => TestInv
<1> USE DEF Init, Entering, Setting, Waiting, Reporting, Closing, Over, Sent
<1>1. Init => Registers
  BY DEF Registers, Regs
<1>2. Init => /\ Flags /\ Counts /\ Halfway /\ pc \in Steps /\ args \in Args
  <2>1. Init => Flags
    BY DEF Flags
  <2>2. Init => Counts
    BY DEF Counts
  <2>3. Init => Halfway
    BY DEF Halfway
  <2>4. Init => pc \in Steps /\ args \in Args
    BY DEF Steps
  <2>5. QED
    BY <2>1, <2>2, <2>3, <2>4
<1>3. Init => SetUp
  BY DEF SetUp, Regs, After
<1>4. Init => OwnTest /\ Collected
  BY DEF OwnTest, Collected, Fresh
<1>5. QED
  BY <1>1, <1>2, <1>3, <1>4 DEF TestInv, Ranges

\* The value that a counter shows.
LEMMA ValueType == Ranges => \A c \in {"time", "sent", "recv"} : Value(c) \in Nat
  BY AntTestAssumption DEF Ranges, Counts, Registers, Value

LEMMA RangesStep == Ranges /\ [Next]_vars => Ranges'
<1> SUFFICES ASSUME Ranges, [Next]_vars PROVE Ranges'
  OBVIOUS
<1>0. pc \in Steps /\ args \in Args /\ Flags /\ Counts /\ Halfway /\ Registers
  BY DEF Ranges
<1>a. UNCHANGED regs => Registers'
  BY <1>0 DEF Registers
<1>b. UNCHANGED <<got, reads>> => Halfway'
  BY <1>0 DEF Halfway
<1>c. UNCHANGED <<sent, recv, mine>> => Counts'
  BY <1>0 DEF Counts
<1>d. UNCHANGED <<softRst, statRst, wr, rd, ramOwn, ready>> => Flags'
  BY <1>0 DEF Flags
<1> USE DEF Ranges, Steps, soft, gen, hard, Move
<1>1. CASE ReadArgs \/ Sleep \/ ant_check_finish \/ ant_print_counters
           \/ import_latency_to_txt
  BY <1>0, <1>1, <1>a, <1>b, <1>c, <1>d DEF ReadArgs, Sleep, ant_check_finish,
     ant_print_counters, import_latency_to_txt
<1>2. ASSUME NEW ok \in BOOLEAN, fast_ua_init(ok) PROVE Ranges'
  BY <1>0, <1>2, <1>a, <1>b, <1>c, <1>d DEF fast_ua_init, fast_init_hw,
     fast_ua_register, fast_ua_file
<1>3. CASE ant_set_test_para
  <2>1. Hi(args.time) \in Nat /\ Lo(args.time) \in Nat
    BY <1>0, Halves, AntTestAssumption
  <2>2. ASSUME NEW step \in Regs, NEW next \in Steps, NEW value, Write(step, next, value),
               step \in {"hi", "lo"} => value \in Nat
        PROVE  Ranges'
    <3>1. Registers'
      BY <1>0, <2>2 DEF Write, Registers, Regs
    <3>2. QED
      BY <1>0, <2>2, <3>1, <1>b, <1>c, <1>d DEF Write
  <2>3. QED
    BY <1>3, <2>1, <2>2 DEF ant_set_test_para, Regs
<1>4. CASE ant_pkt_send
  <2>1. /\ wr' = TRUE /\ (ramOwn' = ramOwn \/ ramOwn' = TRUE)
        /\ rd' \in {rd, "test"}
        /\ UNCHANGED <<softRst, statRst, ready>>
    BY <1>0, <1>4 DEF ant_pkt_send, fast_ua_send, TakeModel, Flags
  <2>2. Flags'
    BY <1>0, <2>1 DEF Flags
  <2>3. Counts'
    BY <1>0, <1>4 DEF ant_pkt_send, fast_ua_send, TakeModel, Counts
  <2>4. QED
    BY <1>0, <1>4, <2>2, <2>3, <1>a, <1>b DEF ant_pkt_send, fast_ua_send
<1>5. CASE ant_collect_counters
  <2> DEFINE c == Counters[1 + reads \div 2]
  <2>1. c \in {"time", "sent", "recv"}
    BY <1>0 DEF Counters, Halfway
  <2>2. Value(c) \in Nat
    BY <2>1, ValueType
  <2>3. Hi(Value(c)) * Half \in Int /\ Lo(Value(c)) \in Int
    BY <2>2, Halves, AntTestAssumption
  <2> HIDE DEF c
  <2>4. got' \in [{"time", "sent", "recv"} -> Int]
    BY <1>0, <1>5, <2>1, <2>3 DEF ant_collect_counters, c, Halfway
  <2>5. reads' \in 0 .. 5 /\ pc' \in Steps
    BY <1>0, <1>5 DEF ant_collect_counters, Halfway
  <2>6. QED
    BY <1>0, <1>5, <2>4, <2>5, <1>a, <1>c, <1>d DEF ant_collect_counters, Halfway
<1>6. CASE ant_rst
  <2>1. ASSUME NEW s, NEW b, SoftReset(s), s \in BOOLEAN PROVE
          /\ softRst' \in BOOLEAN /\ rd' \in {"idle", "test", "fin"}
          /\ sent' \in Nat /\ UNCHANGED <<wr, ramOwn, mine>>
    BY <1>0, <2>1 DEF SoftReset, LeaveFin, Flags, Counts
  <2>2. ASSUME NEW s \in BOOLEAN, NEW b \in BOOLEAN, ResetBits(s, b)
        PROVE  Flags' /\ Counts' /\ UNCHANGED <<soft, regs>>
    BY <1>0, <2>1, <2>2 DEF ResetBits, Flags, Counts
  <2>3. softRst \in BOOLEAN /\ statRst \in BOOLEAN
    BY <1>0 DEF Flags
  <2>4. QED
    BY <1>0, <1>6, <2>2, <2>3, <1>a, <1>b, <1>c, <1>d DEF ant_rst
<1>7. CASE StartRun
  <2>1. Ready \in BOOLEAN
    BY DEF Ready
  <2>2. Flags'
    BY <1>0, <1>7, <2>1 DEF StartRun, Flags
  <2>3. Counts'
    BY <1>0, <1>7 DEF StartRun, Counts
  <2>4. Halfway'
    BY <1>7 DEF StartRun, Halfway
  <2>5. QED
    BY <1>7, <2>2, <2>3, <2>4, <1>a DEF StartRun
<1>8. CASE ua_improper_quit
  BY <1>0, <1>8, <1>a, <1>b, <1>c, <1>d DEF ua_improper_quit
<1>9. CASE WrEnd
  <2>1. Flags'
    BY <1>0, <1>9 DEF WrEnd, Flags
  <2>2. QED
    BY <1>0, <1>9, <2>1, <1>a, <1>b, <1>c DEF WrEnd
<1>10. CASE Receive
  <2>1. Counts'
    BY <1>0, <1>10, Plus1Type DEF Receive, Counts
  <2>2. QED
    BY <1>0, <1>10, <2>1, <1>a, <1>b, <1>d DEF Receive
<1>11. ASSUME NEW over \in BOOLEAN, Copy(over) PROVE Ranges'
  <2>1. Plus1(sent) \in Nat /\ Plus1(mine) \in Nat
    BY <1>0, Plus1Type DEF Counts
  <2>2. Flags' /\ Counts'
    BY <1>0, <1>11, <2>1 DEF Copy, Finish, LeaveFin, Flags, Counts
  <2>3. QED
    BY <1>0, <1>11, <2>2, <1>a, <1>b DEF Copy
<1>12. CASE UNCHANGED vars
  BY <1>0, <1>12, <1>a, <1>b, <1>c, <1>d DEF vars
<1>13. QED
  BY <1>1, <1>2, <1>3, <1>4, <1>5, <1>6, <1>7, <1>8, <1>9, <1>10, <1>11, <1>12
     DEF Next, Program, Hardware

LEMMA SetUpStep == Ranges /\ SetUp /\ [Next]_vars => SetUp'
<1> SUFFICES ASSUME Ranges, SetUp, [Next]_vars PROVE SetUp'
  OBVIOUS
<1>0. pc \in Steps
  BY DEF Ranges
<1> DEFINE On == \/ pc' = pc \/ pc' \in Over
                 \/ pc \in Sent /\ pc' \in Sent
                 \/ pc \in Entering \ {"args"} /\ pc' \in (Entering \ {"args"}) \cup {"hi"}
           Kept == UNCHANGED <<args, regs, ramOwn, ramWords>>
<1>a. ASSUME UNCHANGED args
      PROVE  /\ Accepted(args)' <=> Accepted(args)
             /\ ModelWords(args)' = ModelWords(args)
             /\ \A r \in Regs : Wanted(r)' = Wanted(r)
  BY <1>a DEF Accepted, ModelWords, Wanted, Pause
<1> USE DEF Entering, Setting, Waiting, Reporting, Closing, Over, Sent, Regs, After
<1>b. ASSUME On, Kept PROVE SetUp'
  <2>1. (pc \notin Over \cup {"args"} => Accepted(args))'
    BY <1>a, <1>b DEF SetUp
  <2>2. \A r \in Regs : pc' \in After(r) => pc \in After(r)
    BY <1>b
  <2>3. pc \in Sent \cup Over => pc' \in Sent \cup Over
    BY <1>b
  <2> HIDE DEF Entering, Setting, Waiting, Reporting, Closing, Over, Sent, Regs, After
  <2>4. \A r \in Regs : pc' \in After(r) => regs[r]' = Wanted(r)'
    BY <1>a, <1>b, <2>2 DEF SetUp
  <2>5. ramOwn' => /\ pc' \in Sent \cup Over
                   /\ Accepted(args)'
                   /\ ramWords' = ModelWords(args)'
                   /\ \A r \in Regs : regs[r]' = Wanted(r)'
    BY <1>a, <1>b, <2>3 DEF SetUp
  <2>6. QED
    BY <2>1, <2>4, <2>5 DEF SetUp, After
<1> USE DEF soft, gen, hard, Move
<1>1. CASE ReadArgs
  <2>1. CASE Accepted(args)
    <3>1. ~ramOwn /\ pc' = "open_hw" /\ Kept
      BY <1>1, <2>1 DEF ReadArgs, SetUp
    <3>2. QED
      BY <1>a, <2>1, <3>1 DEF SetUp
  <2>2. CASE ~Accepted(args)
    BY <1>1, <2>2, <1>b DEF ReadArgs
  <2>3. QED
    BY <2>1, <2>2
<1>2. CASE Sleep \/ ant_check_finish \/ ant_print_counters \/ import_latency_to_txt
  BY <1>2, <1>b DEF Sleep, ant_check_finish, ant_print_counters, import_latency_to_txt
<1>3. ASSUME NEW ok \in BOOLEAN, fast_ua_init(ok) PROVE SetUp'
  BY <1>3, <1>b DEF fast_ua_init, fast_init_hw, fast_ua_register, fast_ua_file
<1>4. CASE ant_set_test_para
  <2>1. ASSUME NEW step \in Regs, NEW next \in Setting, Write(step, next, Wanted(step)),
               \A r \in Regs : next \in After(r) => r = step \/ step \in After(r)
        PROVE  SetUp'
    <3>1. /\ regs' = [regs EXCEPT ![step] = Wanted(step)] /\ pc = step /\ pc' = next
          /\ UNCHANGED <<args, ramOwn, ramWords>>
      BY <2>1 DEF Write
    <3>2. regs = [r \in Regs |-> regs[r]]
      BY DEF Ranges, Registers
    <3>3. \A r \in Regs : pc' \in After(r) => regs'[r] = Wanted(r)
      <4> TAKE r \in Regs
      <4> HAVE pc' \in After(r)
      <4>1. CASE r = step
        BY <3>1, <3>2, <4>1
      <4>2. CASE r # step
        <5>1. pc \in After(r)
          BY <2>1, <3>1, <4>2
        <5>2. regs[r] = Wanted(r)
          BY <5>1 DEF SetUp
        <5>3. QED
          BY <3>1, <3>2, <4>2, <5>2
      <4>3. QED
        BY <4>1, <4>2
    <3>4. ~ramOwn /\ Accepted(args)
      BY <3>1 DEF SetUp
    <3>5. QED
      BY <1>a, <3>1, <3>3, <3>4 DEF SetUp
  <2>2. QED
    BY <1>4, <2>1 DEF ant_set_test_para, Wanted
<1>5. CASE ant_pkt_send
  <2>1. /\ pc = "send" /\ pc' = "sleep" /\ UNCHANGED <<args, regs>>
        /\ ramOwn' = ramOwn \/ ramWords' = ModelWords(args)
    BY <1>5 DEF ant_pkt_send, fast_ua_send, TakeModel
  <2>2. ~ramOwn /\ Accepted(args) /\ \A r \in Regs : regs[r] = Wanted(r)
    BY <2>1 DEF SetUp
  <2>3. QED
    BY <1>a, <2>1, <2>2 DEF SetUp
<1>6. CASE ant_collect_counters
  BY <1>6, <1>b DEF ant_collect_counters
<1>7. CASE ant_rst
  <2>1. ASSUME NEW s, NEW b, ResetBits(s, b) PROVE Kept
    BY <2>1 DEF ResetBits, SoftReset
  <2>2. On
    BY <1>7 DEF ant_rst
  <2>3. Kept
    BY <1>7, <2>1 DEF ant_rst
  <2>4. QED
    BY <1>b, <2>2, <2>3
<1>8. CASE StartRun
  BY <1>8 DEF StartRun, SetUp
<1>9. CASE ua_improper_quit
  BY <1>9, <1>b DEF ua_improper_quit
<1>10. CASE WrEnd \/ Receive \/ Copy(TRUE) \/ Copy(FALSE)
  BY <1>10, <1>b DEF WrEnd, Receive, Copy
<1>11. CASE UNCHANGED vars
  BY <1>11, <1>b DEF vars
<1>12. QED
  BY <1>1, <1>2, <1>3, <1>4, <1>5, <1>6, <1>7, <1>8, <1>9, <1>10, <1>11
     DEF Next, Program, Hardware

LEMMA OwnTestStep == Ranges /\ SetUp /\ OwnTest /\ [Next]_vars => OwnTest'
<1> SUFFICES ASSUME Ranges, SetUp, OwnTest, [Next]_vars, ready' PROVE OwnTest'
  BY DEF OwnTest
<1> USE DEF Entering, Setting, Waiting, Reporting, Closing, Over, Sent, soft, gen, hard, Move
<1>0. pc \in Steps
  BY DEF Ranges
<1>1. CASE ReadArgs \/ Sleep \/ ant_check_finish \/ ant_print_counters
           \/ import_latency_to_txt
  BY <1>1 DEF ReadArgs, Sleep, ant_check_finish, ant_print_counters,
     import_latency_to_txt, OwnTest, Fresh
<1>2. ASSUME NEW ok \in BOOLEAN, fast_ua_init(ok) PROVE OwnTest'
  BY <1>2 DEF fast_ua_init, fast_init_hw, fast_ua_register, fast_ua_file, OwnTest, Fresh
<1>3. CASE ant_set_test_para
  BY <1>3 DEF ant_set_test_para, Write, OwnTest, Fresh
<1>4. CASE ant_pkt_send
  <2>1. ready /\ pc = "send" /\ pc' = "sleep"
    BY <1>4 DEF ant_pkt_send, fast_ua_send
  <2>2. Fresh
    BY <2>1 DEF OwnTest
  <2>3. QED
    BY <1>4, <2>1, <2>2 DEF ant_pkt_send, fast_ua_send, TakeModel, Fresh, OwnTest
<1>5. CASE ant_collect_counters
  BY <1>5 DEF ant_collect_counters, OwnTest
<1>6. CASE ant_rst
  BY <1>6 DEF ant_rst, ResetBits, OwnTest
<1>7. CASE StartRun
  BY <1>7 DEF StartRun, OwnTest, Ready, Fresh
<1>8. CASE ua_improper_quit
  BY <1>8 DEF ua_improper_quit, OwnTest
<1>9. CASE WrEnd
  BY <1>9 DEF WrEnd, OwnTest, Fresh
<1>10. CASE Receive
  BY <1>10 DEF Receive, OwnTest, Fresh
<1>11. ASSUME NEW over \in BOOLEAN, Copy(over) PROVE OwnTest'
  <2>1. ready /\ rd = "test" /\ pc' = pc
        /\ UNCHANGED <<softRst, statRst, wr, ramOwn>>
    BY <1>11 DEF Copy
  <2>2. CASE pc \in {"sleep", "poll"}
    <3>1. ~softRst /\ ramOwn /\ sent = mine
      BY <2>1, <2>2 DEF OwnTest
    <3>2. rd' \in {"test", "fin"} /\ sent' = Plus1(sent) /\ mine' = Plus1(mine)
      BY <1>11, <2>1, <3>1 DEF Copy, Finish
    <3>3. QED
      BY <2>1, <2>2, <3>1, <3>2 DEF OwnTest
  <2>3. CASE pc \notin {"sleep", "poll"}
    BY <1>0, <2>1, <2>3 DEF OwnTest, Fresh
  <2>4. QED
    BY <2>2, <2>3
<1>12. CASE UNCHANGED vars
  BY <1>12 DEF vars, OwnTest, Fresh
<1>13. QED
  BY <1>1, <1>2, <1>3, <1>4, <1>5, <1>6, <1>7, <1>8, <1>9, <1>10, <1>11, <1>12
     DEF Next, Program, Hardware

LEMMA CollectedStep ==
  Ranges /\ OwnTest /\ Collected /\ [Next]_vars => Collected'
<1> SUFFICES ASSUME Ranges, OwnTest, Collected, [Next]_vars PROVE Collected'
  OBVIOUS
<1>0. pc \in Steps
  BY DEF Ranges
<1> DEFINE Shown == <<regs["hi"], regs["lo"], sent, recv>>
<1>a. UNCHANGED Shown => \A c \in {"time", "sent", "recv"} : Value(c)' = Value(c)
  BY DEF Value
<1> USE DEF Entering, Setting, Waiting, Reporting, Closing, Over, Sent, soft, gen, hard, Move
\* Before the collection nothing is read, after the report nothing is promised.
<1>b. ASSUME UNCHANGED <<reads>>,
             \/ pc' \in Closing \cup Over
             \/ /\ pc \in Entering \cup Setting \cup Waiting
                /\ pc' \in Entering \cup Setting \cup Waiting \cup {"collect"}
      PROVE  Collected'
  <2>1. CASE pc' \in Closing \cup Over
    BY <2>1 DEF Collected
  <2>2. CASE /\ pc \in Entering \cup Setting \cup Waiting
             /\ pc' \in Entering \cup Setting \cup Waiting \cup {"collect"}
    <3>1. reads' = 0
      BY <1>b, <2>2 DEF Collected
    <3>2. QED
      BY <2>2, <3>1 DEF Collected, Known
  <2>3. QED
    BY <1>b, <2>1, <2>2
\* While they are read the counters stand still.
<1> DEFINE Settled == ready /\ pc \in {"collect"} \cup Reporting
<1>c. ASSUME UNCHANGED <<got, reads, ready>>,
             pc' = pc \/ (pc = "print" /\ pc' = "check"),
             Settled => UNCHANGED Shown
      PROVE  Collected'
  <2>1. ready /\ pc \in {"collect"} \cup Reporting
          => \A c \in {"time", "sent", "recv"} : Value(c)' = Value(c)
    BY <1>a, <1>c
  <2>2. ready /\ pc = "collect" =>
          \A c \in {"time", "sent", "recv"}, n \in 0 .. 5 : Known(c, n)' = Known(c, n)
    BY <1>c, <2>1 DEF Known
  <2>3. QED
    BY <1>c, <2>1, <2>2 DEF Collected
<1>1. CASE ReadArgs \/ Sleep \/ ant_check_finish \/ import_latency_to_txt
  BY <1>1, <1>b DEF ReadArgs, Sleep, ant_check_finish, import_latency_to_txt
<1>2. CASE ant_print_counters
  BY <1>2, <1>c DEF ant_print_counters
<1>3. ASSUME NEW ok \in BOOLEAN, fast_ua_init(ok) PROVE Collected'
  BY <1>3, <1>b DEF fast_ua_init, fast_init_hw, fast_ua_register, fast_ua_file
<1>4. CASE ant_set_test_para
  BY <1>4, <1>b DEF ant_set_test_para, Write
<1>5. CASE ant_pkt_send
  BY <1>5, <1>b DEF ant_pkt_send, fast_ua_send
<1>6. CASE ant_collect_counters
  <2>1. UNCHANGED Shown /\ ready' = ready /\ pc = "collect"
    BY <1>6 DEF ant_collect_counters
  <2>2. ASSUME NEW c \in {"time", "sent", "recv"}
        PROVE  /\ Hi(Value(c)) * Half \in Nat /\ Lo(Value(c)) \in Nat
               /\ Hi(Value(c)) * Half + Lo(Value(c)) = Value(c)
    <3>1. Value(c) \in Nat
      BY ValueType
    <3>2. Hi(Value(c)) \in Nat /\ Lo(Value(c)) \in Nat
          /\ Hi(Value(c)) * Half + Lo(Value(c)) = Value(c)
      BY <3>1, Halves
    <3>3. Half \in Nat
      BY AntTestAssumption
    <3>4. Hi(Value(c)) * Half \in Nat
      BY <3>2, <3>3
    <3>5. QED
      BY <3>2, <3>4
  <2>3. got \in [{"time", "sent", "recv"} -> Int] /\ reads \in 0 .. 5
    BY DEF Ranges, Halfway
  <2>4. CASE ~ready
    BY <1>6, <2>1, <2>3, <2>4 DEF ant_collect_counters, Collected
  <2>5. CASE ready
    <3>1. Known("time", 1) /\ Known("sent", 3) /\ Known("recv", 5)
      BY <2>1, <2>5 DEF Collected
    <3>2. CASE reads \in 0 .. 4
      <4>1. reads' = reads + 1 /\ pc' = "collect"
        BY <1>6, <3>2 DEF ant_collect_counters
      <4>2. Known("time", 1)' /\ Known("sent", 3)' /\ Known("recv", 5)'
        BY <1>6, <1>a, <2>1, <2>2, <2>3, <3>1, <3>2, <4>1
           DEF ant_collect_counters, Known, Counters
      <4>3. QED
        BY <4>1, <4>2 DEF Collected
    <3>3. CASE reads = 5
      <4>1. reads' = 0 /\ pc' = "print"
        BY <1>6, <3>3 DEF ant_collect_counters
      <4>2. /\ got' \in [{"time", "sent", "recv"} -> Int]
            /\ got'["time"] = Value("time") /\ got'["sent"] = Value("sent")
            /\ got'["recv"] = Value("recv")
        BY <1>6, <2>2, <2>3, <3>1, <3>3 DEF ant_collect_counters, Known, Counters
      <4>3. got' = [time |-> Value("time"), sent |-> Value("sent"), recv |-> Value("recv")]
        BY <4>2
      <4>4. QED
        BY <1>a, <2>1, <4>1, <4>3 DEF Collected, Value
    <3>4. QED
      BY <2>3, <3>2, <3>3
  <2>6. QED
    BY <2>4, <2>5 DEF Ranges, Flags
<1>7. CASE ant_rst
  BY <1>7, <1>b DEF ant_rst, ResetBits
<1>8. CASE StartRun
  BY <1>8 DEF StartRun, Collected
<1>9. CASE ua_improper_quit
  BY <1>9, <1>b DEF ua_improper_quit
<1>10. CASE WrEnd
  <2>1. pc' = pc /\ UNCHANGED <<got, reads, ready>> /\ UNCHANGED Shown
    BY <1>10 DEF WrEnd
  <2>2. QED
    BY <2>1, <1>c, Zenon
<1>11. CASE Receive
  <2>1. wr /\ pc' = pc /\ UNCHANGED <<got, reads, ready>>
    BY <1>11 DEF Receive
  <2>2. ~Settled
    BY <2>1 DEF OwnTest
  <2> HIDE DEF Settled, Shown
  <2>3. QED
    BY <2>1, <2>2, <1>c, Zenon
<1>12. ASSUME NEW over \in BOOLEAN, Copy(over) PROVE Collected'
  <2>1. rd = "test" /\ pc' = pc /\ UNCHANGED <<got, reads, ready>>
    BY <1>12 DEF Copy
  <2>2. ~Settled
    BY <2>1 DEF OwnTest
  <2> HIDE DEF Settled, Shown
  <2>3. QED
    BY <2>1, <2>2, <1>c, Zenon
<1>13. CASE UNCHANGED vars
  <2>1. pc' = pc /\ UNCHANGED <<got, reads, ready>> /\ UNCHANGED Shown
    BY <1>13 DEF vars
  <2>2. QED
    BY <2>1, <1>c, Zenon
<1>14. QED
  BY <1>1, <1>2, <1>3, <1>4, <1>5, <1>6, <1>7, <1>8, <1>9, <1>10, <1>11, <1>12, <1>13
     DEF Next, Program, Hardware

\* At each step of the program, and whatever a killed run has left, the
\* hardware and the program are where TestInv says (main_ant, libant).
THEOREM Tested == Spec => []TestInv
<1>1. TestInv /\ [Next]_vars => TestInv'
  BY RangesStep, SetUpStep, OwnTestStep, CollectedStep DEF TestInv
<1>2. QED
  BY Initially, <1>1, PTL DEF Spec

-----------------------------------------------------------------------------
(***************************************************************************)
(* A run that began on ready hardware, whatever was killed before it,      *)
(* reports its own whole test.                                             *)
(***************************************************************************)
THEOREM ResultIsOwn == Spec => []OwnResult
<1>1. TestInv => OwnResult
  <2> SUFFICES ASSUME TestInv, ready, pc \in {"print", "check"}
               PROVE  /\ rd = "fin" /\ ramOwn
                      /\ got = [time |-> args.time, sent |-> mine, recv |-> recv]
    BY DEF OwnResult
  <2>1. rd = "fin" /\ ramOwn /\ sent = mine
        /\ got = [time |-> Value("time"), sent |-> sent, recv |-> recv]
    BY DEF TestInv, OwnTest, Collected, Reporting
  <2>2. regs["hi"] = Hi(args.time) /\ regs["lo"] = Lo(args.time)
    BY <2>1 DEF TestInv, SetUp, Wanted, Regs
  <2>3. Value("time") = args.time
    <3>1. args.time \in Nat
      BY AntTestAssumption DEF TestInv, Ranges
    <3>2. QED
      BY <2>2, <3>1, Halves DEF Value
  <2>4. QED
    BY <2>1, <2>3
<1>2. QED
  BY Tested, <1>1, PTL

(***************************************************************************)
(* Every test of a run's packet runs with the registers of its command     *)
(* line, and its copies are one or two clocks further apart than that asks *)
(* for, never closer, where sent_rate_reg holds the longest pause: its     *)
(* range is 2^32.                                                          *)
(***************************************************************************)
THEOREM RunIsAsAsked == RateMod >= Farthest => (Spec => []RunsAsAsked)
<1> SUFFICES ASSUME RateMod >= Farthest PROVE Spec => []RunsAsAsked
  OBVIOUS
<1>1. TestInv => RunsAsAsked
  <2> SUFFICES ASSUME TestInv, ramOwn
               PROVE  /\ regs["hi"] * Half + regs["lo"] = args.time
                      /\ regs["lat_flag"] = 0 /\ regs["proto_type"] = UDP
                      /\ PerCent(args) => Period - Asked \in {1, 2}
    BY DEF RunsAsAsked, PerCent
  <2>1. args \in Args /\ Accepted(args) /\ ramWords = ModelWords(args)
        /\ \A r \in Regs : regs[r] = Wanted(r)
    BY DEF TestInv, Ranges, SetUp
  <2>2. /\ regs["hi"] = Hi(args.time) /\ regs["lo"] = Lo(args.time)
        /\ regs["rate"] = Pause(args) /\ regs["lat_flag"] = 0
        /\ regs["proto_type"] = UDP
    BY <2>1 DEF Wanted, Regs
  <2>3. regs["hi"] * Half + regs["lo"] = args.time
    <3>1. args.time \in Nat
      BY <2>1, AntTestAssumption
    <3>2. QED
      BY <2>2, <3>1, Halves
  <2>4. ASSUME PerCent(args) PROVE Period - Asked \in {1, 2}
    <3>1. Distance(args) \in {1, 2}
      BY <2>1, <2>4, PauseFits
    <3>2. Period = ModelWords(args) + Pause(args) + 3
      BY <2>1, <2>2, Zenon DEF Period
    <3>3. Period - Asked = Distance(args)
      BY <3>2, Zenon DEF Asked, Distance
    <3>4. QED
      BY <3>1, <3>3
  <2>5. QED
    BY <2>2, <2>3, <2>4
<1>2. QED
  BY Tested, <1>1, PTL
=============================================================================
