# ANT on FAST: a verification development

ANT is a network tester built on FAST, an FPGA packet pipeline with a software
control program. The hardware (`src/hw code/*.v`) parses the packets that
arrive, looks them up in a flow table, rewrites their header word and sends
them on; a packet generator in the middle of the pipeline (`pgm`) stores one
model packet and replays it at a given pace for a given time; a statistics
module (`scm`) counts what comes back. The software (`src/sw code/fast-ant`)
drives a test through registers: it sets time and rate, sends the model packet,
polls for the end, reads the counters and resets the hardware. With it come the
other programs of FAST: a learning switch, an OpenFlow agent, and the libraries
of rules and registers they use.

The modules in this directory model that system, the hardware clock by clock
and the programs step by step; TLC checks them on small instances, and TLAPS
proves the central facts of the generator, the switch, the flow table, the
agent and the test program for all.

## 1. The system

### 1.1 Parts and their state

| Part | Source | State | Operations | Status |
|---|---|---|---|---|
| `gpp` packet parser | `gpp.v` | state machine, step counter, MD/PHV/PST registers | accept or reject a packet, take header fields at fixed words, emit metadata with the last word | modelled |
| `data_cache` | `data_cache.v` | word FIFO, valid FIFO, state machine | store, send a complete valid packet, drop an invalid one | modelled |
| `gke` key extractor | `gke.v` | two stages of metadata, fetched fields, key | build a key beside the metadata | modelled |
| `gme` match engine | `gme.v` | metadata/PHV FIFO, index FIFO, state machine | send the key to the external matcher, join its answer to the oldest waiting metadata | modelled |
| `scm` statistics | `scm.v` | counters, `protocol_type`, `statistic_reset`, latency RAM, register state machine | count, pass on, reset, answer register reads | modelled but for the contents of the latency RAM |
| `gac` action engine | `gac.v` | word, valid and metadata FIFOs, flow table, polling counter, state machine | join words and metadata, look up, rewrite the first word, send | modelled |
| `pgm` generator | `pgm.v`, `pgm_wr.v`, `pgm_rd.v`, `ram_144_128.v` | RAM of 128 words, two state machines, time, rate, pause and packet counters, flags | store the model packet, replay it, pace, stamp, stop, report, reset | modelled |
| `goe` output engine | `goe.v` | word and valid FIFOs, per-flow counters, control FIFO | drop packets marked so, count, send, answer counter reads | modelled |
| control chain | the `cin_*`/`cout_*` ports of all blocks | two-word commands on a ring of registers | write, read, answer, pass on | modelled for the blocks that have registers on it |
| local bus | `um.v` 261-482, `sync_sig.v`, the register port of each block | address decoder, acknowledge state machines, synchronisers | one access at a time to one block | modelled, counters standing still |
| `um` wiring | `um.v` 501-870 | none | connects the blocks | modelled in three parts (pktin to gac; the chain; the bus) |
| test program | `app/ant/main_ant.c`, `lib/libant` | the step of the test it is in, collected counters | set parameters, send, poll, collect, reset | modelled |
| `libua` client | `lib/libua/main_libua.c` | connection, registered module, pending reply | register, send, read and write registers | modelled where programs use it |
| learning switch | `app/l2switch` | table of addresses, two threads | learn, look up, flood, age | modelled |
| `librule`, `libreg` | `lib/librule`, `lib/libreg` | table of rules, in memory and in registers | add, modify, delete, init, search | modelled but for the read-back |
| OpenFlow agent | `lib/libofp`, `app/openflow` | flow statistics, session, ports, threads | flow messages, requests, packets in and out, port states | modelled (`OfRules`, `OfAgent`) |
| `libams`, `ams`, command line tools | `lib/libams`, `app/ams`, `tools` | | | not modelled, see 6 |
| vendored IP | `hw code/src`, `blk_mem_gen_v8_4.v` | | | external: FIFOs and RAMs are modelled from their use |

### 1.2 How they interact

Words go pktin, gpp, data_cache, gac, pgm, goe, pktout. Metadata (with the
header vector) go gpp, gke, gme, scm, gac, changing their destination module
from 1 to 2, 3, 7 and 4 on the way; keys leave from gme to a matcher outside
the repository and indices come back. gac is where the two streams meet again,
and they are matched by order alone. Almost-full signals go backwards, and each
block looks at them only between packets. Commands of two words travel dma,
gpp, gke, gme, scm, gac, pgm_wr, pgm_rd, goe, dma. pgm raises flags for the
start and the end of a test, which scm uses to count only during a test. The
local bus reaches gpp, data_cache, gke, gme, gac and goe with one access at a
time, through a synchroniser at either end.

A program registers with the kernel driver through `libua`, sends and receives
packets, and reads and writes registers with commands on the chain (`libua`) or
directly (`libreg`). `librule` writes a rule in several registers; `libofp`
keeps its statistics by the index `librule` gives it, and shares one socket
between a receiver, a thread that watches the ports, and a capture per port.

### 1.3 What is hard

* Two state machines in `pgm` time the same test independently; flags, counters
  and addresses are cleared only in particular clocks of particular states.
* RAMs answer two clocks after the address and FIFO strobes are registered, so
  every state machine acts ahead of what it sees.
* Words and metadata of one packet travel apart and are joined by order: one
  packet dropped on one way only, or one answer of the matcher too many, shifts
  everything behind it.
* Nothing stops inside a packet, so FIFOs must have room for what is under way
  when an almost-full signal rises, and nothing stops the generator at all.
* Registers of the parser keep the values of the packet before.
* The software polls and resets at times of its own, and may be killed between
  any two of its steps while the hardware goes on.
* The threads of the switch and of the agent share tables and a socket without
  a lock; packets are looked up while a rule is half written.

`PROJECT.json` lists these hazards line by line with the properties for them.

## 2. The modules

| Module | Models |
|---|---|
| `FastBeat` | a word on a 134-bit bus: strobe, first/middle/last, packet, position |
| `PgmRam` | `ram_144_128` as used by `pgm`: write port, read port with two clocks of delay |
| `PgmWr`, `PgmRd` | the two halves of the generator, one definition per state |
| `GacPort` | what may happen on the wires from gac to pgm |
| `Pgm` | the two halves, the RAM, the port and the test program; all properties of the generator |
| `PgmPace` | `Pgm` with a clock beside it that is set at the first word of each copy |
| `PktGenerator` | the abstract generator: whole copies, in order, stamped with their number |
| `PgmProofs` | the theorems about `Pgm`: types, order and reset of a test; what is stored and replayed, the refinement |
| `FastMd` | metadata, kinds of packets, FIFOs and almost-full signals |
| `Gpp`, `DataCache`, `Gke`, `Gme`, `Scm`, `Gac` | one block each, one definition per state or register |
| `AntPipe` | all of them composed as in `um.v`, with pktin, the matcher and pgm's stalling as environment; all properties of the pipeline |
| `Conveyor` | the abstract pipeline: packets leave once, in order, with a header their own rule allows |
| `AntPipeProofs` | the theorems about `AntPipe` |
| `MCAntPipe` | kinds of packets and a flow table for TLC |
| `CtrlCmd` | the two words of a command, registers and their widths |
| `RegBlock` | the registers of `pgm_wr` and of `pgm_rd` on the control chain (instantiated twice) |
| `ScmCtrl`, `GoeCtrl` | the register halves of `scm.v` and `goe.v` |
| `CtrlChain` | the four blocks in a row, the library's calls in front and behind; all properties of the chain |
| `CtrlChainProofs` | the theorems about `CtrlChain` |
| `RegFile` | what the test program relies on: a register file whose getters return |
| `GoeData` | the data half of `goe.v`, one definition per state |
| `Goe` | both halves of `goe.v` on one RAM of counters, between generator, chain, pktout and DMA engine |
| `Egress` | the abstract output engine: kept packets leave whole, once, in order, counted |
| `MCGoe` | packets for TLC |
| `GoeProofs` | the theorems about `Goe` |
| `LocalBus` | the arbiter of `um.v`, `sync_sig`, the register ports of six blocks, and the host |
| `BusFile` | the abstract bus: a file of registers, one access at a time, each of which ends |
| `L2Switch` | the learning switch: `callback` on the receive thread and the aging thread, access by access |
| `LearningSwitch` | the abstract switch: an address may be known at a port, or not |
| `L2SwitchProofs` | the theorems about `L2Switch` |
| `RuleStore` | `librule`: the search in the table and the choice of a slot, as functions of the table |
| `RuleTable` | `librule` and `libreg`: the writes of a rule to the registers one by one, the match engine beside them, restarts |
| `OfRules` | `libofp`: FLOW_MOD in all its commands and the flow statistics, on `RuleTable` |
| `OfRulesProofs` | the theorems about `OfRules` |
| `OfAgent` | `libofp`: session, requests, ports, packets in and out, with all threads |
| `OfAgentProofs` | the theorems about `OfAgent` |
| `AntTest`, `MCAntTest` | the test program, `libant` and `libua`'s registration, on the hardware as `Pgm` and `Scm` promise it, with kills |
| `AntTestProofs` | the theorems about `AntTest` |

**Time.** A step of `Pgm`, `AntPipe` or `Goe`, and the action `Clock` of
`CtrlChain` and `LocalBus`, is one clock of the whole hardware: each block has
one action that reads the unprimed wires of its neighbours, as nonblocking
assignments in one `always @(posedge clk)` do. What is outside the clock
(arrivals, stalls, software, the host of the bus) is a free choice in each
step. Each state of a state machine is a disjunct or a named action of its
block's step; assignments the Verilog does not make are UNCHANGED.

In the programs a step is what one thread does between two accesses to
something another thread, the hardware or a peer can see. The receiving thread
of the switch takes the table entry by entry; the aging thread decides on an
entry in one step and invalidates it in the next; a rule goes to the hardware
register by register; the agent composes PORT_DESC port by port; the test
program makes one register access a step. A kill leaves the hardware as it is
and takes everything else.

**Data.** A word is known by the packet it belongs to and its position in it;
header bits are kept where a decision depends on them (destination module,
protocol class, length, index, flow, drop bit). The header vector travels with
the metadata and is one with it. A key is known by the packet its fields come
from. A match of a flow is either empty or on the port of arrival: the other
fields are copied by the code in the same way. OpenFlow messages are told apart
by whether they are answered, and by what the answer depends on.

**Definitions ending in a deviation** (`GmeSendKeepsRd`, `RdClearKeepsTime`,
`DataAlfNever`, ...) stand just before the definition they deviate from. They
are not part of any specification; each is a plausible slip in the code and the
property it must break is listed under `mutants` in `PROJECT.json`.

## 3. What is checked

| Run | Asks | Bounds |
|---|---|---|
| `pgm_traffic` | two tests with traffic: safety, clocks between copies, refinement of `PktGenerator`, and that every test completes | RAM of 9 words, packets of 6 and 7, times up to 21, pauses 0 and 2, 2 tests |
| `pgm_gaps` | packets that pause inside, and the probe mode | same, shorter |
| `pipe_mixed` | safety and refinement of `Conveyor` with valid, invalid, unknown, rejected and bypassing packets | 3 packets of 6 kinds, FIFOs of 16 words, metadata FIFOs of 4, almost full at 1 |
| `pipe_full` | FIFOs under unlimited stalling; protocol classes, keys and rules; resets while the pipeline is empty; delivery under fairness | 5 packets (TCP, ARP and VLAN; the second may also be of unknown type or addressed to scm), metadata FIFOs of 4 whose own almost-full never rises |
| `ctrl_regs` | registers of pgm_wr, pgm_rd, scm and goe and the latency RAM, set and read in any order: refinement of `RegFile`, reads as barriers, framing of answers, every write arrives | two values, three commands under way |
| `goe` | refinement of `Egress`, and that every word finds room | packets of 6 and 7 words, one of them dropped, two flows, FIFO of 16 words, stalls while at most 12 wait, counters modulo 3 |
| `local_bus` | refinement of `BusFile` | all six blocks, two words each, two values |
| `l2_switch` | one entry per address, aging, refinement of `LearningSwitch` | 3 addresses, 2 ports, table of 2, life, sleep and lag of 1 second |
| `of_rules` | what packets meet while rules are written, what the controller is told, over restarts | table of 2, 2 ports, 1 priority, 2 cookies |
| `of_agent` | requests answered, in turn and only once; view of the ports, probes | 3 ports (1 of them changing), 2 requests at a time, queue of 2 |
| `of_late` | a link that comes up between the first two looks (expected to fail) | the same, queue of 1, up at once |
| `ant_test` | what a run reports, its setup and pace, and recovery from kills | 4 command lines, 2 kills, halves of 1 bit |

**Why these bounds.** Six words is the shortest packet for which the parser's
protocol type is final before the metadata leave and for which the stamp
position exists; seven is a second length. A RAM of 9 words holds the longest
packet and the two words of look-ahead. FIFOs of 16 words have their almost-full
bit at 8: a packet fits above it, and two do not, as with 1024 words and frames
of at most 97; `pipe_mixed` keeps the same margin in the metadata FIFOs (almost
full at 1 of 4 entries, as at 250 of 256). `pipe_full` gives the metadata FIFOs four entries and no usable
limit of their own, and shows that the data FIFOs alone bound the metadata; in
the hardware the bound is about 200 packets of six words against 256 entries.
In `ctrl_regs` four words, two commands, are enough for one to run into the
flag another has left in a block, and six let a read find two writes in front
of it; `MaxWords` does not exceed `CtrlDepth`, as one caller in the hardware
never fills 128 words. In `goe` two complete packets may wait and a third
arrive while pktout stalls; 16 words are what `Roomy` (section 4) asks for, and
with 14 `Room` fails. A table of two and three
addresses make a full table with one address left over, and an entry freed
while another thread looks for one. Two rule slots make a hole, a full table
and a rule that could be in two places; packets look up between any two
register writes. Two kills let a run be killed
on what an earlier killed run has left. In `of_agent` two
requests may wait in the queue, or one while the receiver composes a PORT_DESC for
the other: enough for either to be passed. `Meanwhile` is FALSE there: the controller
does not write while a frame waits at a port, though messages written before may
(`of_late` and the theorems do without this bound). The first command line of `ant_test` asks for
frames of whole words at full rate, where rounding hides no clock.

Deadlock checking is off in `pipe_*` because the packets of a run are bounded
and pktin may pause for ever, and in `of_agent` and `of_late` because all
threads wait when the controller and the cables rest.

**Properties of the generator** (`Pgm`): `RdNeverFinishesFirst`,
`ReplayIntact`, `PacedReplay`, `TestLength`, `ReadyForTest`, `FramedOutput`,
`ImplementsGenerator`, `TestCompletes`, and `HeadsApart` (`PgmPace`: the clocks
between two copies). **Of the pipeline** (`AntPipe`):
`Paired` (words and metadata of the same packet meet), `NoOverflow`,
`IndexBalance` (keys, answers and waiting metadata agree), `CountsWhatPassed`
(statistics), `KeepsPortContract` (the pipeline behaves as `GacPort` says),
`ImplementsConveyor`, and with liveness `DeliversAsConveyor`. **Of the chain**
(`CtrlChain`): `AnswersFramed` (what goe sends up is one answer, first word then
second), `WritesLand` (with nothing under way every register holds what it was
last given), `ReadIsBarrier` (when a read returns, every earlier write is in
its register), `ImplementsRegFile` (a getter returns, with what its setter was
last given). **Of the output engine** (`Goe`): `Room`, `ImplementsEgress`. **Of
the local bus**: `ImplementsBusFile`. **Of the switch** (`L2Switch`):
`OneEntryPerAddress`, `AgingSparesSettled` (the aging thread takes an entry that
is not expired only if its sender was heard since the walk began), `SilentAddressesAge`, `ImplementsLearningSwitch`. **Of the flow
table** (`OfRules`): `UpdatesSeenWhole` (a packet meets the old rules or the
new ones), `ReportedIsInstalled`, `OneSlotPerRule`. **Of the agent**
(`OfAgent`): `AnsweredInTurn` (an answer is to the oldest request not answered,
and a request not answered is in hand), `ViewCurrent`, `LinkReported`,
`ProbesReturn`.
**Of the test program** (`AntTest`): `OwnResult`, `RunsAsAsked` (copies are sent as
the command line says, up to two clocks further apart), `Recovers`.
Each is stated in words beside its definition.

**What links the modules.** `Pgm` assumes `GacPort`; `AntPipe` is checked to
keep it with `MidGap` FALSE. `pgm_gaps` sets `MidGap` TRUE to reach the branches
of `pgm_wr` that cope with a pause inside a packet, which the pipeline in front
of it does not make. `Goe` assumes of the generator what `FramedOutput` of
`Pgm` says: packets without a pause inside and with one clock between two. With
a pause inside a packet goe's FIFO would fill, as it sends a packet only once it
is complete. `AntTest` takes the hardware as `RdNeverFinishesFirst`,
`TestCompletes`, `CountsWhatPassed` and `ReadIsBarrier` describe it.

**Fairness.** `PgmPace!FairPaceSpec` (`Pgm!FairSpec` with the clock beside it) assumes that the clock ticks and that the test
program goes on when it can (`WF` of each): the clock is a clock, and
`main_ant` polls in a loop. `AntPipe!FairSpec` assumes again and again a clock
in which pgm has room and the matcher answers; nothing is assumed of arrivals.
`CtrlChain!FairSpec` assumes again and again a clock in which the DMA engine
takes a word; nothing is assumed of the caller. `Goe!FairSpec` assumes the clock
and that pktout is ready again and again (`SF`, as it may stall between).
`LocalBus!FairSpec` assumes the clock and that the host takes an
acknowledgement. `L2Switch!FairSpec` assumes that the aging thread runs and that
time passes, nothing of the frames. `OfAgent` assumes that its threads run;
controller and links do as they like. The look at a port's link may fail any
finite number of times in a row but not for ever (`SF` of `read_port_status` for
each port that changes). `AntTest!FairSpec` assumes that a test
ends, that the program goes on and is started again, and that opening the
hardware, registering and the module's file succeed if tried for ever (`SF`:
they may fail any finite number of times).

**Assumptions on the surroundings.** `AntTest`: the register writes of a setup
arrive before the model packet (they take one way through the chain, the packet
another through the kernel); the sleep of the program is as long as the test
that pgm_wr times; the flags of a test fall before the software looks; no kill
falls between the two writes that pulse a reset bit. `Goe`: pktout stalls only
while at most `StallUpTo` words wait; the Ethernet frame has at least four
words. `LocalBus`: the host holds an access until it is acknowledged and waits
until the acknowledgement is gone; the address is one of a block. `OfAgent`:
messages are read whole and the connection stays up. `CtrlChain`: one caller.

### 3.1 Where code and documents differ

`of_late` is a run: the first report of a port (ADD) sets `old_state` to 0,
which means up, whatever state was just reported (`main_libofp.c:2456`); if the
port was down then and is up five seconds later, nothing has changed for the
program and the controller is not told.

`RunsAsAsked` shows another, by what it has to allow: between the first words of two copies lie the words of the packet,
`sent_rate_reg` + 1 clocks of pause and two clocks in which the RAM is read again
(`pgm_rd.v` 255-289, 395-429; `HeadsApart`), three more than words and register.
`main_ant.c:72` takes off two, besides the two words of metadata, so copies are one
clock further apart than the rate asks for, and two where the last word of the frame
is not full (`RunsAsAsked`). At 100 per cent a frame of 80 bytes, due each 80 clocks,
leaves each 81, though the line above says that users may enter 1% to 100%.

Met while modelling, and not shown by a run:

* `scm.v:134`: while `statistic_reset` is up the metadata that arrive are
  dropped, though the comment says they need to be read out. The words stay in
  gac's FIFO and every later packet is joined to metadata that are not its own.
  With resets in an empty pipeline (`pipe_full`) nothing goes wrong.
* `um.v:400`: the assignment after the `case` overrides its `default` branch;
  an access to an address of no block waits for ever, and every other after it.
* `ant_get_sent_rate_reg` reads `SENT_TIME_REG` of pgm_rd, which is
  `lat_pkt_reg`. The answer for `N_RTT` is commented out, the strobe is not, so
  the word sent is an old one and the caller waits for ever. goe answers a read
  of a packet counter with two second words. Answers for the one-bit registers
  of pgm_rd carry 31 bits of the request (`pgm_rd.v:558`). `SCM_SOFT_RST` can be
  written, but a read returns all ones (`scm.v:240`). `ctrl_regs` leaves out
  what a read of these registers returns.
* goe's `out_goe_alf` rises with 251 of 256 words: gac, which alone looks at it,
  looks between packets only, and pgm does not look at all.
* A write of a counter of goe by software between the first and the third word
  of a packet of that flow is lost (`goe.v:214`, `goe.v:241`); `Egress` allows it.
* On the local bus a write to a counter of gac goes into its flow table
  (`gac.v:184`); `BusFile` allows it.
* The rate of a test is in Mbps in the usage text and in per cent in the formula
  (`main_ant.c:72`); a kill inside the pulse of a reset bit leaves the bit up and
  the next run polls for ever; frames longer than 4063 bytes wrap the length of
  the message; `usleep` wraps above 4294 seconds; `main` returns without
  `fast_ua_destroy` (`main_ant.c:187`), which is to be executed when the program ends,
  normally or not (`main_libua.c:363`), and `fast_ua_file` exits without it: the kernel
  goes on sending packets to a process that is gone. A signal does tell it (the
  variable `kernel` of `AntTest`, about which no property is stated).
* `main_libofp.c`: MODIFY_STRICT writes the port untranslated, so it is right
  only where interface 1 is port 1 (`FirstObx` = 1); deleting all rules leaves
  them marked valid in memory, so adding one of them again does nothing;
  DELETE looks at the cookie only, against the comment at line 1224;
  DELETE_STRICT without instructions is ignored (798-804); timeouts are never
  acted on (2843); a flood sends to ports that are down (627); the comment
  `/*down*/` at 2458 stands at the wrong value; an echo reply has no payload;
  GET_ASYNC and QUEUE_GET_CONFIG are never answered; a short read of the socket
  desynchronises the framing; a lost connection is not made again.
* `main_librule.c`: `init_rule` clears key and mask of a register rule before its
  valid bit, so a rule of a killed program may match everything for a moment
  (`UpdatesSeenWhole` asks nothing of the packets of that moment); `fast_add_rule`
  returns a free index for a rule that exists (480-499), its comment (473-479)
  says otherwise.

## 4. What is proved

Every theorem holds for all values of the constants that satisfy the named
assumptions of the module, and the further hypotheses given here.

| Component | Theorem | Property | Hypotheses |
|---|---|---|---|
| generator | `TypeCorrect` | `TypeOK` (proved, in no run) | |
| | `FinishOrder` | `RdNeverFinishesFirst` | `SlowReset` |
| | `ResetBeforeTest` | `ReadyForTest` | `SlowReset` |
| | `StoredWhole` | `ReplayIntact` | `SlowReset` |
| | `PacedCopies` | `PacedReplay` | `SlowReset` |
| | `TestEnds` | `TestLength` | `SlowReset`, no probe mode |
| | `FramedCopies` | `FramedOutput` | the same, and `~MidGap` |
| | `PgmIsGenerator` | `ImplementsGenerator` | `SlowReset`, no probe mode, `RamDepth <= 2048` |
| pipeline | `PipeTyped` | `TypeOK` | |
| | `IndexPerPacket` | `IndexBalance`, and that the metadata FIFO of gme has room | `MdRoom` |
| | `JoinsItsOwn` | `Paired` | `Fits(n)`, `ResetWhen # "any"` |
| | `NothingOverflows` | `NoOverflow` | the same |
| | `KeepsTheContract` | `KeepsPortContract` | the same |
| | `CountsTheType` | `CountsWhatPassed` | the same |
| | `IsConveyor` | `ImplementsConveyor` | the same |
| chain | `ReadsAreBarriers` | `ReadIsBarrier` | `Sane` |
| | `WritesArrive` | `WritesLand` | `Sane` |
| | `AnswersComeFramed` | `AnswersFramed` | `Sane` |
| switch | `TypeCorrect`, `NoAddressTwice`, `SettledStay`, `SwitchLearns` | `TypeOK`, `OneEntryPerAddress`, `AgingSparesSettled`, `ImplementsLearningSwitch` | |
| flow table | `TableTyped`, `NoRuleTwice` | `TypeOK`, `OneSlotPerRule` | |
| | `ReportsAreTrue`, `MessagesSeenWhole` | `ReportedIsInstalled`, `UpdatesSeenWhole` | `FirstObx = 1` |
| agent | `TurnIsKept` | `AnsweredInTurn` | |
| | `ViewIsCurrent` | `ViewCurrent` | `~UpAtOnce` |
| output engine | `RoomSuffices` | `Room` | `Roomy` |
| | `EngineKeepsPromise` | `Engine!ESafe`, the safety part of `ImplementsEgress` | `Roomy` |
| test program | `Tested`, `ResultIsOwn` | `TestInv`, `OwnResult` | |
| | `RunIsAsAsked` | `RunsAsAsked` | `RateMod >= Farthest` |

**The generator: what a test leaves behind.** `PgmAssumption` says that the
model packet fits the RAM with two words to spare, that lengths are at least two
words, and that registers have their widths. `SlowReset`: the software's
`soft_rst` reaches pgm_rd only after the start flag of the test has fallen. The
flag falls at most a few words after the clock in which the software can see
FIN_S, and a register access takes a round trip through driver, DMA and the
control chain; TLC's runs use the same assumption.

`RdNeverFinishesFirst` is not inductive: it says nothing of the two time
counters. The invariant `TestInv` of `PgmProofs` adds where the test program can
be in each state of the hardware (`ProgramPhase`, `PassOn`, `ModelArrives`) and
`Lead`: while both halves time a test, pgm_wr's counter is ahead of pgm_rd's,
because pgm_rd starts after the packet has been passed on and loses a clock with
every copy; and both compare with the same register, which does not change
during a test. When pgm_rd's counter reaches the end, pgm_wr's has been there.
The proof has one lemma per block and state and one step per action of the test
program.

**The generator: what is stored and sent.** The second part of `PgmProofs` builds on `TestInv`.
`StoreInv` follows the model packet into the RAM: the word on the wire from gac
(`OnWire`), the words stored so far and the write that is on its way (`Storing`),
the clocks between the last word and the first read (`Handover`), and that the
packets are numbered with the tests (`Numbered`). Only then does `ReplayIntact`
follow: pgm_rd starts on a flag, and the flag rises a clock after the last word
was written. `ReadInv` is about the reading half: the address runs two words
ahead of the word emitted and at most two past the last one (`Ahead`); the clocks since the
test began and the bits sent are a multiple of the period and of the copy's
length (`Counted`: products of two variables, which the proof takes one copy at
a time); the counter of words picks the word that carries the copy's number
(`Cycle`); a word of a copy follows the one before it on the output (`Emitted`);
and the time was not over at the end of any copy but the last (`NotOver`).
`TestLength` and `PacedReplay` are read off it. `Passing` adds that
ordinary traffic and the test never use the output in the same clock, for
`FramedOutput` as an action property. The refinement maps the address to the
position in the copy; each state of pgm_rd is shown to take a step of
`PktGenerator` or none. The hypotheses are what the code needs: without gaps
(`~MidGap`) because pgm_wr passes a gap on to the output; without the probe mode
(`TRUE \notin LatFlags`) because PROBE_S sends one word more than the packet has
(`pgm_rd.v:433`); and a RAM of at most 2048 words because `pkt_cycle_cnt` has 11
bits (the RAM of the code has 128). `StoredWhole` and `PacedCopies` need neither.

`ModelTail`, which `TestLength` and the refinement use, is the first last word in
the RAM: after a shorter model packet the last word of a longer earlier one is
still there. The proof could not go through while the definition took any of
them, though TLC, which takes the lowest, found nothing wrong.

**The pipeline: metadata.** The first part of `AntPipeProofs` proves, for any number
of packets of any kinds, that every register keeps its type and that keys, indices
and waiting metadata agree. Types alone are not inductive: that gac looks up an index of the table,
and that gme finds one when it takes one, depends on where metadata come from.
`FrontInv` adds what the port shows (`Port1`: a word of the last packet, or
none), what gpp remembers of it (`Parsing`), that metadata, wherever they are,
are of a packet that came, for the module they bear (`Metadata`), that a key is
with its metadata until both are in gme (`Keys`), that an index is there when one
is taken (`Joining`), and that there is a rule for each (`Rules`). `IndexBalance` needs
that no metadata are lost on the way into gme, so `MdInv` adds that the metadata
on their way there are at most one at a time, since packets are longer than the
way (`Spaced`), and that what waits, what is on the way and the packet on the
port are at most two more than the almost-full level (`MdLevel`): the port looks
at it before each packet. `MdRoom` says that two more fit (250 and 256 entries in
the hardware).

**The pipeline: words and metadata.** The second part of `AntPipeProofs` proves that
gac never joins the words of one packet to the metadata of another and that no FIFO
overflows. The two cannot be separated: with a word lost the streams slip, and what
bounds the metadata FIFO of gac, whose almost-full signal the port reads but nothing
stops in the middle, is that the words of the same packets are still in the data
FIFOs. The invariant `PairInv` has four layers.
A data FIFO with the word on its way to it is one line of words (`DcLine`,
`GacLine`): runs of consecutive words of rising packets, each run whole but for the
packet being read at the front and the one being written at the back (`Runs`), and
its valid FIFO has one bit for each last word not yet taken (`Valids`, `Stored`).
One lemma, `StoredNext`, shows for both FIFOs that a clock keeps this; `DcKept` and
`GacNext` add what the state machines are doing with the front (`DcSends`,
`GacReads`). `WordOrder` says that all of gac's line is before all of the cache's and
behind the packet that left last, and `AllThere` that no word of a packet to be
served is missing from both. `ChainInv` is the metadata's side: `Chain`, the packets
whose metadata are anywhere between gpp and gac, are in order from place to place
(`MdOrder`) and are exactly the packets that came whole, are to be served, and have
not left (`ChainIs`). So the oldest metadata in gac and the first word gac reads
are both of the least packet that is still to leave, which is `PairedNow`. Last,
`DcLevel` and `GacLevel` bound the lines by half a FIFO and the longest packet, and
`ChainWords` counts: each packet in the chain has at least six words in the lines.

`Fits(n)` is what this takes, for packets of at most n words: half the FIFO, the
packet and one word are less than the FIFO (more than half full is all a count of
n bits tells; an exactly full FIFO counts as empty), and six times the entries of a
metadata FIFO are more than twice that level. The hardware has 1024 words, 256
entries and frames of at most 97 words: 610 of 1024, and 1219 of 1536.
`ResetWhen # "any"` leaves out a software that resets the statistics while packets
are under way: scm then drops metadata whose words go on (`scm.v:124`), and
`Paired` is false. `pipe_mixed` and `pipe_full` reach smaller FIFOs than `Fits`
allows, with fewer packets.

**The pipeline: what leaves it.** The third part builds three results on `PairInv`.
*The port.* `PortInv` ties the output register of gac to the word at the front of its
FIFO: inside a packet the word shown is followed by the word waiting, and in the
states before a packet the strobe is low. Each clock is then a step of `GacPort` with
`MidGap` FALSE, so what `Pgm` assumes of its input is proved of what feeds it
(`KeepsTheContract`).
*The counter.* Nothing in the pipeline says which packets scm has counted. `Seen` is
the packets that came whole less those whose metadata are still before scm, which
`ChainIs` makes a set of known numbers; `CountInv` puts the counter between the
packets of `Seen` that must count (`MustCount`) and those that may (`MayCount`). For
that the protocol type in the metadata has to be the packet's own (`Typed`), though
gpp computes it in registers that lag one clock behind each other: `HeadersRead` says
which register holds what at which word. In an empty pipeline `Seen` is all packets
(`AllSeen`).
*The rule.* Key, answer, metadata and words of a packet are apart for as long as the
matcher likes, and nothing in an answer says whose it is. `InTurn` numbers the answers
gme has not taken, in its FIFO, on the wires, in the matcher or still a key
(`Answered`), and the packets in gme that wait for one (`Asks`) by rank (`Upto`), and
says that the r-th answer is a rule of the r-th packet. `KeyFits` gives that for a new
key, `Ruled` carries it on to gac, and `LookedUp` says that the entry read from the
flow table, two clocks after its address, is that of the metadata gac takes. The belt
of the refinement is the set `Waiting` in order; that gac takes its least element and
a new packet is its largest (`WaitingNext`) makes it a queue (`OrderFirst`,
`OrderLast`). One clock may take a packet and bring another, which is why `Depart` of
`Conveyor` allows an arrival.

The proof found one definition wrong: the type a packet's headers give (`OwnPst`) was
written with overlapping cases, of which TLC takes the first and the logic any, so for
ARP and VLAN packets it did not say what the code does. It now follows the order of the
tests in `gpp.v:339`.

**The chain.** `CtrlChainProofs` proves, for any registers set and read, any
values and any depth of the FIFO, that answers come framed, that no write is lost
or stored in the wrong place, and that a read is a barrier for the writes to all
blocks. `Sane` says that what one caller has on the way fits the FIFO of goe
(`MaxWords <= CtrlDepth`; the code has 128 words and the library of `libant`
never sends more than a few commands in a row), and that two registers are not
read: `n_rtt`, for which scm sends whatever word it sent last (`scm.v` 234-271),
and the counter of goe, whose second word is taken for the first (`goe.v`
324-336). None of the three properties is inductive. `Traffic` adds, word by
word, what may be on each wire (`Wires`: the write of a block still ahead, the
one read, or its answer), that a second word is one clock behind its first, or
behind the flag of the block that swallowed the first (`Follows`, `ScmPairs`,
`FifoPairs`), what scm holds while it looks into the latency RAM (`ScmHolds`),
where goe is in its command (`GoePlace`), that behind the read, or its answer,
there is nothing on the whole chain (`Alone`), and that all words, with those
scm holds, have room in the FIFO (`Roomy`). Without the last, a first word could
be stored and its second word lost. `WritesInv` says of each register that the
youngest write on the way, wherever it is, or the register when there is none,
has what was last written through its name. A clock of the chain is first
reduced to what each block does to the one word it gets (`ScmDoes`, `WrDoes`,
`RdDoes`, `GoeDoes`), from which both parts follow.

**The output engine.** `GoeProofs` proves, for any packets of four words or more,
any depth of the FIFO and any way in which pktout stalls, that nothing is lost
(`RoomSuffices`) and that every step is one of `Egress` or none
(`EngineKeepsPromise`). The second needs the first: a word that finds no room
would be missing in its packet. `Roomy` says when pktout may stall: with S words
waiting, of packets of at least m words, the FIFO has room for S words, for S/m
and for two more, and it is longer than any packet that is kept. In `Goe.cfg` S is
12 and m is 6, which takes 16 words. Two short packets could do with 15, but with
a long one behind them each change from one packet to the next costs a word: for
packets of 6 and 14 words TLC finds `Room` violated with 15 and not with 16.

`Room` alone is not inductive, for it does not say why a backlog never grows.
`Level` does: the words waiting and the valid bits together never exceed the
depth, but by one in the clock in which a packet begins to leave. A word comes
at most every clock and a valid bit in the clock after a last word, in which no
word comes (`Pause`); while a packet leaves, a word goes every clock; and the
clock it takes to begin is paid for by the valid bit. What waits while pktout
stalls is counted by `StalledLevel`, by way of an injection: as many words as
its packet has belong to each last word (`PacketsNeedRoom`). All of it is about
one sequence, `Q`, the FIFO and the word on the wires to it: `Chained` says that
it is made of whole packets in order (in front of the n-th word of a packet are
its words before, as far as they have not left), `Closed` that only the packet
still coming in may lack its last word, `Balance` that the valid bits are the
last words in `Q` but that of the packet that leaves. `Discard` and `Wire` follow
a word from pgm to the FIFO, `Sending` says which word of its packet is in front
in each state. `Counting` ties the address of the counter to the packet that
leaves. With it `EngineCounts` shows that, where software clears the counter in
the clock in which the RAM is written, what stays is as if one had come after
the other.

**The switch.** `L2SwitchProofs` proves, for all sets of addresses and ports,
table sizes, life times, sleeps and lags: `TypeCorrect`; `NoAddressTwice`
(`OneEntryPerAddress`); `SettledStay` (`AgingSparesSettled`: an entry that is taken
has expired or was renewed since the walk began; one that is renewed between the
check and the clearing, `main_l2switch.c:291-294`, is lost). That no address
has two entries says nothing of the half-finished search of the receive thread,
in which the aging thread frees entries already passed; `EntryInv` adds what
the search has excluded so far (`Searched`), that the free entry it noted is
still free (`NotedIsFree`: nobody else fills one), and what it is filling
(`Filled`). `Decided` says of the entry about to be
cleared that it has expired or was renewed during this walk. Its second part adds what each walk has seen (`Renewing`, `FilledPort`,
`Sought`) and proves `SwitchLearns`: every step of the two threads is a step of
`LearningSwitch` or none.

**The flow table.** For the table and the statistics, every step of the
specification either adds a rule in a free slot, changes one in its own, takes
rules away, or leaves both alone (`Added`, `Modified` and so on), whatever the
registers are doing, and the invariants `TableInv` and `ReportInv` are kept by
each of these. That a slot found is one of the rule, and a free slot free, is
the content of the lemmas about the search (`LeastIn`, `ExistsFinds`). The
assumption `FirstObx = 1` is the numbering MODIFY_STRICT relies on, see 3.1: with
another one a modification changes which packets a rule matches, and
`UpdatesSeenWhole` fails as `ReportedIsInstalled` does. The statistics have one more
entry, that of the default action: `DefaultReported` says that only a message for the
controller sets it and only a restart removes it, and `DefaultInv` (below) that the
action is then the one it names.

`UpdatesSeenWhole` says what packets meet between any two register writes, so
its invariant `SeenInv` relates the engine, the table and every write still to
come. `Agrees` says that the engine treats the packets of a slot as a given
table does; `Writing` and `Deleting` say, of each slot, whether it agrees with
the table before or with the one after, and which write is missing. For a new
rule it takes an order: what `write_rule_normal` writes before the valid bit
(`BeforeValid`) is there when the bit is. For a new version of a rule it takes
`MatchByDigest`: key and mask are those of the digest by which the old one was
found, so only the action changes. For deletions no order is needed. `DefaultInv`
keeps the default action, which any of the messages may write, at what `ofp_init`
has set. `Initialising` covers a restart in the middle of any of this.

The writes of a call that walks over the table are joined by `FlattenSeq`, whose
definition is recursive; the lemma `Flattened` (the elements are those of the
parts) rests on the existence of the recursive function (`JoinExists`) and an
induction over its length. The library's induction takes an operator, which the
provers cannot instantiate; `AllNumbers` states it for a set and is proved from
the well-foundedness of the naturals.

**The agent.** `TurnIsKept` says that an answer that leaves is to the oldest request
of the session not yet answered, and that what is not yet answered is in hand. `Answer` keeps the rest in `astray`: an answer to
another request, or to one answered before. The first part, `NoneAstray`, says nothing
of why it is empty, so the invariant `TurnInv` relates all requests in hand to those owed.
`OpenAt` is the place in the queue from which on messages find the session open,
where it is open or will be: the first HELLO or FEATURES_REQUEST; `Opening` says
that once the controller has sent such a message it is there, or has been handled,
and that a request in hand is owed exactly if it is at such a place. The second part, `OwedInHand`,
adds that what is owed is in hand, in order, and each at one place: no request is dropped because the session is thought closed. So the request whose answer leaves is the head of `owed`, and one from
before the session opened, whose answer is dropped, is not in `owed` at all. There
is one lemma for each way in which queue and receiver change: a message comes
(`QueueGrows`, `PostMoves`), one is taken (`HeadMoves`, `TailOpens`), an answer
leaves (`HeadAnswered`, `AnswerKeeps`).

`ViewIsCurrent` follows what the update thread has found of a port from the
first look to the report; `~UpAtOnce` leaves out the link that comes up between
the first two looks, for which the property is false (`of_late`).

**The test program.** `TestInv` (`Tested`) says what the hardware can be doing
when the program is at each of its steps, after any number of kills: whatever a
killed run left, the reset of the next one comes before its packet.
`OwnResult` follows, and of `RunsAsAsked` that the registers are this run's: whatever
runs before a copy of its packet is sent, both halves of the time were written by it.
That the distance of two copies is one or two clocks more than asked is arithmetic on
`Pause` and `Period`; that `Period` is what the hardware does is `HeadsApart`, which
is model-checked on `PgmPace`. It holds where the pause fits its register
(`RateMod >= Farthest`): otherwise the code asks for the pause modulo the width.

No proof rests on anything but the named assumptions and the library's theorems.

**Only model-checked.** The refinements of `RegFile` and `BusFile`, `HeadsApart`,
`LinkReported` and `ProbesReturn`. Liveness and fairness are
out of the prover's reach: `TestCompletes`, `DeliversAsConveyor`,
`SilentAddressesAge`, `Recovers`, and the fair part of the refinements.

## 5. Plan

The order was: the generator; the pipeline; the chain; the switch, the flow
table and the agent; the test program; the output engine; the local bus. These
are done. What is left, in order of what it would add:

1. Proofs: that the chain implements `RegFile` but for fairness (an answer has the
   value of the register, and `WritesInv` says which that is); the refinement of
   `BusFile`, whose arbiter and blocks are finite but for their data.
2. The latency RAM of scm with the probe mode of pgm_rd (`pgm_rd.v:433`): the
   mode is run in `pgm_gaps`, but no promise about it is stated by the code.
3. `out_goe_alf` with gac in front of it, and a generator whose rate changes in a
   pause (`pgm_rd.v:403`).

## 6. Not modelled

* The counters behind the status registers of the local bus and the read-only
  counters of the chain: each adds one per packet, and nothing depends on it.
* `libams`, `ams`: the hardware they measure is not in the repository; their
  state is one module number. (`fast_ams_alloc` always returns 0, and an exit
  unregisters nothing, though `main_libams.c:57` says it should.)
* `tools/*`: each parses its arguments and makes one library call.
* `read_hw_rule`, `fast_reg_rd` and the search for the PCIe base address: reads of
  hardware no module here keeps.
* The bytes of OpenFlow messages, of packets, of keys and of the result files.
* Part reads and the loss of a connection in `libofp`: the code does not look at
  what `read` returns, so there is no promise to check.
* `pgm_token_bucket-version`, `scm_2.v`: not instantiated by `um.v`.
* Vendored IP and test benches.
