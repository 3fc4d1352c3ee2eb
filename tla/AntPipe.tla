------------------------------ MODULE AntPipe -------------------------------
(***************************************************************************)
(* um.v: the pipeline from pktin to gac.  The words of a packet go through *)
(* gpp and the data cache, its metadata through gpp, gke, gme and scm, and *)
(* gac joins the two streams again.  In every step all blocks take one     *)
(* clock; what lies outside chooses freely: when packets arrive and of     *)
(* which kind, when the matcher answers, when pgm has room, and when the   *)
(* software resets the statistics.                                         *)
(***************************************************************************)
EXTENDS Gpp, DataCache, Gme, Scm, Gac, FiniteSets

CONSTANTS
  Kinds,      \* the kinds of packets that may arrive: first, second, ...
  MaxPkts,    \* bound: packets that arrive
  Started,    \* whether a test has started: values of gac2scm_sent_start
  ProtoTypes, \* values of protocol_type
  MissIdx,    \* the index the matcher answers for the all-zero key
  ResetWhen   \* statistic_reset: "never", "quiet" (pipeline empty) or "any"

AllKinds == UNION {Kinds[i] : i \in DOMAIN Kinds}

ASSUME PipeAssumption ==
  /\ DataDepth \in Nat \ {0} /\ MdDepth \in Nat \ {0} /\ MdAlfAt \in Nat
  /\ DOMAIN Kinds = 1 .. MaxPkts
  /\ \A k \in AllKinds : k \in Kind /\ k.len >= 6 /\ k.idx \in Indices
  /\ Indices \subseteq Nat /\ {0, MissIdx} \subseteq Indices
  /\ \A i \in Indices : Table[i].arg \in Nat
  /\ SysMaxCpu \in 0 .. 63
  /\ MaxPkts \in Nat /\ Started \subseteq BOOLEAN
  /\ ProtoTypes \subseteq Psts
  /\ ResetWhen \in {"never", "quiet", "any"}

VARIABLES
  kinds,      \* the kinds of the packets so far: packet i is kinds[i]
  pin,        \* pktin_data, pktin_data_wr
  lookups,    \* keys the matcher has not answered
  answer,     \* its answer on the wires
  started     \* gac2scm_sent_start

envVars == <<kinds, pin, lookups, answer, started>>
vars == <<gppVars, dcVars, gkeVars, gmeVars, scmVars, gacVars, protoType,
          statReset, envVars>>

TypeOK ==
  /\ GppTypeOK /\ DcTypeOK /\ GkeTypeOK /\ GmeTypeOK /\ ScmTypeOK /\ GacTypeOK
  /\ kinds \in Seq(AllKinds) /\ Len(kinds) <= MaxPkts
  /\ pin \in Beat
  /\ lookups \in Seq(0 .. MaxPkts)
  /\ answer \in IdxBus
  /\ started \in BOOLEAN

Init ==
  /\ GppInit /\ DcInit /\ GkeInit /\ GmeInit /\ ScmInit /\ GacInit
  /\ kinds = <<>>
  /\ pin = Idle
  /\ lookups = <<>>
  /\ answer = NoAnswer
  /\ started \in Started
  /\ protoType \in ProtoTypes
-----------------------------------------------------------------------------
NoKind == [dmid |-> 0, eth |-> "other", proto |-> "other", len |-> 0,
           good |-> FALSE, idx |-> 0]
KindOf(p) == IF p = 0 THEN NoKind ELSE kinds[p]

\* pktin_data_valid: the packet whose last word is on the wires is good.
PinValid == IsTail(pin) /\ KindOf(pin.pkt).good

\* pktin_ready, which the ports look at between packets.
PktinReady == ~(DataAlf(dcFifo) \/ MdAlf(gmeMds) \/ MdAlf(gacMds))

InPacket(b) == b.wr /\ b.flag \in {"head", "body"}

PinContinue ==
  /\ InPacket(pin)
  /\ pin' = [pin EXCEPT !.seq = @ + 1,
                        !.flag = IF pin.seq + 2 = KindOf(pin.pkt).len
                                 THEN "tail" ELSE "body"]
  /\ UNCHANGED kinds

PinHead ==
  /\ ~InPacket(pin)
  /\ PktinReady
  /\ Len(kinds) < MaxPkts
  /\ \E k \in Kinds[Len(kinds) + 1] : kinds' = Append(kinds, k)
  /\ pin' = [wr |-> TRUE, flag |-> "head", pkt |-> Len(kinds) + 1, seq |-> 0]

PinPause ==
  /\ ~InPacket(pin)
  /\ pin' = Idle
  /\ UNCHANGED kinds

\* The matcher answers the oldest key, or lets it wait.
MatcherIdx(key) == IF key = 0 THEN MissIdx ELSE kinds[key].idx

Matcher(answers) ==
  LET asked == IF gmeKeyOut.wr THEN Append(lookups, gmeKeyOut.pkt)
                               ELSE lookups
  IN  \/ /\ answers /\ lookups # <<>>
         /\ answer' = [wr |-> TRUE, idx |-> MatcherIdx(Head(lookups))]
         /\ lookups' = Tail(asked)
      \/ /\ ~answers \/ lookups = <<>>
         /\ answer' = NoAnswer
         /\ lookups' = asked

\* Every block reads the wires as they were before the clock.
Hardware(alf) ==
  /\ GppClock(pin, PinValid, KindOf(pin.pkt))
  /\ DcClock(gppOut, gppVal, gppVwr, DataAlf(gacFifo))
  /\ GkeClock(gppMdOut)
  /\ GmeClock(gkeKeyOut, gkeMdOut, answer)
  /\ ScmClock(gmeMdOut, started)
  /\ GacClock(dcOut, dcVwr, scmMdOut, alf)

Clock(alf, answers) ==
  /\ PinContinue \/ PinHead \/ PinPause
  /\ Matcher(answers)
  /\ Hardware(alf)
  /\ UNCHANGED <<started, protoType>>

\* A packet is somewhere between pktin and gac's output.
Served(k) == k.good /\ Accepts(k.dmid)
Waiting == {i \in 1 .. Len(kinds) : i > gacHdr.pkt /\ Served(kinds[i])}

\* The software may hold the statistics in reset; in the careful case it
\* waits until the pipeline is empty and holds packets off meanwhile.
StatReset ==
  /\ statReset' \in BOOLEAN
  /\ statReset' => ResetWhen # "never"
  /\ statReset' /\ ResetWhen = "quiet" =>
       Waiting = {} /\ ~InPacket(pin) /\ pin' = Idle

Next ==
  \E alf, answers \in BOOLEAN : Clock(alf, answers) /\ StatReset

Spec == Init /\ [][Next]_vars

\* pgm does not refuse for ever and the matcher answers.
FairSpec == Spec /\ WF_vars(Clock(FALSE, TRUE) /\ StatReset)
-----------------------------------------------------------------------------
(***************************************************************************)
(* When gac sends the first word of a packet the metadata it takes for it  *)
(* are that packet's own, although words and metadata came by different    *)
(* ways, with rejected, invalid and unparsed packets between them.         *)
(***************************************************************************)
TakesMetadata == gacState = "METADATA" \/ (gacState = "TRANS" /\ gacMdRd)
Paired ==
  TakesMetadata => GacWord.flag = "head" /\ GacMd.pkt = GacWord.pkt

(***************************************************************************)
(* No FIFO is written when it is full, although the ports look at the      *)
(* almost-full signals only between packets and the blocks do not stop for *)
(* one another inside a packet.                                            *)
(***************************************************************************)
NoOverflow ==
  /\ gppOut.wr => Len(dcFifo) < DataDepth
  /\ dcOut.wr => Len(gacFifo) < DataDepth
  /\ gkeMdOut.wr => Len(gmeMds) < MdDepth
  /\ scmMdOut.wr => Len(gacMds) < MdDepth

(***************************************************************************)
(* Every packet that waits in gme for an index has exactly one key on its  *)
(* way to the matcher, in it, or answered, and no answer lacks its packet. *)
(***************************************************************************)
One(b) == IF b THEN 1 ELSE 0
Asking(mds) == {i \in 1 .. Len(mds) : mds[i].dmid = 3}
IndexBalance ==
  Len(lookups) + Len(gmeIdxs) + One(gmeKeyOut.wr) + One(answer.wr)
    = Cardinality(Asking(gmeMds))

(***************************************************************************)
(* The pipeline keeps the contract that the packet generator relies on:    *)
(* whole packets, no pause inside one, a pause after each.                 *)
(***************************************************************************)
Port == INSTANCE GacPort WITH
  Lens <- {k.len : k \in AllKinds}, MidGap <- FALSE, Numbers <- 1 .. MaxPkts
KeepsPortContract == Port!PortSpec

\* The numbers of S up to p, and the j-th number of S.
Upto(S, p) == {q \in S : q <= p}
Nth(S, j) == CHOOSE p \in S : Cardinality(Upto(S, p)) = j

(***************************************************************************)
(* The pipeline is a conveyor: packets leave once, in order, each with the *)
(* header its rule allows.  A packet of unknown Ethernet type may get the  *)
(* rule of the empty key or its own, and any protocol type: gpp keeps the  *)
(* type of the packet before it.                                           *)
(***************************************************************************)
OwnPst(k) ==
  IF k.eth # "ip" THEN k.eth
  ELSE IF k.proto \in {"tcp", "udp"} THEN k.proto ELSE "ip"

HeaderBy(i, p, cpu) ==
  [Action(Table[i], Idle, [NoMd EXCEPT !.pst = p], cpu) EXCEPT !.pkt = 0]

PstsOf(k) == IF k.eth = "other" THEN Psts ELSE {OwnPst(k)}
RulesOf(k) == CASE k.eth = "other" -> {k.idx, MissIdx}
                [] k.eth = "vlan"  -> {MissIdx}
                [] OTHER           -> {k.idx}

AllowedHeaders(k) ==
  CASE k.dmid = 1 -> {HeaderBy(i, p, cpu) :
                        i \in RulesOf(k), p \in PstsOf(k), cpu \in CpuIds}
    [] k.dmid = 7 -> {HeaderBy(k.idx, "raw", cpu) : cpu \in CpuIds}
    [] OTHER      -> {RawHdr(0)}

Belt == INSTANCE Conveyor WITH
  Kinds   <- AllKinds,
  Wanted  <- Served,
  Allowed <- AllowedHeaders,
  queue   <- [j \in 1 .. Cardinality(Waiting) |-> kinds[Nth(Waiting, j)]],
  left    <- IF gacHdr.pkt = 0 THEN [some |-> FALSE]
             ELSE [some |-> TRUE, kind |-> kinds[gacHdr.pkt],
                   hdr |-> [gacHdr EXCEPT !.pkt = 0]]
ImplementsConveyor == Belt!Spec

(***************************************************************************)
(* And it does not stop: if pgm takes packets again and again and the      *)
(* matcher answers, every packet to be served leaves, also one without a   *)
(* key layout and whatever waits in the FIFOs.                             *)
(***************************************************************************)
DeliversAsConveyor == Belt!FairSpec

(***************************************************************************)
(* When nothing is under way and the statistics were not reset, the count  *)
(* of packets is the number of packets of the type asked for, give or take *)
(* the ones whose Ethernet type gpp does not know; and nothing is counted  *)
(* while the generator has not started.                                    *)
(***************************************************************************)
Known(k) == Served(k) /\ k.dmid = 1 /\ k.eth # "other"
Counted(k) == Known(k) /\ OwnPst(k) = protoType
Unknown(k) == Served(k) /\ k.dmid = 1 /\ k.eth = "other"

CountedPkts == {p \in 1 .. Len(kinds) : Counted(kinds[p])}
UnknownPkts == {p \in 1 .. Len(kinds) : Unknown(kinds[p])}

CountsWhatPassed ==
  /\ started /\ Waiting = {} /\ ResetWhen = "never" /\ protoType # "raw" =>
       scmPkts - Cardinality(CountedPkts) \in 0 .. Cardinality(UnknownPkts)
  /\ ~started => scmPkts = 0

=============================================================================
