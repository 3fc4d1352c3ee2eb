--------------------------- MODULE AntPipeProofs ----------------------------
(***************************************************************************)
(* What is proved of the pipeline for any number of packets of any kinds.  *)
(***************************************************************************)
EXTENDS AntPipe, FiniteSetTheorems, FunctionTheorems, SequenceTheorems, TLAPS

\* The packets that came, and the words of one.
Pkts == 1 .. Len(kinds)
LastNo(p) == kinds[p].len - 1
PinWord(p, n) ==
  [wr |-> TRUE, pkt |-> p, seq |-> n,
   flag |-> IF n = 0 THEN "head" ELSE IF n = LastNo(p) THEN "tail" ELSE "body"]

\* The port shows a word of the last packet, or none.
Port1 ==
  pin = Idle \/ (kinds # <<>> /\ \E n \in 0 .. LastNo(Len(kinds)) :
                                    pin = PinWord(Len(kinds), n))

\* Inside a packet gpp knows whose words they are.
Parsing ==
  IF pin.seq = 0 THEN gppState = "IDLE"
  ELSE LET k == kinds[pin.pkt] IN
       /\ gppFlag = Accepts(k.dmid)
       /\ gppState = IF gppFlag THEN "TRANS" ELSE "DISCARD"
       /\ gppMd = [pkt |-> pin.pkt, dmid |-> k.dmid, len |-> k.len,
                   idx |-> IF k.dmid = 1 THEN NoIdx ELSE k.idx]

\* Metadata are of a packet that came and is to be served.  They bear its
\* module, or mid when that is one of mine.
MdOf(ks, m, mine, mid) ==
  /\ m \in Md /\ m.pkt \in 1 .. Len(ks) /\ Served(ks[m.pkt])
  /\ m.len = ks[m.pkt].len
  /\ m.dmid = IF ks[m.pkt].dmid \in mine THEN mid ELSE ks[m.pkt].dmid
MdUnmatched(ks, m, mid) ==
  /\ MdOf(ks, m, {1}, mid)
  /\ m.idx = IF ks[m.pkt].dmid = 1 THEN NoIdx ELSE ks[m.pkt].idx

\* Behind the matcher all have an index.
MdMatched(ks, m, mine, mid) == MdOf(ks, m, mine, mid) /\ m.idx \in Indices

Read(m) == MdUnmatched(kinds, m, 2)
Keyed(m) == MdUnmatched(kinds, m, 3)
Joined(m) == MdMatched(kinds, m, {1}, 7)
Left(m) == MdMatched(kinds, m, {1, 7}, 4)

Metadata ==
  /\ gppMdOut.wr => Read(gppMdOut)
  /\ gkeMdDly.wr => Read(gkeMdDly)
  /\ gkeMdOut.wr => Keyed(gkeMdOut)
  /\ \A i \in 1 .. Len(gmeMds) : Keyed(gmeMds[i])
  /\ gmeMdOut.wr => Joined(gmeMdOut)
  /\ scmMdOut.wr => Left(scmMdOut)
  /\ \A i \in 1 .. Len(gacMds) : Left(gacMds[i])

\* A key is with its metadata until both are in gme.
Keys ==
  /\ (gkeSwitch # "off") = (gkeMdDly.wr /\ gkeMdDly.dmid = 2)
  /\ gkeSwitch = "fields" => gkeFields = gkeMdDly.pkt
  /\ gkeKeyOut.wr = (gkeMdOut.wr /\ gkeMdOut.dmid = 3)
  /\ gkeKeyOut.pkt \in {0} \cup Pkts /\ gmeKeyOut.pkt \in {0} \cup Pkts
  /\ lookups \in Seq({0} \cup Pkts)

\* An index is there when one is taken.
Joining ==
  /\ gmeRd = (gmeState = "data")
  /\ gmeIdxRd = (gmeState = "data" /\ gmeFlag)
  /\ gmeState = "data" => /\ gmeMds # <<>> /\ gmeFlag = (GmeHead.dmid = 3)
                          /\ gmeFlag => gmeIdxs # <<>>

\* Metadata on their way to gme: packets are longer than the way.
Spaced ==
  /\ gppMdOut.wr => pin.seq = 0
  /\ gkeMdDly.wr => pin.seq <= 1 /\ ~gppMdOut.wr
  /\ gkeMdOut.wr => pin.seq <= 2 /\ ~gppMdOut.wr /\ ~gkeMdDly.wr

MdLevel ==
  Len(gmeMds) + One(gppMdOut.wr) + One(gkeMdDly.wr) + One(gkeMdOut.wr)
    + One(pin.wr) <= MdAlfAt + 2

MdRoom == MdAlfAt + 2 < MdDepth

Rules ==
  /\ \A i \in 1 .. Len(gmeIdxs) : gmeIdxs[i] \in Indices
  /\ answer.idx \in Indices \/ ~answer.wr
  /\ gacCore \in {Table[i] : i \in Indices} /\ gacQ \in {Table[i] : i \in Indices}

FrontInv == TypeOK /\ Port1 /\ Parsing /\ Metadata /\ Keys /\ Joining /\ Rules
-----------------------------------------------------------------------------
(***************************************************************************)
(* FIFOs.                                                                  *)
(***************************************************************************)

LEMMA AppendIs ==
  ASSUME NEW S, NEW q \in Seq(S), NEW d \in S
  PROVE  /\ Append(q, d) \in Seq(S) /\ Len(Append(q, d)) = Len(q) + 1
         /\ Append(q, d) # <<>>
<1>1. Append(q, d) \in Seq(S) /\ Len(Append(q, d)) = Len(q) + 1
      /\ Len(q) \in Nat
  OBVIOUS
<1>2. QED
  BY <1>1, EmptySeq

\* A record of metadata for another module.
LEMMA MdTo ==
  ASSUME NEW m \in Md, NEW d \in Mids
  PROVE  /\ [m EXCEPT !.dmid = d] \in Md
         /\ [m EXCEPT !.dmid = d] =
              [wr |-> m.wr, pkt |-> m.pkt, dmid |-> d, pst |-> m.pst,
               len |-> m.len, idx |-> m.idx]
<1>1. [m EXCEPT !.dmid = d] \in Md
  BY DEF Md
<1>2. [m EXCEPT !.dmid = d] =
              [wr |-> m.wr, pkt |-> m.pkt, dmid |-> d, pst |-> m.pst,
               len |-> m.len, idx |-> m.idx]
  BY DEF Md
<1>3. QED
  BY <1>1, <1>2

LEMMA FrontType ==
  ASSUME NEW S, NEW q \in Seq(S), NEW none
  PROVE  /\ q # <<>> => Front(q, none) = q[1] /\ q[1] \in S
         /\ q = <<>> => Front(q, none) = none
  BY DEF Front

LEMMA FifoType ==
  ASSUME NEW S, NEW q \in Seq(S), NEW rd \in BOOLEAN, NEW wr \in BOOLEAN, NEW d,
         wr => d \in S,
         NEW depth \in Nat
  PROVE  /\ FifoNext(q, rd, wr, d, depth) \in Seq(S)
         /\ Len(q) <= depth => Len(FifoNext(q, rd, wr, d, depth)) <= depth
<1> DEFINE p == IF rd /\ q # <<>> THEN Tail(q) ELSE q
           f == FifoNext(q, rd, wr, d, depth)
<1>1. p \in Seq(S) /\ Len(p) \in Nat /\ Len(p) <= Len(q) /\ Len(q) \in Nat
  BY EmptySeq
<1>0. f = IF wr /\ Len(q) < depth THEN Append(p, d) ELSE p
  BY DEF FifoNext
<1> HIDE DEF p, f
<1>2. CASE wr /\ Len(q) < depth
  <2>1. f = Append(p, d)
    BY <1>0, <1>2
  <2>2. Append(p, d) \in Seq(S) /\ Len(Append(p, d)) = Len(p) + 1
    BY <1>1, <1>2
  <2>3. QED
    <3>1. Len(f) <= depth
      BY <1>1, <1>2, <2>1, <2>2
    <3>2. f \in Seq(S)
      BY <2>1, <2>2, Zenon
    <3>3. QED
      BY <3>1, <3>2, Zenon DEF f
<1>3. CASE ~(wr /\ Len(q) < depth)
  <2>1. f = p
    BY <1>0, <1>3
  <2>2. QED
    BY <1>1, <2>1 DEF f
<1>4. QED
  BY <1>2, <1>3

\* If all that is in a FIFO is in T and what is written is, all stays in T.
LEMMA FifoAll ==
  ASSUME NEW S, NEW T, NEW q \in Seq(S), NEW rd \in BOOLEAN,
         NEW wr \in BOOLEAN, NEW d, wr => d \in S /\ d \in T, NEW depth,
         \A i \in 1 .. Len(q) : q[i] \in T,
         NEW f, f = FifoNext(q, rd, wr, d, depth)
  PROVE  \A i \in 1 .. Len(f) : f[i] \in T
<1> DEFINE p == IF rd /\ q # <<>> THEN Tail(q) ELSE q
<1>1. p \in Seq(S) /\ \A i \in 1 .. Len(p) : p[i] \in T
  <2>1. CASE rd /\ q # <<>>
    <3>1. /\ p = Tail(q) /\ Len(p) = Len(q) - 1 /\ Len(q) \in Nat
          /\ \A i \in 1 .. Len(p) : p[i] = q[i + 1]
      BY <2>1
    <3>2. \A i \in 1 .. Len(p) : i + 1 \in 1 .. Len(q)
      BY <3>1
    <3>3. QED
      BY <3>1, <3>2
  <2>2. CASE ~(rd /\ q # <<>>)
    BY <2>2
  <2>3. QED
    BY <2>1, <2>2
<1>2. f = IF wr /\ Len(q) < depth THEN Append(p, d) ELSE p
  BY DEF FifoNext
<1> HIDE DEF p
<1>3. CASE wr /\ Len(q) < depth
  <2>1. f = Append(p, d) /\ d \in S /\ d \in T
    BY <1>2, <1>3
  <2>2. ASSUME NEW i \in 1 .. Len(f), i # Len(p) + 1
        PROVE  f[i] = p[i] /\ i \in 1 .. Len(p)
    BY <1>1, <2>1, <2>2
  <2>3. f[Len(p) + 1] = d
    BY <1>1, <2>1
  <2>4. QED
    BY <1>1, <2>1, <2>2, <2>3
<1>4. CASE ~(wr /\ Len(q) < depth)
  BY <1>1, <1>2, <1>4
<1>5. QED
  BY <1>3, <1>4
-----------------------------------------------------------------------------
(***************************************************************************)
(* The port.                                                               *)
(***************************************************************************)

LEMMA KindType ==
  ASSUME NEW k \in AllKinds
  PROVE  /\ k \in Kind /\ k.len \in Nat /\ k.len >= 6 /\ k.idx \in Indices
         /\ k.dmid \in Mids /\ k.good \in BOOLEAN /\ k.idx \in Nat
         /\ k.eth \in EthTypes /\ k.proto \in {"tcp", "udp", "other"}
  BY PipeAssumption DEF Kind

LEMMA PinType ==
  ASSUME TypeOK, Port1
  PROVE  /\ pin.wr = FALSE => pin = Idle
         /\ pin.wr => /\ pin.pkt = Len(kinds) /\ pin.pkt \in Pkts
                      /\ kinds[pin.pkt] \in AllKinds
                      /\ pin.seq \in 0 .. LastNo(pin.pkt)
                      /\ pin = PinWord(pin.pkt, pin.seq)
                      /\ LastNo(pin.pkt) \in Nat /\ LastNo(pin.pkt) >= 5
                      /\ (pin.flag = "head") = (pin.seq = 0)
                      /\ (pin.flag = "tail") = (pin.seq = LastNo(pin.pkt))
                      /\ pin.flag \in {"head", "body", "tail"}
         /\ pin.wr \in BOOLEAN /\ pin.pkt \in {0} \cup Pkts
         /\ pin.seq \in Nat
         /\ ~pin.wr => pin.seq = 0 /\ pin.flag = "none"
<1>0. kinds \in Seq(AllKinds) /\ Len(kinds) \in Nat
  BY DEF TypeOK
<1>1. CASE pin = Idle
  BY <1>1 DEF Idle
<1>2. CASE kinds # <<>> /\ \E n \in 0 .. LastNo(Len(kinds)) :
                              pin = PinWord(Len(kinds), n)
  <2>1. PICK n \in 0 .. LastNo(Len(kinds)) : pin = PinWord(Len(kinds), n)
    BY <1>2
  <2>2. Len(kinds) \in Pkts /\ kinds[Len(kinds)] \in AllKinds
    BY <1>0, <1>2, EmptySeq DEF Pkts
  <2>3. LastNo(Len(kinds)) \in Nat /\ LastNo(Len(kinds)) >= 5
    BY <2>2, KindType DEF LastNo
  <2>4. /\ pin.wr = TRUE /\ pin.pkt = Len(kinds) /\ pin.seq = n
        /\ pin.flag = IF n = 0 THEN "head"
                      ELSE IF n = LastNo(Len(kinds)) THEN "tail" ELSE "body"
    BY <2>1 DEF PinWord
  <2>5. LastNo(pin.pkt) = LastNo(Len(kinds)) /\ kinds[pin.pkt] = kinds[Len(kinds)]
        /\ PinWord(pin.pkt, pin.seq) = PinWord(Len(kinds), n)
    BY <2>4, Zenon
  <2>6. /\ (pin.flag = "head") = (pin.seq = 0)
        /\ (pin.flag = "tail") = (pin.seq = LastNo(pin.pkt))
        /\ pin.flag \in {"head", "body", "tail"}
    BY <2>3, <2>4, <2>5
  <2>7. /\ pin.pkt = Len(kinds) /\ pin.pkt \in Pkts
        /\ kinds[pin.pkt] \in AllKinds
        /\ pin.seq \in 0 .. LastNo(pin.pkt)
        /\ pin = PinWord(pin.pkt, pin.seq)
        /\ LastNo(pin.pkt) \in Nat /\ LastNo(pin.pkt) >= 5
    BY <2>1, <2>2, <2>3, <2>4, <2>5, Zenon
  <2>8. pin.wr \in BOOLEAN /\ pin.pkt \in {0} \cup Pkts /\ pin.seq \in Nat
    <3>1. pin.pkt \in {0} \cup Pkts
      BY <2>7, Zenon
    <3>2. pin.seq \in Nat
      BY <2>3, <2>4
    <3>3. QED
      BY <2>4, <3>1, <3>2
  <2>9. QED
    BY <2>4, <2>6, <2>7, <2>8
<1>3. QED
  BY <1>1, <1>2 DEF Port1

\* Packets that came keep their numbers.
LEMMA KindsGrow ==
  ASSUME TypeOK, PinContinue \/ PinHead \/ PinPause
  PROVE  /\ Pkts \subseteq Pkts' /\ \A i \in Pkts : kinds'[i] = kinds[i]
         /\ \A i \in Pkts : kinds[i] \in AllKinds
         /\ Len(kinds)' \in Nat
<1>0. kinds \in Seq(AllKinds) /\ Len(kinds) \in Nat
      /\ \A i \in Pkts : kinds[i] \in AllKinds
  BY DEF TypeOK, Pkts
<1>1. CASE kinds' = kinds
  BY <1>0, <1>1 DEF Pkts
<1>2. CASE PinHead
  <2>1. PICK k \in Kinds[Len(kinds) + 1] : kinds' = Append(kinds, k)
    BY <1>2 DEF PinHead
  <2>2. Len(kinds') = Len(kinds) + 1 /\ \A i \in Pkts : kinds'[i] = kinds[i]
    BY <1>0, <2>1 DEF Pkts
  <2>3. QED
    BY <1>0, <2>2 DEF Pkts
<1>3. QED
  BY <1>1, <1>2 DEF PinContinue, PinPause

\* The next word on the port.
LEMMA PortMoves ==
  ASSUME TypeOK, Port1, PinContinue \/ PinHead \/ PinPause
  PROVE  /\ Port1'
         /\ kinds' \in Seq(AllKinds) /\ Len(kinds') <= MaxPkts
         /\ pin' \in Beat
         /\ InPacket(pin) => /\ pin'.wr /\ pin'.pkt = pin.pkt
                             /\ pin'.seq = pin.seq + 1 /\ kinds' = kinds
         /\ ~InPacket(pin) => pin'.seq = 0
         /\ InPacket(pin) = (pin.wr /\ pin.seq < LastNo(pin.pkt))
<1>0. /\ kinds \in Seq(AllKinds) /\ Len(kinds) \in Nat /\ Len(kinds) <= MaxPkts
      /\ pin \in Beat /\ MaxPkts \in Nat
  BY PipeAssumption DEF TypeOK
<1>1. InPacket(pin) = (pin.wr /\ pin.seq < LastNo(pin.pkt))
  <2>1. CASE pin.wr
    BY <2>1, PinType DEF InPacket
  <2>2. CASE ~pin.wr
    BY <2>2, PinType DEF InPacket
  <2>3. QED
    BY <2>1, <2>2
<1>2. CASE PinContinue
  <2>1. /\ pin.wr /\ pin.pkt = Len(kinds) /\ pin.pkt \in Pkts /\ kinds # <<>>
        /\ pin.seq \in 0 .. LastNo(pin.pkt) /\ pin.seq < LastNo(pin.pkt)
        /\ LastNo(pin.pkt) \in Nat /\ kinds' = kinds
        /\ kinds[pin.pkt] \in AllKinds
    <3>1. InPacket(pin) /\ kinds' = kinds
      BY <1>2 DEF PinContinue
    <3>2. pin.wr /\ pin.seq < LastNo(pin.pkt)
      BY <1>1, <3>1
    <3>3. /\ pin.pkt = Len(kinds) /\ pin.pkt \in Pkts
          /\ pin.seq \in 0 .. LastNo(pin.pkt) /\ LastNo(pin.pkt) \in Nat
          /\ kinds[pin.pkt] \in AllKinds
      BY <3>2, PinType, Zenon
    <3>4. kinds # <<>>
      BY <1>0, <3>3, EmptySeq DEF Pkts
    <3>5. QED
      BY <3>1, <3>2, <3>3, <3>4
  <2>2. KindOf(pin.pkt) = kinds[pin.pkt] /\ kinds[pin.pkt].len \in Nat
    BY <2>1, KindType DEF KindOf, Pkts
  <2>3. (pin.seq + 2 = KindOf(pin.pkt).len) = (pin.seq + 1 = LastNo(pin.pkt))
    BY <2>1, <2>2 DEF LastNo
  <2>4. pin.seq + 1 \in 0 .. LastNo(pin.pkt) /\ pin.seq + 1 # 0
    BY <2>1
  <2>5. pin' = [wr |-> TRUE, pkt |-> pin.pkt, seq |-> pin.seq + 1,
                flag |-> IF pin.seq + 1 = LastNo(pin.pkt) THEN "tail" ELSE "body"]
    BY <1>0, <1>2, <2>1, <2>3 DEF PinContinue, Beat
  <2>6. pin' = PinWord(Len(kinds), pin.seq + 1)
    BY <2>1, <2>4, <2>5 DEF PinWord
  <2>7. Port1'
    BY <2>1, <2>4, <2>6 DEF Port1, PinWord, LastNo
  <2>8. pin' \in Beat
    BY <1>0, <2>1, <2>4, <2>5 DEF Beat, Flags
  <2>9. pin'.wr /\ pin'.pkt = pin.pkt /\ pin'.seq = pin.seq + 1
    BY <2>5
  <2>10. InPacket(pin)
    BY <1>2 DEF PinContinue
  <2>11. QED
    BY <1>0, <1>1, <2>1, <2>7, <2>8, <2>9, <2>10
<1>3. CASE PinHead
  <2>1. PICK k \in Kinds[Len(kinds) + 1] : kinds' = Append(kinds, k)
    BY <1>3 DEF PinHead
  <2>2. Len(kinds) < MaxPkts /\ Len(kinds) + 1 \in 1 .. MaxPkts
    BY <1>0, <1>3 DEF PinHead
  <2>3. k \in AllKinds
    BY <2>2, PipeAssumption DEF AllKinds
  <2>4. /\ kinds' \in Seq(AllKinds) /\ Len(kinds') = Len(kinds) + 1
        /\ kinds' # <<>> /\ kinds'[Len(kinds')] = k
    BY <1>0, <2>1, <2>3
  <2>5. pin' = [wr |-> TRUE, flag |-> "head", pkt |-> Len(kinds'), seq |-> 0]
    BY <1>3, <2>4 DEF PinHead
  <2>6. k.len - 1 \in Nat
    BY <2>3, KindType
  <2>7. Port1'
    <3>1. kinds'[Len(kinds')].len - 1 \in Nat
      BY <2>4, <2>6, Zenon
    <3>2. 0 \in 0 .. kinds'[Len(kinds')].len - 1
      BY <3>1
    <3>3. pin' = PinWord(Len(kinds), 0)'
      BY <2>5 DEF PinWord
    <3>4. QED
      BY <2>4, <3>2, <3>3 DEF Port1, LastNo
  <2>8. pin' \in Beat /\ pin'.seq = 0
    BY <1>0, <2>4, <2>5 DEF Beat, Flags
  <2>9. ~InPacket(pin)
    BY <1>3 DEF PinHead
  <2>10. QED
    BY <1>0, <1>1, <2>2, <2>4, <2>7, <2>8, <2>9
<1>4. CASE PinPause
  <2>1. pin' = Idle /\ kinds' = kinds /\ ~InPacket(pin)
    BY <1>4 DEF PinPause
  <2>2. Port1' /\ pin' \in Beat /\ pin'.seq = 0
    BY <2>1 DEF Port1, Idle, Beat, Flags
  <2>3. QED
    BY <1>0, <1>1, <2>1, <2>2
<1>5. QED
  BY <1>2, <1>3, <1>4
-----------------------------------------------------------------------------
(***************************************************************************)
(* gpp and gke.                                                            *)
(***************************************************************************)

\* What gpp knows of the word on the port.
LEMMA PinKind ==
  ASSUME TypeOK, Port1
  PROVE  /\ pin.wr => /\ KindOf(pin.pkt) = kinds[pin.pkt]
                      /\ KindOf(pin.pkt) \in AllKinds
                      /\ PinValid = (pin.seq = LastNo(pin.pkt)
                                       /\ kinds[pin.pkt].good)
         /\ ~pin.wr => ~PinValid
<1>1. CASE pin.wr
  <2>1. pin.pkt \in Pkts /\ kinds[pin.pkt] \in AllKinds
        /\ (pin.flag = "tail") = (pin.seq = LastNo(pin.pkt))
    BY <1>1, PinType, Zenon
  <2>2. pin.pkt # 0
    BY <2>1 DEF Pkts, TypeOK
  <2>3. KindOf(pin.pkt) = kinds[pin.pkt]
    BY <2>2 DEF KindOf
  <2>4. IsTail(pin) = (pin.seq = LastNo(pin.pkt))
    BY <1>1, <2>1, Zenon DEF IsTail
  <2>5. kinds[pin.pkt].good \in BOOLEAN
    BY <2>1, KindType
  <2>6. PinValid = (pin.seq = LastNo(pin.pkt) /\ kinds[pin.pkt].good)
    BY <2>3, <2>4, <2>5 DEF PinValid
  <2>7. QED
    BY <1>1, <2>1, <2>3, <2>6, Zenon
<1>2. CASE ~pin.wr
  BY <1>2 DEF PinValid, IsTail
<1>3. QED
  BY <1>1, <1>2

\* gpp follows the words of a packet.
LEMMA ParsingKept ==
  ASSUME TypeOK, Port1, Parsing, PinContinue \/ PinHead \/ PinPause,
         GppClock(pin, PinValid, KindOf(pin.pkt))
  PROVE  Parsing'
<1> DEFINE k == kinds[pin.pkt]
<1>1. CASE InPacket(pin)
  <2>1. /\ pin.wr /\ pin.seq < LastNo(pin.pkt) /\ kinds' = kinds
        /\ pin'.pkt = pin.pkt /\ pin'.seq = pin.seq + 1
    BY <1>1, PortMoves, Zenon
  <2>2. /\ KindOf(pin.pkt) = k /\ pin.seq \in Nat
        /\ (pin.flag = "head") = (pin.seq = 0) /\ pin.flag # "tail"
        /\ pin.seq \in 0 .. LastNo(pin.pkt) /\ LastNo(pin.pkt) \in Nat
    <3>1. /\ KindOf(pin.pkt) = k /\ pin.seq \in Nat
          /\ (pin.flag = "head") = (pin.seq = 0)
          /\ (pin.flag = "tail") = (pin.seq = LastNo(pin.pkt))
          /\ pin.seq \in 0 .. LastNo(pin.pkt) /\ LastNo(pin.pkt) \in Nat
      BY <2>1, PinType, PinKind, Zenon
    <3>2. QED
      BY <2>1, <3>1
  <2>3. gppMd' = [pkt |-> pin.pkt, dmid |-> k.dmid, len |-> k.len,
                  idx |-> IF k.dmid = 1 THEN NoIdx ELSE k.idx]
    <3>1. CASE pin.seq = 0
      <4>1. StepNow(pin) = 0
        BY <2>2, <3>1 DEF StepNow
      <4>2. QED
        BY <2>1, <2>2, <4>1 DEF GppClock, GppParse
    <3>2. CASE pin.seq # 0
      <4>1. gppMd = [pkt |-> pin.pkt, dmid |-> k.dmid, len |-> k.len,
                     idx |-> IF k.dmid = 1 THEN NoIdx ELSE k.idx]
        BY <3>2 DEF Parsing
      <4>2. QED
        BY <2>2, <4>1 DEF GppClock, GppParse
    <3>3. QED
      BY <3>1, <3>2
  <2>4. /\ gppFlag' = Accepts(k.dmid)
        /\ gppState' = IF gppFlag' THEN "TRANS" ELSE "DISCARD"
    <3>1. CASE pin.seq = 0
      <4>1. gppState = "IDLE" /\ IsHead(pin)
        BY <2>1, <2>2, <3>1 DEF Parsing, IsHead
      <4>2. Accepts(k.dmid) \in BOOLEAN
        BY DEF Accepts
      <4>3. QED
        BY <2>2, <4>1, <4>2 DEF GppClock, GppForward
    <3>2. CASE pin.seq # 0
      <4>1. /\ gppFlag = Accepts(k.dmid)
            /\ gppState = IF gppFlag THEN "TRANS" ELSE "DISCARD"
        BY <3>2 DEF Parsing
      <4>2. QED
        BY <2>2, <4>1 DEF GppClock, GppForward
    <3>3. QED
      BY <3>1, <3>2
  <2>5. pin'.seq # 0
    BY <2>1, <2>2
  <2>6. kinds'[pin'.pkt] = k
    BY <2>1
  <2>7. QED
    BY <2>1, <2>3, <2>4, <2>5, <2>6 DEF Parsing
<1>2. CASE ~InPacket(pin)
  <2>1. pin'.seq = 0
    BY <1>2, PortMoves, Zenon
  <2>2. gppState' = "IDLE"
    <3>1. CASE pin.wr
      <4>1. pin.seq = LastNo(pin.pkt) /\ pin.flag = "tail" /\ pin.seq # 0
        <5>1. ~(pin.seq < LastNo(pin.pkt)) /\ pin.seq \in 0 .. LastNo(pin.pkt)
              /\ LastNo(pin.pkt) \in Nat /\ LastNo(pin.pkt) >= 5
              /\ (pin.flag = "tail") = (pin.seq = LastNo(pin.pkt))
          BY <1>2, <3>1, PortMoves, PinType, Zenon
        <5>2. QED
          BY <5>1
      <4>2. gppState \in {"TRANS", "DISCARD"}
        BY <4>1 DEF Parsing
      <4>3. QED
        BY <4>1, <4>2 DEF GppClock, GppForward
    <3>2. CASE ~pin.wr
      <4>1. pin.seq = 0
        BY <3>2, PinType, Zenon
      <4>2. gppState = "IDLE" /\ ~IsHead(pin)
        BY <3>2, <4>1 DEF Parsing, IsHead
      <4>3. QED
        BY <4>2 DEF GppClock, GppForward
    <3>3. QED
      BY <3>1, <3>2
  <2>3. QED
    BY <2>1, <2>2 DEF Parsing
<1>3. QED
  BY <1>1, <1>2


\* What is true of metadata stays true when more packets come.
LEMMA MdStay ==
  ASSUME NEW ks, NEW ls, 1 .. Len(ks) \subseteq 1 .. Len(ls),
         \A i \in 1 .. Len(ks) : ls[i] = ks[i], NEW m, NEW mine, NEW mid
  PROVE  /\ MdOf(ks, m, mine, mid) => MdOf(ls, m, mine, mid)
         /\ MdUnmatched(ks, m, mid) => MdUnmatched(ls, m, mid)
         /\ MdMatched(ks, m, mine, mid) => MdMatched(ls, m, mine, mid)
<1>1. ASSUME MdOf(ks, m, mine, mid) PROVE ls[m.pkt] = ks[m.pkt]
  BY <1>1 DEF MdOf
<1>2. ASSUME MdUnmatched(ks, m, mid) PROVE ls[m.pkt] = ks[m.pkt]
  BY <1>2 DEF MdUnmatched, MdOf
<1>3. MdOf(ks, m, mine, mid) => MdOf(ls, m, mine, mid)
  BY <1>1 DEF MdOf
<1>4. MdUnmatched(ks, m, mid) => MdUnmatched(ls, m, mid)
  BY <1>2 DEF MdUnmatched, MdOf
<1>5. QED
  BY <1>3, <1>4 DEF MdMatched

LEMMA MdStayHere ==
  ASSUME TypeOK, PinContinue \/ PinHead \/ PinPause, NEW m, NEW mine, NEW mid
  PROVE  /\ MdUnmatched(kinds, m, mid) => MdUnmatched(kinds', m, mid)
         /\ MdMatched(kinds, m, mine, mid) => MdMatched(kinds', m, mine, mid)
<1>1. 1 .. Len(kinds) \subseteq 1 .. Len(kinds')
      /\ \A i \in 1 .. Len(kinds) : kinds'[i] = kinds[i]
  BY KindsGrow DEF Pkts
<1>2. QED
  BY <1>1, MdStay

\* Modules of packets to be served, and what gpp and gke make of them.
LEMMA MdModules ==
  ASSUME TypeOK, NEW m, NEW mid \in {2, 3}, MdUnmatched(kinds, m, mid)
  PROVE  /\ m \in Md /\ m.pkt \in Pkts /\ kinds[m.pkt] \in AllKinds
         /\ kinds[m.pkt].dmid = 1 \/ kinds[m.pkt].dmid > 4
         /\ kinds[m.pkt].dmid \in 0 .. 255
         /\ (m.dmid = mid) = (kinds[m.pkt].dmid = 1)
         /\ m.dmid \in {2, 3} => m.dmid = mid
         /\ m.dmid # mid => m.dmid = kinds[m.pkt].dmid
         /\ kinds[m.pkt].dmid # 1 => m.idx \in Indices
<1>1. /\ m \in Md /\ m.pkt \in Pkts /\ Served(kinds[m.pkt])
      /\ m.dmid = IF kinds[m.pkt].dmid = 1 THEN mid ELSE kinds[m.pkt].dmid
      /\ m.idx = IF kinds[m.pkt].dmid = 1 THEN NoIdx ELSE kinds[m.pkt].idx
  BY DEF MdUnmatched, MdOf, Pkts
<1>2. kinds[m.pkt] \in AllKinds
  BY <1>1 DEF TypeOK, Pkts
<1>3. kinds[m.pkt].dmid \in 0 .. 255 /\ kinds[m.pkt].idx \in Indices
  BY <1>2, KindType DEF Mids
<1>4. kinds[m.pkt].dmid = 1 \/ kinds[m.pkt].dmid > 4
  BY <1>1 DEF Served, Accepts
<1>5. QED
  BY <1>1, <1>2, <1>3, <1>4, SMTT(30)

LEMMA GppTyped ==
  ASSUME TypeOK, Port1, GppClock(pin, PinValid, KindOf(pin.pkt))
  PROVE  GppTypeOK'
<1> DEFINE k == KindOf(pin.pkt)
<1>0. GppTypeOK /\ pin \in Beat
  BY DEF TypeOK
<1>1. PinValid \in BOOLEAN
  <2>1. pin.wr \in BOOLEAN
    BY <1>0 DEF Beat
  <2>2. CASE pin.wr
    <3>1. k \in AllKinds
      BY <2>2, PinKind
    <3>2. k.good \in BOOLEAN
      BY <3>1, KindType
    <3>3. QED
      BY <2>1, <3>2 DEF PinValid, IsTail
  <2>3. CASE ~pin.wr
    BY <2>1, <2>3 DEF PinValid, IsTail
  <2>4. QED
    BY <2>2, <2>3
<1>2. pin.wr => /\ k.dmid \in Mids /\ k.len \in Nat /\ k.idx \in Nat
                /\ k.eth \in EthTypes /\ k.proto \in {"tcp", "udp", "other"}
  BY PinKind, KindType
<1>3. [pin EXCEPT !.wr = TRUE] \in Beat /\ Idle \in Beat
      /\ [gppOut EXCEPT !.wr = FALSE] \in Beat
  BY <1>0 DEF GppTypeOK, Beat, Idle, Flags
<1>4. /\ gppState' \in {"IDLE", "TRANS", "DISCARD"} /\ gppFlag' \in BOOLEAN
      /\ gppOut' \in Beat /\ gppVal' \in BOOLEAN /\ gppVwr' \in BOOLEAN
  BY <1>0, <1>1, <1>3 DEF GppClock, GppForward, GppTypeOK
<1>5. gppStep' \in 0 .. 255
  BY <1>0 DEF GppClock, GppParse, StepNow, GppTypeOK
<1>6. gppMd' \in [pkt : Nat, dmid : Mids, len : Nat, idx : Nat \cup {NoIdx}]
  <2>1. CASE gppMd' = gppMd
    BY <1>0, <2>1 DEF GppTypeOK
  <2>2. CASE pin.wr /\ gppMd' = [pkt |-> pin.pkt, dmid |-> k.dmid, len |-> k.len,
                       idx |-> IF k.dmid = 1 THEN NoIdx ELSE k.idx]
    <3>1. pin.pkt \in Nat /\ (IF k.dmid = 1 THEN NoIdx ELSE k.idx) \in Nat \cup {NoIdx}
      BY <1>0, <1>2, <2>2 DEF Beat
    <3>2. QED
      BY <1>2, <2>2, <3>1
  <2>3. QED
    BY <2>1, <2>2 DEF GppClock, GppParse
<1>7. gppEth' \in {"none"} \cup EthTypes
      /\ gppProto' \in {"none", "tcp", "udp", "other"}
  BY <1>0, <1>2 DEF GppClock, GppParse, GppTypeOK
<1>8. gppPst' \in Psts
  BY <1>0 DEF GppClock, GppProtocol, GppTypeOK, Psts
<1>9. gppMdOut' \in Md
  <2>1. (gppFlag /\ PinValid) \in BOOLEAN
    OBVIOUS
  <2>2. MdNow(gppFlag /\ PinValid) \in Md
    BY <1>0, <2>1 DEF MdNow, Md, GppTypeOK, Psts, Mids
  <2>3. QED
    BY <2>2 DEF GppClock, GppMetadata
<1>10. QED
  BY <1>4, <1>5, <1>6, <1>7, <1>8, <1>9 DEF GppTypeOK


\* gpp sends metadata of a packet to be served with its last word.
LEMMA GppReads ==
  ASSUME TypeOK, Port1, Parsing, PinContinue \/ PinHead \/ PinPause,
         GppClock(pin, PinValid, KindOf(pin.pkt)), gppMdOut'.wr
  PROVE  /\ MdUnmatched(kinds', gppMdOut', 2)
         /\ pin.wr /\ pin.seq = LastNo(pin.pkt) /\ gppMdOut'.pkt = pin.pkt
         /\ Served(kinds[pin.pkt])
<1> DEFINE k == kinds[pin.pkt]
<1>1. gppMdOut' = MdNow(gppFlag /\ PinValid)
  BY DEF GppClock, GppMetadata
<1>2. gppFlag /\ PinValid
  BY <1>1 DEF MdNow
<1>3. pin.wr /\ pin.seq = LastNo(pin.pkt) /\ k.good
  BY <1>2, PinKind
<1>4. pin.pkt \in Pkts /\ k \in AllKinds /\ pin.seq \in Nat
      /\ LastNo(pin.pkt) >= 5 /\ LastNo(pin.pkt) \in Nat
  BY <1>3, PinType, Zenon
<1>5. pin.seq # 0
  BY <1>3, <1>4
<1>6. /\ gppFlag = Accepts(k.dmid)
      /\ gppMd = [pkt |-> pin.pkt, dmid |-> k.dmid, len |-> k.len,
                  idx |-> IF k.dmid = 1 THEN NoIdx ELSE k.idx]
  BY <1>5 DEF Parsing
<1>7. Served(k)
  BY <1>2, <1>3, <1>6 DEF Served
<1>8. gppMdOut' \in Md
  BY GppTyped DEF GppTypeOK
<1>9. /\ gppMdOut'.pkt = pin.pkt /\ gppMdOut'.len = k.len
      /\ gppMdOut'.dmid = IF k.dmid = 1 THEN 2 ELSE k.dmid
      /\ gppMdOut'.idx = IF k.dmid = 1 THEN NoIdx ELSE k.idx
  BY <1>1, <1>6 DEF MdNow
<1>10. kinds'[pin.pkt] = k /\ pin.pkt \in 1 .. Len(kinds')
  BY <1>4, KindsGrow DEF Pkts
<1>11. MdUnmatched(kinds', gppMdOut', 2)
  BY <1>7, <1>8, <1>9, <1>10 DEF MdUnmatched, MdOf
<1>12. QED
  BY <1>3, <1>7, <1>9, <1>11

\* gke turns the parser's metadata into its own and keeps the others.
LEMMA GkeKeys ==
  ASSUME TypeOK, PinContinue \/ PinHead \/ PinPause, GkeClock(gppMdOut),
         gkeMdDly.wr, Read(gkeMdDly)
  PROVE  /\ gkeMdOut'.wr = gkeMdDly.wr /\ gkeMdOut'.pkt = gkeMdDly.pkt
         /\ gkeMdOut' \in Md
         /\ (gkeMdOut'.dmid = 3) = (gkeMdDly.dmid = 2)
         /\ MdUnmatched(kinds', gkeMdOut', 3)
<1> DEFINE m == gkeMdDly
           n == gkeMdOut'
<1>1. n = IF m.dmid = 2 THEN [m EXCEPT !.dmid = 3] ELSE m
  BY DEF GkeClock, GkeMetadata
<1>2. MdUnmatched(kinds, m, 2)
  BY DEF Read
<1>3. /\ m \in Md /\ (m.dmid = 2) = (kinds[m.pkt].dmid = 1) /\ m.dmid # 3
      /\ m.dmid # 2 => m.dmid = kinds[m.pkt].dmid
  <2>1. /\ m \in Md /\ (m.dmid = 2) = (kinds[m.pkt].dmid = 1)
        /\ m.dmid \in {2, 3} => m.dmid = 2
        /\ m.dmid # 2 => m.dmid = kinds[m.pkt].dmid
    BY <1>2, MdModules
  <2>2. QED
    BY <2>1
<1>4. [m EXCEPT !.dmid = 3] \in Md
      /\ [m EXCEPT !.dmid = 3] = [wr |-> m.wr, pkt |-> m.pkt, dmid |-> 3,
                        pst |-> m.pst, len |-> m.len, idx |-> m.idx]
  <2>1. 3 \in Mids
    BY DEF Mids
  <2>2. QED
    BY <1>3, <2>1, MdTo
<1>5. CASE m.dmid = 2
  <2>1. n \in Md /\ n.wr = m.wr /\ n.pkt = m.pkt /\ n.dmid = 3
        /\ n.len = m.len /\ n.idx = m.idx
    BY <1>1, <1>4, <1>5
  <2>2. MdUnmatched(kinds, n, 3)
    BY <1>2, <1>3, <1>5, <2>1 DEF MdUnmatched, MdOf
  <2>3. QED
    BY <1>5, <2>1, <2>2, MdStayHere
<1>6. CASE m.dmid # 2
  <2>1. n = m
    BY <1>1, <1>6
  <2>2. MdUnmatched(kinds, n, 3)
    BY <1>2, <1>3, <1>6, <2>1 DEF MdUnmatched, MdOf
  <2>3. n.dmid # 3
    BY <1>3, <2>1
  <2>4. QED
    BY <1>3, <1>6, <2>1, <2>2, <2>3, MdStayHere
<1>7. QED
  BY <1>5, <1>6

LEMMA GkeTyped ==
  ASSUME TypeOK, GkeClock(gppMdOut)
  PROVE  GkeTypeOK'
<1>0. GkeTypeOK /\ gppMdOut \in Md
  BY DEF TypeOK, GppTypeOK
<1>1. gkeMdDly' \in Md /\ gkeMdOut' \in Md
  <2>1. NoMd \in Md
    BY DEF NoMd, Md, Mids, Psts
  <2>2. [gkeMdDly EXCEPT !.dmid = 3] \in Md
    BY <1>0 DEF GkeTypeOK, Md, Mids
  <2>3. QED
    BY <1>0, <2>1, <2>2 DEF GkeClock, GkeMetadata, GkeTypeOK
<1>2. gkeFields' \in Nat /\ gkeSwitch' \in {"off", "zero", "fields"}
  <2>1. gppMdOut.pkt \in Nat
    BY <1>0 DEF Md
  <2>2. QED
    BY <1>0, <2>1 DEF GkeClock, GkeFetch, GkeTypeOK
<1>3. gkeKeyOut' \in KeyBus
  BY <1>0 DEF GkeClock, GkeKey, GkeTypeOK, KeyBus, NoKey
<1>4. QED
  BY <1>1, <1>2, <1>3 DEF GkeTypeOK

\* Keys stay with their metadata.
LEMMA KeysKept ==
  ASSUME TypeOK, Metadata, Keys, PinContinue \/ PinHead \/ PinPause,
         GkeClock(gppMdOut), GmeKey(gkeKeyOut, gkeMdOut),
         \E answers \in BOOLEAN : Matcher(answers)
  PROVE  Keys'
<1>0. /\ {0} \cup Pkts \subseteq ({0} \cup Pkts)'
      /\ gkeSwitch \in {"off", "zero", "fields"}
      /\ gkeMdDly \in Md /\ gppMdOut \in Md /\ gkeMdOut \in Md
      /\ gkeKeyOut \in KeyBus /\ gmeKeyOut \in KeyBus
  BY KindsGrow DEF TypeOK, GkeTypeOK, GppTypeOK, GmeTypeOK
<1>1. (gkeSwitch' # "off") = (gkeMdDly'.wr /\ gkeMdDly'.dmid = 2)
  <2>1. gppMdOut.wr \in BOOLEAN
    BY <1>0 DEF Md
  <2>2. QED
    BY <2>1 DEF GkeClock, GkeFetch, GkeMetadata
<1>2. gkeSwitch' = "fields" => gkeFields' = gkeMdDly'.pkt
  BY DEF GkeClock, GkeFetch, GkeMetadata
<1>3. gkeKeyOut'.wr = (gkeSwitch # "off")
  BY <1>0 DEF GkeClock, GkeKey, NoKey
<1>4. (gkeSwitch # "off") = (gkeMdDly.wr /\ gkeMdDly.dmid = 2)
  BY DEF Keys
<1>5. gkeKeyOut'.wr = (gkeMdOut'.wr /\ gkeMdOut'.dmid = 3)
  <2>1. CASE gkeMdDly.wr
    <3>1. Read(gkeMdDly)
      BY <2>1 DEF Metadata
    <3>2. gkeMdOut'.wr = gkeMdDly.wr /\ (gkeMdOut'.dmid = 3) = (gkeMdDly.dmid = 2)
      BY <2>1, <3>1, GkeKeys
    <3>3. QED
      BY <1>3, <1>4, <2>1, <3>2, Zenon
  <2>2. CASE ~gkeMdDly.wr
    <3>1. ~gkeMdOut'.wr
      BY <2>2 DEF GkeClock, GkeMetadata, NoMd
    <3>2. QED
      BY <1>3, <1>4, <2>2, <3>1
  <2>3. QED
    BY <2>1, <2>2
<1>6. gkeKeyOut'.pkt \in ({0} \cup Pkts)'
  <2>1. CASE gkeSwitch = "fields"
    <3>1. gkeMdDly.wr /\ gkeFields = gkeMdDly.pkt
      BY <1>4, <2>1 DEF Keys
    <3>2. gkeMdDly.pkt \in Pkts
      BY <3>1 DEF Metadata, Read, MdUnmatched, MdOf, Pkts
    <3>3. gkeKeyOut'.pkt = gkeFields
      BY <2>1 DEF GkeClock, GkeKey
    <3>4. QED
      BY <1>0, <3>1, <3>2, <3>3
  <2>2. CASE gkeSwitch # "fields"
    <3>1. gkeKeyOut'.pkt = 0
      BY <2>2 DEF GkeClock, GkeKey, NoKey
    <3>2. QED
      BY <1>0, <3>1
  <2>3. QED
    BY <2>1, <2>2
<1>7. gmeKeyOut'.pkt \in ({0} \cup Pkts)'
  <2>1. gmeKeyOut'.pkt = gkeKeyOut.pkt /\ gkeKeyOut.pkt \in {0} \cup Pkts
    BY DEF GmeKey, Keys
  <2>2. QED
    BY <1>0, <2>1
<1>8. lookups' \in Seq({0} \cup Pkts)'
  <2>1. /\ lookups \in Seq({0} \cup Pkts) /\ gmeKeyOut.pkt \in {0} \cup Pkts
    BY DEF Keys
  <2>2. Append(lookups, gmeKeyOut.pkt) \in Seq({0} \cup Pkts)
        /\ Append(lookups, gmeKeyOut.pkt) # <<>>
    BY <2>1, AppendIs
  <2>3. \A s \in Seq({0} \cup Pkts) : s # <<>> => Tail(s) \in Seq({0} \cup Pkts)
    OBVIOUS
  <2>4. lookups' \in Seq({0} \cup Pkts)
    BY <2>1, <2>2, <2>3 DEF Matcher
  <2>5. QED
    BY <1>0, <2>4
<1>9. QED
  BY <1>1, <1>2, <1>5, <1>6, <1>7, <1>8 DEF Keys
-----------------------------------------------------------------------------
(***************************************************************************)
(* gme.                                                                    *)
(***************************************************************************)

\* An entry more at the end leaves the first one first.
LEMMA AppendKeepsFirst ==
  ASSUME NEW S, NEW q \in Seq(S), NEW d \in S, q # <<>>
  PROVE  Append(q, d) # <<>> /\ Append(q, d)[1] = q[1]
  BY AppendIs, EmptySeq

LEMMA JoiningKept ==
  ASSUME TypeOK, Joining, GmeClock(gkeKeyOut, gkeMdOut, answer)
  PROVE  Joining'
<1>0. /\ gmeMds \in Seq(Md) /\ gmeIdxs \in Seq(Nat) /\ gmeState \in {"idle", "data"}
      /\ gmeRd \in BOOLEAN /\ gmeIdxRd \in BOOLEAN /\ gmeFlag \in BOOLEAN
      /\ gkeMdOut \in Md /\ answer.idx \in Nat
      /\ gkeMdOut.wr \in BOOLEAN /\ answer.wr \in BOOLEAN
  BY DEF TypeOK, GmeTypeOK, GkeTypeOK, IdxBus, Md
<1>1. CASE GmeSend
  <2>1. gmeState' = "idle" /\ gmeRd' = FALSE /\ gmeIdxRd' = FALSE
    BY <1>1 DEF GmeSend
  <2>2. QED
    BY <2>1 DEF Joining
<1>2. CASE GmeWait
  <2>1. gmeState = "idle" /\ gmeRd = FALSE /\ gmeIdxRd = FALSE
    BY <1>0, <1>2 DEF GmeWait, Joining
  <2>2. CASE gmeState' = "data"
    <3>1. /\ gmeMds # <<>> /\ gmeRd' = TRUE
          /\ gmeIdxRd' = gmeFlag' /\ gmeFlag' = (GmeHead.dmid = 3)
          /\ gmeFlag' => gmeIdxs # <<>>
      BY <1>2, <2>1, <2>2 DEF GmeWait
    <3>2. gmeMds' # <<>> /\ gmeMds'[1] = gmeMds[1]
      <4>1. gmeMds' = gmeMds \/ gmeMds' = Append(gmeMds, gkeMdOut)
        BY <2>1 DEF GmeClock, FifoNext
      <4>2. QED
        BY <1>0, <3>1, <4>1, AppendKeepsFirst, SMTT(30)
    <3>3. GmeHead = gmeMds[1]
      BY <3>1 DEF GmeHead, Front
    <3>4. GmeHead' = gmeMds'[1]
      BY <3>2 DEF GmeHead, Front
    <3>5. gmeFlag' => gmeIdxs' # <<>>
      <4>1. gmeIdxs' = gmeIdxs \/ gmeIdxs' = Append(gmeIdxs, answer.idx)
        BY <2>1 DEF GmeClock, FifoNext
      <4>2. QED
        BY <1>0, <3>1, <4>1, AppendKeepsFirst
    <3>6. GmeHead'.dmid = GmeHead.dmid
      BY <3>2, <3>3, <3>4, Zenon
    <3>7. gmeFlag' = (GmeHead'.dmid = 3)
      BY <3>1, <3>6, Zenon
    <3>8. QED
      BY <2>2, <3>1, <3>2, <3>5, <3>7 DEF Joining
  <2>3. CASE gmeState' # "data"
    <3>1. gmeRd' = FALSE /\ gmeIdxRd' = FALSE
      BY <1>2, <2>1, <2>3 DEF GmeWait
    <3>2. QED
      BY <2>3, <3>1 DEF Joining
  <2>4. QED
    BY <2>2, <2>3
<1>3. QED
  BY <1>1, <1>2 DEF GmeClock

\* What gme sends has its index.
LEMMA GmeJoins ==
  ASSUME TypeOK, Metadata, Joining, Rules,
         PinContinue \/ PinHead \/ PinPause,
         GmeClock(gkeKeyOut, gkeMdOut, answer)
  PROVE  /\ gmeMdOut' \in Md
         /\ gmeMdOut'.wr => MdMatched(kinds', gmeMdOut', {1}, 7)
         /\ gmeMdOut'.wr = (gmeState = "data")
         /\ gmeState = "data" => gmeMdOut'.pkt = gmeMds[1].pkt
<1>0. /\ gmeMds \in Seq(Md) /\ gmeIdxs \in Seq(Nat) /\ gmeFlag \in BOOLEAN
      /\ gmeState \in {"idle", "data"}
  BY DEF TypeOK, GmeTypeOK
<1>1. CASE gmeState = "idle"
  <2>1. gmeMdOut' = NoMd
    BY <1>1 DEF GmeClock, GmeWait, GmeSend
  <2>2. NoMd \in Md /\ NoMd.wr = FALSE
    BY DEF NoMd, Md, Mids, Psts
  <2>3. QED
    BY <1>1, <2>1, <2>2
<1>2. CASE gmeState = "data"
  <2> DEFINE m == gmeMds[1]
             i == gmeIdxs[1]
  <2>1. gmeMdOut' = GmeJoined
    BY <1>2 DEF GmeClock, GmeWait, GmeSend
  <2>2. gmeMds # <<>> /\ gmeFlag = (GmeHead.dmid = 3)
    BY <1>2 DEF Joining
  <2>3. GmeHead = m /\ m \in Md /\ 1 \in 1 .. Len(gmeMds)
    BY <1>0, <2>2, EmptySeq DEF GmeHead, Front
  <2>4. MdUnmatched(kinds, m, 3)
    BY <2>3 DEF Metadata, Keyed
  <2>5. /\ m.pkt \in Pkts /\ (m.dmid = 3) = (kinds[m.pkt].dmid = 1)
        /\ m.dmid # 3 => m.dmid = kinds[m.pkt].dmid
        /\ kinds[m.pkt].dmid # 1 => m.idx \in Indices
    BY <2>4, MdModules
  <2>6. Served(kinds[m.pkt]) /\ m.len = kinds[m.pkt].len
    BY <2>4 DEF MdUnmatched, MdOf
  <2>7. CASE gmeFlag
    <3>1. m.dmid = 3
      BY <2>2, <2>3, <2>7
    <3>2. gmeIdxs # <<>>
      BY <1>2, <2>7 DEF Joining
    <3>3. Front(gmeIdxs, 0) = i /\ i \in Nat /\ i \in Indices
      BY <1>0, <3>2, EmptySeq DEF Front, Rules
    <3>4. gmeMdOut' = [m EXCEPT !.wr = TRUE, !.dmid = 7, !.idx = i]
      BY <2>1, <2>3, <2>7, <3>3 DEF GmeJoined
    <3>5. gmeMdOut' = [wr |-> TRUE, pkt |-> m.pkt, dmid |-> 7, pst |-> m.pst,
                       len |-> m.len, idx |-> i]
      BY <2>3, <3>4 DEF Md
    <3>6. gmeMdOut' \in Md
      BY <2>3, <3>3, <3>5 DEF Md, Mids
    <3>7. MdMatched(kinds, gmeMdOut', {1}, 7)
      BY <2>5, <2>6, <3>1, <3>3, <3>5, <3>6 DEF MdMatched, MdOf, Pkts
    <3>8. QED
      BY <1>2, <3>5, <3>6, <3>7, MdStayHere
  <2>8. CASE ~gmeFlag
    <3>1. m.dmid # 3
      BY <2>2, <2>3, <2>8
    <3>2. gmeMdOut' = [m EXCEPT !.wr = TRUE]
      BY <2>1, <2>3, <2>8 DEF GmeJoined
    <3>3. gmeMdOut' = [wr |-> TRUE, pkt |-> m.pkt, dmid |-> m.dmid, pst |-> m.pst,
                       len |-> m.len, idx |-> m.idx]
      BY <2>3, <3>2 DEF Md
    <3>4. gmeMdOut' \in Md
      BY <2>3, <3>3 DEF Md
    <3>5. MdMatched(kinds, gmeMdOut', {1}, 7)
      BY <2>5, <2>6, <3>1, <3>3, <3>4 DEF MdMatched, MdOf, Pkts
    <3>6. QED
      BY <1>2, <3>3, <3>4, <3>5, MdStayHere
  <2>9. QED
    BY <1>0, <2>7, <2>8
<1>3. QED
  BY <1>0, <1>1, <1>2


LEMMA GmeTyped ==
  ASSUME TypeOK, Metadata, Joining, Rules,
         PinContinue \/ PinHead \/ PinPause,
         GmeClock(gkeKeyOut, gkeMdOut, answer)
  PROVE  GmeTypeOK'
<1>0. GmeTypeOK /\ GkeTypeOK /\ answer \in IdxBus /\ MdDepth \in Nat
  BY PipeAssumption DEF TypeOK
<1>1. gmeKeyOut' \in KeyBus
  <2>1. /\ (gkeKeyOut.wr /\ gkeMdOut.dmid = 3) \in BOOLEAN
        /\ gkeKeyOut.pkt \in Nat
    BY <1>0 DEF GkeTypeOK, KeyBus, Md, Mids
  <2>2. QED
    BY <2>1 DEF GmeClock, GmeKey, KeyBus
<1>2. gmeMds' \in Seq(Md) /\ Len(gmeMds') <= MdDepth
  <2>1. gmeMds \in Seq(Md) /\ gkeMdOut \in Md /\ Len(gmeMds) <= MdDepth
        /\ gmeRd \in BOOLEAN /\ gkeMdOut.wr \in BOOLEAN
    BY <1>0 DEF GmeTypeOK, GkeTypeOK, Md
  <2>2. gmeMds' = FifoNext(gmeMds, gmeRd, gkeMdOut.wr, gkeMdOut, MdDepth)
    BY DEF GmeClock
  <2>3. QED
    BY <1>0, <2>1, <2>2, FifoType
<1>3. gmeIdxs' \in Seq(Nat)
  <2>1. gmeIdxs \in Seq(Nat) /\ answer.idx \in Nat
        /\ gmeIdxRd \in BOOLEAN /\ answer.wr \in BOOLEAN
    BY <1>0 DEF GmeTypeOK, IdxBus
  <2>2. gmeIdxs' = FifoNext(gmeIdxs, gmeIdxRd, answer.wr, answer.idx, MdDepth)
    BY DEF GmeClock
  <2>3. QED
    BY <1>0, <2>1, <2>2, FifoType
<1>4. /\ gmeRd' \in BOOLEAN /\ gmeIdxRd' \in BOOLEAN /\ gmeFlag' \in BOOLEAN
      /\ gmeState' \in {"idle", "data"}
  BY <1>0 DEF GmeClock, GmeWait, GmeSend, GmeTypeOK
<1>5. gmeMdOut' \in Md
  BY GmeJoins
<1>6. QED
  BY <1>1, <1>2, <1>3, <1>4, <1>5 DEF GmeTypeOK

\* The indices in gme and on their way to it.
LEMMA RulesGme ==
  ASSUME TypeOK, Keys, Rules, PinContinue \/ PinHead \/ PinPause,
         gmeIdxs' = FifoNext(gmeIdxs, gmeIdxRd, answer.wr, answer.idx, MdDepth),
         \E answers \in BOOLEAN : Matcher(answers)
  PROVE  /\ \A i \in 1 .. Len(gmeIdxs') : gmeIdxs'[i] \in Indices
         /\ answer'.idx \in Indices \/ ~answer'.wr
         /\ answer' \in IdxBus
<1>0. /\ gmeIdxs \in Seq(Nat) /\ answer.idx \in Nat /\ answer.wr \in BOOLEAN
      /\ gmeIdxRd \in BOOLEAN /\ MdDepth \in Nat
  BY PipeAssumption DEF TypeOK, GmeTypeOK, IdxBus
<1>1. \A i \in 1 .. Len(gmeIdxs') : gmeIdxs'[i] \in Indices
  <2>1. answer.wr => answer.idx \in Nat /\ answer.idx \in Indices
    BY <1>0 DEF Rules
  <2>2. \A i \in 1 .. Len(gmeIdxs) : gmeIdxs[i] \in Indices
    BY DEF Rules
  <2>3. QED
    BY <1>0, <2>1, <2>2, FifoAll
<1>2. ASSUME NEW key \in {0} \cup Pkts
      PROVE  MatcherIdx(key) \in Indices /\ MatcherIdx(key) \in Nat
  <2>1. MissIdx \in Indices /\ Indices \subseteq Nat
    BY PipeAssumption
  <2>2. key # 0 => kinds[key].idx \in Indices
    <3>1. key # 0 => kinds[key] \in AllKinds
      BY <1>2 DEF TypeOK, Pkts
    <3>2. QED
      BY <3>1, KindType
  <2>3. QED
    BY <2>1, <2>2 DEF MatcherIdx
<1>3. lookups # <<>> => Head(lookups) \in {0} \cup Pkts
  BY EmptySeq DEF Keys
<1>4. \/ answer' = NoAnswer
      \/ lookups # <<>> /\ answer' = [wr |-> TRUE, idx |-> MatcherIdx(Head(lookups))]
  BY DEF Matcher
<1>5. CASE answer' = NoAnswer
  BY <1>1, <1>5 DEF NoAnswer, IdxBus
<1>6. CASE lookups # <<>> /\ answer' = [wr |-> TRUE, idx |-> MatcherIdx(Head(lookups))]
  <2>1. MatcherIdx(Head(lookups)) \in Indices /\ MatcherIdx(Head(lookups)) \in Nat
    BY <1>2, <1>3, <1>6
  <2>2. QED
    BY <1>1, <1>6, <2>1 DEF IdxBus
<1>7. QED
  BY <1>4, <1>5, <1>6
-----------------------------------------------------------------------------
(***************************************************************************)
(* scm and gac.                                                            *)
(***************************************************************************)

LEMMA ScmPasses ==
  ASSUME TypeOK, Metadata, PinContinue \/ PinHead \/ PinPause,
         ScmClock(gmeMdOut, started)
  PROVE  /\ scmMdOut' \in Md
         /\ scmMdOut'.wr => /\ MdMatched(kinds', scmMdOut', {1, 7}, 4)
                            /\ gmeMdOut.wr /\ scmMdOut'.pkt = gmeMdOut.pkt
         /\ ~statReset => scmMdOut'.wr = gmeMdOut.wr
         /\ scmPkts' \in Nat /\ scmBits' \in Nat
<1> DEFINE m == gmeMdOut
<1>0. m \in Md /\ m.wr \in BOOLEAN /\ m.len \in Nat
      /\ scmPkts \in Nat /\ scmBits \in Nat
  BY DEF TypeOK, GmeTypeOK, ScmTypeOK, Md
<1>1. scmPkts' \in Nat /\ scmBits' \in Nat
  BY <1>0 DEF ScmClock, ScmReset, ScmCount, ScmBypass, ScmNothing
<1>2. NoMd \in Md /\ NoMd.wr = FALSE
  BY DEF NoMd, Md, Mids, Psts
<1>3. CASE statReset \/ ~m.wr
  <2>1. scmMdOut' = NoMd
    BY <1>3 DEF ScmClock, ScmReset, ScmCount, ScmBypass, ScmNothing
  <2>2. QED
    BY <1>0, <1>1, <1>2, <1>3, <2>1
<1>4. CASE ~statReset /\ m.wr
  <2>1. MdMatched(kinds, m, {1}, 7)
    BY <1>4 DEF Metadata, Joined
  <2>2. scmMdOut' = IF m.dmid = 7 THEN [m EXCEPT !.dmid = 4] ELSE m
    BY <1>4 DEF ScmClock, ScmReset, ScmCount, ScmBypass, ScmNothing
  <2>3. CASE m.dmid = 7
    <3>1. scmMdOut' \in Md
          /\ scmMdOut' = [wr |-> m.wr, pkt |-> m.pkt, dmid |-> 4,
                          pst |-> m.pst, len |-> m.len, idx |-> m.idx]
      <4>1. 4 \in Mids
        BY DEF Mids
      <4>2. QED
        BY <1>0, <2>2, <2>3, <4>1, MdTo
    <3>2. kinds[m.pkt].dmid \in {1, 7}
      BY <2>1, <2>3 DEF MdMatched, MdOf
    <3>3. MdMatched(kinds, scmMdOut', {1, 7}, 4)
      BY <2>1, <3>1, <3>2 DEF MdMatched, MdOf
    <3>4. QED
      BY <1>1, <1>4, <3>1, <3>3, MdStayHere
  <2>4. CASE m.dmid # 7
    <3>1. scmMdOut' = m
      BY <2>2, <2>4
    <3>2. kinds[m.pkt].dmid \notin {1, 7}
      BY <2>1, <2>4 DEF MdMatched, MdOf
    <3>3. MdMatched(kinds, scmMdOut', {1, 7}, 4)
      BY <2>1, <3>1, <3>2 DEF MdMatched, MdOf
    <3>4. QED
      BY <1>0, <1>1, <1>4, <3>1, <3>3, MdStayHere
  <2>5. QED
    BY <2>3, <2>4
<1>5. QED
  BY <1>3, <1>4


\* The first entries gac sees.
LEMMA GacFront ==
  ASSUME TypeOK
  PROVE  /\ GacWord \in Beat /\ GacMd \in Md
         /\ gacMds # <<>> => GacMd = gacMds[1] /\ 1 \in 1 .. Len(gacMds)
         /\ gacFifo # <<>> => GacWord = gacFifo[1] /\ 1 \in 1 .. Len(gacFifo)
<1>0. gacFifo \in Seq(Beat) /\ gacMds \in Seq(Md)
  BY DEF TypeOK, GacTypeOK
<1>1. Idle \in Beat /\ NoMd \in Md
  BY DEF Idle, Beat, Flags, NoMd, Md, Mids, Psts
<1>2. /\ gacMds # <<>> => GacMd = gacMds[1] /\ 1 \in 1 .. Len(gacMds)
      /\ gacFifo # <<>> => GacWord = gacFifo[1] /\ 1 \in 1 .. Len(gacFifo)
  BY <1>0, EmptySeq DEF GacMd, GacWord, Front
<1>3. gacMds = <<>> => GacMd = NoMd
  BY DEF GacMd, Front
<1>4. gacFifo = <<>> => GacWord = Idle
  BY DEF GacWord, Front
<1>5. QED
  BY <1>0, <1>1, <1>2, <1>3, <1>4

LEMMA GacTyped ==
  ASSUME TypeOK, Metadata, Rules, NEW alf,
         GacClock(dcOut, dcVwr, scmMdOut, alf)
  PROVE  /\ GacTypeOK'
         /\ gacCore' \in {Table[i] : i \in Indices}
         /\ gacQ' \in {Table[i] : i \in Indices}
<1>0. GacTypeOK /\ DcTypeOK /\ ScmTypeOK /\ MdDepth \in Nat /\ DataDepth \in Nat
  BY PipeAssumption DEF TypeOK
<1>1. GacWord \in Beat /\ GacMd \in Md
  BY GacFront
<1>2. gacFifo' \in Seq(Beat) /\ Len(gacFifo') <= DataDepth
  <2>1. /\ gacFifo \in Seq(Beat) /\ dcOut \in Beat /\ Len(gacFifo) <= DataDepth
        /\ gacRd \in BOOLEAN /\ dcOut.wr \in BOOLEAN
    BY <1>0 DEF GacTypeOK, DcTypeOK, Beat
  <2>2. gacFifo' = FifoNext(gacFifo, gacRd, dcOut.wr, dcOut, DataDepth)
    BY DEF GacClock
  <2>3. QED
    BY <1>0, <2>1, <2>2, FifoType
<1>3. gacVFifo' \in Seq(BOOLEAN)
  <2>1. /\ gacVFifo \in Seq(BOOLEAN) /\ TRUE \in BOOLEAN
        /\ gacVRd \in BOOLEAN /\ dcVwr \in BOOLEAN
    BY <1>0 DEF GacTypeOK, DcTypeOK
  <2>2. gacVFifo # <<>> => Tail(gacVFifo) \in Seq(BOOLEAN)
    BY <2>1
  <2>3. \A s \in Seq(BOOLEAN) : Append(s, TRUE) \in Seq(BOOLEAN)
    BY <2>1, AppendIs
  <2>4. gacVFifo' = FifoNext(gacVFifo, gacVRd, dcVwr, TRUE, DataDepth)
    BY DEF GacClock
  <2>5. QED
    BY <2>1, <2>2, <2>3, <2>4, Zenon DEF FifoNext
<1>4. gacMds' \in Seq(Md) /\ Len(gacMds') <= MdDepth
  <2>1. /\ gacMds \in Seq(Md) /\ scmMdOut \in Md /\ Len(gacMds) <= MdDepth
        /\ gacMdRd \in BOOLEAN /\ scmMdOut.wr \in BOOLEAN
    BY <1>0 DEF GacTypeOK, ScmTypeOK, Md
  <2>2. gacMds' = FifoNext(gacMds, gacMdRd, scmMdOut.wr, scmMdOut, MdDepth)
    BY DEF GacClock
  <2>3. QED
    BY <1>0, <2>1, <2>2, FifoType
<1>5. /\ gacRd' \in BOOLEAN /\ gacVRd' \in BOOLEAN /\ gacMdRd' \in BOOLEAN
      /\ gacState' \in {"IDLE", "LOOKUP", "WAIT", "METADATA", "TRANS"}
      /\ gacVwr' \in BOOLEAN
  BY <1>0 DEF GacClock, GacIdleLookup, GacIdleBypass, GacIdleWait, GacLookup,
     GacWait, GacMetadata, GacTrans, ReadAll, ReadNone, GacTypeOK
<1>6. gacAddr' \in Indices
  <2>1. gacMds # <<>> => GacMd.idx \in Indices
    BY GacFront DEF Metadata, Left, MdMatched
  <2>2. 0 \in Indices
    BY PipeAssumption
  <2>3. QED
    BY <1>0, <2>1, <2>2 DEF GacClock, GacIdleLookup, GacIdleBypass, GacIdleWait,
       GacLookup, GacWait, GacMetadata, GacTrans, GacTypeOK, Ready
<1>7. pollCpu' \in CpuIds
  <2>1. NextCpu \in CpuIds
    <3>1. \A p \in CpuIds : p \in Nat
      BY PipeAssumption DEF CpuIds
    <3>2. pollCpu \in Nat /\ SysMaxCpu \in Nat
      BY <1>0, <3>1, PipeAssumption DEF GacTypeOK
    <3>3. QED
      BY <3>2 DEF NextCpu, CpuIds
  <2>2. pollCpu \in CpuIds
    BY <1>0 DEF GacTypeOK
  <2>3. pollCpu' = pollCpu \/ pollCpu' = NextCpu
    BY DEF GacClock, GacIdleLookup, GacIdleBypass, GacIdleWait, GacLookup,
       GacWait, GacMetadata, GacTrans
  <2>4. QED
    BY <2>1, <2>2, <2>3
<1>8. gacOut' \in Beat
  <2>1. gacOut' \in {gacOut, [gacOut EXCEPT !.wr = FALSE], Idle,
                     [GacWord EXCEPT !.wr = TRUE]}
    BY DEF GacClock, GacIdleLookup, GacIdleBypass, GacIdleWait, GacLookup,
       GacWait, GacMetadata, GacTrans
  <2>2. gacOut \in Beat
    BY <1>0 DEF GacTypeOK
  <2>3. /\ [gacOut EXCEPT !.wr = FALSE] \in Beat /\ Idle \in Beat
        /\ [GacWord EXCEPT !.wr = TRUE] \in Beat
    BY <1>1, <2>2 DEF Beat, Idle, Flags
  <2>4. QED
    BY <2>1, <2>2, <2>3
<1>9. gacHdr' \in Hdr
  <2>1. RawHdr(GacWord.pkt) \in Hdr /\ gacHdr \in Hdr
    BY <1>0, <1>1 DEF RawHdr, Hdr, Beat, Psts, Own, GacTypeOK
  <2>2. Action(gacQ, GacWord, GacMd, pollCpu) \in Hdr
    <3>1. gacQ.arg \in Nat
      BY PipeAssumption DEF Rules
    <3>2. /\ GacMd.pkt \in Nat /\ GacMd.pst \in Psts /\ pollCpu \in Nat
          /\ GacWord.pkt \in Nat
      BY <1>0, <1>1, PipeAssumption DEF Md, Beat, GacTypeOK, CpuIds
    <3>3. [RawHdr(GacWord.pkt) EXCEPT !.dmid = 5] \in Hdr
      BY <2>1 DEF Hdr
    <3>4. QED
      BY <3>1, <3>2, <3>3 DEF Action, Hdr
  <2>3. gacHdr' \in {gacHdr, RawHdr(GacWord.pkt),
                     Action(gacQ, GacWord, GacMd, pollCpu)}
    BY DEF GacClock, GacIdleLookup, GacIdleBypass, GacIdleWait, GacLookup,
       GacWait, GacMetadata, GacTrans
  <2>4. QED
    BY <2>1, <2>2, <2>3
<1>10. gacCore' \in {Table[i] : i \in Indices} /\ gacQ' \in {Table[i] : i \in Indices}
  <2>1. gacAddr \in Indices /\ gacCore \in {Table[i] : i \in Indices}
    BY <1>0 DEF GacTypeOK, Rules
  <2>2. QED
    BY <2>1 DEF GacClock
<1>11. GacTypeOK'
  BY <1>2, <1>3, <1>4, <1>5, <1>6, <1>7, <1>8, <1>9 DEF GacTypeOK
<1>12. QED
  BY <1>10, <1>11

LEMMA DcTyped ==
  ASSUME TypeOK, NEW alf, DcClock(gppOut, gppVal, gppVwr, alf)
  PROVE  DcTypeOK'
<1>0. DcTypeOK /\ GppTypeOK /\ DataDepth \in Nat
  BY PipeAssumption DEF TypeOK
<1>1. DcWord \in Beat
  <2>1. Idle \in Beat /\ dcFifo \in Seq(Beat)
    BY <1>0 DEF Idle, Beat, Flags, DcTypeOK
  <2>2. dcFifo # <<>> => DcWord = dcFifo[1] /\ 1 \in 1 .. Len(dcFifo)
    BY <2>1, EmptySeq DEF DcWord, Front
  <2>3. dcFifo = <<>> => DcWord = Idle
    BY DEF DcWord, Front
  <2>4. QED
    BY <2>1, <2>2, <2>3
<1>2. dcFifo' \in Seq(Beat) /\ Len(dcFifo') <= DataDepth
  <2>1. /\ dcFifo \in Seq(Beat) /\ gppOut \in Beat /\ Len(dcFifo) <= DataDepth
        /\ dcRd \in BOOLEAN /\ gppOut.wr \in BOOLEAN
    BY <1>0 DEF GppTypeOK, DcTypeOK, Beat
  <2>2. dcFifo' = FifoNext(dcFifo, dcRd, gppOut.wr, gppOut, DataDepth)
    BY DEF DcClock
  <2>3. QED
    BY <1>0, <2>1, <2>2, FifoType
<1>3. dcVFifo' \in Seq(BOOLEAN)
  <2>1. /\ dcVFifo \in Seq(BOOLEAN) /\ gppVal \in BOOLEAN
        /\ dcVRd \in BOOLEAN /\ gppVwr \in BOOLEAN
    BY <1>0 DEF GppTypeOK, DcTypeOK
  <2>2. dcVFifo # <<>> => Tail(dcVFifo) \in Seq(BOOLEAN)
    BY <2>1
  <2>3. \A s \in Seq(BOOLEAN) : Append(s, gppVal) \in Seq(BOOLEAN)
    BY <2>1, AppendIs
  <2>4. dcVFifo' = FifoNext(dcVFifo, dcVRd, gppVwr, gppVal, DataDepth)
    BY DEF DcClock
  <2>5. QED
    BY <2>1, <2>2, <2>3, <2>4, Zenon DEF FifoNext
<1>4. /\ dcRd' \in BOOLEAN /\ dcVRd' \in BOOLEAN
      /\ dcState' \in {"IDLE", "SEND", "DISCARD"} /\ dcVwr' \in BOOLEAN
  BY <1>0 DEF DcClock, DcStart, DcSend, DcDiscard, DcTypeOK
<1>5. dcOut' \in Beat
  <2>1. dcOut' \in {[dcOut EXCEPT !.wr = FALSE], Idle, [DcWord EXCEPT !.wr = TRUE]}
    BY DEF DcClock, DcStart, DcSend, DcDiscard
  <2>2. /\ [dcOut EXCEPT !.wr = FALSE] \in Beat /\ Idle \in Beat
        /\ [DcWord EXCEPT !.wr = TRUE] \in Beat
    BY <1>0, <1>1 DEF Beat, Idle, Flags, DcTypeOK
  <2>3. QED
    BY <2>1, <2>2
<1>6. QED
  BY <1>2, <1>3, <1>4, <1>5 DEF DcTypeOK


\* Metadata stay metadata of packets that came.
LEMMA MetadataKept ==
  ASSUME TypeOK, Port1, Parsing, Metadata, Joining, Rules,
         PinContinue \/ PinHead \/ PinPause, NEW alf, Hardware(alf)
  PROVE  Metadata'
<1> DEFINE K == {m \in Md : MdUnmatched(kinds', m, 3)}
           L == {m \in Md : MdMatched(kinds', m, {1, 7}, 4)}
<1>0. /\ GppClock(pin, PinValid, KindOf(pin.pkt)) /\ GkeClock(gppMdOut)
      /\ GmeClock(gkeKeyOut, gkeMdOut, answer) /\ ScmClock(gmeMdOut, started)
      /\ GacClock(dcOut, dcVwr, scmMdOut, alf)
  BY DEF Hardware
<1>t. GmeTypeOK /\ GkeTypeOK /\ GacTypeOK /\ ScmTypeOK /\ GppTypeOK
  BY DEF TypeOK
<1>1. gppMdOut'.wr => MdUnmatched(kinds', gppMdOut', 2)
  BY <1>0, GppReads
<1>2. gkeMdDly'.wr => MdUnmatched(kinds', gkeMdDly', 2)
  <2>1. gkeMdDly' = gppMdOut
    BY <1>0 DEF GkeClock, GkeMetadata
  <2>2. gppMdOut.wr => MdUnmatched(kinds, gppMdOut, 2)
    BY DEF Metadata, Read
  <2>3. QED
    BY <2>1, <2>2, MdStayHere
<1>3. gkeMdOut'.wr => MdUnmatched(kinds', gkeMdOut', 3)
  <2>1. CASE gkeMdDly.wr
    <3>1. Read(gkeMdDly)
      BY <2>1 DEF Metadata
    <3>2. QED
      BY <1>0, <2>1, <3>1, GkeKeys
  <2>2. CASE ~gkeMdDly.wr
    BY <1>0, <2>2 DEF GkeClock, GkeMetadata, NoMd
  <2>3. QED
    BY <2>1, <2>2
<1>4. \A i \in 1 .. Len(gmeMds') : gmeMds'[i] \in K
  <2>1. /\ gmeMds \in Seq(Md) /\ gkeMdOut \in Md
        /\ gmeRd \in BOOLEAN /\ gkeMdOut.wr \in BOOLEAN
    BY <1>t DEF GmeTypeOK, GkeTypeOK, Md
  <2>2. gkeMdOut.wr => gkeMdOut \in Md /\ gkeMdOut \in K
    <3>1. gkeMdOut.wr => MdUnmatched(kinds, gkeMdOut, 3)
      BY DEF Metadata, Keyed
    <3>2. QED
      BY <2>1, <3>1, MdStayHere
  <2>3. \A i \in 1 .. Len(gmeMds) : gmeMds[i] \in K
    <3>1. \A i \in 1 .. Len(gmeMds) : MdUnmatched(kinds, gmeMds[i], 3)
      BY DEF Metadata, Keyed
    <3>2. QED
      BY <2>1, <3>1, MdStayHere
  <2>4. gmeMds' = FifoNext(gmeMds, gmeRd, gkeMdOut.wr, gkeMdOut, MdDepth)
    BY <1>0 DEF GmeClock
  <2> HIDE DEF K
  <2>5. QED
    BY <2>1, <2>2, <2>3, <2>4, FifoAll
<1>5. gmeMdOut'.wr => MdMatched(kinds', gmeMdOut', {1}, 7)
  BY <1>0, GmeJoins
<1>6. scmMdOut'.wr => MdMatched(kinds', scmMdOut', {1, 7}, 4)
  BY <1>0, ScmPasses
<1>7. \A i \in 1 .. Len(gacMds') : gacMds'[i] \in L
  <2>1. /\ gacMds \in Seq(Md) /\ scmMdOut \in Md
        /\ gacMdRd \in BOOLEAN /\ scmMdOut.wr \in BOOLEAN
    BY <1>t DEF GacTypeOK, ScmTypeOK, Md
  <2>2. scmMdOut.wr => scmMdOut \in Md /\ scmMdOut \in L
    <3>1. scmMdOut.wr => MdMatched(kinds, scmMdOut, {1, 7}, 4)
      BY DEF Metadata, Left
    <3>2. QED
      BY <2>1, <3>1, MdStayHere
  <2>3. \A i \in 1 .. Len(gacMds) : gacMds[i] \in L
    <3>1. \A i \in 1 .. Len(gacMds) : MdMatched(kinds, gacMds[i], {1, 7}, 4)
      BY DEF Metadata, Left
    <3>2. QED
      BY <2>1, <3>1, MdStayHere
  <2>4. gacMds' = FifoNext(gacMds, gacMdRd, scmMdOut.wr, scmMdOut, MdDepth)
    BY <1>0 DEF GacClock
  <2> HIDE DEF L
  <2>5. QED
    BY <2>1, <2>2, <2>3, <2>4, FifoAll
<1>8. QED
  BY <1>1, <1>2, <1>3, <1>4, <1>5, <1>6, <1>7
  DEF Metadata, Read, Keyed, Joined, Left
-----------------------------------------------------------------------------
(***************************************************************************)
(* The invariant.                                                          *)
(***************************************************************************)

LEMMA FrontHolds == Init => FrontInv
<1> SUFFICES ASSUME Init PROVE FrontInv
  OBVIOUS
<1>0. /\ GppInit /\ DcInit /\ GkeInit /\ GmeInit /\ ScmInit /\ GacInit
      /\ kinds = <<>> /\ pin = Idle /\ lookups = <<>> /\ answer = NoAnswer
      /\ started \in Started /\ protoType \in ProtoTypes
  BY DEF Init
<1>1. Idle \in Beat /\ NoMd \in Md /\ NoMd.wr = FALSE /\ NoKey \in KeyBus
      /\ NoKey.wr = FALSE /\ NoKey.pkt = 0 /\ NoAnswer \in IdxBus
      /\ NoAnswer.wr = FALSE /\ Idle.seq = 0
  BY DEF Idle, Beat, Flags, NoMd, Md, Mids, Psts, NoKey, KeyBus, NoAnswer,
     IdxBus
<1>e. /\ <<>> \in Seq(Beat) /\ <<>> \in Seq(BOOLEAN) /\ <<>> \in Seq(Md)
      /\ <<>> \in Seq(Nat) /\ Len(<<>>) <= DataDepth /\ Len(<<>>) <= MdDepth
  BY PipeAssumption, EmptySeq
<1>g. GppTypeOK
  <2>1. [pkt |-> 0, dmid |-> 0, len |-> 0, idx |-> NoIdx]
          \in [pkt : Nat, dmid : Mids, len : Nat, idx : Nat \cup {NoIdx}]
    BY DEF Mids
  <2>2. "none" \in Psts
    BY DEF Psts
  <2>3. gppMd \in [pkt : Nat, dmid : Mids, len : Nat, idx : Nat \cup {NoIdx}]
    <3>1. gppMd = [pkt |-> 0, dmid |-> 0, len |-> 0, idx |-> NoIdx]
      BY <1>0 DEF GppInit
    <3>2. QED
      BY <2>1, <3>1
  <2>4. /\ gppState \in {"IDLE", "TRANS", "DISCARD"} /\ gppFlag \in BOOLEAN
        /\ gppStep \in 0 .. 255 /\ gppEth \in {"none"} \cup EthTypes
        /\ gppProto \in {"none", "tcp", "udp", "other"}
        /\ gppVal \in BOOLEAN /\ gppVwr \in BOOLEAN
    <3>1. /\ gppState = "IDLE" /\ gppFlag = FALSE /\ gppStep = 0
          /\ gppEth = "none" /\ gppProto = "none"
          /\ gppVal = FALSE /\ gppVwr = FALSE
      BY <1>0 DEF GppInit
    <3>2. gppState \in {"IDLE", "TRANS", "DISCARD"}
      BY <3>1
    <3>3. gppFlag \in BOOLEAN /\ gppVal \in BOOLEAN /\ gppVwr \in BOOLEAN
      BY <3>1
    <3>4. gppEth \in {"none"} \cup EthTypes
      BY <3>1
    <3>5. gppProto \in {"none", "tcp", "udp", "other"}
      BY <3>1
    <3>6. gppStep \in 0 .. 255
      BY <3>1
    <3>7. QED
      BY <3>2, <3>3, <3>4, <3>5, <3>6
  <2>5. gppPst \in Psts /\ gppOut \in Beat /\ gppMdOut \in Md
    <3>1. gppPst = "none" /\ gppOut = Idle /\ gppMdOut = NoMd
      BY <1>0 DEF GppInit
    <3>2. gppPst \in Psts
      BY <2>2, <3>1
    <3>3. gppOut \in Beat
      BY <1>1, <3>1
    <3>4. gppMdOut \in Md
      BY <1>1, <3>1
    <3>5. QED
      BY <3>2, <3>3, <3>4
  <2>6. QED
    BY <2>3, <2>4, <2>5 DEF GppTypeOK
<1>d. DcTypeOK
  BY <1>0, <1>1, <1>e DEF DcInit, DcTypeOK
<1>2. GkeTypeOK
  BY <1>0, <1>1 DEF GkeInit, GkeTypeOK
<1>3. GmeTypeOK
  BY <1>0, <1>1, <1>e DEF GmeInit, GmeTypeOK
<1>s. ScmTypeOK
  BY <1>0, <1>1, PipeAssumption DEF ScmInit, ScmTypeOK
<1>4. GacTypeOK
  <2>1. 0 \in Indices /\ 0 \in CpuIds /\ RawHdr(0) \in Hdr
    BY PipeAssumption DEF CpuIds, RawHdr, Hdr, Psts, Own
  <2>2. QED
    BY <1>0, <1>1, <1>e, <2>1 DEF GacInit, GacTypeOK
<1>5. /\ kinds \in Seq(AllKinds) /\ Len(kinds) <= MaxPkts /\ Len(kinds) = 0
      /\ lookups \in Seq(0 .. MaxPkts) /\ lookups \in Seq({0} \cup Pkts)
      /\ started \in BOOLEAN
  BY <1>0, PipeAssumption, EmptySeq
<1>6. TypeOK
  BY <1>0, <1>1, <1>g, <1>d, <1>2, <1>3, <1>s, <1>4, <1>5 DEF TypeOK
<1>7. Port1 /\ Parsing
  BY <1>0, <1>1 DEF Port1, Parsing, GppInit
<1>8. Metadata
  BY <1>0, <1>1, EmptySeq
  DEF Metadata, GppInit, GkeInit, GmeInit, ScmInit, GacInit
<1>9. Keys
  BY <1>0, <1>1, <1>5 DEF Keys, GkeInit, GmeInit
<1>10. Joining
  BY <1>0 DEF Joining, GmeInit
<1>11. Rules
  <2>1. 0 \in Indices
    BY PipeAssumption
  <2>2. QED
    BY <1>0, <1>1, <2>1, EmptySeq DEF Rules, GmeInit, GacInit
<1>12. QED
  BY <1>6, <1>7, <1>8, <1>9, <1>10, <1>11 DEF FrontInv


LEMMA FrontStep == FrontInv /\ [Next]_vars => FrontInv'
<1> SUFFICES ASSUME FrontInv, [Next]_vars PROVE FrontInv'
  OBVIOUS
<1> USE DEF FrontInv
<1>1. CASE UNCHANGED vars
  BY <1>1
  DEF vars, gppVars, dcVars, gkeVars, gmeVars, scmVars, gacVars, envVars,
      TypeOK, GppTypeOK, DcTypeOK, GkeTypeOK, GmeTypeOK, ScmTypeOK, GacTypeOK,
      Port1, PinWord, LastNo, Parsing, Metadata, Read, Keyed, Joined, Left,
      Keys, Pkts, Joining, GmeHead, Rules
<1>2. CASE Next
  <2>1. PICK alf \in BOOLEAN, answers \in BOOLEAN : Clock(alf, answers) /\ StatReset
    BY <1>2 DEF Next
  <2>2. /\ PinContinue \/ PinHead \/ PinPause
        /\ Matcher(answers) /\ Hardware(alf)
        /\ started' = started /\ protoType' = protoType
        /\ statReset' \in BOOLEAN
    BY <2>1 DEF Clock, StatReset
  <2>3. /\ GppClock(pin, PinValid, KindOf(pin.pkt))
        /\ DcClock(gppOut, gppVal, gppVwr, DataAlf(gacFifo))
        /\ GkeClock(gppMdOut) /\ GmeClock(gkeKeyOut, gkeMdOut, answer)
        /\ ScmClock(gmeMdOut, started) /\ GacClock(dcOut, dcVwr, scmMdOut, alf)
    BY <2>2 DEF Hardware
  <2>4. /\ Port1' /\ kinds' \in Seq(AllKinds) /\ Len(kinds') <= MaxPkts
        /\ pin' \in Beat
    BY <2>2, PortMoves
  <2>5. Parsing'
    BY <2>2, <2>3, ParsingKept
  <2>6. Metadata'
    BY <2>2, MetadataKept
  <2>7. Keys'
    <3>1. GmeKey(gkeKeyOut, gkeMdOut)
      BY <2>3 DEF GmeClock
    <3>2. QED
      BY <2>2, <2>3, <3>1, KeysKept
  <2>8. Joining'
    BY <2>3, JoiningKept
  <2>9. GacTypeOK' /\ gacCore' \in {Table[i] : i \in Indices}
        /\ gacQ' \in {Table[i] : i \in Indices}
    BY <2>3, GacTyped
  <2>10. /\ \A i \in 1 .. Len(gmeIdxs') : gmeIdxs'[i] \in Indices
         /\ answer'.idx \in Indices \/ ~answer'.wr
         /\ answer' \in IdxBus
    <3>1. gmeIdxs' = FifoNext(gmeIdxs, gmeIdxRd, answer.wr, answer.idx, MdDepth)
      BY <2>3 DEF GmeClock
    <3>2. QED
      BY <2>2, <3>1, RulesGme
  <2>11. Rules'
    BY <2>9, <2>10 DEF Rules
  <2>12. GppTypeOK' /\ DcTypeOK' /\ GkeTypeOK' /\ GmeTypeOK'
    BY <2>2, <2>3, GppTyped, DcTyped, GkeTyped, GmeTyped
  <2>13. ScmTypeOK'
    <3>1. scmMdOut' \in Md /\ scmPkts' \in Nat /\ scmBits' \in Nat
      BY <2>2, <2>3, ScmPasses
    <3>2. QED
      BY <2>2, <3>1 DEF ScmTypeOK, TypeOK
  <2>14. lookups' \in Seq(0 .. MaxPkts)
    <3>1. lookups' \in Seq(({0} \cup Pkts)')
      BY <2>7 DEF Keys
    <3>2. ({0} \cup Pkts)' \subseteq 0 .. MaxPkts
      <4>1. Len(kinds') \in Nat /\ Len(kinds') <= MaxPkts /\ MaxPkts \in Nat
        BY <2>4, PipeAssumption
      <4>2. QED
        BY <4>1 DEF Pkts
    <3>3. QED
      BY <3>1, <3>2, SeqMonotonic
  <2>15. TypeOK'
    BY <2>2, <2>4, <2>9, <2>10, <2>12, <2>13, <2>14 DEF TypeOK
  <2>16. QED
    BY <2>4, <2>5, <2>6, <2>7, <2>8, <2>11, <2>15
<1>3. QED
  BY <1>1, <1>2

THEOREM FrontAlways == Spec => []FrontInv
<1>1. QED
  BY FrontHolds, FrontStep, PTL DEF Spec

(***************************************************************************)
(* Every register of the pipeline keeps its type: in particular gac never  *)
(* looks up an index the flow table does not have, whatever the packets,   *)
(* the matcher and the resets of the statistics do.                        *)
(***************************************************************************)
THEOREM PipeTyped == Spec => []TypeOK
<1>1. FrontInv => TypeOK
  BY DEF FrontInv
<1>2. QED
  BY <1>1, FrontAlways, PTL
-----------------------------------------------------------------------------
(***************************************************************************)
(* Room for metadata in gme.                                               *)
(***************************************************************************)

LEMMA OneIs ==
  ASSUME NEW b \in BOOLEAN
  PROVE  One(b) \in {0, 1} /\ (b => One(b) = 1) /\ (~b => One(b) = 0)
  BY DEF One

\* What the strobes of the metadata and of the port are.
LEMMA Strobes ==
  ASSUME TypeOK
  PROVE  /\ gppMdOut.wr \in BOOLEAN /\ gkeMdDly.wr \in BOOLEAN
         /\ gkeMdOut.wr \in BOOLEAN /\ pin.wr \in BOOLEAN
         /\ gmeMdOut.wr \in BOOLEAN /\ scmMdOut.wr \in BOOLEAN
         /\ answer.wr \in BOOLEAN /\ gmeKeyOut.wr \in BOOLEAN
         /\ Len(gmeMds) \in Nat /\ Len(gmeIdxs) \in Nat /\ Len(lookups) \in Nat
         /\ MdAlfAt \in Nat /\ MdDepth \in Nat
<1>1. \A m \in Md : m.wr \in BOOLEAN
  BY DEF Md
<1>2. pin.wr \in BOOLEAN /\ answer.wr \in BOOLEAN /\ gmeKeyOut.wr \in BOOLEAN
  BY DEF TypeOK, GmeTypeOK, Beat, IdxBus, KeyBus
<1>3. /\ gppMdOut \in Md /\ gkeMdDly \in Md /\ gkeMdOut \in Md
      /\ gmeMdOut \in Md /\ scmMdOut \in Md
  BY DEF TypeOK, GppTypeOK, GkeTypeOK, GmeTypeOK, ScmTypeOK
<1>4. Len(gmeMds) \in Nat /\ Len(gmeIdxs) \in Nat /\ Len(lookups) \in Nat
  BY DEF TypeOK, GmeTypeOK
<1>5. MdAlfAt \in Nat /\ MdDepth \in Nat
  BY PipeAssumption
<1>6. QED
  BY <1>1, <1>2, <1>3, <1>4, <1>5

\* gpp sends metadata when the last word of a packet is on the port.
LEMMA ReadAtTail ==
  ASSUME FrontInv, PinContinue \/ PinHead \/ PinPause,
         GppClock(pin, PinValid, KindOf(pin.pkt)), gppMdOut'.wr
  PROVE  pin.wr /\ pin.seq \in Nat /\ pin.seq >= 5 /\ ~InPacket(pin)
<1> USE DEF FrontInv
<1>1. pin.wr /\ pin.seq = LastNo(pin.pkt)
  BY GppReads
<1>2. /\ pin.seq \in 0 .. LastNo(pin.pkt) /\ LastNo(pin.pkt) >= 5
      /\ LastNo(pin.pkt) \in Nat /\ pin.flag = "tail"
  BY <1>1, PinType, Zenon
<1>3. pin.seq \in Nat /\ pin.seq >= 5
  BY <1>1, <1>2
<1>4. ~InPacket(pin)
  BY <1>2 DEF InPacket
<1>5. QED
  BY <1>1, <1>3, <1>4

\* Metadata go through gke in two clocks.
LEMMA GkeStrobes ==
  ASSUME FrontInv, GkeClock(gppMdOut), PinContinue \/ PinHead \/ PinPause
  PROVE  gkeMdDly' = gppMdOut /\ gkeMdOut'.wr = gkeMdDly.wr
<1> USE DEF FrontInv
<1>1. gkeMdOut'.wr = gkeMdDly.wr
  <2>1. CASE gkeMdDly.wr
    <3>1. Read(gkeMdDly)
      BY <2>1 DEF Metadata
    <3>2. QED
      BY <2>1, <3>1, GkeKeys
  <2>2. CASE ~gkeMdDly.wr
    BY <2>2, Strobes DEF GkeClock, GkeMetadata, NoMd
  <2>3. QED
    BY <2>1, <2>2
<1>2. QED
  BY <1>1 DEF GkeClock, GkeMetadata

LEMMA SpacedKept ==
  ASSUME FrontInv, Spaced, PinContinue \/ PinHead \/ PinPause,
         GppClock(pin, PinValid, KindOf(pin.pkt)), GkeClock(gppMdOut)
  PROVE  Spaced'
<1> USE DEF FrontInv
<1>1. gppMdOut'.wr => pin.wr /\ pin.seq >= 5 /\ ~InPacket(pin)
  BY ReadAtTail
<1>2. /\ pin.seq \in Nat /\ pin'.seq \in {0, pin.seq + 1}
      /\ ~InPacket(pin) => pin'.seq = 0
  BY PinType, PortMoves
<1>3. gkeMdDly' = gppMdOut /\ gkeMdOut'.wr = gkeMdDly.wr
  BY GkeStrobes
<1>4. gppMdOut'.wr => pin'.seq = 0 /\ ~gppMdOut.wr /\ ~gkeMdDly.wr
  BY <1>1, <1>2 DEF Spaced
<1>5. gppMdOut.wr => pin'.seq <= 1 /\ ~gppMdOut'.wr /\ ~gkeMdDly.wr
  BY <1>1, <1>2 DEF Spaced
<1>6. gkeMdDly.wr => pin'.seq <= 2 /\ ~gppMdOut'.wr /\ ~gppMdOut.wr
  BY <1>1, <1>2 DEF Spaced
<1>7. QED
  BY <1>3, <1>4, <1>5, <1>6 DEF Spaced

\* How a FIFO of metadata grows.
LEMMA FifoLen ==
  ASSUME NEW S, NEW q \in Seq(S), NEW rd \in BOOLEAN, NEW wr \in BOOLEAN, NEW d,
         NEW depth \in Nat, NEW f, f = FifoNext(q, rd, wr, d, depth),
         wr => d \in S
  PROVE  /\ Len(f) \in Nat
         /\ Len(f) <= Len(q) + One(wr)
         /\ (wr => Len(q) < depth) =>
              Len(f) = Len(q) + One(wr) - One(rd /\ q # <<>>)
<1> DEFINE p == IF rd /\ q # <<>> THEN Tail(q) ELSE q
<1>1. p \in Seq(S) /\ Len(p) \in Nat /\ Len(q) \in Nat
      /\ Len(p) = Len(q) - One(rd /\ q # <<>>)
  BY EmptySeq DEF One
<1>2. f = IF wr /\ Len(q) < depth THEN Append(p, d) ELSE p
  BY DEF FifoNext
<1>3. One(wr) \in {0, 1} /\ (wr => One(wr) = 1) /\ (~wr => One(wr) = 0)
      /\ One(rd /\ q # <<>>) \in {0, 1}
  BY DEF One
<1> HIDE DEF p
<1>4. CASE wr /\ Len(q) < depth
  <2>1. f = Append(p, d) /\ Len(Append(p, d)) = Len(p) + 1
    BY <1>1, <1>2, <1>4
  <2>2. Len(f) = Len(p) + 1
    BY <2>1, Zenon
  <2>3. One(wr) = 1
    BY <1>3, <1>4
  <2>4. QED
    BY <1>1, <1>3, <2>2, <2>3
<1>5. CASE ~(wr /\ Len(q) < depth)
  <2>1. f = p
    BY <1>2, <1>5
  <2>2. QED
    BY <1>1, <1>3, <1>5, <2>1
<1>6. QED
  BY <1>4, <1>5

\* The almost-full level leaves room for what is on its way.
LEMMA MdLevelKept ==
  ASSUME MdRoom, FrontInv, Spaced, MdLevel,
         PinContinue \/ PinHead \/ PinPause,
         GppClock(pin, PinValid, KindOf(pin.pkt)), GkeClock(gppMdOut),
         GmeClock(gkeKeyOut, gkeMdOut, answer)
  PROVE  MdLevel'
<1> USE DEF FrontInv
<1> DEFINE n == Len(gmeMds)
           a == One(gppMdOut.wr)
           b == One(gkeMdDly.wr)
           c == One(gkeMdOut.wr)
           e == One(pin.wr)
           x == One(gppMdOut'.wr)
           y == One(pin'.wr)
<1>1. /\ a \in {0, 1} /\ b \in {0, 1} /\ c \in {0, 1} /\ e \in {0, 1}
      /\ n \in Nat /\ MdAlfAt \in Nat /\ MdDepth \in Nat
  BY Strobes, OneIs
<1>2. x \in {0, 1} /\ y \in {0, 1}
  BY DEF One
<1>3. Len(gmeMds') \in Nat /\ Len(gmeMds') <= n + c
  <2>1. gmeMds \in Seq(Md) /\ gmeRd \in BOOLEAN /\ gkeMdOut.wr \in BOOLEAN
        /\ gkeMdOut \in Md
    BY DEF TypeOK, GmeTypeOK, GkeTypeOK, Md
  <2>2. gmeMds' = FifoNext(gmeMds, gmeRd, gkeMdOut.wr, gkeMdOut, MdDepth)
    BY DEF GmeClock
  <2>3. QED
    BY <1>1, <2>1, <2>2, FifoLen
<1>4. gkeMdDly'.wr = gppMdOut.wr /\ gkeMdOut'.wr = gkeMdDly.wr
  BY GkeStrobes
<1>5. a + b + c <= 1
  BY Strobes, OneIs DEF Spaced
<1>6. x = 1 => e = 1 /\ ~InPacket(pin) /\ a = 0 /\ b = 0 /\ c = 0
  <2>1. SUFFICES ASSUME gppMdOut'.wr
                 PROVE  e = 1 /\ ~InPacket(pin) /\ a = 0 /\ b = 0 /\ c = 0
    BY DEF One
  <2>2. pin.wr /\ pin.seq \in Nat /\ pin.seq >= 5 /\ ~InPacket(pin)
    BY <2>1, ReadAtTail
  <2>3. ~gppMdOut.wr /\ ~gkeMdDly.wr /\ ~gkeMdOut.wr
    BY <2>2 DEF Spaced
  <2>4. QED
    BY <2>2, <2>3 DEF One
<1>7. n + a + b + c + e <= MdAlfAt + 2
  BY DEF MdLevel
<1>8. \/ InPacket(pin) /\ e = 1 /\ y = 1
      \/ ~InPacket(pin) /\ y = 0
      \/ ~InPacket(pin) /\ y = 1 /\ n <= MdAlfAt
  <2>1. CASE PinContinue
    <3>1. InPacket(pin) /\ pin.wr
      BY <2>1 DEF PinContinue, InPacket
    <3>2. pin'.wr
      BY <3>1, PortMoves
    <3>3. QED
      BY <3>1, <3>2 DEF One
  <2>2. CASE PinHead
    <3>1. ~InPacket(pin) /\ PktinReady /\ pin'.wr
      BY <2>2 DEF PinHead
    <3>2. n < MdDepth
      BY <1>1, <1>7 DEF MdRoom
    <3>3. n % MdDepth = n
      BY <1>1, <3>2
    <3>4. n <= MdAlfAt
      BY <1>1, <3>1, <3>3 DEF PktinReady, MdAlf, Usedw
    <3>5. QED
      BY <3>1, <3>4 DEF One
  <2>3. CASE PinPause
    BY <2>3 DEF PinPause, Idle, One
  <2>4. QED
    BY <2>1, <2>2, <2>3
<1>9. Len(gmeMds') + x + a + b + y <= MdAlfAt + 2
  <2> HIDE DEF a, b, c, e, n, x, y
  <2>1. QED
    BY <1>1, <1>2, <1>3, <1>5, <1>6, <1>7, <1>8
<1>10. QED
  BY <1>4, <1>9 DEF MdLevel
-----------------------------------------------------------------------------
(***************************************************************************)
(* Indices and the packets that wait for them.                             *)
(***************************************************************************)

LEMMA AskingFinite ==
  ASSUME NEW q \in Seq(Md)
  PROVE  /\ IsFiniteSet(Asking(q)) /\ Cardinality(Asking(q)) \in Nat
         /\ Cardinality(Asking(q)) <= Len(q)
<1>1. IsFiniteSet(1 .. Len(q)) /\ Cardinality(1 .. Len(q)) = Len(q)
  <2>1. Len(q) \in Nat
    OBVIOUS
  <2>2. \A k \in Nat : IsFiniteSet(1 .. k) /\ Cardinality(1 .. k) = k
    BY FS_Interval
  <2>3. QED
    BY <2>1, <2>2
<1>2. Asking(q) \in SUBSET (1 .. Len(q))
  BY DEF Asking
<1>3. QED
  BY <1>1, <1>2, FS_Subset, FS_CardinalityType

LEMMA AskingAppend ==
  ASSUME NEW q \in Seq(Md), NEW m \in Md
  PROVE  Cardinality(Asking(Append(q, m)))
           = Cardinality(Asking(q)) + One(m.dmid = 3)
<1> DEFINE n == Len(q) + 1
<1>1. Len(Append(q, m)) = n /\ n \in Nat /\ n \notin Asking(q)
      /\ Append(q, m)[n] = m /\ \A i \in 1 .. Len(q) : Append(q, m)[i] = q[i]
  BY DEF Asking
<1>2. CASE m.dmid = 3
  <2>1. Asking(Append(q, m)) = Asking(q) \cup {n}
    BY <1>1, <1>2 DEF Asking
  <2>2. IsFiniteSet(Asking(q)) /\ Cardinality(Asking(q)) \in Nat
    BY AskingFinite
  <2>3. Cardinality(Asking(q) \cup {n}) = Cardinality(Asking(q)) + 1
    BY <1>1, <2>2, FS_AddElement
  <2>4. One(m.dmid = 3) = 1
    BY <1>2 DEF One
  <2>5. QED
    BY <2>1, <2>3, <2>4
<1>3. CASE m.dmid # 3
  <2>1. Asking(Append(q, m)) = Asking(q)
    BY <1>1, <1>3 DEF Asking
  <2>2. QED
    BY <2>1, <1>3, AskingFinite DEF One
<1>4. QED
  BY <1>2, <1>3

LEMMA AskingTail ==
  ASSUME NEW q \in Seq(Md), q # <<>>
  PROVE  Cardinality(Asking(Tail(q)))
           = Cardinality(Asking(q)) - One(q[1].dmid = 3)
<1> DEFINE A == Asking(q) \ {1}
           B == Asking(Tail(q))
           f == [i \in A |-> i - 1]
<1>1. /\ Len(q) \in Nat /\ Len(q) >= 1 /\ Len(Tail(q)) = Len(q) - 1
      /\ \A i \in 1 .. Len(q) - 1 : Tail(q)[i] = q[i + 1]
  OBVIOUS
<1>2. A \subseteq 2 .. Len(q)
  BY <1>1 DEF Asking
<1>3. f \in Bijection(A, B)
  <2>1. \A i \in A : i \in 2 .. Len(q) /\ q[i].dmid = 3
    BY <1>2 DEF Asking
  <2>2. ASSUME NEW i \in A PROVE i - 1 \in B
    <3>1. i - 1 \in 1 .. Len(q) - 1 /\ (i - 1) + 1 = i
      BY <2>1, <1>1
    <3>2. Tail(q)[i - 1] = q[i]
      BY <3>1, <1>1
    <3>3. QED
      BY <3>1, <3>2, <2>1, <1>1 DEF Asking
  <2>3. ASSUME NEW j \in B PROVE j + 1 \in A /\ j \in Nat /\ f[j + 1] = j
    <3>1. j \in 1 .. Len(q) - 1 /\ Tail(q)[j].dmid = 3
      BY <1>1 DEF Asking
    <3>2. QED
      BY <3>1, <1>1 DEF Asking
  <2>4. f \in [A -> B]
    BY <2>2
  <2>5. \A i, j \in A : f[i] = f[j] => i = j
    BY <2>1
  <2>6. \A j \in B : \E i \in A : f[i] = j
    BY <2>3
  <2>7. QED
    BY <2>4, <2>5, <2>6, Fun_IsBij
<1>4. IsFiniteSet(A) /\ Cardinality(A) = Cardinality(Asking(q)) - One(1 \in Asking(q))
  BY AskingFinite, FS_RemoveElement DEF One
<1>5. Cardinality(B) = Cardinality(A)
  BY <1>3, <1>4, FS_Bijection, Fun_ExistsBij
<1>6. (1 \in Asking(q)) = (q[1].dmid = 3)
  BY <1>1 DEF Asking
<1>7. QED
  BY <1>4, <1>5, <1>6

\* A FIFO with room: what is written counts, what is read counts no more.
LEMMA FifoAsking ==
  ASSUME NEW q \in Seq(Md), NEW rd \in BOOLEAN, NEW wr \in BOOLEAN,
         NEW m \in Md, NEW depth \in Nat, rd => q # <<>>, wr => Len(q) < depth,
         NEW f, f = FifoNext(q, rd, wr, m, depth)
  PROVE  Cardinality(Asking(f)) = Cardinality(Asking(q))
           + One(wr /\ m.dmid = 3) - One(rd /\ q[1].dmid = 3)
<1> DEFINE p == IF rd /\ q # <<>> THEN Tail(q) ELSE q
<1>1. p \in Seq(Md) /\ Cardinality(Asking(p)) \in Nat
      /\ Cardinality(Asking(q)) \in Nat
  <2>1. p \in Seq(Md)
    OBVIOUS
  <2>2. QED
    BY <2>1, AskingFinite
<1>2. f = IF wr THEN Append(p, m) ELSE p
  BY DEF FifoNext
<1>3. Cardinality(Asking(p)) = Cardinality(Asking(q)) - One(rd /\ q[1].dmid = 3)
  <2>1. CASE rd
    BY <2>1, AskingTail
  <2>2. CASE ~rd
    BY <1>1, <2>2 DEF One
  <2>3. QED
    BY <2>1, <2>2
<1> HIDE DEF p
<1>4. Cardinality(Asking(f)) = Cardinality(Asking(p)) + One(wr /\ m.dmid = 3)
  <2>1. CASE wr
    <3>1. f = Append(p, m)
      BY <1>2, <2>1
    <3>2. Cardinality(Asking(f)) = Cardinality(Asking(p)) + One(m.dmid = 3)
      BY <1>1, <3>1, AskingAppend
    <3>3. QED
      BY <2>1, <3>2
  <2>2. CASE ~wr
    BY <1>1, <1>2, <2>2 DEF One
  <2>3. QED
    BY <2>1, <2>2
<1>5. One(wr /\ m.dmid = 3) \in {0, 1} /\ One(rd /\ q[1].dmid = 3) \in {0, 1}
  BY DEF One
<1>6. QED
  BY <1>1, <1>3, <1>4, <1>5

\* So what gke sends finds room in gme.
LEMMA MdHasRoom ==
  ASSUME MdRoom, TypeOK, MdLevel
  PROVE  gkeMdOut.wr => Len(gmeMds) < MdDepth
<1> DEFINE n == Len(gmeMds)
           a == One(gppMdOut.wr)
           b == One(gkeMdDly.wr)
           c == One(gkeMdOut.wr)
           e == One(pin.wr)
<1>1. /\ a \in {0, 1} /\ b \in {0, 1} /\ c \in {0, 1} /\ e \in {0, 1}
      /\ gkeMdOut.wr => c = 1
  BY DEF One
<1>2. n \in Nat /\ MdAlfAt \in Nat /\ MdDepth \in Nat
  BY Strobes
<1>3. n + a + b + c + e <= MdAlfAt + 2 /\ MdAlfAt + 2 < MdDepth
  BY DEF MdLevel, MdRoom
<1> HIDE DEF n, a, b, c, e
<1>4. gkeMdOut.wr => n < MdDepth
  BY <1>1, <1>2, <1>3
<1>5. QED
  BY <1>4 DEF n

LEMMA IndexKept ==
  ASSUME MdRoom, FrontInv, MdLevel, IndexBalance, NEW answers \in BOOLEAN,
         TypeOK', Matcher(answers), GmeClock(gkeKeyOut, gkeMdOut, answer)
  PROVE  IndexBalance'
<1> USE DEF FrontInv
<1> DEFINE C == Cardinality(Asking(gmeMds))
           l == Len(lookups)
           x == Len(gmeIdxs)
           k == One(gmeKeyOut.wr)
           a == One(answer.wr)
           in == One(gkeMdOut.wr /\ gkeMdOut.dmid = 3)
           out == One(gmeState = "data" /\ gmeFlag)
<1>0. /\ gmeMds \in Seq(Md) /\ gmeIdxs \in Seq(Nat) /\ gkeMdOut \in Md
      /\ gmeRd \in BOOLEAN /\ gmeIdxRd \in BOOLEAN /\ gmeFlag \in BOOLEAN
      /\ answer.idx \in Nat /\ MdDepth \in Nat /\ MdAlfAt \in Nat
      /\ lookups \in Seq(0 .. MaxPkts) /\ gmeKeyOut.pkt \in Nat
      /\ Len(gmeMds) \in Nat /\ Len(gmeMds) <= MdDepth
      /\ gkeMdOut.wr \in BOOLEAN /\ answer.wr \in BOOLEAN
      /\ gmeKeyOut.wr \in BOOLEAN
  BY Strobes DEF TypeOK, GmeTypeOK, GkeTypeOK, IdxBus, KeyBus
<1>1. /\ C \in Nat /\ C <= Len(gmeMds) /\ l \in Nat /\ x \in Nat
      /\ k \in {0, 1} /\ a \in {0, 1} /\ in \in {0, 1} /\ out \in {0, 1}
  BY <1>0, AskingFinite DEF One
<1>2. l + x + k + a = C
  BY DEF IndexBalance
<1>3. gkeMdOut.wr => Len(gmeMds) < MdDepth
  BY MdHasRoom
<1>4. answer.wr => x < MdDepth
  BY <1>0, <1>1, <1>2 DEF One
<1>5. Cardinality(Asking(gmeMds')) = C + in - out
  <2>1. gmeRd => gmeMds # <<>>
    BY DEF Joining
  <2>2. gmeMds' = FifoNext(gmeMds, gmeRd, gkeMdOut.wr, gkeMdOut, MdDepth)
    BY DEF GmeClock
  <2>3. Cardinality(Asking(gmeMds')) = C + in - One(gmeRd /\ gmeMds[1].dmid = 3)
    BY <1>0, <1>3, <2>1, <2>2, FifoAsking
  <2>4. (gmeRd /\ gmeMds[1].dmid = 3) = (gmeState = "data" /\ gmeFlag)
    <3>1. gmeMds # <<>> => GmeHead = gmeMds[1]
      BY <1>0 DEF GmeHead, Front
    <3>2. QED
      BY <1>0, <3>1 DEF Joining
  <2>5. QED
    BY <2>3, <2>4
<1>6. Len(gmeIdxs') = x + a - out
  <2>1. gmeIdxs' = FifoNext(gmeIdxs, gmeIdxRd, answer.wr, answer.idx, MdDepth)
    BY DEF GmeClock
  <2>2. Len(gmeIdxs') = x + a - One(gmeIdxRd /\ gmeIdxs # <<>>)
    <3>1. answer.wr => Len(gmeIdxs) < MdDepth
      BY <1>4
    <3>2. QED
      BY <1>0, <2>1, <3>1, FifoLen, SMTT(30)
  <2>3. (gmeIdxRd /\ gmeIdxs # <<>>) = (gmeState = "data" /\ gmeFlag)
    BY <1>0 DEF Joining
  <2>4. QED
    BY <2>2, <2>3
<1>7. One(gmeKeyOut'.wr) = in
  BY DEF GmeClock, GmeKey, Keys
<1>8. Len(lookups') + One(answer'.wr) = l + k
  <2> DEFINE asked == IF gmeKeyOut.wr THEN Append(lookups, gmeKeyOut.pkt)
                                      ELSE lookups
  <2>1. asked \in Seq(Nat) /\ Len(asked) = l + k
    <3>1. lookups \in Seq(Nat)
      <4>1. 0 .. MaxPkts \subseteq Nat
        BY PipeAssumption
      <4>2. QED
        BY <1>0, <4>1, SeqMonotonic
    <3>2. QED
      BY <1>0, <3>1, AppendIs DEF One
  <2>2. lookups # <<>> => asked # <<>>
    <3>1. lookups # <<>> => l # 0
      BY <1>0, EmptySeq
    <3> HIDE DEF asked, l, k
    <3>2. lookups # <<>> => Len(asked) # 0
      BY <1>1, <2>1, <3>1
    <3>3. asked = <<>> => Len(asked) = 0
      OBVIOUS
    <3>4. QED
      BY <3>2, <3>3
  <2>3. \/ lookups # <<>> /\ answer'.wr = TRUE /\ lookups' = Tail(asked)
        \/ answer'.wr = FALSE /\ lookups' = asked
    BY DEF Matcher, NoAnswer
  <2> HIDE DEF asked
  <2>4. CASE lookups # <<>> /\ answer'.wr = TRUE /\ lookups' = Tail(asked)
    <3>1. Len(Tail(asked)) = Len(asked) - 1
      BY <2>1, <2>2, <2>4
    <3>2. Len(lookups') = l + k - 1 /\ One(answer'.wr) = 1
      BY <2>1, <2>4, <3>1 DEF One
    <3> HIDE DEF l, k
    <3>3. l \in Nat /\ k \in {0, 1}
      BY <1>1 DEF l, k
    <3>4. QED
      BY <3>2, <3>3
  <2>5. CASE answer'.wr = FALSE /\ lookups' = asked
    BY <1>1, <2>1, <2>5 DEF One
  <2>6. QED
    BY <2>3, <2>4, <2>5
<1>9. Len(lookups') \in Nat /\ One(answer'.wr) \in {0, 1}
  <2>1. One(answer'.wr) \in {0, 1}
    BY DEF One
  <2>2. QED
    BY <2>1 DEF TypeOK
<1>10. QED
  <2> HIDE DEF C, l, x, k, a, in, out
  <2>1. Len(lookups') + Len(gmeIdxs') + One(gmeKeyOut'.wr) + One(answer'.wr)
          = Cardinality(Asking(gmeMds'))
    BY <1>1, <1>2, <1>5, <1>6, <1>7, <1>8, <1>9
  <2>2. QED
    BY <2>1 DEF IndexBalance

MdInv == FrontInv /\ Spaced /\ MdLevel /\ IndexBalance

LEMMA MdHolds == Init => Spaced /\ MdLevel /\ IndexBalance
<1> SUFFICES ASSUME Init PROVE Spaced /\ MdLevel /\ IndexBalance
  OBVIOUS
<1>1. /\ gppMdOut.wr = FALSE /\ gkeMdDly.wr = FALSE /\ gkeMdOut.wr = FALSE
      /\ pin.wr = FALSE /\ gmeKeyOut.wr = FALSE /\ answer.wr = FALSE
      /\ gmeMds = <<>> /\ gmeIdxs = <<>> /\ lookups = <<>>
  BY DEF Init, GppInit, GkeInit, GmeInit, NoMd, Idle, NoKey, NoAnswer
<1>2. Len(gmeMds) = 0 /\ Len(gmeIdxs) = 0 /\ Len(lookups) = 0 /\ MdAlfAt \in Nat
  BY <1>1, PipeAssumption
<1>3. Cardinality(Asking(gmeMds)) = 0
  <2>1. Asking(gmeMds) = {}
    BY <1>2 DEF Asking
  <2>2. QED
    BY <2>1, FS_EmptySet
<1>4. Spaced
  BY <1>1 DEF Spaced
<1>5. MdLevel
  BY <1>1, <1>2 DEF MdLevel, One
<1>6. IndexBalance
  BY <1>1, <1>2, <1>3 DEF IndexBalance, One
<1>7. QED
  BY <1>4, <1>5, <1>6

LEMMA MdStep == MdRoom /\ MdInv /\ [Next]_vars => MdInv'
<1> SUFFICES ASSUME MdRoom, MdInv, [Next]_vars PROVE MdInv'
  OBVIOUS
<1> USE DEF MdInv
<1>1. FrontInv' /\ TypeOK'
  BY FrontStep DEF FrontInv
<1>2. CASE UNCHANGED vars
  BY <1>1, <1>2
  DEF vars, gppVars, dcVars, gkeVars, gmeVars, scmVars, gacVars, envVars,
      Spaced, MdLevel, IndexBalance
<1>3. CASE Next
  <2>1. PICK alf \in BOOLEAN, answers \in BOOLEAN : Clock(alf, answers) /\ StatReset
    BY <1>3 DEF Next
  <2>2. /\ PinContinue \/ PinHead \/ PinPause
        /\ Matcher(answers)
        /\ GppClock(pin, PinValid, KindOf(pin.pkt))
        /\ GkeClock(gppMdOut) /\ GmeClock(gkeKeyOut, gkeMdOut, answer)
    BY <2>1 DEF Clock, Hardware
  <2>3. Spaced'
    BY <2>2, SpacedKept
  <2>4. MdLevel'
    BY <2>2, MdLevelKept
  <2>5. IndexBalance'
    BY <1>1, <2>2, IndexKept
  <2>6. QED
    BY <1>1, <2>3, <2>4, <2>5
<1>4. QED
  BY <1>2, <1>3

(***************************************************************************)
(* If the almost-full level of gme's metadata FIFO leaves room for what is *)
(* on its way when the ports look at it, no metadata are lost there, and   *)
(* every packet that waits for an index has exactly one key or answer: the *)
(* indices never slip against the packets, however long the matcher takes. *)
(***************************************************************************)
THEOREM IndexPerPacket ==
  ASSUME MdRoom
  PROVE  Spec => []IndexBalance /\ [](gkeMdOut.wr => Len(gmeMds) < MdDepth)
<1>1. Init => MdInv
  BY FrontHolds, MdHolds DEF MdInv
<1>2. MdInv /\ [Next]_vars => MdInv'
  BY MdStep
<1>3. MdInv => IndexBalance /\ (gkeMdOut.wr => Len(gmeMds) < MdDepth)
  BY MdHasRoom DEF MdInv, FrontInv
<1>4. QED
  BY <1>1, <1>2, <1>3, PTL DEF Spec
-----------------------------------------------------------------------------
(***************************************************************************)
(* The words of packets in a FIFO.                                         *)
(***************************************************************************)

\* A FIFO and the word that is about to be written into it.
Line(q, o) == IF o.wr THEN Append(q, o) ELSE q

\* Words are those of packets that came and that gpp lets pass.
OfPacket(ks, w) ==
  /\ w \in Beat /\ w.wr /\ w.pkt \in 1 .. Len(ks) /\ Accepts(ks[w.pkt].dmid)
  /\ w.seq < ks[w.pkt].len /\ w.flag # "none"
  /\ (w.flag = "head") = (w.seq = 0)
  /\ (w.flag = "tail") = (w.seq = ks[w.pkt].len - 1)

\* They are in the order of the packets, those of a packet one by one.
InRuns(q) ==
  \A i, j \in 1 .. Len(q) : i < j =>
     \/ q[i].pkt < q[j].pkt
     \/ q[i].pkt = q[j].pkt /\ q[j].seq = q[i].seq + (j - i)

\* Every packet is there to its last word, but the one that still comes, and
\* from its first word, but the one that is being taken.
Complete(ks, q, open) ==
  \A i \in 1 .. Len(q) : q[i].pkt # open =>
    LET e == i + (ks[q[i].pkt].len - 1 - q[i].seq) IN
    e <= Len(q) /\ q[e].pkt = q[i].pkt
Headed(q, rest) ==
  \A i \in 1 .. Len(q) : q[i].pkt # rest =>
    q[i].seq < i /\ q[i - q[i].seq].pkt = q[i].pkt

Runs(ks, q, rest, open) ==
  /\ \A i \in 1 .. Len(q) : OfPacket(ks, q[i])
  /\ InRuns(q) /\ Complete(ks, q, open) /\ Headed(q, rest)

\* What OfPacket says, in numbers.
LEMMA WordIs ==
  ASSUME NEW ks \in Seq(AllKinds), NEW w, OfPacket(ks, w)
  PROVE  /\ w.pkt \in 1 .. Len(ks) /\ w.pkt \in Nat /\ w.pkt # 0 /\ w.wr = TRUE
         /\ ks[w.pkt] \in AllKinds
         /\ w.seq \in Nat /\ w.seq < ks[w.pkt].len
         /\ ks[w.pkt].len \in Nat /\ ks[w.pkt].len >= 6
         /\ (w.flag = "head") = (w.seq = 0)
         /\ (w.flag = "tail") = (w.seq = ks[w.pkt].len - 1)
         /\ w \in Beat /\ w # Idle
<1>1. w.pkt \in 1 .. Len(ks) /\ w \in Beat /\ w.wr
  BY DEF OfPacket
<1>2. ks[w.pkt] \in AllKinds /\ w.pkt \in Nat /\ w.pkt # 0
  BY <1>1
<1>3. w.wr = TRUE /\ w.seq \in Nat /\ w # Idle
  BY <1>1 DEF Beat, Idle
<1>4. QED
  BY <1>1, <1>2, <1>3, KindType DEF OfPacket

LEMMA RunWords ==
  ASSUME NEW ks \in Seq(AllKinds), NEW q \in Seq(Beat), NEW rest, NEW open,
         Runs(ks, q, rest, open)
  PROVE  /\ Len(q) \in Nat
         /\ \A i \in 1 .. Len(q) :
              /\ OfPacket(ks, q[i]) /\ q[i].pkt \in Nat /\ q[i].pkt # 0
              /\ q[i].pkt \in 1 .. Len(ks) /\ ks[q[i].pkt] \in AllKinds
              /\ q[i].seq \in Nat /\ q[i].seq < ks[q[i].pkt].len
              /\ ks[q[i].pkt].len \in Nat /\ ks[q[i].pkt].len >= 6
              /\ (q[i].flag = "tail") = (q[i].seq = ks[q[i].pkt].len - 1)
              /\ (q[i].flag = "head") = (q[i].seq = 0)
              /\ q[i] \in Beat /\ q[i].wr = TRUE
<1>1. ASSUME NEW w, OfPacket(ks, w)
      PROVE  /\ OfPacket(ks, w) /\ w.pkt \in Nat /\ w.pkt # 0
             /\ w.pkt \in 1 .. Len(ks) /\ ks[w.pkt] \in AllKinds
             /\ w.seq \in Nat /\ w.seq < ks[w.pkt].len
             /\ ks[w.pkt].len \in Nat /\ ks[w.pkt].len >= 6
             /\ (w.flag = "tail") = (w.seq = ks[w.pkt].len - 1)
             /\ (w.flag = "head") = (w.seq = 0)
             /\ w \in Beat /\ w.wr = TRUE
  BY <1>1, WordIs
<1>2. \A i \in 1 .. Len(q) : OfPacket(ks, q[i])
  BY DEF Runs
<1>3. QED
  BY <1>1, <1>2, Zenon, LenProperties

LEMMA LineNext ==
  ASSUME NEW q \in Seq(Beat), NEW rd \in BOOLEAN, NEW o \in Beat,
         NEW depth \in Nat, o.wr => Len(q) < depth, rd => q # <<>>,
         NEW f, f = FifoNext(q, rd, o.wr, o, depth)
  PROVE  /\ f = IF rd THEN Tail(Line(q, o)) ELSE Line(q, o)
         /\ f \in Seq(Beat) /\ Line(q, o) \in Seq(Beat)
         /\ Len(Line(q, o)) = Len(q) + One(o.wr)
         /\ \A i \in 1 .. Len(q) : Line(q, o)[i] = q[i]
         /\ o.wr => Line(q, o)[Len(q) + 1] = o
         /\ rd => Line(q, o) # <<>>
<1>1. CASE o.wr
  <2>1. /\ Line(q, o) = Append(q, o) /\ Append(q, o) \in Seq(Beat)
        /\ Len(Append(q, o)) = Len(q) + 1 /\ Append(q, o) # <<>>
        /\ \A i \in 1 .. Len(q) : Append(q, o)[i] = q[i]
        /\ Append(q, o)[Len(q) + 1] = o
    BY <1>1, AppendIs DEF Line
  <2>2. CASE rd
    <3>1. f = Append(Tail(q), o)
      BY <1>1, <2>2 DEF FifoNext
    <3>2. Append(Tail(q), o) = Tail(Append(q, o))
      BY <1>1, <2>2
    <3>3. f \in Seq(Beat)
      <4>1. Tail(q) \in Seq(Beat) /\ o \in Beat
        BY <1>1, <2>2
      <4>2. Append(Tail(q), o) \in Seq(Beat)
        BY <4>1, AppendIs
      <4>3. QED
        BY <3>1, <4>2, Zenon
    <3>4. QED
      BY <1>1, <2>1, <2>2, <3>1, <3>2, <3>3 DEF One
  <2>3. CASE ~rd
    <3>1. f = Append(q, o)
      BY <1>1, <2>3 DEF FifoNext
    <3>2. QED
      BY <1>1, <2>1, <2>3, <3>1 DEF One
  <2>4. QED
    BY <2>2, <2>3
<1>2. CASE ~o.wr
  <2>1. Line(q, o) = q /\ Len(q) = Len(q) + One(o.wr)
    BY <1>2 DEF Line, One
  <2>2. f = IF rd THEN Tail(q) ELSE q
    BY <1>2 DEF FifoNext
  <2>3. f \in Seq(Beat)
    BY <2>2
  <2>4. QED
    BY <1>2, <2>1, <2>2, <2>3
<1>3. o.wr \in BOOLEAN
  BY DEF Beat
<1>4. QED
  BY <1>1, <1>2, <1>3

\* The first word, and the one behind it.
LEMMA RunsFront ==
  ASSUME NEW ks \in Seq(AllKinds), NEW q \in Seq(Beat), NEW rest, NEW open,
         Runs(ks, q, rest, open), q # <<>>
  PROVE  /\ OfPacket(ks, q[1]) /\ 1 \in 1 .. Len(q)
         /\ q[1].pkt # rest => q[1].seq = 0
         /\ q[1].pkt # open /\ q[1].flag # "tail" =>
              /\ Len(q) >= 2 /\ q[2].pkt = q[1].pkt
              /\ q[2].seq = q[1].seq + 1
         /\ q[1].flag = "tail" =>
              \A i \in 1 .. Len(q) : i # 1 => q[i].pkt > q[1].pkt
         /\ \A i \in 1 .. Len(q) : q[i].pkt >= q[1].pkt
<1>1. Len(q) \in Nat /\ 1 \in 1 .. Len(q)
  BY EmptySeq
<1>2. \A i \in 1 .. Len(q) :
        /\ OfPacket(ks, q[i]) /\ q[i].pkt \in Nat /\ q[i].seq \in Nat
        /\ ks[q[i].pkt].len \in Nat /\ q[i].seq < ks[q[i].pkt].len
        /\ (q[i].flag = "tail") = (q[i].seq = ks[q[i].pkt].len - 1)
  BY WordIs DEF Runs
<1>3. q[1].pkt # rest => q[1].seq = 0
  BY <1>1, <1>2 DEF Runs, Headed
<1>4. \A i \in 1 .. Len(q) : i # 1 =>
         \/ q[1].pkt < q[i].pkt
         \/ q[1].pkt = q[i].pkt /\ q[i].seq = q[1].seq + (i - 1)
  BY <1>1 DEF Runs, InRuns
<1>5. ASSUME q[1].flag = "tail"
      PROVE  \A i \in 1 .. Len(q) : i # 1 => q[i].pkt > q[1].pkt
  <2>1. SUFFICES ASSUME NEW i \in 1 .. Len(q), i # 1, q[1].pkt = q[i].pkt,
                        q[i].seq = q[1].seq + (i - 1)
                 PROVE  FALSE
    BY <1>1, <1>2, <1>4
  <2>2. q[i].seq > q[1].seq /\ q[1].seq = ks[q[1].pkt].len - 1
    BY <1>1, <1>2, <1>5, <2>1
  <2>3. q[i].seq < ks[q[1].pkt].len
    BY <1>2, <2>1
  <2>4. QED
    BY <1>1, <1>2, <2>2, <2>3
<1>6. ASSUME q[1].pkt # open, q[1].flag # "tail"
      PROVE  Len(q) >= 2 /\ q[2].pkt = q[1].pkt /\ q[2].seq = q[1].seq + 1
  <2> DEFINE e == 1 + (ks[q[1].pkt].len - 1 - q[1].seq)
  <2>1. e <= Len(q) /\ q[e].pkt = q[1].pkt
    BY <1>1, <1>6 DEF Runs, Complete
  <2>2. e \in Nat /\ e >= 2
    BY <1>1, <1>2, <1>6, SMTT(30)
  <2> HIDE DEF e
  <2>3. Len(q) >= 2 /\ 2 \in 1 .. Len(q) /\ e \in 1 .. Len(q)
    BY <1>1, <2>1, <2>2
  <2>4. q[2].pkt <= q[e].pkt
    <3>1. CASE e = 2
      BY <1>2, <2>3, <3>1
    <3>2. CASE e # 2
      <4>1. 2 < e
        BY <2>2, <3>2
      <4>2. q[2].pkt < q[e].pkt \/ q[2].pkt = q[e].pkt
        BY <2>3, <4>1 DEF Runs, InRuns
      <4>3. QED
        BY <1>2, <2>3, <4>2
    <3>3. QED
      BY <3>1, <3>2
  <2>5. q[2].pkt = q[1].pkt
    <3>1. q[2].pkt <= q[1].pkt /\ q[1].pkt \in Nat /\ q[2].pkt \in Nat
      BY <1>1, <1>2, <2>1, <2>3, <2>4
    <3>2. q[1].pkt < q[2].pkt \/ q[1].pkt = q[2].pkt
      BY <1>4, <2>3
    <3>3. QED
      BY <3>1, <3>2
  <2>6. q[2].seq = q[1].seq + (2 - 1)
    BY <1>1, <1>2, <1>4, <2>3, <2>5
  <2>7. QED
    BY <1>1, <1>2, <2>3, <2>5, <2>6
<1>7. \A i \in 1 .. Len(q) : q[i].pkt >= q[1].pkt
  BY <1>1, <1>2, <1>4
<1>8. QED
  BY <1>1, <1>2, <1>3, <1>5, <1>6, <1>7

\* The first word is taken.
LEMMA RunsTail ==
  ASSUME NEW ks \in Seq(AllKinds), NEW q \in Seq(Beat), NEW rest \in Nat,
         NEW open, Runs(ks, q, rest, open), q # <<>>,
         rest = 0 \/ rest = q[1].pkt
  PROVE  Runs(ks, Tail(q), IF q[1].flag = "tail" THEN 0 ELSE q[1].pkt, open)
<1> DEFINE t == Tail(q)
<1>1. /\ Len(q) \in Nat /\ Len(t) = Len(q) - 1 /\ 1 \in 1 .. Len(q)
      /\ \A i \in 1 .. Len(t) : t[i] = q[i + 1] /\ i + 1 \in 1 .. Len(q)
  BY EmptySeq
<1>2. \A i \in 1 .. Len(q) :
        /\ OfPacket(ks, q[i]) /\ q[i].pkt \in Nat /\ q[i].seq \in Nat
        /\ q[i].pkt # 0
        /\ ks[q[i].pkt].len \in Nat /\ q[i].seq < ks[q[i].pkt].len
        /\ (q[i].flag = "tail") = (q[i].seq = ks[q[i].pkt].len - 1)
  BY WordIs DEF Runs
<1> HIDE DEF t
<1>3. \A i \in 1 .. Len(t) : OfPacket(ks, t[i])
  BY <1>1, <1>2
<1>4. InRuns(t)
  <2>1. SUFFICES ASSUME NEW i \in 1 .. Len(t), NEW j \in 1 .. Len(t), i < j
                 PROVE  \/ t[i].pkt < t[j].pkt
                        \/ t[i].pkt = t[j].pkt /\ t[j].seq = t[i].seq + (j - i)
    BY DEF InRuns
  <2>2. \/ q[i + 1].pkt < q[j + 1].pkt
        \/ /\ q[i + 1].pkt = q[j + 1].pkt
           /\ q[j + 1].seq = q[i + 1].seq + ((j + 1) - (i + 1))
    BY <1>1, <2>1 DEF Runs, InRuns
  <2>3. i \in Int /\ j \in Int
    OBVIOUS
  <2>4. (j + 1) - (i + 1) = j - i
    BY <2>3
  <2>5. t[i] = q[i + 1] /\ t[j] = q[j + 1]
    BY <1>1
  <2>6. QED
    BY <2>2, <2>4, <2>5
<1>5. Complete(ks, t, open)
  <2>1. SUFFICES ASSUME NEW i \in 1 .. Len(t), t[i].pkt # open
                 PROVE  LET e == i + (ks[t[i].pkt].len - 1 - t[i].seq) IN
                        e <= Len(t) /\ t[e].pkt = t[i].pkt
    BY DEF Complete
  <2> DEFINE d == ks[q[i + 1].pkt].len - 1 - q[i + 1].seq
  <2>2. t[i] = q[i + 1] /\ i + 1 \in 1 .. Len(q) /\ d \in Nat
    BY <1>1, <1>2, SMTT(30)
  <2>3. (i + 1) + d <= Len(q) /\ q[(i + 1) + d].pkt = q[i + 1].pkt
    BY <2>1, <2>2 DEF Runs, Complete
  <2> HIDE DEF d
  <2>4. i + d <= Len(t) /\ i + d \in 1 .. Len(t) /\ (i + d) + 1 = (i + 1) + d
    BY <1>1, <2>2, <2>3
  <2>5. t[i + d] = q[(i + 1) + d]
    BY <1>1, <2>4
  <2>6. QED
    BY <2>2, <2>3, <2>4, <2>5 DEF d
<1>6. Headed(t, IF q[1].flag = "tail" THEN 0 ELSE q[1].pkt)
  <2>1. SUFFICES ASSUME NEW i \in 1 .. Len(t),
                        t[i].pkt # IF q[1].flag = "tail" THEN 0 ELSE q[1].pkt
                 PROVE  t[i].seq < i /\ t[i - t[i].seq].pkt = t[i].pkt
    BY DEF Headed
  <2>2. t[i] = q[i + 1] /\ i + 1 \in 1 .. Len(q) /\ i + 1 # 1
    BY <1>1
  <2>3. q[i + 1].pkt # q[1].pkt
    <3>1. CASE q[1].flag = "tail"
      <4>1. q[i + 1].pkt > q[1].pkt
        BY <2>2, <3>1, RunsFront
      <4>2. QED
        BY <1>1, <1>2, <2>2, <4>1
    <3>2. CASE q[1].flag # "tail"
      BY <2>1, <2>2, <3>2
    <3>3. QED
      BY <3>1, <3>2
  <2>4. q[i + 1].pkt # rest
    BY <1>2, <2>2, <2>3
  <2> DEFINE s == q[i + 1].seq
  <2>5. s < i + 1 /\ q[(i + 1) - s].pkt = q[i + 1].pkt /\ s \in Nat
    BY <1>2, <2>2, <2>4 DEF Runs, Headed
  <2>6. (i + 1) - s # 1
    BY <2>3, <2>5
  <2> HIDE DEF s
  <2>7. s < i /\ i - s \in 1 .. Len(t) /\ (i - s) + 1 = (i + 1) - s
    BY <1>1, <2>5, <2>6
  <2>8. t[i - s] = q[(i + 1) - s]
    BY <1>1, <2>7
  <2>9. QED
    BY <2>2, <2>5, <2>7, <2>8 DEF s
<1>7. QED
  BY <1>3, <1>4, <1>5, <1>6 DEF Runs, t

\* A word is put at the end: the next one of its packet, or a first one.
Follows(q, w, open) ==
  IF w.seq = 0 THEN open = 0 /\ \A i \in 1 .. Len(q) : q[i].pkt < w.pkt
  ELSE /\ open = w.pkt /\ q # <<>>
       /\ q[Len(q)].pkt = w.pkt /\ q[Len(q)].seq = w.seq - 1

LEMMA RunsAppend ==
  ASSUME NEW ks \in Seq(AllKinds), NEW q \in Seq(Beat), NEW rest,
         NEW open, Runs(ks, q, rest, open), NEW w, OfPacket(ks, w),
         Follows(q, w, open)
  PROVE  Runs(ks, Append(q, w), rest, IF w.flag = "tail" THEN 0 ELSE w.pkt)
<1> DEFINE t == Append(q, w)
           n == Len(q) + 1
<1>0. w \in Beat
  BY WordIs
<1>1. /\ Len(q) \in Nat /\ Len(t) = n /\ n \in 1 .. n /\ t[n] = w
      /\ \A i \in 1 .. Len(q) : t[i] = q[i]
      /\ \A i \in 1 .. n : i # n => i \in 1 .. Len(q)
  BY <1>0
<1>2. \A i \in 1 .. Len(q) :
        /\ OfPacket(ks, q[i]) /\ q[i].pkt \in Nat /\ q[i].seq \in Nat
        /\ q[i].pkt # 0
        /\ ks[q[i].pkt].len \in Nat /\ q[i].seq < ks[q[i].pkt].len
  BY WordIs DEF Runs
<1>3. /\ w.pkt \in Nat /\ w.pkt # 0 /\ w.seq \in Nat
      /\ ks[w.pkt].len \in Nat /\ w.seq < ks[w.pkt].len
      /\ (w.flag = "tail") = (w.seq = ks[w.pkt].len - 1)
  BY WordIs
<1> HIDE DEF t
<1>4. \A i \in 1 .. Len(t) : OfPacket(ks, t[i])
  BY <1>1, <1>2
<1>5. \A i \in 1 .. Len(q) :
         q[i].pkt < w.pkt \/ (q[i].pkt = w.pkt /\ w.seq = q[i].seq + (n - i))
  <2>1. SUFFICES ASSUME NEW i \in 1 .. Len(q)
                 PROVE  q[i].pkt < w.pkt
                        \/ (q[i].pkt = w.pkt /\ w.seq = q[i].seq + (n - i))
    OBVIOUS
  <2>2. CASE w.seq = 0
    BY <2>2 DEF Follows
  <2>3. CASE w.seq # 0
    <3>1. /\ Len(q) \in 1 .. Len(q)
          /\ q[Len(q)].pkt = w.pkt /\ q[Len(q)].seq = w.seq - 1
      BY <1>1, <2>1, <2>3 DEF Follows
    <3>2. CASE i = Len(q)
      BY <1>1, <1>3, <3>1, <3>2
    <3>3. CASE i # Len(q)
      <4>1. i < Len(q)
        BY <1>1, <3>3
      <4>2. \/ q[i].pkt < q[Len(q)].pkt
            \/ /\ q[i].pkt = q[Len(q)].pkt
               /\ q[Len(q)].seq = q[i].seq + (Len(q) - i)
        BY <3>1, <4>1 DEF Runs, InRuns
      <4>3. CASE q[i].pkt = w.pkt /\ w.seq - 1 = q[i].seq + (Len(q) - i)
        <5> DEFINE l == Len(q)
                   a == q[i].seq
                   b == w.seq
        <5>1. a \in Nat /\ i \in Nat /\ b \in Nat /\ l \in Nat
              /\ b - 1 = a + (l - i)
          BY <1>1, <1>2, <1>3, <4>3
        <5> HIDE DEF a, b, l
        <5>2. b = a + ((l + 1) - i)
          BY <5>1
        <5> USE DEF a, b, l
        <5>3. QED
          BY <4>3, <5>2
      <4>4. QED
        BY <3>1, <4>2, <4>3
    <3>4. QED
      BY <3>2, <3>3
  <2>4. QED
    BY <2>2, <2>3
<1>6. InRuns(t)
  <2>1. SUFFICES ASSUME NEW i \in 1 .. n, NEW j \in 1 .. n, i < j
                 PROVE  \/ t[i].pkt < t[j].pkt
                        \/ t[i].pkt = t[j].pkt /\ t[j].seq = t[i].seq + (j - i)
    BY <1>1 DEF InRuns
  <2>2. i \in 1 .. Len(q) /\ t[i] = q[i]
    BY <1>1, <2>1
  <2>3. CASE j = n
    BY <1>1, <1>5, <2>2, <2>3
  <2>4. CASE j # n
    <3>1. j \in 1 .. Len(q) /\ t[j] = q[j]
      BY <1>1, <2>4
    <3>2. QED
      BY <2>1, <2>2, <3>1 DEF Runs, InRuns
  <2>5. QED
    BY <2>3, <2>4
<1>7. Complete(ks, t, IF w.flag = "tail" THEN 0 ELSE w.pkt)
  <2>1. SUFFICES ASSUME NEW i \in 1 .. n,
                        t[i].pkt # IF w.flag = "tail" THEN 0 ELSE w.pkt
                 PROVE  LET e == i + (ks[t[i].pkt].len - 1 - t[i].seq) IN
                        e <= Len(t) /\ t[e].pkt = t[i].pkt
    BY <1>1 DEF Complete
  <2>2. CASE t[i].pkt = w.pkt
    <3>1. w.seq = ks[w.pkt].len - 1
      BY <1>3, <2>1, <2>2
    <3>2. t[i].seq = w.seq - (n - i) /\ t[i].seq \in Nat
      <4>1. CASE i = n
        BY <1>1, <1>3, <4>1
      <4>2. CASE i # n
        <5>1. i \in 1 .. Len(q) /\ t[i] = q[i]
          BY <1>1, <4>2
        <5>2. w.seq = q[i].seq + (n - i)
          BY <1>2, <1>3, <1>5, <2>2, <5>1
        <5>3. QED
          BY <1>1, <1>2, <1>3, <5>1, <5>2
      <4>3. QED
        BY <4>1, <4>2
    <3>3. i + (ks[t[i].pkt].len - 1 - t[i].seq) = n
      <4>1. ks[t[i].pkt].len - 1 = w.seq /\ i \in Nat /\ n \in Nat
        BY <1>1, <2>2, <3>1
      <4>2. i + (w.seq - t[i].seq) = n
        BY <1>3, <3>2, <4>1
      <4>3. QED
        BY <4>1, <4>2
    <3>4. QED
      BY <1>1, <2>2, <3>3
  <2>3. CASE t[i].pkt # w.pkt
    <3>1. i \in 1 .. Len(q) /\ t[i] = q[i]
      BY <1>1, <2>3
    <3> DEFINE e == i + (ks[q[i].pkt].len - 1 - q[i].seq)
    <3>2. q[i].pkt # open
      <4>1. q[i].pkt < w.pkt
        BY <1>5, <2>3, <3>1
      <4>2. open \in {0, w.pkt}
        BY DEF Follows
      <4>3. QED
        BY <1>2, <1>3, <3>1, <4>1, <4>2
    <3>3. e <= Len(q) /\ q[e].pkt = q[i].pkt
      BY <3>1, <3>2 DEF Runs, Complete
    <3>4. e \in 1 .. Len(q)
      <4>1. /\ ks[q[i].pkt].len \in Nat /\ q[i].seq \in Nat
            /\ q[i].seq < ks[q[i].pkt].len
        BY <1>2, <3>1
      <4>2. e \in Nat /\ e >= 1
        BY <3>1, <4>1
      <4> HIDE DEF e
      <4>3. QED
        BY <1>1, <3>3, <4>2
    <3> HIDE DEF e
    <3>5. e <= Len(t) /\ t[e].pkt = t[i].pkt
      BY <1>1, <3>1, <3>3, <3>4
    <3>6. QED
      BY <3>1, <3>5 DEF e
  <2>4. QED
    BY <2>2, <2>3
<1>8. Headed(t, rest)
  <2>1. SUFFICES ASSUME NEW i \in 1 .. n, t[i].pkt # rest
                 PROVE  t[i].seq < i /\ t[i - t[i].seq].pkt = t[i].pkt
    BY <1>1 DEF Headed
  <2>2. CASE i # n
    <3>1. i \in 1 .. Len(q) /\ t[i] = q[i]
      BY <1>1, <2>2
    <3>2. q[i].seq < i /\ q[i - q[i].seq].pkt = q[i].pkt
      BY <2>1, <3>1 DEF Runs, Headed
    <3>3. i - q[i].seq \in 1 .. Len(q)
      BY <1>1, <1>2, <3>1, <3>2
    <3>4. QED
      BY <1>1, <3>1, <3>2, <3>3
  <2>3. CASE i = n /\ w.seq = 0
    BY <1>1, <2>3
  <2>4. CASE i = n /\ w.seq # 0
    <3> DEFINE l == Len(q)
               s == q[l].seq
    <3>1. /\ l \in 1 .. l /\ q[l].pkt = w.pkt /\ s = w.seq - 1 /\ s \in Nat
      BY <1>1, <1>2, <1>3, <2>4, EmptySeq DEF Follows
    <3>2. q[l].pkt # rest
      BY <1>1, <2>1, <2>4, <3>1
    <3>3. s < l /\ q[l - s].pkt = q[l].pkt
      BY <3>1, <3>2 DEF Runs, Headed
    <3>4. l \in Nat /\ n = l + 1 /\ s < l
      BY <1>1, <3>3
    <3> HIDE DEF s, l, n
    <3>5. l - s \in 1 .. l /\ n - w.seq = l - s /\ w.seq < n
      BY <1>3, <3>1, <3>4, SMTT(30)
    <3>6. t[n - w.seq] = q[l - s]
      BY <1>1, <3>5 DEF l
    <3>7. QED
      BY <1>1, <2>4, <3>1, <3>3, <3>5, <3>6
  <2>5. QED
    BY <2>2, <2>3, <2>4
<1>9. QED
  BY <1>4, <1>6, <1>7, <1>8 DEF Runs, t

\* Packets that come later change nothing.
LEMMA RunsGrow ==
  ASSUME NEW ks \in Seq(AllKinds), NEW ls \in Seq(AllKinds),
         1 .. Len(ks) \subseteq 1 .. Len(ls),
         \A i \in 1 .. Len(ks) : ls[i] = ks[i],
         NEW q \in Seq(Beat), NEW rest, NEW open, Runs(ks, q, rest, open)
  PROVE  Runs(ls, q, rest, open)
<1>1. \A i \in 1 .. Len(q) : OfPacket(ks, q[i]) /\ q[i].pkt \in 1 .. Len(ks)
  BY DEF Runs, OfPacket
<1>2. \A i \in 1 .. Len(q) : ls[q[i].pkt] = ks[q[i].pkt]
  BY <1>1
<1>3. \A i \in 1 .. Len(q) : OfPacket(ls, q[i])
  BY <1>1, <1>2 DEF OfPacket
<1>4. Complete(ls, q, open)
  BY <1>2 DEF Runs, Complete
<1>5. QED
  BY <1>3, <1>4 DEF Runs
-----------------------------------------------------------------------------
(***************************************************************************)
(* The packets that are in a FIFO to their last words, and their bits in   *)
(* the FIFO of valid bits.                                                 *)
(***************************************************************************)

Ends(q) == {q[i].pkt : i \in {j \in 1 .. Len(q) : q[j].flag = "tail"}}

\* One bit for each packet of A, in their order.
Valids(ks, V, A) ==
  \E nos \in [1 .. Len(V) -> 1 .. Len(ks)] :
    /\ \A i \in 1 .. Len(V) : V[i] = ks[nos[i]].good
    /\ \A i, j \in 1 .. Len(V) : i < j => nos[i] < nos[j]
    /\ A = {nos[i] : i \in 1 .. Len(V)}

\* The packet that still comes is the last one.
Open(q, open) ==
  open # 0 => /\ q # <<>> /\ q[Len(q)].pkt = open
              /\ q[Len(q)].flag # "tail"

LEMMA EndIn ==
  ASSUME NEW q, NEW p
  PROVE  p \in Ends(q) <=>
           \E i \in 1 .. Len(q) : q[i].pkt = p /\ q[i].flag = "tail"
BY DEF Ends

LEMMA EndsTail ==
  ASSUME NEW ks \in Seq(AllKinds), NEW q \in Seq(Beat), NEW rest, NEW open,
         Runs(ks, q, rest, open), q # <<>>
  PROVE  Ends(Tail(q)) = IF q[1].flag = "tail" THEN Ends(q) \ {q[1].pkt}
                                               ELSE Ends(q)
<1> DEFINE t == Tail(q)
<1>1. /\ Len(q) \in Nat /\ Len(t) = Len(q) - 1 /\ 1 \in 1 .. Len(q)
      /\ \A i \in 1 .. Len(t) : t[i] = q[i + 1] /\ i + 1 \in 1 .. Len(q)
                                /\ i + 1 # 1
      /\ \A i \in 1 .. Len(q) : i # 1 => i - 1 \in 1 .. Len(t)
                                         /\ t[i - 1] = q[i]
  <2>1. /\ Len(q) \in Nat /\ Len(t) = Len(q) - 1 /\ 1 \in 1 .. Len(q)
        /\ \A i \in 1 .. Len(t) : t[i] = q[i + 1]
    BY EmptySeq
  <2>2. \A i \in 1 .. Len(q) : i # 1 => i - 1 \in 1 .. Len(t) /\ (i - 1) + 1 = i
    BY <2>1
  <2>3. \A i \in 1 .. Len(t) : i + 1 \in 1 .. Len(q) /\ i + 1 # 1
    BY <2>1
  <2>4. QED
    BY <2>1, <2>2, <2>3
<1> HIDE DEF t
<1>2. \A p : p \in Ends(t) <=>
         \E i \in 1 .. Len(q) : i # 1 /\ q[i].pkt = p /\ q[i].flag = "tail"
  <2>1. ASSUME NEW p, p \in Ends(t)
        PROVE  \E i \in 1 .. Len(q) : i # 1 /\ q[i].pkt = p /\ q[i].flag = "tail"
    <3>1. PICK i \in 1 .. Len(t) : t[i].pkt = p /\ t[i].flag = "tail"
      BY <2>1, EndIn
    <3>2. i + 1 \in 1 .. Len(q) /\ i + 1 # 1 /\ q[i + 1] = t[i]
      BY <1>1
    <3>3. QED
      BY <3>1, <3>2
  <2>2. ASSUME NEW p, NEW i \in 1 .. Len(q), i # 1, q[i].pkt = p,
               q[i].flag = "tail"
        PROVE  p \in Ends(t)
    <3>1. i - 1 \in 1 .. Len(t) /\ t[i - 1] = q[i]
      BY <1>1, <2>2
    <3>2. QED
      BY <2>2, <3>1, EndIn
  <2>3. QED
    BY <2>1, <2>2
<1>3. CASE q[1].flag = "tail"
  <2>1. \A i \in 1 .. Len(q) : i # 1 => q[i].pkt # q[1].pkt
    <3>1. \A i \in 1 .. Len(q) : i # 1 => q[i].pkt > q[1].pkt
      BY <1>3, RunsFront
    <3>2. \A i \in 1 .. Len(q) : q[i].pkt \in Nat
      BY WordIs DEF Runs
    <3>3. QED
      BY <1>1, <3>1, <3>2
  <2>2. \A p : p \in Ends(t) <=> p \in Ends(q) /\ p # q[1].pkt
    BY <1>2, <2>1, EndIn
  <2>3. QED
    BY <1>3, <2>2 DEF t
<1>4. CASE q[1].flag # "tail"
  <2>1. \A p : p \in Ends(t) <=> p \in Ends(q)
    BY <1>2, <1>4, EndIn
  <2>2. QED
    BY <1>4, <2>1 DEF t
<1>5. QED
  BY <1>3, <1>4

LEMMA EndsAppend ==
  ASSUME NEW q \in Seq(Beat), NEW w \in Beat
  PROVE  Ends(Append(q, w)) =
           Ends(q) \cup (IF w.flag = "tail" THEN {w.pkt} ELSE {})
<1> DEFINE t == Append(q, w)
           n == Len(q) + 1
<1>1. /\ Len(q) \in Nat /\ Len(t) = n /\ n \in 1 .. n /\ t[n] = w
      /\ \A i \in 1 .. Len(q) : t[i] = q[i] /\ i \in 1 .. n
      /\ \A i \in 1 .. n : i # n => i \in 1 .. Len(q)
  OBVIOUS
<1> HIDE DEF t
<1>2. ASSUME NEW p
      PROVE  p \in Ends(t) <=> p \in Ends(q) \/ (p = w.pkt /\ w.flag = "tail")
  <2>1. ASSUME NEW i \in 1 .. n, t[i].pkt = p, t[i].flag = "tail"
        PROVE  p \in Ends(q) \/ (p = w.pkt /\ w.flag = "tail")
    BY <1>1, <2>1, EndIn
  <2>2. ASSUME NEW i \in 1 .. Len(q), q[i].pkt = p, q[i].flag = "tail"
        PROVE  p \in Ends(t)
    BY <1>1, <2>2, EndIn
  <2>3. ASSUME p = w.pkt, w.flag = "tail" PROVE p \in Ends(t)
    BY <1>1, <2>3, EndIn
  <2>4. QED
    BY <1>1, <2>1, <2>2, <2>3, EndIn
<1>3. QED
  BY <1>2 DEF t

\* A packet that does not still come is there to its last word.
LEMMA RunsEnd ==
  ASSUME NEW ks \in Seq(AllKinds), NEW q \in Seq(Beat), NEW rest, NEW open,
         Runs(ks, q, rest, open), NEW i \in 1 .. Len(q), q[i].pkt # open
  PROVE  \E e \in 1 .. Len(q) : q[e].pkt = q[i].pkt /\ q[e].flag = "tail"
<1> DEFINE d == ks[q[i].pkt].len - 1 - q[i].seq
<1>1. /\ OfPacket(ks, q[i]) /\ q[i].pkt \in Nat /\ q[i].seq \in Nat
      /\ ks[q[i].pkt].len \in Nat /\ q[i].seq < ks[q[i].pkt].len
      /\ Len(q) \in Nat
  BY RunWords
<1>2. d \in Nat /\ q[i].seq + d = ks[q[i].pkt].len - 1
  BY <1>1, SMTT(30)
<1>3. i + d <= Len(q) /\ q[i + d].pkt = q[i].pkt
  BY DEF Runs, Complete
<1> HIDE DEF d
<1>4. i + d \in 1 .. Len(q)
  BY <1>1, <1>2, <1>3
<1>5. q[i + d].seq = ks[q[i].pkt].len - 1
  <2>1. CASE d = 0
    <3>1. i + d = i
      BY <2>1
    <3>2. QED
      BY <1>1, <1>2, <2>1, <3>1
  <2>2. CASE d # 0
    <3>1. i < i + d /\ (i + d) - i = d
      BY <1>2, <2>2
    <3>2. \/ q[i].pkt < q[i + d].pkt
          \/ q[i + d].seq = q[i].seq + ((i + d) - i)
      BY <1>4, <3>1 DEF Runs, InRuns
    <3>3. ~(q[i].pkt < q[i + d].pkt)
      BY <1>1, <1>3
    <3>4. QED
      BY <1>2, <3>1, <3>2, <3>3
  <2>3. QED
    BY <2>1, <2>2
<1>6. q[i + d].flag = "tail"
  <2>1. (q[i + d].flag = "tail") = (q[i + d].seq = ks[q[i + d].pkt].len - 1)
    BY <1>4, RunWords
  <2>2. QED
    BY <1>3, <1>5, <2>1
<1>7. QED
  BY <1>3, <1>4, <1>6

LEMMA OpenLast ==
  ASSUME NEW ks \in Seq(AllKinds), NEW q \in Seq(Beat), NEW rest, NEW open,
         Runs(ks, q, rest, open), Open(q, open), open # 0
  PROVE  /\ \A i \in 1 .. Len(q) : q[i].pkt <= open
         /\ open \notin Ends(q) /\ open \in Nat
<1> DEFINE l == Len(q)
<1>1. l \in 1 .. l /\ l \in Nat /\ q[l].pkt = open /\ q[l].flag # "tail"
  BY EmptySeq DEF Open
<1>2. \A i \in 1 .. l :
        /\ OfPacket(ks, q[i]) /\ q[i].pkt \in Nat /\ q[i].seq \in Nat
        /\ ks[q[i].pkt].len \in Nat /\ q[i].seq < ks[q[i].pkt].len
        /\ (q[i].flag = "tail") = (q[i].seq = ks[q[i].pkt].len - 1)
  BY WordIs DEF Runs
<1>3. \A i \in 1 .. l : i # l =>
         \/ q[i].pkt < q[l].pkt
         \/ q[i].pkt = q[l].pkt /\ q[l].seq = q[i].seq + (l - i)
  BY <1>1 DEF Runs, InRuns
<1>4. \A i \in 1 .. l : q[i].pkt <= open
  BY <1>1, <1>2, <1>3
<1>5. ASSUME NEW i \in 1 .. l, q[i].pkt = open, q[i].flag = "tail"
      PROVE  FALSE
  <2>1. i # l /\ l - i > 0
    BY <1>1, <1>5
  <2>2. q[l].seq = q[i].seq + (l - i)
    BY <1>1, <1>2, <1>3, <1>5, <2>1
  <2>3. q[i].seq = ks[open].len - 1 /\ q[l].seq < ks[open].len
    BY <1>1, <1>2, <1>5
  <2>4. ks[open].len \in Nat
    BY <1>1, <1>2
  <2>5. QED
    BY <2>1, <2>2, <2>3, <2>4
<1>6. open \notin Ends(q)
  <2>1. ~ \E i \in 1 .. Len(q) : q[i].pkt = open /\ q[i].flag = "tail"
    BY <1>5
  <2>2. QED
    BY <2>1, EndIn
<1>7. open \in Nat
  BY <1>1, <1>2
<1>8. QED
  BY <1>4, <1>6, <1>7

LEMMA ValidsPop ==
  ASSUME NEW ks \in Seq(AllKinds), NEW V \in Seq(BOOLEAN), NEW A,
         Valids(ks, V, A), V # <<>>, NEW a \in A, \A b \in A : a <= b
  PROVE  V[1] = ks[a].good /\ Valids(ks, Tail(V), A \ {a})
<1>1. PICK nos \in [1 .. Len(V) -> 1 .. Len(ks)] :
        /\ \A i \in 1 .. Len(V) : V[i] = ks[nos[i]].good
        /\ \A i, j \in 1 .. Len(V) : i < j => nos[i] < nos[j]
        /\ A = {nos[i] : i \in 1 .. Len(V)}
  BY DEF Valids
<1> DEFINE T == Tail(V)
           ns == [i \in 1 .. Len(T) |-> nos[i + 1]]
<1>2. /\ Len(V) \in Nat /\ Len(T) = Len(V) - 1 /\ 1 \in 1 .. Len(V)
      /\ \A i \in 1 .. Len(T) : T[i] = V[i + 1]
  BY EmptySeq
<1>3. \A i \in 1 .. Len(T) : i + 1 \in 1 .. Len(V) /\ i + 1 # 1
  BY <1>2
<1>4. \A i \in 1 .. Len(V) : i # 1 => i - 1 \in 1 .. Len(T) /\ (i - 1) + 1 = i
  BY <1>2
<1>5. \A i \in 1 .. Len(V) : nos[i] \in Nat /\ (i # 1 => nos[1] < nos[i])
  BY <1>1, <1>2
<1>6. nos[1] = a
  <2>1. PICK i \in 1 .. Len(V) : a = nos[i]
    BY <1>1
  <2>2. nos[1] \in A
    BY <1>1, <1>2
  <2>3. QED
    BY <1>2, <1>5, <2>1, <2>2
<1> HIDE DEF T
<1>7. ns \in [1 .. Len(T) -> 1 .. Len(ks)]
  BY <1>3
<1>8. \A i \in 1 .. Len(T) : T[i] = ks[ns[i]].good
  BY <1>1, <1>2, <1>3
<1>9. \A i, j \in 1 .. Len(T) : i < j => ns[i] < ns[j]
  BY <1>1, <1>2, <1>3
<1>10. A \ {a} = {ns[i] : i \in 1 .. Len(T)}
  <2>1. ASSUME NEW b \in A, b # a PROVE \E i \in 1 .. Len(T) : b = ns[i]
    <3>1. PICK i \in 1 .. Len(V) : b = nos[i]
      BY <1>1
    <3>2. i # 1
      BY <1>6, <2>1, <3>1
    <3>3. i - 1 \in 1 .. Len(T) /\ (i - 1) + 1 = i
      BY <1>4, <3>2
    <3>4. ns[i - 1] = nos[i]
      BY <3>3
    <3>5. QED
      BY <3>1, <3>3, <3>4
  <2>2. ASSUME NEW i \in 1 .. Len(T) PROVE ns[i] \in A /\ ns[i] # a
    <3>1. ns[i] = nos[i + 1] /\ i + 1 \in 1 .. Len(V) /\ i + 1 # 1
      BY <1>3
    <3>2. nos[i + 1] \in A /\ nos[1] < nos[i + 1] /\ nos[i + 1] \in Nat
      BY <1>1, <1>5, <3>1
    <3>3. nos[1] \in Nat
      BY <1>2, <1>5
    <3>4. QED
      BY <1>6, <3>1, <3>2, <3>3
  <2>3. QED
    BY <2>1, <2>2
<1>11. V[1] = ks[a].good
  BY <1>1, <1>2, <1>6
<1> HIDE DEF ns
<1>12. Valids(ks, T, A \ {a})
  BY <1>7, <1>8, <1>9, <1>10 DEF Valids
<1>13. QED
  BY <1>11, <1>12 DEF T

LEMMA ValidsPush ==
  ASSUME NEW ks \in Seq(AllKinds), NEW V \in Seq(BOOLEAN), NEW A,
         Valids(ks, V, A), NEW w \in 1 .. Len(ks), \A b \in A : b < w
  PROVE  Valids(ks, Append(V, ks[w].good), A \cup {w})
<1>1. PICK nos \in [1 .. Len(V) -> 1 .. Len(ks)] :
        /\ \A i \in 1 .. Len(V) : V[i] = ks[nos[i]].good
        /\ \A i, j \in 1 .. Len(V) : i < j => nos[i] < nos[j]
        /\ A = {nos[i] : i \in 1 .. Len(V)}
  BY DEF Valids
<1> DEFINE T == Append(V, ks[w].good)
           n == Len(V) + 1
           ns == [i \in 1 .. n |-> IF i = n THEN w ELSE nos[i]]
<1>0. ks[w].good \in BOOLEAN
  <2>1. ks[w] \in AllKinds
    OBVIOUS
  <2>2. QED
    BY <2>1, KindType
<1>2. /\ Len(V) \in Nat /\ Len(T) = n /\ T[n] = ks[w].good
      /\ \A i \in 1 .. Len(V) : T[i] = V[i]
  BY <1>0
<1>3. /\ \A i \in 1 .. n : i # n => i \in 1 .. Len(V) /\ i < n
      /\ \A i \in 1 .. Len(V) : i \in 1 .. n /\ i # n
      /\ n \in 1 .. n
  BY <1>2
<1>4. /\ ns[n] = w /\ \A i \in 1 .. Len(V) : ns[i] = nos[i] /\ nos[i] \in A
  BY <1>1, <1>3
<1> HIDE DEF T
<1>5. ns \in [1 .. n -> 1 .. Len(ks)]
  BY <1>3
<1> HIDE DEF ns
<1>6. \A i \in 1 .. n : T[i] = ks[ns[i]].good
  BY <1>1, <1>2, <1>3, <1>4
<1>7. \A i, j \in 1 .. n : i < j => ns[i] < ns[j]
  <2>1. SUFFICES ASSUME NEW i \in 1 .. n, NEW j \in 1 .. n, i < j
                 PROVE  ns[i] < ns[j]
    OBVIOUS
  <2>2. i \in 1 .. Len(V) /\ i # n
    BY <1>2, <2>1
  <2>3. CASE j = n
    BY <1>4, <2>2, <2>3
  <2>4. CASE j # n
    BY <1>1, <1>3, <1>4, <2>1, <2>2, <2>4
  <2>5. QED
    BY <2>3, <2>4
<1>8. A \cup {w} = {ns[i] : i \in 1 .. n}
  <2>1. \A i \in 1 .. n : ns[i] \in A \cup {w}
    BY <1>3, <1>4
  <2>2. \A b \in A : \E i \in 1 .. n : b = ns[i]
    BY <1>1, <1>3, <1>4
  <2>3. \E i \in 1 .. n : w = ns[i]
    BY <1>3, <1>4
  <2>4. QED
    BY <2>1, <2>2, <2>3
<1>9. Valids(ks, T, A \cup {w})
  <2>1. Len(T) = n
    BY <1>2
  <2> HIDE DEF n
  <2>2. /\ ns \in [1 .. Len(T) -> 1 .. Len(ks)]
        /\ \A i \in 1 .. Len(T) : T[i] = ks[ns[i]].good
        /\ \A i, j \in 1 .. Len(T) : i < j => ns[i] < ns[j]
        /\ A \cup {w} = {ns[i] : i \in 1 .. Len(T)}
    BY <1>5, <1>6, <1>7, <1>8, <2>1
  <2>3. QED
    BY <2>2 DEF Valids
<1>10. QED
  BY <1>9 DEF T

LEMMA ValidsEmpty ==
  ASSUME NEW ks \in Seq(AllKinds), NEW V \in Seq(BOOLEAN), NEW A,
         Valids(ks, V, A)
  PROVE  /\ V # <<>> => A # {}
         /\ A \subseteq 1 .. Len(ks)
<1>1. PICK nos \in [1 .. Len(V) -> 1 .. Len(ks)] : A = {nos[i] : i \in 1 .. Len(V)}
  BY DEF Valids
<1>2. V # <<>> => 1 \in 1 .. Len(V)
  BY EmptySeq
<1>3. QED
  BY <1>1, <1>2

LEMMA ValidsGrow ==
  ASSUME NEW ks \in Seq(AllKinds), NEW ls \in Seq(AllKinds),
         1 .. Len(ks) \subseteq 1 .. Len(ls),
         \A i \in 1 .. Len(ks) : ls[i] = ks[i],
         NEW V \in Seq(BOOLEAN), NEW A, Valids(ks, V, A)
  PROVE  Valids(ls, V, A)
<1>1. PICK nos \in [1 .. Len(V) -> 1 .. Len(ks)] :
        /\ \A i \in 1 .. Len(V) : V[i] = ks[nos[i]].good
        /\ \A i, j \in 1 .. Len(V) : i < j => nos[i] < nos[j]
        /\ A = {nos[i] : i \in 1 .. Len(V)}
  BY DEF Valids
<1>2. nos \in [1 .. Len(V) -> 1 .. Len(ls)]
  OBVIOUS
<1>3. \A i \in 1 .. Len(V) : V[i] = ls[nos[i]].good
  BY <1>1
<1>4. QED
  BY <1>1, <1>2, <1>3 DEF Valids

\* There are no more bits than words.
LEMMA ValidsRoom ==
  ASSUME NEW ks \in Seq(AllKinds), NEW V \in Seq(BOOLEAN), NEW A,
         Valids(ks, V, A), NEW q \in Seq(Beat), A \subseteq Ends(q)
  PROVE  Len(V) <= Len(q)
<1>1. PICK nos \in [1 .. Len(V) -> 1 .. Len(ks)] :
        /\ \A i, j \in 1 .. Len(V) : i < j => nos[i] < nos[j]
        /\ A = {nos[i] : i \in 1 .. Len(V)}
  BY DEF Valids
<1> DEFINE f == [i \in 1 .. Len(V) |->
                   CHOOSE j \in 1 .. Len(q) : q[j].pkt = nos[i]]
<1>2. \A i \in 1 .. Len(V) : f[i] \in 1 .. Len(q) /\ q[f[i]].pkt = nos[i]
  <2>1. SUFFICES ASSUME NEW i \in 1 .. Len(V)
                 PROVE  f[i] \in 1 .. Len(q) /\ q[f[i]].pkt = nos[i]
    OBVIOUS
  <2>2. nos[i] \in Ends(q)
    BY <1>1
  <2>3. \E j \in 1 .. Len(q) : q[j].pkt = nos[i]
    BY <2>2 DEF Ends
  <2>4. QED
    BY <2>3
<1> HIDE DEF f
<1>3. f \in [1 .. Len(V) -> 1 .. Len(q)]
  BY <1>2 DEF f
<1>4. \A i, j \in 1 .. Len(V) : f[i] = f[j] => i = j
  <2>1. SUFFICES ASSUME NEW i \in 1 .. Len(V), NEW j \in 1 .. Len(V), f[i] = f[j],
                        i # j
                 PROVE  FALSE
    OBVIOUS
  <2>2. nos[i] = nos[j] /\ nos[i] \in Nat /\ nos[j] \in Nat
    BY <1>2, <2>1
  <2>3. i < j \/ j < i
    BY <2>1
  <2>4. QED
    BY <1>1, <2>2, <2>3
<1>5. f \in Injection(1 .. Len(V), 1 .. Len(q))
  BY <1>3, <1>4, Fun_IsInj
<1>6. /\ Len(V) \in Nat /\ Len(q) \in Nat
      /\ IsFiniteSet(1 .. Len(q)) /\ Cardinality(1 .. Len(q)) = Len(q)
      /\ Cardinality(1 .. Len(V)) = Len(V)
  <2>1. Len(V) \in Nat /\ Len(q) \in Nat
    OBVIOUS
  <2>2. \A n \in Nat : IsFiniteSet(1 .. n) /\ Cardinality(1 .. n) = n
    BY FS_Interval
  <2>3. QED
    BY <2>1, <2>2
<1>7. QED
  BY <1>5, <1>6, FS_Injection

\* What is left when a bit is taken and one is written.
LEMMA ValidsNext ==
  ASSUME NEW ks \in Seq(AllKinds), NEW V \in Seq(BOOLEAN), NEW A,
         Valids(ks, V, A), NEW rd \in BOOLEAN, NEW wr \in BOOLEAN, NEW val,
         NEW a, NEW w, NEW depth \in Nat,
         rd => V # <<>> /\ a \in A /\ \A b \in A : a <= b,
         wr => /\ w \in 1 .. Len(ks) /\ \A b \in A : b < w
               /\ val = ks[w].good /\ Len(V) < depth,
         NEW f, f = FifoNext(V, rd, wr, val, depth)
  PROVE  Valids(ks, f, (IF rd THEN A \ {a} ELSE A) \cup (IF wr THEN {w} ELSE {}))
<1> DEFINE T == IF rd THEN Tail(V) ELSE V
           B == IF rd THEN A \ {a} ELSE A
<1>1. T \in Seq(BOOLEAN) /\ Valids(ks, T, B)
  <2>1. CASE rd
    <3>1. Tail(V) \in Seq(BOOLEAN)
      BY <2>1
    <3>2. Valids(ks, Tail(V), A \ {a})
      BY <2>1, ValidsPop
    <3>3. QED
      BY <2>1, <3>1, <3>2
  <2>2. CASE ~rd
    BY <2>2
  <2>3. QED
    BY <2>1, <2>2
<1>2. Valids(ks, T, B)
  BY <1>1
<1>3. f = IF wr THEN Append(T, val) ELSE T
  BY DEF FifoNext
<1>4. B \subseteq A
  OBVIOUS
<1> HIDE DEF T, B
<1>5. CASE wr
  <2>1. Valids(ks, Append(T, ks[w].good), B \cup {w})
    BY <1>1, <1>2, <1>4, <1>5, ValidsPush
  <2>2. f = Append(T, ks[w].good)
    BY <1>3, <1>5
  <2>3. QED
    BY <1>5, <2>1, <2>2 DEF B
<1>6. CASE ~wr
  <2>1. B \cup (IF wr THEN {w} ELSE {}) = B
    BY <1>6
  <2>2. f = T
    BY <1>3, <1>6
  <2>3. QED
    BY <1>2, <2>1, <2>2 DEF B
<1>7. QED
  BY <1>5, <1>6

\* The first bit is that of the packet whose first word is in front.
LEMMA ValidsFront ==
  ASSUME NEW ks \in Seq(AllKinds), NEW V \in Seq(BOOLEAN), NEW q \in Seq(Beat),
         NEW l \in Seq(Beat), Len(q) <= Len(l),
         \A i \in 1 .. Len(q) : l[i] = q[i],
         NEW open, Open(l, open), Runs(ks, l, 0, open),
         Valids(ks, V, Ends(q)), V # <<>>
  PROVE  /\ q # <<>> /\ l[1] = q[1] /\ q[1].seq = 0 /\ q[1].pkt # open
         /\ q[1].pkt \in Ends(q) /\ \A b \in Ends(q) : q[1].pkt <= b
         /\ V[1] = ks[q[1].pkt].good
<1>1. PICK a \in Ends(q) : TRUE
  BY ValidsEmpty
<1>2. PICK j \in 1 .. Len(q) : q[j].pkt = a /\ q[j].flag = "tail"
  BY <1>1, EndIn
<1>3. /\ Len(q) \in Nat /\ Len(l) \in Nat /\ 1 \in 1 .. Len(q) /\ 1 \in 1 .. Len(l)
      /\ q # <<>> /\ l # <<>> /\ l[1] = q[1]
      /\ \A i \in 1 .. Len(q) : i \in 1 .. Len(l)
  <2>1. Len(q) \in Nat /\ Len(l) \in Nat
    OBVIOUS
  <2>2. 1 \in 1 .. Len(q) /\ 1 \in 1 .. Len(l)
    BY <1>2, <2>1
  <2>3. QED
    BY <2>1, <2>2, EmptySeq
<1>4. \A i \in 1 .. Len(l) :
        /\ l[i].pkt \in Nat /\ l[i].pkt # 0 /\ l[i].pkt >= l[1].pkt
        /\ (l[i].flag = "tail") = (l[i].seq = ks[l[i].pkt].len - 1)
  BY <1>3, RunWords, RunsFront, ZenonT(30)
<1> DEFINE b == l[1].pkt
<1>5. a \in Nat /\ b <= a /\ l[j].pkt = a /\ j \in 1 .. Len(l) /\ l[j].flag = "tail"
  BY <1>2, <1>3, <1>4
<1>6. b # open
  <2>1. SUFFICES ASSUME b = open PROVE FALSE
    OBVIOUS
  <2>2. open # 0
    BY <1>3, <1>4, <2>1
  <2>3. open \notin Ends(l) /\ a <= open
    BY <1>5, <2>2, OpenLast
  <2>4. a = open
    BY <1>3, <1>4, <1>5, <2>1, <2>3
  <2>5. a \in Ends(l)
    BY <1>5, EndIn
  <2>6. QED
    BY <2>3, <2>4, <2>5
<1>7. PICK e \in 1 .. Len(l) : l[e].pkt = b /\ l[e].flag = "tail"
  BY <1>3, <1>6, RunsEnd
<1>8. b \in Ends(q)
  <2>1. CASE a = b
    BY <1>1, <2>1
  <2>2. CASE a # b
    <3>1. b < a
      BY <1>3, <1>4, <1>5, <2>2
    <3>2. ~(j <= e)
      <4>1. SUFFICES ASSUME j <= e PROVE FALSE
        OBVIOUS
      <4>2. j # e
        BY <1>5, <1>7, <2>2
      <4>3. j < e
        BY <4>1, <4>2
      <4>4. l[j].pkt < l[e].pkt \/ l[j].pkt = l[e].pkt
        BY <1>5, <4>3 DEF Runs, InRuns
      <4>5. QED
        BY <1>3, <1>4, <1>5, <1>7, <3>1, <4>4
    <3>3. e \in 1 .. Len(q)
      BY <1>3, <3>2
    <3>4. QED
      BY <1>7, <3>3, EndIn
  <2>3. QED
    BY <2>1, <2>2
<1>9. \A c \in Ends(q) : b <= c
  BY <1>3, <1>4, EndIn
<1>10. l[1].seq = 0
  BY <1>3, <1>4, RunsFront
<1>11. V[1] = ks[b].good
  <2> HIDE DEF b
  <2>1. QED
    BY <1>8, <1>9, ValidsPop, ZenonT(30)
<1>12. QED
  BY <1>3, <1>6, <1>8, <1>9, <1>10, <1>11
-----------------------------------------------------------------------------
(***************************************************************************)
(* A step of a data FIFO.                                                  *)
(***************************************************************************)

\* The packet that word o leaves open.
OpenOf(o) == IF o.wr /\ o.flag # "tail" THEN o.pkt ELSE 0

\* The packet of a word that was taken from a FIFO, if more of it follow.
RestOf(w) == IF w.flag = "tail" THEN 0 ELSE w.pkt

LEMMA LineOpen ==
  ASSUME NEW q \in Seq(Beat), NEW o \in Beat
  PROVE  /\ Open(Line(q, o), OpenOf(o))
         /\ o.wr => Line(q, o) # <<>> /\ Line(q, o)[Len(Line(q, o))] = o
         /\ ~o.wr => OpenOf(o) = 0
         /\ Line(q, o) \in Seq(Beat) /\ Len(Line(q, o)) = Len(q) + One(o.wr)
         /\ \A i \in 1 .. Len(q) : Line(q, o)[i] = q[i]
         /\ Len(q) \in Nat /\ Len(q) <= Len(Line(q, o))
         /\ \A i \in 1 .. Len(Line(q, o)) :
              i \in 1 .. Len(q) \/ (o.wr /\ Line(q, o)[i] = o)
<1>1. CASE o.wr
  <2>1. /\ Line(q, o) = Append(q, o) /\ Append(q, o) \in Seq(Beat)
        /\ Len(Append(q, o)) = Len(q) + 1 /\ Append(q, o) # <<>>
        /\ Append(q, o)[Len(q) + 1] = o /\ Len(q) \in Nat
        /\ \A i \in 1 .. Len(q) : Append(q, o)[i] = q[i]
    BY <1>1, AppendIs DEF Line
  <2>2. \A i \in 1 .. Len(q) + 1 : i \in 1 .. Len(q) \/ i = Len(q) + 1
    BY <2>1
  <2>3. One(o.wr) = 1
    BY <1>1 DEF One
  <2>4. Open(Append(q, o), OpenOf(o))
    BY <1>1, <2>1 DEF Open, OpenOf
  <2>5. Open(Line(q, o), OpenOf(o))
    BY <2>1, <2>4, Zenon
  <2>6. Line(q, o) # <<>> /\ Line(q, o)[Len(Line(q, o))] = o
    BY <2>1
  <2>7. Line(q, o) \in Seq(Beat) /\ Len(Line(q, o)) = Len(q) + One(o.wr)
        /\ Len(q) <= Len(Line(q, o))
    BY <2>1, <2>3
  <2>8. \A i \in 1 .. Len(q) : Line(q, o)[i] = q[i]
    BY <2>1, Zenon
  <2>9. \A i \in 1 .. Len(Line(q, o)) :
          i \in 1 .. Len(q) \/ (o.wr /\ Line(q, o)[i] = o)
    BY <1>1, <2>1, <2>2
  <2>10. QED
    BY <1>1, <2>1, <2>5, <2>6, <2>7, <2>8, <2>9
<1>2. CASE ~o.wr
  <2>1. Line(q, o) = q /\ OpenOf(o) = 0 /\ One(o.wr) = 0 /\ Len(q) \in Nat
    BY <1>2 DEF Line, OpenOf, One
  <2>2. QED
    BY <1>2, <2>1 DEF Open
<1>3. QED
  BY <1>1, <1>2

LEMMA RunsNext ==
  ASSUME NEW ks \in Seq(AllKinds), NEW q \in Seq(Beat), NEW o \in Beat,
         NEW rest \in Nat, Runs(ks, Line(q, o), rest, OpenOf(o)),
         NEW rd \in BOOLEAN, rd => q # <<>> /\ (rest = 0 \/ rest = q[1].pkt),
         NEW depth \in Nat, o.wr => Len(q) < depth,
         NEW f, f = FifoNext(q, rd, o.wr, o, depth),
         NEW w \in Beat, ~w.wr => OpenOf(o) = 0,
         w.wr => OfPacket(ks, w) /\ Follows(Line(q, o), w, OpenOf(o))
  PROVE  /\ Runs(ks, Line(f, w), IF rd THEN RestOf(q[1]) ELSE rest, OpenOf(w))
         /\ f \in Seq(Beat)
<1> DEFINE l == Line(q, o)
           r == IF rd THEN RestOf(q[1]) ELSE rest
<1>0. o.wr \in BOOLEAN /\ w.wr \in BOOLEAN
  BY DEF Beat
<1>1. /\ f = (IF rd THEN Tail(l) ELSE l) /\ f \in Seq(Beat) /\ l \in Seq(Beat)
      /\ Len(l) = Len(q) + One(o.wr) /\ Len(q) \in Nat
      /\ \A i \in 1 .. Len(q) : l[i] = q[i]
      /\ rd => l # <<>>
  <2>1. (rd => q # <<>>) /\ (o.wr => o \in Beat) /\ Len(q) \in Nat
    OBVIOUS
  <2>2. /\ f = (IF rd THEN Tail(l) ELSE l) /\ f \in Seq(Beat) /\ l \in Seq(Beat)
        /\ Len(l) = Len(q) + One(o.wr)
        /\ \A i \in 1 .. Len(q) : l[i] = q[i]
        /\ rd => l # <<>>
    <3> HIDE DEF l
    <3>1. LET m == Line(q, o) IN
          /\ f = (IF rd THEN Tail(m) ELSE m) /\ f \in Seq(Beat) /\ m \in Seq(Beat)
          /\ Len(m) = Len(q) + One(o.wr)
          /\ \A i \in 1 .. Len(q) : m[i] = q[i]
          /\ rd => m # <<>>
      BY <1>0, <2>1, LineNext, ZenonT(30)
    <3>2. QED
      BY <3>1 DEF l
  <2>3. QED
    BY <2>1, <2>2
<1>2. rd => l[1] = q[1]
  <2>1. rd => 1 \in 1 .. Len(q)
    BY <1>1, EmptySeq
  <2>2. QED
    BY <1>1, <2>1
<1> HIDE DEF l
<1>3. Runs(ks, l, rest, OpenOf(o))
  BY DEF l
<1>4. Runs(ks, f, r, OpenOf(o))
  <2>1. CASE rd
    <3>1. Runs(ks, Tail(l), IF l[1].flag = "tail" THEN 0 ELSE l[1].pkt, OpenOf(o))
      BY <1>1, <1>2, <1>3, <2>1, RunsTail
    <3>2. QED
      BY <1>1, <1>2, <2>1, <3>1 DEF RestOf
  <2>2. CASE ~rd
    BY <1>1, <1>3, <2>2
  <2>3. QED
    BY <2>1, <2>2
<1>5. CASE w.wr
  <2>1. OfPacket(ks, w) /\ Follows(l, w, OpenOf(o))
    BY <1>5 DEF l
  <2>2. Follows(f, w, OpenOf(o))
    <3>1. CASE ~rd
      BY <1>1, <2>1, <3>1
    <3>2. CASE rd /\ w.seq = 0
      <4>1. /\ Len(l) \in Nat /\ Len(f) = Len(l) - 1
            /\ \A i \in 1 .. Len(f) : f[i] = l[i + 1]
        BY <1>1, <3>2
      <4>2. \A i \in 1 .. Len(f) : f[i] = l[i + 1] /\ i + 1 \in 1 .. Len(l)
        BY <4>1
      <4>3. QED
        BY <2>1, <3>2, <4>2, ZenonT(30) DEF Follows
    <3>3. CASE rd /\ w.seq # 0
      <4>1. /\ OpenOf(o) = w.pkt /\ l # <<>> /\ w.pkt # 0
            /\ l[Len(l)].pkt = w.pkt /\ l[Len(l)].seq = w.seq - 1
        BY <2>1, <3>3, WordIs DEF Follows
      <4>2. o.wr
        BY <4>1 DEF OpenOf
      <4>3. Len(l) = Len(q) + 1 /\ Len(q) >= 1
        BY <1>1, <3>3, <4>2, EmptySeq DEF One
      <4>4. /\ Len(f) = Len(l) - 1 /\ Len(f) \in 1 .. Len(f)
            /\ f[Len(f)] = l[Len(f) + 1] /\ Len(f) + 1 = Len(l)
        BY <1>1, <3>3, <4>3
      <4>5. f[Len(f)] = l[Len(l)] /\ f # <<>>
        <5>1. f[Len(f)] = l[Len(l)]
          BY <4>4, Zenon
        <5>2. f # <<>>
          BY <4>4
        <5>3. QED
          BY <5>1, <5>2
      <4>6. QED
        BY <3>3, <4>1, <4>5 DEF Follows
    <3>4. QED
      BY <3>1, <3>2, <3>3
  <2>3. Runs(ks, Append(f, w), r, IF w.flag = "tail" THEN 0 ELSE w.pkt)
    <3> HIDE DEF r
    <3>1. QED
      BY <1>1, <1>4, <2>1, <2>2, RunsAppend
  <2>4. Line(f, w) = Append(f, w) /\ OpenOf(w) = IF w.flag = "tail" THEN 0 ELSE w.pkt
    BY <1>5 DEF Line, OpenOf
  <2>5. QED
    BY <1>1, <2>3, <2>4
<1>6. CASE ~w.wr
  <2>1. Line(f, w) = f /\ OpenOf(w) = 0 /\ OpenOf(o) = 0
    BY <1>6 DEF Line, OpenOf
  <2>2. QED
    BY <1>1, <1>4, <2>1
<1>7. QED
  BY <1>5, <1>6

\* What is whole in the FIFO then, and what is in front.
LEMMA EndsNext ==
  ASSUME NEW ks \in Seq(AllKinds), NEW q \in Seq(Beat), NEW o \in Beat,
         NEW rest \in Nat, Runs(ks, Line(q, o), rest, OpenOf(o)),
         NEW rd \in BOOLEAN, rd => q # <<>>,
         NEW depth \in Nat, o.wr => Len(q) < depth,
         NEW f, f = FifoNext(q, rd, o.wr, o, depth)
  PROVE  Ends(f) = (IF rd /\ q[1].flag = "tail" THEN Ends(q) \ {q[1].pkt}
                                                ELSE Ends(q))
                     \cup (IF o.wr /\ o.flag = "tail" THEN {o.pkt} ELSE {})
<1> DEFINE l == Line(q, o)
           E == IF o.wr /\ o.flag = "tail" THEN {o.pkt} ELSE {}
<1>0. o.wr \in BOOLEAN
  BY DEF Beat
<1>1. /\ f = (IF rd THEN Tail(l) ELSE l) /\ l \in Seq(Beat)
      /\ \A i \in 1 .. Len(q) : l[i] = q[i]
      /\ rd => l # <<>>
      /\ o.wr => l[Len(q) + 1] = o
      /\ Len(l) = Len(q) + One(o.wr) /\ Len(q) \in Nat
  <2>1. (o.wr => o \in Beat) /\ Len(q) \in Nat
    OBVIOUS
  <2>2. LET m == Line(q, o) IN
        /\ f = (IF rd THEN Tail(m) ELSE m) /\ m \in Seq(Beat)
        /\ \A i \in 1 .. Len(q) : m[i] = q[i]
        /\ rd => m # <<>>
        /\ o.wr => m[Len(q) + 1] = o
        /\ Len(m) = Len(q) + One(o.wr)
    <3> HIDE DEF l
    <3>1. QED
      BY <1>0, <2>1, LineNext, ZenonT(30)
  <2>3. QED
    BY <2>1, <2>2
<1>2. rd => l[1] = q[1] /\ 1 \in 1 .. Len(q)
  <2>1. rd => 1 \in 1 .. Len(q)
    BY <1>1, EmptySeq
  <2>2. QED
    BY <1>1, <2>1
<1>3. Ends(l) = Ends(q) \cup E
  <2>1. CASE o.wr
    BY <2>1, EndsAppend DEF Line
  <2>2. CASE ~o.wr
    BY <2>2 DEF Line
  <2>3. QED
    BY <2>1, <2>2
<1>4. Runs(ks, l, rest, OpenOf(o))
  OBVIOUS
<1> HIDE DEF l
<1>5. CASE rd /\ q[1].flag = "tail"
  <2>1. Ends(Tail(l)) = Ends(l) \ {q[1].pkt}
    BY <1>1, <1>2, <1>4, <1>5, EndsTail
  <2>2. o.wr => o.pkt # q[1].pkt
    <3>1. SUFFICES ASSUME o.wr PROVE o.pkt # q[1].pkt
      OBVIOUS
    <3>2. Len(q) + 1 \in 1 .. Len(l) /\ Len(q) + 1 # 1
      BY <1>1, <1>2, <1>5, <3>1 DEF One
    <3>3. l[Len(q) + 1].pkt > l[1].pkt
      BY <1>1, <1>2, <1>4, <1>5, <3>2, RunsFront
    <3>4. l[1].pkt \in Nat
      <4>1. 1 \in 1 .. Len(l)
        BY <1>1, <1>2, <1>5, <3>2
      <4>2. QED
        BY <1>1, <1>4, <4>1, RunWords
    <3>5. l[Len(q) + 1] = o /\ l[1] = q[1] /\ o.pkt \in Nat
      BY <1>1, <1>2, <1>5, <3>1 DEF Beat
    <3>6. o.pkt > q[1].pkt /\ q[1].pkt \in Nat
      BY <3>3, <3>4, <3>5, Zenon
    <3>7. QED
      BY <3>5, <3>6
  <2>3. (Ends(q) \cup E) \ {q[1].pkt} = (Ends(q) \ {q[1].pkt}) \cup E
    BY <2>2
  <2>4. QED
    BY <1>1, <1>3, <1>5, <2>1, <2>3
<1>6. CASE ~(rd /\ q[1].flag = "tail")
  <2>1. Ends(f) = Ends(l)
    <3>1. CASE rd
      BY <1>1, <1>2, <1>4, <1>6, <3>1, EndsTail
    <3>2. CASE ~rd
      BY <1>1, <3>2
    <3>3. QED
      BY <3>1, <3>2
  <2>2. QED
    BY <1>3, <1>6, <2>1
<1>7. QED
  BY <1>5, <1>6

LEMMA EndsLine ==
  ASSUME NEW q \in Seq(Beat), NEW o \in Beat
  PROVE  Ends(Line(q, o)) =
           Ends(q) \cup (IF o.wr /\ o.flag = "tail" THEN {o.pkt} ELSE {})
<1>1. CASE o.wr
  BY <1>1, EndsAppend DEF Line
<1>2. CASE ~o.wr
  BY <1>2 DEF Line
<1>3. QED
  BY <1>1, <1>2

LEMMA EndsBefore ==
  ASSUME NEW ks \in Seq(AllKinds), NEW q \in Seq(Beat), NEW o \in Beat,
         NEW rest, NEW open, Runs(ks, Line(q, o), rest, open)
  PROVE  /\ \A b \in Ends(q) : b \in 1 .. Len(ks) /\ b # 0
         /\ o.wr => \A b \in Ends(q) : b < o.pkt
<1> DEFINE l == Line(q, o)
<1>1. /\ l \in Seq(Beat) /\ Len(l) = Len(q) + One(o.wr) /\ Len(q) \in Nat
      /\ \A i \in 1 .. Len(q) : l[i] = q[i]
      /\ o.wr => l[Len(l)] = o
      /\ Len(q) <= Len(l)
  BY LineOpen
<1>2. Runs(ks, l, rest, open)
  OBVIOUS
<1> HIDE DEF l
<1>3. \A i \in 1 .. Len(l) :
        /\ l[i].pkt \in Nat /\ l[i].pkt # 0 /\ l[i].pkt \in 1 .. Len(ks)
        /\ l[i].seq \in Nat /\ l[i].seq < ks[l[i].pkt].len
        /\ ks[l[i].pkt].len \in Nat
        /\ (l[i].flag = "tail") = (l[i].seq = ks[l[i].pkt].len - 1)
  BY <1>1, <1>2, RunWords
<1>4. SUFFICES ASSUME NEW b \in Ends(q)
               PROVE  b \in 1 .. Len(ks) /\ b # 0 /\ (o.wr => b < o.pkt)
  OBVIOUS
<1>5. PICK i \in 1 .. Len(q) : q[i].pkt = b /\ q[i].flag = "tail"
  BY EndIn
<1>6. i \in 1 .. Len(l) /\ l[i] = q[i]
  BY <1>1
<1>7. b \in 1 .. Len(ks) /\ b # 0
  BY <1>3, <1>5, <1>6
<1>8. ASSUME o.wr PROVE b < o.pkt
  <2>1. Len(l) = Len(q) + 1 /\ Len(l) \in 1 .. Len(l) /\ i < Len(l)
    BY <1>1, <1>8 DEF One
  <2> DEFINE n == Len(l)
  <2>2. n \in 1 .. n /\ n \in Int /\ i \in Int /\ i < n /\ n \in 1 .. Len(l)
    BY <2>1
  <2>3. \/ l[i].pkt < l[n].pkt
        \/ l[i].pkt = l[n].pkt /\ l[n].seq = l[i].seq + (n - i)
    BY <1>2, <1>6, <2>2 DEF Runs, InRuns
  <2>4. l[n] = o
    BY <1>1, <1>8
  <2> HIDE DEF n
  <2>5. ASSUME l[i].pkt = l[n].pkt, l[n].seq = l[i].seq + (n - i) PROVE FALSE
    <3>1. l[i].seq = ks[l[i].pkt].len - 1
      BY <1>3, <1>5, <1>6
    <3>2. /\ l[n].seq < ks[l[i].pkt].len /\ l[n].seq \in Nat
          /\ l[i].seq \in Nat /\ ks[l[i].pkt].len \in Nat
      BY <1>3, <1>6, <2>2, <2>5
    <3>3. QED
      BY <2>2, <2>5, <3>1, <3>2, SMTT(30)
  <2>6. QED
    BY <1>5, <1>6, <2>3, <2>4, <2>5
<1>9. QED
  BY <1>7, <1>8

\* A data FIFO q and the word o on the wires to it, its FIFO of valid bits V,
\* and whether the reader takes a word (rd) and a bit (vrd) in this clock.
Taken(q, rd, vrd) == IF rd /\ ~vrd THEN q[1].pkt ELSE 0
Stored(ks, q, o, V, rd, vrd) ==
  /\ Runs(ks, Line(q, o), Taken(q, rd, vrd), OpenOf(o))
  /\ Valids(ks, V, Ends(q) \ {Taken(q, rd, vrd)})
  /\ vrd => rd /\ V # <<>>
  /\ rd => q # <<>> /\ q[1].pkt \in Ends(q) /\ vrd = (q[1].seq = 0)

\* The words in front.
LEMMA StoredReads ==
  ASSUME NEW ks \in Seq(AllKinds), NEW q \in Seq(Beat), NEW o \in Beat, NEW V,
         NEW rd \in BOOLEAN, NEW vrd \in BOOLEAN,
         Stored(ks, q, o, V, rd, vrd), q # <<>>
  PROVE  /\ OfPacket(ks, q[1]) /\ 1 \in 1 .. Len(q)
         /\ Line(q, o)[1] = q[1] /\ 1 \in 1 .. Len(Line(q, o))
         /\ \A i \in 1 .. Len(Line(q, o)) : Line(q, o)[i].pkt >= q[1].pkt
         /\ rd => /\ q[1].pkt # OpenOf(o)
                  /\ q[1].flag # "tail" =>
                       /\ Len(Line(q, o)) >= 2
                       /\ Line(q, o)[2].pkt = q[1].pkt
                       /\ Line(q, o)[2].seq = q[1].seq + 1
<1> DEFINE l == Line(q, o)
           k == Taken(q, rd, vrd)
<1>1. /\ l \in Seq(Beat) /\ Len(q) <= Len(l) /\ Len(q) \in Nat
      /\ \A i \in 1 .. Len(q) : l[i] = q[i]
      /\ Open(l, OpenOf(o))
  BY LineOpen
<1>2. Ends(l) = Ends(q) \cup (IF o.wr /\ o.flag = "tail" THEN {o.pkt} ELSE {})
  BY EndsLine
<1>3. Runs(ks, l, k, OpenOf(o))
  BY DEF Stored
<1> HIDE DEF l, k
<1>4. 1 \in 1 .. Len(q) /\ 1 \in 1 .. Len(l) /\ l[1] = q[1]
  BY <1>1, EmptySeq
<1>5. l # <<>>
  BY <1>1, <1>4
<1>6. /\ OfPacket(ks, l[1]) /\ \A i \in 1 .. Len(l) : l[i].pkt >= l[1].pkt
      /\ l[1].pkt # OpenOf(o) /\ l[1].flag # "tail" =>
           Len(l) >= 2 /\ l[2].pkt = l[1].pkt /\ l[2].seq = l[1].seq + 1
  BY <1>1, <1>3, <1>5, RunsFront
<1>7. ASSUME rd PROVE q[1].pkt # OpenOf(o)
  <2>1. q[1].pkt \in Ends(l)
    BY <1>2, <1>7 DEF Stored
  <2>2. q[1].pkt # 0
    <3>1. l[1].pkt # 0
      BY <1>1, <1>3, <1>4, RunWords
    <3>2. QED
      BY <1>4, <3>1
  <2>3. OpenOf(o) # 0 => OpenOf(o) \notin Ends(l)
    BY <1>1, <1>3, OpenLast
  <2>4. QED
    BY <2>1, <2>2, <2>3
<1>8. QED
  BY <1>4, <1>6, <1>7 DEF l

\* When bits wait and none is taken, the first word of a packet is in front.
LEMMA StoredFront ==
  ASSUME NEW ks \in Seq(AllKinds), NEW q \in Seq(Beat), NEW o \in Beat,
         NEW V \in Seq(BOOLEAN), NEW rd \in BOOLEAN, NEW vrd \in BOOLEAN,
         Stored(ks, q, o, V, rd, vrd), ~rd, V # <<>>
  PROVE  /\ q # <<>> /\ q[1].seq = 0 /\ q[1].pkt \in Ends(q)
         /\ V[1] = ks[q[1].pkt].good
<1> DEFINE l == Line(q, o)
<1>1. /\ l \in Seq(Beat) /\ Len(q) <= Len(l)
      /\ \A i \in 1 .. Len(q) : l[i] = q[i]
      /\ Open(l, OpenOf(o))
  BY LineOpen
<1>2. Runs(ks, l, 0, OpenOf(o))
  BY DEF Stored, Taken
<1> HIDE DEF l
<1>3. Valids(ks, V, Ends(q))
  <2>1. Valids(ks, V, Ends(q) \ {0})
    BY DEF Stored, Taken
  <2>2. 0 \notin Ends(q)
    BY <1>2, EndsBefore DEF l
  <2>3. Ends(q) \ {0} = Ends(q)
    BY <2>2
  <2>4. QED
    BY <2>1, <2>3
<1>4. /\ q # <<>> /\ l[1] = q[1] /\ q[1].seq = 0 /\ q[1].pkt # OpenOf(o)
      /\ q[1].pkt \in Ends(q) /\ \A b \in Ends(q) : q[1].pkt <= b
      /\ V[1] = ks[q[1].pkt].good
  BY <1>1, <1>2, <1>3, ValidsFront
<1>5. QED
  BY <1>4

\* A FIFO from which nothing is taken keeps its first entry.
LEMMA FrontStays ==
  ASSUME NEW S, NEW q \in Seq(S), q # <<>>, NEW wr \in BOOLEAN, NEW d,
         wr => d \in S, NEW depth,
         NEW f, f = FifoNext(q, FALSE, wr, d, depth)
  PROVE  f # <<>> /\ f[1] = q[1]
<1>1. CASE wr /\ Len(q) < depth
  BY <1>1, AppendKeepsFirst DEF FifoNext
<1>2. CASE ~(wr /\ Len(q) < depth)
  BY <1>2 DEF FifoNext
<1>3. QED
  BY <1>1, <1>2

LEMMA FrontWord ==
  ASSUME NEW q \in Seq(Beat), NEW o \in Beat, q # <<>>, NEW depth
  PROVE  /\ FifoNext(q, FALSE, o.wr, o, depth) # <<>>
         /\ FifoNext(q, FALSE, o.wr, o, depth)[1] = q[1]
<1> DEFINE f == FifoNext(q, FALSE, o.wr, o, depth)
<1>1. CASE o.wr /\ Len(q) < depth
  <2>1. f = Append(q, o)
    BY <1>1 DEF FifoNext
  <2>2. Append(q, o) # <<>> /\ Append(q, o)[1] = q[1]
    BY AppendKeepsFirst
  <2>3. QED
    BY <2>1, <2>2, Zenon
<1>2. CASE ~(o.wr /\ Len(q) < depth)
  BY <1>2 DEF FifoNext
<1>3. QED
  BY <1>1, <1>2

LEMMA LineTaken ==
  ASSUME NEW q \in Seq(Beat), NEW rd \in BOOLEAN, NEW o \in Beat,
         NEW depth \in Nat, o.wr => Len(q) < depth, rd => q # <<>>
  PROVE  /\ FifoNext(q, rd, o.wr, o, depth)
              = IF rd THEN Tail(Line(q, o)) ELSE Line(q, o)
         /\ FifoNext(q, rd, o.wr, o, depth) \in Seq(Beat)
<1> DEFINE f == FifoNext(q, rd, o.wr, o, depth)
           l == Line(q, o)
<1>1. f = FifoNext(q, rd, o.wr, o, depth) /\ l = Line(q, o)
  OBVIOUS
<1> HIDE DEF f, l
<1>2. (rd => q # <<>>) /\ (o.wr => Len(q) < depth) /\ Len(q) \in Nat
      /\ o.wr \in BOOLEAN
  BY DEF Beat
<1>3. /\ f = IF rd THEN Tail(Line(q, o)) ELSE Line(q, o)
      /\ f \in Seq(Beat) /\ Line(q, o) \in Seq(Beat)
      /\ Len(Line(q, o)) = Len(q) + One(o.wr)
      /\ \A i \in 1 .. Len(q) : Line(q, o)[i] = q[i]
      /\ o.wr => Line(q, o)[Len(q) + 1] = o
      /\ rd => Line(q, o) # <<>>
  BY <1>1, <1>2, LineNext
<1>4. QED
  BY <1>1, <1>3, Zenon

LEMMA FrontBit ==
  ASSUME NEW V \in Seq(BOOLEAN), NEW vwr \in BOOLEAN, NEW val,
         vwr => val \in BOOLEAN, V # <<>>, NEW depth
  PROVE  FifoNext(V, FALSE, vwr, val, depth) # <<>>
BY FrontStays

LEMMA LineLast ==
  ASSUME NEW q \in Seq(Beat), NEW o \in Beat, o.wr
  PROVE  Line(q, o) # <<>> /\ Line(q, o)[Len(Line(q, o))] = o
BY AppendIs DEF Line

\* The word on the wires is one of the line.
LEMMA LineWord ==
  ASSUME NEW ks \in Seq(AllKinds), NEW q \in Seq(Beat), NEW o \in Beat,
         NEW rest, NEW open, Runs(ks, Line(q, o), rest, open), o.wr
  PROVE  /\ OfPacket(ks, o) /\ o.pkt \in 1 .. Len(ks)
         /\ ks[o.pkt].good \in BOOLEAN
<1>1. /\ Line(q, o) \in Seq(Beat) /\ Len(Line(q, o)) = Len(q) + 1
      /\ Len(q) \in Nat /\ Line(q, o)[Len(Line(q, o))] = o
  BY LineOpen DEF One
<1>2. Len(Line(q, o)) \in 1 .. Len(Line(q, o))
  BY <1>1
<1>3. OfPacket(ks, o)
  BY <1>1, <1>2 DEF Runs
<1>4. QED
  BY <1>3, WordIs, KindType

\* One clock of such a FIFO: word w comes next, and the reader reads a packet
\* to its last word, or starts with the next one when its bit is there.
FifoClock(ks, q, o, V, rd, vrd, vwr, val, depth, f, U, w, rn, vn) ==
  /\ ks \in Seq(AllKinds) /\ q \in Seq(Beat) /\ o \in Beat /\ V \in Seq(BOOLEAN)
  /\ rd \in BOOLEAN /\ vrd \in BOOLEAN /\ vwr \in BOOLEAN /\ depth \in Nat
  /\ w \in Beat /\ rn \in BOOLEAN /\ vn \in BOOLEAN
  /\ Stored(ks, q, o, V, rd, vrd)
  /\ vwr = (o.wr /\ o.flag = "tail")
  /\ vwr => val = ks[o.pkt].good
  /\ o.wr => Len(q) < depth
  /\ f = FifoNext(q, rd, o.wr, o, depth)
  /\ U = FifoNext(V, vrd, vwr, val, depth)
  /\ ~w.wr => OpenOf(o) = 0
  /\ w.wr => OfPacket(ks, w) /\ Follows(Line(q, o), w, OpenOf(o))
  /\ rd => rn = (q[1].flag # "tail") /\ ~vn
  /\ ~rd => vn = rn /\ (rn => V # <<>>)

LEMMA StoredNext ==
  ASSUME NEW ks, NEW q, NEW o, NEW V, NEW rd, NEW vrd, NEW vwr, NEW val,
         NEW depth, NEW f, NEW U, NEW w, NEW rn, NEW vn,
         FifoClock(ks, q, o, V, rd, vrd, vwr, val, depth, f, U, w, rn, vn)
  PROVE  /\ Stored(ks, f, w, U, rn, vn)
         /\ rn => f[1].pkt = q[1].pkt
         /\ rd /\ rn => f[1].seq = q[1].seq + 1
         /\ ~rd => (V # <<>> => U # <<>>) /\ (q # <<>> => f[1] = q[1])
<1> SUFFICES
      ASSUME ks \in Seq(AllKinds), q \in Seq(Beat), o \in Beat,
             V \in Seq(BOOLEAN), rd \in BOOLEAN, vrd \in BOOLEAN,
             vwr \in BOOLEAN, depth \in Nat, w \in Beat,
             rn \in BOOLEAN, vn \in BOOLEAN,
             Stored(ks, q, o, V, rd, vrd),
             vwr = (o.wr /\ o.flag = "tail"), vwr => val = ks[o.pkt].good,
             o.wr => Len(q) < depth, f = FifoNext(q, rd, o.wr, o, depth),
             U = FifoNext(V, vrd, vwr, val, depth), ~w.wr => OpenOf(o) = 0,
             w.wr => OfPacket(ks, w) /\ Follows(Line(q, o), w, OpenOf(o)),
             rd => rn = (q[1].flag # "tail") /\ ~vn,
             ~rd => vn = rn /\ (rn => V # <<>>)
      PROVE  /\ Stored(ks, f, w, U, rn, vn)
             /\ rn => f[1].pkt = q[1].pkt
             /\ rd /\ rn => f[1].seq = q[1].seq + 1
             /\ ~rd => (V # <<>> => U # <<>>) /\ (q # <<>> => f[1] = q[1])
  BY DEF FifoClock
<1> DEFINE l == Line(q, o)
           k == Taken(q, rd, vrd)
           e == q[1].pkt
           E == IF o.wr /\ o.flag = "tail" THEN {o.pkt} ELSE {}
<1>1. /\ l \in Seq(Beat) /\ Len(l) = Len(q) + One(o.wr) /\ Len(q) \in Nat
      /\ \A i \in 1 .. Len(q) : l[i] = q[i]
  BY LineOpen
<1>2. Runs(ks, l, k, OpenOf(o))
  BY DEF Stored
<1>3. rd => /\ q # <<>> /\ e \in Nat /\ e # 0 /\ e \in Ends(q)
            /\ vrd = (q[1].seq = 0) /\ OfPacket(ks, q[1])
            /\ q[1].seq = 0 => q[1].flag # "tail"
            /\ \A i \in 1 .. Len(l) : l[i].pkt >= e
            /\ q[1].flag # "tail" =>
                 Len(l) >= 2 /\ l[2].pkt = e /\ l[2].seq = q[1].seq + 1
  <2>1. SUFFICES ASSUME rd
                 PROVE  /\ q # <<>> /\ e \in Nat /\ e # 0 /\ e \in Ends(q)
                        /\ vrd = (q[1].seq = 0) /\ OfPacket(ks, q[1])
                        /\ q[1].seq = 0 => q[1].flag # "tail"
                        /\ \A i \in 1 .. Len(l) : l[i].pkt >= e
                        /\ q[1].flag # "tail" =>
                             Len(l) >= 2 /\ l[2].pkt = e /\ l[2].seq = q[1].seq + 1
    OBVIOUS
  <2>2. q # <<>> /\ e \in Ends(q) /\ vrd = (q[1].seq = 0)
    BY <2>1 DEF Stored
  <2>3. /\ OfPacket(ks, q[1])
        /\ \A i \in 1 .. Len(l) : l[i].pkt >= e
        /\ q[1].flag # "tail" =>
             Len(l) >= 2 /\ l[2].pkt = e /\ l[2].seq = q[1].seq + 1
    BY <2>1, <2>2, StoredReads, ZenonT(30)
  <2>4. /\ e \in Nat /\ e # 0 /\ q[1].seq \in Nat
        /\ ks[e].len \in Nat /\ ks[e].len >= 6
        /\ (q[1].flag = "tail") = (q[1].seq = ks[e].len - 1)
    BY <2>3, WordIs
  <2>5. q[1].seq = 0 => q[1].flag # "tail"
    BY <2>4
  <2>6. QED
    BY <2>2, <2>3, <2>4, <2>5
<1>4. k \in Nat /\ (k = 0 \/ (k = e /\ rd /\ ~vrd)) /\ (rd /\ ~vrd => k = e)
      /\ (~(rd /\ ~vrd) => k = 0)
  BY <1>3 DEF Taken
<1>40. rd => q # <<>>
  BY <1>3
<1>41. rd => q # <<>> /\ (k = 0 \/ k = q[1].pkt)
  BY <1>3, <1>4
<1>42. k \in Nat
  BY <1>4
<1>5. f = (IF rd THEN Tail(l) ELSE l) /\ f \in Seq(Beat)
  BY <1>40, LineTaken, Zenon
<1>6. Runs(ks, Line(f, w), IF rd THEN RestOf(q[1]) ELSE k, OpenOf(w))
  <2> HIDE DEF k
  <2>1. QED
    BY <1>2, <1>41, <1>42, RunsNext
<1>7. Ends(f) = (IF rd /\ q[1].flag = "tail" THEN Ends(q) \ {e} ELSE Ends(q)) \cup E
  <2> HIDE DEF k
  <2>1. QED
    BY <1>2, <1>40, <1>42, EndsNext
<1>8. /\ \A b \in Ends(q) : b \in 1 .. Len(ks) /\ b # 0
      /\ o.wr => \A b \in Ends(q) : b < o.pkt
  BY <1>2, EndsBefore
<1> HIDE DEF l, k, e, E
<1>9. rd /\ rn => f # <<>> /\ f[1].pkt = e /\ f[1].seq = q[1].seq + 1
  <2>1. SUFFICES ASSUME rd, rn
                 PROVE  f # <<>> /\ f[1].pkt = e /\ f[1].seq = q[1].seq + 1
    OBVIOUS
  <2>2. Len(l) >= 2 /\ l[2].pkt = e /\ l[2].seq = q[1].seq + 1
    BY <1>3, <2>1
  <2>3. l # <<>> /\ Len(f) = Len(l) - 1 /\ f[1] = l[1 + 1]
    BY <1>1, <1>5, <2>1, <2>2
  <2>4. f # <<>>
    BY <1>1, <2>2, <2>3
  <2>5. QED
    BY <2>2, <2>3, <2>4
<1>10. ~rd /\ q # <<>> => f # <<>> /\ f[1] = q[1]
  <2>2. ASSUME ~rd, q # <<>> PROVE f # <<>> /\ f[1] = q[1]
    <3>1. f = FifoNext(q, FALSE, o.wr, o, depth)
      BY <2>2
    <3>2. QED
      BY <2>2, <3>1, FrontWord, ZenonT(30)
  <2>3. QED
    BY <2>2
<1>11. ~rd /\ V # <<>> => q # <<>> /\ q[1].seq = 0 /\ e \in Ends(q)
  <2>1. ASSUME ~rd, V # <<>> PROVE q # <<>> /\ q[1].seq = 0 /\ e \in Ends(q)
    <3>1. /\ q # <<>> /\ q[1].seq = 0 /\ q[1].pkt \in Ends(q)
          /\ V[1] = ks[q[1].pkt].good
      BY <2>1, StoredFront, SMTT(30)
    <3>2. QED
      BY <3>1 DEF e
  <2>2. QED
    BY <2>1
<1>12. (IF rd THEN RestOf(q[1]) ELSE k) = Taken(f, rn, vn)
  <2>1. CASE rd
    BY <1>3, <1>9, <2>1 DEF RestOf, Taken, e
  <2>2. CASE ~rd
    BY <1>4, <2>2 DEF Taken
  <2>3. QED
    BY <2>1, <2>2
<1>13. Valids(ks, U, Ends(f) \ {Taken(f, rn, vn)})
  <2> DEFINE A == Ends(q) \ {k}
  <2>1. Valids(ks, V, A)
    BY DEF Stored, k
  <2>2. vrd => rd /\ V # <<>>
    BY DEF Stored
  <2>3. vwr => Len(V) < depth
    <3>1. Len(V) <= Len(q)
      BY <2>1, ValidsRoom
    <3>2. Len(V) \in Nat
      OBVIOUS
    <3>3. QED
      BY <1>1, <3>1, <3>2
  <2>4. vrd => e \in A /\ \A b \in A : e <= b
    <3>1. ASSUME vrd PROVE e \in A /\ \A b \in A : e <= b
      <4>1. k = 0 /\ e \in Ends(q) /\ e # 0
        BY <1>3, <1>4, <2>2, <3>1
      <4>2. ASSUME NEW b \in A PROVE e <= b
        <5>1. PICK i \in 1 .. Len(q) : q[i].pkt = b /\ q[i].flag = "tail"
          BY EndIn
        <5>2. i \in 1 .. Len(l) /\ l[i] = q[i]
          <6>1. One(o.wr) \in {0, 1}
            BY DEF One
          <6>2. QED
            BY <1>1, <6>1
        <5>3. l[i].pkt >= e
          BY <1>3, <2>2, <3>1, <5>2
        <5>4. b >= e /\ b \in Nat /\ e \in Nat
          BY <1>3, <1>8, <2>2, <3>1, <5>1, <5>2, <5>3
        <5>5. QED
          BY <5>4
      <4>3. QED
        BY <4>1, <4>2
    <3>2. QED
      BY <3>1
  <2>5. vwr => /\ o.pkt \in 1 .. Len(ks) /\ \A b \in A : b < o.pkt
    <3>1. ASSUME vwr PROVE o.pkt \in 1 .. Len(ks)
      <4>1. o.wr
        BY <3>1
      <4>2. QED
        BY <1>2, <4>1, LineWord DEF l
    <3>2. vwr => \A b \in A : b < o.pkt
      BY <1>8
    <3>3. QED
      BY <3>1, <3>2
  <2> DEFINE B == (IF vrd THEN A \ {e} ELSE A) \cup (IF vwr THEN {o.pkt} ELSE {})
  <2> HIDE DEF A
  <2>6. Valids(ks, U, B)
    <3>1. vrd => V # <<>> /\ e \in A /\ \A b \in A : e <= b
      BY <2>2, <2>4
    <3>2. vwr => /\ o.pkt \in 1 .. Len(ks) /\ \A b \in A : b < o.pkt
                 /\ val = ks[o.pkt].good /\ Len(V) < depth
      BY <2>3, <2>5
    <3>3. QED
      BY <2>1, <3>1, <3>2, ValidsNext
  <2>7. E = IF vwr THEN {o.pkt} ELSE {}
    BY DEF E
  <2>8. \A b \in E : b # 0 /\ (rd => b # e)
    <3>1. ASSUME NEW b \in E PROVE b # 0 /\ (rd => b # e)
      <4>1. vwr /\ o.wr /\ b = o.pkt
        BY <2>7
      <4>2. b # 0 /\ b \in Nat
        BY <2>5, <4>1
      <4>3. rd => e < b
        BY <1>3, <1>8, <4>1
      <4>4. QED
        BY <1>3, <4>2, <4>3
    <3>2. QED
      BY <3>1
  <2>9. Ends(f) \ {Taken(f, rn, vn)} = B
    <3>1. CASE ~rd
      <4>1. Taken(f, rn, vn) = 0 /\ ~vrd /\ k = 0
        BY <1>4, <2>2, <3>1 DEF Taken
      <4>2. A = Ends(q) /\ Ends(f) = Ends(q) \cup E /\ 0 \notin E
        BY <1>7, <1>8, <2>8, <3>1, <4>1 DEF A
      <4>3. B = Ends(q) \cup E /\ 0 \notin B
        BY <1>8, <2>7, <4>1, <4>2
      <4>4. QED
        BY <4>1, <4>2, <4>3
    <3>2. CASE rd /\ vrd
      <4>1. q[1].flag # "tail" /\ rn /\ ~vn /\ k = 0
        BY <1>3, <1>4, <3>2
      <4>2. Taken(f, rn, vn) = e
        BY <1>9, <3>2, <4>1 DEF Taken
      <4>3. A = Ends(q) /\ Ends(f) = Ends(q) \cup E /\ e \notin E
        BY <1>7, <1>8, <2>8, <3>2, <4>1 DEF A
      <4>4. B = (Ends(q) \ {e}) \cup E
        BY <2>7, <3>2, <4>3
      <4>5. QED
        BY <4>2, <4>3, <4>4
    <3>3. CASE rd /\ ~vrd /\ q[1].flag = "tail"
      <4>1. ~rn /\ k = e /\ Taken(f, rn, vn) = 0
        BY <1>4, <3>3 DEF Taken
      <4>2. A = Ends(q) \ {e} /\ Ends(f) = (Ends(q) \ {e}) \cup E /\ 0 \notin E
        BY <1>7, <2>8, <3>3, <4>1 DEF A
      <4>3. B = (Ends(q) \ {e}) \cup E /\ 0 \notin B
        BY <1>8, <2>7, <3>3, <4>2
      <4>4. QED
        BY <4>1, <4>2, <4>3
    <3>4. CASE rd /\ ~vrd /\ q[1].flag # "tail"
      <4>1. rn /\ ~vn /\ k = e
        BY <1>4, <3>4
      <4>2. Taken(f, rn, vn) = e
        BY <1>9, <3>4, <4>1 DEF Taken
      <4>3. A = Ends(q) \ {e} /\ Ends(f) = Ends(q) \cup E /\ e \notin E
        BY <1>7, <2>8, <3>4, <4>1 DEF A
      <4>4. B = (Ends(q) \ {e}) \cup E
        BY <2>7, <3>4, <4>3
      <4>5. QED
        BY <4>2, <4>3, <4>4
    <3>5. QED
      BY <3>1, <3>2, <3>3, <3>4
  <2>10. QED
    BY <2>6, <2>9, Zenon
<1>14. ~rd /\ V # <<>> => U # <<>>
  <2>1. ASSUME ~rd, V # <<>> PROVE U # <<>>
    <3>1. U = FifoNext(V, FALSE, vwr, val, depth)
      BY <2>1 DEF Stored
    <3>2. vwr => val \in BOOLEAN
      <4>1. ASSUME vwr PROVE ks[o.pkt].good \in BOOLEAN
        <5>1. o.wr
          BY <4>1
        <5>2. QED
          BY <1>2, <5>1, LineWord DEF l
      <4>2. QED
        BY <4>1
    <3>3. QED
      BY <2>1, <3>1, <3>2, FrontBit, Zenon
  <2>2. QED
    BY <2>1
<1>15. rn => f # <<>> /\ f[1].pkt = e /\ f[1].pkt \in Ends(f) /\ vn = (f[1].seq = 0)
  <2>1. ASSUME rn, rd
        PROVE  f # <<>> /\ f[1].pkt = e /\ f[1].pkt \in Ends(f) /\ vn = (f[1].seq = 0)
    <3>1. Ends(f) = Ends(q) \cup E
      BY <1>7, <2>1
    <3>2. q[1].seq \in Nat
      BY <1>3, <2>1, WordIs
    <3>3. f[1].seq # 0
      <4>1. f[1].seq = q[1].seq + 1
        BY <1>9, <2>1
      <4>2. q[1].seq + 1 # 0
        BY <3>2
      <4>3. QED
        BY <4>1, <4>2, Zenon
    <3>4. QED
      BY <1>3, <1>9, <2>1, <3>1, <3>3
  <2>2. ASSUME rn, ~rd
        PROVE  f # <<>> /\ f[1].pkt = e /\ f[1].pkt \in Ends(f) /\ vn = (f[1].seq = 0)
    <3>1. q # <<>> /\ q[1].seq = 0 /\ e \in Ends(q) /\ vn
      BY <1>11, <2>2
    <3>2. Ends(f) = Ends(q) \cup E
      BY <1>7, <2>2
    <3>3. QED
      BY <1>10, <2>2, <3>1, <3>2 DEF e
  <2>3. QED
    BY <2>1, <2>2
<1>16. vn => rn /\ U # <<>>
  BY <1>14
<1>17. Runs(ks, Line(f, w), Taken(f, rn, vn), OpenOf(w))
  BY <1>6, <1>12, Zenon
<1>18. Stored(ks, f, w, U, rn, vn)
  BY <1>13, <1>15, <1>16, <1>17 DEF Stored
<1>19. QED
  BY <1>9, <1>10, <1>14, <1>15, <1>18 DEF e

LEMMA StoredGrow ==
  ASSUME NEW ks \in Seq(AllKinds), NEW ls \in Seq(AllKinds),
         1 .. Len(ks) \subseteq 1 .. Len(ls),
         \A i \in 1 .. Len(ks) : ls[i] = ks[i],
         NEW q \in Seq(Beat), NEW o \in Beat, NEW V \in Seq(BOOLEAN),
         NEW rd, NEW vrd, Stored(ks, q, o, V, rd, vrd)
  PROVE  Stored(ls, q, o, V, rd, vrd)
<1> DEFINE l == Line(q, o)
           k == Taken(q, rd, vrd)
<1>1. l \in Seq(Beat)
  BY LineOpen
<1>2. Runs(ks, l, k, OpenOf(o)) /\ Valids(ks, V, Ends(q) \ {k})
  BY DEF Stored
<1> HIDE DEF l, k
<1>3. Runs(ls, l, k, OpenOf(o))
  BY <1>1, <1>2, RunsGrow
<1>4. Valids(ls, V, Ends(q) \ {k})
  BY <1>2, ValidsGrow
<1>5. QED
  BY <1>3, <1>4 DEF Stored, l, k
-----------------------------------------------------------------------------
(***************************************************************************)
(* The words from the port to gac.                                         *)
(***************************************************************************)

DcLine == Line(dcFifo, gppOut)
GacLine == Line(gacFifo, dcOut)

\* gpp passes the words of a packet on, each one clock later.
GppSends ==
  /\ gppVwr = (gppOut.wr /\ gppOut.flag = "tail")
  /\ gppVwr => gppVal = kinds[gppOut.pkt].good
  /\ gppOut.wr /\ gppOut.flag # "tail" => gppState = "TRANS"
  /\ gppState = "TRANS" => /\ gppOut.wr /\ gppOut.pkt = pin.pkt
                           /\ gppOut.seq = pin.seq - 1

LEMMA GppNext ==
  ASSUME FrontInv, GppSends, PinContinue \/ PinHead \/ PinPause,
         GppClock(pin, PinValid, KindOf(pin.pkt))
  PROVE  /\ gppOut'.wr = (pin.wr /\ Accepts(kinds[pin.pkt].dmid))
         /\ gppOut'.wr => gppOut' = pin
         /\ GppSends'
<1>1. TypeOK /\ Port1 /\ Parsing
  BY DEF FrontInv
<1>2. /\ pin.wr = FALSE => pin = Idle
      /\ pin.wr => /\ pin.pkt = Len(kinds) /\ pin.pkt \in Pkts
                   /\ pin.seq \in 0 .. LastNo(pin.pkt)
                   /\ LastNo(pin.pkt) \in Nat /\ LastNo(pin.pkt) >= 5
                   /\ (pin.flag = "head") = (pin.seq = 0)
                   /\ (pin.flag = "tail") = (pin.seq = LastNo(pin.pkt))
      /\ pin.wr \in BOOLEAN /\ pin.seq \in Nat
      /\ ~pin.wr => pin.seq = 0 /\ pin.flag = "none"
      /\ pin.wr => pin.flag \in {"head", "body", "tail"}
  BY <1>1, PinType
<1>20. pin.wr => (pin.seq = 0 => pin.flag = "head")
                 /\ (pin.flag # "tail" => InPacket(pin))
  BY <1>2 DEF InPacket
<1>3. InPacket(pin) => /\ pin'.wr /\ pin'.pkt = pin.pkt
                       /\ pin'.seq = pin.seq + 1
  BY <1>1, PortMoves
<1>30. InPacket(pin) => pin'.pkt = pin.pkt /\ pin'.seq - 1 = pin.seq
  BY <1>2, <1>3
<1>4. pin.wr => /\ KindOf(pin.pkt) = kinds[pin.pkt]
                /\ kinds'[pin.pkt] = kinds[pin.pkt]
                /\ PinValid = (pin.seq = LastNo(pin.pkt) /\ kinds[pin.pkt].good)
                /\ kinds[pin.pkt].good \in BOOLEAN
  BY <1>1, <1>2, PinKind, KindsGrow, KindType
<1>5. GppForward(pin, PinValid, KindOf(pin.pkt))
  BY DEF GppClock
<1>6. CASE ~pin.wr
  <2>1. gppState = "IDLE" /\ ~IsHead(pin)
    BY <1>1, <1>2, <1>6 DEF Parsing, IsHead
  <2>2. gppOut' = Idle /\ gppState' = "IDLE" /\ gppVwr' = FALSE
    BY <1>5, <2>1 DEF GppForward
  <2>3. QED
    BY <1>6, <2>2 DEF GppSends, Idle
<1>7. CASE pin.wr /\ pin.seq = 0
  <2>1. gppState = "IDLE" /\ IsHead(pin) /\ InPacket(pin)
    BY <1>1, <1>20, <1>7 DEF Parsing, IsHead
  <2>2. CASE Accepts(kinds[pin.pkt].dmid)
    <3>1. gppOut' = pin /\ gppState' = "TRANS" /\ gppVwr' = FALSE
      BY <1>4, <1>5, <1>7, <2>1, <2>2 DEF GppForward
    <3>2. pin.flag # "tail"
      BY <1>20, <1>7
    <3>3. pin'.pkt = pin.pkt /\ pin'.seq - 1 = pin.seq
      BY <1>30, <2>1
    <3>4. QED
      BY <1>7, <2>2, <3>1, <3>2, <3>3 DEF GppSends
  <2>3. CASE ~Accepts(kinds[pin.pkt].dmid)
    <3>1. gppOut' = Idle /\ gppState' = "DISCARD" /\ gppVwr' = FALSE
      BY <1>4, <1>5, <1>7, <2>1, <2>3 DEF GppForward
    <3>2. QED
      BY <2>3, <3>1 DEF GppSends, Idle
  <2>4. QED
    BY <2>2, <2>3
<1>8. CASE pin.wr /\ pin.seq # 0
  <2>1. gppFlag = Accepts(kinds[pin.pkt].dmid)
        /\ gppState = IF gppFlag THEN "TRANS" ELSE "DISCARD"
    BY <1>1, <1>8 DEF Parsing
  <2>2. CASE Accepts(kinds[pin.pkt].dmid)
    <3>1. /\ gppOut' = [pin EXCEPT !.wr = TRUE] /\ gppVal' = PinValid
          /\ gppVwr' = (pin.flag = "tail")
          /\ gppState' = IF pin.flag = "tail" THEN "IDLE" ELSE "TRANS"
      BY <1>5, <2>1, <2>2 DEF GppForward
    <3>2. gppOut' = pin
      BY <1>1, <1>8, <3>1 DEF TypeOK, Beat
    <3>3. pin.flag # "tail" => pin'.pkt = pin.pkt /\ pin'.seq - 1 = pin.seq
      BY <1>20, <1>30, <1>8
    <3>4. pin.flag = "tail" => PinValid = kinds'[pin.pkt].good
      BY <1>2, <1>4, <1>8
    <3>5. QED
      BY <1>8, <2>2, <3>1, <3>2, <3>3, <3>4 DEF GppSends
  <2>3. CASE ~Accepts(kinds[pin.pkt].dmid)
    <3>1. /\ gppOut' = [gppOut EXCEPT !.wr = FALSE] /\ gppVwr' = FALSE
          /\ gppState' # "TRANS"
      BY <1>5, <2>1, <2>3 DEF GppForward
    <3>2. gppOut'.wr = FALSE
      BY <1>1, <3>1 DEF TypeOK, GppTypeOK, Beat
    <3>3. QED
      BY <2>3, <3>1, <3>2 DEF GppSends
  <2>4. QED
    BY <2>2, <2>3
<1>9. QED
  BY <1>6, <1>7, <1>8

\* The word it sends continues the line.
LEMMA GppFollows ==
  ASSUME FrontInv, GppSends, PinContinue \/ PinHead \/ PinPause,
         GppClock(pin, PinValid, KindOf(pin.pkt)),
         NEW rest, Runs(kinds, DcLine, rest, OpenOf(gppOut)),
         pin.wr /\ pin.seq = 0 =>
           \A i \in 1 .. Len(DcLine) : DcLine[i].pkt < pin.pkt
  PROVE  /\ ~gppOut'.wr => OpenOf(gppOut) = 0
         /\ gppOut'.wr => /\ OfPacket(kinds, gppOut')
                          /\ Follows(DcLine, gppOut', OpenOf(gppOut))
<1>1. TypeOK /\ Port1 /\ Parsing
  BY DEF FrontInv
<1>2. /\ pin.wr => /\ pin.pkt = Len(kinds) /\ pin.pkt \in Pkts
                   /\ kinds[pin.pkt] \in AllKinds
                   /\ pin.seq \in 0 .. LastNo(pin.pkt)
                   /\ LastNo(pin.pkt) \in Nat
                   /\ (pin.flag = "head") = (pin.seq = 0)
                   /\ (pin.flag = "tail") = (pin.seq = LastNo(pin.pkt))
                   /\ pin.flag # "none"
      /\ pin.wr \in BOOLEAN /\ pin.seq \in Nat
      /\ ~pin.wr => pin.seq = 0
  BY <1>1, PinType
<1>3. /\ gppOut'.wr = (pin.wr /\ Accepts(kinds[pin.pkt].dmid))
      /\ gppOut'.wr => gppOut' = pin
  BY GppNext
<1>4. kinds \in Seq(AllKinds) /\ gppOut \in Beat /\ dcFifo \in Seq(Beat) /\ pin \in Beat
  BY <1>1 DEF TypeOK, GppTypeOK, DcTypeOK
<1>5. gppState = "TRANS" => /\ pin.wr /\ pin.seq # 0
                            /\ Accepts(kinds[pin.pkt].dmid)
  BY <1>1, <1>2 DEF Parsing
<1>6. OpenOf(gppOut) # 0 => gppState = "TRANS"
  BY DEF OpenOf, GppSends
<1>7. ~gppOut'.wr => OpenOf(gppOut) = 0
  BY <1>3, <1>5, <1>6
<1>8. ASSUME gppOut'.wr
      PROVE  OfPacket(kinds, pin) /\ Follows(DcLine, pin, OpenOf(gppOut))
  <2>1. pin.wr /\ Accepts(kinds[pin.pkt].dmid) /\ gppOut' = pin
    BY <1>3, <1>8
  <2>2. kinds[pin.pkt].len \in Nat
    BY <1>2, <2>1, KindType
  <2>3. OfPacket(kinds, pin)
    BY <1>2, <1>4, <2>1, <2>2 DEF OfPacket, LastNo, Pkts
  <2>4. CASE pin.seq = 0
    <3>1. OpenOf(gppOut) = 0
      BY <1>5, <1>6, <2>4
    <3>2. QED
      BY <2>1, <2>3, <2>4, <3>1 DEF Follows
  <2>5. CASE pin.seq # 0
    <3>1. gppState = "TRANS"
      BY <1>1, <2>1, <2>5 DEF Parsing
    <3>2. gppOut.wr /\ gppOut.pkt = pin.pkt /\ gppOut.seq = pin.seq - 1
      BY <3>1 DEF GppSends
    <3>3. DcLine # <<>> /\ DcLine[Len(DcLine)] = gppOut
      BY <1>4, <3>2, LineLast DEF DcLine
    <3>4. gppOut.flag # "tail"
      <4>1. OfPacket(kinds, gppOut)
        BY <1>4, <3>2, LineWord DEF DcLine
      <4>2. (gppOut.flag = "tail") = (gppOut.seq = LastNo(pin.pkt))
        BY <3>2, <4>1 DEF OfPacket, LastNo
      <4>3. pin.seq - 1 # LastNo(pin.pkt)
        BY <1>2, <2>1
      <4>4. QED
        BY <3>2, <4>2, <4>3
    <3>5. OpenOf(gppOut) = pin.pkt
      BY <3>2, <3>4 DEF OpenOf
    <3>6. QED
      BY <2>3, <2>5, <3>2, <3>3, <3>5 DEF Follows
  <2>6. QED
    BY <2>4, <2>5
<1>9. QED
  BY <1>3, <1>7, <1>8

\* The data cache passes on the packets that arrived valid.
DcIn == Stored(kinds, dcFifo, gppOut, dcVFifo, dcRd, dcVRd)
DcSends ==
  /\ dcRd = (dcState # "IDLE")
  /\ dcState # "IDLE" => kinds[DcWord.pkt].good = (dcState = "SEND")
  /\ dcVwr = (dcOut.wr /\ dcOut.flag = "tail")
  /\ dcOut.wr /\ dcOut.flag # "tail" => dcState = "SEND" /\ ~dcVRd
  /\ dcState = "SEND" /\ ~dcVRd => /\ dcOut.wr /\ dcOut.pkt = DcWord.pkt
                                   /\ dcOut.seq = DcWord.seq - 1
DcBefore ==
  pin.wr /\ pin.seq = 0 => \A i \in 1 .. Len(DcLine) : DcLine[i].pkt < pin.pkt

LEMMA DcMoves ==
  ASSUME TypeOK, dcRd = (dcState # "IDLE"),
         NEW alf, DcClock(gppOut, gppVal, gppVwr, alf)
  PROVE  /\ dcRd' \in BOOLEAN /\ dcVRd' \in BOOLEAN
         /\ dcRd => dcRd' = (DcWord.flag # "tail") /\ ~dcVRd'
         /\ ~dcRd => /\ dcVRd' = dcRd'
                     /\ dcState' = "SEND" => ~alf
                     /\ dcRd' => dcVFifo # <<>>
                                 /\ dcVFifo[1] = (dcState' = "SEND")
         /\ dcOut'.wr = (dcState = "SEND")
         /\ dcState = "SEND" => dcOut' = [DcWord EXCEPT !.wr = TRUE]
                                /\ dcVwr' = (DcWord.flag = "tail")
         /\ dcState # "SEND" => ~dcVwr'
         /\ dcRd' = (dcState' # "IDLE")
         /\ dcRd /\ dcRd' => dcState' = dcState
<1>1. /\ dcVFifo \in Seq(BOOLEAN) /\ dcOut \in Beat /\ dcRd \in BOOLEAN
      /\ dcState \in {"IDLE", "SEND", "DISCARD"} /\ dcFifo \in Seq(Beat)
  BY DEF TypeOK, DcTypeOK
<1>2. DcWord \in Beat
  <2>1. Idle \in Beat
    BY DEF Idle, Beat, Flags
  <2>2. QED
    BY <1>1, <2>1, FrontType DEF DcWord
<1>3. DcStart(alf) \/ DcSend \/ DcDiscard
  BY DEF DcClock
<1>4. CASE dcState = "IDLE"
  <2>1. DcStart(alf)
    BY <1>3, <1>4 DEF DcSend, DcDiscard
  <2>2. dcOut'.wr = FALSE /\ dcVwr' = FALSE
    BY <1>1, <2>1 DEF DcStart, Beat
  <2>3. dcVFifo # <<>> => dcVFifo[1] \in BOOLEAN /\ Head(dcVFifo) = dcVFifo[1]
    BY <1>1, EmptySeq
  <2>4. QED
    BY <1>4, <2>1, <2>2, <2>3 DEF DcStart
<1>5. CASE dcState = "SEND"
  <2>1. DcSend
    BY <1>3, <1>5 DEF DcStart, DcDiscard
  <2>2. dcOut'.wr = TRUE
    BY <1>2, <2>1 DEF DcSend, Beat
  <2>3. QED
    BY <1>5, <2>1, <2>2 DEF DcSend
<1>6. CASE dcState = "DISCARD"
  <2>1. DcDiscard
    BY <1>3, <1>6 DEF DcStart, DcSend
  <2>2. dcOut'.wr = FALSE
    BY <2>1 DEF DcDiscard, Idle
  <2>3. QED
    BY <1>6, <2>1, <2>2 DEF DcDiscard
<1>7. QED
  BY <1>1, <1>4, <1>5, <1>6

LEMMA DcNext ==
  ASSUME FrontInv, TypeOK', GppSends, DcIn, DcSends, DcBefore,
         PinContinue \/ PinHead \/ PinPause,
         GppClock(pin, PinValid, KindOf(pin.pkt)),
         NEW alf, DcClock(gppOut, gppVal, gppVwr, alf),
         gppOut.wr => Len(dcFifo) < DataDepth
  PROVE  /\ Stored(kinds, dcFifo', gppOut', dcVFifo', dcRd', dcVRd')
         /\ dcRd' => dcFifo'[1].pkt = dcFifo[1].pkt
         /\ dcRd /\ dcRd' => dcFifo'[1].seq = dcFifo[1].seq + 1
         /\ ~dcRd /\ dcVFifo # <<>> => dcVFifo[1] = kinds[dcFifo[1].pkt].good
<1>1. /\ dcFifo \in Seq(Beat) /\ gppOut \in Beat /\ dcVFifo \in Seq(BOOLEAN)
      /\ dcRd \in BOOLEAN /\ dcVRd \in BOOLEAN /\ gppVwr \in BOOLEAN
      /\ kinds \in Seq(AllKinds) /\ gppOut' \in Beat /\ TypeOK
      /\ dcRd' \in BOOLEAN /\ dcVRd' \in BOOLEAN
      /\ gppOut.wr \in BOOLEAN /\ gppOut'.wr \in BOOLEAN
  BY DEF FrontInv, TypeOK, DcTypeOK, GppTypeOK, Beat
<1>2. DataDepth \in Nat
  BY PipeAssumption
<1>3. /\ dcFifo' = FifoNext(dcFifo, dcRd, gppOut.wr, gppOut, DataDepth)
      /\ dcVFifo' = FifoNext(dcVFifo, dcVRd, gppVwr, gppVal, DataDepth)
  BY DEF DcClock
<1>4. Stored(kinds, dcFifo, gppOut, dcVFifo, dcRd, dcVRd)
  BY DEF DcIn
<1>5. Runs(kinds, DcLine, Taken(dcFifo, dcRd, dcVRd), OpenOf(gppOut))
  BY <1>4 DEF Stored, DcLine
<1>6. /\ ~gppOut'.wr => OpenOf(gppOut) = 0
      /\ gppOut'.wr => /\ OfPacket(kinds, gppOut')
                       /\ Follows(Line(dcFifo, gppOut), gppOut', OpenOf(gppOut))
  BY <1>5, GppFollows DEF DcBefore, DcLine
<1>7. /\ gppVwr = (gppOut.wr /\ gppOut.flag = "tail")
      /\ gppVwr => gppVal = kinds[gppOut.pkt].good
  BY DEF GppSends
<1>8. /\ dcRd => dcRd' = (DcWord.flag # "tail") /\ ~dcVRd'
      /\ ~dcRd => dcVRd' = dcRd' /\ (dcRd' => dcVFifo # <<>>)
  BY <1>1, DcMoves DEF DcSends
<1>9. dcRd => dcFifo # <<>> /\ DcWord = dcFifo[1]
  <2>1. dcRd => dcFifo # <<>>
    BY <1>4 DEF Stored
  <2>2. QED
    BY <1>1, <2>1, FrontType DEF DcWord
<1>10. dcRd => dcRd' = (dcFifo[1].flag # "tail") /\ ~dcVRd'
  BY <1>8, <1>9
<1>11. /\ Stored(kinds, dcFifo', gppOut', dcVFifo', dcRd', dcVRd')
       /\ dcRd' => dcFifo'[1].pkt = dcFifo[1].pkt
       /\ dcRd /\ dcRd' => dcFifo'[1].seq = dcFifo[1].seq + 1
       /\ ~dcRd => (dcVFifo # <<>> => dcVFifo' # <<>>)
                   /\ (dcFifo # <<>> => dcFifo'[1] = dcFifo[1])
  <2>1. FifoClock(kinds, dcFifo, gppOut, dcVFifo, dcRd, dcVRd, gppVwr, gppVal,
                  DataDepth, dcFifo', dcVFifo', gppOut', dcRd', dcVRd')
    BY <1>1, <1>2, <1>3, <1>4, <1>6, <1>7, <1>8, <1>10 DEF FifoClock
  <2>2. QED
    BY <2>1, StoredNext
<1>12. ~dcRd /\ dcVFifo # <<>> => dcVFifo[1] = kinds[dcFifo[1].pkt].good
  <2>1. ASSUME ~dcRd, dcVFifo # <<>>
        PROVE  /\ dcFifo # <<>> /\ dcFifo[1].seq = 0 /\ dcFifo[1].pkt \in Ends(dcFifo)
               /\ dcVFifo[1] = kinds[dcFifo[1].pkt].good
    BY <1>1, <1>4, <2>1, StoredFront
  <2>2. QED
    BY <2>1
<1>13. QED
  BY <1>11, <1>12

\* What holds of the words up to the data cache.
DcInv == FrontInv /\ GppSends /\ DcIn /\ DcSends /\ DcBefore

LEMMA DcKept ==
  ASSUME DcInv, TypeOK', PinContinue \/ PinHead \/ PinPause,
         GppClock(pin, PinValid, KindOf(pin.pkt)),
         NEW alf, DcClock(gppOut, gppVal, gppVwr, alf),
         gppOut.wr => Len(dcFifo) < DataDepth
  PROVE  GppSends' /\ DcIn' /\ DcSends' /\ DcBefore'
<1>1. /\ FrontInv /\ GppSends /\ DcIn /\ DcSends /\ DcBefore /\ TypeOK /\ Port1
      /\ kinds \in Seq(AllKinds) /\ kinds' \in Seq(AllKinds)
      /\ gppOut' \in Beat /\ dcFifo \in Seq(Beat) /\ dcFifo' \in Seq(Beat)
      /\ dcVFifo' \in Seq(BOOLEAN) /\ dcVFifo \in Seq(BOOLEAN)
      /\ dcRd \in BOOLEAN /\ dcRd' \in BOOLEAN /\ dcVRd' \in BOOLEAN
      /\ dcOut' \in Beat /\ dcState' \in {"IDLE", "SEND", "DISCARD"}
  BY DEF DcInv, FrontInv, TypeOK, GppTypeOK, DcTypeOK
<1>2. GppSends'
  BY <1>1, GppNext
<1>3. /\ Stored(kinds, dcFifo', gppOut', dcVFifo', dcRd', dcVRd')
      /\ dcRd' => dcFifo'[1].pkt = dcFifo[1].pkt
      /\ dcRd /\ dcRd' => dcFifo'[1].seq = dcFifo[1].seq + 1
      /\ ~dcRd /\ dcVFifo # <<>> => dcVFifo[1] = kinds[dcFifo[1].pkt].good
  BY <1>1, DcNext
<1>4. /\ 1 .. Len(kinds) \subseteq 1 .. Len(kinds')
      /\ \A i \in 1 .. Len(kinds) : kinds'[i] = kinds[i]
      /\ Len(kinds) \in Nat /\ Len(kinds') \in Nat
  BY <1>1, KindsGrow DEF Pkts
<1>5. DcIn'
  <2>1. Stored(kinds', dcFifo', gppOut', dcVFifo', dcRd', dcVRd')
    BY <1>1, <1>3, <1>4, StoredGrow
  <2>2. QED
    BY <2>1 DEF DcIn
<1>6. DcBefore'
  <2>1. SUFFICES ASSUME pin'.wr, pin'.seq = 0, NEW i \in 1 .. Len(DcLine')
                 PROVE  DcLine'[i].pkt < pin'.pkt
    BY DEF DcBefore
  <2>2. PinHead
    <3>1. pin.seq \in Nat
      BY <1>1, PinType
    <3>2. ~PinContinue
      <4>1. PinContinue => pin'.seq = pin.seq + 1
        BY <1>1, PortMoves DEF PinContinue
      <4>2. QED
        BY <2>1, <3>1, <4>1
    <3>3. ~PinPause
      BY <2>1 DEF PinPause, Idle
    <3>4. QED
      BY <3>2, <3>3
  <2>3. pin'.pkt = Len(kinds) + 1
    BY <2>2 DEF PinHead
  <2>4. DcLine' \in Seq(Beat) /\ Runs(kinds, DcLine', Taken(dcFifo', dcRd', dcVRd'), OpenOf(gppOut'))
    BY <1>1, <1>3, LineOpen DEF Stored, DcLine
  <2>5. DcLine'[i].pkt \in 1 .. Len(kinds)
    BY <1>1, <2>4, RunWords
  <2>6. QED
    BY <1>4, <2>3, <2>5
<1>7. /\ dcRd => dcRd' = (DcWord.flag # "tail") /\ ~dcVRd'
      /\ ~dcRd => /\ dcVRd' = dcRd'
                  /\ dcRd' => dcVFifo # <<>> /\ dcVFifo[1] = (dcState' = "SEND")
      /\ dcOut'.wr = (dcState = "SEND")
      /\ dcState = "SEND" => dcOut' = [DcWord EXCEPT !.wr = TRUE]
                             /\ dcVwr' = (DcWord.flag = "tail")
      /\ dcState # "SEND" => ~dcVwr'
      /\ dcRd' = (dcState' # "IDLE")
      /\ dcRd /\ dcRd' => dcState' = dcState
      /\ dcRd = (dcState # "IDLE")
  BY <1>1, DcMoves DEF DcSends
<1>8. /\ dcRd => dcFifo # <<>> /\ DcWord = dcFifo[1] /\ dcFifo[1].pkt \in 1 .. Len(kinds)
                 /\ dcFifo[1] \in Beat /\ dcFifo[1].seq \in Nat
                 /\ dcFifo[1].wr = TRUE
      /\ dcRd' => dcFifo' # <<>> /\ DcWord' = dcFifo'[1]
                  /\ dcFifo'[1].pkt \in 1 .. Len(kinds)
  <2>1. dcRd => dcFifo # <<>>
    BY <1>1 DEF DcIn, Stored
  <2>2. dcRd' => dcFifo' # <<>>
    BY <1>3 DEF Stored
  <2>3. dcFifo # <<>> => DcWord = dcFifo[1]
    BY <1>1, FrontType DEF DcWord
  <2>4. dcFifo' # <<>> => DcWord' = dcFifo'[1]
    BY <1>1, FrontType DEF DcWord
  <2>5. dcFifo # <<>> => OfPacket(kinds, dcFifo[1])
    <3>1. Stored(kinds, dcFifo, gppOut, dcVFifo, dcRd, dcVRd) /\ gppOut \in Beat
          /\ dcVRd \in BOOLEAN
      BY <1>1 DEF DcIn, TypeOK, GppTypeOK, DcTypeOK
    <3>2. QED
      BY <1>1, <3>1, StoredReads
  <2>6. dcFifo' # <<>> => OfPacket(kinds, dcFifo'[1])
    BY <1>1, <1>3, StoredReads
  <2>7. QED
    BY <1>1, <2>1, <2>2, <2>3, <2>4, <2>5, <2>6, WordIs
<1>9. ASSUME dcRd' PROVE kinds'[DcWord'.pkt].good = (dcState' = "SEND")
  <2>1. DcWord'.pkt = dcFifo[1].pkt /\ dcFifo[1].pkt \in 1 .. Len(kinds)
    BY <1>3, <1>8, <1>9
  <2>2. kinds'[DcWord'.pkt] = kinds[dcFifo[1].pkt]
    BY <1>4, <2>1
  <2>3. CASE dcRd
    <3>1. kinds[DcWord.pkt].good = (dcState = "SEND")
      BY <1>1, <1>7, <2>3 DEF DcSends
    <3>2. QED
      BY <1>7, <1>8, <1>9, <2>2, <2>3, <3>1
  <2>4. CASE ~dcRd
    BY <1>3, <1>7, <1>9, <2>2, <2>4
  <2>5. QED
    BY <2>3, <2>4
<1>10. dcState = "SEND" => dcOut'.wr /\ dcOut'.flag = DcWord.flag
                           /\ dcOut'.pkt = DcWord.pkt /\ dcOut'.seq = DcWord.seq
  BY <1>7, <1>8 DEF Beat
<1>11. dcVwr' = (dcOut'.wr /\ dcOut'.flag = "tail")
  <2>1. dcVwr' \in BOOLEAN /\ dcOut'.wr \in BOOLEAN
    BY <1>1 DEF TypeOK, DcTypeOK, Beat
  <2>2. QED
    BY <1>7, <1>10, <2>1
<1>12. ASSUME dcState' = "SEND", ~dcVRd'
       PROVE  dcOut'.wr /\ dcOut'.pkt = DcWord'.pkt /\ dcOut'.seq = DcWord'.seq - 1
  <2>1. dcRd /\ dcRd' /\ dcState = "SEND"
    BY <1>1, <1>7, <1>12
  <2>2. DcWord'.pkt = DcWord.pkt /\ DcWord'.seq = DcWord.seq + 1 /\ DcWord.seq \in Nat
    BY <1>3, <1>8, <2>1
  <2>3. QED
    BY <1>10, <2>1, <2>2
<1>13. dcOut'.wr /\ dcOut'.flag # "tail" => dcState' = "SEND" /\ ~dcVRd'
  BY <1>7, <1>10
<1>14. DcSends'
  BY <1>7, <1>9, <1>11, <1>12, <1>13 DEF DcSends
<1>15. QED
  BY <1>2, <1>5, <1>6, <1>14
-----------------------------------------------------------------------------
(***************************************************************************)
(* The words from the data cache to gac's output.                          *)
(***************************************************************************)

Nos(q) == {q[i].pkt : i \in 1 .. Len(q)}

LEMMA LineParts ==
  ASSUME NEW q \in Seq(Beat), NEW o \in Beat
  PROVE  \A i \in 1 .. Len(Line(q, o)) :
           \/ i \in 1 .. Len(q) /\ Line(q, o)[i] = q[i]
           \/ o.wr /\ Line(q, o)[i] = o
<1>1. CASE o.wr
  <2>1. /\ Line(q, o) = Append(q, o)
        /\ Len(Append(q, o)) = Len(q) + 1 /\ Append(q, o)[Len(q) + 1] = o
        /\ Len(q) \in Nat /\ \A i \in 1 .. Len(q) : Append(q, o)[i] = q[i]
    BY <1>1, AppendIs DEF Line
  <2>2. \A i \in 1 .. Len(q) + 1 : i \in 1 .. Len(q) \/ i = Len(q) + 1
    BY <2>1
  <2>3. QED
    BY <1>1, <2>1, <2>2
<1>2. CASE ~o.wr
  BY <1>2 DEF Line
<1>3. QED
  BY <1>1, <1>2

\* The packets in a line after a clock: the one that comes, and those that
\* were there, without the one whose last word was taken.
LEMMA NosNext ==
  ASSUME NEW ks \in Seq(AllKinds), NEW q \in Seq(Beat), NEW o \in Beat,
         NEW w \in Beat, NEW rd \in BOOLEAN, NEW depth \in Nat,
         o.wr => Len(q) < depth, rd => q # <<>>,
         NEW f, f = FifoNext(q, rd, o.wr, o, depth),
         NEW rest, NEW open, Runs(ks, Line(q, o), rest, open)
  PROVE  \A x \in Nos(Line(f, w)) :
           \/ w.wr /\ x = w.pkt
           \/ x \in Nos(Line(q, o)) /\ (rd /\ q[1].flag = "tail" => x > q[1].pkt)
<1> DEFINE l == Line(q, o)
           g == Line(f, w)
<1>1. /\ l \in Seq(Beat) /\ Len(l) \in Nat /\ Len(q) <= Len(l) /\ Len(q) \in Nat
      /\ \A i \in 1 .. Len(q) : l[i] = q[i]
  BY LineOpen
<1>2. f = (IF rd THEN Tail(l) ELSE l) /\ f \in Seq(Beat)
  BY LineTaken
<1>3. \A i \in 1 .. Len(g) : (i \in 1 .. Len(f) /\ g[i] = f[i]) \/ (w.wr /\ g[i] = w)
  <2>1. f \in Seq(Beat)
    BY <1>2
  <2>2. QED
    BY <2>1, LineParts
<1>4. Runs(ks, l, rest, open)
  OBVIOUS
<1>5. /\ \A i \in 1 .. Len(l) : /\ l[i].pkt \in Nat /\ l[i].seq \in Nat
                                /\ l[i].seq < ks[l[i].pkt].len
                                /\ ks[l[i].pkt].len \in Nat
                                /\ (l[i].flag = "tail") = (l[i].seq = ks[l[i].pkt].len - 1)
  BY <1>1, <1>4, RunWords
<1>6. rd => l # <<>> /\ l[1] = q[1] /\ 1 \in 1 .. Len(l)
  <2>1. rd => 1 \in 1 .. Len(q)
    BY EmptySeq
  <2>2. QED
    BY <1>1, <2>1, EmptySeq
<1> HIDE DEF l
<1>7. \A i \in 1 .. Len(f) :
        /\ f[i].pkt \in Nos(l)
        /\ rd /\ q[1].flag = "tail" => f[i].pkt > q[1].pkt
  <2>1. CASE ~rd
    BY <1>2, <2>1 DEF Nos
  <2>2. CASE rd
    <3>1. TAKE i \in 1 .. Len(f)
    <3>2. /\ Len(f) = Len(l) - 1 /\ f[i] = l[i + 1] /\ i + 1 \in 1 .. Len(l)
          /\ 1 < i + 1 /\ i \in Nat
      BY <1>1, <1>2, <1>6, <2>2
    <3>3. f[i].pkt \in Nos(l)
      BY <3>2 DEF Nos
    <3>4. ASSUME q[1].flag = "tail" PROVE f[i].pkt > q[1].pkt
      <4>1. \/ l[1].pkt < l[i + 1].pkt
            \/ l[1].pkt = l[i + 1].pkt /\ l[i + 1].seq = l[1].seq + ((i + 1) - 1)
        BY <1>4, <1>6, <2>2, <3>2 DEF Runs, InRuns
      <4>2. l[1].seq = ks[l[1].pkt].len - 1
        BY <1>5, <1>6, <2>2, <3>4
      <4>3. l[1].pkt # l[i + 1].pkt
        <5>1. SUFFICES ASSUME l[1].pkt = l[i + 1].pkt PROVE FALSE
          OBVIOUS
        <5>2. l[1].pkt \in Nat /\ l[1].seq \in Nat /\ ks[l[1].pkt].len \in Nat
          BY <1>5, <1>6, <2>2
        <5>3. l[i + 1].seq < ks[l[1].pkt].len
          BY <1>5, <3>2, <5>1
        <5>4. l[i + 1].seq = l[1].seq + ((i + 1) - 1)
          BY <4>1, <5>1, <5>2
        <5>5. QED
          BY <3>2, <4>2, <5>2, <5>3, <5>4, SMTT(30)
      <4>4. QED
        BY <1>5, <1>6, <2>2, <3>2, <4>1, <4>3
    <3>5. QED
      BY <3>3, <3>4
  <2>3. QED
    BY <2>1, <2>2
<1> HIDE DEF g
<1>8. \A x \in Nos(g) : \/ w.wr /\ x = w.pkt
                        \/ x \in Nos(l) /\ (rd /\ q[1].flag = "tail" => x > q[1].pkt)
  <2>1. TAKE x \in Nos(g)
  <2>2. PICK i \in 1 .. Len(g) : x = g[i].pkt
    BY DEF Nos
  <2>3. CASE i \in 1 .. Len(f) /\ g[i] = f[i]
    BY <1>7, <2>2, <2>3
  <2>4. CASE w.wr /\ g[i] = w
    BY <2>2, <2>4
  <2>5. QED
    BY <1>3, <2>3, <2>4
<1>9. QED
  BY <1>8 DEF l, g

\* When gac takes from which FIFO.
GacIn == Stored(kinds, gacFifo, dcOut, gacVFifo, gacRd, gacVRd)
GacReads ==
  /\ gacState \in {"IDLE", "LOOKUP", "WAIT"} => ~gacRd /\ ~gacVRd
  /\ gacState = "METADATA" => gacRd /\ gacVRd
  /\ gacState = "TRANS" => gacRd
  /\ gacMdRd = gacVRd
  /\ gacState \in {"LOOKUP", "WAIT"} => gacVFifo # <<>> /\ gacMds # <<>>
  /\ gacVRd => gacMds # <<>>

\* The words gac takes.
LEMMA GacTakes ==
  ASSUME TypeOK, GacIn
  PROVE  gacRd => /\ gacFifo # <<>> /\ GacWord = gacFifo[1]
                  /\ OfPacket(kinds, GacWord) /\ GacWord.pkt \in Ends(gacFifo)
                  /\ gacVRd = (GacWord.flag = "head")
                  /\ GacWord.flag = "head" => GacWord.flag # "tail"
<1>1. /\ gacFifo \in Seq(Beat) /\ kinds \in Seq(AllKinds) /\ dcOut \in Beat
      /\ gacRd \in BOOLEAN /\ gacVRd \in BOOLEAN
  BY DEF TypeOK, GacTypeOK, DcTypeOK
<1>2. Stored(kinds, gacFifo, dcOut, gacVFifo, gacRd, gacVRd)
  BY DEF GacIn
<1>3. SUFFICES ASSUME gacRd
               PROVE  /\ gacFifo # <<>> /\ GacWord = gacFifo[1]
                      /\ OfPacket(kinds, GacWord) /\ GacWord.pkt \in Ends(gacFifo)
                      /\ gacVRd = (GacWord.flag = "head")
                      /\ GacWord.flag = "head" => GacWord.flag # "tail"
  OBVIOUS
<1>4. gacFifo # <<>> /\ gacFifo[1].pkt \in Ends(gacFifo) /\ gacVRd = (gacFifo[1].seq = 0)
  BY <1>2, <1>3 DEF Stored
<1>5. GacWord = gacFifo[1]
  BY <1>1, <1>4, FrontType DEF GacWord
<1>6. OfPacket(kinds, gacFifo[1])
  BY <1>1, <1>2, <1>4, StoredReads
<1>7. (gacFifo[1].flag = "head") = (gacFifo[1].seq = 0)
  BY <1>6 DEF OfPacket
<1>8. QED
  BY <1>1, <1>4, <1>5, <1>6, <1>7

LEMMA GacMoves ==
  ASSUME TypeOK, TypeOK', GacIn, GacReads, TakesMetadata => GacMd.pkt = GacWord.pkt,
         NEW alf, GacClock(dcOut, dcVwr, scmMdOut, alf)
  PROVE  /\ gacRd => gacRd' = (GacWord.flag # "tail") /\ ~gacVRd'
         /\ ~gacRd => gacVRd' = gacRd' /\ (gacRd' => gacVFifo # <<>>)
         /\ gacHdr'.pkt = IF gacVRd THEN GacWord.pkt ELSE gacHdr.pkt
         /\ gacState' \in {"IDLE", "LOOKUP", "WAIT"} => ~gacRd' /\ ~gacVRd'
         /\ gacState' = "METADATA" => gacRd' /\ gacVRd'
         /\ gacState' = "TRANS" => gacRd'
         /\ gacMdRd' = gacVRd'
         /\ gacState' \in {"LOOKUP", "WAIT"} =>
              gacVFifo # <<>> /\ ~gacRd /\ gacMds # <<>> /\ ~gacMdRd
         /\ gacVRd' => gacMds # <<>> /\ ~gacMdRd
<1>1. /\ gacRd \in BOOLEAN /\ gacVRd \in BOOLEAN /\ gacMdRd \in BOOLEAN
      /\ gacRd' \in BOOLEAN /\ gacVRd' \in BOOLEAN /\ gacMdRd' \in BOOLEAN
      /\ gacState \in {"IDLE", "LOOKUP", "WAIT", "METADATA", "TRANS"}
  BY DEF TypeOK, GacTypeOK
<1>2. gacRd => /\ gacVRd = (GacWord.flag = "head")
               /\ GacWord.flag = "head" => GacWord.flag # "tail"
  BY GacTakes
<1>3. \/ GacIdleLookup(alf) \/ GacIdleBypass(alf) \/ GacIdleWait(alf)
      \/ GacLookup \/ GacWait \/ GacMetadata \/ GacTrans
  BY DEF GacClock
<1>4. CASE gacState = "IDLE"
  <2>1. GacIdleLookup(alf) \/ GacIdleBypass(alf) \/ GacIdleWait(alf)
    BY <1>3, <1>4 DEF GacLookup, GacWait, GacMetadata, GacTrans
  <2>2. ~gacRd /\ ~gacVRd /\ ~gacMdRd /\ gacHdr' = gacHdr
    BY <1>4, <2>1 DEF GacReads, GacIdleLookup, GacIdleBypass, GacIdleWait
  <2>3. CASE GacIdleLookup(alf)
    BY <2>2, <2>3 DEF GacIdleLookup, Ready, ReadNone
  <2>4. CASE GacIdleBypass(alf)
    BY <2>2, <2>4 DEF GacIdleBypass, Ready, ReadAll
  <2>5. CASE GacIdleWait(alf)
    BY <1>4, <2>2, <2>5 DEF GacIdleWait, ReadNone
  <2>6. QED
    BY <2>1, <2>3, <2>4, <2>5
<1>5. CASE gacState = "LOOKUP"
  <2>1. GacLookup
    BY <1>3, <1>5 DEF GacIdleLookup, GacIdleBypass, GacIdleWait, GacWait,
                      GacMetadata, GacTrans
  <2>2. /\ ~gacRd /\ ~gacVRd /\ ~gacMdRd /\ gacVFifo # <<>> /\ gacMds # <<>>
        /\ gacState' = "WAIT" /\ ~gacRd' /\ ~gacVRd' /\ ~gacMdRd'
        /\ gacHdr' = gacHdr
    BY <1>5, <2>1 DEF GacReads, GacLookup
  <2>3. QED
    BY <1>1, <2>2
<1>6. CASE gacState = "WAIT"
  <2>1. GacWait
    BY <1>3, <1>6 DEF GacIdleLookup, GacIdleBypass, GacIdleWait, GacLookup,
                      GacMetadata, GacTrans
  <2>2. QED
    BY <1>6, <2>1 DEF GacReads, GacWait, ReadAll
<1>7. CASE gacState = "METADATA"
  <2>1. GacMetadata
    BY <1>3, <1>7 DEF GacIdleLookup, GacIdleBypass, GacIdleWait, GacLookup,
                      GacWait, GacTrans
  <2>2. GacMd.pkt = GacWord.pkt /\ gacRd /\ gacVRd /\ gacMdRd
    BY <1>7 DEF TakesMetadata, GacReads
  <2>3. gacHdr'.pkt = GacWord.pkt
    <3>1. gacHdr' = Action(gacQ, GacWord, GacMd, pollCpu)
      BY <2>1 DEF GacMetadata
    <3>2. QED
      BY <2>2, <3>1 DEF Action, RawHdr
  <2>4. gacRd' /\ ~gacVRd' /\ ~gacMdRd' /\ gacState' = "TRANS"
    BY <2>1, <2>2 DEF GacMetadata
  <2>5. GacWord.flag # "tail"
    BY <1>2, <2>2
  <2>6. gacMds # <<>>
    BY <2>2 DEF GacReads
  <2>7. QED
    BY <1>1, <2>2, <2>3, <2>4, <2>5, <2>6
<1>8. CASE gacState = "TRANS"
  <2>1. GacTrans
    BY <1>3, <1>8 DEF GacIdleLookup, GacIdleBypass, GacIdleWait, GacLookup,
                      GacWait, GacMetadata
  <2>2. gacRd /\ gacMdRd = gacVRd
    BY <1>8 DEF GacReads
  <2>3. gacHdr'.pkt = IF gacVRd THEN GacWord.pkt ELSE gacHdr.pkt
    BY <1>2, <2>1, <2>2 DEF GacTrans, RawHdr
  <2>4. /\ gacRd' = (GacWord.flag # "tail") /\ ~gacVRd' /\ ~gacMdRd'
        /\ gacState' = IF GacWord.flag = "tail" THEN "IDLE" ELSE "TRANS"
    BY <2>1 DEF GacTrans
  <2>5. QED
    BY <1>1, <2>2, <2>3, <2>4
<1>9. QED
  BY <1>1, <1>4, <1>5, <1>6, <1>7, <1>8

\* The words the data cache takes.
LEMMA DcTakes ==
  ASSUME TypeOK, DcIn
  PROVE  dcRd => /\ dcFifo # <<>> /\ DcWord = dcFifo[1]
                 /\ OfPacket(kinds, DcWord) /\ DcWord.pkt # OpenOf(gppOut)
                 /\ dcVRd = (DcWord.seq = 0)
                 /\ DcWord.pkt \in Nos(DcLine)
                 /\ \A b \in Nos(DcLine) : b >= DcWord.pkt
<1>1. /\ dcFifo \in Seq(Beat) /\ kinds \in Seq(AllKinds) /\ gppOut \in Beat
      /\ dcRd \in BOOLEAN /\ dcVRd \in BOOLEAN
  BY DEF TypeOK, GppTypeOK, DcTypeOK
<1>2. Stored(kinds, dcFifo, gppOut, dcVFifo, dcRd, dcVRd)
  BY DEF DcIn
<1>3. SUFFICES ASSUME dcRd
               PROVE  /\ dcFifo # <<>> /\ DcWord = dcFifo[1]
                      /\ OfPacket(kinds, DcWord) /\ DcWord.pkt # OpenOf(gppOut)
                      /\ dcVRd = (DcWord.seq = 0)
                      /\ DcWord.pkt \in Nos(DcLine)
                      /\ \A b \in Nos(DcLine) : b >= DcWord.pkt
  OBVIOUS
<1>4. dcFifo # <<>> /\ dcVRd = (dcFifo[1].seq = 0)
  BY <1>2, <1>3 DEF Stored
<1>5. DcWord = dcFifo[1]
  BY <1>1, <1>4, FrontType DEF DcWord
<1>6. /\ OfPacket(kinds, dcFifo[1]) /\ dcFifo[1].pkt # OpenOf(gppOut)
      /\ DcLine[1] = dcFifo[1] /\ 1 \in 1 .. Len(DcLine)
      /\ \A i \in 1 .. Len(DcLine) : DcLine[i].pkt >= dcFifo[1].pkt
  BY <1>1, <1>2, <1>3, <1>4, StoredReads DEF DcLine
<1>7. QED
  BY <1>4, <1>5, <1>6 DEF Nos

\* The packets in the lines: first those at gac, which are good, then those
\* at the data cache, then the one at the port.
WordOrder ==
  /\ \A a \in Nos(GacLine) :
       /\ kinds[a].good
       /\ a > gacHdr.pkt \/ (a = gacHdr.pkt /\ gacRd /\ ~gacVRd)
  /\ \A b \in Nos(DcLine) :
       /\ b > gacHdr.pkt
       /\ \A a \in Nos(GacLine) : a < b \/ (a = b /\ OpenOf(dcOut) = b)
  /\ gacRd /\ ~gacVRd => GacWord.pkt = gacHdr.pkt
  /\ gacHdr.pkt \in 0 .. Len(kinds)
  /\ pin.wr => gacHdr.pkt < pin.pkt /\ \A a \in Nos(GacLine) : a < pin.pkt

LEMMA NosType ==
  ASSUME NEW ks \in Seq(AllKinds), NEW q \in Seq(Beat), NEW rest, NEW open,
         Runs(ks, q, rest, open)
  PROVE  Nos(q) \subseteq 1 .. Len(ks)
BY RunWords DEF Nos

LEMMA GacFollows ==
  ASSUME DcInv, GacIn, WordOrder, TypeOK',
         NEW alf, DcClock(gppOut, gppVal, gppVwr, alf)
  PROVE  /\ dcOut'.wr = (dcState = "SEND")
         /\ ~dcOut'.wr => OpenOf(dcOut) = 0
         /\ dcOut'.wr => /\ dcRd /\ dcOut' = DcWord
                         /\ OfPacket(kinds, dcOut') /\ kinds[dcOut'.pkt].good
                         /\ Follows(GacLine, dcOut', OpenOf(dcOut))
<1>1. /\ FrontInv /\ DcIn /\ DcSends /\ TypeOK /\ kinds \in Seq(AllKinds)
      /\ dcOut \in Beat /\ dcOut.seq \in Nat /\ gacFifo \in Seq(Beat)
      /\ dcRd \in BOOLEAN /\ dcVRd \in BOOLEAN /\ dcOut.wr \in BOOLEAN
  BY DEF DcInv, FrontInv, TypeOK, DcTypeOK, GacTypeOK, Beat
<1>2. /\ dcOut'.wr = (dcState = "SEND") /\ dcRd = (dcState # "IDLE")
      /\ dcState = "SEND" => dcOut' = [DcWord EXCEPT !.wr = TRUE]
  BY <1>1, DcMoves DEF DcSends
<1>3. dcRd => /\ OfPacket(kinds, DcWord) /\ dcVRd = (DcWord.seq = 0)
              /\ DcWord.pkt \in Nos(DcLine)
  BY <1>1, DcTakes
<1>4. OpenOf(dcOut) # 0 => /\ dcState = "SEND" /\ ~dcVRd /\ dcOut.wr
                           /\ dcOut.pkt = DcWord.pkt
                           /\ dcOut.seq = DcWord.seq - 1
  BY <1>1 DEF DcSends, OpenOf
<1>5. ASSUME dcOut'.wr
      PROVE  /\ dcRd /\ dcOut' = DcWord /\ OfPacket(kinds, DcWord)
             /\ kinds[DcWord.pkt].good
             /\ Follows(GacLine, DcWord, OpenOf(dcOut))
  <2>1. dcState = "SEND" /\ dcRd /\ dcOut' = [DcWord EXCEPT !.wr = TRUE]
    BY <1>2, <1>5
  <2>2. /\ OfPacket(kinds, DcWord) /\ DcWord.wr = TRUE /\ DcWord \in Beat
        /\ DcWord.seq \in Nat /\ DcWord.seq < kinds[DcWord.pkt].len
        /\ kinds[DcWord.pkt].len \in Nat
    BY <1>1, <1>3, <2>1, WordIs
  <2>3. dcOut' = DcWord
    BY <2>1, <2>2 DEF Beat
  <2>4. kinds[DcWord.pkt].good
    BY <1>1, <2>1 DEF DcSends
  <2>5. CASE DcWord.seq = 0
    <3>1. OpenOf(dcOut) = 0
      BY <1>1, <1>4, <2>5
    <3>2. Runs(kinds, GacLine, Taken(gacFifo, gacRd, gacVRd), OpenOf(dcOut))
          /\ GacLine \in Seq(Beat)
      BY <1>1, LineOpen DEF GacIn, Stored, GacLine
    <3>3. Nos(GacLine) \subseteq 1 .. Len(kinds)
      BY <1>1, <3>2, NosType
    <3>4. \A i \in 1 .. Len(GacLine) : GacLine[i].pkt \in Nos(GacLine)
      BY DEF Nos
    <3>5. \A i \in 1 .. Len(GacLine) : GacLine[i].pkt < DcWord.pkt
      BY <1>3, <2>1, <3>1, <3>3, <3>4 DEF WordOrder
    <3>6. QED
      BY <2>1, <2>2, <2>3, <2>4, <2>5, <3>1, <3>5 DEF Follows
  <2>6. CASE DcWord.seq # 0
    <3>1. dcOut.wr /\ dcOut.pkt = DcWord.pkt /\ dcOut.seq = DcWord.seq - 1
      BY <1>1, <1>3, <2>1, <2>6 DEF DcSends
    <3>2. GacLine # <<>> /\ GacLine[Len(GacLine)] = dcOut
      BY <1>1, <3>1, LineLast DEF GacLine
    <3>3. OfPacket(kinds, dcOut)
      BY <1>1, <3>1, LineWord DEF GacIn, Stored
    <3>4. dcOut.flag # "tail"
      BY <2>2, <3>1, <3>3 DEF OfPacket
    <3>5. OpenOf(dcOut) = DcWord.pkt
      BY <3>1, <3>4 DEF OpenOf
    <3>6. QED
      BY <2>1, <2>2, <2>3, <2>4, <2>6, <3>1, <3>2, <3>5 DEF Follows
  <2>7. QED
    BY <2>5, <2>6
<1>6. ~dcOut'.wr => OpenOf(dcOut) = 0
  BY <1>2, <1>4
<1>7. QED
  BY <1>2, <1>5, <1>6

\* What holds of the words up to gac, apart from their order.
GacInv == DcInv /\ GacIn /\ GacReads

LEMMA GacNext ==
  ASSUME GacInv, WordOrder, TypeOK', PinContinue \/ PinHead \/ PinPause,
         TakesMetadata => GacMd.pkt = GacWord.pkt,
         NEW alf, DcClock(gppOut, gppVal, gppVwr, alf),
         NEW full, GacClock(dcOut, dcVwr, scmMdOut, full),
         dcOut.wr => Len(gacFifo) < DataDepth
  PROVE  /\ GacIn' /\ GacReads'
         /\ gacRd' => gacFifo'[1].pkt = gacFifo[1].pkt
         /\ gacRd /\ gacRd' => gacFifo'[1].seq = gacFifo[1].seq + 1
<1>1. /\ gacFifo \in Seq(Beat) /\ dcOut \in Beat /\ gacVFifo \in Seq(BOOLEAN)
      /\ gacRd \in BOOLEAN /\ gacVRd \in BOOLEAN /\ dcVwr \in BOOLEAN
      /\ kinds \in Seq(AllKinds) /\ dcOut' \in Beat /\ TypeOK
      /\ gacRd' \in BOOLEAN /\ gacVRd' \in BOOLEAN
      /\ dcOut.wr \in BOOLEAN /\ dcOut'.wr \in BOOLEAN
      /\ gacFifo' \in Seq(Beat) /\ gacVFifo' \in Seq(BOOLEAN)
      /\ kinds' \in Seq(AllKinds)
  BY DEF GacInv, DcInv, FrontInv, TypeOK, DcTypeOK, GacTypeOK, Beat
<1>2. DataDepth \in Nat
  BY PipeAssumption
<1>3. /\ gacFifo' = FifoNext(gacFifo, gacRd, dcOut.wr, dcOut, DataDepth)
      /\ gacVFifo' = FifoNext(gacVFifo, gacVRd, dcVwr, TRUE, DataDepth)
      /\ gacMds' = FifoNext(gacMds, gacMdRd, scmMdOut.wr, scmMdOut, MdDepth)
  BY DEF GacClock
<1>4. Stored(kinds, gacFifo, dcOut, gacVFifo, gacRd, gacVRd)
  BY DEF GacInv, GacIn
<1>5. /\ ~dcOut'.wr => OpenOf(dcOut) = 0
      /\ dcOut'.wr => /\ OfPacket(kinds, dcOut')
                      /\ Follows(Line(gacFifo, dcOut), dcOut', OpenOf(dcOut))
  BY GacFollows DEF GacInv, GacLine
<1>6. /\ dcVwr = (dcOut.wr /\ dcOut.flag = "tail")
      /\ dcVwr => TRUE = kinds[dcOut.pkt].good
  <2>1. dcVwr = (dcOut.wr /\ dcOut.flag = "tail")
    BY DEF GacInv, DcInv, DcSends
  <2>2. ASSUME dcOut.wr PROVE kinds[dcOut.pkt].good = TRUE
    <3>1. /\ GacLine # <<>> /\ GacLine[Len(GacLine)] = dcOut
          /\ Len(GacLine) \in 1 .. Len(GacLine)
      <4>1. GacLine # <<>> /\ GacLine[Len(GacLine)] = dcOut
        BY <1>1, <2>2, LineLast DEF GacLine
      <4>2. GacLine \in Seq(Beat)
        BY <1>1, LineOpen DEF GacLine
      <4>3. QED
        BY <4>1, <4>2, EmptySeq
    <3>2. kinds[dcOut.pkt].good
      BY <3>1 DEF WordOrder, Nos
    <3>3. kinds[dcOut.pkt].good \in BOOLEAN
      BY <1>1, <1>4, <2>2, LineWord DEF Stored
    <3>4. QED
      BY <3>2, <3>3
  <2>3. QED
    BY <1>1, <2>1, <2>2
<1>7. /\ gacRd => gacRd' = (GacWord.flag # "tail") /\ ~gacVRd'
      /\ ~gacRd => gacVRd' = gacRd' /\ (gacRd' => gacVFifo # <<>>)
      /\ gacState' \in {"IDLE", "LOOKUP", "WAIT"} => ~gacRd' /\ ~gacVRd'
      /\ gacState' = "METADATA" => gacRd' /\ gacVRd'
      /\ gacState' = "TRANS" => gacRd'
      /\ gacMdRd' = gacVRd'
      /\ gacState' \in {"LOOKUP", "WAIT"} =>
           gacVFifo # <<>> /\ ~gacRd /\ gacMds # <<>> /\ ~gacMdRd
      /\ gacVRd' => gacMds # <<>> /\ ~gacMdRd
  BY <1>1, GacMoves DEF GacInv
<1>8. gacRd => gacFifo # <<>> /\ GacWord = gacFifo[1]
  BY <1>1, GacTakes DEF GacInv
<1>9. gacRd => gacRd' = (gacFifo[1].flag # "tail") /\ ~gacVRd'
  BY <1>7, <1>8
<1>10. /\ Stored(kinds, gacFifo', dcOut', gacVFifo', gacRd', gacVRd')
       /\ gacRd' => gacFifo'[1].pkt = gacFifo[1].pkt
       /\ gacRd /\ gacRd' => gacFifo'[1].seq = gacFifo[1].seq + 1
       /\ ~gacRd => (gacVFifo # <<>> => gacVFifo' # <<>>)
  <2>0. PICK good : good = TRUE
    OBVIOUS
  <2>3. /\ gacVFifo' = FifoNext(gacVFifo, gacVRd, dcVwr, good, DataDepth)
        /\ dcVwr => good = kinds[dcOut.pkt].good
    BY <1>3, <1>6, <2>0, Zenon
  <2>1. FifoClock(kinds, gacFifo, dcOut, gacVFifo, gacRd, gacVRd, dcVwr, good,
                  DataDepth, gacFifo', gacVFifo', dcOut', gacRd', gacVRd')
    BY <1>1, <1>2, <1>3, <1>4, <1>5, <1>6, <1>7, <1>9, <2>3 DEF FifoClock
  <2>2. /\ Stored(kinds, gacFifo', dcOut', gacVFifo', gacRd', gacVRd')
        /\ gacRd' => gacFifo'[1].pkt = gacFifo[1].pkt
        /\ gacRd /\ gacRd' => gacFifo'[1].seq = gacFifo[1].seq + 1
        /\ ~gacRd => (gacVFifo # <<>> => gacVFifo' # <<>>)
                     /\ (gacFifo # <<>> => gacFifo'[1] = gacFifo[1])
    BY <2>1, StoredNext
  <2>4. QED
    BY <2>2
<1>11. GacIn'
  <2>1. /\ 1 .. Len(kinds) \subseteq 1 .. Len(kinds')
        /\ \A i \in 1 .. Len(kinds) : kinds'[i] = kinds[i]
    BY <1>1, KindsGrow DEF Pkts
  <2>2. Stored(kinds', gacFifo', dcOut', gacVFifo', gacRd', gacVRd')
    BY <1>1, <1>10, <2>1, StoredGrow
  <2>3. QED
    BY <2>2 DEF GacIn
<1>12. gacMds # <<>> /\ ~gacMdRd => gacMds' # <<>>
  <2>1. SUFFICES ASSUME gacMds # <<>>, ~gacMdRd PROVE gacMds' # <<>>
    OBVIOUS
  <2>2. /\ gacMds \in Seq(Md) /\ scmMdOut \in Md /\ gacMdRd = FALSE
        /\ scmMdOut.wr \in BOOLEAN
    BY <1>1, <2>1 DEF TypeOK, GacTypeOK, ScmTypeOK, Md
  <2>3. gacMds' = FifoNext(gacMds, FALSE, scmMdOut.wr, scmMdOut, MdDepth)
    BY <1>3, <2>2
  <2>4. QED
    BY <2>1, <2>2, <2>3, FrontStays
<1>13. GacReads'
  BY <1>7, <1>10, <1>12 DEF GacReads
<1>14. QED
  BY <1>10, <1>11, <1>13

\* The packet at the port is not there to its end.
LEMMA DcBehind ==
  ASSUME DcInv, dcRd, pin.wr
  PROVE  DcWord.pkt < pin.pkt
<1>1. /\ FrontInv /\ TypeOK /\ Port1 /\ Parsing /\ GppSends /\ DcIn /\ DcBefore
      /\ kinds \in Seq(AllKinds) /\ gppOut \in Beat /\ dcFifo \in Seq(Beat)
  BY DEF DcInv, FrontInv, TypeOK, GppTypeOK, DcTypeOK
<1>2. /\ pin.pkt = Len(kinds) /\ pin.pkt \in Pkts /\ pin.seq \in Nat
      /\ pin.seq \in 0 .. LastNo(pin.pkt) /\ LastNo(pin.pkt) \in Nat
  BY <1>1, PinType
<1>3. /\ OfPacket(kinds, DcWord) /\ DcWord.pkt # OpenOf(gppOut)
      /\ DcWord.pkt \in Nos(DcLine)
  BY <1>1, DcTakes
<1>4. DcWord.pkt \in 1 .. Len(kinds) /\ Accepts(kinds[DcWord.pkt].dmid)
  BY <1>3 DEF OfPacket
<1>5. SUFFICES ASSUME DcWord.pkt = pin.pkt PROVE FALSE
  BY <1>2, <1>4
<1>6. CASE pin.seq = 0
  <2>1. \A b \in Nos(DcLine) : b < pin.pkt
    BY <1>1, <1>6 DEF DcBefore, Nos
  <2>2. QED
    BY <1>2, <1>3, <1>5, <2>1 DEF Pkts
<1>7. CASE pin.seq # 0
  <2>1. gppState = "TRANS"
    BY <1>1, <1>4, <1>5, <1>7 DEF Parsing
  <2>2. gppOut.wr /\ gppOut.pkt = pin.pkt /\ gppOut.seq = pin.seq - 1
    BY <1>1, <2>1 DEF GppSends
  <2>3. OfPacket(kinds, gppOut)
    BY <1>1, <2>2, LineWord DEF DcIn, Stored
  <2>4. (gppOut.flag = "tail") = (gppOut.seq = LastNo(pin.pkt))
    BY <2>2, <2>3 DEF OfPacket, LastNo
  <2>5. pin.seq - 1 # LastNo(pin.pkt)
    BY <1>2
  <2>6. OpenOf(gppOut) = pin.pkt
    BY <2>2, <2>4, <2>5 DEF OpenOf
  <2>7. QED
    BY <1>3, <1>5, <2>6
<1>8. QED
  BY <1>6, <1>7

\* The packet that gac takes is the first.
LEMMA GacFirst ==
  ASSUME TypeOK, GacIn, gacRd
  PROVE  /\ GacWord.pkt \in Nos(GacLine) /\ GacWord.pkt # OpenOf(dcOut)
         /\ \A a \in Nos(GacLine) : a >= GacWord.pkt
<1>1. /\ gacFifo \in Seq(Beat) /\ kinds \in Seq(AllKinds) /\ dcOut \in Beat
      /\ gacRd \in BOOLEAN /\ gacVRd \in BOOLEAN
  BY DEF TypeOK, GacTypeOK, DcTypeOK
<1>2. Stored(kinds, gacFifo, dcOut, gacVFifo, gacRd, gacVRd)
  BY DEF GacIn
<1>3. gacFifo # <<>> /\ GacWord = gacFifo[1]
  BY GacTakes
<1>4. /\ gacFifo[1].pkt # OpenOf(dcOut)
      /\ GacLine[1] = gacFifo[1] /\ 1 \in 1 .. Len(GacLine)
      /\ \A i \in 1 .. Len(GacLine) : GacLine[i].pkt >= gacFifo[1].pkt
  <2>1. /\ gacFifo[1].pkt # OpenOf(dcOut)
        /\ Line(gacFifo, dcOut)[1] = gacFifo[1] /\ 1 \in 1 .. Len(Line(gacFifo, dcOut))
        /\ \A i \in 1 .. Len(Line(gacFifo, dcOut)) :
             Line(gacFifo, dcOut)[i].pkt >= gacFifo[1].pkt
    BY <1>1, <1>2, <1>3, StoredReads, ZenonT(30)
  <2>2. QED
    BY <2>1 DEF GacLine
<1>5. QED
  BY <1>3, <1>4 DEF Nos

LEMMA OrderNext ==
  ASSUME GacInv, WordOrder, TypeOK', DcIn', GacIn', gacRd' => gacFifo'[1].pkt = gacFifo[1].pkt,
         PinContinue \/ PinHead \/ PinPause,
         GppClock(pin, PinValid, KindOf(pin.pkt)),
         TakesMetadata => GacMd.pkt = GacWord.pkt,
         NEW alf, DcClock(gppOut, gppVal, gppVwr, alf),
         NEW full, GacClock(dcOut, dcVwr, scmMdOut, full),
         gppOut.wr => Len(dcFifo) < DataDepth,
         dcOut.wr => Len(gacFifo) < DataDepth
  PROVE  WordOrder'
<1> DEFINE A == Nos(GacLine)
           B == Nos(DcLine)
           p == gacHdr.pkt
           g == GacWord.pkt
           d == DcWord.pkt
           n == Len(kinds)
<1>1. /\ FrontInv /\ TypeOK /\ Port1 /\ Parsing /\ DcInv /\ GppSends /\ DcIn /\ GacIn
      /\ DcSends
      /\ kinds \in Seq(AllKinds) /\ n \in Nat
      /\ dcFifo \in Seq(Beat) /\ gacFifo \in Seq(Beat)
      /\ gppOut \in Beat /\ dcOut \in Beat /\ gppOut' \in Beat /\ dcOut' \in Beat
      /\ gacRd \in BOOLEAN /\ gacVRd \in BOOLEAN /\ dcRd \in BOOLEAN
      /\ gacRd' \in BOOLEAN /\ gacVRd' \in BOOLEAN
      /\ gppOut.wr \in BOOLEAN /\ dcOut.wr \in BOOLEAN
      /\ gppOut'.wr \in BOOLEAN /\ dcOut'.wr \in BOOLEAN
      /\ gacFifo' \in Seq(Beat) /\ DataDepth \in Nat
  BY PipeAssumption DEF GacInv, DcInv, FrontInv, TypeOK, GppTypeOK, DcTypeOK, GacTypeOK, Beat
<1>2. /\ Runs(kinds, GacLine, Taken(gacFifo, gacRd, gacVRd), OpenOf(dcOut))
      /\ Runs(kinds, DcLine, Taken(dcFifo, dcRd, dcVRd), OpenOf(gppOut))
      /\ gacRd => gacFifo # <<>>
      /\ dcRd => dcFifo # <<>>
      /\ GacLine \in Seq(Beat) /\ DcLine \in Seq(Beat)
  BY <1>1, LineOpen DEF GacIn, DcIn, Stored, GacLine, DcLine
<1>3. /\ A \subseteq 1 .. n /\ B \subseteq 1 .. n /\ p \in 0 .. n
      /\ \A a \in A : a \in Nat /\ \A b \in B : b \in Nat
  <2>1. A \subseteq 1 .. n /\ B \subseteq 1 .. n
    BY <1>1, <1>2, NosType
  <2>2. p \in 0 .. n
    BY DEF WordOrder
  <2>3. QED
    BY <1>1, <2>1, <2>2
<1>4. /\ gacRd => /\ g = gacFifo[1].pkt /\ GacWord = gacFifo[1] /\ g \in A
                  /\ g # OpenOf(dcOut) /\ \A a \in A : a >= g
                  /\ gacVRd => GacWord.flag # "tail"
      /\ gacVRd => gacRd
  BY <1>1, GacTakes, GacFirst DEF GacIn, Stored
<1>5. /\ dcRd => /\ d \in B /\ \A b \in B : b >= d
                 /\ DcWord = dcFifo[1] /\ d # 0
                 /\ pin.wr => d < pin.pkt
  BY <1>1, <1>3, DcTakes, DcBehind
<1>6. /\ dcOut'.wr = (dcState = "SEND") /\ dcRd = (dcState # "IDLE")
      /\ dcOut'.wr => dcRd /\ dcOut' = DcWord /\ kinds[d].good
  BY <1>1, GacFollows DEF DcSends
<1>7. gppOut'.wr => pin.wr /\ gppOut'.pkt = pin.pkt
  BY <1>1, GppNext
<1>8. /\ pin.wr => pin.pkt = n /\ n > p /\ \A a \in A : a < n
      /\ pin.wr \in BOOLEAN
  BY <1>1, PinType DEF WordOrder
<1>9. gacHdr'.pkt = (IF gacVRd THEN g ELSE p)
      /\ (gacRd => gacRd' = (GacWord.flag # "tail") /\ ~gacVRd')
      /\ (~gacRd => gacVRd' = gacRd')
  BY <1>1, GacMoves DEF GacInv
<1>10. \A x \in Nos(GacLine)' :
         \/ dcOut'.wr /\ x = d /\ d \in B /\ kinds[d].good
         \/ x \in A /\ (gacRd /\ GacWord.flag = "tail" => x > g)
  <2>1. gacFifo' = FifoNext(gacFifo, gacRd, dcOut.wr, dcOut, DataDepth)
    BY DEF GacClock
  <2>2. \A x \in Nos(Line(gacFifo', dcOut')) :
          \/ dcOut'.wr /\ x = dcOut'.pkt
          \/ x \in Nos(Line(gacFifo, dcOut))
             /\ (gacRd /\ gacFifo[1].flag = "tail" => x > gacFifo[1].pkt)
    BY <1>1, <1>2, <2>1, NosNext, SMTT(30) DEF GacLine
  <2>3. QED
    BY <1>4, <1>5, <1>6, <2>2 DEF GacLine
<1>11. \A x \in Nos(DcLine)' :
         \/ pin.wr /\ x = n
         \/ x \in B /\ (dcRd /\ DcWord.flag = "tail" => x > d)
  <2>1. dcFifo' = FifoNext(dcFifo, dcRd, gppOut.wr, gppOut, DataDepth)
    BY DEF DcClock
  <2>2. \A x \in Nos(Line(dcFifo', gppOut')) :
          \/ gppOut'.wr /\ x = gppOut'.pkt
          \/ x \in Nos(Line(dcFifo, gppOut))
             /\ (dcRd /\ dcFifo[1].flag = "tail" => x > dcFifo[1].pkt)
    <3>1. /\ kinds \in Seq(AllKinds) /\ dcFifo \in Seq(Beat) /\ gppOut \in Beat
          /\ gppOut' \in Beat /\ dcRd \in BOOLEAN /\ DataDepth \in Nat
          /\ gppOut.wr \in BOOLEAN /\ gppOut'.wr \in BOOLEAN
          /\ (dcRd => dcFifo # <<>>) /\ (gppOut.wr => Len(dcFifo) < DataDepth)
      BY <1>1, <1>2
    <3>2. Runs(kinds, Line(dcFifo, gppOut), Taken(dcFifo, dcRd, dcVRd), OpenOf(gppOut))
      BY <1>2 DEF DcLine
    <3>3. QED
      BY <2>1, <3>1, <3>2, NosNext
  <2>3. QED
    BY <1>5, <1>7, <1>8, <2>2 DEF DcLine
<1>12. /\ 1 .. n \subseteq 1 .. Len(kinds') /\ 0 .. n \subseteq 0 .. Len(kinds')
       /\ \A i \in 1 .. n : kinds'[i] = kinds[i]
  BY <1>1, KindsGrow DEF Pkts
<1>13. /\ \A a \in A : kinds[a].good /\ (a > p \/ (a = p /\ gacRd /\ ~gacVRd))
       /\ \A b \in B : /\ b > p
                       /\ \A a \in A : a < b \/ (a = b /\ OpenOf(dcOut) = b)
       /\ gacRd /\ ~gacVRd => g = p
  BY DEF WordOrder
<1>14. OpenOf(dcOut) # 0 => dcState = "SEND" /\ OpenOf(dcOut) = d
  BY <1>1 DEF DcSends, OpenOf
<1>15. dcOut'.wr /\ DcWord.flag # "tail" => OpenOf(dcOut') = d
  BY <1>6 DEF OpenOf
<1>16. gacRd' /\ ~gacVRd' => GacWord'.pkt = g /\ gacRd
  <2>1. SUFFICES ASSUME gacRd', ~gacVRd' PROVE GacWord'.pkt = g /\ gacRd
    OBVIOUS
  <2>2. gacRd
    BY <1>1, <1>9, <2>1
  <2>3. gacFifo' # <<>>
    BY <2>1 DEF GacIn, Stored
  <2>4. GacWord' = gacFifo'[1]
    BY <1>1, <2>3, FrontType DEF GacWord
  <2>5. QED
    BY <1>4, <2>1, <2>2, <2>4
<1> DEFINE h == gacHdr'.pkt
<1>17. /\ h = (IF gacVRd THEN g ELSE p) /\ h \in 0 .. n
       /\ pin.wr => h < n
       /\ \A b \in B : b > h
  BY <1>3, <1>4, <1>8, <1>9, <1>13
<1>18. \A a \in Nos(GacLine)' :
         /\ kinds'[a].good
         /\ a > h \/ (a = h /\ gacRd' /\ ~gacVRd')
         /\ a \in 1 .. n /\ (pin.wr => a < n)
  <2>1. SUFFICES ASSUME NEW a \in Nos(GacLine)'
                 PROVE  /\ kinds'[a].good
                        /\ a > h \/ (a = h /\ gacRd' /\ ~gacVRd')
                        /\ a \in 1 .. n /\ (pin.wr => a < n)
    OBVIOUS
  <2>2. CASE dcOut'.wr /\ a = d /\ d \in B /\ kinds[d].good
    BY <1>3, <1>5, <1>6, <1>8, <1>12, <1>17, <2>2
  <2>3. CASE a \in A /\ (gacRd /\ GacWord.flag = "tail" => a > g)
    BY <1>1, <1>3, <1>4, <1>8, <1>9, <1>12, <1>13, <1>17, <2>3
  <2>4. QED
    BY <1>10, <2>2, <2>3
<1>19. \A b \in Nos(DcLine)' :
         /\ b > h
         /\ \A a \in Nos(GacLine)' : a < b \/ (a = b /\ OpenOf(dcOut') = b)
  <2>1. SUFFICES ASSUME NEW b \in Nos(DcLine)', NEW a \in Nos(GacLine)'
                 PROVE  b > h /\ (a < b \/ (a = b /\ OpenOf(dcOut') = b))
    <3>1. ASSUME NEW b \in Nos(DcLine)' PROVE b > h
      BY <1>1, <1>3, <1>11, <1>17
    <3>2. QED
      BY <2>1, <3>1
  <2>2. CASE pin.wr /\ b = n
    BY <1>3, <1>17, <1>18, <2>2
  <2>3. CASE b \in B /\ (dcRd /\ DcWord.flag = "tail" => b > d)
    <3>1. b > h /\ b \in Nat
      BY <1>3, <1>17, <2>3
    <3>2. CASE dcOut'.wr /\ a = d /\ d \in B /\ kinds[d].good
      BY <1>3, <1>5, <1>6, <1>15, <2>3, <3>1, <3>2
    <3>3. CASE a \in A
      <4>1. a < b \/ (a = b /\ OpenOf(dcOut) = b)
        BY <1>13, <2>3, <3>3
      <4>2. CASE a = b /\ OpenOf(dcOut) = b
        <5>1. b # 0
          BY <1>3, <2>3
        <5>2. dcState = "SEND" /\ b = d /\ dcOut'.wr /\ dcRd
          BY <1>6, <1>14, <4>2, <5>1
        <5>3. DcWord.flag # "tail"
          BY <2>3, <3>1, <5>2
        <5>4. QED
          BY <1>15, <3>1, <4>2, <5>2, <5>3
      <4>3. QED
        BY <3>1, <4>1, <4>2
    <3>4. QED
      BY <1>10, <3>2, <3>3
  <2>4. QED
    BY <1>11, <2>2, <2>3
<1>20. gacRd' /\ ~gacVRd' => GacWord'.pkt = h
  BY <1>13, <1>16, <1>17
<1>21. h \in 0 .. Len(kinds')
  BY <1>12, <1>17
<1>22. pin'.wr => h < pin'.pkt /\ \A a \in Nos(GacLine)' : a < pin'.pkt
  <2>1. SUFFICES ASSUME pin'.wr
                 PROVE  (pin.wr /\ pin'.pkt = n) \/ pin'.pkt = n + 1
    BY <1>1, <1>3, <1>17, <1>18
  <2>2. CASE PinContinue
    <3>1. pin.wr /\ pin'.pkt = pin.pkt
      BY <1>1, <2>2, PortMoves DEF PinContinue, InPacket
    <3>2. QED
      BY <1>8, <3>1
  <2>3. CASE PinHead
    BY <2>3 DEF PinHead
  <2>4. CASE PinPause
    BY <2>1, <2>4 DEF PinPause, Idle
  <2>5. QED
    BY <2>2, <2>3, <2>4
<1>23. QED
  BY <1>18, <1>19, <1>20, <1>21, <1>22 DEF WordOrder

LEMMA LineKeeps ==
  ASSUME NEW q \in Seq(Beat), NEW o \in Beat
  PROVE  /\ \A i \in 1 .. Len(q) : Line(q, o)[i] = q[i]
         /\ Len(q) \in Nat /\ Len(q) <= Len(Line(q, o)) /\ Line(q, o) \in Seq(Beat)
<1>1. CASE o.wr
  <2>1. /\ Line(q, o) = Append(q, o) /\ Append(q, o) \in Seq(Beat)
        /\ Len(Append(q, o)) = Len(q) + 1
        /\ Len(q) \in Nat /\ \A i \in 1 .. Len(q) : Append(q, o)[i] = q[i]
    BY <1>1, AppendIs DEF Line
  <2>2. QED
    BY <2>1
<1>2. CASE ~o.wr
  BY <1>2 DEF Line
<1>3. QED
  BY <1>1, <1>2

\* Every word that came of a packet that is still to leave is in a line.
HasWord(q, p, n) == \E i \in 1 .. Len(q) : q[i].pkt = p /\ q[i].seq = n
Came(p, n) == p < Len(kinds) \/ ~pin.wr \/ n < pin.seq
AllThere ==
  \A p \in Pkts : Served(kinds[p]) /\ p > gacHdr.pkt =>
    \A n \in 0 .. LastNo(p) :
      Came(p, n) => HasWord(GacLine, p, n) \/ HasWord(DcLine, p, n)

LEMMA HasNext ==
  ASSUME NEW q \in Seq(Beat), NEW o \in Beat,
         NEW w \in Beat, NEW rd \in BOOLEAN, NEW depth \in Nat,
         o.wr => Len(q) < depth, rd => q # <<>>,
         NEW f, f = FifoNext(q, rd, o.wr, o, depth)
  PROVE  /\ \A p, n : HasWord(Line(q, o), p, n) =>
              \/ HasWord(Line(f, w), p, n)
              \/ rd /\ q[1].pkt = p /\ q[1].seq = n
         /\ w.wr => HasWord(Line(f, w), w.pkt, w.seq)
<1> DEFINE l == Line(q, o)
           g == Line(f, w)
<1>1. /\ l \in Seq(Beat) /\ Len(l) \in Nat /\ Len(q) <= Len(l) /\ Len(q) \in Nat
      /\ \A i \in 1 .. Len(q) : l[i] = q[i]
  BY LineOpen
<1>2. f = (IF rd THEN Tail(l) ELSE l) /\ f \in Seq(Beat)
  BY LineTaken
<1>3. /\ \A i \in 1 .. Len(f) : g[i] = f[i]
      /\ Len(f) \in Nat /\ Len(f) <= Len(g) /\ g \in Seq(Beat)
      /\ w.wr => g # <<>> /\ g[Len(g)] = w
  <2>1. f \in Seq(Beat)
    BY <1>2
  <2>2. /\ \A i \in 1 .. Len(f) : g[i] = f[i]
        /\ Len(f) \in Nat /\ Len(f) <= Len(g) /\ g \in Seq(Beat)
    BY <2>1, LineKeeps
  <2>3. w.wr => g # <<>> /\ g[Len(g)] = w
    BY <2>1, LineLast
  <2>4. QED
    BY <2>2, <2>3
<1>4. rd => l # <<>> /\ l[1] = q[1]
  <2>1. rd => 1 \in 1 .. Len(q)
    BY EmptySeq
  <2>2. QED
    BY <1>1, <2>1, EmptySeq
<1> HIDE DEF l, g
<1>5. ASSUME NEW p, NEW n, HasWord(l, p, n)
      PROVE  HasWord(g, p, n) \/ (rd /\ q[1].pkt = p /\ q[1].seq = n)
  <2>1. PICK i \in 1 .. Len(l) : l[i].pkt = p /\ l[i].seq = n
    BY <1>5 DEF HasWord
  <2>2. CASE ~rd
    <3>1. i \in 1 .. Len(g) /\ g[i] = l[i]
      BY <1>2, <1>3, <2>2
    <3>2. QED
      BY <2>1, <3>1 DEF HasWord
  <2>3. CASE rd /\ i = 1
    BY <1>4, <2>1, <2>3
  <2>4. CASE rd /\ i # 1
    <3>1. /\ i - 1 \in 1 .. Len(f) /\ f[i - 1] = l[i]
      BY <1>1, <1>2, <1>4, <2>4
    <3>2. i - 1 \in 1 .. Len(g) /\ g[i - 1] = l[i]
      BY <1>3, <3>1
    <3>3. QED
      BY <2>1, <3>2 DEF HasWord
  <2>5. QED
    BY <2>2, <2>3, <2>4
<1>6. ASSUME w.wr PROVE HasWord(g, w.pkt, w.seq)
  <2>1. Len(g) \in 1 .. Len(g) /\ g[Len(g)] = w
    BY <1>3, <1>6, EmptySeq
  <2>2. QED
    BY <2>1 DEF HasWord
<1>7. QED
  BY <1>5, <1>6 DEF l, g

LEMMA ThereNext ==
  ASSUME GacInv, WordOrder, AllThere, TypeOK',
         PinContinue \/ PinHead \/ PinPause,
         GppClock(pin, PinValid, KindOf(pin.pkt)),
         TakesMetadata => GacMd.pkt = GacWord.pkt,
         NEW alf, DcClock(gppOut, gppVal, gppVwr, alf),
         NEW full, GacClock(dcOut, dcVwr, scmMdOut, full),
         gppOut.wr => Len(dcFifo) < DataDepth,
         dcOut.wr => Len(gacFifo) < DataDepth
  PROVE  AllThere'
<1>1. /\ FrontInv /\ TypeOK /\ Port1 /\ DcInv /\ GppSends /\ DcIn /\ GacIn /\ DcSends
      /\ dcFifo \in Seq(Beat) /\ gacFifo \in Seq(Beat)
      /\ gppOut \in Beat /\ dcOut \in Beat /\ gppOut' \in Beat /\ dcOut' \in Beat
      /\ gacRd \in BOOLEAN /\ gacVRd \in BOOLEAN /\ dcRd \in BOOLEAN
      /\ gppOut.wr \in BOOLEAN /\ dcOut.wr \in BOOLEAN
      /\ gppOut'.wr \in BOOLEAN /\ dcOut'.wr \in BOOLEAN
      /\ DataDepth \in Nat
  BY PipeAssumption DEF GacInv, DcInv, FrontInv, TypeOK, GppTypeOK, DcTypeOK, GacTypeOK, Beat
<1>2. gacRd => /\ gacFifo # <<>> /\ GacWord = gacFifo[1]
               /\ GacWord.pkt \in Nos(GacLine)
  BY <1>1, GacTakes, GacFirst
<1>3. dcRd => dcFifo # <<>> /\ DcWord = dcFifo[1]
  BY <1>1, DcTakes
<1>4. /\ dcOut'.wr = (dcState = "SEND") /\ dcRd = (dcState # "IDLE")
      /\ dcOut'.wr => dcOut' = DcWord
      /\ dcRd => kinds[DcWord.pkt].good = (dcState = "SEND")
  BY <1>1, GacFollows DEF GacInv, DcSends
<1>5. /\ gppOut'.wr = (pin.wr /\ Accepts(kinds[pin.pkt].dmid))
      /\ gppOut'.wr => gppOut' = pin
  BY <1>1, GppNext
<1>6. /\ gacHdr'.pkt = (IF gacVRd THEN GacWord.pkt ELSE gacHdr.pkt)
      /\ gacVRd => gacRd
  BY <1>1, GacMoves DEF GacInv, GacIn, Stored
<1>7. /\ \A p, n : HasWord(GacLine, p, n) =>
           \/ HasWord(GacLine', p, n)
           \/ gacRd /\ gacFifo[1].pkt = p /\ gacFifo[1].seq = n
      /\ dcOut'.wr => HasWord(GacLine', dcOut'.pkt, dcOut'.seq)
  <2>1. gacFifo' = FifoNext(gacFifo, gacRd, dcOut.wr, dcOut, DataDepth)
    BY DEF GacClock
  <2>2. gacRd => gacFifo # <<>>
    BY <1>2
  <2>3. QED
    BY <1>1, <2>1, <2>2, HasNext DEF GacLine
<1>8. /\ \A p, n : HasWord(DcLine, p, n) =>
           \/ HasWord(DcLine', p, n)
           \/ dcRd /\ dcFifo[1].pkt = p /\ dcFifo[1].seq = n
      /\ gppOut'.wr => HasWord(DcLine', gppOut'.pkt, gppOut'.seq)
  <2>1. dcFifo' = FifoNext(dcFifo, dcRd, gppOut.wr, gppOut, DataDepth)
    BY DEF DcClock
  <2>2. dcRd => dcFifo # <<>>
    BY <1>3
  <2>3. QED
    BY <1>1, <2>1, <2>2, HasNext DEF DcLine
<1>9. /\ Pkts \subseteq Pkts' /\ \A i \in Pkts : kinds'[i] = kinds[i]
      /\ kinds \in Seq(AllKinds) /\ Len(kinds) \in Nat
  BY <1>1, KindsGrow DEF TypeOK
<1>10. /\ pin.wr => /\ pin.pkt = Len(kinds) /\ pin.seq \in 0 .. LastNo(pin.pkt)
                    /\ LastNo(pin.pkt) \in Nat
       /\ pin.seq \in Nat /\ pin.wr \in BOOLEAN
  BY <1>1, PinType
<1>11. SUFFICES ASSUME NEW p \in Pkts', Served(kinds'[p]), p > gacHdr'.pkt,
                       NEW n \in 0 .. LastNo(p)', Came(p, n)'
                PROVE  HasWord(GacLine', p, n) \/ HasWord(DcLine', p, n)
  BY DEF AllThere
<1>12. gacHdr'.pkt >= gacHdr.pkt /\ gacHdr.pkt \in Nat /\ p \in Nat
       /\ (gacRd => gacHdr'.pkt = GacWord.pkt)
  <2>1. gacHdr.pkt \in Nat /\ p \in Nat
    BY <1>1, <1>9 DEF WordOrder, Pkts
  <2>2. gacRd /\ ~gacVRd => GacWord.pkt = gacHdr.pkt
    BY DEF WordOrder
  <2>3. gacVRd => GacWord.pkt >= gacHdr.pkt
    <3>1. Nos(GacLine) \subseteq 1 .. Len(kinds)
      <4>1. /\ Runs(kinds, GacLine, Taken(gacFifo, gacRd, gacVRd), OpenOf(dcOut))
            /\ GacLine \in Seq(Beat)
        BY <1>1, LineOpen DEF GacIn, Stored, GacLine
      <4>2. QED
        BY <1>9, <4>1, NosType
    <3>2. QED
      BY <1>2, <1>6, <2>1, <3>1 DEF WordOrder
  <2>4. QED
    BY <1>1, <1>6, <2>1, <2>2, <2>3
<1>13. p > gacHdr.pkt
  <2>1. gacHdr'.pkt \in Nat
    BY <1>1 DEF TypeOK, GacTypeOK, Hdr
  <2>2. QED
    BY <1>11, <1>12, <2>1
<1>14. CASE p \in Pkts /\ Came(p, n)
  <2>1. kinds'[p] = kinds[p] /\ Served(kinds[p]) /\ n \in 0 .. LastNo(p)
    BY <1>9, <1>11, <1>14 DEF LastNo
  <2>2. HasWord(GacLine, p, n) \/ HasWord(DcLine, p, n)
    BY <1>13, <1>14, <2>1 DEF AllThere
  <2>3. ~(gacRd /\ gacFifo[1].pkt = p)
    BY <1>2, <1>11, <1>12
  <2>4. dcRd /\ dcFifo[1].pkt = p => dcOut'.wr /\ dcOut' = dcFifo[1]
    BY <1>3, <1>4, <2>1 DEF Served
  <2>5. QED
    BY <1>7, <1>8, <2>2, <2>3, <2>4
<1>15. CASE p \in Pkts /\ ~Came(p, n)
  <2>1. p = Len(kinds) /\ pin.wr /\ n >= pin.seq /\ pin.pkt = p
        /\ LastNo(p)' = LastNo(p) /\ LastNo(p) \in Nat /\ n \in 0 .. LastNo(p)
        /\ pin.seq \in 0 .. LastNo(p)
    BY <1>9, <1>10, <1>15 DEF Came, Pkts, LastNo
  <2>2. n = pin.seq
    <3>1. CASE InPacket(pin)
      <4>1. pin'.wr /\ pin'.seq = pin.seq + 1 /\ kinds' = kinds
        BY <1>1, <3>1, PortMoves
      <4>2. n < pin'.seq
        BY <1>9, <1>11, <2>1, <4>1 DEF Came
      <4>3. QED
        BY <2>1, <4>1, <4>2
    <3>2. CASE ~InPacket(pin)
      <4>1. InPacket(pin) = (pin.wr /\ pin.seq < LastNo(pin.pkt))
        BY <1>1, PortMoves
      <4>2. ~(pin.seq < LastNo(p))
        BY <2>1, <3>2, <4>1
      <4>3. QED
        BY <2>1, <4>2
    <3>3. QED
      BY <3>1, <3>2
  <2>3. gppOut'.wr /\ gppOut'.pkt = p /\ gppOut'.seq = n
    BY <1>5, <1>9, <1>11, <1>15, <2>1, <2>2 DEF Served
  <2>4. QED
    BY <1>8, <2>3
<1>16. CASE p \notin Pkts
  <2>1. ~(kinds' = kinds)
    BY <1>16 DEF Pkts
  <2>2. PinHead
    BY <2>1 DEF PinContinue, PinPause
  <2>3. pin'.wr = TRUE /\ pin'.seq = 0 /\ pin'.pkt = Len(kinds) + 1
    BY <2>2 DEF PinHead
  <2>4. Len(kinds') = Len(kinds) + 1
    <3>1. PICK k \in Kinds[Len(kinds) + 1] : kinds' = Append(kinds, k)
      BY <2>2 DEF PinHead
    <3>2. kinds' \in Seq(AllKinds)
      BY <1>1, PortMoves
    <3>3. QED
      BY <1>9, <3>1, <3>2
  <2>5. p = Len(kinds')
    BY <1>9, <1>16, <2>4 DEF Pkts
  <2>6. ~Came(p, n)'
    BY <2>3, <2>5, <1>12 DEF Came
  <2>7. QED
    BY <1>11, <2>6
<1>17. QED
  BY <1>14, <1>15, <1>16
-----------------------------------------------------------------------------
(***************************************************************************)
(* How many words wait when no packet is longer than n words.              *)
(***************************************************************************)

Half == DataDepth \div 2
DataRoom(n) == (\A k \in AllKinds : k.len <= n) /\ Half + 1 + n < DataDepth

DcLevel(n) ==
  Len(dcFifo) + One(gppOut.wr) <= Half + 1 + (IF pin.wr THEN pin.seq ELSE n)
GacLevel(n) ==
  Len(gacFifo) + One(dcOut.wr)
    <= Half + (IF dcState = "SEND" THEN DcWord.seq ELSE n)

LEMMA HalfFree ==
  ASSUME NEW q \in Seq(Beat), Len(q) < DataDepth, ~DataAlf(q)
  PROVE  Half \in Nat /\ Len(q) <= Half - 1
<1>1. DataDepth \in Nat /\ DataDepth # 0 /\ Len(q) \in Nat
  BY PipeAssumption
<1>2. Len(q) % DataDepth = Len(q)
  BY <1>1
<1>3. Half \in Nat
  BY <1>1 DEF Half
<1>4. ~(Len(q) >= Half)
  BY <1>2 DEF DataAlf, Usedw, Half
<1>5. QED
  BY <1>1, <1>3, <1>4

LEMMA HalfType == Half \in Nat /\ DataDepth \in Nat
<1>1. DataDepth \in Nat /\ DataDepth # 0
  BY PipeAssumption
<1>2. QED
  BY <1>1 DEF Half

LEMMA DcFits ==
  ASSUME NEW n \in Nat, DataRoom(n), FrontInv, DcLevel(n)
  PROVE  /\ Len(dcFifo) + One(gppOut.wr) <= Half + 1 + n
         /\ gppOut.wr => Len(dcFifo) < DataDepth
         /\ Len(dcFifo) < DataDepth
         /\ pin.wr => pin.seq + 1 <= n
<1>1. /\ TypeOK /\ Port1 /\ dcFifo \in Seq(Beat) /\ gppOut.wr \in BOOLEAN
      /\ Len(dcFifo) \in Nat
  BY DEF FrontInv, TypeOK, DcTypeOK, GppTypeOK, Beat
<1>2. /\ pin.wr => kinds[pin.pkt] \in AllKinds /\ pin.seq \in 0 .. LastNo(pin.pkt)
                   /\ LastNo(pin.pkt) \in Nat
      /\ pin.seq \in Nat
  BY <1>1, PinType
<1>3. pin.wr => pin.seq + 1 <= n
  <2>1. SUFFICES ASSUME pin.wr PROVE pin.seq + 1 <= n
    OBVIOUS
  <2>2. kinds[pin.pkt].len <= n /\ kinds[pin.pkt].len \in Nat
    BY <1>2, <2>1, KindType DEF DataRoom
  <2>3. QED
    BY <1>2, <2>1, <2>2 DEF LastNo
<1> DEFINE a == Len(dcFifo)
           o == One(gppOut.wr)
<1>4. a \in Nat /\ o \in {0, 1} /\ (gppOut.wr => o = 1) /\ Half \in Nat /\ DataDepth \in Nat
  BY <1>1, HalfType DEF One
<1>5. a + o <= Half + 1 + (IF pin.wr THEN pin.seq ELSE n) /\ Half + 1 + n < DataDepth
  BY DEF DcLevel, DataRoom
<1> HIDE DEF a, o
<1>6. a + o <= Half + 1 + n
  BY <1>2, <1>3, <1>4, <1>5
<1>7. a < DataDepth /\ (gppOut.wr => a < DataDepth)
  BY <1>4, <1>5, <1>6
<1>8. QED
  BY <1>3, <1>6, <1>7 DEF a, o

LEMMA DcLevelKept ==
  ASSUME NEW n \in Nat, DataRoom(n), FrontInv, DcLevel(n), GppSends,
         PinContinue \/ PinHead \/ PinPause,
         GppClock(pin, PinValid, KindOf(pin.pkt)),
         NEW alf, DcClock(gppOut, gppVal, gppVwr, alf)
  PROVE  DcLevel(n)'
<1> DEFINE a == Len(dcFifo)
           o == One(gppOut.wr)
           b == Len(dcFifo')
           x == One(gppOut'.wr)
<1>1. /\ TypeOK /\ Port1 /\ dcFifo \in Seq(Beat) /\ gppOut \in Beat
      /\ dcRd \in BOOLEAN /\ gppOut.wr \in BOOLEAN
  BY DEF FrontInv, TypeOK, DcTypeOK, GppTypeOK, Beat
<1>2. /\ a \in Nat /\ o \in {0, 1} /\ x \in {0, 1} /\ Half \in Nat /\ DataDepth \in Nat
      /\ pin.seq \in Nat /\ pin.wr \in BOOLEAN
  BY <1>1, HalfType, PinType DEF One
<1>3. b \in Nat /\ b <= a + o
  <2>1. dcFifo' = FifoNext(dcFifo, dcRd, gppOut.wr, gppOut, DataDepth)
    BY DEF DcClock
  <2>2. QED
    BY <1>1, <1>2, <2>1, FifoLen
<1>4. /\ a + o <= Half + 1 + n /\ a < DataDepth
      /\ pin.wr => pin.seq + 1 <= n /\ a + o <= Half + 1 + pin.seq
  BY DcFits DEF DcLevel
<1>5. ~pin.wr => x = 0
  BY <1>1, GppNext DEF One
<1>6. CASE PinContinue
  <2>1. pin.wr /\ pin'.wr /\ pin'.seq = pin.seq + 1
    BY <1>1, <1>6, PortMoves DEF PinContinue, InPacket
  <2>2. b + x <= Half + 1 + pin'.seq
    <3> HIDE DEF a, b, o, x
    <3>1. QED
      BY <1>2, <1>3, <1>4, <2>1
  <2>3. QED
    BY <2>1, <2>2 DEF DcLevel
<1>7. CASE PinHead
  <2>1. pin'.wr /\ pin'.seq = 0 /\ ~DataAlf(dcFifo)
    BY <1>7 DEF PinHead, PktinReady
  <2>2. a <= Half - 1
    BY <1>1, <1>4, <2>1, HalfFree
  <2>3. b + x <= Half + 1 + pin'.seq
    <3> HIDE DEF a, b, o, x
    <3>1. QED
      BY <1>2, <1>3, <2>1, <2>2
  <2>4. QED
    BY <2>1, <2>3 DEF DcLevel
<1>8. CASE PinPause
  <2>1. pin'.wr = FALSE
    BY <1>8 DEF PinPause, Idle
  <2>2. b + x <= Half + 1 + n
    <3> HIDE DEF a, b, o, x
    <3>1. CASE pin.wr
      BY <1>2, <1>3, <1>4, <3>1
    <3>2. CASE ~pin.wr
      BY <1>2, <1>3, <1>4, <1>5, <3>2
    <3>3. QED
      BY <3>1, <3>2
  <2>3. QED
    BY <2>1, <2>2 DEF DcLevel
<1>9. QED
  BY <1>6, <1>7, <1>8

LEMMA GacFits ==
  ASSUME NEW n \in Nat, DataRoom(n), TypeOK, DcIn, DcSends, GacLevel(n)
  PROVE  /\ Len(gacFifo) + One(dcOut.wr) <= Half + n
         /\ Len(gacFifo) < DataDepth
         /\ dcState = "SEND" => /\ DcWord.seq + 1 <= n /\ DcWord.seq \in Nat
                                /\ DcWord.flag = "tail" \/ DcWord.seq + 2 <= n
<1>1. /\ gacFifo \in Seq(Beat) /\ dcOut.wr \in BOOLEAN /\ Len(gacFifo) \in Nat
      /\ kinds \in Seq(AllKinds)
  BY DEF TypeOK, DcTypeOK, GacTypeOK, Beat
<1>2. ASSUME dcState = "SEND"
      PROVE  /\ DcWord.seq + 1 <= n /\ DcWord.seq \in Nat
             /\ DcWord.flag = "tail" \/ DcWord.seq + 2 <= n
  <2>1. OfPacket(kinds, DcWord)
    BY <1>2, DcTakes DEF DcSends
  <2>2. /\ kinds[DcWord.pkt] \in AllKinds /\ DcWord.seq \in Nat
        /\ DcWord.seq < kinds[DcWord.pkt].len /\ kinds[DcWord.pkt].len \in Nat
        /\ (DcWord.flag = "tail") = (DcWord.seq = kinds[DcWord.pkt].len - 1)
    BY <1>1, <2>1, WordIs
  <2>3. kinds[DcWord.pkt].len <= n
    BY <2>2 DEF DataRoom
  <2>4. QED
    BY <2>2, <2>3
<1> DEFINE a == Len(gacFifo)
           o == One(dcOut.wr)
<1>3. a \in Nat /\ o \in {0, 1} /\ Half \in Nat /\ DataDepth \in Nat
  BY <1>1, HalfType DEF One
<1>4. a + o <= Half + (IF dcState = "SEND" THEN DcWord.seq ELSE n)
      /\ Half + 1 + n < DataDepth
  BY DEF GacLevel, DataRoom
<1> HIDE DEF a, o
<1>5. a + o <= Half + n /\ a < DataDepth
  BY <1>2, <1>3, <1>4
<1>6. QED
  BY <1>2, <1>5 DEF a, o

LEMMA GacLevelKept ==
  ASSUME NEW n \in Nat, DataRoom(n), GacInv, WordOrder, GacLevel(n), TypeOK',
         GppClock(pin, PinValid, KindOf(pin.pkt)),
         PinContinue \/ PinHead \/ PinPause,
         DcClock(gppOut, gppVal, gppVwr, DataAlf(gacFifo)), DcIn',
         gppOut.wr => Len(dcFifo) < DataDepth,
         NEW full, GacClock(dcOut, dcVwr, scmMdOut, full)
  PROVE  GacLevel(n)'
<1> DEFINE a == Len(gacFifo)
           o == One(dcOut.wr)
           b == Len(gacFifo')
           x == One(dcOut'.wr)
<1>1. /\ DcInv /\ FrontInv /\ TypeOK /\ GppSends /\ DcIn /\ DcSends /\ DcBefore
      /\ gacFifo \in Seq(Beat) /\ dcOut \in Beat
      /\ gacRd \in BOOLEAN /\ dcOut.wr \in BOOLEAN
  BY DEF GacInv, DcInv, FrontInv, TypeOK, DcTypeOK, GacTypeOK, Beat
<1>2. /\ a \in Nat /\ o \in {0, 1} /\ x \in {0, 1} /\ Half \in Nat /\ DataDepth \in Nat
  BY <1>1, HalfType DEF One
<1>3. b \in Nat /\ b <= a + o
  <2>1. gacFifo' = FifoNext(gacFifo, gacRd, dcOut.wr, dcOut, DataDepth)
    BY DEF GacClock
  <2>2. QED
    BY <1>1, <1>2, <2>1, FifoLen
<1>4. /\ a + o <= Half + n /\ a < DataDepth
      /\ dcState = "SEND" => /\ DcWord.seq + 1 <= n /\ DcWord.seq \in Nat
                             /\ a + o <= Half + DcWord.seq
  BY <1>1, GacFits DEF GacLevel
<1>5. /\ dcOut'.wr = (dcState = "SEND") /\ dcRd = (dcState # "IDLE")
      /\ dcRd' = (dcState' # "IDLE")
      /\ dcRd /\ dcRd' => dcState' = dcState
      /\ ~dcRd => (dcState' = "SEND" => ~DataAlf(gacFifo)) /\ dcVRd' = dcRd'
  BY <1>1, DcMoves DEF DcSends
<1>6. /\ dcRd /\ dcRd' => dcFifo'[1].seq = dcFifo[1].seq + 1
  BY <1>1, DcNext
<1>7. dcRd' => dcFifo' # <<>> /\ DcWord' = dcFifo'[1] /\ dcVRd' = (DcWord'.seq = 0)
  <2>1. dcRd' => dcFifo' # <<>> /\ dcVRd' = (dcFifo'[1].seq = 0)
    BY DEF DcIn, Stored
  <2>2. dcFifo' \in Seq(Beat)
    BY DEF TypeOK, DcTypeOK
  <2>3. QED
    BY <2>1, <2>2, FrontType DEF DcWord
<1>8. CASE dcState' # "SEND"
  <2>1. b + x <= Half + n
    <3> HIDE DEF a, b, o
    <3>1. CASE dcState = "SEND"
      BY <1>2, <1>3, <1>4, <3>1
    <3>2. CASE dcState # "SEND"
      <4>1. x = 0
        BY <1>5, <3>2 DEF One
      <4>2. QED
        BY <1>2, <1>3, <1>4, <4>1
    <3>3. QED
      BY <3>1, <3>2
  <2>2. QED
    BY <1>8, <2>1 DEF GacLevel
<1>9. CASE dcState' = "SEND" /\ dcRd
  <2>1. dcState = "SEND" /\ dcRd'
    BY <1>5, <1>9
  <2>2. DcWord'.seq = DcWord.seq + 1
    BY <1>1, <1>6, <1>7, <1>9, <2>1, DcTakes
  <2>3. b + x <= Half + DcWord'.seq
    <3> HIDE DEF a, b, o, x
    <3>1. QED
      BY <1>2, <1>3, <1>4, <2>1, <2>2
  <2>4. QED
    BY <1>9, <2>3 DEF GacLevel
<1>10. CASE dcState' = "SEND" /\ ~dcRd
  <2>1. /\ ~DataAlf(gacFifo) /\ dcRd' /\ dcVRd' /\ DcWord'.seq = 0
        /\ dcState # "SEND"
    BY <1>5, <1>7, <1>10
  <2>2. a <= Half - 1
    BY <1>1, <1>4, <2>1, HalfFree
  <2>3. x = 0
    BY <1>5, <2>1 DEF One
  <2>4. b + x <= Half + DcWord'.seq
    <3> HIDE DEF a, b, o, x
    <3>1. QED
      BY <1>2, <1>3, <2>1, <2>2, <2>3
  <2>5. QED
    BY <1>10, <2>4 DEF GacLevel
<1>11. QED
  BY <1>1, <1>8, <1>9, <1>10 DEF TypeOK
-----------------------------------------------------------------------------
(***************************************************************************)
(* The metadata between gpp and gac.                                       *)
(***************************************************************************)

\* The packets of metadata in one place, and their order.
No(m) == IF m.wr THEN {m.pkt} ELSE {}
Rising(q) == \A i, j \in 1 .. Len(q) : i < j => q[i].pkt < q[j].pkt
Below(A, B) == \A a \in A, b \in B : a < b

LEMMA RisingTail ==
  ASSUME NEW q \in Seq(Md), Rising(q), q # <<>>
  PROVE  /\ Tail(q) \in Seq(Md) /\ Rising(Tail(q))
         /\ Nos(Tail(q)) = Nos(q) \ {q[1].pkt}
         /\ q[1].pkt \in Nos(q) /\ \A x \in Nos(q) : x >= q[1].pkt
<1> DEFINE t == Tail(q)
<1>1. /\ Len(q) \in Nat /\ Len(q) # 0 /\ 1 \in 1 .. Len(q)
      /\ t \in Seq(Md) /\ Len(t) = Len(q) - 1
      /\ \A i \in 1 .. Len(t) : t[i] = q[i + 1] /\ i + 1 \in 1 .. Len(q)
      /\ \A i \in 1 .. Len(q) : q[i] \in Md
  BY EmptySeq
<1>2. \A i \in 1 .. Len(q) : q[i].pkt \in Nat
  BY <1>1 DEF Md
<1> HIDE DEF t
<1>3. Rising(t)
  <2>1. SUFFICES ASSUME NEW i \in 1 .. Len(t), NEW j \in 1 .. Len(t), i < j
                 PROVE  t[i].pkt < t[j].pkt
    BY DEF Rising
  <2>2. i + 1 < j + 1
    BY <1>1, <2>1
  <2>3. QED
    BY <1>1, <2>2 DEF Rising
<1>4. \A i \in 1 .. Len(q) : q[i].pkt >= q[1].pkt /\ (i # 1 => q[i].pkt > q[1].pkt)
  BY <1>1, <1>2 DEF Rising
<1>5. ASSUME NEW x \in Nos(t) PROVE x \in Nos(q) \ {q[1].pkt}
  <2>1. PICK i \in 1 .. Len(t) : x = t[i].pkt
    BY <1>5 DEF Nos
  <2>2. i + 1 \in 1 .. Len(q) /\ x = q[i + 1].pkt /\ i + 1 # 1
    BY <1>1, <2>1
  <2>3. QED
    BY <1>1, <1>2, <1>4, <2>2 DEF Nos
<1>6. ASSUME NEW x \in Nos(q) \ {q[1].pkt} PROVE x \in Nos(t)
  <2>1. PICK i \in 1 .. Len(q) : x = q[i].pkt
    BY <1>6 DEF Nos
  <2>2. i # 1
    BY <1>6, <2>1
  <2>3. i - 1 \in 1 .. Len(t) /\ (i - 1) + 1 = i
    BY <1>1, <2>1, <2>2
  <2>4. x = t[i - 1].pkt
    BY <1>1, <2>1, <2>3
  <2>5. QED
    BY <2>3, <2>4 DEF Nos
<1>7. Nos(t) = Nos(q) \ {q[1].pkt}
  BY <1>5, <1>6
<1>8. QED
  BY <1>1, <1>3, <1>4, <1>7 DEF Nos, t

LEMMA RisingAppend ==
  ASSUME NEW q \in Seq(Md), Rising(q), NEW o \in Md, Below(Nos(q), {o.pkt})
  PROVE  Rising(Append(q, o)) /\ Nos(Append(q, o)) = Nos(q) \cup {o.pkt}
<1> DEFINE l == Append(q, o)
           n == Len(q)
<1>1. /\ n \in Nat /\ Len(l) = n + 1 /\ l[n + 1] = o
      /\ \A i \in 1 .. n : l[i] = q[i]
  BY AppendIs
<1>2. \A i \in 1 .. n : q[i].pkt < o.pkt
  BY DEF Below, Nos
<1> HIDE DEF l, n
<1>3. 1 .. n + 1 = (1 .. n) \cup {n + 1}
  BY <1>1
<1>4. Rising(l)
  <2>1. SUFFICES ASSUME NEW i \in 1 .. n + 1, NEW j \in 1 .. n + 1, i < j
                 PROVE  l[i].pkt < l[j].pkt
    BY <1>1 DEF Rising
  <2>2. i \in 1 .. n
    BY <1>1, <2>1
  <2>3. CASE j = n + 1
    BY <1>1, <1>2, <2>2, <2>3
  <2>4. CASE j \in 1 .. n
    BY <1>1, <2>1, <2>2, <2>4 DEF Rising, n
  <2>5. QED
    BY <1>3, <2>3, <2>4
<1>5. ASSUME NEW x PROVE x \in Nos(l) <=> x \in Nos(q) \cup {o.pkt}
  <2>1. x \in Nos(l) <=> \E i \in 1 .. n + 1 : x = l[i].pkt
    BY <1>1 DEF Nos
  <2>2. (\E i \in 1 .. n + 1 : x = l[i].pkt)
          <=> (\E i \in 1 .. n : x = q[i].pkt) \/ x = o.pkt
    BY <1>1, <1>3
  <2>3. x \in Nos(q) <=> \E i \in 1 .. n : x = q[i].pkt
    BY DEF Nos, n
  <2>4. QED
    BY <2>1, <2>2, <2>3
<1>6. Nos(l) = Nos(q) \cup {o.pkt}
  BY <1>5
<1>7. QED
  BY <1>4, <1>6 DEF l

LEMMA RisingNext ==
  ASSUME NEW q \in Seq(Md), NEW o \in Md, NEW rd \in BOOLEAN, NEW depth \in Nat,
         Rising(q), Below(Nos(q), No(o)), o.wr => Len(q) < depth, rd => q # <<>>,
         NEW f, f = FifoNext(q, rd, o.wr, o, depth)
  PROVE  /\ Rising(f)
         /\ Nos(f) = (IF rd THEN Nos(q) \ {q[1].pkt} ELSE Nos(q)) \cup No(o)
<1> DEFINE p == IF rd THEN Tail(q) ELSE q
           P == IF rd THEN Nos(q) \ {q[1].pkt} ELSE Nos(q)
<1>1. p \in Seq(Md) /\ Rising(p) /\ Nos(p) = P /\ P \subseteq Nos(q)
  BY RisingTail
<1>2. f = IF o.wr THEN Append(p, o) ELSE p
  <2>1. (rd /\ q # <<>>) = rd
    OBVIOUS
  <2>2. (o.wr /\ Len(q) < depth) = o.wr
    BY DEF Md
  <2>3. QED
    BY <2>1, <2>2 DEF FifoNext
<1> HIDE DEF p, P
<1>3. CASE o.wr
  <2>1. No(o) = {o.pkt}
    BY <1>3 DEF No
  <2>2. Below(Nos(p), {o.pkt})
    BY <1>1, <2>1 DEF Below
  <2>3. Rising(Append(p, o)) /\ Nos(Append(p, o)) = Nos(p) \cup {o.pkt}
    BY <1>1, <2>2, RisingAppend
  <2>4. f = Append(p, o)
    BY <1>2, <1>3
  <2>5. QED
    BY <1>1, <2>1, <2>3, <2>4 DEF P
<1>4. CASE ~o.wr
  BY <1>1, <1>2, <1>4 DEF No, P
<1>5. QED
  BY <1>3, <1>4

\* All that are under way, in the order of the places.
Coming == No(gkeMdOut) \cup No(gkeMdDly) \cup No(gppMdOut)
Chain == Nos(gacMds) \cup No(scmMdOut) \cup No(gmeMdOut) \cup Nos(gmeMds) \cup Coming
MdOrder ==
  /\ Rising(gacMds) /\ Rising(gmeMds)
  /\ Below(Nos(gacMds), No(scmMdOut) \cup No(gmeMdOut) \cup Nos(gmeMds) \cup Coming)
  /\ Below(No(scmMdOut), No(gmeMdOut) \cup Nos(gmeMds) \cup Coming)
  /\ Below(No(gmeMdOut), Nos(gmeMds) \cup Coming)
  /\ Below(Nos(gmeMds), Coming)

\* They are those of the packets that came whole and are still to leave.
Past == 1 .. Len(kinds) - One(pin.wr)
ChainIs == Chain = {p \in Past : Served(kinds[p]) /\ p > gacHdr.pkt}

\* The statistics are reset only while there are none.
Quiet == statReset => Waiting = {}

ChainInv == Spaced /\ MdOrder /\ ChainIs /\ Quiet

LEMMA PastNext ==
  ASSUME TypeOK, Port1, PinContinue \/ PinHead \/ PinPause
  PROVE  /\ Past' = Past \cup (IF pin.wr /\ pin.seq = LastNo(pin.pkt)
                               THEN {pin.pkt} ELSE {})
         /\ Past \subseteq Pkts
         /\ pin.wr => pin.pkt = Len(kinds) /\ \A p \in Past : p < pin.pkt
<1> DEFINE n == Len(kinds)
<1>1. /\ n \in Nat /\ pin.wr \in BOOLEAN /\ kinds \in Seq(AllKinds)
      /\ pin.wr => /\ pin.pkt = n /\ n \in Pkts /\ pin.seq \in 0 .. LastNo(pin.pkt)
                   /\ LastNo(pin.pkt) \in Nat
  BY PinType DEF TypeOK
<1>2. InPacket(pin) = (pin.wr /\ pin.seq < LastNo(pin.pkt))
  BY PortMoves
<1>3. /\ pin.wr => Past = 1 .. n - 1
      /\ ~pin.wr => Past = 1 .. n
  BY <1>1 DEF Past, One
<1>4. CASE PinContinue
  <2>1. InPacket(pin) /\ pin'.wr /\ kinds' = kinds
    BY <1>4, PortMoves DEF PinContinue
  <2>2. pin.wr /\ pin.seq # LastNo(pin.pkt)
    <3>1. pin.wr /\ pin.seq < LastNo(pin.pkt)
      BY <1>2, <2>1
    <3>2. QED
      BY <1>1, <3>1
  <2>3. Past' = 1 .. n - 1
    BY <2>1 DEF Past, One
  <2>4. QED
    BY <1>1, <1>3, <2>2, <2>3 DEF Pkts
<1>5. CASE ~InPacket(pin) /\ Past' = 1 .. n
  <2>1. CASE pin.wr
    <3>1. pin.seq = LastNo(pin.pkt) /\ pin.pkt = n /\ n >= 1
      <4>1. ~(pin.seq < LastNo(pin.pkt))
        BY <1>2, <1>5, <2>1
      <4>2. QED
        BY <1>1, <2>1, <4>1 DEF Pkts
    <3>2. 1 .. n = (1 .. n - 1) \cup {n}
      BY <1>1, <3>1
    <3>3. QED
      BY <1>1, <1>3, <1>5, <2>1, <3>1, <3>2 DEF Pkts
  <2>2. CASE ~pin.wr
    BY <1>3, <1>5, <2>2 DEF Pkts
  <2>3. QED
    BY <2>1, <2>2
<1>6. CASE PinHead
  <2>1. PICK k \in Kinds[n + 1] : kinds' = Append(kinds, k)
    BY <1>6 DEF PinHead
  <2>2. kinds' \in Seq(AllKinds)
    BY PortMoves
  <2>3. Len(kinds') = n + 1 /\ pin'.wr = TRUE
    BY <1>1, <1>6, <2>1, <2>2 DEF PinHead
  <2>4. Past' = 1 .. n
    BY <1>1, <2>3 DEF Past, One
  <2>5. QED
    BY <1>5, <1>6, <2>4 DEF PinHead
<1>7. CASE PinPause
  <2>1. kinds' = kinds /\ pin'.wr = FALSE
    BY <1>7 DEF PinPause, Idle
  <2>2. Past' = 1 .. n
    BY <1>1, <2>1 DEF Past, One
  <2>3. QED
    BY <1>5, <1>7, <2>2 DEF PinPause
<1>8. QED
  BY <1>4, <1>6, <1>7

LEMMA QuietNext ==
  ASSUME TypeOK, ResetWhen # "any", StatReset, PinContinue \/ PinHead \/ PinPause,
         gacHdr.pkt \in Nat, gacHdr'.pkt \in Nat, gacHdr'.pkt >= gacHdr.pkt
  PROVE  Quiet'
<1>1. SUFFICES ASSUME statReset' PROVE Waiting' = {}
  BY DEF Quiet
<1>2. ResetWhen = "quiet"
  BY <1>1, PipeAssumption DEF StatReset
<1>3. Waiting = {} /\ pin' = Idle /\ ~InPacket(pin)
  BY <1>1, <1>2 DEF StatReset
<1>4. kinds' = kinds
  BY <1>3 DEF PinContinue, PinHead, PinPause, Idle
<1>5. Len(kinds) \in Nat
  BY DEF TypeOK
<1>6. \A i \in 1 .. Len(kinds) : i > gacHdr'.pkt => i > gacHdr.pkt
  BY <1>5
<1>7. QED
  BY <1>3, <1>4, <1>6 DEF Waiting


\* What each place hands on in a clock.
Whole == IF pin.wr /\ pin.seq = LastNo(pin.pkt) /\ Served(kinds[pin.pkt])
         THEN {pin.pkt} ELSE {}
GmeSent == IF gmeRd THEN {gmeMds[1].pkt} ELSE {}
GacRead == IF gacMdRd THEN {gacMds[1].pkt} ELSE {}

LEMMA GppHands ==
  ASSUME TypeOK, Port1, Parsing, PinContinue \/ PinHead \/ PinPause,
         GppClock(pin, PinValid, KindOf(pin.pkt))
  PROVE  No(gppMdOut') = Whole
<1>1. /\ gppMdOut' = MdNow(gppFlag /\ PinValid)
      /\ gppFlag \in BOOLEAN
  BY DEF GppClock, GppMetadata, TypeOK, GppTypeOK
<1>2. /\ gppMdOut'.wr = (gppFlag /\ PinValid) /\ gppMdOut'.pkt = gppMd.pkt
  BY <1>1 DEF MdNow
<1>3. CASE pin.wr
  <2>1. /\ PinValid = (pin.seq = LastNo(pin.pkt) /\ kinds[pin.pkt].good)
        /\ pin.seq \in Nat /\ LastNo(pin.pkt) \in Nat /\ LastNo(pin.pkt) >= 5
    BY <1>3, PinKind, PinType
  <2>2. CASE pin.seq = LastNo(pin.pkt)
    <3>1. pin.seq # 0
      BY <2>1, <2>2
    <3>2. gppFlag = Accepts(kinds[pin.pkt].dmid) /\ gppMd.pkt = pin.pkt
      BY <3>1 DEF Parsing
    <3>3. gppMdOut'.wr <=> Served(kinds[pin.pkt])
      BY <1>2, <2>1, <2>2, <3>2 DEF Served
    <3>4. QED
      BY <1>2, <1>3, <2>2, <3>2, <3>3 DEF No, Whole
  <2>3. CASE pin.seq # LastNo(pin.pkt)
    <3>1. ~gppMdOut'.wr
      BY <1>2, <2>1, <2>3
    <3>2. QED
      BY <2>3, <3>1 DEF No, Whole
  <2>4. QED
    BY <2>2, <2>3
<1>4. CASE ~pin.wr
  <2>1. ~gppMdOut'.wr
    BY <1>2, <1>4, PinKind
  <2>2. QED
    BY <1>4, <2>1 DEF No, Whole
<1>5. QED
  BY <1>3, <1>4

LEMMA GkeHands ==
  ASSUME FrontInv, PinContinue \/ PinHead \/ PinPause, GkeClock(gppMdOut)
  PROVE  No(gkeMdDly') = No(gppMdOut) /\ No(gkeMdOut') = No(gkeMdDly)
<1>1. gkeMdDly' = gppMdOut /\ gkeMdOut'.wr = gkeMdDly.wr
  BY GkeStrobes
<1>2. gkeMdDly.wr => Read(gkeMdDly)
  BY DEF FrontInv, Metadata
<1>3. gkeMdDly.wr => gkeMdOut'.pkt = gkeMdDly.pkt
  BY <1>2, GkeKeys DEF FrontInv
<1>4. CASE gkeMdDly.wr
  BY <1>1, <1>3, <1>4 DEF No
<1>5. CASE ~gkeMdDly.wr
  BY <1>1, <1>5 DEF No
<1>6. QED
  BY <1>4, <1>5

LEMMA GmeHands ==
  ASSUME FrontInv, PinContinue \/ PinHead \/ PinPause,
         GmeClock(gkeKeyOut, gkeMdOut, answer)
  PROVE  No(gmeMdOut') = GmeSent
<1>1. /\ gmeMdOut'.wr = (gmeState = "data")
      /\ gmeState = "data" => gmeMdOut'.pkt = gmeMds[1].pkt
  BY GmeJoins DEF FrontInv
<1>2. gmeRd = (gmeState = "data")
  BY DEF FrontInv, Joining
<1>3. CASE gmeState = "data"
  BY <1>1, <1>2, <1>3 DEF No, GmeSent
<1>4. CASE gmeState # "data"
  BY <1>1, <1>2, <1>4 DEF No, GmeSent
<1>5. QED
  BY <1>3, <1>4

LEMMA ScmHands ==
  ASSUME FrontInv, PinContinue \/ PinHead \/ PinPause,
         ScmClock(gmeMdOut, started), statReset => No(gmeMdOut) = {}
  PROVE  No(scmMdOut') = No(gmeMdOut)
<1>1. /\ scmMdOut'.wr => gmeMdOut.wr /\ scmMdOut'.pkt = gmeMdOut.pkt
      /\ ~statReset => scmMdOut'.wr = gmeMdOut.wr
  BY ScmPasses DEF FrontInv
<1>2. statReset => ~gmeMdOut.wr
  BY DEF No
<1>3. CASE gmeMdOut.wr
  BY <1>1, <1>2, <1>3 DEF No
<1>4. CASE ~gmeMdOut.wr
  BY <1>1, <1>4 DEF No
<1>5. QED
  BY <1>3, <1>4

LEMMA GmeQueue ==
  ASSUME FrontInv, MdOrder, GmeClock(gkeKeyOut, gkeMdOut, answer),
         gkeMdOut.wr => Len(gmeMds) < MdDepth
  PROVE  /\ Rising(gmeMds')
         /\ Nos(gmeMds') = (Nos(gmeMds) \ GmeSent) \cup No(gkeMdOut)
         /\ GmeSent \subseteq Nos(gmeMds)
         /\ \A e \in GmeSent, x \in Nos(gmeMds) : x >= e
<1>1. /\ gmeMds \in Seq(Md) /\ gkeMdOut \in Md /\ gmeRd \in BOOLEAN /\ MdDepth \in Nat
      /\ gmeRd => gmeMds # <<>>
  BY PipeAssumption DEF FrontInv, TypeOK, GmeTypeOK, GkeTypeOK, Joining
<1>2. Rising(gmeMds) /\ Below(Nos(gmeMds), No(gkeMdOut))
  BY DEF MdOrder, Below, Coming
<1>3. gmeMds' = FifoNext(gmeMds, gmeRd, gkeMdOut.wr, gkeMdOut, MdDepth)
  BY DEF GmeClock
<1>4. /\ Rising(gmeMds')
      /\ Nos(gmeMds') = (IF gmeRd THEN Nos(gmeMds) \ {gmeMds[1].pkt}
                                  ELSE Nos(gmeMds)) \cup No(gkeMdOut)
  BY <1>1, <1>2, <1>3, RisingNext
<1>5. gmeRd => /\ gmeMds[1].pkt \in Nos(gmeMds)
               /\ \A x \in Nos(gmeMds) : x >= gmeMds[1].pkt
  BY <1>1, <1>2, RisingTail
<1>6. QED
  BY <1>4, <1>5 DEF GmeSent

LEMMA GacQueue ==
  ASSUME FrontInv, MdOrder, GacReads, NEW alf,
         GacClock(dcOut, dcVwr, scmMdOut, alf),
         scmMdOut.wr => Len(gacMds) < MdDepth
  PROVE  /\ Rising(gacMds')
         /\ Nos(gacMds') = (Nos(gacMds) \ GacRead) \cup No(scmMdOut)
         /\ GacRead \subseteq Nos(gacMds)
         /\ \A e \in GacRead, x \in Nos(gacMds) : x >= e
<1>1. /\ gacMds \in Seq(Md) /\ scmMdOut \in Md /\ gacMdRd \in BOOLEAN /\ MdDepth \in Nat
      /\ gacMdRd => gacMds # <<>>
  BY PipeAssumption DEF FrontInv, TypeOK, GacTypeOK, ScmTypeOK, GacReads
<1>2. Rising(gacMds) /\ Below(Nos(gacMds), No(scmMdOut))
  BY DEF MdOrder, Below
<1>3. gacMds' = FifoNext(gacMds, gacMdRd, scmMdOut.wr, scmMdOut, MdDepth)
  BY DEF GacClock
<1>4. /\ Rising(gacMds')
      /\ Nos(gacMds') = (IF gacMdRd THEN Nos(gacMds) \ {gacMds[1].pkt}
                                    ELSE Nos(gacMds)) \cup No(scmMdOut)
  BY <1>1, <1>2, <1>3, RisingNext
<1>5. gacMdRd => /\ gacMds[1].pkt \in Nos(gacMds)
                 /\ \A x \in Nos(gacMds) : x >= gacMds[1].pkt
  BY <1>1, <1>2, RisingTail
<1>6. QED
  BY <1>4, <1>5 DEF GacRead


\* The order of six places after each has handed on what it had to.
Handing(G, S, O, M, K, C, N, R, E) ==
  /\ G \cup S \cup O \cup M \cup K \cup C \cup N \subseteq Nat
  /\ Below(G, S \cup O \cup M \cup (K \cup C))
  /\ Below(S, O \cup M \cup (K \cup C)) /\ Below(O, M \cup (K \cup C))
  /\ Below(M, K \cup C) /\ Below(K, C)
  /\ Below(G \cup S \cup O \cup M \cup (K \cup C), N)
  /\ R \subseteq G /\ \A r \in R, x \in G : x >= r
  /\ E \subseteq M /\ \A e \in E, x \in M : x >= e
  /\ R = {} \/ \E r : R = {r}
  /\ E = {} \/ \E e : E = {e}

Handed(G, S, O, M, K, C, N, R, E) ==
  /\ Below((G \ R) \cup S, O \cup E \cup ((M \ E) \cup K) \cup (C \cup N))
  /\ Below(O, E \cup ((M \ E) \cup K) \cup (C \cup N))
  /\ Below(E, ((M \ E) \cup K) \cup (C \cup N))
  /\ Below((M \ E) \cup K, C \cup N)
  /\ ((G \ R) \cup S) \cup O \cup E \cup ((M \ E) \cup K) \cup (C \cup N)
       = ((G \cup S \cup O \cup M \cup (K \cup C)) \ R) \cup N
  /\ \A r \in R, x \in (G \cup S \cup O \cup M \cup (K \cup C)) \ R : x > r
  /\ \A r \in R, x \in N : x > r

LEMMA PlacesMove ==
  ASSUME NEW G, NEW S, NEW O, NEW M, NEW K, NEW C, NEW N, NEW R, NEW E,
         Handing(G, S, O, M, K, C, N, R, E)
  PROVE  Handed(G, S, O, M, K, C, N, R, E)
<1> DEFINE T == S \cup O \cup M \cup (K \cup C)
           B == G \cup S \cup O \cup M \cup (K \cup C)
<1> USE DEF Handing
<1>1. \A e \in E, x \in M \ E : x > e
  BY DEF Below
<1>2. \A r \in R, x \in G \ R : x > r
  BY DEF Below
<1>3. \A r \in R, x \in T : x > r
  BY DEF Below
<1>4. Below((G \ R) \cup S, O \cup E \cup ((M \ E) \cup K) \cup (C \cup N))
  BY DEF Below
<1>5. Below(O, E \cup ((M \ E) \cup K) \cup (C \cup N))
  BY DEF Below
<1>6. Below(E, ((M \ E) \cup K) \cup (C \cup N))
  BY <1>1 DEF Below
<1>7. Below((M \ E) \cup K, C \cup N)
  BY DEF Below
<1>8. \A r \in R, x \in N : x > r /\ r \notin N
  BY DEF Below
<1>9. R \cap T = {}
  BY <1>3
<1>10. ((G \ R) \cup S) \cup O \cup E \cup ((M \ E) \cup K) \cup (C \cup N)
         = (B \ R) \cup N
  BY <1>9
<1>11. \A r \in R, x \in B \ R : x > r
  BY <1>2, <1>3
<1>12. QED
  BY <1>4, <1>5, <1>6, <1>7, <1>8, <1>10, <1>11 DEF Handed


LEMMA ChainNext ==
  ASSUME FrontInv, ChainInv, GacReads, WordOrder, TypeOK',
         PinContinue \/ PinHead \/ PinPause,
         GppClock(pin, PinValid, KindOf(pin.pkt)), GkeClock(gppMdOut),
         GmeClock(gkeKeyOut, gkeMdOut, answer), ScmClock(gmeMdOut, started),
         NEW alf, GacClock(dcOut, dcVwr, scmMdOut, alf),
         ResetWhen # "any", StatReset,
         gkeMdOut.wr => Len(gmeMds) < MdDepth,
         scmMdOut.wr => Len(gacMds) < MdDepth,
         gacHdr'.pkt = IF gacVRd THEN gacMds[1].pkt ELSE gacHdr.pkt
  PROVE  ChainInv'
<1> DEFINE G == Nos(gacMds)
           S == No(scmMdOut)
           O == No(gmeMdOut)
           M == Nos(gmeMds)
           K == No(gkeMdOut)
           C == No(gkeMdDly) \cup No(gppMdOut)
           R == GacRead
           E == GmeSent
           N == Whole
           h == gacHdr.pkt
           g == gacHdr'.pkt
<1>1. TypeOK /\ Port1 /\ Parsing
  BY DEF FrontInv
<1>2. /\ Past' = Past \cup (IF pin.wr /\ pin.seq = LastNo(pin.pkt)
                            THEN {pin.pkt} ELSE {})
      /\ Past \subseteq Pkts
      /\ pin.wr => pin.pkt = Len(kinds) /\ \A p \in Past : p < pin.pkt
  BY <1>1, PastNext
<1>3. /\ Coming = K \cup C
      /\ Chain = G \cup S \cup O \cup M \cup (K \cup C)
  BY DEF Coming, Chain
<1>4. Chain = {p \in Past : Served(kinds[p]) /\ p > h}
  BY DEF ChainInv, ChainIs
<1>5. Chain \subseteq Pkts /\ Pkts \subseteq Nat
  BY <1>2, <1>4 DEF Pkts
<1>6. statReset => O = {}
  <2>1. statReset => Waiting = {}
    BY DEF ChainInv, Quiet
  <2>2. Chain \subseteq Waiting
    BY <1>2, <1>4 DEF Waiting, Pkts
  <2>3. QED
    BY <1>3, <2>1, <2>2
<1>7. pin.wr => pin.pkt \in Nat /\ pin.pkt \in Pkts
  BY <1>1, PinType DEF Pkts
<1>8. N \subseteq Nat /\ Below(Chain, N)
  <2>1. \A p \in Chain, x \in N : p < x
    BY <1>2, <1>4 DEF Whole
  <2>2. QED
    BY <1>7, <2>1 DEF Whole, Below
<1>9. /\ Below(G, S \cup O \cup M \cup (K \cup C))
      /\ Below(S, O \cup M \cup (K \cup C)) /\ Below(O, M \cup (K \cup C))
      /\ Below(M, K \cup C)
  BY <1>3 DEF ChainInv, MdOrder
<1>10. Below(K, C)
  BY DEF ChainInv, Spaced, Below, No
<1>11. /\ Rising(gacMds') /\ Nos(gacMds') = (G \ R) \cup S
       /\ R \subseteq G /\ \A r \in R, x \in G : x >= r
  BY GacQueue DEF ChainInv
<1>12. /\ Rising(gmeMds') /\ Nos(gmeMds') = (M \ E) \cup K
       /\ E \subseteq M /\ \A e \in E, x \in M : x >= e
  BY GmeQueue DEF ChainInv
<1>13. /\ No(scmMdOut') = O /\ No(gmeMdOut') = E
       /\ No(gkeMdOut') = No(gkeMdDly) /\ No(gkeMdDly') = No(gppMdOut)
       /\ No(gppMdOut') = N
  BY <1>1, <1>6, GppHands, GkeHands, GmeHands, ScmHands
<1>14. Coming' = C \cup N
  BY <1>13 DEF Coming
<1>15. /\ R = {} \/ \E r : R = {r}
       /\ E = {} \/ \E e : E = {e}
  BY DEF GacRead, GmeSent
<1>16. G \cup S \cup O \cup M \cup K \cup C \cup N \subseteq Nat
  BY <1>3, <1>5, <1>8
<1> HIDE DEF G, S, O, M, K, C, R, E, N
<1>17. /\ Below((G \ R) \cup S, O \cup E \cup ((M \ E) \cup K) \cup (C \cup N))
       /\ Below(O, E \cup ((M \ E) \cup K) \cup (C \cup N))
       /\ Below(E, ((M \ E) \cup K) \cup (C \cup N))
       /\ Below((M \ E) \cup K, C \cup N)
       /\ ((G \ R) \cup S) \cup O \cup E \cup ((M \ E) \cup K) \cup (C \cup N)
            = ((G \cup S \cup O \cup M \cup (K \cup C)) \ R) \cup N
       /\ \A r \in R, x \in (G \cup S \cup O \cup M \cup (K \cup C)) \ R : x > r
       /\ \A r \in R, x \in N : x > r
  <2>1. Below(G \cup S \cup O \cup M \cup (K \cup C), N)
    BY <1>3, <1>8
  <2>2. Handing(G, S, O, M, K, C, N, R, E)
    BY <1>9, <1>10, <1>11, <1>12, <1>15, <1>16, <2>1 DEF Handing
  <2>3. Handed(G, S, O, M, K, C, N, R, E)
    BY <2>2, PlacesMove
  <2>4. QED
    BY <2>3 DEF Handed
<1>18. MdOrder'
  <2>1. /\ Below(Nos(gacMds'), No(scmMdOut') \cup No(gmeMdOut') \cup Nos(gmeMds')
                                 \cup Coming')
        /\ Below(No(scmMdOut'), No(gmeMdOut') \cup Nos(gmeMds') \cup Coming')
        /\ Below(No(gmeMdOut'), Nos(gmeMds') \cup Coming')
        /\ Below(Nos(gmeMds'), Coming')
    BY <1>11, <1>12, <1>13, <1>14, <1>17
  <2>2. QED
    BY <1>11, <1>12, <2>1 DEF MdOrder
<1>19. /\ Chain' = (Chain \ R) \cup N
       /\ \A r \in R, x \in Chain \ R : x > r
  <2>1. Chain' = Nos(gacMds') \cup No(scmMdOut') \cup No(gmeMdOut') \cup Nos(gmeMds')
                   \cup Coming'
    BY DEF Chain
  <2>2. QED
    BY <1>3, <1>11, <1>12, <1>13, <1>14, <1>17, <2>1
<1>20. h \in Nat /\ (pin.wr => h < pin.pkt)
  BY DEF WordOrder
<1>21. /\ gacVRd => R = {g} /\ g \in Chain /\ g > h
       /\ ~gacVRd => R = {} /\ g = h
  <2>1. gacMdRd = gacVRd
    BY DEF GacReads
  <2>2. /\ gacVRd => R = {g}
        /\ ~gacVRd => R = {} /\ g = h
    BY <2>1 DEF R, GacRead
  <2>3. R \subseteq Chain
    BY <1>3, <1>11
  <2>4. QED
    BY <1>4, <2>2, <2>3
<1>22. g \in Nat /\ g >= h /\ (pin.wr => g < pin.pkt)
  <2>1. CASE gacVRd
    <3>1. g \in Chain /\ g > h /\ g \in Past /\ g \in Nat
      BY <1>4, <1>5, <1>21, <2>1
    <3>2. pin.wr => g < pin.pkt
      BY <1>2, <3>1
    <3>3. QED
      BY <1>20, <3>1, <3>2
  <2>2. CASE ~gacVRd
    BY <1>20, <1>21, <2>2
  <2>3. QED
    BY <2>1, <2>2
<1>23. /\ Pkts \subseteq Pkts' /\ \A i \in Pkts : kinds'[i] = kinds[i]
  BY <1>1, KindsGrow
<1>24. Chain \ R = {p \in Past : Served(kinds[p]) /\ p > g}
  <2>1. CASE gacVRd
    <3>1. ASSUME NEW p \in Chain \ R
          PROVE  p \in Past /\ Served(kinds[p]) /\ p > g
      BY <1>4, <1>19, <1>21, <2>1, <3>1
    <3>2. ASSUME NEW p \in Past, Served(kinds[p]), p > g
          PROVE  p \in Chain \ R
      <4>1. p \in Nat
        BY <1>2, <1>5
      <4>2. p > h /\ p # g
        BY <1>20, <1>21, <1>22, <2>1, <3>2, <4>1
      <4>3. QED
        BY <1>4, <1>21, <2>1, <3>2, <4>2
    <3>3. QED
      BY <3>1, <3>2
  <2>2. CASE ~gacVRd
    BY <1>4, <1>21, <2>2
  <2>3. QED
    BY <2>1, <2>2
<1>25. Chain' = {p \in Past' : Served(kinds'[p]) /\ p > g}
  <2>1. \A p \in Past : Served(kinds'[p]) <=> Served(kinds[p])
    BY <1>2, <1>23
  <2>2. pin.wr => (Served(kinds'[pin.pkt]) <=> Served(kinds[pin.pkt]))
    BY <1>7, <1>23
  <2>3. CASE pin.wr /\ pin.seq = LastNo(pin.pkt)
    <3>1. Past' = Past \cup {pin.pkt} /\ pin.pkt > g
      BY <1>2, <1>7, <1>22, <2>3
    <3>2. N = IF Served(kinds[pin.pkt]) THEN {pin.pkt} ELSE {}
      BY <2>3 DEF N, Whole
    <3>3. QED
      BY <1>19, <1>24, <2>1, <2>2, <2>3, <3>1, <3>2
  <2>4. CASE ~(pin.wr /\ pin.seq = LastNo(pin.pkt))
    <3>1. Past' = Past /\ N = {}
      BY <1>2, <2>4 DEF N, Whole
    <3>2. QED
      BY <1>19, <1>24, <2>1, <3>1
  <2>5. QED
    BY <2>3, <2>4
<1>26. ChainIs'
  BY <1>25 DEF ChainIs
<1>27. Spaced'
  BY SpacedKept DEF ChainInv
<1>28. Quiet'
  BY <1>1, <1>20, <1>22, QuietNext
<1>29. QED
  BY <1>18, <1>26, <1>27, <1>28 DEF ChainInv


\* The oldest metadata in gac are those of the packet whose words it reads.
LEMMA PairedNow ==
  ASSUME GacInv, WordOrder, AllThere, ChainInv
  PROVE  Paired
<1> DEFINE w == GacWord.pkt
           m == GacMd.pkt
<1>1. SUFFICES ASSUME TakesMetadata PROVE GacWord.flag = "head" /\ m = w
  BY DEF Paired
<1>2. TypeOK /\ Port1 /\ GacIn /\ GacReads
  BY DEF GacInv, DcInv, FrontInv
<1>3. gacRd /\ gacVRd /\ gacMds # <<>>
  BY <1>1, <1>2 DEF TakesMetadata, GacReads
<1>4. /\ OfPacket(kinds, GacWord) /\ GacWord.flag = "head"
      /\ w \in Nos(GacLine) /\ \A a \in Nos(GacLine) : a >= w
  BY <1>2, <1>3, GacTakes, GacFirst
<1>5. /\ m = gacMds[1].pkt /\ m \in Nos(gacMds) /\ \A x \in Nos(gacMds) : x >= m
  <2>1. gacMds \in Seq(Md) /\ Rising(gacMds) /\ GacMd = gacMds[1]
    BY <1>2, <1>3, GacFront DEF TypeOK, GacTypeOK, ChainInv, MdOrder
  <2>2. QED
    BY <1>3, <2>1, RisingTail
<1>6. Chain = {p \in Past : Served(kinds[p]) /\ p > gacHdr.pkt}
  BY DEF ChainInv, ChainIs
<1>7. m \in Chain /\ \A x \in Chain : x >= m
  <2>1. m \in Chain
    BY <1>5 DEF Chain
  <2>2. Chain \subseteq Nat
    BY <1>6 DEF Past
  <2>3. \A x \in Chain : x \in Nos(gacMds) \/ m < x
    BY <1>5 DEF Chain, ChainInv, MdOrder, Below
  <2>4. ASSUME NEW x \in Chain PROVE x >= m
    <3>1. x \in Nat /\ m \in Nat
      BY <2>1, <2>2
    <3>2. x >= m \/ m < x
      BY <1>5, <2>3
    <3>3. QED
      BY <3>1, <3>2
  <2>5. QED
    BY <2>1, <2>4
<1>8. /\ pin.wr => pin.pkt = Len(kinds)
      /\ Len(kinds) \in Nat /\ pin.wr \in BOOLEAN
  BY <1>2, PinType DEF TypeOK
<1>9. w \in Chain
  <2>1. /\ w \in Pkts /\ w \in Nat /\ Accepts(kinds[w].dmid)
    BY <1>4 DEF OfPacket, Pkts
  <2>2. kinds[w].good /\ w > gacHdr.pkt /\ (pin.wr => w < pin.pkt)
    BY <1>3, <1>4 DEF WordOrder
  <2>3. w \in Past
    BY <1>8, <2>1, <2>2 DEF Past, One, Pkts
  <2>4. QED
    BY <1>6, <2>1, <2>2, <2>3 DEF Served
<1>10. m \in Nos(GacLine) \/ m \in Nos(DcLine)
  <2>1. m \in Pkts /\ m \in Nat /\ Served(kinds[m]) /\ m > gacHdr.pkt /\ Came(m, 0)
    BY <1>6, <1>7, <1>8 DEF Past, One, Pkts, Came
  <2>2. 0 \in 0 .. LastNo(m)
    <3>1. kinds[m] \in AllKinds
      BY <1>2, <2>1 DEF TypeOK, Pkts
    <3>2. kinds[m].len \in Nat /\ kinds[m].len >= 6
      BY <3>1, KindType
    <3>3. QED
      BY <3>2 DEF LastNo
  <2>3. HasWord(GacLine, m, 0) \/ HasWord(DcLine, m, 0)
    BY <2>1, <2>2 DEF AllThere
  <2>4. QED
    BY <2>3 DEF HasWord, Nos
<1>11. m >= w
  <2>1. m \in Nat /\ w \in Nat
    BY <1>6, <1>7, <1>9 DEF Past
  <2>2. CASE m \in Nos(GacLine)
    BY <1>4, <2>2
  <2>3. CASE m \in Nos(DcLine)
    BY <1>4, <2>1, <2>3 DEF WordOrder
  <2>4. QED
    BY <1>10, <2>2, <2>3
<1>12. m = w
  BY <1>6, <1>7, <1>9, <1>11 DEF Past
<1>13. QED
  BY <1>4, <1>12

\* The packets whose metadata are under way have six words each in the lines.
LEMMA ChainWords ==
  ASSUME TypeOK, Port1, AllThere, ChainIs
  PROVE  /\ IsFiniteSet(Chain) /\ Cardinality(Chain) \in Nat
         /\ 6 * Cardinality(Chain) <= Len(GacLine) + Len(DcLine)
<1> DEFINE a == Len(GacLine)
           b == Len(DcLine)
           W == Chain \X (0 .. 5)
           At(j, p, n) == IF j <= a THEN GacLine[j].pkt = p /\ GacLine[j].seq = n
                          ELSE DcLine[j - a].pkt = p /\ DcLine[j - a].seq = n
           f == [x \in W |-> CHOOSE j \in 1 .. a + b : At(j, x[1], x[2])]
<1>1. a \in Nat /\ b \in Nat
  <2>1. gacFifo \in Seq(Beat) /\ dcOut \in Beat /\ dcFifo \in Seq(Beat) /\ gppOut \in Beat
    BY DEF TypeOK, GacTypeOK, DcTypeOK, GppTypeOK
  <2>2. GacLine \in Seq(Beat) /\ DcLine \in Seq(Beat)
    BY <2>1, LineKeeps DEF GacLine, DcLine
  <2>3. QED
    BY <2>2
<1>2. Chain = {p \in Past : Served(kinds[p]) /\ p > gacHdr.pkt}
  BY DEF ChainIs
<1>3. Len(kinds) \in Nat /\ pin.wr \in BOOLEAN /\ (pin.wr => pin.pkt = Len(kinds))
  BY PinType DEF TypeOK
<1>4. /\ IsFiniteSet(Chain) /\ Cardinality(Chain) \in Nat
  <2>1. Past \subseteq 1 .. Len(kinds)
    BY <1>3 DEF Past, One
  <2>2. IsFiniteSet(1 .. Len(kinds))
    BY <1>3, FS_Interval
  <2>3. Chain \subseteq 1 .. Len(kinds)
    BY <1>2, <2>1
  <2>4. IsFiniteSet(Chain)
    BY <2>2, <2>3, FS_Subset
  <2>5. QED
    BY <2>4, FS_CardinalityType
<1>5. ASSUME NEW p \in Chain, NEW n \in 0 .. 5
      PROVE  \E j \in 1 .. a + b : At(j, p, n)
  <2>1. p \in Pkts /\ Served(kinds[p]) /\ p > gacHdr.pkt /\ Came(p, n)
    BY <1>2, <1>3, <1>5 DEF Past, One, Pkts, Came
  <2>2. n \in 0 .. LastNo(p)
    <3>1. kinds[p] \in AllKinds
      BY <2>1 DEF TypeOK, Pkts
    <3>2. kinds[p].len \in Nat /\ kinds[p].len >= 6
      BY <3>1, KindType
    <3>3. QED
      BY <3>2 DEF LastNo
  <2>3. HasWord(GacLine, p, n) \/ HasWord(DcLine, p, n)
    BY <2>1, <2>2 DEF AllThere
  <2>4. CASE HasWord(GacLine, p, n)
    <3>1. PICK i \in 1 .. a : GacLine[i].pkt = p /\ GacLine[i].seq = n
      BY <2>4 DEF HasWord
    <3>2. i \in 1 .. a + b /\ i <= a
      BY <1>1, <3>1
    <3>3. QED
      BY <3>1, <3>2
  <2>5. CASE HasWord(DcLine, p, n)
    <3>1. PICK i \in 1 .. b : DcLine[i].pkt = p /\ DcLine[i].seq = n
      BY <2>5 DEF HasWord
    <3>2. a + i \in 1 .. a + b /\ ~(a + i <= a) /\ (a + i) - a = i
      BY <1>1, <3>1
    <3>3. QED
      BY <3>1, <3>2
  <2>6. QED
    BY <2>3, <2>4, <2>5
<1> HIDE DEF a, b, At
<1>6. \A x \in W : f[x] \in 1 .. a + b /\ At(f[x], x[1], x[2])
  BY <1>5
<1> HIDE DEF f
<1>7. f \in [W -> 1 .. a + b]
  BY <1>6 DEF f
<1>8. \A j, p, n, q, k : At(j, p, n) /\ At(j, q, k) => p = q /\ n = k
  BY DEF At
<1>9. \A x, y \in W : f[x] = f[y] => x = y
  BY <1>6, <1>8
<1>10. f \in Injection(W, 1 .. a + b)
  BY <1>7, <1>9, Fun_IsInj
<1>11. IsFiniteSet(1 .. a + b) /\ Cardinality(1 .. a + b) = a + b
  <2>1. a + b \in Nat
    BY <1>1
  <2>2. QED
    BY <2>1, FS_Interval
<1>12. Cardinality(W) <= a + b
  <2>1. Cardinality(W) <= Cardinality(1 .. a + b)
    BY <1>10, <1>11, FS_Injection
  <2>2. QED
    BY <1>11, <2>1
<1>13. IsFiniteSet(0 .. 5) /\ Cardinality(0 .. 5) = 6
  <2>1. \A i, j \in Int : /\ IsFiniteSet(i .. j)
                          /\ Cardinality(i .. j) = IF i > j THEN 0 ELSE j - i + 1
    BY FS_Interval
  <2>2. 0 \in Int /\ 5 \in Int /\ ~(0 > 5) /\ 5 - 0 + 1 = 6
    OBVIOUS
  <2>3. QED
    BY <2>1, <2>2
<1>14. Cardinality(W) = Cardinality(Chain) * 6
  BY <1>4, <1>13, FS_Product
<1>15. QED
  BY <1>4, <1>12, <1>14 DEF a, b

LEMMA RisingLen ==
  ASSUME NEW q \in Seq(Md), Rising(q), NEW S, Nos(q) \subseteq S, IsFiniteSet(S)
  PROVE  Len(q) <= Cardinality(S)
<1> DEFINE f == [i \in 1 .. Len(q) |-> q[i].pkt]
<1>1. \A i \in 1 .. Len(q) : f[i] \in S /\ f[i] \in Nat
  <2>1. SUFFICES ASSUME NEW i \in 1 .. Len(q) PROVE q[i].pkt \in S /\ q[i].pkt \in Nat
    OBVIOUS
  <2>2. q[i].pkt \in Nos(q)
    BY DEF Nos
  <2>3. q[i] \in Md
    OBVIOUS
  <2>4. QED
    BY <2>2, <2>3 DEF Md
<1>2. f \in [1 .. Len(q) -> S]
  BY <1>1
<1>3. \A i, j \in 1 .. Len(q) : f[i] = f[j] => i = j
  <2>1. SUFFICES ASSUME NEW i \in 1 .. Len(q), NEW j \in 1 .. Len(q), f[i] = f[j],
                        i # j
                 PROVE  FALSE
    OBVIOUS
  <2>2. i < j \/ j < i
    BY <2>1
  <2>3. QED
    BY <1>1, <2>1, <2>2 DEF Rising
<1>4. f \in Injection(1 .. Len(q), S)
  BY <1>2, <1>3, Fun_IsInj
<1>5. Cardinality(1 .. Len(q)) = Len(q)
  <2>1. Len(q) \in Nat
    OBVIOUS
  <2>2. \A k \in Nat : Cardinality(1 .. k) = k
    BY FS_Interval
  <2>3. QED
    BY <2>1, <2>2
<1>6. QED
  BY <1>4, <1>5, FS_Injection

\* How long the packets may be for the FIFOs: the hardware has 1024, 256, 97.
Fits(n) == DataRoom(n) /\ 2 * Half + 2 * n + 1 < 6 * MdDepth

LEMMA MdFits ==
  ASSUME NEW n \in Nat, Fits(n), GacInv, AllThere, ChainInv, DcLevel(n), GacLevel(n)
  PROVE  Len(gmeMds) < MdDepth /\ Len(gacMds) < MdDepth
<1>1. TypeOK /\ Port1 /\ FrontInv /\ DcIn /\ DcSends /\ DataRoom(n)
  BY DEF GacInv, DcInv, FrontInv, Fits
<1>2. /\ IsFiniteSet(Chain) /\ Cardinality(Chain) \in Nat
      /\ 6 * Cardinality(Chain) <= Len(GacLine) + Len(DcLine)
  BY <1>1, ChainWords DEF ChainInv
<1>3. Len(GacLine) <= Half + n /\ Len(DcLine) <= Half + 1 + n
  <2>1. gacFifo \in Seq(Beat) /\ dcOut \in Beat /\ dcFifo \in Seq(Beat) /\ gppOut \in Beat
    BY <1>1 DEF TypeOK, GacTypeOK, DcTypeOK, GppTypeOK
  <2>2. /\ Len(GacLine) = Len(gacFifo) + One(dcOut.wr)
        /\ Len(DcLine) = Len(dcFifo) + One(gppOut.wr)
    BY <2>1, LineOpen DEF GacLine, DcLine
  <2>3. QED
    BY <1>1, <2>2, DcFits, GacFits
<1>4. Cardinality(Chain) < MdDepth
  <2> DEFINE c == Cardinality(Chain)
             x == Len(GacLine)
             y == Len(DcLine)
  <2>1. x \in Nat /\ y \in Nat
    <3>1. GacLine \in Seq(Beat) /\ DcLine \in Seq(Beat)
      BY <1>1, LineKeeps
      DEF GacLine, DcLine, TypeOK, GacTypeOK, DcTypeOK, GppTypeOK
    <3>2. QED
      BY <3>1
  <2>2. 2 * Half + 2 * n + 1 < 6 * MdDepth /\ Half \in Nat /\ MdDepth \in Nat
    BY HalfType, PipeAssumption DEF Fits
  <2> HIDE DEF c, x, y
  <2>3. c \in Nat /\ 6 * c <= x + y /\ x <= Half + n /\ y <= Half + 1 + n
    BY <1>2, <1>3 DEF c, x, y
  <2>4. 6 * c < 6 * MdDepth
    BY <2>1, <2>2, <2>3
  <2>5. c < MdDepth
    BY <2>2, <2>3, <2>4
  <2>6. QED
    BY <2>5 DEF c
<1>5. /\ gmeMds \in Seq(Md) /\ gacMds \in Seq(Md)
      /\ Rising(gmeMds) /\ Rising(gacMds)
      /\ Nos(gmeMds) \subseteq Chain /\ Nos(gacMds) \subseteq Chain
  BY <1>1 DEF TypeOK, GmeTypeOK, GacTypeOK, ChainInv, MdOrder, Chain
<1>6. Len(gmeMds) <= Cardinality(Chain) /\ Len(gacMds) <= Cardinality(Chain)
  BY <1>2, <1>5, RisingLen
<1>7. QED
  <2>1. Len(gmeMds) \in Nat /\ Len(gacMds) \in Nat /\ MdDepth \in Nat
    BY <1>5, PipeAssumption
  <2>2. QED
    BY <1>2, <1>4, <1>6, <2>1


\* Words and metadata together.
PairInv(n) == /\ GacInv /\ WordOrder /\ AllThere /\ ChainInv
              /\ DcLevel(n) /\ GacLevel(n)

LEMMA PairHolds ==
  ASSUME NEW n \in Nat, Init
  PROVE  PairInv(n)
<1>1. FrontInv
  BY FrontHolds
<1>2. /\ kinds = <<>> /\ pin = Idle /\ pin.wr = FALSE
      /\ gppOut.wr = FALSE /\ gppVwr = FALSE /\ gppState = "IDLE"
      /\ dcFifo = <<>> /\ dcVFifo = <<>> /\ dcRd = FALSE /\ dcVRd = FALSE
      /\ dcState = "IDLE" /\ dcOut.wr = FALSE /\ dcVwr = FALSE
      /\ gacFifo = <<>> /\ gacVFifo = <<>> /\ gacMds = <<>>
      /\ gacRd = FALSE /\ gacVRd = FALSE /\ gacMdRd = FALSE /\ gacState = "IDLE"
      /\ gacHdr.pkt = 0
      /\ gppMdOut.wr = FALSE /\ gkeMdDly.wr = FALSE /\ gkeMdOut.wr = FALSE
      /\ gmeMdOut.wr = FALSE /\ scmMdOut.wr = FALSE /\ gmeMds = <<>>
      /\ statReset = FALSE
  BY DEF Init, GppInit, DcInit, GkeInit, GmeInit, ScmInit, GacInit, Idle, NoMd, RawHdr
<1>3. DcLine = <<>> /\ GacLine = <<>> /\ Len(DcLine) = 0 /\ Len(GacLine) = 0
  BY <1>2 DEF DcLine, GacLine, Line
<1>4. GppSends /\ DcSends /\ GacReads
  BY <1>2 DEF GppSends, DcSends, GacReads
<1>5. DcBefore
  BY <1>2 DEF DcBefore
<1>6. ASSUME NEW o, o.wr = FALSE
      PROVE  Stored(<<>>, <<>>, o, <<>>, FALSE, FALSE)
  <2>1. Line(<<>>, o) = <<>> /\ Taken(<<>>, FALSE, FALSE) = 0 /\ Len(<<>>) = 0
    BY <1>6 DEF Line, Taken
  <2>2. Runs(<<>>, <<>>, 0, OpenOf(o))
    BY <2>1 DEF Runs, InRuns, Complete, Headed
  <2>3. Ends(<<>>) \ {0} = {}
    BY <2>1 DEF Ends
  <2>4. Valids(<<>>, <<>>, {})
    <3> DEFINE nos == [i \in 1 .. 0 |-> 0]
    <3>1. 1 .. 0 = {}
      OBVIOUS
    <3>2. nos \in [1 .. 0 -> 1 .. 0]
      BY <3>1
    <3>3. {nos[i] : i \in 1 .. 0} = {}
      BY <3>1
    <3> HIDE DEF nos
    <3>4. QED
      BY <2>1, <3>1, <3>2, <3>3 DEF Valids
  <2>5. QED
    BY <2>1, <2>2, <2>3, <2>4 DEF Stored
<1>7. DcIn /\ GacIn
  BY <1>2, <1>6 DEF DcIn, GacIn
<1>8. GacInv
  BY <1>1, <1>4, <1>5, <1>7 DEF GacInv, DcInv
<1>9. Len(kinds) = 0
  BY <1>2
<1>10. Nos(DcLine) = {} /\ Nos(GacLine) = {}
  BY <1>3 DEF Nos
<1>11. WordOrder
  BY <1>2, <1>9, <1>10 DEF WordOrder
<1>12. AllThere
  BY <1>9 DEF AllThere, Pkts
<1>13. ChainInv
  <2>1. Chain = {} /\ Coming = {}
    BY <1>2 DEF Chain, Coming, Nos, No
  <2>2. MdOrder
    BY <1>2 DEF MdOrder, Rising, Below, Nos, No
  <2>3. Past = {}
    BY <1>2, <1>9 DEF Past, One
  <2>4. QED
    BY <1>2, <2>1, <2>2, <2>3 DEF ChainInv, Spaced, ChainIs, Quiet
<1>14. DcLevel(n) /\ GacLevel(n)
  <2>1. Len(dcFifo) = 0 /\ Len(gacFifo) = 0 /\ Half \in Nat
    BY <1>2, HalfType
  <2>2. QED
    BY <1>2, <2>1 DEF DcLevel, GacLevel, One
<1>15. QED
  BY <1>8, <1>11, <1>12, <1>13, <1>14 DEF PairInv

LEMMA PairStays ==
  ASSUME NEW n \in Nat, PairInv(n), UNCHANGED vars
  PROVE  PairInv(n)'
<1>1. /\ UNCHANGED <<kinds, pin, statReset>>
      /\ UNCHANGED <<gppState, gppOut, gppVal, gppVwr, gppMdOut>>
      /\ UNCHANGED <<dcFifo, dcVFifo, dcRd, dcVRd, dcState, dcOut, dcVwr>>
      /\ UNCHANGED <<gkeMdDly, gkeMdOut, gmeMds, gmeMdOut, scmMdOut>>
      /\ UNCHANGED <<gacFifo, gacVFifo, gacMds, gacRd, gacVRd, gacMdRd, gacState,
                     gacHdr>>
  BY DEF vars, gppVars, dcVars, gkeVars, gmeVars, scmVars, gacVars, envVars
<1>2. FrontInv'
  BY FrontStep DEF PairInv, GacInv, DcInv
<1>3. /\ DcLine' = DcLine /\ GacLine' = GacLine
      /\ DcWord' = DcWord /\ GacWord' = GacWord /\ Pkts' = Pkts /\ Past' = Past
      /\ Chain' = Chain /\ Coming' = Coming /\ Waiting' = Waiting
      /\ \A p : LastNo(p)' = LastNo(p)
      /\ \A p, k : Came(p, k)' = Came(p, k)
  BY <1>1 DEF DcLine, GacLine, DcWord, GacWord, Pkts, Past, Chain, Coming, Waiting,
              LastNo, Came
<1>4. GppSends' /\ DcIn' /\ DcSends' /\ DcBefore' /\ GacIn' /\ GacReads'
  BY <1>1, <1>3
  DEF PairInv, GacInv, DcInv, GppSends, DcIn, DcSends, DcBefore, GacIn, GacReads
<1>5. WordOrder' /\ AllThere'
  BY <1>1, <1>3 DEF PairInv, WordOrder, AllThere
<1>6. ChainInv'
  BY <1>1, <1>3 DEF PairInv, ChainInv, Spaced, MdOrder, ChainIs, Quiet
<1>7. DcLevel(n)' /\ GacLevel(n)'
  BY <1>1, <1>3 DEF PairInv, DcLevel, GacLevel
<1>8. QED
  BY <1>2, <1>4, <1>5, <1>6, <1>7 DEF PairInv, GacInv, DcInv

LEMMA RoomNow ==
  ASSUME NEW n \in Nat, Fits(n), PairInv(n)
  PROVE  NoOverflow
<1>1. /\ DataRoom(n) /\ FrontInv /\ TypeOK /\ DcIn /\ DcSends
      /\ DcLevel(n) /\ GacLevel(n)
  BY DEF Fits, PairInv, GacInv, DcInv, FrontInv
<1>2. /\ gppOut.wr => Len(dcFifo) < DataDepth
      /\ Len(gacFifo) < DataDepth
  BY <1>1, DcFits, GacFits
<1>3. Len(gmeMds) < MdDepth /\ Len(gacMds) < MdDepth
  BY MdFits DEF PairInv
<1>4. QED
  BY <1>2, <1>3 DEF NoOverflow

LEMMA PairClock ==
  ASSUME NEW n \in Nat, Fits(n), ResetWhen # "any", PairInv(n), Next
  PROVE  PairInv(n)'
<1>1. PICK alf \in BOOLEAN, answers \in BOOLEAN : Clock(alf, answers) /\ StatReset
  BY DEF Next
<1>2. /\ PinContinue \/ PinHead \/ PinPause
      /\ GppClock(pin, PinValid, KindOf(pin.pkt))
      /\ DcClock(gppOut, gppVal, gppVwr, DataAlf(gacFifo))
      /\ GkeClock(gppMdOut) /\ GmeClock(gkeKeyOut, gkeMdOut, answer)
      /\ ScmClock(gmeMdOut, started) /\ GacClock(dcOut, dcVwr, scmMdOut, alf)
      /\ StatReset
  BY <1>1 DEF Clock, Hardware
<1>3. /\ GacInv /\ WordOrder /\ AllThere /\ ChainInv /\ DcLevel(n) /\ GacLevel(n)
      /\ DcInv /\ FrontInv /\ TypeOK /\ GacIn /\ GacReads /\ GppSends /\ DataRoom(n)
  BY DEF PairInv, GacInv, DcInv, FrontInv, Fits
<1>4. FrontInv' /\ TypeOK'
  BY <1>3, FrontStep DEF FrontInv
<1>5. /\ gppOut.wr => Len(dcFifo) < DataDepth
      /\ dcOut.wr => Len(gacFifo) < DataDepth
      /\ gkeMdOut.wr => Len(gmeMds) < MdDepth
      /\ scmMdOut.wr => Len(gacMds) < MdDepth
  BY RoomNow DEF NoOverflow
<1>6. Paired
  BY <1>3, PairedNow
<1>7. TakesMetadata => GacMd.pkt = GacWord.pkt
  BY <1>6 DEF Paired
<1>8. GppSends' /\ DcIn' /\ DcSends' /\ DcBefore'
  BY <1>2, <1>3, <1>4, <1>5, DcKept
<1>9. /\ GacIn' /\ GacReads'
      /\ gacRd' => gacFifo'[1].pkt = gacFifo[1].pkt
      /\ gacRd /\ gacRd' => gacFifo'[1].seq = gacFifo[1].seq + 1
  BY <1>2, <1>3, <1>4, <1>5, <1>7, GacNext
<1>10. GacInv'
  BY <1>4, <1>8, <1>9 DEF GacInv, DcInv
<1>11. WordOrder'
  BY <1>2, <1>3, <1>4, <1>5, <1>7, <1>8, <1>9, OrderNext
<1>12. AllThere'
  BY <1>2, <1>3, <1>4, <1>5, <1>7, ThereNext
<1>13. DcLevel(n)'
  BY <1>2, <1>3, DcLevelKept
<1>14. GacLevel(n)'
  BY <1>2, <1>3, <1>4, <1>5, <1>8, GacLevelKept
<1>15. gacHdr'.pkt = IF gacVRd THEN gacMds[1].pkt ELSE gacHdr.pkt
  <2>1. gacHdr'.pkt = IF gacVRd THEN GacWord.pkt ELSE gacHdr.pkt
    BY <1>2, <1>3, <1>4, <1>7, GacMoves
  <2>2. CASE gacVRd
    <3>1. gacMdRd /\ gacMds # <<>>
      BY <1>3, <2>2 DEF GacReads
    <3>2. TakesMetadata
      <4>1. gacState \in {"IDLE", "LOOKUP", "WAIT", "METADATA", "TRANS"}
        BY <1>3 DEF TypeOK, GacTypeOK
      <4>2. QED
        BY <1>3, <2>2, <3>1, <4>1 DEF GacReads, TakesMetadata
    <3>3. GacMd = gacMds[1]
      BY <1>3, <3>1, GacFront
    <3>4. QED
      BY <1>7, <2>1, <2>2, <3>2, <3>3
  <2>3. QED
    BY <2>1, <2>2
<1>16. ChainInv'
  BY <1>2, <1>3, <1>4, <1>5, <1>15, ChainNext
<1>17. QED
  BY <1>10, <1>11, <1>12, <1>13, <1>14, <1>16 DEF PairInv

(***************************************************************************)
(* If the FIFOs have room for the longest packet beyond the levels at      *)
(* which they report almost full, and the software resets the statistics   *)
(* only while the pipeline is empty, then gac never joins words to the     *)
(* metadata of another packet, whatever packets were rejected or invalid   *)
(* and however long the matcher and pgm make the two streams wait.         *)
(***************************************************************************)
THEOREM JoinsItsOwn ==
  ASSUME NEW n \in Nat, Fits(n), ResetWhen # "any"
  PROVE  Spec => []Paired
<1>1. Init => PairInv(n)
  BY PairHolds
<1>2. PairInv(n) /\ [Next]_vars => PairInv(n)'
  BY PairClock, PairStays
<1>3. PairInv(n) => Paired
  BY PairedNow DEF PairInv
<1>4. QED
  BY <1>1, <1>2, <1>3, PTL DEF Spec

(***************************************************************************)
(* And under the same conditions no FIFO between pktin and gac is written  *)
(* when it is full: each packet whose metadata are under way still has its *)
(* first words in the data FIFOs, which bounds the metadata FIFOs that     *)
(* nothing guards.                                                         *)
(***************************************************************************)
THEOREM NothingOverflows ==
  ASSUME NEW n \in Nat, Fits(n), ResetWhen # "any"
  PROVE  Spec => []NoOverflow
<1>1. Init => PairInv(n)
  BY PairHolds
<1>2. PairInv(n) /\ [Next]_vars => PairInv(n)'
  BY PairClock, PairStays
<1>3. PairInv(n) => NoOverflow
  BY RoomNow
<1>4. QED
  BY <1>1, <1>2, <1>3, PTL DEF Spec


(***************************************************************************)
(* What gac shows pgm.  Between packets the strobe was low for a clock     *)
(* before the next first word; inside a packet the next word waits at the  *)
(* head of the data FIFO.                                                  *)
(***************************************************************************)
PortInv ==
  /\ gacState # "TRANS" \/ gacVRd => ~Port!InPacket(gacOut)
  /\ gacState \in {"LOOKUP", "WAIT", "METADATA"} \/ (gacState = "TRANS" /\ gacVRd) =>
       ~gacOut.wr
  /\ gacState = "TRANS" /\ ~gacVRd =>
       /\ Port!InPacket(gacOut) /\ gacOut.wr
       /\ gacOut.pkt = GacWord.pkt /\ GacWord.seq = gacOut.seq + 1

\* One step of the contract.
PortStep ==
  [\/ Port!GacContinue \/ Port!GacUnderrun \/ Port!GacPause
   \/ \E p \in 1 .. MaxPkts : Port!GacHead(p)]_gacOut

\* The first word of a packet, and the words behind it.
LEMMA PortHead ==
  ASSUME TypeOK, GacIn, PortInv, gacRd, gacVRd, gacOut' = [GacWord EXCEPT !.wr = TRUE],
         gacState \in {"METADATA", "TRANS"}
  PROVE  PortStep
<1>1. /\ OfPacket(kinds, GacWord) /\ GacWord.flag = "head"
  BY GacTakes DEF TypeOK, GacTypeOK
<1>2. /\ GacWord \in Beat /\ GacWord.pkt \in 1 .. Len(kinds) /\ GacWord.seq = 0
  BY <1>1 DEF OfPacket
<1>3. Len(kinds) \in Nat /\ Len(kinds) <= MaxPkts /\ MaxPkts \in Nat
  BY PipeAssumption DEF TypeOK
<1>4. GacWord.pkt \in 1 .. MaxPkts
  BY <1>2, <1>3
<1>5. gacOut' = Port!Word("head", GacWord.pkt, 0)
  BY <1>1, <1>2 DEF Port!Word, Beat
<1>6. ~Port!InPacket(gacOut) /\ ~gacOut.wr
  BY DEF PortInv
<1>7. Port!GacHead(GacWord.pkt)
  BY <1>5, <1>6 DEF Port!GacHead
<1>8. QED
  BY <1>4, <1>7 DEF PortStep

LEMMA PortNextWord ==
  ASSUME TypeOK, GacIn, PortInv, gacRd, ~gacVRd,
         gacOut' = [GacWord EXCEPT !.wr = TRUE], gacState = "TRANS"
  PROVE  PortStep
<1>1. OfPacket(kinds, GacWord) /\ GacWord.flag # "head"
  BY GacTakes DEF TypeOK, GacTypeOK
<1> DEFINE k == kinds[GacWord.pkt]
<1>2. k \in AllKinds /\ k.len \in Nat /\ kinds \in Seq(AllKinds)
  BY <1>1, WordIs, KindType DEF OfPacket, TypeOK
<1>3. /\ GacWord \in Beat /\ GacWord.seq < k.len
      /\ (GacWord.flag = "tail") = (GacWord.seq = k.len - 1)
      /\ GacWord.flag \in {"body", "tail"} /\ GacWord.seq \in Nat
  BY <1>1 DEF OfPacket, Beat, Flags
<1>4. /\ Port!InPacket(gacOut) /\ gacOut.pkt = GacWord.pkt
      /\ GacWord.seq = gacOut.seq + 1
  BY DEF PortInv
<1>5. gacOut.seq \in Nat
  BY DEF TypeOK, GacTypeOK, Beat
<1>6. gacOut' = Port!Word(GacWord.flag, gacOut.pkt, gacOut.seq + 1)
  BY <1>3, <1>4 DEF Port!Word, Beat
<1>7. k.len \in {l.len : l \in AllKinds}
  BY <1>2
<1> HIDE DEF k
<1>8. CASE GacWord.flag = "body"
  <2>1. k.len > gacOut.seq + 2
    BY <1>2, <1>3, <1>4, <1>5, <1>8
  <2>2. gacOut' \in Port!NextWords(gacOut)
    BY <1>6, <1>7, <1>8, <2>1 DEF Port!NextWords
  <2>3. QED
    BY <1>4, <2>2 DEF Port!GacContinue, PortStep
<1>9. CASE GacWord.flag = "tail"
  <2>1. k.len = gacOut.seq + 2
    BY <1>2, <1>3, <1>4, <1>5, <1>9
  <2>2. gacOut' \in Port!NextWords(gacOut)
    BY <1>6, <1>7, <1>9, <2>1 DEF Port!NextWords
  <2>3. QED
    BY <1>4, <2>2 DEF Port!GacContinue, PortStep
<1>10. QED
  BY <1>3, <1>8, <1>9

\* What every clock of gac shows.
LEMMA PortClock ==
  ASSUME TypeOK, GacIn, GacReads, PortInv, NEW alf,
         GacClock(dcOut, dcVwr, scmMdOut, alf)
  PROVE  PortStep
<1>1. \/ GacIdleLookup(alf) \/ GacIdleBypass(alf) \/ GacIdleWait(alf)
      \/ GacLookup \/ GacWait \/ GacMetadata \/ GacTrans
  BY DEF GacClock
<1>2. CASE gacState = "IDLE"
  <2>1. gacOut' \in {[gacOut EXCEPT !.wr = FALSE], Idle}
    BY <1>1, <1>2
    DEF GacIdleLookup, GacIdleBypass, GacIdleWait, GacLookup, GacWait,
        GacMetadata, GacTrans
  <2>2. ~Port!InPacket(gacOut)
    BY <1>2 DEF PortInv
  <2>3. QED
    BY <2>1, <2>2 DEF PortStep, Port!GacPause, Port!Idle, Idle
<1>3. CASE gacState \in {"LOOKUP", "WAIT"}
  <2>1. gacOut' = gacOut
    BY <1>1, <1>3
    DEF GacIdleLookup, GacIdleBypass, GacIdleWait, GacLookup, GacWait,
        GacMetadata, GacTrans
  <2>2. QED
    BY <2>1 DEF PortStep
<1>4. CASE gacState \in {"METADATA", "TRANS"}
  <2>1. gacOut' = [GacWord EXCEPT !.wr = TRUE]
    BY <1>1, <1>4
    DEF GacIdleLookup, GacIdleBypass, GacIdleWait, GacLookup, GacWait,
        GacMetadata, GacTrans
  <2>2. gacRd /\ (gacState = "METADATA" => gacVRd)
    BY <1>4 DEF GacReads
  <2>3. CASE gacVRd
    BY <1>4, <2>1, <2>2, <2>3, PortHead
  <2>4. CASE ~gacVRd
    <3>1. gacState = "TRANS"
      BY <1>4, <2>2, <2>4
    <3>2. QED
      BY <2>1, <2>2, <2>4, <3>1, PortNextWord
  <2>5. QED
    BY <2>3, <2>4
<1>5. QED
  BY <1>2, <1>3, <1>4 DEF TypeOK, GacTypeOK

LEMMA PortKept ==
  ASSUME TypeOK, TypeOK', GacIn, GacIn', GacReads, GacReads', PortInv, NEW alf,
         GacClock(dcOut, dcVwr, scmMdOut, alf),
         gacRd' => gacFifo'[1].pkt = gacFifo[1].pkt,
         gacRd /\ gacRd' => gacFifo'[1].seq = gacFifo[1].seq + 1
  PROVE  PortInv'
<1>1. \/ GacIdleLookup(alf) \/ GacIdleBypass(alf) \/ GacIdleWait(alf)
      \/ GacLookup \/ GacWait \/ GacMetadata \/ GacTrans
  BY DEF GacClock
<1>2. CASE gacState \in {"IDLE", "LOOKUP", "WAIT"}
  <2>1. ~Port!InPacket(gacOut)
    BY <1>2 DEF PortInv
  <2>2. \/ gacOut' = [gacOut EXCEPT !.wr = FALSE]
        \/ gacOut' = Idle
        \/ gacState \in {"LOOKUP", "WAIT"} /\ gacOut' = gacOut
    BY <1>1, <1>2
    DEF GacIdleLookup, GacIdleBypass, GacIdleWait, GacLookup, GacWait,
        GacMetadata, GacTrans
  <2>3. gacOut \in Beat
    BY DEF TypeOK, GacTypeOK
  <2>4. ~Port!InPacket(gacOut')
    BY <2>1, <2>2, <2>3 DEF Port!InPacket, Idle, Beat
  <2>5. ~gacOut'.wr
    BY <1>2, <2>2, <2>3 DEF PortInv, Idle, Beat
  <2>6. gacState' = "TRANS" => gacVRd'
    BY <1>1, <1>2
    DEF GacIdleLookup, GacIdleBypass, GacIdleWait, GacLookup, GacWait,
        GacMetadata, GacTrans, ReadAll
  <2>7. QED
    BY <2>4, <2>5, <2>6 DEF PortInv
<1>3. CASE gacState \in {"METADATA", "TRANS"}
  <2>1. /\ gacOut' = [GacWord EXCEPT !.wr = TRUE] /\ ~gacVRd'
        /\ gacState' \in {"IDLE", "TRANS"}
        /\ gacState' = "IDLE" => GacWord.flag = "tail"
        /\ gacState' = "TRANS" => gacState = "METADATA" \/ GacWord.flag # "tail"
    BY <1>1, <1>3
    DEF GacIdleLookup, GacIdleBypass, GacIdleWait, GacLookup, GacWait,
        GacMetadata, GacTrans
  <2>2. gacRd /\ (gacState = "METADATA" => gacVRd)
    BY <1>3 DEF GacReads
  <2>3. /\ gacFifo # <<>> /\ GacWord = gacFifo[1] /\ OfPacket(kinds, GacWord)
        /\ gacVRd => GacWord.flag = "head"
        /\ GacWord.flag # "none"
    BY <2>2, GacTakes DEF OfPacket
  <2>4. GacWord \in Beat
    BY <2>3 DEF OfPacket
  <2>5. gacOut'.flag = GacWord.flag /\ gacOut'.wr /\ gacOut'.pkt = GacWord.pkt
        /\ gacOut'.seq = GacWord.seq
    BY <2>1, <2>4 DEF Beat
  <2>6. CASE gacState' = "IDLE"
    <3>1. ~Port!InPacket(gacOut')
      BY <2>1, <2>5, <2>6 DEF Port!InPacket
    <3>2. QED
      BY <2>6, <3>1 DEF PortInv
  <2>7. CASE gacState' = "TRANS"
    <3>1. Port!InPacket(gacOut')
      BY <2>1, <2>2, <2>3, <2>4, <2>5, <2>7 DEF Port!InPacket, Beat, Flags
    <3>2. gacRd' /\ gacFifo' \in Seq(Beat)
      BY <2>7 DEF GacReads, TypeOK, GacTypeOK
    <3>3. gacFifo' # <<>>
      BY <3>2 DEF GacIn, Stored
    <3>4. GacWord' = gacFifo'[1]
      BY <3>2, <3>3, FrontType DEF GacWord
    <3>5. GacWord'.pkt = GacWord.pkt /\ GacWord'.seq = GacWord.seq + 1
      BY <2>2, <2>3, <3>2, <3>4
    <3>6. QED
      BY <2>1, <2>5, <2>7, <3>1, <3>5 DEF PortInv
  <2>8. QED
    BY <2>1, <2>6, <2>7
<1>4. QED
  BY <1>2, <1>3 DEF TypeOK, GacTypeOK

LEMMA PortSteps ==
  ASSUME NEW n \in Nat, Fits(n), ResetWhen # "any", PairInv(n), PortInv, Next
  PROVE  PortInv' /\ PortStep
<1>1. PICK alf \in BOOLEAN, answers \in BOOLEAN : Clock(alf, answers) /\ StatReset
  BY DEF Next
<1>2. /\ PinContinue \/ PinHead \/ PinPause
      /\ DcClock(gppOut, gppVal, gppVwr, DataAlf(gacFifo))
      /\ GacClock(dcOut, dcVwr, scmMdOut, alf)
  BY <1>1 DEF Clock, Hardware
<1>3. GacInv /\ WordOrder /\ GacIn /\ GacReads /\ TypeOK
  BY DEF PairInv, GacInv, DcInv, FrontInv
<1>4. PairInv(n)'
  BY PairClock
<1>5. GacIn' /\ GacReads' /\ TypeOK'
  BY <1>4 DEF PairInv, GacInv, DcInv, FrontInv
<1>6. dcOut.wr => Len(gacFifo) < DataDepth
  BY RoomNow DEF NoOverflow
<1>7. TakesMetadata => GacMd.pkt = GacWord.pkt
  BY PairedNow DEF PairInv, Paired
<1>8. /\ gacRd' => gacFifo'[1].pkt = gacFifo[1].pkt
      /\ gacRd /\ gacRd' => gacFifo'[1].seq = gacFifo[1].seq + 1
  BY <1>2, <1>3, <1>5, <1>6, <1>7, GacNext
<1>9. PortStep
  BY <1>2, <1>3, PortClock
<1>10. PortInv'
  BY <1>2, <1>3, <1>5, <1>8, PortKept
<1>11. QED
  BY <1>9, <1>10

(***************************************************************************)
(* The packet generator may rely on gac for packets of any lengths and in  *)
(* any number: every packet comes in consecutive clocks, from its first    *)
(* word to its last without a word left out, and the strobe is low before  *)
(* the next one.  The data FIFO never runs dry inside a packet, because    *)
(* gac starts only when the packet's last word has been written.           *)
(***************************************************************************)
THEOREM KeepsTheContract ==
  ASSUME NEW n \in Nat, Fits(n), ResetWhen # "any"
  PROVE  Spec => KeepsPortContract
<1>1. Init => PairInv(n) /\ PortInv /\ gacOut = Port!Idle
  <2>1. Init => PairInv(n)
    BY PairHolds
  <2>2. Init => gacOut = Idle /\ gacState = "IDLE"
    BY DEF Init, GacInit
  <2>3. Init => PortInv /\ gacOut = Port!Idle
    BY <2>2 DEF PortInv, Port!InPacket, Idle, Port!Idle
  <2>4. QED
    BY <2>1, <2>3
<1>2. PairInv(n) /\ PortInv /\ [Next]_vars => (PairInv(n) /\ PortInv)' /\ PortStep
  <2>1. ASSUME PairInv(n), PortInv, UNCHANGED vars
        PROVE  PairInv(n)' /\ PortInv' /\ PortStep
    <3>1. UNCHANGED <<gacOut, gacState, gacVRd, gacFifo>>
      BY <2>1 DEF vars, gacVars
    <3>2. PortInv' /\ PortStep
      BY <2>1, <3>1 DEF PortInv, PortStep, GacWord
    <3>3. QED
      BY <2>1, <3>2, PairStays
  <2>2. QED
    BY <2>1, PairClock, PortSteps
<1>3. QED
  BY <1>1, <1>2, PTL DEF Spec, KeepsPortContract, Port!PortSpec, PortStep
-----------------------------------------------------------------------------
(***************************************************************************)
(* What scm counts.  From the third word of a packet on gpp knows its      *)
(* Ethernet type, from the fourth its IP protocol, from the fifth its      *)
(* protocol type, and the metadata leave with the sixth or later.          *)
(***************************************************************************)
HeadersRead ==
  /\ pin.seq \in 1 .. 4 => gppStep = pin.seq - 1
  /\ pin.seq >= 3 => gppEth = kinds[pin.pkt].eth
  /\ pin.seq >= 4 => gppProto = kinds[pin.pkt].proto
  /\ pin.seq >= 5 /\ kinds[pin.pkt].eth # "other" => gppPst = OwnPst(kinds[pin.pkt])

\* Metadata bear the protocol type of their packet, where gpp knows it.
PstOf(ks, m) ==
  /\ ks[m.pkt].dmid # 1 => m.pst = "raw"
  /\ ks[m.pkt].dmid = 1 /\ ks[m.pkt].eth # "other" => m.pst = OwnPst(ks[m.pkt])

Typed ==
  /\ gppMdOut.wr => PstOf(kinds, gppMdOut)
  /\ gkeMdDly.wr => PstOf(kinds, gkeMdDly)
  /\ gkeMdOut.wr => PstOf(kinds, gkeMdOut)
  /\ \A i \in 1 .. Len(gmeMds) : PstOf(kinds, gmeMds[i])
  /\ gmeMdOut.wr => PstOf(kinds, gmeMdOut)

\* The packets whose metadata scm has seen.
Ahead == No(gmeMdOut) \cup Nos(gmeMds) \cup Coming
Seen == {p \in Past : Served(kinds[p])} \ Ahead

\* Those it must have counted, and those it may have.
MustCount == {p \in Seen : Counted(kinds[p])}
MayCount == {p \in Seen : Counted(kinds[p]) \/ Unknown(kinds[p])}

CountInv ==
  /\ ResetWhen = "never" => ~statReset
  /\ ~started => scmPkts = 0
  /\ started /\ ResetWhen = "never" /\ protoType # "raw" =>
       Cardinality(MustCount) <= scmPkts /\ scmPkts <= Cardinality(MayCount)


LEMMA HeadersKept ==
  ASSUME TypeOK, Port1, HeadersRead, PinContinue \/ PinHead \/ PinPause,
         GppClock(pin, PinValid, KindOf(pin.pkt))
  PROVE  HeadersRead'
<1> DEFINE k == kinds[pin.pkt]
           s == pin.seq
<1>1. CASE InPacket(pin)
  <2>1. /\ pin.wr /\ kinds' = kinds /\ pin'.pkt = pin.pkt /\ pin'.seq = s + 1
        /\ KindOf(pin.pkt) = k /\ k \in AllKinds /\ s \in Nat
        /\ (pin.flag = "head") = (s = 0)
    <3>1. pin.wr
      BY <1>1 DEF InPacket
    <3>2. QED
      BY <1>1, <3>1, PortMoves, PinType, PinKind, Zenon
  <2>2. /\ gppStep' = StepNow(pin)
        /\ gppEth' = IF StepNow(pin) = 2 THEN k.eth ELSE gppEth
        /\ gppProto' = IF StepNow(pin) = 3 THEN k.proto ELSE gppProto
    BY <2>1 DEF GppClock, GppParse
  <2>3. /\ s \in 1 .. 4 => gppStep = s - 1
        /\ s >= 3 => gppEth = k.eth
        /\ s >= 4 => gppProto = k.proto
    BY DEF HeadersRead
  <2> HIDE DEF k, s
  <2>4. s \in 0 .. 3 => StepNow(pin) = s
    <3>1. CASE s = 0
      BY <2>1, <3>1 DEF StepNow
    <3>2. CASE s \in 1 .. 3
      <4>1. pin.flag # "head" /\ gppStep = s - 1
        BY <2>1, <2>3, <3>2
      <4>2. StepNow(pin) = (gppStep + 1) % 256
        BY <2>1, <4>1 DEF StepNow
      <4>3. QED
        BY <3>2, <4>1, <4>2
    <3>3. QED
      BY <3>1, <3>2
  <2>5. s + 1 \in 1 .. 4 => gppStep' = (s + 1) - 1
    BY <2>1, <2>2, <2>4
  <2>6. s + 1 >= 3 => gppEth' = k.eth
    <3>1. CASE s = 2
      BY <2>2, <2>4, <3>1
    <3>2. CASE s >= 3
      BY <2>2, <2>3, <3>2
    <3>3. QED
      BY <2>1, <3>1, <3>2
  <2>7. s + 1 >= 4 => gppProto' = k.proto
    <3>1. CASE s = 3
      BY <2>2, <2>4, <3>1
    <3>2. CASE s >= 4
      BY <2>2, <2>3, <3>2
    <3>3. QED
      BY <2>1, <3>1, <3>2
  <2>8. s + 1 >= 5 /\ k.eth # "other" => gppPst' = OwnPst(k)
    <3>1. SUFFICES ASSUME s + 1 >= 5, k.eth # "other" PROVE gppPst' = OwnPst(k)
      OBVIOUS
    <3>2. gppEth = k.eth /\ gppProto = k.proto
      BY <2>1, <2>3, <3>1
    <3>3. k.eth \in {"ip", "arp", "vlan"}
      BY <2>1, <3>1, KindType DEF EthTypes
    <3>4. gppPst' = CASE gppEth = "ip" ->
                           IF gppProto \in {"tcp", "udp"} THEN gppProto ELSE "ip"
                      [] gppEth \in {"arp", "vlan"} -> gppEth
                      [] OTHER -> gppPst
      BY DEF GppClock, GppProtocol
    <3>5. QED
      BY <3>2, <3>3, <3>4 DEF OwnPst
  <2>9. pin'.seq = s + 1 /\ kinds'[pin'.pkt] = k
    BY <2>1 DEF k
  <2>10. QED
    BY <2>5, <2>6, <2>7, <2>8, <2>9 DEF HeadersRead
<1>2. CASE ~InPacket(pin)
  <2>1. pin'.seq = 0
    BY <1>2, PortMoves, Zenon
  <2>2. QED
    BY <2>1 DEF HeadersRead
<1>3. QED
  BY <1>1, <1>2

\* A block that hands on metadata keeps the type.
LEMMA PstStays ==
  ASSUME TypeOK, PinContinue \/ PinHead \/ PinPause, NEW m, m.pkt \in Pkts,
         PstOf(kinds, m), NEW n, n.pkt = m.pkt, n.pst = m.pst
  PROVE  PstOf(kinds', n)
<1>1. kinds'[n.pkt] = kinds[m.pkt]
  BY KindsGrow
<1>2. QED
  BY <1>1 DEF PstOf

LEMMA TypedKept ==
  ASSUME FrontInv, HeadersRead, Typed, PinContinue \/ PinHead \/ PinPause,
         NEW alf, Hardware(alf)
  PROVE  Typed'
<1>1. /\ GppClock(pin, PinValid, KindOf(pin.pkt)) /\ GkeClock(gppMdOut)
      /\ GmeClock(gkeKeyOut, gkeMdOut, answer)
  BY DEF Hardware
<1>2. TypeOK /\ Port1 /\ Parsing /\ Metadata /\ Joining /\ Rules
  BY DEF FrontInv
<1>3. ASSUME NEW m, NEW mid, MdUnmatched(kinds, m, mid) PROVE m.pkt \in Pkts
  BY <1>3 DEF MdUnmatched, MdOf, Pkts
<1>4. gppMdOut'.wr => PstOf(kinds', gppMdOut')
  <2>1. SUFFICES ASSUME gppMdOut'.wr PROVE PstOf(kinds', gppMdOut')
    OBVIOUS
  <2>2. pin.wr /\ pin.seq = LastNo(pin.pkt) /\ gppMdOut'.pkt = pin.pkt
    BY <1>1, <1>2, <2>1, GppReads
  <2>3. LastNo(pin.pkt) >= 5 /\ LastNo(pin.pkt) \in Nat /\ pin.pkt \in Pkts
    BY <1>2, <2>2, PinType
  <2>4. pin.seq >= 5 /\ pin.seq # 0
    BY <2>2, <2>3
  <2>5. /\ gppMd.dmid = kinds[pin.pkt].dmid
        /\ kinds[pin.pkt].eth # "other" => gppPst = OwnPst(kinds[pin.pkt])
    BY <1>2, <2>4 DEF Parsing, HeadersRead
  <2>6. gppMdOut'.pst = IF gppMd.dmid = 1 THEN gppPst ELSE "raw"
    BY <1>1 DEF GppClock, GppMetadata, MdNow
  <2>7. kinds'[pin.pkt] = kinds[pin.pkt]
    BY <1>2, <2>3, KindsGrow
  <2>8. QED
    BY <2>2, <2>5, <2>6, <2>7 DEF PstOf
<1>5. gkeMdDly'.wr => PstOf(kinds', gkeMdDly')
  <2>1. gkeMdDly' = gppMdOut
    BY <1>1 DEF GkeClock, GkeMetadata
  <2>2. gppMdOut.wr => PstOf(kinds, gppMdOut) /\ gppMdOut.pkt \in Pkts
    BY <1>2, <1>3 DEF Typed, Metadata, Read
  <2>3. QED
    BY <1>2, <2>1, <2>2, PstStays
<1>6. gkeMdOut'.wr => PstOf(kinds', gkeMdOut')
  <2>1. CASE gkeMdDly.wr
    <3>1. PstOf(kinds, gkeMdDly) /\ gkeMdDly.pkt \in Pkts /\ gkeMdDly \in Md
      BY <1>2, <1>3, <2>1 DEF Typed, Metadata, Read, TypeOK, GkeTypeOK
    <3>2. gkeMdOut' \in {[gkeMdDly EXCEPT !.dmid = 3], gkeMdDly}
      BY <1>1, <2>1 DEF GkeClock, GkeMetadata
    <3>3. gkeMdOut'.pkt = gkeMdDly.pkt /\ gkeMdOut'.pst = gkeMdDly.pst
      BY <3>1, <3>2 DEF Md
    <3>4. QED
      BY <1>2, <3>1, <3>3, PstStays
  <2>2. CASE ~gkeMdDly.wr
    BY <1>1, <2>2 DEF GkeClock, GkeMetadata, NoMd
  <2>3. QED
    BY <2>1, <2>2
<1>7. \A i \in 1 .. Len(gmeMds) : gmeMds[i].pkt \in Pkts /\ PstOf(kinds, gmeMds[i])
  BY <1>2, <1>3 DEF Typed, Metadata, Keyed
<1>8. \A i \in 1 .. Len(gmeMds') : PstOf(kinds', gmeMds'[i])
  <2> DEFINE T == {m \in Md : PstOf(kinds', m)}
  <2>1. /\ gmeMds \in Seq(Md) /\ gkeMdOut \in Md
        /\ gmeRd \in BOOLEAN /\ gkeMdOut.wr \in BOOLEAN
    BY <1>2 DEF TypeOK, GmeTypeOK, GkeTypeOK, Md
  <2>2. gkeMdOut.wr => gkeMdOut \in Md /\ gkeMdOut \in T
    <3>1. gkeMdOut.wr => gkeMdOut.pkt \in Pkts /\ PstOf(kinds, gkeMdOut)
      BY <1>2, <1>3 DEF Typed, Metadata, Keyed
    <3>2. QED
      BY <1>2, <2>1, <3>1, PstStays
  <2>3. \A i \in 1 .. Len(gmeMds) : gmeMds[i] \in T
    <3>1. SUFFICES ASSUME NEW i \in 1 .. Len(gmeMds) PROVE gmeMds[i] \in T
      OBVIOUS
    <3>2. PstOf(kinds', gmeMds[i])
      BY <1>2, <1>7, PstStays
    <3>3. QED
      BY <2>1, <3>2
  <2>4. gmeMds' = FifoNext(gmeMds, gmeRd, gkeMdOut.wr, gkeMdOut, MdDepth)
    BY <1>1 DEF GmeClock
  <2>5. ASSUME NEW m \in T PROVE PstOf(kinds', m)
    BY <2>5
  <2> HIDE DEF T
  <2>6. \A i \in 1 .. Len(gmeMds') : gmeMds'[i] \in T
    BY <2>1, <2>2, <2>3, <2>4, FifoAll
  <2>7. QED
    BY <2>5, <2>6
<1>9. gmeMdOut'.wr => PstOf(kinds', gmeMdOut')
  <2>1. CASE gmeState = "data"
    <3>1. gmeMds # <<>> /\ gmeMds \in Seq(Md)
      BY <1>2, <2>1 DEF Joining, TypeOK, GmeTypeOK
    <3>2. GmeHead = gmeMds[1] /\ gmeMds[1] \in Md /\ 1 \in 1 .. Len(gmeMds)
      BY <3>1, EmptySeq DEF GmeHead, Front
    <3>3. gmeMdOut' = GmeJoined
      BY <1>1, <2>1 DEF GmeClock, GmeWait, GmeSend
    <3>4. gmeMdOut'.pkt = gmeMds[1].pkt /\ gmeMdOut'.pst = gmeMds[1].pst
      BY <3>2, <3>3 DEF GmeJoined, Md
    <3>5. QED
      BY <1>2, <1>7, <3>2, <3>4, PstStays
  <2>2. CASE gmeState # "data"
    BY <1>1, <2>2 DEF GmeClock, GmeWait, GmeSend, NoMd
  <2>3. QED
    BY <2>1, <2>2
<1>10. QED
  BY <1>4, <1>5, <1>6, <1>8, <1>9 DEF Typed


\* In every clock scm sees the metadata gme sends, once.
LEMMA SeenNext ==
  ASSUME FrontInv, ChainInv, PinContinue \/ PinHead \/ PinPause,
         GppClock(pin, PinValid, KindOf(pin.pkt)), GkeClock(gppMdOut),
         GmeClock(gkeKeyOut, gkeMdOut, answer),
         gkeMdOut.wr => Len(gmeMds) < MdDepth
  PROVE  /\ Seen' = Seen \cup No(gmeMdOut) /\ Seen \cap No(gmeMdOut) = {}
         /\ Seen \subseteq Pkts /\ No(gmeMdOut) \subseteq Pkts
<1> DEFINE O == No(gmeMdOut)
           M == Nos(gmeMds)
           K == No(gkeMdOut)
           C == No(gkeMdDly) \cup No(gppMdOut)
           N == Whole
           E == GmeSent
           P == {p \in Past : Served(kinds[p])}
<1>1. TypeOK /\ Port1 /\ Parsing
  BY DEF FrontInv
<1>2. /\ Past' = Past \cup (IF pin.wr /\ pin.seq = LastNo(pin.pkt)
                            THEN {pin.pkt} ELSE {})
      /\ Past \subseteq Pkts
      /\ pin.wr => pin.pkt = Len(kinds) /\ \A p \in Past : p < pin.pkt
  BY <1>1, PastNext
<1>3. Coming = K \cup C /\ Ahead = O \cup M \cup (K \cup C)
  BY DEF Coming, Ahead
<1>4. Seen = P \ (O \cup M \cup (K \cup C))
  BY <1>3 DEF Seen
<1>5. O \subseteq P
  <2>1. O \subseteq Chain
    BY DEF Chain
  <2>2. QED
    BY <2>1 DEF ChainInv, ChainIs
<1>6. Pkts \subseteq Nat /\ P \subseteq Pkts
  <2>1. Len(kinds) \in Nat
    BY <1>1 DEF TypeOK
  <2>2. Pkts \subseteq Nat
    BY <2>1 DEF Pkts
  <2>3. P \subseteq Past
    OBVIOUS
  <2>4. QED
    BY <1>2, <2>2, <2>3
<1>7. O \cap (M \cup (K \cup C)) = {}
  <2>1. Below(O, M \cup (K \cup C))
    BY <1>3 DEF ChainInv, MdOrder
  <2>2. \A o \in O : o \in Nat
    BY <1>5, <1>6
  <2>3. \A o \in O : ~(o < o)
    BY <2>2
  <2>4. QED
    BY <2>1, <2>3 DEF Below
<1>8. /\ No(gmeMdOut') = E /\ No(gkeMdOut') = No(gkeMdDly)
      /\ No(gkeMdDly') = No(gppMdOut) /\ No(gppMdOut') = N
  BY <1>1, GppHands, GkeHands, GmeHands
<1>9. Nos(gmeMds') = (M \ E) \cup K /\ E \subseteq M
  BY GmeQueue DEF ChainInv
<1>10. Ahead' = M \cup K \cup C \cup N
  <2>1. Ahead' = No(gmeMdOut') \cup Nos(gmeMds') \cup
                   (No(gkeMdOut') \cup No(gkeMdDly') \cup No(gppMdOut'))
    BY DEF Ahead, Coming
  <2> HIDE DEF M, E, K, N
  <2>2. QED
    BY <1>8, <1>9, <2>1
<1>11. {p \in Past' : Served(kinds'[p])} = P \cup N /\ P \cap N = {}
  <2>1. \A p \in Pkts : kinds'[p] = kinds[p]
    BY <1>1, KindsGrow
  <2>2. pin.wr => pin.pkt \in Pkts /\ pin.pkt \notin Past
    <3>1. pin.wr => pin.pkt \in Pkts /\ pin.pkt \in Nat
      BY <1>1, PinType DEF Pkts
    <3>2. QED
      BY <1>2, <3>1
  <2>3. \A p \in Past : Served(kinds'[p]) <=> Served(kinds[p])
    BY <1>2, <2>1
  <2>4. CASE pin.wr /\ pin.seq = LastNo(pin.pkt)
    <3>1. Past' = Past \cup {pin.pkt}
      BY <1>2, <2>4
    <3>2. N = IF Served(kinds[pin.pkt]) THEN {pin.pkt} ELSE {}
      BY <2>4 DEF Whole
    <3>3. Served(kinds'[pin.pkt]) <=> Served(kinds[pin.pkt])
      BY <2>1, <2>2, <2>4
    <3> HIDE DEF N
    <3>4. QED
      BY <2>2, <2>3, <2>4, <3>1, <3>2, <3>3
  <2>5. CASE ~(pin.wr /\ pin.seq = LastNo(pin.pkt))
    <3>1. Past' = Past /\ N = {}
      BY <1>2, <2>5 DEF Whole
    <3>2. QED
      BY <2>3, <3>1
  <2>6. QED
    BY <2>4, <2>5
<1>12. Seen' = (P \cup N) \ (M \cup K \cup C \cup N)
  BY <1>10, <1>11 DEF Seen
<1> HIDE DEF O, M, K, C, N, E, P
<1>13. Seen' = Seen \cup O
  BY <1>4, <1>5, <1>7, <1>11, <1>12
<1>14. Seen \cap O = {} /\ Seen \subseteq Pkts /\ O \subseteq Pkts
  BY <1>4, <1>5, <1>6
<1>15. QED
  BY <1>13, <1>14 DEF O

\* A packet more, which is in the set or not.
LEMMA OneMore ==
  ASSUME NEW S, IsFiniteSet(S), NEW x, x \notin S, NEW b \in BOOLEAN,
         NEW T, T = IF b THEN S \cup {x} ELSE S
  PROVE  /\ IsFiniteSet(T) /\ Cardinality(T) = Cardinality(S) + One(b)
         /\ Cardinality(S) \in Nat
<1>1. Cardinality(S) \in Nat
  BY FS_CardinalityType
<1>2. CASE b
  BY <1>1, <1>2, FS_AddElement DEF One
<1>3. CASE ~b
  BY <1>1, <1>3 DEF One
<1>4. QED
  BY <1>2, <1>3

LEMMA SeenFinite ==
  ASSUME TypeOK, Seen \subseteq Pkts
  PROVE  IsFiniteSet(MustCount) /\ IsFiniteSet(MayCount)
<1>1. Len(kinds) \in Nat
  BY DEF TypeOK
<1>2. \A n \in Nat : IsFiniteSet(1 .. n)
  BY FS_Interval
<1>3. IsFiniteSet(Pkts)
  BY <1>1, <1>2 DEF Pkts
<1>4. MustCount \subseteq Pkts /\ MayCount \subseteq Pkts
  BY DEF MustCount, MayCount
<1>5. QED
  BY <1>3, <1>4, FS_Subset

\* What scm makes of the metadata of packet x.
LEMMA ScmCounts ==
  ASSUME FrontInv, Typed, ScmClock(gmeMdOut, started), ~statReset, gmeMdOut.wr,
         started, protoType # "raw"
  PROVE  /\ scmPkts' = scmPkts \/ scmPkts' = scmPkts + 1
         /\ Counted(kinds[gmeMdOut.pkt]) => scmPkts' = scmPkts + 1
         /\ ~Counted(kinds[gmeMdOut.pkt]) /\ ~Unknown(kinds[gmeMdOut.pkt]) =>
              scmPkts' = scmPkts
<1> DEFINE m == gmeMdOut
           k == kinds[gmeMdOut.pkt]
<1>1. /\ Served(k) /\ m.dmid = IF k.dmid = 1 THEN 7 ELSE k.dmid
  BY DEF FrontInv, Metadata, Joined, MdMatched, MdOf
<1>2. /\ k.dmid # 1 => m.pst = "raw"
      /\ k.dmid = 1 /\ k.eth # "other" => m.pst = OwnPst(k)
  BY DEF Typed, PstOf
<1>3. scmPkts' = IF m.dmid = 7 /\ protoType = m.pst THEN scmPkts + 1 ELSE scmPkts
  BY DEF ScmClock, ScmReset, ScmCount, ScmBypass, ScmNothing
<1>4. Counted(k) => m.dmid = 7 /\ protoType = m.pst
  BY <1>1, <1>2 DEF Counted, Known
<1>5. ~Counted(k) /\ ~Unknown(k) => ~(m.dmid = 7 /\ protoType = m.pst)
  BY <1>1, <1>2 DEF Counted, Known, Unknown
<1>6. QED
  BY <1>3, <1>4, <1>5

LEMMA CountNext ==
  ASSUME FrontInv, ChainInv, Typed, CountInv,
         PinContinue \/ PinHead \/ PinPause, StatReset,
         GppClock(pin, PinValid, KindOf(pin.pkt)), GkeClock(gppMdOut),
         GmeClock(gkeKeyOut, gkeMdOut, answer), ScmClock(gmeMdOut, started),
         gkeMdOut.wr => Len(gmeMds) < MdDepth, UNCHANGED <<started, protoType>>
  PROVE  CountInv'
<1>1. TypeOK
  BY DEF FrontInv
<1>2. /\ Seen' = Seen \cup No(gmeMdOut) /\ Seen \cap No(gmeMdOut) = {}
      /\ Seen \subseteq Pkts /\ No(gmeMdOut) \subseteq Pkts
  BY SeenNext
<1>3. \A p \in Pkts : kinds'[p] = kinds[p]
  BY <1>1, KindsGrow
<1>4. /\ MustCount' = {p \in Seen' : Counted(kinds[p])}
      /\ MayCount' = {p \in Seen' : Counted(kinds[p]) \/ Unknown(kinds[p])}
  <2>1. \A p \in Seen' : kinds'[p] = kinds[p]
    BY <1>2, <1>3
  <2>2. /\ MustCount' = {p \in Seen' : Known(kinds'[p]) /\ OwnPst(kinds'[p]) = protoType}
        /\ MayCount' = {p \in Seen' : \/ Known(kinds'[p]) /\ OwnPst(kinds'[p]) = protoType
                                      \/ Unknown(kinds'[p])}
    BY DEF MustCount, MayCount, Counted
  <2>3. QED
    BY <2>1, <2>2 DEF Counted
<1>5. ResetWhen = "never" => ~statReset'
  BY DEF StatReset
<1>6. ~started' => scmPkts' = 0
  BY DEF CountInv, ScmClock, ScmReset, ScmCount, ScmBypass, ScmNothing
<1>7. ASSUME started', ResetWhen = "never", protoType' # "raw"
      PROVE  Cardinality(MustCount') <= scmPkts' /\ scmPkts' <= Cardinality(MayCount')
  <2>1. /\ Cardinality(MustCount) <= scmPkts /\ scmPkts <= Cardinality(MayCount)
        /\ ~statReset /\ started /\ protoType # "raw"
    BY <1>7 DEF CountInv
  <2>2. scmPkts \in Nat /\ gmeMdOut.wr \in BOOLEAN
    BY <1>1 DEF TypeOK, ScmTypeOK, GmeTypeOK, Md
  <2>3. IsFiniteSet(MustCount) /\ IsFiniteSet(MayCount)
    BY <1>1, <1>2, SeenFinite
  <2>4. CASE ~gmeMdOut.wr
    <3>1. Seen' = Seen
      BY <1>2, <2>4 DEF No
    <3>2. MustCount' = MustCount /\ MayCount' = MayCount
      BY <1>4, <3>1 DEF MustCount, MayCount
    <3>3. scmPkts' = scmPkts
      BY <2>1, <2>4 DEF ScmClock, ScmReset, ScmCount, ScmBypass, ScmNothing
    <3>4. QED
      BY <2>1, <3>2, <3>3
  <2>5. CASE gmeMdOut.wr
    <3> DEFINE x == gmeMdOut.pkt
               k == kinds[x]
    <3>1. Seen' = Seen \cup {x} /\ x \notin Seen
      BY <1>2, <2>5 DEF No
    <3>2. PICK must \in BOOLEAN : must <=> Counted(k)
      <4>1. \/ TRUE <=> Counted(k)
            \/ FALSE <=> Counted(k)
        OBVIOUS
      <4>2. QED
        BY <4>1
    <3>3. PICK may \in BOOLEAN : may <=> Counted(k) \/ Unknown(k)
      <4>1. \/ TRUE <=> Counted(k) \/ Unknown(k)
            \/ FALSE <=> Counted(k) \/ Unknown(k)
        OBVIOUS
      <4>2. QED
        BY <4>1
    <3>4. MustCount' = IF must THEN MustCount \cup {x} ELSE MustCount
      BY <1>4, <3>1, <3>2 DEF MustCount
    <3>5. MayCount' = IF may THEN MayCount \cup {x} ELSE MayCount
      BY <1>4, <3>1, <3>3 DEF MayCount
    <3>6. x \notin MustCount /\ x \notin MayCount
      BY <3>1 DEF MustCount, MayCount
    <3>7. /\ Cardinality(MustCount') = Cardinality(MustCount) + One(must)
          /\ Cardinality(MayCount') = Cardinality(MayCount) + One(may)
          /\ Cardinality(MustCount) \in Nat /\ Cardinality(MayCount) \in Nat
      BY <2>3, <3>4, <3>5, <3>6, OneMore
    <3>8. /\ scmPkts' = scmPkts \/ scmPkts' = scmPkts + 1
          /\ must => scmPkts' = scmPkts + 1
          /\ ~may => scmPkts' = scmPkts
      BY <2>1, <2>5, <3>2, <3>3, ScmCounts
    <3>9. QED
      BY <2>1, <2>2, <3>7, <3>8 DEF One
  <2>6. QED
    BY <2>2, <2>4, <2>5
<1>8. QED
  BY <1>5, <1>6, <1>7 DEF CountInv


\* With nothing under way scm has seen every packet that is to be served.
LEMMA AllSeen ==
  ASSUME FrontInv, WordOrder, ChainInv, Waiting = {}
  PROVE  /\ MustCount = CountedPkts
         /\ MayCount = CountedPkts \cup UnknownPkts
<1>1. /\ TypeOK /\ Port1 /\ Len(kinds) \in Nat
  BY DEF FrontInv, TypeOK
<1>2. Past \subseteq Pkts /\ \A p \in Pkts : p \in Past \/ (pin.wr /\ p = pin.pkt)
  <2>1. pin.wr => pin.pkt = Len(kinds) /\ Len(kinds) >= 1
    BY <1>1, PinType DEF Pkts
  <2>2. CASE pin.wr
    BY <1>1, <2>1, <2>2 DEF Past, Pkts, One
  <2>3. CASE ~pin.wr
    BY <1>1, <2>3 DEF Past, Pkts, One
  <2>4. QED
    BY <2>2, <2>3
<1>3. Ahead = {}
  <2>1. Chain = {p \in Past : Served(kinds[p]) /\ p > gacHdr.pkt}
    BY DEF ChainInv, ChainIs
  <2>2. Chain \subseteq Waiting
    BY <1>2, <2>1 DEF Waiting, Pkts
  <2>3. Ahead \subseteq Chain
    BY DEF Ahead, Chain
  <2>4. QED
    BY <2>2, <2>3
<1>4. ASSUME NEW p \in Pkts, Served(kinds[p]) PROVE p \in Past
  <2>1. pin.wr => gacHdr.pkt < pin.pkt
    BY DEF WordOrder
  <2>2. ~(p > gacHdr.pkt)
    BY <1>4 DEF Waiting, Pkts
  <2>3. gacHdr.pkt \in Nat /\ p \in Nat
    BY <1>1, <1>4 DEF WordOrder, Pkts
  <2>4. QED
    BY <1>2, <1>4, <2>1, <2>2, <2>3
<1>5. Seen = {p \in Pkts : Served(kinds[p])}
  BY <1>2, <1>3, <1>4 DEF Seen
<1>6. \A k : (Counted(k) => Served(k)) /\ (Unknown(k) => Served(k))
  BY DEF Counted, Known, Unknown
<1>7. QED
  BY <1>5, <1>6 DEF MustCount, MayCount, CountedPkts, UnknownPkts, Pkts

LEMMA CountsNow ==
  ASSUME FrontInv, WordOrder, ChainInv, CountInv
  PROVE  CountsWhatPassed
<1>1. SUFFICES ASSUME started, Waiting = {}, ResetWhen = "never", protoType # "raw"
               PROVE  scmPkts - Cardinality(CountedPkts)
                        \in 0 .. Cardinality(UnknownPkts)
  BY DEF CountsWhatPassed, CountInv
<1>2. /\ Cardinality(CountedPkts) <= scmPkts
      /\ scmPkts <= Cardinality(CountedPkts \cup UnknownPkts)
  BY <1>1, AllSeen DEF CountInv
<1>3. IsFiniteSet(CountedPkts) /\ IsFiniteSet(UnknownPkts)
  <2>1. Len(kinds) \in Nat
    BY DEF FrontInv, TypeOK
  <2>2. \A n \in Nat : IsFiniteSet(1 .. n)
    BY FS_Interval
  <2>3. /\ CountedPkts \subseteq 1 .. Len(kinds) /\ UnknownPkts \subseteq 1 .. Len(kinds)
    BY DEF CountedPkts, UnknownPkts
  <2>4. QED
    BY <2>1, <2>2, <2>3, FS_Subset
<1>4. CountedPkts \cap UnknownPkts = {}
  BY DEF CountedPkts, UnknownPkts, Counted, Known, Unknown
<1>5. Cardinality(CountedPkts \cup UnknownPkts)
        = Cardinality(CountedPkts) + Cardinality(UnknownPkts)
  <2>1. Cardinality(CountedPkts \cup UnknownPkts)
          = Cardinality(CountedPkts) + Cardinality(UnknownPkts)
              - Cardinality(CountedPkts \cap UnknownPkts)
    BY <1>3, FS_Union
  <2>2. Cardinality({}) = 0
    BY FS_EmptySet
  <2>3. Cardinality(CountedPkts) \in Nat /\ Cardinality(UnknownPkts) \in Nat
    BY <1>3, FS_CardinalityType
  <2>4. Cardinality(CountedPkts \cap UnknownPkts) = 0
    BY <1>4, <2>2
  <2>5. QED
    BY <2>1, <2>3, <2>4
<1>6. /\ Cardinality(CountedPkts) \in Nat /\ Cardinality(UnknownPkts) \in Nat
      /\ scmPkts \in Nat
  BY <1>3, FS_CardinalityType DEF FrontInv, TypeOK, ScmTypeOK
<1>7. QED
  BY <1>2, <1>5, <1>6

\* Words, metadata and what was counted.
Counting == HeadersRead /\ Typed /\ CountInv

LEMMA CountHolds ==
  ASSUME NEW n \in Nat, Init
  PROVE  PairInv(n) /\ Counting
<1>1. PairInv(n)
  BY PairHolds
<1>2. /\ pin = Idle /\ gmeMds = <<>> /\ kinds = <<>> /\ scmPkts = 0
      /\ gppMdOut = NoMd /\ gkeMdDly = NoMd /\ gkeMdOut = NoMd /\ gmeMdOut = NoMd
      /\ statReset = FALSE
  BY DEF Init, GppInit, GkeInit, GmeInit, ScmInit
<1>3. HeadersRead
  BY <1>2 DEF HeadersRead, Idle
<1>4. Typed
  BY <1>2 DEF Typed, NoMd
<1>5. MustCount = {} /\ MayCount = {}
  <2>1. Len(kinds) = 0 /\ pin.wr = FALSE
    BY <1>2 DEF Idle
  <2>2. Past = {}
    BY <2>1 DEF Past, One
  <2>3. QED
    BY <2>2 DEF MustCount, MayCount, Seen
<1>6. CountInv
  <2>1. Cardinality({}) = 0
    BY FS_EmptySet
  <2>2. QED
    BY <1>2, <1>5, <2>1 DEF CountInv
<1>7. QED
  BY <1>1, <1>3, <1>4, <1>6 DEF Counting

LEMMA CountStep ==
  ASSUME NEW n \in Nat, Fits(n), ResetWhen # "any", PairInv(n), Counting, [Next]_vars
  PROVE  PairInv(n)' /\ Counting'
<1>1. CASE Next
  <2>1. PICK alf \in BOOLEAN, answers \in BOOLEAN : Clock(alf, answers) /\ StatReset
    BY <1>1 DEF Next
  <2>2. /\ PinContinue \/ PinHead \/ PinPause
        /\ Hardware(alf) /\ UNCHANGED <<started, protoType>> /\ StatReset
    BY <2>1 DEF Clock
  <2>3. /\ GppClock(pin, PinValid, KindOf(pin.pkt)) /\ GkeClock(gppMdOut)
        /\ GmeClock(gkeKeyOut, gkeMdOut, answer) /\ ScmClock(gmeMdOut, started)
    BY <2>2 DEF Hardware
  <2>4. FrontInv /\ TypeOK /\ Port1 /\ ChainInv
    BY DEF PairInv, GacInv, DcInv, FrontInv
  <2>5. PairInv(n)'
    BY <1>1, PairClock
  <2>6. gkeMdOut.wr => Len(gmeMds) < MdDepth
    BY RoomNow DEF NoOverflow
  <2>7. HeadersRead'
    BY <2>2, <2>3, <2>4, HeadersKept DEF Counting
  <2>8. Typed'
    BY <2>2, <2>4, TypedKept DEF Counting
  <2>9. CountInv'
    BY <2>2, <2>3, <2>4, <2>6, CountNext DEF Counting
  <2>10. QED
    BY <2>5, <2>7, <2>8, <2>9 DEF Counting
<1>2. CASE UNCHANGED vars
  <2>1. PairInv(n)'
    BY <1>2, PairStays
  <2>2. /\ UNCHANGED <<kinds, pin, gppStep, gppEth, gppProto, gppPst, gppMdOut>>
        /\ UNCHANGED <<gkeMdDly, gkeMdOut, gmeMds, gmeMdOut>>
        /\ UNCHANGED <<scmPkts, started, protoType, statReset>>
    BY <1>2 DEF vars, gppVars, gkeVars, gmeVars, scmVars, envVars
  <2>3. HeadersRead' /\ Typed'
    BY <2>2 DEF Counting, HeadersRead, Typed
  <2>4. MustCount' = MustCount /\ MayCount' = MayCount
    BY <2>2
    DEF MustCount, MayCount, Seen, Ahead, Past, Coming, No, Nos, Counted, Known
  <2>5. CountInv'
    BY <2>2, <2>4 DEF Counting, CountInv
  <2>6. QED
    BY <2>1, <2>3, <2>5 DEF Counting
<1>3. QED
  BY <1>1, <1>2

(***************************************************************************)
(* When the pipeline is empty scm has counted exactly the packets of the   *)
(* protocol type the test asks for, whatever else passed between them: the *)
(* type that goes with a packet's metadata is its own, although gpp        *)
(* computes it in registers that follow the words and lag behind them.     *)
(* Only packets of an unknown Ethernet type may count although they should *)
(* not, as their type is that of the packet before.                        *)
(***************************************************************************)
THEOREM CountsTheType ==
  ASSUME NEW n \in Nat, Fits(n), ResetWhen # "any"
  PROVE  Spec => []CountsWhatPassed
<1>1. Init => PairInv(n) /\ Counting
  BY CountHolds
<1>2. PairInv(n) /\ Counting /\ [Next]_vars => PairInv(n)' /\ Counting'
  BY CountStep
<1>3. PairInv(n) /\ Counting => CountsWhatPassed
  BY CountsNow DEF PairInv, GacInv, DcInv, Counting
<1>4. QED
  BY <1>1, <1>2, <1>3, PTL DEF Spec
-----------------------------------------------------------------------------
(***************************************************************************)
(* Keys and answers.  The matcher answers in the order of the keys, so the *)
(* r-th answer that gme has not taken, on the wires, in the matcher or     *)
(* still a key, is for the r-th packet in gme that waits for one.          *)
(***************************************************************************)

\* How many indices gme has not taken, and the r-th, where it is.
Answers ==
  Len(gmeIdxs) + One(answer.wr) + Len(lookups) + One(gmeKeyOut.wr)
Answered ==
  LET a == Len(gmeIdxs)
      b == a + One(answer.wr)
      c == b + Len(lookups)
  IN  [r \in 1 .. Answers |->
         IF r <= a THEN gmeIdxs[r]
         ELSE IF r <= b THEN answer.idx
         ELSE IF r <= c THEN MatcherIdx(lookups[r - b])
         ELSE MatcherIdx(gmeKeyOut.pkt)]

\* The packets in gme that wait for one.
Asks == {p \in Nos(gmeMds) : kinds[p].dmid = 1}

\* A key has the fields of its packet, if the type of the packet is known.
KeyFits ==
  /\ gkeMdDly.wr /\ gkeMdDly.dmid = 2 =>
       (gkeSwitch = "fields") = KnownPst(gkeMdDly)
  /\ gkeKeyOut.wr =>
       gkeKeyOut.pkt = IF KnownPst(gkeMdOut) THEN gkeMdOut.pkt ELSE 0

InTurn ==
  /\ Cardinality(Asks) = Answers
  /\ \A p \in Asks : Answered[Cardinality(Upto(Asks, p))] \in RulesOf(kinds[p])

\* Metadata behind the matcher have a rule and a type of their packet.
RuleOf(ks, m) ==
  /\ m.idx \in IF ks[m.pkt].dmid = 1 THEN RulesOf(ks[m.pkt]) ELSE {ks[m.pkt].idx}
  /\ PstOf(ks, m)
Ruled ==
  /\ gmeMdOut.wr => RuleOf(kinds, gmeMdOut)
  /\ scmMdOut.wr => RuleOf(kinds, scmMdOut)
  /\ \A i \in 1 .. Len(gacMds) : RuleOf(kinds, gacMds[i])

\* The action gac has looked up is that of the metadata it is about to take.
LookedUp ==
  /\ gacState = "LOOKUP" => gacAddr = GacMd.idx
  /\ gacState = "WAIT" => gacCore = Table[GacMd.idx]
  /\ gacState = "METADATA" => gacQ = Table[GacMd.idx]
  /\ gacState \in {"LOOKUP", "WAIT", "METADATA"} => gacMds # <<>> /\ GacMd.dmid = 4
  /\ gacState = "TRANS" /\ gacVRd => GacMd.dmid # 4
-----------------------------------------------------------------------------
(***************************************************************************)
(* Numbers in order: which place a number has in a set, and the number at  *)
(* a place.                                                                *)
(***************************************************************************)

LEMMA UptoFinite ==
  ASSUME NEW S \in SUBSET Nat, IsFiniteSet(S), NEW p
  PROVE  /\ IsFiniteSet(Upto(S, p)) /\ Cardinality(Upto(S, p)) \in Nat
         /\ Cardinality(Upto(S, p)) <= Cardinality(S) /\ Cardinality(S) \in Nat
<1>1. Upto(S, p) \in SUBSET S
  BY DEF Upto
<1>2. IsFiniteSet(Upto(S, p)) /\ Cardinality(Upto(S, p)) <= Cardinality(S)
  BY <1>1, FS_Subset
<1>3. QED
  BY <1>2, FS_CardinalityType

LEMMA Ranks ==
  ASSUME NEW S \in SUBSET Nat, IsFiniteSet(S)
  PROVE  /\ \A p \in S : Cardinality(Upto(S, p)) \in 1 .. Cardinality(S)
         /\ \A p, q \in S : p < q => Cardinality(Upto(S, p)) < Cardinality(Upto(S, q))
<1>1. ASSUME NEW p \in S PROVE Cardinality(Upto(S, p)) \in 1 .. Cardinality(S)
  <2>1. /\ IsFiniteSet(Upto(S, p)) /\ Cardinality(Upto(S, p)) \in Nat
        /\ Cardinality(Upto(S, p)) <= Cardinality(S) /\ Cardinality(S) \in Nat
    BY UptoFinite
  <2>2. p \in Upto(S, p)
    BY DEF Upto
  <2>3. Cardinality(Upto(S, p)) # 0
    BY <2>1, <2>2, FS_EmptySet
  <2>4. QED
    BY <2>1, <2>3
<1>2. ASSUME NEW p \in S, NEW q \in S, p < q
      PROVE  Cardinality(Upto(S, p)) < Cardinality(Upto(S, q))
  <2>1. /\ IsFiniteSet(Upto(S, q)) /\ Cardinality(Upto(S, q)) \in Nat
        /\ Cardinality(Upto(S, p)) \in Nat
    BY UptoFinite
  <2>2. Upto(S, p) \in SUBSET Upto(S, q)
    <3>1. ASSUME NEW x \in S, x <= p PROVE x <= q
      <4>1. x \in Nat /\ p \in Nat /\ q \in Nat
        OBVIOUS
      <4>2. QED
        BY <1>2, <3>1, <4>1
    <3>2. QED
      BY <3>1 DEF Upto
  <2>3. q \in Upto(S, q) /\ q \notin Upto(S, p)
    BY <1>2 DEF Upto
  <2>4. Upto(S, p) # Upto(S, q)
    BY <2>3
  <2>5. /\ Cardinality(Upto(S, p)) <= Cardinality(Upto(S, q))
        /\ Cardinality(Upto(S, q)) # Cardinality(Upto(S, p))
    BY <2>1, <2>2, <2>4, FS_Subset
  <2>6. QED
    BY <2>1, <2>5
<1>3. QED
  BY <1>1, <1>2

LEMMA NthIs ==
  ASSUME NEW S \in SUBSET Nat, IsFiniteSet(S), NEW j \in 1 .. Cardinality(S)
  PROVE  /\ Nth(S, j) \in S /\ Cardinality(Upto(S, Nth(S, j))) = j
         /\ \A p \in S : Cardinality(Upto(S, p)) = j => p = Nth(S, j)
<1> DEFINE c == Cardinality(S)
           f == [p \in S |-> Cardinality(Upto(S, p))]
<1>1. c \in Nat
  BY FS_CardinalityType
<1>2. /\ \A p \in S : f[p] \in 1 .. c
      /\ \A p, q \in S : p < q => f[p] < f[q]
  BY Ranks
<1>3. ASSUME NEW p \in S, NEW q \in S, f[p] = f[q] PROVE p = q
  <2>1. p \in Nat /\ q \in Nat /\ f[p] \in Int /\ f[q] \in Int
    BY <1>2
  <2>2. ~(p < q) /\ ~(q < p)
    BY <1>2, <1>3, <2>1
  <2>3. QED
    BY <2>1, <2>2
<1>4. f \in [S -> 1 .. c]
  BY <1>2
<1> HIDE DEF f
<1>5. f \in Injection(S, 1 .. c)
  BY <1>3, <1>4, Fun_IsInj
<1>6. IsFiniteSet(1 .. c) /\ Cardinality(1 .. c) = c
  <2>1. \A b \in Int : /\ IsFiniteSet(1 .. b)
                       /\ Cardinality(1 .. b) = IF 1 > b THEN 0 ELSE b - 1 + 1
    BY FS_Interval
  <2>2. QED
    BY <1>1, <2>1
<1>7. f \in Surjection(S, 1 .. c)
  BY <1>5, <1>6, FS_Injection
<1>8. \A i \in 1 .. c : \E p \in S : f[p] = i
  BY <1>7 DEF Surjection
<1>9. PICK p \in S : f[p] = j
  BY <1>8
<1>10. Cardinality(Upto(S, p)) = j
  BY <1>9 DEF f
<1>11. Nth(S, j) \in S /\ Cardinality(Upto(S, Nth(S, j))) = j
  BY <1>10 DEF Nth
<1>12. QED
  BY <1>3, <1>11 DEF f

\* The least number leaves.
LEMMA LeastOut ==
  ASSUME NEW S \in SUBSET Nat, IsFiniteSet(S), NEW m \in S, \A x \in S : x >= m
  PROVE  /\ IsFiniteSet(S \ {m}) /\ Cardinality(S \ {m}) = Cardinality(S) - 1
         /\ Cardinality(Upto(S, m)) = 1
         /\ \A p \in S \ {m} : Cardinality(Upto(S \ {m}, p)) = Cardinality(Upto(S, p)) - 1
<1>1. IsFiniteSet(S \ {m}) /\ Cardinality(S \ {m}) = Cardinality(S) - 1
  BY FS_RemoveElement
<1>2. Upto(S, m) = {m}
  <2>1. ASSUME NEW q \in S, q <= m PROVE q = m
    <3>1. q \in Nat /\ m \in Nat /\ q >= m
      OBVIOUS
    <3>2. QED
      BY <2>1, <3>1
  <2>2. m <= m
    OBVIOUS
  <2>3. QED
    BY <2>1, <2>2 DEF Upto
<1>3. Cardinality(Upto(S, m)) = 1
  BY <1>2, FS_Singleton
<1>4. ASSUME NEW p \in S \ {m}
      PROVE  Cardinality(Upto(S \ {m}, p)) = Cardinality(Upto(S, p)) - 1
  <2>1. Upto(S \ {m}, p) = Upto(S, p) \ {m} /\ m \in Upto(S, p)
    BY DEF Upto
  <2>2. IsFiniteSet(Upto(S, p))
    BY UptoFinite
  <2>3. Cardinality(Upto(S, p) \ {m}) = Cardinality(Upto(S, p)) - 1
    BY <2>1, <2>2, FS_RemoveElement
  <2>4. QED
    BY <2>1, <2>3
<1>5. QED
  BY <1>1, <1>3, <1>4

\* A larger number comes.
LEMMA LargestIn ==
  ASSUME NEW S \in SUBSET Nat, IsFiniteSet(S), NEW k \in Nat, \A x \in S : x < k
  PROVE  /\ IsFiniteSet(S \cup {k}) /\ Cardinality(S \cup {k}) = Cardinality(S) + 1
         /\ S \cup {k} \in SUBSET Nat
         /\ \A p \in S : Upto(S \cup {k}, p) = Upto(S, p)
         /\ Upto(S \cup {k}, k) = S \cup {k}
<1>1. k \notin S
  OBVIOUS
<1>2. IsFiniteSet(S \cup {k}) /\ Cardinality(S \cup {k}) = Cardinality(S) + 1
  BY <1>1, FS_AddElement
<1>3. \A p \in S : Upto(S \cup {k}, p) = Upto(S, p)
  BY DEF Upto
<1>4. Upto(S \cup {k}, k) = S \cup {k}
  <2>1. \A q \in S \cup {k} : q <= k
    <3>1. k <= k
      OBVIOUS
    <3>2. \A q \in S : q <= k
      OBVIOUS
    <3>3. QED
      BY <3>1, <3>2
  <2>2. QED
    BY <2>1 DEF Upto
<1>5. QED
  BY <1>2, <1>3, <1>4

LEMMA NthOut ==
  ASSUME NEW S \in SUBSET Nat, IsFiniteSet(S), NEW m \in S, \A x \in S : x >= m
  PROVE  /\ Nth(S, 1) = m
         /\ \A j \in 1 .. Cardinality(S) - 1 : Nth(S \ {m}, j) = Nth(S, j + 1)
<1>1. /\ IsFiniteSet(S \ {m}) /\ Cardinality(S \ {m}) = Cardinality(S) - 1
      /\ Cardinality(Upto(S, m)) = 1
      /\ \A p \in S \ {m} : Cardinality(Upto(S \ {m}, p)) = Cardinality(Upto(S, p)) - 1
  BY LeastOut
<1>2. Cardinality(S) \in Nat /\ 1 \in 1 .. Cardinality(S)
  <2>1. Cardinality(Upto(S, m)) \in 1 .. Cardinality(S) /\ Cardinality(S) \in Nat
    BY Ranks, FS_CardinalityType
  <2>2. QED
    BY <1>1, <2>1
<1>3. Nth(S, 1) = m
  BY <1>1, <1>2, NthIs
<1>4. ASSUME NEW j \in 1 .. Cardinality(S) - 1
      PROVE  Nth(S \ {m}, j) = Nth(S, j + 1)
  <2>1. j \in 1 .. Cardinality(S \ {m}) /\ j + 1 \in 1 .. Cardinality(S) /\ j + 1 # 1
    BY <1>1, <1>2
  <2> DEFINE p == Nth(S, j + 1)
  <2>2. p \in S /\ Cardinality(Upto(S, p)) = j + 1
    BY <2>1, NthIs
  <2>3. p \in S \ {m}
    BY <1>1, <2>1, <2>2
  <2> HIDE DEF p
  <2>4. Cardinality(Upto(S \ {m}, p)) = j
    BY <1>1, <2>2, <2>3
  <2>5. S \ {m} \in SUBSET Nat
    OBVIOUS
  <2>6. p = Nth(S \ {m}, j)
    BY <1>1, <2>1, <2>3, <2>4, <2>5, NthIs
  <2>7. QED
    BY <2>6 DEF p
<1>5. QED
  BY <1>3, <1>4

LEMMA NthIn ==
  ASSUME NEW S \in SUBSET Nat, IsFiniteSet(S), NEW k \in Nat, \A x \in S : x < k
  PROVE  /\ \A j \in 1 .. Cardinality(S) : Nth(S \cup {k}, j) = Nth(S, j)
         /\ Nth(S \cup {k}, Cardinality(S) + 1) = k
<1> DEFINE T == S \cup {k}
<1>1. /\ IsFiniteSet(T) /\ Cardinality(T) = Cardinality(S) + 1 /\ T \in SUBSET Nat
      /\ \A p \in S : Upto(T, p) = Upto(S, p)
      /\ Upto(T, k) = T /\ k \in T /\ S \subseteq T /\ Cardinality(S) \in Nat
  BY LargestIn, FS_CardinalityType
<1> HIDE DEF T
<1>2. ASSUME NEW j \in 1 .. Cardinality(S) PROVE Nth(T, j) = Nth(S, j)
  <2> DEFINE p == Nth(S, j)
  <2>1. p \in S /\ Cardinality(Upto(S, p)) = j
    BY NthIs
  <2> HIDE DEF p
  <2>2. p \in T /\ Cardinality(Upto(T, p)) = j
    BY <1>1, <2>1
  <2>3. j \in 1 .. Cardinality(T)
    BY <1>1
  <2>4. p = Nth(T, j)
    BY <1>1, <2>2, <2>3, NthIs
  <2>5. QED
    BY <2>4 DEF p
<1>3. Nth(T, Cardinality(S) + 1) = k
  <2>1. Cardinality(S) + 1 \in 1 .. Cardinality(T) /\ Cardinality(Upto(T, k)) = Cardinality(S) + 1
    BY <1>1
  <2>2. QED
    BY <1>1, <2>1, NthIs
<1>4. QED
  BY <1>2, <1>3 DEF T
-----------------------------------------------------------------------------
\* Where the entries of a FIFO are after a clock.
LEMMA FifoAt ==
  ASSUME NEW S, NEW q \in Seq(S), NEW rd \in BOOLEAN, NEW wr \in BOOLEAN, NEW d \in S,
         NEW depth \in Nat, rd => q # <<>>, wr => Len(q) < depth,
         NEW f, f = FifoNext(q, rd, wr, d, depth)
  PROVE  /\ Len(f) = Len(q) - One(rd) + One(wr)
         /\ \A r \in 1 .. Len(f) :
              f[r] = IF r + One(rd) <= Len(q) THEN q[r + One(rd)] ELSE d
<1> DEFINE p == IF rd THEN Tail(q) ELSE q
<1>1. /\ Len(q) \in Nat /\ p \in Seq(S) /\ Len(p) = Len(q) - One(rd)
      /\ \A r \in 1 .. Len(p) : p[r] = q[r + One(rd)]
  <2>1. CASE rd
    <3>1. q # <<>> /\ One(rd) = 1 /\ p = Tail(q)
      BY <2>1 DEF One
    <3>2. /\ Len(q) \in Nat /\ Len(q) # 0 /\ Tail(q) \in Seq(S)
          /\ Len(Tail(q)) = Len(q) - 1
          /\ \A r \in 1 .. Len(Tail(q)) : Tail(q)[r] = q[r + 1]
      BY <3>1, EmptySeq
    <3>3. QED
      BY <3>1, <3>2
  <2>2. CASE ~rd
    BY <2>2 DEF One
  <2>3. QED
    BY <2>1, <2>2
<1>2. f = IF wr THEN Append(p, d) ELSE p
  <2>1. (rd /\ q # <<>>) = rd /\ (wr /\ Len(q) < depth) = wr
    OBVIOUS
  <2>2. QED
    BY <2>1 DEF FifoNext
<1> HIDE DEF p
<1>3. One(rd) \in {0, 1}
  BY DEF One
<1>4. CASE wr
  <2>1. /\ f = Append(p, d) /\ One(wr) = 1 /\ d \in S
    BY <1>2, <1>4 DEF One
  <2>2. /\ Len(f) = Len(p) + 1 /\ f[Len(p) + 1] = d
        /\ \A r \in 1 .. Len(p) : f[r] = p[r]
    BY <1>1, <2>1, AppendIs
  <2>3. ASSUME NEW r \in 1 .. Len(f)
        PROVE  f[r] = IF r + One(rd) <= Len(q) THEN q[r + One(rd)] ELSE d
    <3>1. r \in 1 .. Len(p) \/ r = Len(p) + 1
      BY <1>1, <1>3, <2>2
    <3>2. CASE r \in 1 .. Len(p)
      BY <1>1, <1>3, <2>2, <3>2
    <3>3. CASE r = Len(p) + 1
      <4>1. ~(r + One(rd) <= Len(q))
        BY <1>1, <1>3, <3>3
      <4>2. QED
        BY <2>2, <3>3, <4>1
    <3>4. QED
      BY <3>1, <3>2, <3>3
  <2>4. QED
    BY <1>1, <1>3, <2>1, <2>2, <2>3
<1>5. CASE ~wr
  <2>1. f = p /\ One(wr) = 0
    BY <1>2, <1>5 DEF One
  <2>2. ASSUME NEW r \in 1 .. Len(f)
        PROVE  f[r] = IF r + One(rd) <= Len(q) THEN q[r + One(rd)] ELSE d
    BY <1>1, <1>3, <2>1
  <2>3. QED
    BY <1>1, <1>3, <2>1, <2>2
<1>6. QED
  BY <1>4, <1>5

\* The same of the matcher, which never is full.
AskedNext(q, rd, wr, d) ==
  LET p == IF wr THEN Append(q, d) ELSE q IN IF rd THEN Tail(p) ELSE p

LEMMA AskedAt ==
  ASSUME NEW S, NEW q \in Seq(S), NEW rd \in BOOLEAN, NEW wr \in BOOLEAN, NEW d \in S,
         rd => q # <<>>,
         NEW f, f = AskedNext(q, rd, wr, d)
  PROVE  /\ Len(f) = Len(q) - One(rd) + One(wr)
         /\ \A r \in 1 .. Len(f) :
              f[r] = IF r + One(rd) <= Len(q) THEN q[r + One(rd)] ELSE d
<1> DEFINE p == IF wr THEN Append(q, d) ELSE q
<1>1. /\ Len(q) \in Nat /\ p \in Seq(S) /\ Len(p) = Len(q) + One(wr)
      /\ \A r \in 1 .. Len(p) : p[r] = IF r <= Len(q) THEN q[r] ELSE d
  <2>1. CASE wr
    <3>1. One(wr) = 1 /\ p = Append(q, d)
      BY <2>1 DEF One
    <3>2. /\ Append(q, d) \in Seq(S) /\ Len(Append(q, d)) = Len(q) + 1
          /\ \A r \in 1 .. Len(q) + 1 :
               Append(q, d)[r] = IF r <= Len(q) THEN q[r] ELSE d
          /\ Len(q) \in Nat
      OBVIOUS
    <3>3. QED
      BY <3>1, <3>2
  <2>2. CASE ~wr
    BY <2>2 DEF One
  <2>3. QED
    BY <2>1, <2>2
<1>2. f = IF rd THEN Tail(p) ELSE p
  BY DEF AskedNext
<1> HIDE DEF p
<1>3. One(wr) \in {0, 1}
  BY DEF One
<1>4. CASE rd
  <2>1. q # <<>> /\ One(rd) = 1 /\ f = Tail(p) /\ Len(q) # 0
    BY <1>2, <1>4, EmptySeq DEF One
  <2>2. p \in Seq(S) /\ Len(p) \in Nat /\ Len(p) # 0
    BY <1>1, <1>3, <2>1
  <2>3. Len(Tail(p)) = Len(p) - 1 /\ \A r \in 1 .. Len(Tail(p)) : Tail(p)[r] = p[r + 1]
    BY <2>2, EmptySeq
  <2>4. ASSUME NEW r \in 1 .. Len(f)
        PROVE  f[r] = IF r + One(rd) <= Len(q) THEN q[r + One(rd)] ELSE d
    <3>1. r + 1 \in 1 .. Len(p) /\ r \in 1 .. Len(Tail(p))
      <4>1. f = Tail(p)
        BY <2>1
      <4>2. r \in 1 .. Len(Tail(p))
        BY <4>1
      <4>3. QED
        BY <2>2, <2>3, <4>2
    <3>2. QED
      BY <1>1, <2>1, <2>3, <3>1
  <2>5. QED
    BY <1>1, <1>3, <2>1, <2>3, <2>4
<1>5. CASE ~rd
  <2>1. One(rd) = 0 /\ f = p
    BY <1>2, <1>5 DEF One
  <2>2. ASSUME NEW r \in 1 .. Len(f)
        PROVE  f[r] = IF r + One(rd) <= Len(q) THEN q[r + One(rd)] ELSE d
    <3>1. r \in 1 .. Len(p) /\ r + One(rd) = r
      BY <2>1
    <3>2. f[r] = IF r <= Len(q) THEN q[r] ELSE d
      BY <1>1, <2>1, <3>1
    <3>3. QED
      BY <3>1, <3>2
  <2>3. QED
    BY <1>1, <1>3, <2>1, <2>2
<1>6. QED
  BY <1>4, <1>5

\* The answer to a key does not change when packets come.
IdxFor(ks, key) == IF key = 0 THEN MissIdx ELSE ks[key].idx

LEMMA MatcherSame ==
  ASSUME TypeOK, PinContinue \/ PinHead \/ PinPause, NEW key \in {0} \cup Pkts
  PROVE  IdxFor(kinds', key) = IdxFor(kinds, key)
<1>1. key \in Pkts => kinds'[key] = kinds[key]
  BY KindsGrow
<1>2. QED
  BY <1>1 DEF IdxFor

LEMMA AnswersMove ==
  ASSUME TypeOK, Keys, Joining, PinContinue \/ PinHead \/ PinPause,
         NEW answers \in BOOLEAN, Matcher(answers),
         GmeClock(gkeKeyOut, gkeMdOut, answer),
         answer.wr => Len(gmeIdxs) < MdDepth
  PROVE  /\ Answers \in Nat /\ One(gmeIdxRd) <= Answers
         /\ Answers' = Answers - One(gmeIdxRd) + One(gmeKeyOut'.wr)
         /\ \A r \in 1 .. Answers - One(gmeIdxRd) :
              Answered'[r] = Answered[r + One(gmeIdxRd)]
         /\ gmeKeyOut'.wr => Answered'[Answers'] = IdxFor(kinds, gkeKeyOut.pkt)
<1> DEFINE t == answers /\ lookups # <<>>
           a == Len(gmeIdxs)
           l == Len(lookups)
           e == One(gmeIdxRd)
           w == One(answer.wr)
           k == One(gmeKeyOut.wr)
           u == One(t)
           a1 == Len(gmeIdxs')
           l1 == Len(lookups')
           w1 == One(answer'.wr)
           k1 == One(gmeKeyOut'.wr)
<1>1. /\ gmeIdxs \in Seq(Nat) /\ gmeIdxRd \in BOOLEAN /\ MdDepth \in Nat
      /\ answer.wr \in BOOLEAN /\ answer.idx \in Nat
      /\ gmeKeyOut.wr \in BOOLEAN /\ gmeKeyOut.pkt \in {0} \cup Pkts
      /\ lookups \in Seq({0} \cup Pkts) /\ t \in BOOLEAN
      /\ gmeIdxRd => gmeIdxs # <<>>
      /\ gkeKeyOut.pkt \in {0} \cup Pkts
  BY PipeAssumption DEF TypeOK, GmeTypeOK, IdxBus, KeyBus, Keys, Joining
<1>2. gmeIdxs' = FifoNext(gmeIdxs, gmeIdxRd, answer.wr, answer.idx, MdDepth)
  BY DEF GmeClock
<1>3. /\ a1 = a - e + w
      /\ \A r \in 1 .. a1 :
           gmeIdxs'[r] = IF r + e <= a THEN gmeIdxs[r + e] ELSE answer.idx
  <2> DEFINE qq == gmeIdxs
             rr == gmeIdxRd
             ww == answer.wr
             dd == answer.idx
             ff == gmeIdxs'
             SS == Nat
  <2>1. /\ qq \in Seq(SS) /\ rr \in BOOLEAN /\ ww \in BOOLEAN /\ dd \in SS
        /\ (rr => qq # <<>>) /\ (ww => Len(qq) < MdDepth)
        /\ ff = FifoNext(qq, rr, ww, dd, MdDepth) /\ MdDepth \in Nat
    BY <1>1, <1>2
  <2> HIDE DEF qq, rr, ww, dd, ff, SS
  <2>2. /\ Len(ff) = Len(qq) - One(rr) + One(ww)
        /\ \A r \in 1 .. Len(ff) :
             ff[r] = IF r + One(rr) <= Len(qq) THEN qq[r + One(rr)] ELSE dd
    BY <2>1, FifoAt
  <2>3. QED
    BY <2>2 DEF qq, rr, ww, dd, ff
<1>4. /\ lookups' = IF t THEN Tail(IF gmeKeyOut.wr THEN Append(lookups, gmeKeyOut.pkt)
                                                   ELSE lookups)
                    ELSE IF gmeKeyOut.wr THEN Append(lookups, gmeKeyOut.pkt)
                                         ELSE lookups
      /\ t => answer' = [wr |-> TRUE, idx |-> IdxFor(kinds, Head(lookups))]
      /\ ~t => answer' = NoAnswer
  BY DEF Matcher, MatcherIdx, IdxFor
<1>5. t => lookups # <<>> /\ l # 0 /\ Head(lookups) = lookups[1]
  BY <1>1, EmptySeq
<1>6. /\ l1 = l - u + k
      /\ \A r \in 1 .. l1 :
           lookups'[r] = IF r + u <= l THEN lookups[r + u] ELSE gmeKeyOut.pkt
  <2> DEFINE qq == lookups
             ww == gmeKeyOut.wr
             dd == gmeKeyOut.pkt
             ff == lookups'
             SS == {0} \cup Pkts
  <2>1. /\ qq \in Seq(SS) /\ t \in BOOLEAN /\ ww \in BOOLEAN /\ dd \in SS
        /\ (t => qq # <<>>)
        /\ ff = AskedNext(qq, t, ww, dd)
    BY <1>1, <1>4, <1>5 DEF AskedNext
  <2> HIDE DEF qq, ww, dd, ff, SS, t
  <2>2. /\ Len(ff) = Len(qq) - One(t) + One(ww)
        /\ \A r \in 1 .. Len(ff) :
             ff[r] = IF r + One(t) <= Len(qq) THEN qq[r + One(t)] ELSE dd
    BY <2>1, AskedAt
  <2>3. QED
    BY <2>2 DEF qq, ww, dd, ff
<1>7. w1 = u /\ (t => answer'.idx = IdxFor(kinds, lookups[1]))
  <2>1. CASE t
    BY <1>4, <1>5, <2>1 DEF One
  <2>2. CASE ~t
    BY <1>4, <2>2 DEF One, NoAnswer
  <2>3. QED
    BY <2>1, <2>2
<1>8. /\ a \in Nat /\ l \in Nat /\ e \in {0, 1} /\ w \in {0, 1} /\ k \in {0, 1}
      /\ u \in {0, 1} /\ e <= a /\ u <= l /\ k1 \in {0, 1}
      /\ (w = 1) = answer.wr /\ (u = 1) = t /\ (gmeKeyOut'.wr => k1 = 1)
  <2>1. a \in Nat /\ l \in Nat /\ (gmeIdxRd => a # 0) /\ (t => l # 0)
    BY <1>1, <1>5, EmptySeq
  <2>2. QED
    BY <1>1, <2>1 DEF One
<1>9. \A i \in 1 .. l : lookups[i] \in {0} \cup Pkts
  BY <1>1
<1>10. \A key \in {0} \cup Pkts : IdxFor(kinds', key) = IdxFor(kinds, key)
  BY MatcherSame
<1>11. gmeKeyOut'.pkt = gkeKeyOut.pkt
  BY DEF GmeClock, GmeKey
<1>12. Answers = a + w + l + k /\ Answers' = a1 + w1 + l1 + k1
  BY DEF Answers
<1>13. \A r \in 1 .. Answers : Answered[r] =
         IF r <= a THEN gmeIdxs[r] ELSE IF r <= a + w THEN answer.idx
         ELSE IF r <= a + w + l THEN IdxFor(kinds, lookups[r - (a + w)])
         ELSE IdxFor(kinds, gmeKeyOut.pkt)
  BY DEF Answered, MatcherIdx, IdxFor
<1>14. \A r \in 1 .. Answers' : Answered'[r] =
         IF r <= a1 THEN gmeIdxs'[r] ELSE IF r <= a1 + w1 THEN answer'.idx
         ELSE IF r <= a1 + w1 + l1 THEN IdxFor(kinds', lookups'[r - (a1 + w1)])
         ELSE IdxFor(kinds', gmeKeyOut'.pkt)
  BY DEF Answered, MatcherIdx, IdxFor
<1> HIDE DEF a, l, e, w, k, u, a1, l1, w1, k1, t
<1>15. /\ Answers \in Nat /\ e <= Answers /\ Answers' = Answers - e + k1
       /\ a1 \in Nat /\ l1 \in Nat /\ w1 \in {0, 1}
  BY <1>3, <1>6, <1>7, <1>8, <1>12
<1>16. ASSUME NEW r \in 1 .. Answers - e
       PROVE  Answered'[r] = Answered[r + e]
  <2> DEFINE y == r + e
  <2>1. r \in 1 .. Answers' /\ y \in 1 .. Answers /\ r \in Nat /\ y \in Nat
    BY <1>8, <1>15
  <2>2. y = r + e
    OBVIOUS
  <2> HIDE DEF y
  <2>3. CASE r <= a1
    <3>1. Answered'[r] = IF y <= a THEN gmeIdxs[y] ELSE answer.idx
      BY <1>3, <1>8, <1>14, <2>1, <2>2, <2>3
    <3>2. ~(y <= a) => y <= a + w
      BY <1>3, <1>8, <2>1, <2>2, <2>3
    <3>3. QED
      BY <1>13, <2>1, <2>2, <3>1, <3>2
  <2>4. CASE ~(r <= a1) /\ r <= a1 + w1
    <3>1. w1 = 1 /\ u = 1 /\ r = a1 + 1
      BY <1>7, <1>15, <2>1, <2>4
    <3>2. y = a + w + 1 /\ 1 <= l
      BY <1>3, <1>8, <2>2, <3>1
    <3>3. Answered'[r] = IdxFor(kinds, lookups[1])
      <4>1. t
        BY <1>8, <3>1
      <4>2. Answered'[r] = answer'.idx
        BY <1>14, <2>1, <2>4
      <4>3. QED
        BY <1>7, <4>1, <4>2
    <3>4. /\ ~(y <= a) /\ ~(y <= a + w) /\ y <= a + w + l
          /\ y - (a + w) = 1
      BY <1>8, <3>2
    <3>5. Answered[y] = IdxFor(kinds, lookups[1])
      BY <1>13, <2>1, <3>4
    <3>6. QED
      BY <2>2, <3>3, <3>5
  <2>5. CASE ~(r <= a1) /\ ~(r <= a1 + w1)
    <3> DEFINE x == r - (a1 + w1)
               z == y - (a + w)
    <3>1. /\ r <= a1 + w1 + l1 => x \in 1 .. l1
          /\ x + u = z /\ x \in Nat
      BY <1>3, <1>6, <1>7, <1>8, <1>15, <2>1, <2>2, <2>5
    <3>2. /\ ~(y <= a) /\ ~(y <= a + w) /\ (y <= a + w + l <=> z <= l)
      BY <1>3, <1>7, <1>8, <1>15, <2>1, <2>2, <2>5
    <3>3. r <= a1 + w1 + l1
      BY <1>3, <1>6, <1>7, <1>8, <1>12, <1>15, <2>1
    <3>4. Answered'[r] = IdxFor(kinds', lookups'[x])
      BY <1>14, <2>1, <2>5, <3>3
    <3>5. Answered[y] = IF z <= l THEN IdxFor(kinds, lookups[z])
                                  ELSE IdxFor(kinds, gmeKeyOut.pkt)
      BY <1>13, <2>1, <3>2
    <3> HIDE DEF x, z
    <3>6. lookups'[x] = IF z <= l THEN lookups[z] ELSE gmeKeyOut.pkt
      BY <1>6, <3>1, <3>3
    <3>7. z <= l => z \in 1 .. l
      <4>1. r <= a1 + w1 + l1 => x >= 1 /\ x \in Nat
        BY <3>1
      <4>2. QED
        BY <1>8, <3>1, <3>3, <4>1
    <3>8. CASE z <= l
      <4>1. lookups[z] \in {0} \cup Pkts
        BY <1>9, <3>7, <3>8
      <4>2. QED
        BY <1>10, <2>2, <3>4, <3>5, <3>6, <3>8, <4>1
    <3>9. CASE ~(z <= l)
      BY <1>1, <1>10, <2>2, <3>4, <3>5, <3>6, <3>9
    <3>10. QED
      BY <3>8, <3>9
  <2>6. QED
    BY <2>3, <2>4, <2>5
<1>17. ASSUME gmeKeyOut'.wr PROVE Answered'[Answers'] = IdxFor(kinds, gkeKeyOut.pkt)
  <2>1. k1 = 1 /\ Answers' \in 1 .. Answers' /\ Answers' = a1 + w1 + l1 + 1
    BY <1>8, <1>12, <1>15, <1>17
  <2>2. /\ ~(Answers' <= a1) /\ ~(Answers' <= a1 + w1)
        /\ ~(Answers' <= a1 + w1 + l1)
    BY <1>15, <2>1
  <2>3. Answered'[Answers'] = IdxFor(kinds', gmeKeyOut'.pkt)
    BY <1>14, <2>1, <2>2
  <2>4. QED
    BY <1>1, <1>10, <1>11, <2>3
<1>18. e = One(gmeIdxRd) /\ k1 = One(gmeKeyOut'.wr)
  BY DEF e, k1
<1>19. QED
  BY <1>15, <1>16, <1>17, <1>18

\* The two together: the least number leaves, a larger one comes.
Moved(S, rd, m, wr, k) ==
  (IF rd THEN S \ {m} ELSE S) \cup (IF wr THEN {k} ELSE {})
RanksOf(S, e, T, wr, k) ==
  /\ Cardinality(T) = Cardinality(S) - e + One(wr)
  /\ \A p \in T :
       \/ wr /\ p = k /\ Cardinality(Upto(T, p)) = Cardinality(T)
       \/ /\ p \in S /\ Cardinality(Upto(T, p)) \in 1 .. Cardinality(S) - e
          /\ Cardinality(Upto(S, p)) = Cardinality(Upto(T, p)) + e

LEMMA RanksMove ==
  ASSUME NEW S \in SUBSET Nat, IsFiniteSet(S), NEW rd \in BOOLEAN, NEW wr \in BOOLEAN,
         NEW m, rd => m \in S /\ \A x \in S : x >= m,
         NEW k, wr => k \in Nat /\ \A x \in S : x < k,
         NEW T, T = Moved(S, rd, m, wr, k)
  PROVE  RanksOf(S, One(rd), T, wr, k)
<1> DEFINE A == IF rd THEN S \ {m} ELSE S
<1>1. /\ A \in SUBSET Nat /\ IsFiniteSet(A) /\ A \subseteq S
      /\ Cardinality(A) = Cardinality(S) - One(rd)
      /\ \A p \in A : Cardinality(Upto(S, p)) = Cardinality(Upto(A, p)) + One(rd)
  <2>1. Cardinality(S) \in Nat
    BY FS_CardinalityType
  <2>2. \A p \in S : Cardinality(Upto(S, p)) \in Nat
    BY UptoFinite
  <2>3. CASE rd
    <3>1. A = S \ {m} /\ One(rd) = 1 /\ m \in S /\ \A x \in S : x >= m
      BY <2>3 DEF One
    <3>2. /\ IsFiniteSet(S \ {m}) /\ Cardinality(S \ {m}) = Cardinality(S) - 1
          /\ \A p \in S \ {m} : Cardinality(Upto(S \ {m}, p)) = Cardinality(Upto(S, p)) - 1
      BY <3>1, LeastOut
    <3> HIDE DEF A
    <3>3. QED
      BY <2>2, <3>1, <3>2
  <2>4. CASE ~rd
    <3>1. A = S /\ One(rd) = 0
      BY <2>4 DEF One
    <3> HIDE DEF A
    <3>2. QED
      BY <2>1, <2>2, <3>1
  <2>5. QED
    BY <2>3, <2>4
<1>2. \A p \in A : Cardinality(Upto(A, p)) \in 1 .. Cardinality(A)
  BY <1>1, Ranks
<1>3. Cardinality(A) \in Nat
  BY <1>1, FS_CardinalityType
<1> HIDE DEF A
<1>4. CASE wr
  <2>1. T = A \cup {k} /\ One(wr) = 1 /\ k \in Nat /\ \A x \in A : x < k
    BY <1>1, <1>4 DEF A, One, Moved
  <2>2. /\ Cardinality(T) = Cardinality(A) + 1
        /\ \A p \in A : Upto(T, p) = Upto(A, p)
        /\ Upto(T, k) = T
    <3>1. /\ Cardinality(A \cup {k}) = Cardinality(A) + 1
          /\ \A p \in A : Upto(A \cup {k}, p) = Upto(A, p)
          /\ Upto(A \cup {k}, k) = A \cup {k}
      BY <1>1, <2>1, LargestIn
    <3>2. QED
      BY <2>1, <3>1
  <2>3. ASSUME NEW p \in A
        PROVE  /\ p \in S /\ Cardinality(Upto(T, p)) \in 1 .. Cardinality(S) - One(rd)
               /\ Cardinality(Upto(S, p)) = Cardinality(Upto(T, p)) + One(rd)
    BY <1>1, <1>2, <2>2
  <2>4. Cardinality(Upto(T, k)) = Cardinality(T)
    BY <2>2
  <2>5. QED
    BY <1>1, <1>4, <2>1, <2>2, <2>3, <2>4 DEF RanksOf
<1>5. CASE ~wr
  <2>1. T = A /\ One(wr) = 0
    BY <1>5 DEF A, One, Moved
  <2>2. QED
    BY <1>1, <1>2, <1>3, <1>5, <2>1 DEF RanksOf
<1>6. QED
  BY <1>4, <1>5

LEMMA KeyFitsNext ==
  ASSUME FrontInv, KeyFits, GkeClock(gppMdOut)
  PROVE  KeyFits'
<1>1. /\ gkeMdDly \in Md /\ gkeSwitch \in {"off", "zero", "fields"}
      /\ (gkeSwitch # "off") = (gkeMdDly.wr /\ gkeMdDly.dmid = 2)
      /\ gkeSwitch = "fields" => gkeFields = gkeMdDly.pkt
  BY DEF FrontInv, TypeOK, GkeTypeOK, Keys
<1>2. gkeMdDly'.wr /\ gkeMdDly'.dmid = 2 =>
        (gkeSwitch' = "fields") = KnownPst(gkeMdDly')
  <2>1. gkeMdDly' = gppMdOut
    BY DEF GkeClock, GkeMetadata
  <2>2. gppMdOut.wr /\ gppMdOut.dmid = 2 =>
          gkeSwitch' = IF KnownPst(gppMdOut) THEN "fields" ELSE "zero"
    BY DEF GkeClock, GkeFetch
  <2>3. QED
    BY <2>1, <2>2 DEF KnownPst
<1>3. ASSUME gkeKeyOut'.wr
      PROVE  gkeKeyOut'.pkt = IF KnownPst(gkeMdOut') THEN gkeMdOut'.pkt ELSE 0
  <2>1. gkeSwitch # "off"
    BY <1>1, <1>3 DEF GkeClock, GkeKey, NoKey
  <2>2. gkeMdDly.wr /\ gkeMdDly.dmid = 2
    BY <1>1, <2>1
  <2>3. gkeMdOut' = [gkeMdDly EXCEPT !.dmid = 3]
    BY <2>2 DEF GkeClock, GkeMetadata
  <2>4. gkeMdOut'.pkt = gkeMdDly.pkt /\ gkeMdOut'.pst = gkeMdDly.pst
    BY <1>1, <2>3 DEF Md
  <2>5. KnownPst(gkeMdOut') <=> KnownPst(gkeMdDly)
    BY <2>4 DEF KnownPst
  <2>6. (gkeSwitch = "fields") = KnownPst(gkeMdDly)
    BY <2>2 DEF KeyFits
  <2>7. CASE gkeSwitch = "fields"
    <3>1. gkeKeyOut'.pkt = gkeFields
      BY <2>7 DEF GkeClock, GkeKey
    <3>2. QED
      BY <1>1, <2>4, <2>5, <2>6, <2>7, <3>1
  <2>8. CASE gkeSwitch = "zero"
    <3>1. gkeKeyOut'.pkt = 0
      BY <2>8 DEF GkeClock, GkeKey
    <3>2. QED
      BY <2>5, <2>6, <2>8, <3>1
  <2>9. QED
    BY <1>1, <2>1, <2>7, <2>8
<1>4. QED
  BY <1>2, <1>3 DEF KeyFits

\* The packets that wait for an index, after a clock.
LEMMA AsksNext ==
  ASSUME FrontInv, ChainInv, PinContinue \/ PinHead \/ PinPause,
         GmeClock(gkeKeyOut, gkeMdOut, answer),
         gkeMdOut.wr => Len(gmeMds) < MdDepth
  PROVE  /\ Asks \in SUBSET Nat /\ Asks \subseteq Pkts /\ IsFiniteSet(Asks)
         /\ gmeIdxRd => /\ gmeMds[1].pkt \in Asks
                        /\ \A x \in Asks : x >= gmeMds[1].pkt
         /\ gmeKeyOut'.wr = (gkeMdOut.wr /\ gkeMdOut.dmid = 3)
         /\ gmeKeyOut'.wr => /\ gkeMdOut.pkt \in Pkts /\ kinds[gkeMdOut.pkt].dmid = 1
                             /\ \A x \in Asks : x < gkeMdOut.pkt
         /\ Asks' = Moved(Asks, gmeIdxRd, gmeMds[1].pkt, gmeKeyOut'.wr, gkeMdOut.pkt)
<1> DEFINE M == Nos(gmeMds)
           m == gmeMds[1].pkt
           k == gkeMdOut.pkt
<1>1. /\ TypeOK /\ Metadata /\ Joining /\ Len(kinds) \in Nat
      /\ gmeMds \in Seq(Md) /\ gkeMdOut \in Md /\ gmeIdxRd \in BOOLEAN
      /\ gkeMdOut.wr \in BOOLEAN /\ gkeKeyOut \in KeyBus
  BY DEF FrontInv, TypeOK, GmeTypeOK, GkeTypeOK, Md
<1>2. ASSUME NEW i \in 1 .. Len(gmeMds)
      PROVE  /\ gmeMds[i].pkt \in Pkts
             /\ (gmeMds[i].dmid = 3) = (kinds[gmeMds[i].pkt].dmid = 1)
  <2>1. MdUnmatched(kinds, gmeMds[i], 3)
    BY <1>1 DEF Metadata, Keyed
  <2>2. QED
    BY <1>1, <2>1, MdModules
<1>3. gkeMdOut.wr => k \in Pkts /\ (gkeMdOut.dmid = 3) = (kinds[k].dmid = 1)
  <2>1. gkeMdOut.wr => MdUnmatched(kinds, gkeMdOut, 3)
    BY <1>1 DEF Metadata, Keyed
  <2>2. QED
    BY <1>1, <2>1, MdModules
<1>4. M \subseteq Pkts /\ Pkts \subseteq Nat /\ IsFiniteSet(Pkts)
  <2>1. \A n \in Nat : IsFiniteSet(1 .. n)
    BY FS_Interval
  <2>2. QED
    BY <1>1, <1>2, <2>1 DEF Nos, Pkts
<1>5. Asks \in SUBSET Nat /\ Asks \subseteq Pkts /\ IsFiniteSet(Asks)
  <2>1. Asks \subseteq Pkts
    BY <1>4 DEF Asks
  <2>2. QED
    BY <1>4, <2>1, FS_Subset
<1>6. /\ Nos(gmeMds') = (M \ GmeSent) \cup No(gkeMdOut)
      /\ \A e \in GmeSent, x \in M : x >= e
  BY GmeQueue DEF ChainInv
<1>7. \A p \in Pkts : kinds'[p] = kinds[p]
  BY <1>1, KindsGrow
<1>8. gmeKeyOut'.wr = (gkeMdOut.wr /\ gkeMdOut.dmid = 3)
  <2>1. gkeKeyOut.wr = (gkeMdOut.wr /\ gkeMdOut.dmid = 3)
    BY DEF FrontInv, Keys
  <2>2. gmeKeyOut'.wr = (gkeKeyOut.wr /\ gkeMdOut.dmid = 3)
    BY DEF GmeClock, GmeKey
  <2>3. QED
    BY <2>1, <2>2, Zenon
<1>9. gmeKeyOut'.wr => k \in Pkts /\ kinds[k].dmid = 1 /\ \A x \in Asks : x < k
  <2>1. gkeMdOut.wr => \A x \in M : x < k
    BY DEF ChainInv, MdOrder, Below, Coming, No
  <2>2. QED
    BY <1>3, <1>8, <2>1 DEF Asks
<1>10. gmeRd => /\ gmeMds # <<>> /\ 1 \in 1 .. Len(gmeMds)
                /\ gmeIdxRd = (kinds[m].dmid = 1)
  <2>1. SUFFICES ASSUME gmeRd PROVE /\ gmeMds # <<>> /\ 1 \in 1 .. Len(gmeMds)
                                    /\ gmeIdxRd = (kinds[m].dmid = 1)
    OBVIOUS
  <2>2. /\ gmeState = "data" /\ gmeMds # <<>> /\ gmeIdxRd = gmeFlag
        /\ gmeFlag = (GmeHead.dmid = 3)
    BY <1>1, <2>1 DEF Joining, TypeOK, GmeTypeOK
  <2>3. 1 \in 1 .. Len(gmeMds) /\ GmeHead = gmeMds[1]
    BY <1>1, <2>2, EmptySeq DEF GmeHead, Front
  <2>4. (gmeMds[1].dmid = 3) = (kinds[m].dmid = 1)
    BY <1>2, <2>3
  <2>5. gmeIdxRd = (gmeMds[1].dmid = 3)
    BY <2>2, <2>3, Zenon
  <2>6. QED
    BY <2>2, <2>3, <2>4, <2>5, Zenon
<1>11. gmeIdxRd => gmeRd
  BY <1>1 DEF Joining
<1>12. gmeIdxRd => m \in Asks /\ \A x \in Asks : x >= m
  <2>1. gmeIdxRd => m \in M /\ kinds[m].dmid = 1 /\ GmeSent = {m}
    BY <1>10, <1>11 DEF Nos, GmeSent
  <2>2. QED
    BY <1>6, <2>1 DEF Asks
<1>13. Asks' = {p \in (M \ GmeSent) \cup No(gkeMdOut) : kinds[p].dmid = 1}
  <2>1. \A p \in (M \ GmeSent) \cup No(gkeMdOut) : kinds'[p] = kinds[p]
    BY <1>3, <1>4, <1>7 DEF No
  <2>2. Asks' = {p \in (M \ GmeSent) \cup No(gkeMdOut) : kinds'[p].dmid = 1}
    BY <1>6 DEF Asks
  <2>3. QED
    BY <2>1, <2>2
<1>14. {p \in M \ GmeSent : kinds[p].dmid = 1} = IF gmeIdxRd THEN Asks \ {m} ELSE Asks
  <2>1. CASE gmeRd
    BY <1>1, <1>10, <2>1 DEF GmeSent, Asks
  <2>2. CASE ~gmeRd
    BY <1>11, <2>2 DEF GmeSent, Asks
  <2>3. QED
    BY <2>1, <2>2
<1>15. {p \in No(gkeMdOut) : kinds[p].dmid = 1} = IF gmeKeyOut'.wr THEN {k} ELSE {}
  <2>1. CASE gkeMdOut.wr
    BY <1>3, <1>8, <2>1 DEF No
  <2>2. CASE ~gkeMdOut.wr
    BY <1>8, <2>2 DEF No
  <2>3. QED
    BY <2>1, <2>2
<1>16. Asks' = {p \in M \ GmeSent : kinds[p].dmid = 1}
                 \cup {p \in No(gkeMdOut) : kinds[p].dmid = 1}
  BY <1>13
<1>17. QED
  BY <1>5, <1>8, <1>9, <1>12, <1>14, <1>15, <1>16 DEF Moved

\* There is room for an answer: it is for a packet that waits in gme.
LEMMA IdxRoom ==
  ASSUME FrontInv, InTurn, Len(gmeMds) < MdDepth
  PROVE  answer.wr => Len(gmeIdxs) < MdDepth
<1> DEFINE n == Len(gmeMds)
           f == [i \in 1 .. n |-> gmeMds[i].pkt]
           M == Nos(gmeMds)
<1>1. /\ n \in Nat /\ Len(gmeIdxs) \in Nat /\ Len(lookups) \in Nat /\ MdDepth \in Nat
      /\ One(answer.wr) \in {0, 1} /\ One(gmeKeyOut.wr) \in {0, 1}
      /\ answer.wr => One(answer.wr) = 1
  BY PipeAssumption DEF FrontInv, TypeOK, GmeTypeOK, Keys, One
<1>2. f \in Surjection(1 .. n, M)
  <2>1. f \in [1 .. n -> M] /\ \A x \in M : \E i \in 1 .. n : f[i] = x
    BY DEF Nos
  <2> HIDE DEF f, M, n
  <2>2. QED
    BY <2>1 DEF Surjection
<1>3. IsFiniteSet(1 .. n) /\ Cardinality(1 .. n) = n
  <2>1. \A k \in Nat : IsFiniteSet(1 .. k) /\ Cardinality(1 .. k) = k
    BY FS_Interval
  <2>2. QED
    BY <1>1, <2>1
<1> HIDE DEF f, M, n
<1>4. IsFiniteSet(M) /\ Cardinality(M) <= n
  BY <1>2, <1>3, FS_Surjection
<1>5. Asks \subseteq M
  BY DEF Asks, M
<1>6. Cardinality(Asks) <= Cardinality(M) /\ Cardinality(M) \in Nat
  BY <1>4, <1>5, FS_Subset, FS_CardinalityType
<1>7. Cardinality(Asks) = Len(gmeIdxs) + One(answer.wr) + Len(lookups) + One(gmeKeyOut.wr)
  BY DEF InTurn, Answers
<1>8. n < MdDepth
  BY DEF n
<1>9. QED
  <2> DEFINE a == Len(gmeIdxs)
             w == One(answer.wr)
             l == Len(lookups)
             k == One(gmeKeyOut.wr)
             c == Cardinality(Asks)
             d == Cardinality(M)
  <2>1. /\ a \in Nat /\ w \in {0, 1} /\ l \in Nat /\ k \in {0, 1} /\ n \in Nat
        /\ c = a + w + l + k /\ c <= d /\ d \in Nat /\ d <= n /\ n < MdDepth
        /\ MdDepth \in Nat /\ (answer.wr => w = 1)
    BY <1>1, <1>4, <1>6, <1>7, <1>8
  <2> HIDE DEF a, w, l, k, c, d
  <2>2. w = 1 => a < MdDepth
    BY <2>1
  <2>3. QED
    BY <2>1, <2>2 DEF a

\* The key of a packet gets one of its rules.
LEMMA KeyRules ==
  ASSUME FrontInv, Typed, KeyFits, gkeMdOut.wr, gkeMdOut.dmid = 3,
         kinds[gkeMdOut.pkt].dmid = 1, gkeMdOut.pkt \in Pkts
  PROVE  IdxFor(kinds, gkeKeyOut.pkt) \in RulesOf(kinds[gkeMdOut.pkt])
<1> DEFINE p == gkeMdOut.pkt
           k == kinds[p]
<1>1. gkeKeyOut.wr
  BY DEF FrontInv, Keys
<1>2. gkeKeyOut.pkt = IF KnownPst(gkeMdOut) THEN p ELSE 0
  BY <1>1 DEF KeyFits
<1>3. k \in AllKinds /\ p # 0
  BY DEF FrontInv, TypeOK, Pkts
<1>4. k.eth \in EthTypes
  BY <1>3, KindType
<1>5. k.eth # "other" => gkeMdOut.pst = OwnPst(k)
  BY DEF Typed, PstOf
<1>6. IdxFor(kinds, gkeKeyOut.pkt) = IF KnownPst(gkeMdOut) THEN k.idx ELSE MissIdx
  BY <1>2, <1>3 DEF IdxFor
<1>7. CASE k.eth = "other"
  BY <1>6, <1>7 DEF RulesOf
<1>8. CASE k.eth = "vlan"
  <2>1. ~KnownPst(gkeMdOut)
    BY <1>5, <1>8 DEF KnownPst, OwnPst
  <2>2. QED
    BY <1>6, <1>8, <2>1 DEF RulesOf
<1>9. CASE k.eth \in {"ip", "arp"}
  <2>1. KnownPst(gkeMdOut)
    BY <1>5, <1>9 DEF KnownPst, OwnPst
  <2>2. RulesOf(k) = {k.idx}
    BY <1>9 DEF RulesOf
  <2>3. QED
    BY <1>6, <2>1, <2>2
<1>10. QED
  BY <1>4, <1>7, <1>8, <1>9 DEF EthTypes

LEMMA InTurnNext ==
  ASSUME FrontInv, ChainInv, Typed, KeyFits, InTurn,
         PinContinue \/ PinHead \/ PinPause,
         NEW answers \in BOOLEAN, Matcher(answers),
         GmeClock(gkeKeyOut, gkeMdOut, answer),
         Len(gmeMds) < MdDepth
  PROVE  InTurn'
<1> DEFINE e == One(gmeIdxRd)
           w == One(gmeKeyOut'.wr)
           m == gmeMds[1].pkt
           k == gkeMdOut.pkt
<1>1. TypeOK /\ Keys /\ Joining
  BY DEF FrontInv
<1>2. answer.wr => Len(gmeIdxs) < MdDepth
  BY IdxRoom
<1>3. /\ Answers \in Nat /\ e <= Answers /\ Answers' = Answers - e + w
      /\ \A r \in 1 .. Answers - e : Answered'[r] = Answered[r + e]
      /\ gmeKeyOut'.wr => Answered'[Answers'] = IdxFor(kinds, gkeKeyOut.pkt)
  BY <1>1, <1>2, AnswersMove
<1>4. /\ Asks \in SUBSET Nat /\ Asks \subseteq Pkts /\ IsFiniteSet(Asks)
      /\ gmeIdxRd => m \in Asks /\ \A x \in Asks : x >= m
      /\ gmeKeyOut'.wr = (gkeMdOut.wr /\ gkeMdOut.dmid = 3)
      /\ gmeKeyOut'.wr => /\ k \in Pkts /\ kinds[k].dmid = 1
                          /\ \A x \in Asks : x < k
      /\ Asks' = Moved(Asks, gmeIdxRd, m, gmeKeyOut'.wr, k)
  BY AsksNext
<1>5. \A p \in Pkts : kinds'[p] = kinds[p] /\ p \in Nat
  <2>1. Len(kinds) \in Nat
    BY <1>1 DEF TypeOK
  <2>2. QED
    BY <1>1, <2>1, KindsGrow DEF Pkts
<1>6. gmeIdxRd \in BOOLEAN /\ gmeKeyOut'.wr \in BOOLEAN
  <2>1. gkeMdOut.wr \in BOOLEAN /\ gmeIdxRd \in BOOLEAN
    BY <1>1 DEF TypeOK, GkeTypeOK, GmeTypeOK, Md
  <2>2. QED
    BY <1>4, <2>1
<1>7. Cardinality(Asks) = Answers
  BY DEF InTurn
<1>8. /\ Cardinality(Asks') = Cardinality(Asks) - e + w
      /\ \A p \in Asks' :
           \/ gmeKeyOut'.wr /\ p = k /\ Cardinality(Upto(Asks', p)) = Cardinality(Asks')
           \/ /\ p \in Asks /\ Cardinality(Upto(Asks', p)) \in 1 .. Cardinality(Asks) - e
              /\ Cardinality(Upto(Asks, p)) = Cardinality(Upto(Asks', p)) + e
  <2> DEFINE T == Asks'
             wr == gmeKeyOut'.wr
             rd == gmeIdxRd
  <2>1. /\ rd => m \in Asks /\ \A x \in Asks : x >= m
        /\ wr => k \in Nat /\ \A x \in Asks : x < k
        /\ T = Moved(Asks, rd, m, wr, k)
        /\ rd \in BOOLEAN /\ wr \in BOOLEAN
        /\ Asks \in SUBSET Nat /\ IsFiniteSet(Asks)
    BY <1>4, <1>5, <1>6
  <2> HIDE DEF T, wr, rd, m, k
  <2>2. RanksOf(Asks, One(rd), T, wr, k)
    BY <2>1, RanksMove
  <2>3. QED
    BY <2>2 DEF T, wr, rd, RanksOf
<1>9. Cardinality(Asks') = Answers'
  BY <1>3, <1>7, <1>8
<1>10. ASSUME NEW p \in Asks'
       PROVE  Answered'[Cardinality(Upto(Asks', p))] \in RulesOf(kinds'[p])
  <2> DEFINE r == Cardinality(Upto(Asks', p))
  <2> HIDE DEF e, w, m, k
  <2>1. CASE gmeKeyOut'.wr /\ p = k /\ r = Cardinality(Asks')
    <3>1. Answered'[r] = IdxFor(kinds, gkeKeyOut.pkt)
      BY <1>3, <1>9, <2>1
    <3>2. IdxFor(kinds, gkeKeyOut.pkt) \in RulesOf(kinds[k])
      BY <1>4, <2>1, KeyRules DEF k
    <3>3. kinds'[p] = kinds[k]
      BY <1>4, <1>5, <2>1
    <3>4. QED
      BY <3>1, <3>2, <3>3
  <2>2. CASE /\ p \in Asks /\ r \in 1 .. Cardinality(Asks) - e
             /\ Cardinality(Upto(Asks, p)) = r + e
    <3>1. Answered'[r] = Answered[r + e]
      BY <1>3, <1>7, <2>2
    <3>2. Answered[r + e] \in RulesOf(kinds[p])
      <4>1. Answered[Cardinality(Upto(Asks, p))] \in RulesOf(kinds[p])
        BY <2>2 DEF InTurn
      <4>2. QED
        BY <2>2, <4>1
    <3>3. kinds'[p] = kinds[p]
      BY <1>4, <1>5, <2>2
    <3>4. QED
      BY <3>1, <3>2, <3>3
  <2>3. QED
    BY <1>8, <2>1, <2>2
<1>11. \A p \in Asks' : Answered'[Cardinality(Upto(Asks', p))] \in RulesOf(kinds'[p])
  BY <1>10
<1>12. QED
  BY <1>9, <1>11 DEF InTurn
-----------------------------------------------------------------------------
(***************************************************************************)
(* Rules and headers.                                                      *)
(***************************************************************************)

LEMMA RuleStays ==
  ASSUME TypeOK, PinContinue \/ PinHead \/ PinPause, NEW m, m.pkt \in Pkts,
         RuleOf(kinds, m), NEW n, n.pkt = m.pkt, n.pst = m.pst, n.idx = m.idx
  PROVE  RuleOf(kinds', n)
<1>1. kinds'[n.pkt] = kinds[m.pkt]
  BY KindsGrow
<1>2. PstOf(kinds', n)
  BY PstStays DEF RuleOf
<1>3. QED
  BY <1>1, <1>2 DEF RuleOf

\* gme joins a packet to the answer for it.
LEMMA JoinRuled ==
  ASSUME FrontInv, ChainInv, InTurn, Typed', PinContinue \/ PinHead \/ PinPause,
         GmeClock(gkeKeyOut, gkeMdOut, answer),
         gkeMdOut.wr => Len(gmeMds) < MdDepth, gmeMdOut'.wr
  PROVE  RuleOf(kinds', gmeMdOut')
<1> DEFINE m == gmeMds[1]
           p == gmeMds[1].pkt
<1>1. /\ TypeOK /\ Metadata /\ Joining /\ gmeMds \in Seq(Md) /\ gmeIdxs \in Seq(Nat)
      /\ gmeFlag \in BOOLEAN
  BY DEF FrontInv, TypeOK, GmeTypeOK
<1>2. PstOf(kinds', gmeMdOut')
  BY DEF Typed
<1>3. gmeState = "data" /\ gmeMdOut' = GmeJoined
  BY <1>1 DEF GmeClock, GmeWait, GmeSend, NoMd, TypeOK, GmeTypeOK
<1>4. /\ gmeMds # <<>> /\ gmeFlag = (GmeHead.dmid = 3) /\ gmeIdxRd = gmeFlag
      /\ gmeFlag => gmeIdxs # <<>>
  BY <1>1, <1>3 DEF Joining
<1>5. m \in Md /\ GmeHead = m /\ 1 \in 1 .. Len(gmeMds)
  BY <1>1, <1>4, EmptySeq DEF GmeHead, Front
<1>6. MdUnmatched(kinds, m, 3)
  BY <1>1, <1>5 DEF Metadata, Keyed
<1>7. p \in Pkts /\ (m.dmid = 3) = (kinds[p].dmid = 1)
  BY <1>1, <1>6, MdModules
<1>8. kinds'[p] = kinds[p]
  BY <1>1, <1>7, KindsGrow
<1>9. CASE gmeFlag
  <2>1. /\ Asks \in SUBSET Nat /\ IsFiniteSet(Asks)
        /\ p \in Asks /\ \A x \in Asks : x >= p
    BY <1>4, <1>9, AsksNext
  <2>2. Cardinality(Upto(Asks, p)) = 1
    BY <2>1, LeastOut
  <2>3. kinds[p].dmid = 1 /\ Answered[1] \in RulesOf(kinds[p])
    <3>1. Answered[Cardinality(Upto(Asks, p))] \in RulesOf(kinds[p])
      BY <2>1 DEF InTurn
    <3>2. QED
      BY <2>1, <2>2, <3>1 DEF Asks
  <2>4. Len(gmeIdxs) \in Nat /\ 1 <= Len(gmeIdxs) /\ Front(gmeIdxs, 0) = gmeIdxs[1]
    BY <1>1, <1>4, <1>9, EmptySeq DEF Front
  <2>5. 1 \in 1 .. Answers
    <3>1. Cardinality(Upto(Asks, p)) \in 1 .. Cardinality(Asks)
      BY <2>1, Ranks
    <3>2. QED
      BY <2>2, <3>1 DEF InTurn
  <2>6. Answered[1] = gmeIdxs[1]
    BY <2>4, <2>5 DEF Answered
  <2>7. gmeMdOut' = [m EXCEPT !.wr = TRUE, !.dmid = 7, !.idx = gmeIdxs[1]]
    BY <1>3, <1>5, <1>9, <2>4 DEF GmeJoined
  <2>8. gmeMdOut'.pkt = p /\ gmeMdOut'.idx = gmeIdxs[1]
    BY <1>5, <2>7 DEF Md
  <2>9. QED
    BY <1>2, <1>8, <2>3, <2>6, <2>8 DEF RuleOf
<1>10. CASE ~gmeFlag
  <2>1. gmeMdOut' = [m EXCEPT !.wr = TRUE]
    BY <1>3, <1>5, <1>10 DEF GmeJoined
  <2>2. gmeMdOut'.pkt = p /\ gmeMdOut'.idx = m.idx
    BY <1>5, <2>1 DEF Md
  <2>3. m.dmid # 3
    BY <1>4, <1>5, <1>10
  <2>4. kinds[p].dmid # 1 /\ m.idx = kinds[p].idx
    BY <1>6, <1>7, <2>3 DEF MdUnmatched
  <2>5. QED
    BY <1>2, <1>8, <2>2, <2>4 DEF RuleOf
<1>11. QED
  BY <1>1, <1>9, <1>10

LEMMA RuledNext ==
  ASSUME FrontInv, ChainInv, InTurn, Ruled, Typed', PinContinue \/ PinHead \/ PinPause,
         GmeClock(gkeKeyOut, gkeMdOut, answer), ScmClock(gmeMdOut, started),
         NEW alf, GacClock(dcOut, dcVwr, scmMdOut, alf),
         gkeMdOut.wr => Len(gmeMds) < MdDepth
  PROVE  Ruled'
<1>1. TypeOK /\ Metadata
  BY DEF FrontInv
<1>2. gmeMdOut'.wr => RuleOf(kinds', gmeMdOut')
  BY JoinRuled
<1>3. scmMdOut'.wr => RuleOf(kinds', scmMdOut')
  <2>1. SUFFICES ASSUME scmMdOut'.wr PROVE RuleOf(kinds', scmMdOut')
    OBVIOUS
  <2>2. gmeMdOut.wr /\ ~statReset
    BY <2>1 DEF ScmClock, ScmReset, ScmCount, ScmBypass, ScmNothing, NoMd
  <2>3. gmeMdOut \in Md /\ gmeMdOut.pkt \in Pkts /\ RuleOf(kinds, gmeMdOut)
    BY <1>1, <2>2 DEF Ruled, Metadata, Joined, MdMatched, MdOf, Pkts
  <2>4. scmMdOut' = [gmeMdOut EXCEPT !.dmid = 4] \/ scmMdOut' = gmeMdOut
    BY <2>2 DEF ScmClock, ScmReset, ScmCount, ScmBypass, ScmNothing
  <2>5. /\ scmMdOut'.pkt = gmeMdOut.pkt /\ scmMdOut'.pst = gmeMdOut.pst
        /\ scmMdOut'.idx = gmeMdOut.idx
    BY <2>3, <2>4 DEF Md
  <2>6. QED
    BY <1>1, <2>3, <2>5, RuleStays
<1>4. \A i \in 1 .. Len(gacMds') : RuleOf(kinds', gacMds'[i])
  <2> DEFINE T == {m \in Md : RuleOf(kinds', m)}
  <2>1. /\ gacMds \in Seq(Md) /\ scmMdOut \in Md
        /\ gacMdRd \in BOOLEAN /\ scmMdOut.wr \in BOOLEAN
    BY <1>1 DEF TypeOK, GacTypeOK, ScmTypeOK, Md
  <2>2. scmMdOut.wr => scmMdOut \in Md /\ scmMdOut \in T
    <3>1. scmMdOut.wr => scmMdOut.pkt \in Pkts /\ RuleOf(kinds, scmMdOut)
      BY <1>1 DEF Ruled, Metadata, Left, MdMatched, MdOf, Pkts
    <3>2. QED
      BY <1>1, <2>1, <3>1, RuleStays
  <2>3. \A i \in 1 .. Len(gacMds) : gacMds[i] \in T
    <3>1. SUFFICES ASSUME NEW i \in 1 .. Len(gacMds) PROVE gacMds[i] \in T
      OBVIOUS
    <3>2. gacMds[i].pkt \in Pkts /\ RuleOf(kinds, gacMds[i])
      BY <1>1 DEF Ruled, Metadata, Left, MdMatched, MdOf, Pkts
    <3>3. RuleOf(kinds', gacMds[i])
      BY <1>1, <3>2, RuleStays
    <3>4. QED
      BY <2>1, <3>3
  <2>4. gacMds' = FifoNext(gacMds, gacMdRd, scmMdOut.wr, scmMdOut, MdDepth)
    BY DEF GacClock
  <2>5. ASSUME NEW m \in T PROVE RuleOf(kinds', m)
    BY <2>5
  <2> HIDE DEF T
  <2>6. \A i \in 1 .. Len(gacMds') : gacMds'[i] \in T
    BY <2>1, <2>2, <2>3, <2>4, FifoAll
  <2>7. QED
    BY <2>5, <2>6
<1>5. QED
  BY <1>2, <1>3, <1>4 DEF Ruled

LEMMA LookedUpNext ==
  ASSUME TypeOK, GacReads, LookedUp, NEW alf, GacClock(dcOut, dcVwr, scmMdOut, alf)
  PROVE  LookedUp'
<1>1. /\ gacMds \in Seq(Md) /\ scmMdOut \in Md
      /\ gacState \in {"IDLE", "LOOKUP", "WAIT", "METADATA", "TRANS"}
  BY DEF TypeOK, GacTypeOK, ScmTypeOK
<1>2. gacMds # <<>> /\ ~gacMdRd => gacMds' # <<>> /\ GacMd' = GacMd
  <2>1. SUFFICES ASSUME gacMds # <<>>, ~gacMdRd PROVE gacMds' # <<>> /\ GacMd' = GacMd
    OBVIOUS
  <2>2. gacMds' = gacMds \/ gacMds' = Append(gacMds, scmMdOut)
    BY <2>1 DEF GacClock, FifoNext
  <2>3. gacMds' # <<>> /\ gacMds'[1] = gacMds[1]
    BY <1>1, <2>1, <2>2, AppendKeepsFirst
  <2>4. GacMd = gacMds[1] /\ GacMd' = gacMds'[1]
    BY <1>1, <2>1, <2>3 DEF GacMd, Front
  <2>5. QED
    BY <2>3, <2>4
<1>3. \/ GacIdleLookup(alf) \/ GacIdleBypass(alf) \/ GacIdleWait(alf)
      \/ GacLookup \/ GacWait \/ GacMetadata \/ GacTrans
  BY DEF GacClock
<1>4. gacCore' = Table[gacAddr] /\ gacQ' = gacCore
  BY DEF GacClock
<1>5. gacState \in {"IDLE", "LOOKUP", "WAIT"} => ~gacMdRd
  BY DEF GacReads
<1>6. CASE GacIdleLookup(alf)
  <2>1. /\ gacState = "IDLE" /\ gacMds # <<>> /\ GacMd.dmid = 4
        /\ gacState' = "LOOKUP" /\ gacAddr' = GacMd.idx
    BY <1>6 DEF GacIdleLookup, Ready
  <2>2. gacMds' # <<>> /\ GacMd' = GacMd
    BY <1>2, <1>5, <2>1
  <2>3. QED
    BY <2>1, <2>2 DEF LookedUp
<1>7. CASE GacIdleBypass(alf)
  <2>1. /\ gacState = "IDLE" /\ gacMds # <<>> /\ GacMd.dmid # 4 /\ gacState' = "TRANS"
    BY <1>7 DEF GacIdleBypass, Ready
  <2>2. gacMds' # <<>> /\ GacMd' = GacMd
    BY <1>2, <1>5, <2>1
  <2>3. QED
    BY <2>1, <2>2 DEF LookedUp
<1>8. CASE GacIdleWait(alf)
  <2>1. gacState' = "IDLE"
    BY <1>8 DEF GacIdleWait
  <2>2. QED
    BY <2>1 DEF LookedUp
<1>9. CASE GacLookup
  <2>1. gacState = "LOOKUP" /\ gacState' = "WAIT"
    BY <1>9 DEF GacLookup
  <2>2. gacAddr = GacMd.idx /\ gacMds # <<>> /\ GacMd.dmid = 4
    BY <2>1 DEF LookedUp
  <2>3. gacMds' # <<>> /\ GacMd' = GacMd
    BY <1>2, <1>5, <2>1, <2>2
  <2>4. gacCore' = Table[GacMd'.idx]
    BY <1>4, <2>2, <2>3
  <2>5. QED
    BY <2>1, <2>2, <2>3, <2>4 DEF LookedUp
<1>10. CASE GacWait
  <2>1. gacState = "WAIT" /\ gacState' = "METADATA"
    BY <1>10 DEF GacWait
  <2>2. gacCore = Table[GacMd.idx] /\ gacMds # <<>> /\ GacMd.dmid = 4
    BY <2>1 DEF LookedUp
  <2>3. gacMds' # <<>> /\ GacMd' = GacMd
    BY <1>2, <1>5, <2>1, <2>2
  <2>4. gacQ' = Table[GacMd'.idx]
    BY <1>4, <2>2, <2>3
  <2>5. QED
    BY <2>1, <2>2, <2>3, <2>4 DEF LookedUp
<1>11. CASE GacMetadata \/ GacTrans
  <2>1. gacState' \in {"IDLE", "TRANS"} /\ gacVRd' = FALSE
    BY <1>11 DEF GacMetadata, GacTrans
  <2>2. QED
    BY <2>1 DEF LookedUp
<1>12. QED
  BY <1>3, <1>6, <1>7, <1>8, <1>9, <1>10, <1>11

\* An action writes the same fields whatever else metadata and word hold.
LEMMA SameFields ==
  ASSUME NEW e, NEW w, NEW m, NEW cpu
  PROVE  [Action(e, w, m, cpu) EXCEPT !.pkt = 0]
           = [Action(e, Idle, [NoMd EXCEPT !.pst = m.pst], cpu) EXCEPT !.pkt = 0]
<1> DEFINE n == [NoMd EXCEPT !.pst = m.pst]
<1>1. n.pst = m.pst
  BY DEF NoMd
<1> HIDE DEF n
<1>2. CASE e.op = "user"
  BY <1>1, <1>2 DEF Action
<1>3. CASE e.op = "poll"
  BY <1>1, <1>3 DEF Action
<1>4. CASE e.op = "port"
  BY <1>1, <1>4 DEF Action
<1>5. CASE e.op = "mid"
  BY <1>1, <1>5 DEF Action
<1>6. CASE e.op \notin {"user", "poll", "port", "mid"}
  <2>1. /\ Action(e, w, m, cpu) = [RawHdr(w.pkt) EXCEPT !.dmid = 5]
        /\ Action(e, Idle, n, cpu) = [RawHdr(Idle.pkt) EXCEPT !.dmid = 5]
    BY <1>6 DEF Action
  <2>2. ASSUME NEW p
        PROVE  [RawHdr(p) EXCEPT !.dmid = 5]
                 = [pkt |-> p, des |-> "own", out |-> Own, dmid |-> 5, pst |-> "raw"]
    BY DEF RawHdr
  <2>3. /\ Action(e, w, m, cpu)
             = [pkt |-> w.pkt, des |-> "own", out |-> Own, dmid |-> 5, pst |-> "raw"]
        /\ Action(e, Idle, n, cpu)
             = [pkt |-> Idle.pkt, des |-> "own", out |-> Own, dmid |-> 5, pst |-> "raw"]
    BY <2>1, <2>2
  <2>4. QED
    BY <2>3 DEF n
<1>7. QED
  BY <1>2, <1>3, <1>4, <1>5, <1>6

LEMMA HeaderAllowed ==
  ASSUME FrontInv, GacIn, GacReads, Ruled, LookedUp, Paired, gacVRd,
         NEW alf, GacClock(dcOut, dcVwr, scmMdOut, alf)
  PROVE  [gacHdr' EXCEPT !.pkt = 0] \in AllowedHeaders(kinds[gacMds[1].pkt])
<1> DEFINE m == gacMds[1]
           k == kinds[m.pkt]
<1>1. TypeOK /\ Metadata /\ gacMdRd /\ gacMds # <<>>
  BY DEF FrontInv, GacReads
<1>2. GacMd = m /\ 1 \in 1 .. Len(gacMds)
  BY <1>1, GacFront
<1>3. Left(m) /\ RuleOf(kinds, m)
  BY <1>1, <1>2 DEF Metadata, Ruled
<1>4. /\ m \in Md /\ m.pkt \in Pkts /\ Served(k) /\ PstOf(kinds, m)
      /\ m.dmid = IF k.dmid \in {1, 7} THEN 4 ELSE k.dmid
      /\ m.idx \in IF k.dmid = 1 THEN RulesOf(k) ELSE {k.idx}
  BY <1>3 DEF Left, MdMatched, MdOf, Pkts, RuleOf
<1>5. k \in AllKinds
  BY <1>1, <1>4, KindsGrow DEF TypeOK, Pkts
<1>6. k.dmid \in 0 .. 255 /\ (k.dmid = 1 \/ k.dmid > 4)
  <2>1. k.dmid \in 0 .. 255
    BY <1>5, KindType DEF Mids
  <2>2. QED
    BY <1>4, <2>1 DEF Served, Accepts
<1>7. (m.dmid = 4) = (k.dmid \in {1, 7})
  BY <1>4, <1>6
<1>8. gacState \in {"METADATA", "TRANS"} /\ pollCpu \in CpuIds
  BY <1>1 DEF TypeOK, GacTypeOK, GacReads
<1>9. \/ GacIdleLookup(alf) \/ GacIdleBypass(alf) \/ GacIdleWait(alf)
      \/ GacLookup \/ GacWait \/ GacMetadata \/ GacTrans
  BY DEF GacClock
<1> DEFINE h == [gacHdr' EXCEPT !.pkt = 0]
<1>10. CASE gacState = "METADATA"
  <2>1. gacHdr' = Action(gacQ, GacWord, GacMd, pollCpu)
    BY <1>9, <1>10 DEF GacIdleLookup, GacIdleBypass, GacIdleWait, GacLookup, GacWait,
                       GacMetadata, GacTrans
  <2>2. gacQ = Table[m.idx] /\ k.dmid \in {1, 7}
    BY <1>2, <1>7, <1>10 DEF LookedUp
  <2>3. h = HeaderBy(m.idx, m.pst, pollCpu)
    <3>1. gacHdr' = Action(Table[m.idx], GacWord, m, pollCpu)
      BY <1>2, <2>1, <2>2
    <3>2. QED
      BY <3>1, SameFields DEF HeaderBy
  <2>4. CASE k.dmid = 1
    <3>1. m.idx \in RulesOf(k)
      BY <1>4, <2>4
    <3>2. m.pst \in PstsOf(k)
      BY <1>4, <2>4 DEF PstsOf, PstOf, Md
    <3>3. AllowedHeaders(k) = {HeaderBy(i, p, cpu) :
                                 i \in RulesOf(k), p \in PstsOf(k), cpu \in CpuIds}
      BY <2>4 DEF AllowedHeaders
    <3>4. QED
      BY <1>8, <2>3, <3>1, <3>2, <3>3
  <2>5. CASE k.dmid = 7
    <3>1. m.idx = k.idx /\ m.pst = "raw"
      BY <1>4, <2>5 DEF PstOf
    <3>2. AllowedHeaders(k) = {HeaderBy(k.idx, "raw", cpu) : cpu \in CpuIds}
      BY <2>5 DEF AllowedHeaders
    <3>3. QED
      BY <1>8, <2>3, <3>1, <3>2
  <2>6. QED
    BY <2>2, <2>4, <2>5
<1>11. CASE gacState = "TRANS"
  <2>1. gacHdr' = IF GacWord.flag = "head" THEN RawHdr(GacWord.pkt) ELSE gacHdr
    BY <1>9, <1>11 DEF GacIdleLookup, GacIdleBypass, GacIdleWait, GacLookup, GacWait,
                       GacMetadata, GacTrans
  <2>2. GacWord.flag = "head"
    BY <1>1, <1>11 DEF Paired, TakesMetadata
  <2>3. k.dmid \notin {1, 7}
    BY <1>2, <1>7, <1>11 DEF LookedUp
  <2>4. AllowedHeaders(k) = {RawHdr(0)}
    BY <2>3 DEF AllowedHeaders
  <2>5. h = RawHdr(0)
    BY <2>1, <2>2 DEF RawHdr
  <2>6. QED
    BY <2>4, <2>5
<1>12. QED
  BY <1>8, <1>10, <1>11
-----------------------------------------------------------------------------
(***************************************************************************)
(* The queue of the conveyor: a set of numbers, in order, each replaced by *)
(* what f gives it.                                                        *)
(***************************************************************************)
InOrder(f, S) == [j \in 1 .. Cardinality(S) |-> f[Nth(S, j)]]

LEMMA InOrderIs ==
  ASSUME NEW S \in SUBSET Nat, IsFiniteSet(S), NEW V, NEW f, \A p \in S : f[p] \in V
  PROVE  /\ InOrder(f, S) \in Seq(V) /\ Len(InOrder(f, S)) = Cardinality(S)
         /\ Cardinality(S) \in Nat
         /\ \A j \in 1 .. Cardinality(S) : InOrder(f, S)[j] = f[Nth(S, j)]
<1> DEFINE c == Cardinality(S)
           g == [j \in 1 .. c |-> f[Nth(S, j)]]
<1>1. c \in Nat
  BY FS_CardinalityType
<1>2. \A j \in 1 .. c : f[Nth(S, j)] \in V
  BY NthIs
<1> HIDE DEF c
<1>3. g \in [1 .. c -> V]
  BY <1>2
<1>4. g \in Seq(V) /\ Len(g) = c
  BY <1>1, <1>3
<1>5. InOrder(f, S) = g
  BY DEF InOrder, c
<1>6. QED
  BY <1>1, <1>4, <1>5 DEF c

LEMMA OrderFirst ==
  ASSUME NEW S \in SUBSET Nat, IsFiniteSet(S), NEW V, NEW f, \A p \in S : f[p] \in V,
         NEW m \in S, \A x \in S : x >= m
  PROVE  /\ InOrder(f, S) # <<>> /\ Head(InOrder(f, S)) = f[m]
         /\ InOrder(f, S \ {m}) = Tail(InOrder(f, S))
<1> DEFINE T == S \ {m}
           s == InOrder(f, S)
           t == InOrder(f, T)
           c == Cardinality(S)
<1>1. IsFiniteSet(T) /\ Cardinality(T) = c - 1 /\ T \in SUBSET Nat
  BY LeastOut
<1>2. Nth(S, 1) = m /\ \A j \in 1 .. c - 1 : Nth(T, j) = Nth(S, j + 1)
  BY NthOut
<1>3. /\ s \in Seq(V) /\ Len(s) = c /\ c \in Nat
      /\ \A j \in 1 .. c : s[j] = f[Nth(S, j)]
  BY InOrderIs
<1>4. /\ t \in Seq(V) /\ Len(t) = c - 1 /\ c - 1 \in Nat
      /\ \A j \in 1 .. c - 1 : t[j] = f[Nth(T, j)]
  <2> HIDE DEF c
  <2>1. \A p \in T : f[p] \in V
    OBVIOUS
  <2> HIDE DEF T
  <2>2. /\ t \in Seq(V) /\ Len(t) = Cardinality(T) /\ Cardinality(T) \in Nat
        /\ \A j \in 1 .. Cardinality(T) : t[j] = f[Nth(T, j)]
    BY <1>1, <2>1, InOrderIs
  <2>3. QED
    BY <1>1, <2>2
<1> HIDE DEF T, s, t, c
<1>5. s # <<>> /\ Head(s) = s[1] /\ s[1] = f[m]
  <2>1. Len(s) # 0 /\ 1 \in 1 .. c
    BY <1>3, <1>4
  <2>2. s # <<>> /\ Head(s) = s[1]
    BY <1>3, <2>1
  <2>3. QED
    BY <1>2, <1>3, <2>1, <2>2
<1>6. /\ Tail(s) \in Seq(V) /\ Len(Tail(s)) = c - 1
      /\ \A j \in 1 .. c - 1 : Tail(s)[j] = s[j + 1]
  BY <1>3, <1>5, HeadTailProperties
<1>7. \A j \in 1 .. Len(t) : t[j] = Tail(s)[j]
  <2>1. SUFFICES ASSUME NEW j \in 1 .. c - 1 PROVE t[j] = Tail(s)[j]
    BY <1>4
  <2>2. j + 1 \in 1 .. c
    BY <1>3
  <2>3. QED
    BY <1>2, <1>3, <1>4, <1>6, <2>2
<1>8. t = Tail(s)
  BY <1>4, <1>6, <1>7, SeqEqual
<1>9. QED
  BY <1>5, <1>8 DEF s, t, T

LEMMA OrderLast ==
  ASSUME NEW S \in SUBSET Nat, IsFiniteSet(S), NEW V, NEW f, \A p \in S : f[p] \in V,
         NEW k \in Nat, \A x \in S : x < k, f[k] \in V
  PROVE  InOrder(f, S \cup {k}) = Append(InOrder(f, S), f[k])
<1> DEFINE T == S \cup {k}
           s == InOrder(f, S)
           t == InOrder(f, T)
           c == Cardinality(S)
           a == Append(s, f[k])
<1>1. IsFiniteSet(T) /\ Cardinality(T) = c + 1 /\ T \in SUBSET Nat
  BY LargestIn
<1>2. Nth(T, c + 1) = k /\ \A j \in 1 .. c : Nth(T, j) = Nth(S, j)
  BY NthIn
<1>3. /\ s \in Seq(V) /\ Len(s) = c /\ c \in Nat
      /\ \A j \in 1 .. c : s[j] = f[Nth(S, j)]
  BY InOrderIs
<1>4. /\ t \in Seq(V) /\ Len(t) = c + 1
      /\ \A j \in 1 .. c + 1 : t[j] = f[Nth(T, j)]
  <2> HIDE DEF c
  <2>1. \A p \in T : f[p] \in V
    OBVIOUS
  <2> HIDE DEF T
  <2>2. /\ t \in Seq(V) /\ Len(t) = Cardinality(T) /\ Cardinality(T) \in Nat
        /\ \A j \in 1 .. Cardinality(T) : t[j] = f[Nth(T, j)]
    BY <1>1, <2>1, InOrderIs
  <2>3. QED
    BY <1>1, <2>2
<1> HIDE DEF T, s, t, c
<1>5. /\ a \in Seq(V) /\ Len(a) = c + 1
      /\ \A j \in 1 .. c : a[j] = s[j]
      /\ a[c + 1] = f[k]
  BY <1>3, AppendProperties
<1> HIDE DEF a
<1>6. \A j \in 1 .. Len(t) : t[j] = a[j]
  <2>1. SUFFICES ASSUME NEW j \in 1 .. c + 1 PROVE t[j] = a[j]
    BY <1>4
  <2>2. j \in 1 .. c \/ j = c + 1
    BY <1>3
  <2>3. QED
    BY <1>2, <1>3, <1>4, <1>5, <2>2
<1>7. t = a
  BY <1>4, <1>5, <1>6, SeqEqual
<1>8. QED
  BY <1>7 DEF s, t, T, a
-----------------------------------------------------------------------------
(***************************************************************************)
(* The step of the conveyor.                                               *)
(***************************************************************************)

\* A packet that is to be served comes.
Newcomer(ks, js) == Len(js) = Len(ks) + 1 /\ Served(js[Len(ks) + 1])

LEMMA WaitingNext ==
  ASSUME FrontInv, ChainInv, WordOrder, GacReads, PinContinue \/ PinHead \/ PinPause,
         gacHdr'.pkt = IF gacVRd THEN gacMds[1].pkt ELSE gacHdr.pkt
  PROVE  /\ Waiting \in SUBSET Nat /\ Waiting \subseteq Pkts /\ IsFiniteSet(Waiting)
         /\ gacVRd => /\ gacMds[1].pkt \in Waiting
                      /\ \A x \in Waiting : x >= gacMds[1].pkt
         /\ Waiting' = Moved(Waiting, gacVRd, gacMds[1].pkt, Newcomer(kinds, kinds'),
                             Len(kinds) + 1)
<1> DEFINE m == gacMds[1].pkt
           n == Len(kinds)
           h == gacHdr.pkt
<1>1. /\ TypeOK /\ Port1 /\ n \in Nat /\ gacVRd \in BOOLEAN /\ h \in 0 .. n
      /\ gacMds \in Seq(Md)
  BY DEF FrontInv, TypeOK, GacTypeOK, WordOrder
<1>2. /\ Waiting \in SUBSET Nat /\ Waiting \subseteq Pkts /\ IsFiniteSet(Waiting)
  <2>1. \A k \in Nat : IsFiniteSet(1 .. k)
    BY FS_Interval
  <2>2. Waiting \subseteq 1 .. n
    BY DEF Waiting
  <2>3. IsFiniteSet(1 .. n) /\ 1 .. n \subseteq Nat
    BY <1>1, <2>1
  <2>4. IsFiniteSet(Waiting)
    BY <2>2, <2>3, FS_Subset
  <2>5. QED
    BY <2>2, <2>3, <2>4 DEF Pkts
<1>3. Chain = {p \in Past : Served(kinds[p]) /\ p > h}
  BY DEF ChainInv, ChainIs
<1>4. ASSUME gacVRd PROVE m \in Chain /\ \A x \in Chain : x >= m
  <2>1. gacMds # <<>> /\ 1 \in 1 .. Len(gacMds)
    BY <1>1, <1>4, GacFront DEF GacReads
  <2>2. m \in Nos(gacMds)
    BY <2>1 DEF Nos
  <2>3. \A x \in Nos(gacMds) : x >= m
    <3>1. SUFFICES ASSUME NEW i \in 1 .. Len(gacMds) PROVE gacMds[i].pkt >= m
      BY DEF Nos
    <3>2. gacMds[i].pkt \in Nat /\ m \in Nat
      <4>1. gacMds[i] \in Md /\ gacMds[1] \in Md
        BY <1>1, <2>1
      <4>2. QED
        BY <4>1 DEF Md
    <3>3. CASE i = 1
      BY <3>2, <3>3
    <3>4. CASE i # 1
      <4>1. 1 < i
        BY <3>4
      <4>2. m < gacMds[i].pkt
        BY <2>1, <4>1 DEF ChainInv, MdOrder, Rising
      <4>3. QED
        BY <3>2, <4>2
    <3>5. QED
      BY <3>3, <3>4
  <2>4. \A x \in No(scmMdOut) \cup No(gmeMdOut) \cup Nos(gmeMds) \cup Coming : m < x
    BY <2>2 DEF ChainInv, MdOrder, Below
  <2>5. Chain \subseteq Pkts
    BY <1>1, <1>3, PastNext
  <2>6. m \in Chain
    BY <2>2 DEF Chain
  <2>7. \A x \in Chain : x >= m
    <3>1. SUFFICES ASSUME NEW x \in Chain PROVE x >= m
      OBVIOUS
    <3>2. x \in Nat /\ m \in Nat
      BY <1>1, <2>5, <2>6 DEF Pkts
    <3>3. x \in Nos(gacMds)
            \/ x \in No(scmMdOut) \cup No(gmeMdOut) \cup Nos(gmeMds) \cup Coming
      BY DEF Chain
    <3>4. QED
      BY <2>3, <2>4, <3>2, <3>3
  <2>8. QED
    BY <2>6, <2>7
<1>5. Past \subseteq Pkts /\ \A p \in Pkts : p \in Past \/ \A q \in Past : q < p
  <2>1. pin.wr => pin.pkt = n /\ n >= 1
    BY <1>1, PinType DEF Pkts
  <2>2. CASE pin.wr
    BY <1>1, <2>1, <2>2 DEF Past, Pkts, One
  <2>3. CASE ~pin.wr
    BY <1>1, <2>3 DEF Past, Pkts, One
  <2>4. QED
    BY <2>2, <2>3
<1>6. ASSUME gacVRd PROVE m \in Waiting /\ \A x \in Waiting : x >= m
  <2>1. m \in Past /\ Served(kinds[m]) /\ m > h
    BY <1>3, <1>4, <1>6
  <2>2. m \in Waiting
    BY <1>5, <2>1 DEF Waiting, Pkts
  <2>3. ASSUME NEW x \in Waiting PROVE x >= m
    <3>1. x \in Pkts /\ Served(kinds[x]) /\ x > h
      BY DEF Waiting, Pkts
    <3>2. CASE x \in Past
      BY <1>3, <1>4, <1>6, <3>1, <3>2
    <3>3. CASE x \notin Past
      <4>1. m < x
        BY <1>5, <2>1, <3>1, <3>3
      <4>2. m \in Pkts
        BY <1>5, <2>1
      <4>3. m \in Nat /\ x \in Nat
        BY <1>1, <3>1, <4>2 DEF Pkts
      <4>4. QED
        BY <4>1, <4>3
    <3>4. QED
      BY <3>2, <3>3
  <2>4. QED
    BY <2>2, <2>3
<1> DEFINE b == Newcomer(kinds, kinds')
           hh == gacHdr'.pkt
<1>7. \/ kinds' = kinds
      \/ Len(kinds') = n + 1
  <2>1. CASE PinHead
    <3>1. PICK k \in Kinds[n + 1] : kinds' = Append(kinds, k)
      BY <2>1 DEF PinHead
    <3>2. QED
      BY <1>1, <3>1 DEF TypeOK
  <2>2. CASE PinContinue \/ PinPause
    BY <2>2 DEF PinContinue, PinPause
  <2>3. QED
    BY <2>1, <2>2
<1>8. \A p \in 1 .. n : kinds'[p] = kinds[p]
  BY <1>1, KindsGrow DEF Pkts
<1>9. /\ hh \in 0 .. n
      /\ \A p \in 1 .. n :
           (p > hh /\ Served(kinds[p])) = (p \in Waiting /\ (gacVRd => p # m))
  <2>1. CASE gacVRd
    <3>1. m \in Waiting /\ m \in 1 .. n /\ hh = m /\ m > h
      BY <1>2, <1>6, <2>1 DEF Waiting, Pkts
    <3>2. SUFFICES ASSUME NEW p \in 1 .. n
                   PROVE  (p > m /\ Served(kinds[p])) = (p \in Waiting /\ p # m)
      BY <2>1, <3>1
    <3>3. (p \in Waiting) = (p > h /\ Served(kinds[p]))
      BY DEF Waiting
    <3>4. p \in Waiting => p >= m
      BY <1>6, <2>1
    <3>5. QED
      BY <1>1, <3>1, <3>3, <3>4
  <2>2. CASE ~gacVRd
    <3>1. hh = h
      BY <2>2
    <3>2. QED
      BY <1>1, <2>2, <3>1 DEF Waiting
  <2>3. QED
    BY <2>1, <2>2
<1>10. Waiting' = {p \in 1 .. Len(kinds') : p > hh /\ Served(kinds'[p])}
  BY DEF Waiting
<1>11. ASSUME NEW p PROVE (p \in Waiting') = (p \in Moved(Waiting, gacVRd, m, b, n + 1))
  <2>1. (p \in Moved(Waiting, gacVRd, m, b, n + 1))
          = ((p \in Waiting /\ (gacVRd => p # m)) \/ (b /\ p = n + 1))
    BY <1>1 DEF Moved
  <2>2. (p \in Waiting') = (p \in 1 .. Len(kinds') /\ p > hh /\ Served(kinds'[p]))
    BY <1>10
  <2>3. b \in BOOLEAN
    BY DEF Newcomer
  <2>4. CASE p \in 1 .. n
    <3>1. p \in 1 .. Len(kinds') /\ p # n + 1
      BY <1>1, <1>7, <2>4
    <3>2. QED
      BY <1>8, <1>9, <2>1, <2>2, <2>4, <3>1
  <2>5. CASE p \notin 1 .. n
    <3>1. p \notin Waiting
      BY <1>2, <2>5 DEF Pkts
    <3>2. (p \in 1 .. Len(kinds')) = (Len(kinds') = n + 1 /\ p = n + 1)
      BY <1>1, <1>7, <2>5
    <3>3. n + 1 > hh
      BY <1>1, <1>9
    <3>4. QED
      BY <2>1, <2>2, <3>1, <3>2, <3>3 DEF Newcomer
  <2>6. QED
    BY <2>4, <2>5
<1>12. QED
  BY <1>2, <1>6, <1>11

\* What waits on the belt, and what has left it.
Queue == InOrder(kinds, Waiting)
Gone == IF gacHdr.pkt = 0 THEN [some |-> FALSE]
        ELSE [some |-> TRUE, kind |-> kinds[gacHdr.pkt],
              hdr |-> [gacHdr EXCEPT !.pkt = 0]]

\* What one step may do to it.
Joins(q, r) == r = q \/ \E k \in AllKinds : Served(k) /\ r = Append(q, k)

LEMMA QueueNext ==
  ASSUME FrontInv, ChainInv, WordOrder, GacReads, PinContinue \/ PinHead \/ PinPause,
         gacHdr'.pkt = IF gacVRd THEN gacMds[1].pkt ELSE gacHdr.pkt
  PROVE  /\ gacVRd => /\ Queue # <<>> /\ Head(Queue) = kinds[gacMds[1].pkt]
                      /\ Joins(Tail(Queue), Queue')
         /\ ~gacVRd => Joins(Queue, Queue')
<1> DEFINE m == gacMds[1].pkt
           n == Len(kinds)
           b == Newcomer(kinds, kinds')
           S == Waiting
           T == IF gacVRd THEN Waiting \ {m} ELSE Waiting
           U == Waiting'
<1>1. TypeOK /\ n \in Nat /\ kinds \in Seq(AllKinds)
  BY DEF FrontInv, TypeOK
<1>2. /\ S \in SUBSET Nat /\ S \subseteq Pkts /\ IsFiniteSet(S)
      /\ gacVRd => m \in S /\ \A x \in S : x >= m
      /\ U = Moved(S, gacVRd, m, b, n + 1)
  BY WaitingNext
<1>3. \A p \in Pkts : kinds[p] \in AllKinds /\ kinds'[p] = kinds[p]
  BY <1>1, KindsGrow
<1>4. \A p \in S : kinds[p] \in AllKinds
  BY <1>2, <1>3
<1>5. T \in SUBSET Nat /\ T \subseteq S /\ IsFiniteSet(T)
  <2>1. T \subseteq S
    OBVIOUS
  <2>2. IsFiniteSet(T)
    BY <1>2, <2>1, FS_Subset
  <2>3. QED
    BY <1>2, <2>1, <2>2
<1>6. gacVRd => /\ Queue # <<>> /\ Head(Queue) = kinds[m]
                /\ InOrder(kinds, T) = Tail(Queue)
  <2>1. SUFFICES ASSUME gacVRd
                 PROVE  /\ Queue # <<>> /\ Head(Queue) = kinds[m]
                        /\ InOrder(kinds, T) = Tail(Queue)
    OBVIOUS
  <2>2. T = S \ {m} /\ Queue = InOrder(kinds, S)
    BY <2>1 DEF Queue
  <2> HIDE DEF T, S, m
  <2>3. /\ InOrder(kinds, S) # <<>> /\ Head(InOrder(kinds, S)) = kinds[m]
        /\ InOrder(kinds, S \ {m}) = Tail(InOrder(kinds, S))
    BY <1>2, <1>4, <2>1, OrderFirst
  <2>4. QED
    BY <2>2, <2>3
<1>7. ~gacVRd => InOrder(kinds, T) = Queue
  BY DEF Queue
<1>8. U = T \cup (IF b THEN {n + 1} ELSE {})
  BY <1>2 DEF Moved
<1> DEFINE w == InOrder(kinds', U)
           v == InOrder(kinds, T)
<1>9. InOrder(kinds', T) = v
  <2>1. \A j \in 1 .. Cardinality(T) : kinds'[Nth(T, j)] = kinds[Nth(T, j)]
    <3>1. SUFFICES ASSUME NEW j \in 1 .. Cardinality(T)
                   PROVE  kinds'[Nth(T, j)] = kinds[Nth(T, j)]
      OBVIOUS
    <3>2. Nth(T, j) \in T
      BY <1>5, NthIs
    <3>3. QED
      BY <1>2, <1>3, <1>5, <3>2
  <2> HIDE DEF T
  <2>2. QED
    BY <2>1 DEF InOrder
<1>10. Queue' = w
  BY DEF Queue
<1>11. CASE b
  <2>1. /\ Len(kinds') = n + 1 /\ Served(kinds'[n + 1])
    BY <1>11 DEF Newcomer
  <2>2. kinds'[n + 1] \in AllKinds
    <3>1. PinHead
      BY <1>1, <2>1 DEF PinContinue, PinPause
    <3>2. PICK k \in Kinds[n + 1] : kinds' = Append(kinds, k)
      BY <3>1 DEF PinHead
    <3>3. n < MaxPkts /\ MaxPkts \in Nat /\ DOMAIN Kinds = 1 .. MaxPkts
      BY <3>1, PipeAssumption DEF PinHead
    <3>4. k \in AllKinds
      BY <1>1, <3>3 DEF AllKinds
    <3>5. QED
      BY <1>1, <3>2, <3>4
  <2>3. \A x \in T : x < n + 1 /\ kinds'[x] \in AllKinds
    <3>1. \A x \in Pkts : x < n + 1
      BY <1>1 DEF Pkts
    <3>2. QED
      BY <1>2, <1>3, <1>5, <3>1
  <2>4. U = T \cup {n + 1} /\ n + 1 \in Nat
    BY <1>1, <1>8, <1>11
  <2> HIDE DEF T, U, b
  <2> DEFINE k == n + 1
             f == kinds'
  <2>5. k \in Nat /\ (\A x \in T : x < k) /\ (\A x \in T : f[x] \in AllKinds) /\ f[k] \in AllKinds
    BY <2>2, <2>3, <2>4
  <2> HIDE DEF k, f
  <2>6. InOrder(f, T \cup {k}) = Append(InOrder(f, T), f[k])
    <3>1. T \in SUBSET Nat /\ IsFiniteSet(T) /\ k \in Nat
      BY <1>5, <2>5
    <3>2. \A x \in T : f[x] \in AllKinds
      BY <2>5
    <3>3. \A x \in T : x < k
      BY <2>5
    <3>4. f[k] \in AllKinds
      BY <2>5
    <3>5. QED
      BY ONLY <3>1, <3>2, <3>3, <3>4, OrderLast, ZenonT(60)
  <2>7. w = Append(v, kinds'[n + 1])
    BY <1>9, <2>4, <2>6 DEF f, k
  <2>8. Joins(v, w)
    BY <2>1, <2>2, <2>7 DEF Joins
  <2>9. QED
    BY <1>6, <1>7, <1>10, <2>8
<1>12. CASE ~b
  <2>1. U = T
    BY <1>8, <1>12
  <2>2. w = v
    BY <1>9, <2>1
  <2>3. Joins(v, w)
    BY <2>2 DEF Joins
  <2>4. QED
    BY <1>6, <1>7, <1>10, <2>3
<1>13. QED
  BY <1>11, <1>12
-----------------------------------------------------------------------------
\* Keys, answers and rules go with their packets.
Carrying == KeyFits /\ InTurn /\ Ruled /\ LookedUp

LEMMA CarryingHolds ==
  ASSUME Init
  PROVE  Carrying
<1>1. /\ gkeMdDly = NoMd /\ gkeKeyOut.wr = FALSE /\ gmeIdxs = <<>> /\ answer.wr = FALSE
      /\ lookups = <<>> /\ gmeKeyOut.wr = FALSE /\ gmeMds = <<>> /\ gmeMdOut = NoMd
      /\ scmMdOut = NoMd /\ gacMds = <<>> /\ gacState = "IDLE"
  BY DEF Init, GkeInit, GmeInit, ScmInit, GacInit, NoAnswer, NoKey
<1>2. KeyFits
  BY <1>1 DEF KeyFits, NoMd
<1>3. InTurn
  <2>1. Asks = {}
    <3>1. Nos(gmeMds) = {}
      BY <1>1 DEF Nos
    <3>2. QED
      BY <3>1 DEF Asks
  <2>2. Answers = 0
    BY <1>1 DEF Answers, One
  <2>3. Cardinality({}) = 0
    BY FS_EmptySet
  <2>4. QED
    BY <2>1, <2>2, <2>3 DEF InTurn
<1>4. Ruled
  BY <1>1 DEF Ruled, NoMd
<1>5. LookedUp
  BY <1>1 DEF LookedUp
<1>6. QED
  BY <1>2, <1>3, <1>4, <1>5 DEF Carrying

LEMMA CarryingStep ==
  ASSUME NEW n \in Nat, Fits(n), PairInv(n), Counting, Carrying, Typed', Next
  PROVE  Carrying'
<1>1. PICK alf \in BOOLEAN, answers \in BOOLEAN : Clock(alf, answers) /\ StatReset
  BY DEF Next
<1>2. /\ PinContinue \/ PinHead \/ PinPause
      /\ Matcher(answers) /\ GkeClock(gppMdOut) /\ GmeClock(gkeKeyOut, gkeMdOut, answer)
      /\ ScmClock(gmeMdOut, started) /\ GacClock(dcOut, dcVwr, scmMdOut, alf)
  BY <1>1 DEF Clock, Hardware
<1>3. /\ FrontInv /\ ChainInv /\ TypeOK /\ GacReads /\ Typed
      /\ KeyFits /\ InTurn /\ Ruled /\ LookedUp
  BY DEF PairInv, GacInv, DcInv, FrontInv, Counting, Carrying
<1>4. Len(gmeMds) < MdDepth
  BY MdFits DEF PairInv
<1>5. KeyFits'
  BY <1>2, <1>3, KeyFitsNext
<1>6. InTurn'
  BY <1>2, <1>3, <1>4, InTurnNext
<1>7. Ruled'
  BY <1>2, <1>3, <1>4, RuledNext
<1>8. LookedUp'
  BY <1>2, <1>3, LookedUpNext
<1>9. QED
  BY <1>5, <1>6, <1>7, <1>8 DEF Carrying

LEMMA CarryingStays ==
  ASSUME Carrying, UNCHANGED vars
  PROVE  Carrying'
<1>1. /\ UNCHANGED <<kinds, gkeMdDly, gkeSwitch, gkeKeyOut, gkeMdOut>>
      /\ UNCHANGED <<gmeIdxs, answer, lookups, gmeKeyOut, gmeMds, gmeMdOut, scmMdOut>>
      /\ UNCHANGED <<gacMds, gacState, gacAddr, gacCore, gacQ, gacVRd>>
  BY DEF vars, gkeVars, gmeVars, scmVars, gacVars, envVars
<1>2. KeyFits'
  BY <1>1 DEF Carrying, KeyFits, KnownPst
<1>3. Asks' = Asks /\ Answers' = Answers
  BY <1>1 DEF Asks, Nos, Answers
<1>4. Answered' = Answered
  BY <1>1, <1>3 DEF Answered, MatcherIdx
<1>5. InTurn'
  BY <1>1, <1>3, <1>4 DEF Carrying, InTurn
<1>6. Ruled'
  BY <1>1 DEF Carrying, Ruled
<1>7. LookedUp'
  BY <1>1 DEF Carrying, LookedUp, GacMd
<1>8. QED
  BY <1>2, <1>5, <1>6, <1>7 DEF Carrying

LEMMA HeaderStays ==
  ASSUME TypeOK, GacIn, GacReads, ~gacVRd, NEW alf,
         GacClock(dcOut, dcVwr, scmMdOut, alf)
  PROVE  gacHdr' = gacHdr
<1>1. \/ GacIdleLookup(alf) \/ GacIdleBypass(alf) \/ GacIdleWait(alf)
      \/ GacLookup \/ GacWait \/ GacMetadata \/ GacTrans
  BY DEF GacClock
<1>2. CASE GacMetadata
  BY <1>2 DEF GacMetadata, GacReads
<1>3. CASE GacTrans
  <2>1. gacRd
    BY <1>3 DEF GacTrans, GacReads
  <2>2. GacWord.flag # "head"
    BY <2>1, GacTakes
  <2>3. QED
    BY <1>3, <2>2 DEF GacTrans
<1>4. QED
  BY <1>1, <1>2, <1>3 DEF GacIdleLookup, GacIdleBypass, GacIdleWait, GacLookup, GacWait

\* In one step of the pipeline a packet may come and another one leave.
BeltMoves ==
  \/ /\ Queue # <<>>
     /\ \E h \in AllowedHeaders(Head(Queue)) :
          Gone' = [some |-> TRUE, kind |-> Head(Queue), hdr |-> h]
     /\ Joins(Tail(Queue), Queue')
  \/ Joins(Queue, Queue') /\ Gone' = Gone

LEMMA PipeMoves ==
  ASSUME NEW n \in Nat, Fits(n), PairInv(n), Carrying, Next
  PROVE  BeltMoves
<1> DEFINE m == gacMds[1].pkt
<1>1. PICK alf \in BOOLEAN, answers \in BOOLEAN : Clock(alf, answers) /\ StatReset
  BY DEF Next
<1>2. /\ PinContinue \/ PinHead \/ PinPause
      /\ GacClock(dcOut, dcVwr, scmMdOut, alf)
  BY <1>1 DEF Clock, Hardware
<1>3. /\ FrontInv /\ ChainInv /\ WordOrder /\ TypeOK /\ GacIn /\ GacReads
      /\ Ruled /\ LookedUp
  BY DEF PairInv, GacInv, DcInv, FrontInv, Carrying
<1>4. Paired
  BY PairedNow DEF PairInv
<1>5. gacVRd \in BOOLEAN
  BY <1>3 DEF TypeOK, GacTypeOK
<1>6. gacHdr'.pkt = IF gacVRd THEN m ELSE gacHdr.pkt
  <2>1. CASE gacVRd
    <3>1. gacMdRd /\ gacMds # <<>>
      BY <1>3, <2>1 DEF GacReads
    <3>2. TakesMetadata
      <4>1. gacState \in {"IDLE", "LOOKUP", "WAIT", "METADATA", "TRANS"}
        BY <1>3 DEF TypeOK, GacTypeOK
      <4>2. QED
        BY <1>3, <2>1, <3>1, <4>1 DEF GacReads, TakesMetadata
    <3>3. GacMd = gacMds[1] /\ GacMd.pkt = GacWord.pkt
      BY <1>3, <1>4, <3>1, <3>2, GacFront DEF Paired
    <3>4. gacHdr'.pkt = GacWord.pkt
      <4>1. TypeOK'
        BY <1>3, FrontStep DEF FrontInv
      <4>2. TakesMetadata => GacMd.pkt = GacWord.pkt
        BY <3>3
      <4>3. QED
        BY <1>2, <1>3, <2>1, <4>1, <4>2, GacMoves
    <3>5. QED
      BY <2>1, <3>3, <3>4
  <2>2. CASE ~gacVRd
    BY <1>2, <1>3, <2>2, HeaderStays
  <2>3. QED
    BY <1>5, <2>1, <2>2
<1>7. /\ gacVRd => /\ Queue # <<>> /\ Head(Queue) = kinds[m]
                   /\ Joins(Tail(Queue), Queue')
      /\ ~gacVRd => Joins(Queue, Queue')
  BY <1>2, <1>3, <1>6, QueueNext
<1>8. \A p \in Pkts : kinds'[p] = kinds[p]
  BY <1>2, <1>3, KindsGrow
<1>9. CASE gacVRd
  <2>1. m \in Pkts
    BY <1>2, <1>3, <1>6, <1>9, WaitingNext
  <2>2. [gacHdr' EXCEPT !.pkt = 0] \in AllowedHeaders(kinds[m])
    BY <1>2, <1>3, <1>4, <1>9, HeaderAllowed
  <2>3. gacHdr'.pkt = m /\ m # 0 /\ kinds'[m] = kinds[m]
    BY <1>3, <1>6, <1>8, <1>9, <2>1 DEF Pkts, TypeOK
  <2>4. Gone' = [some |-> TRUE, kind |-> kinds[m], hdr |-> [gacHdr' EXCEPT !.pkt = 0]]
    BY <2>3 DEF Gone
  <2>5. QED
    BY <1>7, <1>9, <2>2, <2>4 DEF BeltMoves
<1>10. CASE ~gacVRd
  <2>1. gacHdr' = gacHdr
    BY <1>2, <1>3, <1>10, HeaderStays
  <2>2. gacHdr.pkt = 0 \/ kinds'[gacHdr.pkt] = kinds[gacHdr.pkt]
    BY <1>3, <1>8 DEF WordOrder, Pkts, TypeOK
  <2>3. Gone' = Gone
    BY <2>1, <2>2 DEF Gone
  <2>4. QED
    BY <1>7, <1>10, <2>3 DEF BeltMoves
<1>11. QED
  BY <1>5, <1>9, <1>10

LEMMA BeltHolds ==
  ASSUME Init
  PROVE  Belt!Init
<1>1. kinds = <<>> /\ gacHdr.pkt = 0
  BY DEF Init, GacInit, RawHdr
<1>2. Waiting = {}
  <2>1. Len(kinds) = 0
    BY <1>1
  <2>2. QED
    BY <2>1 DEF Waiting
<1>3. Cardinality({}) = 0
  BY FS_EmptySet
<1>4. [j \in 1 .. Cardinality(Waiting) |-> kinds[Nth(Waiting, j)]] = <<>>
  <2>1. 1 .. Cardinality(Waiting) = {}
    BY <1>2, <1>3
  <2>2. QED
    BY <2>1
<1>5. QED
  BY <1>1, <1>4 DEF Belt!Init, Belt!Nobody

LEMMA BeltSteps ==
  ASSUME BeltMoves
  PROVE  Belt!Next
BY DEF BeltMoves, Joins, Queue, InOrder, Gone, Belt!Next, Belt!Depart, Belt!Arrive

LEMMA BeltStays ==
  ASSUME UNCHANGED vars
  PROVE  Queue' = Queue /\ Gone' = Gone
<1>1. kinds' = kinds /\ gacHdr' = gacHdr
  BY DEF vars, gacVars, envVars
<1>2. QED
  BY <1>1 DEF Queue, Gone, InOrder, Waiting

(***************************************************************************)
(* The pipeline is a conveyor, for any number of packets of any kinds: of  *)
(* the packets that arrive exactly those that are valid and addressed to   *)
(* the user module leave, once and in the order of their arrival, each     *)
(* with header fields that the rule of its own key allows, although key,   *)
(* answer, metadata and words of a packet travel apart and the matcher     *)
(* and pgm let them wait.                                                  *)
(***************************************************************************)
THEOREM IsConveyor ==
  ASSUME NEW n \in Nat, Fits(n), ResetWhen # "any"
  PROVE  Spec => ImplementsConveyor
<1> DEFINE I == PairInv(n) /\ Counting /\ Carrying
<1>1. Init => I /\ Belt!Init
  BY CountHolds, CarryingHolds, BeltHolds
<1>2. I /\ [Next]_vars => I'
  <2>1. SUFFICES ASSUME I, [Next]_vars PROVE I'
    OBVIOUS
  <2>2. PairInv(n)' /\ Counting'
    BY <2>1, CountStep
  <2>3. CASE Next
    BY <2>1, <2>2, <2>3, CarryingStep DEF Counting
  <2>4. CASE UNCHANGED vars
    BY <2>1, <2>2, <2>4, CarryingStays
  <2>5. QED
    BY <2>1, <2>2, <2>3, <2>4
<1>3. I /\ [Next]_vars
        => [Belt!Next]_<<[j \in 1 .. Cardinality(Waiting) |-> kinds[Nth(Waiting, j)]],
                         IF gacHdr.pkt = 0 THEN [some |-> FALSE]
                         ELSE [some |-> TRUE, kind |-> kinds[gacHdr.pkt],
                               hdr |-> [gacHdr EXCEPT !.pkt = 0]]>>
  <2>1. CASE I /\ Next
    BY <2>1, PipeMoves, BeltSteps
  <2>2. CASE UNCHANGED vars
    BY <2>2, BeltStays DEF Queue, Gone, InOrder
  <2>3. QED
    BY <2>1, <2>2
<1> HIDE DEF I
<1>4. QED
  BY <1>1, <1>2, <1>3, PTL DEF Spec, ImplementsConveyor, Belt!Spec
=============================================================================
