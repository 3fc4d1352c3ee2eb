----------------------------- MODULE GoeProofs ------------------------------
(***************************************************************************)
(* What is proved of the output engine for every set of packets, every     *)
(* depth of the FIFO and every way in which pktout stalls: how far it may  *)
(* stall without loss, and that every step is a step of Egress or none.    *)
(*                                                                         *)
(* The words that came and have not left are one sequence Q: the FIFO and  *)
(* the word on the wires to it.  A step takes the first word of Q off, or  *)
(* none, and puts one word at its end, or none.                            *)
(***************************************************************************)
EXTENDS Goe, FiniteSetTheorems, FunctionTheorems,
        SequenceTheorems, TLAPS

One(b) == IF b THEN 1 ELSE 0

\* The words of the packets that are kept.
WordNo(k) == 0 .. Kinds[k].len - 1
KeptKinds == {k \in DOMAIN Kinds : ~Kinds[k].drop}
KeptWords == UNION {{Word(k, n) : n \in WordNo(k)} : k \in KeptKinds}

\* The last words of the packets in a sequence of words.
Tails(q) == {i \in 1 .. Len(q) : q[i].flag = "tail"}

-----------------------------------------------------------------------------
(* The inductive invariant *)

\* The wires from pgm hold one word of a packet, or none.
Wire ==
  \/ inGoe = Idle
  \/ \E k \in DOMAIN Kinds : \E n \in WordNo(k) : inGoe = Word(k, n)

\* Discarding: between packets, or inside one, a word behind the generator.
Discard ==
  /\ inStream \in KeptWords \cup {Idle}
  /\ inValid = (inStream.flag = "tail")
  /\ \/ /\ delState = "idle"
        /\ inGoe = Idle \/ inGoe.seq = 0
        /\ inStream = Idle \/ (inStream.flag = "tail" /\ inGoe = Idle)
     \/ /\ delState = "trans"
        /\ inGoe # Idle /\ inGoe.seq > 0
        /\ writeEn = Kinds[inGoe.pkt].drop
        /\ inStream = IF writeEn THEN Idle ELSE Word(inGoe.pkt, inGoe.seq - 1)

\* Whole packets in order: in front of the n-th word of a packet there are, as
\* far as they have not left, its words before; in front of a first word there
\* is nothing or a last one.
Chained(q) ==
  /\ \A j \in 1 .. Len(q) : \A i \in 1 .. j :
       j - i <= q[j].seq =>
         q[i].pkt = q[j].pkt /\ q[i].seq = q[j].seq - (j - i)
  /\ \A j \in 2 .. Len(q) : q[j].seq = 0 => q[j - 1].flag = "tail"

\* Only a packet that is still coming in may be incomplete.
Closed ==
  delState = "idle" \/ writeEn =>
    Q = <<>> \/ Q[Len(Q)].flag = "tail"

Queue == stream \in Seq(KeptWords) /\ Chained(Q) /\ Closed

\* How far the packet that leaves has got.
Position ==
  CASE cntState = "wait0" -> stream[1].seq = 0
    [] cntState = "wait1" -> stream[1].seq = 1
    [] cntState = "write" -> stream[1].seq = 2
    [] OTHER              -> stream[1].seq > 2

Leaving == cntState \in {"wait1", "write", "trans"}

Sending ==
  /\ cntState \in {"idle", "wait0"} \/ Leaving
  /\ dataRd = (cntState # "idle")
  /\ validRd = (cntState = "wait0")
  /\ cntState = "idle" => Q = <<>> \/ Q[1].seq = 0
  /\ cntState # "idle" => Tails(stream) # {} /\ Position
  /\ IF Leaving THEN pktout.wr /\ pktout.flag # "tail"
     ELSE ~pktout.wr \/ (cntState = "idle" /\ pktout.flag = "tail")

\* The valid bits are the complete packets that are not yet being sent.
Balance ==
  /\ valids \in Nat
  /\ valids + One(inValid) + One(Leaving) = Cardinality(Tails(Q))

\* A word and a valid bit each take a clock: what waits never grows, but for
\* the clock between two packets on either side.
Level == Len(Q) + valids <= StreamDepth + One(cntState = "wait0")

\* The counter that is being raised is that of the packet that leaves.
Counting ==
  /\ streamRw \in BOOLEAN /\ (streamRw => cntState = "trans")
  /\ addressB \in Flows
  /\ cntState \in {"wait0", "wait1", "write"} =>
       addressB = Kinds[stream[1].pkt].flow /\ streamAddr = addressB
  /\ DOMAIN counts = Flows /\ counts = [f \in Flows |-> counts[f]]

\* Software writes nothing but 0, and only to the counter of flow 0.
Beats == {Quiet} \cup {HeadBeat(Command(op)) : op \in Ops}
                 \cup {TailBeat(Command(op)) : op \in Ops}
Software ==
  /\ cinGoe \in Beats /\ goeShown \in Beats /\ goeFifo \in Seq(Beats)
  /\ portA = <<>> \/ portA = <<0, 0>>

GoeInv == /\ Wire /\ Discard /\ Queue /\ Sending /\ Balance /\ Level
          /\ Counting /\ Software

\* pktout may stall only while the FIFO has room for what stalls, a word for
\* each packet in it (goe needs a clock to begin one), and two words; and the
\* FIFO is longer than any packet.
Roomy ==
  /\ \A k \in DOMAIN Kinds : ~Kinds[k].drop => Kinds[k].len < StreamDepth
  /\ \E m \in Nat \ {0} :
       /\ \A k \in DOMAIN Kinds : ~Kinds[k].drop => m <= Kinds[k].len
       /\ \A v \in Nat : m * v <= StallUpTo => StallUpTo + v + 2 <= StreamDepth
-----------------------------------------------------------------------------
(***************************************************************************)
(* Words, and sequences of them.                                           *)
(***************************************************************************)

\* A kept word is the word of its number of a packet that is kept; the first
\* three are never the last one.
LEMMA KeptType ==
  ASSUME NEW b \in KeptWords
  PROVE  /\ b.pkt \in DOMAIN Kinds /\ Kinds[b.pkt].drop = FALSE
         /\ Kinds[b.pkt].len \in Nat /\ Kinds[b.pkt].len >= 4
         /\ b.seq \in Nat /\ b.seq < Kinds[b.pkt].len
         /\ b = Word(b.pkt, b.seq)
         /\ b.wr = TRUE /\ b # Idle
         /\ (b.flag = "tail") = (b.seq = Kinds[b.pkt].len - 1)
         /\ b.flag # "none"
<1>1. PICK k \in KeptKinds : b \in {Word(k, n) : n \in WordNo(k)}
  BY DEF KeptWords
<1>2. PICK n \in WordNo(k) : b = Word(k, n)
  BY <1>1
<1>3. /\ k \in DOMAIN Kinds /\ Kinds[k].drop = FALSE
      /\ Kinds[k].len \in Nat /\ Kinds[k].len >= 4
  BY GoeAssumption DEF KeptKinds
<1>4. n \in Nat /\ n < Kinds[k].len
  BY <1>3 DEF WordNo
<1>5. b.pkt = k /\ b.seq = n /\ b.wr = TRUE
  BY <1>2 DEF Word
<1>6. b # Idle
  BY <1>5 DEF Idle
<1>7. (b.flag = "tail") = (n = Kinds[k].len - 1) /\ b.flag # "none"
  BY <1>2, <1>3, <1>4 DEF Word
<1>8. QED
  BY <1>2, <1>3, <1>4, <1>5, <1>6, <1>7

\* A word of a packet that is kept is a kept word.
LEMMA WordKept ==
  ASSUME NEW k \in DOMAIN Kinds, ~Kinds[k].drop, NEW n \in WordNo(k)
  PROVE  Word(k, n) \in KeptWords
  BY DEF KeptWords, KeptKinds

\* There are finitely many last words in a sequence.
LEMMA TailsFinite ==
  ASSUME NEW q \in Seq(KeptWords)
  PROVE  IsFiniteSet(Tails(q)) /\ Cardinality(Tails(q)) \in Nat
<1>1. IsFiniteSet(1 .. Len(q))
  BY FS_Interval
<1>2. Tails(q) \in SUBSET (1 .. Len(q))
  BY DEF Tails
<1>3. QED
  BY <1>1, <1>2, FS_Subset, FS_CardinalityType

\* A word that is put at the end counts if it is a last one.
LEMMA TailsAppend ==
  ASSUME NEW q \in Seq(KeptWords), NEW w \in KeptWords
  PROVE  Cardinality(Tails(Append(q, w)))
           = Cardinality(Tails(q)) + One(w.flag = "tail")
<1> DEFINE n == Len(q) + 1
<1>1. Len(Append(q, w)) = n /\ n \in Nat /\ n \notin Tails(q)
      /\ Append(q, w)[n] = w /\ \A i \in 1 .. Len(q) : Append(q, w)[i] = q[i]
  BY DEF Tails
<1>2. CASE w.flag = "tail"
  <2>1. Tails(Append(q, w)) = Tails(q) \cup {n}
    BY <1>1, <1>2 DEF Tails
  <2>2. QED
    BY <2>1, <1>1, <1>2, TailsFinite, FS_AddElement DEF One
<1>3. CASE w.flag # "tail"
  <2>1. Tails(Append(q, w)) = Tails(q)
    BY <1>1, <1>3 DEF Tails
  <2>2. QED
    BY <2>1, <1>3, TailsFinite DEF One
<1>4. QED
  BY <1>2, <1>3

\* The first word that is taken off counts no more.
LEMMA TailsTail ==
  ASSUME NEW q \in Seq(KeptWords), q # <<>>
  PROVE  Cardinality(Tails(Tail(q)))
           = Cardinality(Tails(q)) - One(q[1].flag = "tail")
<1> DEFINE A == Tails(q) \ {1}
           B == Tails(Tail(q))
           f == [i \in A |-> i - 1]
<1>1. /\ Len(q) \in Nat /\ Len(q) >= 1 /\ Len(Tail(q)) = Len(q) - 1
      /\ \A i \in 1 .. Len(q) - 1 : Tail(q)[i] = q[i + 1]
  OBVIOUS
<1>2. A \subseteq 2 .. Len(q)
  BY <1>1 DEF Tails
<1>3. f \in Bijection(A, B)
  <2>1. \A i \in A : i \in 2 .. Len(q) /\ q[i].flag = "tail"
    BY <1>2 DEF Tails
  <2>2. \A i \in A : i - 1 \in B
    <3> SUFFICES ASSUME NEW i \in A PROVE i - 1 \in B
      OBVIOUS
    <3>1. i - 1 \in 1 .. Len(q) - 1 /\ (i - 1) + 1 = i
      BY <2>1, <1>1
    <3>2. Tail(q)[i - 1] = q[i]
      BY <3>1, <1>1
    <3>3. QED
      BY <3>1, <3>2, <2>1, <1>1 DEF Tails
  <2>3. \A j \in B : j + 1 \in A /\ j \in Nat
    <3> SUFFICES ASSUME NEW j \in B PROVE j + 1 \in A /\ j \in Nat
      OBVIOUS
    <3>1. j \in 1 .. Len(q) - 1 /\ Tail(q)[j].flag = "tail"
      BY <1>1 DEF Tails
    <3>2. QED
      BY <3>1, <1>1 DEF Tails
  <2>4. f \in [A -> B]
    BY <2>2
  <2>5. \A i, j \in A : f[i] = f[j] => i = j
    BY <2>1
  <2>6. \A j \in B : \E i \in A : f[i] = j
    <3> SUFFICES ASSUME NEW j \in B PROVE \E i \in A : f[i] = j
      OBVIOUS
    <3>1. j + 1 \in A /\ f[j + 1] = j
      BY <2>3
    <3>2. QED
      BY <3>1
  <2>7. QED
    BY <2>4, <2>5, <2>6, Fun_IsBij
<1>4. IsFiniteSet(A) /\ Cardinality(A) = Cardinality(Tails(q)) - One(1 \in Tails(q))
  BY TailsFinite, FS_RemoveElement DEF One
<1>5. Cardinality(B) = Cardinality(A)
  BY <1>3, <1>4, FS_Bijection, Fun_ExistsBij
<1>6. (1 \in Tails(q)) = (q[1].flag = "tail")
  BY <1>1 DEF Tails
<1>7. QED
  BY <1>4, <1>5, <1>6

\* A set of last words is empty when it counts none.
LEMMA TailsEmpty ==
  ASSUME NEW q \in Seq(KeptWords)
  PROVE  (Cardinality(Tails(q)) = 0) = (Tails(q) = {})
  BY TailsFinite, FS_EmptySet
\* What may be put behind a sequence of words.
Joins(q, w) ==
  IF q # <<>> /\ q[Len(q)].flag # "tail"
  THEN w.pkt = q[Len(q)].pkt /\ w.seq = q[Len(q)].seq + 1
  ELSE w.seq = 0

LEMMA ChainedAppend ==
  ASSUME NEW q \in Seq(KeptWords), NEW w \in KeptWords, Chained(q), Joins(q, w)
  PROVE  Chained(Append(q, w))
<1> DEFINE n == Len(q) + 1
           a == Append(q, w)
<1>0. /\ Len(q) \in Nat /\ Len(a) = n /\ a[n] = w
      /\ \A i \in 1 .. Len(q) : a[i] = q[i] /\ q[i] \in KeptWords
      /\ q # <<>> => Len(q) >= 1
  OBVIOUS
<1>1. \A i \in 1 .. Len(q) : q[i].seq \in Nat
  BY <1>0, KeptType
<1>2. w.seq \in Nat
  BY KeptType
<1>3. ASSUME NEW j \in 1 .. n, NEW i \in 1 .. j, j - i <= a[j].seq
      PROVE  a[i].pkt = a[j].pkt /\ a[i].seq = a[j].seq - (j - i)
  <2>1. CASE j # n
    <3>1. j \in 1 .. Len(q) /\ i \in 1 .. Len(q) /\ a[j] = q[j] /\ a[i] = q[i]
      BY <2>1, <1>0
    <3>2. QED
      BY <3>1, <1>3 DEF Chained
  <2>2. CASE j = n /\ i = n
    BY <2>2, <1>0, <1>2
  <2>3. CASE j = n /\ i # n
    <3>1. i \in 1 .. Len(q) /\ a[i] = q[i] /\ a[j] = w /\ q # <<>>
      BY <2>3, <1>0
    <3>2. w.seq # 0
      BY <2>3, <3>1, <1>3, <1>0, <1>2
    <3>3. w.pkt = q[Len(q)].pkt /\ w.seq = q[Len(q)].seq + 1
      BY <3>2 DEF Joins
    <3>4. Len(q) \in 1 .. Len(q) /\ q[Len(q)].seq \in Nat
      BY <1>0, <1>1, <3>1
    <3>5. Len(q) - i <= q[Len(q)].seq /\ i \in 1 .. Len(q)
      BY <3>1, <3>3, <3>4, <1>3, <2>3, <1>0
    <3>6. q[i].pkt = q[Len(q)].pkt /\ q[i].seq = q[Len(q)].seq - (Len(q) - i)
      BY <3>4, <3>5 DEF Chained
    <3>7. QED
      BY <3>1, <3>3, <3>4, <3>6, <2>3, <1>0
  <2>4. QED
    BY <2>1, <2>2, <2>3
<1>4. ASSUME NEW j \in 2 .. n, a[j].seq = 0
      PROVE  a[j - 1].flag = "tail"
  <2>1. CASE j # n
    <3>1. j \in 2 .. Len(q) /\ j - 1 \in 1 .. Len(q)
      BY <2>1, <1>0
    <3>2. a[j] = q[j] /\ a[j - 1] = q[j - 1]
      BY <3>1, <1>0
    <3>3. QED
      BY <3>1, <3>2, <1>4 DEF Chained
  <2>2. CASE j = n
    <3>1. j - 1 = Len(q) /\ q # <<>> /\ Len(q) \in 1 .. Len(q)
      BY <2>2, <1>0
    <3>2. a[j - 1] = q[Len(q)] /\ w.seq = 0
      BY <3>1, <2>2, <1>0, <1>4
    <3>3. q[Len(q)].seq + 1 # 0
      BY <3>1, <1>1
    <3>4. QED
      BY <3>1, <3>2, <3>3 DEF Joins
  <2>3. QED
    BY <2>1, <2>2
<1>5. QED
  BY <1>0, <1>3, <1>4 DEF Chained

LEMMA ChainedTail ==
  ASSUME NEW q \in Seq(KeptWords), Chained(q), q # <<>>
  PROVE  Chained(Tail(q))
<1> DEFINE t == Tail(q)
<1>0. /\ Len(q) \in Nat /\ Len(q) >= 1 /\ Len(t) = Len(q) - 1
      /\ \A i \in 1 .. Len(q) - 1 : t[i] = q[i + 1]
  OBVIOUS
<1>1. ASSUME NEW j \in 1 .. Len(t), NEW i \in 1 .. j, j - i <= t[j].seq
      PROVE  t[i].pkt = t[j].pkt /\ t[i].seq = t[j].seq - (j - i)
  <2>1. /\ j + 1 \in 1 .. Len(q) /\ i + 1 \in 1 .. (j + 1)
        /\ (j + 1) - (i + 1) = j - i
        /\ t[j] = q[j + 1] /\ t[i] = q[i + 1]
    BY <1>0
  <2>2. QED
    BY <2>1, <1>1 DEF Chained
<1>2. ASSUME NEW j \in 2 .. Len(t), t[j].seq = 0
      PROVE  t[j - 1].flag = "tail"
  <2>1. /\ j + 1 \in 2 .. Len(q) /\ (j + 1) - 1 = j
        /\ t[j] = q[j + 1] /\ t[j - 1] = q[j]
    BY <1>0
  <2>2. q[(j + 1) - 1].flag = "tail"
    BY <2>1, <1>2 DEF Chained
  <2>3. QED
    BY <2>1, <2>2
<1>3. QED
  BY <1>0, <1>1, <1>2 DEF Chained

\* The word behind one that is not the last is the next of its packet; behind a
\* last one a packet begins.
LEMMA ChainedNext ==
  ASSUME NEW q \in Seq(KeptWords), Chained(q), NEW i \in 1 .. Len(q) - 1
  PROVE  IF q[i].flag = "tail" THEN q[i + 1].seq = 0
         ELSE q[i + 1].pkt = q[i].pkt /\ q[i + 1].seq = q[i].seq + 1
<1>0. /\ i + 1 \in 2 .. Len(q) /\ i \in 1 .. (i + 1) /\ (i + 1) - i = 1
      /\ i + 1 \in 1 .. Len(q) /\ (i + 1) - 1 = i /\ i \in 1 .. Len(q)
      /\ q[i] \in KeptWords /\ q[i + 1] \in KeptWords
  OBVIOUS
<1>1. /\ q[i].seq \in Nat /\ q[i + 1].seq \in Nat
      /\ Kinds[q[i].pkt].len \in Nat
      /\ (q[i].flag = "tail") = (q[i].seq = Kinds[q[i].pkt].len - 1)
      /\ q[i + 1].seq < Kinds[q[i + 1].pkt].len
  BY <1>0, KeptType
<1>2. CASE q[i + 1].seq = 0
  <2>1. q[i].flag = "tail"
    BY <1>0, <1>2 DEF Chained
  <2>2. QED
    BY <2>1, <1>2
<1>3. CASE q[i + 1].seq # 0
  <2>1. q[i].pkt = q[i + 1].pkt /\ q[i].seq = q[i + 1].seq - 1
    BY <1>0, <1>1, <1>3 DEF Chained
  <2>2. q[i].flag # "tail"
    BY <2>1, <1>1
  <2>3. QED
    BY <2>1, <2>2, <1>1
<1>4. QED
  BY <1>2, <1>3

\* Packets are no shorter than the shortest: if a sequence begins with a first
\* word, each last word has as many words for itself.
LEMMA PacketsNeedRoom ==
  ASSUME NEW q \in Seq(KeptWords), Chained(q), q = <<>> \/ q[1].seq = 0,
         NEW m \in Nat \ {0}, \A k \in KeptKinds : m <= Kinds[k].len
  PROVE  m * Cardinality(Tails(q)) <= Len(q)
<1> DEFINE T == Tails(q)
           D == 0 .. m - 1
           f == [x \in T \X D |-> x[1] - x[2]]
<1>0. /\ Len(q) \in Nat /\ T \subseteq 1 .. Len(q)
      /\ \A i \in T : q[i] \in KeptWords /\ q[i].flag = "tail"
  BY DEF Tails
<1>1. ASSUME NEW j \in T PROVE q[j].seq \in Nat /\ q[j].seq >= m - 1
  <2>1. q[j] \in KeptWords /\ q[j].flag = "tail"
    BY <1>0
  <2>2. /\ q[j].pkt \in KeptKinds /\ q[j].seq = Kinds[q[j].pkt].len - 1
        /\ Kinds[q[j].pkt].len \in Nat /\ q[j].seq \in Nat
    BY <2>1, KeptType DEF KeptKinds
  <2>3. m <= Kinds[q[j].pkt].len
    BY <2>2
  <2>4. QED
    BY <2>2, <2>3
<1>2. ASSUME NEW j \in T, NEW i \in T, i < j PROVE j - i >= m
  <2>1. i \in 1 .. j /\ j \in 1 .. Len(q) /\ i \in 1 .. Len(q)
    BY <1>0, <1>2
  <2>2. /\ q[i].seq = Kinds[q[i].pkt].len - 1 /\ q[j].seq = Kinds[q[j].pkt].len - 1
        /\ Kinds[q[j].pkt].len \in Nat
    BY <1>0, KeptType
  <2>3. ~(j - i <= q[j].seq)
    <3>1. i \in Nat /\ j \in Nat /\ i < j
      BY <2>1, <1>0, <1>2
    <3>2. j - i <= q[j].seq => q[i].pkt = q[j].pkt /\ q[i].seq = q[j].seq - (j - i)
      BY <2>1 DEF Chained
    <3>3. QED
      BY <3>1, <3>2, <2>2, SMTT(30)
  <2>4. QED
    BY <2>1, <2>3, <1>1
<1>3. ASSUME NEW j \in T PROVE j >= m
  <2>1. j \in 1 .. Len(q) /\ 1 \in 1 .. j /\ q # <<>> /\ q[1].seq = 0
    BY <1>0
  <2>2. j - 1 <= q[j].seq => 0 = q[j].seq - (j - 1)
    BY <2>1 DEF Chained
  <2>3. QED
    BY <2>1, <2>2, <1>1
<1>4. f \in [T \X D -> 1 .. Len(q)]
  <2> SUFFICES ASSUME NEW x \in T \X D PROVE x[1] - x[2] \in 1 .. Len(q)
    OBVIOUS
  <2>1. x[1] \in T /\ x[2] \in 0 .. m - 1 /\ x[1] \in 1 .. Len(q) /\ x[1] >= m
    BY <1>0, <1>3
  <2>2. QED
    BY <2>1, <1>0
<1>5. \A x, y \in T \X D : f[x] = f[y] => x = y
  <2> SUFFICES ASSUME NEW x \in T \X D, NEW y \in T \X D, f[x] = f[y]
               PROVE  x = y
    OBVIOUS
  <2>1. /\ x[1] \in T /\ y[1] \in T /\ x[2] \in 0 .. m - 1 /\ y[2] \in 0 .. m - 1
        /\ x[1] \in Nat /\ y[1] \in Nat
        /\ x = <<x[1], x[2]>> /\ y = <<y[1], y[2]>>
        /\ x[1] - x[2] = y[1] - y[2]
    BY <1>0
  <2>2. ~(x[1] < y[1]) /\ ~(y[1] < x[1])
    BY <2>1, <1>2
  <2>3. x[1] = y[1] /\ x[2] = y[2]
    BY <2>1, <2>2
  <2>4. QED
    BY <2>1, <2>3
<1> HIDE DEF f
<1>6. f \in Injection(T \X D, 1 .. Len(q))
  BY <1>4, <1>5, Fun_IsInj
<1>7. IsFiniteSet(1 .. Len(q)) /\ Cardinality(1 .. Len(q)) = Len(q)
  <2>1. 1 \in Int /\ Len(q) \in Int
    BY <1>0
  <2>2. /\ IsFiniteSet(1 .. Len(q))
        /\ Cardinality(1 .. Len(q)) = IF 1 > Len(q) THEN 0 ELSE Len(q) - 1 + 1
    BY <2>1, FS_Interval
  <2>3. QED
    BY <1>0, <2>2
<1>8. IsFiniteSet(D) /\ Cardinality(D) = m
  <2>1. m - 1 \in Int /\ 0 \in Int /\ ~(0 > m - 1) /\ (m - 1) - 0 + 1 = m
    OBVIOUS
  <2>2. /\ IsFiniteSet(0 .. m - 1)
        /\ Cardinality(0 .. m - 1)
             = IF 0 > m - 1 THEN 0 ELSE (m - 1) - 0 + 1
    BY <2>1, FS_Interval
  <2>3. QED
    BY <2>1, <2>2
<1>9. Cardinality(T \X D) = Cardinality(T) * m
  <2>1. IsFiniteSet(T)
    BY TailsFinite
  <2> HIDE DEF T, D
  <2>2. QED
    BY <1>8, <2>1, FS_Product
<1>10. Cardinality(T \X D) <= Len(q)
  BY <1>6, <1>7, FS_Injection
<1>11. QED
  BY <1>9, <1>10, TailsFinite
-----------------------------------------------------------------------------
(***************************************************************************)
(* The queue, and what a step does to it.                                  *)
(***************************************************************************)

LEMMA IdleWord == Idle.wr = FALSE /\ Idle.flag = "none" /\ Idle.seq = 0
  BY DEF Idle

\* The word on the wires to the FIFO is the last one of Q.
QueueFacts ==
  /\ Q \in Seq(KeptWords) /\ stream \in Seq(KeptWords)
  /\ inStream.wr \in BOOLEAN /\ (inStream.wr => inStream \in KeptWords)
  /\ inValid \in BOOLEAN
  /\ Len(Q) = Len(stream) + One(inStream.wr)
  /\ inStream.wr => Q # <<>> /\ Q[Len(Q)] = inStream
  /\ ~inStream.wr => Q = stream
  /\ stream # <<>> => /\ Q # <<>> /\ Q[1] = stream[1]
                      /\ stream[1] \in KeptWords
                      /\ Head(stream) = stream[1]
  /\ Cardinality(Tails(Q)) = Cardinality(Tails(stream)) + One(inValid)
  /\ Tails(stream) \subseteq Tails(Q)

LEMMA QueueIs == Queue /\ Discard => QueueFacts
<1> SUFFICES ASSUME Queue, Discard PROVE QueueFacts
  OBVIOUS
<1>1. stream \in Seq(KeptWords) /\ inStream \in KeptWords \cup {Idle}
      /\ inValid = (inStream.flag = "tail")
  BY DEF Queue, Discard
<1>2. CASE inStream \in KeptWords
  <2>1. inStream.wr = TRUE /\ Q = Append(stream, inStream)
    BY <1>2, KeptType DEF Q
  <2>2. /\ Q \in Seq(KeptWords) /\ Len(Q) = Len(stream) + 1 /\ Q # <<>>
        /\ Q[Len(Q)] = inStream /\ \A i \in 1 .. Len(stream) : Q[i] = stream[i]
    BY <2>1, <1>1, <1>2
  <2>3. Cardinality(Tails(Q)) = Cardinality(Tails(stream)) + One(inValid)
    BY <2>1, <1>1, <1>2, TailsAppend
  <2>4. Tails(stream) \subseteq Tails(Q)
    BY <2>2, <1>1 DEF Tails
  <2>5. stream # <<>> => 1 \in 1 .. Len(stream) /\ Head(stream) = stream[1]
    BY <1>1
  <2>6. stream # <<>> => Q[1] = stream[1] /\ stream[1] \in KeptWords
    BY <1>1, <2>2, <2>5
  <2>7. One(inStream.wr) = 1 /\ inValid \in BOOLEAN
    BY <1>1, <2>1 DEF One
  <2>8. QED
    BY <1>1, <1>2, <2>1, <2>2, <2>3, <2>4, <2>5, <2>6, <2>7 DEF QueueFacts
<1>3. CASE inStream = Idle
  <2>1. inStream.wr = FALSE /\ inValid = FALSE /\ Q = stream
    BY <1>1, <1>3, IdleWord DEF Q
  <2>2. stream # <<>> => stream[1] \in KeptWords /\ Head(stream) = stream[1]
    BY <1>1
  <2>3. One(inStream.wr) = 0 /\ One(inValid) = 0
    BY <2>1 DEF One
  <2>4. /\ Len(Q) = Len(stream) + 0
        /\ Cardinality(Tails(Q)) = Cardinality(Tails(stream)) + 0
    BY <1>1, <2>1, TailsFinite
  <2>5. QED
    BY <1>1, <2>1, <2>2, <2>3, <2>4 DEF QueueFacts
<1>4. QED
  BY <1>1, <1>2, <1>3

LEMMA QueueType == ASSUME GoeInv PROVE QueueFacts
  BY QueueIs DEF GoeInv

LEMMA QueueTypeNext == ASSUME Queue', Discard' PROVE QueueFacts'
<1>1. (Queue /\ Discard => QueueFacts)'
  BY QueueIs, PTL
<1>2. QED
  BY <1>1

\* The queue never holds more than the FIFO does: Room.
LEMMA QueueFits ==
  ASSUME GoeInv
  PROVE  Len(Q) <= StreamDepth
<1>1. /\ valids \in Nat /\ Q \in Seq(KeptWords)
      /\ Len(Q) + valids <= StreamDepth + One(cntState = "wait0")
      /\ valids + One(inValid) + One(Leaving) = Cardinality(Tails(Q))
      /\ StreamDepth \in Nat
  BY QueueType, GoeAssumption DEF GoeInv, Balance, Level, QueueFacts
<1>2. CASE cntState # "wait0"
  BY <1>1, <1>2 DEF One
<1>3. CASE cntState = "wait0"
  <2>1. Cardinality(Tails(stream)) # 0
    BY <1>3, QueueType, TailsEmpty DEF GoeInv, Sending, QueueFacts
  <2>2. Cardinality(Tails(stream)) \in Nat
    BY QueueType, TailsFinite DEF QueueFacts
  <2>3. Cardinality(Tails(Q)) = Cardinality(Tails(stream)) + One(inValid)
    BY QueueType DEF QueueFacts
  <2>4. valids = Cardinality(Tails(stream))
    BY <1>1, <1>3, <2>2, <2>3, QueueType DEF One, Leaving, QueueFacts
  <2>5. QED
    BY <1>1, <1>3, <2>1, <2>2, <2>4 DEF One
<1>4. QED
  BY <1>2, <1>3

\* So nothing is lost: the first word goes off if it is sent, and the word on
\* the wires goes in.
LEMMA StreamMoves ==
  ASSUME GoeInv, StreamFifo
  PROVE  /\ stream' = IF dataRd THEN Tail(Q) ELSE Q
         /\ dataRd => stream # <<>>
<1>1. dataRd => stream # <<>>
  <2>1. stream = <<>> => 1 .. Len(stream) = {}
    OBVIOUS
  <2>2. stream = <<>> => Tails(stream) = {}
    BY <2>1 DEF Tails
  <2>3. dataRd => Tails(stream) # {}
    BY DEF GoeInv, Sending
  <2>4. QED
    BY <2>2, <2>3
<1>2. inStream.wr => Len(stream) < StreamDepth
  <2> SUFFICES ASSUME inStream.wr PROVE Len(stream) < StreamDepth
    OBVIOUS
  <2>1. Len(Q) = Len(stream) + 1 /\ Len(stream) \in Nat
    BY QueueType DEF One, QueueFacts
  <2>2. QED
    BY <2>1, QueueFits, GoeAssumption
<1>3. stream' = LET p == IF dataRd THEN Tail(stream) ELSE stream
                IN  IF inStream.wr THEN Append(p, inStream) ELSE p
  <2>1. dataRd \in BOOLEAN /\ inStream.wr \in BOOLEAN
    BY QueueType DEF GoeInv, Sending, QueueFacts
  <2>2. (dataRd /\ stream # <<>>) = dataRd
    BY <1>1, <2>1
  <2>3. (inStream.wr /\ Len(stream) < StreamDepth) = inStream.wr
    BY <1>2, <2>1
  <2>4. QED
    BY <2>2, <2>3 DEF StreamFifo
<1>4. CASE inStream.wr
  <2>1. Q = Append(stream, inStream)
    BY <1>4 DEF Q
  <2>2. stream # <<>> => Tail(Append(stream, inStream)) = Append(Tail(stream), inStream)
    <3> SUFFICES ASSUME stream # <<>>
                 PROVE  Tail(Append(stream, inStream)) = Append(Tail(stream), inStream)
      OBVIOUS
    <3>1. stream \in Seq(KeptWords) /\ inStream \in KeptWords
      BY <1>4, QueueType DEF QueueFacts
    <3> DEFINE a == Tail(Append(stream, inStream))
               b == Append(Tail(stream), inStream)
    <3>2. a \in Seq(KeptWords) /\ b \in Seq(KeptWords) /\ Len(a) = Len(stream)
          /\ Len(b) = Len(stream)
      BY <3>1
    <3>3. \A i \in 1 .. Len(stream) : a[i] = b[i]
      BY <3>1
    <3>4. QED
      BY <3>2, <3>3, SeqEqual
  <2>3. QED
    BY <1>1, <1>3, <1>4, <2>1, <2>2
<1>5. CASE ~inStream.wr
  BY <1>1, <1>3, <1>5 DEF Q
<1>6. QED
  BY <1>1, <1>4, <1>5, QueueType DEF QueueFacts
-----------------------------------------------------------------------------
(***************************************************************************)
(* What comes in.                                                          *)
(***************************************************************************)

\* The packets, and the numbers of their words.
LEMMA LenType ==
  ASSUME NEW k \in DOMAIN Kinds
  PROVE  /\ Kinds[k].len \in Nat /\ Kinds[k].len >= 4
         /\ Kinds[k].drop \in BOOLEAN
         /\ \A n \in WordNo(k) : n \in Nat /\ n < Kinds[k].len
  BY GoeAssumption DEF WordNo

\* The next word on the wires from pgm.
LEMMA WireMoves ==
  ASSUME Wire, PgmSends
  PROVE  /\ Wire'
         /\ Open(inGoe) => inGoe' = Word(inGoe.pkt, inGoe.seq + 1)
                           /\ inGoe.pkt \in DOMAIN Kinds
                           /\ inGoe.seq + 1 \in WordNo(inGoe.pkt)
         /\ ~Open(inGoe) => inGoe' = Idle \/ (~inGoe.wr /\ inGoe'.seq = 0)
<1>1. CASE inGoe = Idle
  <2>1. ~Open(inGoe) /\ ~inGoe.wr
    BY <1>1, IdleWord DEF Open
  <2>2. CASE inGoe' = Idle
    BY <2>1, <2>2 DEF Wire
  <2>3. CASE \E k \in DOMAIN Kinds : inGoe' = Word(k, 0)
    <3>1. PICK k \in DOMAIN Kinds : inGoe' = Word(k, 0)
      BY <2>3
    <3>2. 0 \in WordNo(k)
      BY GoeAssumption DEF WordNo
    <3>3. inGoe'.seq = 0
      BY <3>1 DEF Word
    <3>4. QED
      BY <2>1, <3>1, <3>2, <3>3 DEF Wire
  <2>4. QED
    BY <2>1, <2>2, <2>3 DEF PgmSends
<1>2. CASE \E k \in DOMAIN Kinds : \E n \in WordNo(k) : inGoe = Word(k, n)
  <2>0. PICK k \in DOMAIN Kinds : \E n \in WordNo(k) : inGoe = Word(k, n)
    BY <1>2
  <2>1. PICK n \in WordNo(k) : inGoe = Word(k, n)
    BY <2>0
  <2>2. /\ inGoe.wr = TRUE /\ inGoe.pkt = k /\ inGoe.seq = n /\ n \in Nat
        /\ Kinds[k].len \in Nat /\ n < Kinds[k].len
        /\ (inGoe.flag = "tail") = (n = Kinds[k].len - 1)
    BY <2>1, LenType DEF Word
  <2>3. CASE n = Kinds[k].len - 1
    <3>1. ~Open(inGoe)
      BY <2>2, <2>3 DEF Open
    <3>2. inGoe' = Idle
      BY <3>1, <2>2 DEF PgmSends
    <3>3. QED
      BY <3>1, <3>2 DEF Wire
  <2>4. CASE n # Kinds[k].len - 1
    <3>1. Open(inGoe)
      BY <2>2, <2>4 DEF Open
    <3>2. inGoe' = Word(k, n + 1)
      BY <3>1, <2>2 DEF PgmSends
    <3>3. n + 1 \in WordNo(k)
      BY <2>2, <2>4 DEF WordNo
    <3>4. Wire'
      BY <3>2, <3>3 DEF Wire
    <3>5. QED
      BY <3>1, <3>2, <3>3, <3>4, <2>2
  <2>5. QED
    BY <2>3, <2>4
<1>3. QED
  BY <1>1, <1>2 DEF Wire

\* A word that is kept goes to the FIFO a clock later, the others nowhere.
LEMMA DiscardMoves ==
  ASSUME Wire, Discard, PgmSends, DelIdle(inGoe) \/ DelTrans(inGoe)
  PROVE  /\ Discard'
         /\ inStream'.wr =>
              IF delState = "trans" /\ ~writeEn
              THEN /\ inStream.wr /\ inStream.flag # "tail"
                   /\ inStream'.pkt = inStream.pkt
                   /\ inStream'.seq = inStream.seq + 1
              ELSE inStream'.seq = 0
         /\ delState = "trans" /\ ~writeEn => inStream'.wr
<1>0. delState \in {"idle", "trans"}
  BY DEF Discard
<1>1. CASE delState = "idle" /\ inGoe = Idle
  <2>1. ~IsHead(inGoe) /\ ~Open(inGoe)
    BY <1>1, IdleWord DEF IsHead, Open
  <2>2. inStream' = Idle /\ inValid' = FALSE /\ delState' = "idle"
    BY <1>1, <2>1 DEF DelIdle, DelTrans
  <2>3. inGoe' = Idle \/ inGoe'.seq = 0
    BY <2>1, WireMoves
  <2>4. QED
    BY <1>1, <2>2, <2>3, IdleWord DEF Discard
<1>2. CASE inGoe # Idle
  <2>0. PICK k \in DOMAIN Kinds : \E n \in WordNo(k) : inGoe = Word(k, n)
    BY <1>2 DEF Wire
  <2>1. PICK n \in WordNo(k) : inGoe = Word(k, n)
    BY <2>0
  <2>2. /\ inGoe.wr = TRUE /\ inGoe.pkt = k /\ inGoe.seq = n /\ n \in Nat
        /\ Kinds[k].len \in Nat /\ Kinds[k].len >= 4 /\ n < Kinds[k].len
        /\ Kinds[k].drop \in BOOLEAN
        /\ (inGoe.flag = "tail") = (n = Kinds[k].len - 1)
        /\ (inGoe.flag = "head") = (n = 0)
    BY <2>1, LenType DEF Word
  <2>3. ~Kinds[k].drop => inGoe \in KeptWords
    BY <2>1, WordKept
  <2>4. inGoe.flag # "tail" =>
          /\ inGoe' = Word(k, n + 1) /\ n + 1 \in WordNo(k)
          /\ inGoe' # Idle /\ inGoe'.seq = n + 1 /\ inGoe'.pkt = k
    <3>1. SUFFICES ASSUME inGoe.flag # "tail"
                   PROVE  /\ inGoe' = Word(k, n + 1) /\ n + 1 \in WordNo(k)
                          /\ inGoe' # Idle /\ inGoe'.seq = n + 1
                          /\ inGoe'.pkt = k
      OBVIOUS
    <3>2. Open(inGoe)
      BY <3>1, <2>2 DEF Open
    <3>3. inGoe' = Word(k, n + 1) /\ n + 1 \in WordNo(k)
      BY <3>2, <2>2, WireMoves
    <3>4. inGoe'.wr = TRUE
      BY <3>3 DEF Word
    <3>5. inGoe'.seq = n + 1 /\ inGoe'.pkt = k
      BY <3>3 DEF Word
    <3>6. inGoe' # Idle
      BY <3>4, IdleWord
    <3>7. QED
      BY <3>3, <3>5, <3>6
  <2>5. CASE delState = "idle"
    <3>1. n = 0 /\ inGoe.flag # "tail" /\ IsHead(inGoe)
      BY <1>2, <2>2, <2>5 DEF Discard, IsHead
    <3>2. /\ inValid' = FALSE /\ delState' = "trans"
          /\ writeEn' = Kinds[k].drop
          /\ inStream' = IF Kinds[k].drop THEN Idle ELSE inGoe
      BY <2>2, <2>5, <3>1 DEF DelIdle, DelTrans, Store
    <3>3. inGoe' = Word(k, 1) /\ inGoe'.pkt = k /\ inGoe'.seq = 1 /\ inGoe' # Idle
      BY <3>1, <2>4
    <3>4. inStream' \in KeptWords \cup {Idle} /\ inStream'.flag # "tail"
      BY <3>1, <3>2, <2>3, IdleWord
    <3>5. inStream' = IF writeEn' THEN Idle ELSE Word(inGoe'.pkt, inGoe'.seq - 1)
      BY <3>1, <3>2, <3>3, <2>1
    <3>6. Discard'
      <4>1. inValid' = (inStream'.flag = "tail")
        BY <3>2, <3>4
      <4>2. writeEn' = Kinds[inGoe'.pkt].drop /\ inGoe'.seq > 0
        BY <3>2, <3>3
      <4>3. QED
        BY <3>2, <3>3, <3>4, <3>5, <4>1, <4>2 DEF Discard
    <3>7. inStream'.wr => inStream'.seq = 0
      BY <3>1, <3>2, <2>2, IdleWord
    <3>8. QED
      BY <3>6, <3>7, <2>5
  <2>6. CASE delState = "trans"
    <3>1. /\ n > 0 /\ writeEn = Kinds[k].drop
          /\ inStream = IF writeEn THEN Idle ELSE Word(k, n - 1)
      BY <2>2, <2>6 DEF Discard
    <3>2. /\ inStream' = IF writeEn THEN Idle ELSE inGoe
          /\ inValid' = (IsTail(inGoe) /\ ~writeEn)
          /\ delState' = IF IsTail(inGoe) THEN "idle" ELSE "trans"
          /\ writeEn' = writeEn
      BY <2>2, <2>6 DEF DelIdle, DelTrans, Store
    <3>3. IsTail(inGoe) = (inGoe.flag = "tail") /\ writeEn \in BOOLEAN
      BY <2>2, <3>1 DEF IsTail
    <3>4. inStream' \in KeptWords \cup {Idle}
      BY <3>1, <3>2, <2>3
    <3>5. inValid' = (inStream'.flag = "tail")
      BY <3>2, <3>3, IdleWord
    <3>6. ASSUME inGoe.flag = "tail" PROVE Discard'
      <4>1. ~Open(inGoe)
        BY <3>6 DEF Open
      <4>2. inGoe' = Idle
        BY <4>1, <2>2, WireMoves
      <4>3. delState' = "idle" /\ (inStream' = Idle \/ inStream'.flag = "tail")
        BY <3>2, <3>3, <3>6
      <4>4. QED
        BY <3>4, <3>5, <4>2, <4>3 DEF Discard
    <3>7. ASSUME inGoe.flag # "tail" PROVE Discard'
      <4>1. delState' = "trans"
        BY <3>2, <3>3, <3>7
      <4>2. /\ inGoe' # Idle /\ inGoe'.seq = n + 1 /\ inGoe'.pkt = k
        BY <3>7, <2>4
      <4>3. inGoe'.seq > 0 /\ inGoe'.seq - 1 = n
        BY <4>2, <2>2
      <4>4. inStream' = IF writeEn' THEN Idle ELSE Word(inGoe'.pkt, inGoe'.seq - 1)
        BY <3>2, <4>2, <4>3, <2>1
      <4>5. writeEn' = Kinds[inGoe'.pkt].drop
        BY <3>1, <3>2, <4>2
      <4>6. QED
        BY <3>4, <3>5, <4>1, <4>2, <4>3, <4>4, <4>5 DEF Discard
    <3>8. ~writeEn => /\ inStream.wr /\ inStream.flag # "tail"
                      /\ inStream'.wr /\ inStream'.pkt = inStream.pkt
                      /\ inStream'.seq = inStream.seq + 1
      <4>1. SUFFICES ASSUME ~writeEn
                     PROVE  /\ inStream.wr /\ inStream.flag # "tail"
                            /\ inStream'.wr /\ inStream'.pkt = inStream.pkt
                            /\ inStream'.seq = inStream.seq + 1
        OBVIOUS
      <4>2. inStream = Word(k, n - 1) /\ inStream' = inGoe /\ n - 1 \in WordNo(k)
        BY <4>1, <3>1, <3>2, <2>2 DEF WordNo
      <4>3. /\ inStream.wr = TRUE /\ inStream.pkt = k /\ inStream.seq = n - 1
            /\ (inStream.flag = "tail") = (n - 1 = Kinds[k].len - 1)
        BY <4>2, <2>2 DEF Word
      <4>4. QED
        BY <4>2, <4>3, <2>2
    <3>9. writeEn => ~inStream'.wr
      BY <3>2, IdleWord
    <3>10. QED
      BY <3>6, <3>7, <3>8, <3>9, <2>6
  <2>7. QED
    BY <1>0, <2>5, <2>6
<1>3. delState = "trans" => inGoe # Idle
  BY DEF Discard
<1>4. QED
  BY <1>0, <1>1, <1>2, <1>3
\* What comes in continues what is there, also when the first word goes off.
LEMMA Joining ==
  ASSUME GoeInv, PgmSends, DelIdle(inGoe) \/ DelTrans(inGoe), inStream'.wr
  PROVE  /\ inStream' \in KeptWords /\ Joins(Q, inStream')
         /\ stream # <<>> => Joins(Tail(Q), inStream')
<1>0. /\ Wire /\ Discard /\ Closed
      /\ Q \in Seq(KeptWords) /\ Len(Q) \in Nat /\ stream \in Seq(KeptWords)
  BY QueueType DEF GoeInv, Queue, QueueFacts
<1>1. inStream' \in KeptWords
  <2>1. Discard'
    BY <1>0, DiscardMoves
  <2>2. inStream' \in KeptWords \cup {Idle}
    BY <2>1 DEF Discard
  <2>3. QED
    BY <2>2, IdleWord
<1>2. stream # <<>> => /\ Tail(Q) \in Seq(KeptWords) /\ Len(Tail(Q)) = Len(Q) - 1
                       /\ Tail(Q) # <<>> => Tail(Q)[Len(Tail(Q))] = Q[Len(Q)]
  <2>1. SUFFICES ASSUME stream # <<>>
                 PROVE  /\ Tail(Q) \in Seq(KeptWords)
                        /\ Len(Tail(Q)) = Len(Q) - 1
                        /\ Tail(Q) # <<>> => Tail(Q)[Len(Tail(Q))] = Q[Len(Q)]
    OBVIOUS
  <2>2. Q # <<>>
    BY <2>1, QueueType DEF QueueFacts
  <2>3. QED
    BY <2>2, <1>0
<1>3. CASE delState = "trans" /\ ~writeEn
  <2>1. /\ inStream.wr /\ inStream.flag # "tail"
        /\ inStream'.pkt = inStream.pkt /\ inStream'.seq = inStream.seq + 1
    BY <1>0, <1>3, DiscardMoves
  <2>2. Q # <<>> /\ Q[Len(Q)] = inStream
    BY <2>1, QueueType DEF QueueFacts
  <2>3. Len(Q) = Len(stream) + 1
    <3>1. One(inStream.wr) = 1
      BY <2>1 DEF One
    <3>2. QED
      BY <3>1, QueueType DEF QueueFacts
  <2>4. Joins(Q, inStream')
    BY <2>1, <2>2 DEF Joins
  <2>5. stream # <<>> => Tail(Q) # <<>>
    <3>1. SUFFICES ASSUME stream # <<>> PROVE Tail(Q) # <<>>
      OBVIOUS
    <3>2. Len(stream) \in Nat /\ Len(stream) # 0
      BY <3>1, <1>0
    <3>3. Len(Tail(Q)) # 0
      BY <3>1, <3>2, <2>3, <1>2
    <3>4. QED
      BY <3>1, <3>3, <1>2, EmptySeq
  <2>6. stream # <<>> => Joins(Tail(Q), inStream')
    BY <2>1, <2>2, <2>5, <1>2 DEF Joins
  <2>7. QED
    BY <1>1, <2>4, <2>6
<1>4. CASE ~(delState = "trans" /\ ~writeEn)
  <2>1. inStream'.seq = 0
    BY <1>0, <1>4, DiscardMoves
  <2>2. delState = "idle" \/ writeEn
    BY <1>0, <1>4 DEF Discard
  <2>3. Q = <<>> \/ Q[Len(Q)].flag = "tail"
    BY <1>0, <2>2 DEF Closed
  <2>4. Joins(Q, inStream')
    BY <2>1, <2>3 DEF Joins
  <2>5. stream # <<>> => Joins(Tail(Q), inStream')
    <3>1. stream # <<>> => Q # <<>>
      BY QueueType DEF QueueFacts
    <3>2. QED
      BY <2>1, <2>3, <3>1, <1>2 DEF Joins
  <2>6. QED
    BY <1>1, <2>4, <2>5
<1>5. QED
  BY <1>3, <1>4

\* A step takes the first word of the queue off, or none, and puts one word at
\* its end, or none.
LEMMA QueueMoves ==
  ASSUME GoeInv, PgmSends, DelIdle(inGoe) \/ DelTrans(inGoe), StreamFifo
  PROVE  /\ Queue' /\ QueueFacts'
         /\ stream' = IF dataRd THEN Tail(Q) ELSE Q
         /\ Q' = IF inStream'.wr THEN Append(stream', inStream') ELSE stream'
         /\ inStream'.wr => inStream' \in KeptWords /\ Joins(stream', inStream')
<1>0. /\ Wire /\ Discard /\ Closed /\ Chained(Q) /\ Q \in Seq(KeptWords)
      /\ Len(Q) \in Nat
  BY QueueType DEF GoeInv, Queue, QueueFacts
<1>1. Discard'
  BY <1>0, DiscardMoves
<1>2. /\ stream' = IF dataRd THEN Tail(Q) ELSE Q
      /\ dataRd => stream # <<>> /\ Q # <<>>
  BY StreamMoves, QueueType DEF QueueFacts
<1>3. stream' \in Seq(KeptWords) /\ Chained(stream')
  <2>1. CASE dataRd
    <3>1. Tail(Q) \in Seq(KeptWords)
      BY <2>1, <1>0, <1>2
    <3>2. Chained(Tail(Q))
      BY <2>1, <1>0, <1>2, ChainedTail
    <3>3. QED
      BY <2>1, <1>2, <3>1, <3>2
  <2>2. CASE ~dataRd
    BY <2>2, <1>0, <1>2
  <2>3. QED
    BY <2>1, <2>2
<1>4. Q' = IF inStream'.wr THEN Append(stream', inStream') ELSE stream'
  BY DEF Q
<1>5. inStream'.wr => inStream' \in KeptWords /\ Joins(stream', inStream')
  BY <1>2, Joining
<1>6. Chained(Q')
  <2>1. CASE inStream'.wr
    <3>1. Chained(Append(stream', inStream'))
      BY <2>1, <1>3, <1>5, ChainedAppend
    <3>2. QED
      BY <2>1, <3>1, <1>4
  <2>2. CASE ~inStream'.wr
    BY <2>2, <1>3, <1>4
  <2>3. QED
    BY <2>1, <2>2
<1>7. Closed'
  <2>1. SUFFICES ASSUME delState' = "idle" \/ writeEn'
                 PROVE  Q' = <<>> \/ Q'[Len(Q')].flag = "tail"
    BY DEF Closed
  <2>2. CASE inStream'.wr
    <3>1. inStream'.flag = "tail"
      <4>1. inStream' \in KeptWords
        BY <2>2, <1>5
      <4>2. inStream'.flag # "none" /\ inStream' # Idle
        BY <4>1, KeptType
      <4>3. QED
        BY <4>2, <2>1, <1>1 DEF Discard
    <3>2. Q' = Append(stream', inStream') /\ stream' \in Seq(KeptWords)
      BY <2>2, <1>3, <1>4
    <3>3. Append(stream', inStream')[Len(Append(stream', inStream'))] = inStream'
      BY <3>2, <2>2, <1>5
    <3>4. QED
      BY <3>1, <3>2, <3>3
  <2>3. CASE ~inStream'.wr
    <3>1. delState = "idle" \/ writeEn
      BY <2>3, <1>0, DiscardMoves DEF Discard
    <3>2. Q = <<>> \/ Q[Len(Q)].flag = "tail"
      BY <3>1, <1>0 DEF Closed
    <3>3. Q' = IF dataRd THEN Tail(Q) ELSE Q
      BY <2>3, <1>2, <1>4
    <3>4. CASE dataRd
      <4>1. Q # <<>> /\ Q[Len(Q)].flag = "tail" /\ Q' = Tail(Q)
        BY <3>2, <3>3, <3>4, <1>2
      <4>2. Tail(Q) = <<>> \/ Tail(Q)[Len(Tail(Q))] = Q[Len(Q)]
        BY <4>1, <1>0
      <4>3. QED
        BY <4>1, <4>2
    <3>5. CASE ~dataRd
      BY <3>2, <3>3, <3>5
    <3>6. QED
      BY <3>4, <3>5
  <2>4. QED
    BY <2>2, <2>3
<1>8. Queue'
  BY <1>3, <1>6, <1>7 DEF Queue
<1>9. QED
  BY <1>1, <1>2, <1>4, <1>5, <1>8, QueueTypeNext
-----------------------------------------------------------------------------
(***************************************************************************)
(* What goes out.                                                          *)
(***************************************************************************)

\* A kept word is sent as it is.
LEMMA WordSent ==
  ASSUME NEW w \in KeptWords
  PROVE  [w EXCEPT !.wr = TRUE] = w
<1>1. PICK k \in KeptKinds : \E n \in WordNo(k) : w = Word(k, n)
  BY DEF KeptWords
<1>2. PICK n \in WordNo(k) : w = Word(k, n)
  BY <1>1
<1>3. k \in Nat /\ n \in Nat
  BY GoeAssumption DEF KeptKinds, WordNo
<1>4. w \in Beat /\ w.wr = TRUE
  BY <1>2, <1>3 DEF Word, Beat, Flags
<1>5. QED
  BY <1>4 DEF Beat

\* Behind a word that is not the last of its packet comes the next one, if there
\* is a last one; behind a last one a packet begins.
LEMMA SecondWord ==
  ASSUME NEW q \in Seq(KeptWords), Chained(q), q # <<>>
  PROVE  IF q[1].flag = "tail"
         THEN Tail(q) = <<>> \/ Tail(q)[1].seq = 0
         ELSE Tails(q) # {} => /\ Tails(Tail(q)) # {}
                               /\ Tail(q)[1].pkt = q[1].pkt
                               /\ Tail(q)[1].seq = q[1].seq + 1
<1>1. Len(q) \in Nat /\ Len(q) >= 1
  OBVIOUS
<1>2. Len(q) # 1 => 1 \in 1 .. Len(q) - 1
  <2>1. \A n \in Nat : n >= 1 /\ n # 1 => 1 \in 1 .. n - 1
    OBVIOUS
  <2>2. QED
    BY <1>1, <2>1
<1>3. /\ Tail(q) \in Seq(KeptWords) /\ Len(Tail(q)) = Len(q) - 1
      /\ \A i \in 1 .. Len(q) - 1 : Tail(q)[i] = q[i + 1]
  OBVIOUS
<1>4. CASE q[1].flag = "tail"
  <2>1. CASE Len(q) = 1
    <3>1. Len(Tail(q)) = 0
      BY <2>1, <1>3
    <3>2. QED
      BY <3>1, <1>3, <1>4, EmptySeq
  <2>2. CASE Len(q) # 1
    <3>1. q[1 + 1].seq = 0
      BY <2>2, <1>2, <1>4, ChainedNext
    <3>2. Tail(q)[1] = q[1 + 1]
      BY <2>2, <1>2, <1>3
    <3>3. QED
      BY <3>1, <3>2, <1>4
  <2>3. QED
    BY <2>1, <2>2
<1>5. CASE q[1].flag # "tail"
  <2>1. SUFFICES ASSUME NEW t \in Tails(q)
                 PROVE  /\ Tails(Tail(q)) # {}
                        /\ Tail(q)[1].pkt = q[1].pkt
                        /\ Tail(q)[1].seq = q[1].seq + 1
    BY <1>5
  <2>2. t \in 1 .. Len(q) /\ q[t].flag = "tail" /\ t # 1
    BY <2>1, <1>5 DEF Tails
  <2>3. t - 1 \in 1 .. Len(q) - 1 /\ (t - 1) + 1 = t /\ Len(q) # 1
    BY <2>2, <1>1
  <2>4. Tail(q)[t - 1].flag = "tail"
    BY <2>2, <2>3, <1>3
  <2>5. t - 1 \in Tails(Tail(q))
    BY <2>3, <2>4, <1>3 DEF Tails
  <2>6. q[1 + 1].pkt = q[1].pkt /\ q[1 + 1].seq = q[1].seq + 1
    BY <2>3, <1>2, <1>5, ChainedNext
  <2>7. Tail(q)[1] = q[1 + 1]
    BY <2>3, <1>2, <1>3
  <2>8. QED
    BY <2>5, <2>6, <2>7
<1>6. QED
  BY <1>4, <1>5

\* While a packet leaves, the word sent is the first of the queue.
LEMMA FirstGoes ==
  ASSUME GoeInv, cntState # "idle", stream' = Tail(Q)
  PROVE  /\ stream # <<>> /\ stream[1] \in KeptWords
         /\ Q # <<>> /\ Q[1] = stream[1] /\ StreamQ = stream[1]
         /\ Emit => pktout' = stream[1]
         /\ IF stream[1].flag = "tail"
            THEN stream' = <<>> \/ stream'[1].seq = 0
            ELSE /\ Tails(stream') # {}
                 /\ stream'[1].pkt = stream[1].pkt
                 /\ stream'[1].seq = stream[1].seq + 1
<1>1. /\ Q \in Seq(KeptWords) /\ Chained(Q)
      /\ stream \in Seq(KeptWords) /\ Tails(stream) # {}
      /\ Tails(stream) \subseteq Tails(Q)
  BY QueueType DEF GoeInv, Queue, Sending, QueueFacts
<1>2. stream # <<>>
  <2>1. stream = <<>> => 1 .. Len(stream) = {}
    OBVIOUS
  <2>2. QED
    BY <2>1, <1>1 DEF Tails
<1>3. /\ stream[1] \in KeptWords /\ Q # <<>> /\ Q[1] = stream[1]
      /\ Head(stream) = stream[1]
  BY <1>2, QueueType DEF QueueFacts
<1>4. StreamQ = stream[1]
  BY <1>2, <1>3 DEF StreamQ
<1>5. Emit => pktout' = stream[1]
  BY <1>3, <1>4, WordSent DEF Emit
<1>6. Tails(Q) # {}
  BY <1>1
<1>7. QED
  BY <1>1, <1>2, <1>3, <1>4, <1>5, <1>6, SecondWord

\* If a packet begins the FIFO, or it is empty, a packet begins the queue.
LEMMA FrontNext ==
  ASSUME GoeInv, PgmSends, DelIdle(inGoe) \/ DelTrans(inGoe), StreamFifo,
         stream' = <<>> \/ stream'[1].seq = 0
  PROVE  Q' = <<>> \/ Q'[1].seq = 0
<1>1. /\ Q' = IF inStream'.wr THEN Append(stream', inStream') ELSE stream'
      /\ inStream'.wr => inStream' \in KeptWords /\ Joins(stream', inStream')
      /\ stream' \in Seq(KeptWords)
  BY QueueMoves DEF Queue
<1>2. CASE inStream'.wr /\ stream' = <<>>
  <2>1. inStream'.seq = 0
    BY <1>1, <1>2 DEF Joins
  <2>2. Q' = <<inStream'>>
    BY <1>1, <1>2
  <2>3. QED
    BY <2>1, <2>2
<1>3. CASE inStream'.wr /\ stream' # <<>>
  <2>1. Append(stream', inStream')[1] = stream'[1]
    BY <1>1, <1>3
  <2>2. QED
    BY <1>1, <1>3, <2>1
<1>4. CASE ~inStream'.wr
  BY <1>1, <1>4
<1>5. QED
  BY <1>2, <1>3, <1>4
\* A valid bit stands for a complete packet in the FIFO.
LEMMA ValidMeansComplete ==
  ASSUME GoeInv, cntState = "idle"
  PROVE  /\ valids \in Nat /\ valids = Cardinality(Tails(stream))
         /\ valids > 0 => /\ Tails(stream) # {} /\ stream # <<>>
                          /\ stream[1] \in KeptWords
                          /\ Q[1] = stream[1] /\ stream[1].seq = 0
                          /\ StreamQ = stream[1]
<1>1. /\ valids \in Nat /\ valids + One(inValid) + One(Leaving) = Cardinality(Tails(Q))
      /\ Cardinality(Tails(Q)) = Cardinality(Tails(stream)) + One(inValid)
      /\ stream \in Seq(KeptWords) /\ Cardinality(Tails(stream)) \in Nat
      /\ inValid \in BOOLEAN
  BY QueueType, TailsFinite DEF GoeInv, Balance, QueueFacts
<1>2. ~Leaving
  BY DEF Leaving
<1>3. One(inValid) \in Nat /\ One(Leaving) = 0
  BY <1>1, <1>2 DEF One
<1>4. valids = Cardinality(Tails(stream))
  BY <1>1, <1>3
<1>5. SUFFICES ASSUME valids > 0
               PROVE  /\ Tails(stream) # {} /\ stream # <<>>
                      /\ stream[1] \in KeptWords
                      /\ Q[1] = stream[1] /\ stream[1].seq = 0
                      /\ StreamQ = stream[1]
  BY <1>1, <1>4
<1>6. Tails(stream) # {}
  BY <1>1, <1>4, <1>5, TailsEmpty
<1>7. stream # <<>>
  <2>1. stream = <<>> => 1 .. Len(stream) = {}
    OBVIOUS
  <2>2. QED
    BY <2>1, <1>6 DEF Tails
<1>8. /\ stream[1] \in KeptWords /\ Q # <<>> /\ Q[1] = stream[1]
      /\ Head(stream) = stream[1]
  BY <1>7, QueueType DEF QueueFacts
<1>9. Q[1].seq = 0
  BY <1>8 DEF GoeInv, Sending
<1>10. QED
  BY <1>6, <1>7, <1>8, <1>9 DEF StreamQ

\* Between packets.
LEMMA IdleSends ==
  ASSUME GoeInv, PgmSends, DelIdle(inGoe) \/ DelTrans(inGoe), StreamFifo,
         NEW ready, CntIdle(ready)
  PROVE  Sending'
<1>0. cntState = "idle" /\ pktout' = Idle
  BY DEF CntIdle
<1>1. ~dataRd /\ stream' = Q
  BY <1>0, QueueMoves DEF GoeInv, Sending
<1>2. CASE ready /\ valids > 0
  <2>1. cntState' = "wait0" /\ dataRd' = TRUE /\ validRd' = TRUE
    BY <1>2 DEF CntIdle
  <2>2. /\ Tails(stream) # {} /\ Tails(stream) \subseteq Tails(Q)
        /\ Q[1] = stream[1] /\ stream[1].seq = 0
    BY <1>0, <1>2, ValidMeansComplete, QueueType DEF QueueFacts
  <2>3. Tails(stream') # {} /\ stream'[1].seq = 0
    BY <2>2, <1>1
  <2>4. Position'
    BY <2>1, <2>3 DEF Position
  <2>5. ~Leaving' /\ ~pktout'.wr
    BY <2>1, <1>0, IdleWord DEF Leaving
  <2>6. QED
    BY <2>1, <2>3, <2>4, <2>5 DEF Sending
<1>3. CASE ~(ready /\ valids > 0)
  <2>1. cntState' = "idle" /\ dataRd' = FALSE /\ validRd' = FALSE
    BY <1>0, <1>3 DEF CntIdle
  <2>2. stream' = <<>> \/ stream'[1].seq = 0
    BY <1>0, <1>1 DEF GoeInv, Sending
  <2>3. Q' = <<>> \/ Q'[1].seq = 0
    BY <2>2, FrontNext
  <2>4. ~Leaving' /\ ~pktout'.wr
    BY <2>1, <1>0, IdleWord DEF Leaving
  <2>5. QED
    BY <2>1, <2>3, <2>4 DEF Sending
<1>4. QED
  BY <1>2, <1>3

\* The first three words of a packet.
LEMMA FirstWordsSend ==
  ASSUME GoeInv, PgmSends, DelIdle(inGoe) \/ DelTrans(inGoe), StreamFifo,
         CntWait0 \/ CntWait1 \/ CntWrite
  PROVE  Sending' /\ stream[1].flag # "tail"
<1>1. cntState \in {"wait0", "wait1", "write"} /\ Emit /\ dataRd' = TRUE
      /\ validRd' = FALSE
      /\ cntState' = CASE cntState = "wait0" -> "wait1"
                       [] cntState = "wait1" -> "write"
                       [] OTHER -> "trans"
  BY DEF CntWait0, CntWait1, CntWrite
<1>2. stream' = Tail(Q)
  BY <1>1, QueueMoves DEF GoeInv, Sending
<1>3. /\ stream[1] \in KeptWords /\ pktout' = stream[1]
      /\ stream[1].flag # "tail" => /\ Tails(stream') # {}
                                    /\ stream'[1].seq = stream[1].seq + 1
  BY <1>1, <1>2, FirstGoes
<1>4. Position
  BY <1>1 DEF GoeInv, Sending
<1>5. stream[1].flag # "tail"
  <2>1. stream[1].seq < 3
    BY <1>1, <1>4 DEF Position
  <2>2. LET len == Kinds[stream[1].pkt].len
        IN  /\ len \in Nat /\ len >= 4
            /\ (stream[1].flag = "tail") = (stream[1].seq = len - 1)
    BY <1>3, KeptType
  <2>3. QED
    BY <2>1, <2>2
<1>6. Position'
  BY <1>1, <1>3, <1>4, <1>5 DEF Position
<1>7. Leaving' /\ pktout'.wr /\ pktout'.flag # "tail"
  BY <1>1, <1>3, <1>5, KeptType DEF Leaving
<1>8. QED
  BY <1>1, <1>3, <1>5, <1>6, <1>7 DEF Sending, Leaving

\* The others.
LEMMA OtherWordsSend ==
  ASSUME GoeInv, PgmSends, DelIdle(inGoe) \/ DelTrans(inGoe), StreamFifo,
         CntTrans
  PROVE  Sending'
<1>1. cntState = "trans" /\ Emit /\ dataRd' = (StreamQ.flag # "tail")
      /\ validRd' = validRd
      /\ cntState' = IF StreamQ.flag = "tail" THEN "idle" ELSE "trans"
  BY DEF CntTrans
<1>2. stream' = Tail(Q) /\ validRd = FALSE
  BY <1>1, QueueMoves DEF GoeInv, Sending
<1>3. /\ stream[1] \in KeptWords /\ pktout' = stream[1] /\ StreamQ = stream[1]
      /\ IF stream[1].flag = "tail"
         THEN stream' = <<>> \/ stream'[1].seq = 0
         ELSE /\ Tails(stream') # {}
              /\ stream'[1].seq = stream[1].seq + 1
  BY <1>1, <1>2, FirstGoes
<1>4. stream[1].seq > 2 /\ stream[1].seq \in Nat /\ pktout'.wr = TRUE
  <2>1. Position
    BY <1>1 DEF GoeInv, Sending
  <2>2. QED
    BY <2>1, <1>1, <1>3, KeptType DEF Position
<1>5. CASE stream[1].flag = "tail"
  <2>1. cntState' = "idle" /\ dataRd' = FALSE /\ pktout'.flag = "tail"
    BY <1>1, <1>3, <1>5
  <2>2. Q' = <<>> \/ Q'[1].seq = 0
    BY <1>3, <1>5, FrontNext
  <2>3. ~Leaving'
    BY <2>1 DEF Leaving
  <2>4. QED
    BY <2>1, <2>2, <2>3, <1>1, <1>2 DEF Sending
<1>6. CASE stream[1].flag # "tail"
  <2>1. cntState' = "trans" /\ dataRd' = TRUE /\ pktout'.flag # "tail"
    BY <1>1, <1>3, <1>6
  <2>2. Tails(stream') # {} /\ stream'[1].seq > 2
    BY <1>3, <1>4, <1>6
  <2>3. Position' /\ Leaving'
    BY <2>1, <2>2 DEF Position, Leaving
  <2>4. QED
    BY <2>1, <2>2, <2>3, <1>1, <1>2, <1>4 DEF Sending
<1>7. QED
  BY <1>5, <1>6
-----------------------------------------------------------------------------
(***************************************************************************)
(* Counting what waits.                                                    *)
(***************************************************************************)

Sends(ready) == CntIdle(ready) \/ CntWait0 \/ CntWait1 \/ CntWrite \/ CntTrans

\* The last word of a packet is being sent.
Ending == cntState = "trans" /\ stream[1].flag = "tail"

LEMMA SendingMoves ==
  ASSUME GoeInv, PgmSends, DelIdle(inGoe) \/ DelTrans(inGoe), StreamFifo,
         NEW ready, Sends(ready)
  PROVE  /\ Sending'
         /\ dataRd /\ stream[1].flag = "tail" <=> Ending
         /\ Leaving' <=> cntState = "wait0" \/ (Leaving /\ ~Ending)
         /\ cntState' = "wait0" <=> cntState = "idle" /\ ready /\ valids > 0
<1>0. dataRd = (cntState # "idle")
  BY DEF GoeInv, Sending
<1>1. CASE CntIdle(ready)
  <2>1. cntState = "idle" /\ cntState' = IF ready /\ valids > 0 THEN "wait0" ELSE "idle"
    BY <1>1 DEF CntIdle
  <2>2. Sending'
    BY <1>1, IdleSends
  <2>3. QED
    BY <1>0, <2>1, <2>2 DEF Ending, Leaving
<1>2. CASE CntWait0 \/ CntWait1 \/ CntWrite
  <2>1. cntState \in {"wait0", "wait1", "write"}
        /\ cntState' \in {"wait1", "write", "trans"}
    BY <1>2 DEF CntWait0, CntWait1, CntWrite
  <2>2. Sending' /\ stream[1].flag # "tail"
    BY <1>2, FirstWordsSend
  <2>3. QED
    BY <1>0, <2>1, <2>2 DEF Ending, Leaving
<1>3. CASE CntTrans
  <2>1. cntState = "trans"
        /\ cntState' = IF StreamQ.flag = "tail" THEN "idle" ELSE "trans"
    BY <1>3 DEF CntTrans
  <2>2. Sending'
    BY <1>3, OtherWordsSend
  <2>3. stream' = Tail(Q)
    BY <1>0, <2>1, QueueMoves
  <2>4. StreamQ = stream[1]
    BY <2>1, <2>3, FirstGoes
  <2>5. QED
    BY <1>0, <2>1, <2>2, <2>4 DEF Ending, Leaving
<1>4. QED
  BY <1>1, <1>2, <1>3 DEF Sends

\* The valid bits: one goes as a packet begins to leave, one comes behind a
\* last word.
LEMMA ValidMoves ==
  ASSUME GoeInv, ValidFifo
  PROVE  /\ valids \in Nat
         /\ valids' = valids + One(inValid) - One(cntState = "wait0")
         /\ cntState = "wait0" => valids > 0
<1>1. /\ valids \in Nat /\ valids + One(inValid) + One(Leaving) = Cardinality(Tails(Q))
      /\ Cardinality(Tails(Q)) = Cardinality(Tails(stream)) + One(inValid)
      /\ stream \in Seq(KeptWords) /\ Cardinality(Tails(stream)) \in Nat
      /\ inValid \in BOOLEAN /\ validRd = (cntState = "wait0")
  BY QueueType, TailsFinite DEF GoeInv, Balance, Sending, QueueFacts
<1>2. cntState = "wait0" => valids > 0
  <2>1. SUFFICES ASSUME cntState = "wait0" PROVE valids > 0
    OBVIOUS
  <2>2. One(Leaving) = 0 /\ One(inValid) \in Nat
    BY <2>1, <1>1 DEF One, Leaving
  <2>3. Cardinality(Tails(stream)) # 0
    BY <2>1, <1>1, TailsEmpty DEF GoeInv, Sending
  <2>4. QED
    BY <1>1, <2>2, <2>3
<1>3. valids' = valids + One(inValid) - One(cntState = "wait0")
  <2>1. (validRd /\ valids > 0) = (cntState = "wait0")
    BY <1>1, <1>2
  <2>2. valids' = (IF cntState = "wait0" THEN valids - 1 ELSE valids)
                  + (IF inValid THEN 1 ELSE 0)
    BY <2>1 DEF ValidFifo
  <2>3. QED
    BY <1>1, <2>2 DEF One
<1>4. QED
  BY <1>1, <1>2, <1>3

LEMMA BalanceMoves ==
  ASSUME GoeInv, PgmSends, DelIdle(inGoe) \/ DelTrans(inGoe), StreamFifo,
         ValidFifo, NEW ready, Sends(ready)
  PROVE  Balance'
<1>1. /\ Cardinality(Tails(Q)') = Cardinality(Tails(stream)') + One(inValid')
      /\ stream' = IF dataRd THEN Tail(Q) ELSE Q
  BY QueueMoves DEF QueueFacts
<1>2. Q \in Seq(KeptWords) /\ Cardinality(Tails(Q)) \in Nat
  BY QueueType, TailsFinite DEF QueueFacts
<1>3. Cardinality(Tails(stream)') = Cardinality(Tails(Q)) - One(Ending)
  <2>1. CASE dataRd
    <3>1. cntState # "idle" /\ stream' = Tail(Q)
      BY <2>1, <1>1 DEF GoeInv, Sending
    <3>2. Q # <<>> /\ Q[1] = stream[1]
      BY <3>1, FirstGoes
    <3>3. Cardinality(Tails(Tail(Q)))
            = Cardinality(Tails(Q)) - One(Q[1].flag = "tail")
      BY <1>2, <3>2, TailsTail
    <3>4. (Q[1].flag = "tail") = Ending
      <4>1. dataRd /\ stream[1].flag = "tail" <=> Ending
        BY SendingMoves
      <4>2. QED
        BY <4>1, <2>1, <3>2 DEF Ending
    <3>5. Tails(stream)' = Tails(Tail(Q))
      BY <3>1 DEF Tails
    <3>6. QED
      BY <3>3, <3>4, <3>5
  <2>2. CASE ~dataRd
    <3>1. ~Ending
      <4>1. dataRd /\ stream[1].flag = "tail" <=> Ending
        BY SendingMoves
      <4>2. QED
        BY <4>1, <2>2
    <3>2. One(Ending) = 0
      BY <3>1 DEF One
    <3>3. Tails(stream)' = Tails(Q)
      BY <2>2, <1>1 DEF Tails
    <3>4. QED
      BY <1>2, <3>2, <3>3
  <2>3. QED
    BY <2>1, <2>2
<1>4. /\ valids \in Nat /\ valids + One(inValid) + One(Leaving) = Cardinality(Tails(Q))
      /\ valids' = valids + One(inValid) - One(cntState = "wait0")
      /\ cntState = "wait0" => valids > 0
  BY ValidMoves DEF GoeInv, Balance
<1>5. One(Leaving') = One(Leaving) + One(cntState = "wait0") - One(Ending)
  <2>1. Leaving' <=> cntState = "wait0" \/ (Leaving /\ ~Ending)
    BY SendingMoves
  <2>2. ~(cntState = "wait0" /\ Leaving) /\ (Ending => Leaving)
    BY DEF Leaving, Ending
  <2>3. QED
    BY <2>1, <2>2 DEF One
<1>6. /\ One(inValid) \in {0, 1} /\ One(inValid') \in {0, 1}
      /\ One(Leaving) \in {0, 1} /\ One(Leaving') \in {0, 1}
      /\ One(Ending) \in {0, 1} /\ One(cntState = "wait0") \in {0, 1}
      /\ cntState = "wait0" <=> One(cntState = "wait0") = 1
  BY DEF One
<1>7. valids' \in Nat
  BY <1>4, <1>6
<1>8. valids' + One(inValid') + One(Leaving') = Cardinality(Tails(Q)')
  BY <1>1, <1>3, <1>4, <1>5, <1>6
<1>9. QED
  BY <1>7, <1>8 DEF Balance
-----------------------------------------------------------------------------
(***************************************************************************)
(* The level of the FIFO.                                                  *)
(***************************************************************************)

\* The FIFO without the word on the wires is as much in order as the queue.
LEMMA ChainedFront ==
  ASSUME NEW q \in Seq(KeptWords), NEW w \in KeptWords, Chained(Append(q, w))
  PROVE  Chained(q)
<1> DEFINE a == Append(q, w)
<1>1. /\ Len(q) \in Nat /\ Len(a) = Len(q) + 1
      /\ \A i \in 1 .. Len(q) : a[i] = q[i]
  OBVIOUS
<1>2. ASSUME NEW j \in 1 .. Len(q), NEW i \in 1 .. j, j - i <= q[j].seq
      PROVE  q[i].pkt = q[j].pkt /\ q[i].seq = q[j].seq - (j - i)
  <2>1. j \in 1 .. Len(a) /\ i \in 1 .. Len(q) /\ a[i] = q[i] /\ a[j] = q[j]
    BY <1>1
  <2>2. QED
    BY <2>1, <1>2 DEF Chained
<1>3. ASSUME NEW j \in 2 .. Len(q), q[j].seq = 0
      PROVE  q[j - 1].flag = "tail"
  <2>1. /\ j \in 2 .. Len(a) /\ j \in 1 .. Len(q) /\ j - 1 \in 1 .. Len(q)
    BY <1>1
  <2>2. a[j] = q[j] /\ a[j - 1] = q[j - 1]
    BY <2>1, <1>1
  <2>3. QED
    BY <2>1, <2>2, <1>3 DEF Chained
<1>4. QED
  BY <1>2, <1>3 DEF Chained

\* A sequence in which no packet but perhaps the last is complete, and that
\* begins with a first word, is one packet.
LEMMA OnePacket ==
  ASSUME NEW q \in Seq(KeptWords), Chained(q), q # <<>>, q[1].seq = 0,
         \A i \in 1 .. Len(q) - 1 : q[i].flag # "tail"
  PROVE  Len(q) = q[Len(q)].seq + 1
<1> DEFINE L == Len(q)
           n == q[L].seq
<1>1. L \in Nat /\ L >= 1
  OBVIOUS
<1>2. L \in 1 .. L /\ 1 \in 1 .. L
  BY <1>1
<1>3. n \in Nat
  <2>1. q[L] \in KeptWords
    BY <1>2
  <2>2. QED
    BY <2>1, KeptType
<1>4. CASE L - 1 <= n
  <2>1. q[1].seq = n - (L - 1)
    BY <1>2, <1>4 DEF Chained
  <2>2. QED
    BY <2>1, <1>1, <1>3
<1>5. CASE ~(L - 1 <= n)
  <2>1. /\ L - n \in 2 .. L /\ L - n \in 1 .. L /\ L - (L - n) = n
        /\ (L - n) - 1 \in 1 .. L - 1
    BY <1>1, <1>3, <1>5
  <2>2. L - (L - n) <= n
    BY <2>1, <1>3
  <2>3. q[L - n].seq = n - (L - (L - n))
    BY <2>1, <2>2, <1>2 DEF Chained
  <2>4. q[L - n].seq = 0
    BY <2>1, <2>3, <1>3
  <2>5. q[(L - n) - 1].flag = "tail"
    BY <2>1, <2>4 DEF Chained
  <2>6. QED
    BY <2>1, <2>5
<1>6. QED
  BY <1>4, <1>5

\* While pktout stalls no more words wait than it may, each packet in the FIFO
\* with a valid bit.
LEMMA StalledLevel ==
  ASSUME GoeInv, Roomy, cntState = "idle", Stall
  PROVE  Len(stream) + valids + 2 <= StreamDepth
<1>1. /\ Q \in Seq(KeptWords) /\ stream \in Seq(KeptWords) /\ Len(stream) \in Nat
      /\ Chained(Q) /\ (Q = <<>> \/ Q[1].seq = 0)
  BY QueueType DEF GoeInv, Queue, Sending, QueueFacts
<1>2. Chained(stream)
  <2>1. CASE inStream.wr
    <3>1. inStream \in KeptWords /\ Q = Append(stream, inStream)
      BY <2>1, QueueType DEF QueueFacts, Q
    <3>2. QED
      BY <3>1, <1>1, ChainedFront
  <2>2. CASE ~inStream.wr
    BY <2>2, <1>1, QueueType DEF QueueFacts
  <2>3. QED
    BY <2>1, <2>2
<1>3. stream = <<>> \/ stream[1].seq = 0
  BY <1>1, QueueType DEF QueueFacts
<1>4. PICK m \in Nat \ {0} :
        /\ \A k \in DOMAIN Kinds : ~Kinds[k].drop => m <= Kinds[k].len
        /\ \A v \in Nat : m * v <= StallUpTo => StallUpTo + v + 2 <= StreamDepth
  BY DEF Roomy
<1>5. m * Cardinality(Tails(stream)) <= Len(stream)
  BY <1>1, <1>2, <1>3, <1>4, PacketsNeedRoom DEF KeptKinds
<1>6. valids \in Nat /\ valids = Cardinality(Tails(stream))
  BY ValidMeansComplete
<1>7. PICK p \in Int : p = m * valids
  BY <1>4, <1>6
<1>8. p <= Len(stream) /\ Len(stream) <= StallUpTo /\ StallUpTo \in Nat
  BY <1>5, <1>6, <1>7, GoeAssumption DEF Stall
<1>9. m * valids <= StallUpTo
  BY <1>1, <1>7, <1>8
<1>10. StallUpTo + valids + 2 <= StreamDepth
  BY <1>4, <1>6, <1>9
<1>11. QED
  BY <1>1, <1>6, <1>8, <1>10, GoeAssumption

\* While no packet is complete no more words wait than a packet has.
LEMMA PartialLevel ==
  ASSUME GoeInv, Roomy, cntState = "idle", valids = 0
  PROVE  Len(Q) + 1 <= StreamDepth
<1>1. /\ Q \in Seq(KeptWords) /\ stream \in Seq(KeptWords)
      /\ Len(stream) \in Nat /\ Len(Q) \in Nat
      /\ Chained(Q) /\ Closed /\ (Q = <<>> \/ Q[1].seq = 0) /\ Discard
  BY QueueType DEF GoeInv, Queue, Sending, QueueFacts
<1>2. Tails(stream) = {}
  BY <1>1, ValidMeansComplete, TailsEmpty
<1>3. StreamDepth \in Nat /\ StreamDepth >= 1
  BY GoeAssumption
<1>4. CASE inStream.wr
  <2>1. /\ inStream \in KeptWords /\ Q = Append(stream, inStream) /\ Q # <<>>
        /\ Q[Len(Q)] = inStream
    BY <1>4, QueueType DEF QueueFacts, Q
  <2>2. \A i \in 1 .. Len(Q) - 1 : Q[i] = stream[i] /\ i \in 1 .. Len(stream)
    BY <2>1, <1>1
  <2>3. \A i \in 1 .. Len(Q) - 1 : Q[i].flag # "tail"
    BY <2>2, <1>2 DEF Tails
  <2>4. Len(Q) = inStream.seq + 1
    BY <2>1, <2>3, <1>1, OnePacket
  <2>5. LET k == inStream.pkt
        IN  /\ k \in DOMAIN Kinds /\ Kinds[k].drop = FALSE /\ Kinds[k].len \in Nat
            /\ inStream.seq \in Nat /\ inStream.seq < Kinds[k].len
            /\ (inStream.flag = "tail") = (inStream.seq = Kinds[k].len - 1)
    BY <2>1, KeptType
  <2>6. Kinds[inStream.pkt].len < StreamDepth
    BY <2>5 DEF Roomy
  <2>7. QED
    BY <2>4, <2>5, <2>6, <1>3
<1>5. CASE ~inStream.wr
  <2>1. delState = "idle" \/ writeEn
    <3>1. ~(delState = "idle" \/ writeEn) => inStream = Word(inGoe.pkt, inGoe.seq - 1)
      BY <1>1 DEF Discard
    <3>2. QED
      BY <3>1, <1>5 DEF Word
  <2>2. Q = stream
    BY <1>5, QueueType DEF QueueFacts
  <2>3. Q = <<>> \/ Q[Len(Q)].flag = "tail"
    BY <2>1, <1>1 DEF Closed
  <2>4. Q # <<>> => Len(Q) \in 1 .. Len(Q)
    BY <1>1
  <2>5. Q = <<>>
    BY <2>2, <2>3, <2>4, <1>2 DEF Tails
  <2>6. Len(Q) = 0
    BY <2>5
  <2>7. QED
    BY <2>6, <1>3, <1>5
<1>6. QED
  BY <1>4, <1>5
\* Behind a last word there is a clock without one.
LEMMA Pause ==
  ASSUME GoeInv, PgmSends, DelIdle(inGoe) \/ DelTrans(inGoe), inValid
  PROVE  ~inStream'.wr
<1>1. Wire /\ Discard /\ inStream.flag = "tail"
  BY DEF GoeInv, Discard
<1>2. CASE delState = "trans"
  <2>1. ~writeEn
    BY <1>1, <1>2, IdleWord DEF Discard
  <2>2. inStream'.wr => inStream.flag # "tail"
    BY <1>1, <1>2, <2>1, DiscardMoves
  <2>3. QED
    BY <1>1, <2>2
<1>3. CASE delState = "idle"
  <2>1. inGoe = Idle
    BY <1>1, <1>3, IdleWord DEF Discard
  <2>2. ~IsHead(inGoe)
    BY <2>1, IdleWord DEF IsHead
  <2>3. inStream' = Idle
    BY <1>3, <2>2 DEF DelIdle, DelTrans
  <2>4. QED
    BY <2>3, IdleWord
<1>4. QED
  BY <1>1, <1>2, <1>3 DEF Discard

LEMMA LevelMoves ==
  ASSUME GoeInv, Roomy, PgmSends, DelIdle(inGoe) \/ DelTrans(inGoe),
         StreamFifo, ValidFifo, NEW ready, Sends(ready), ready \/ Stall
  PROVE  Level'
<1>1. /\ Len(Q) = Len(stream) + One(inStream.wr)
      /\ Len(Q)' = Len(stream)' + One(inStream'.wr)
      /\ Len(stream) \in Nat /\ Len(Q) \in Nat
  BY QueueType, QueueMoves DEF QueueFacts
<1>0. Q \in Seq(KeptWords) /\ stream' = IF dataRd THEN Tail(Q) ELSE Q
  BY QueueType, QueueMoves DEF QueueFacts
<1>2. /\ valids \in Nat
      /\ valids' = valids + One(inValid) - One(cntState = "wait0")
      /\ cntState' = "wait0" <=> cntState = "idle" /\ ready /\ valids > 0
      /\ Len(Q) + valids <= StreamDepth + One(cntState = "wait0")
      /\ dataRd = (cntState # "idle") /\ StreamDepth \in Nat
  BY ValidMoves, SendingMoves, GoeAssumption DEF GoeInv, Level, Sending
<1>3. /\ One(inStream.wr) \in {0, 1} /\ One(inStream'.wr) \in {0, 1}
      /\ One(inValid) \in {0, 1} /\ One(cntState = "wait0") \in {0, 1}
      /\ One(cntState' = "wait0") \in {0, 1}
      /\ (cntState' = "wait0" => One(cntState' = "wait0") = 1)
      /\ (cntState = "idle" => One(cntState = "wait0") = 0)
  BY DEF One
<1>4. One(inStream'.wr) + One(inValid) \in {0, 1}
  BY Pause, <1>3 DEF One
<1>5. CASE cntState # "idle"
  <2>1. Q # <<>> /\ stream' = Tail(Q)
    BY <1>0, <1>2, <1>5, StreamMoves, QueueType DEF QueueFacts
  <2>2. Len(Tail(Q)) = Len(Q) - 1
    BY <1>0, <2>1
  <2>3. Len(stream)' = Len(Q) - 1
    BY <2>1, <2>2
  <2>4. cntState' # "wait0" /\ One(cntState' = "wait0") = 0
    BY <1>2, <1>5 DEF One
  <2>5. Len(Q)' + valids' =
          (Len(Q) - 1) + One(inStream'.wr)
            + (valids + One(inValid) - One(cntState = "wait0"))
    BY <1>1, <1>2, <2>3
  <2>6. Len(Q)' + valids' <= StreamDepth + One(cntState' = "wait0")
    <3>1. \A l, v, d \in Nat : \A w, i, z \in {0, 1} :
            l + v <= d + z /\ w + i \in {0, 1}
              => (l - 1) + w + (v + i - z) <= d + 0
      OBVIOUS
    <3>2. (Len(Q) - 1) + One(inStream'.wr)
            + (valids + One(inValid) - One(cntState = "wait0")) <= StreamDepth + 0
      BY <1>1, <1>2, <1>3, <1>4, <3>1, Zenon
    <3>3. QED
      BY <2>4, <2>5, <3>2, Zenon
  <2>7. QED
    BY <2>6 DEF Level
<1>6. CASE cntState = "idle"
  <2>1. Len(stream)' = Len(Q)
    BY <1>0, <1>2, <1>6
  <2>2. CASE cntState' = "wait0"
    <3>1. Len(Q)' + valids' <= StreamDepth + One(cntState' = "wait0")
      BY <1>1, <1>2, <1>3, <1>4, <1>6, <2>1, <2>2
    <3>2. QED
      BY <3>1 DEF Level
  <2>3. CASE cntState' # "wait0" /\ valids > 0
    <3>1. Stall
      BY <1>2, <1>6, <2>3
    <3>2. Len(stream) + valids + 2 <= StreamDepth
      BY <1>6, <3>1, StalledLevel
    <3>3. Len(Q)' + valids' <= StreamDepth + One(cntState' = "wait0")
      BY <1>1, <1>2, <1>3, <1>4, <1>6, <2>1, <3>2
    <3>4. QED
      BY <3>3 DEF Level
  <2>4. CASE valids = 0
    <3>1. Len(Q) + 1 <= StreamDepth
      BY <1>6, <2>4, PartialLevel
    <3>2. Len(Q)' + valids' <= StreamDepth + One(cntState' = "wait0")
      BY <1>1, <1>2, <1>3, <1>4, <1>6, <2>1, <2>4, <3>1
    <3>3. QED
      BY <3>2 DEF Level
  <2>5. QED
    BY <1>2, <2>2, <2>3, <2>4
<1>7. QED
  BY <1>5, <1>6
-----------------------------------------------------------------------------
(***************************************************************************)
(* The counters, and what software writes.                                 *)
(***************************************************************************)

\* A counter is there for each flow, also for the one software writes to.
LEMMA FlowType ==
  /\ 0 \in Flows
  /\ \A b \in KeptWords : Kinds[b.pkt].flow \in Flows
<1>1. \A b \in KeptWords : b.pkt \in DOMAIN Kinds
  BY KeptType
<1>2. QED
  BY <1>1 DEF Flows

\* A write keeps the counters counters.
IsTable(t) == DOMAIN t = Flows /\ t = [f \in Flows |-> t[f]]

LEMMA AfterIsTable ==
  ASSUME NEW t, IsTable(t), NEW a, a = <<>> \/ a[1] \in Flows
  PROVE  IsTable(After(t, a))
<1>1. CASE a = <<>>
  BY <1>1 DEF After
<1>2. CASE a # <<>>
  BY <1>2 DEF After, IsTable
<1>3. QED
  BY <1>1, <1>2

\* The address of the counter is that of the packet that leaves.
LEMMA AddressMoves ==
  ASSUME GoeInv, PgmSends, DelIdle(inGoe) \/ DelTrans(inGoe), StreamFifo,
         NEW ready, Sends(ready)
  PROVE  /\ addressB' \in Flows
         /\ streamRw' = (cntState = "write")
         /\ cntState = "write" => cntState' = "trans"
         /\ cntState' \in {"wait0", "wait1", "write"} =>
              addressB' = Kinds[stream'[1].pkt].flow /\ streamAddr' = addressB'
<1>0. /\ streamRw \in BOOLEAN /\ (streamRw => cntState = "trans")
      /\ addressB \in Flows
      /\ cntState \in {"wait0", "wait1", "write"} =>
           addressB = Kinds[stream[1].pkt].flow /\ streamAddr = addressB
  BY DEF GoeInv, Counting
<1>1. CASE CntIdle(ready) /\ ready /\ valids > 0
  <2>1. /\ cntState = "idle" /\ cntState' = "wait0" /\ streamRw' = FALSE
        /\ addressB' = Kinds[StreamQ.pkt].flow /\ streamAddr' = addressB'
    BY <1>1 DEF CntIdle
  <2>2. stream' = Q
    BY <2>1, StreamMoves DEF GoeInv, Sending
  <2>3. /\ stream[1] \in KeptWords /\ Q[1] = stream[1] /\ StreamQ = stream[1]
    BY <1>1, <2>1, ValidMeansComplete
  <2>4. stream'[1] = stream[1]
    BY <2>2, <2>3
  <2>5. QED
    BY <2>1, <2>3, <2>4, FlowType
<1>2. CASE CntIdle(ready) /\ ~(ready /\ valids > 0)
  <2>1. cntState = "idle" /\ cntState' = "idle" /\ streamRw' = FALSE
        /\ addressB' = 0
    BY <1>2 DEF CntIdle
  <2>2. QED
    BY <2>1, FlowType
<1>3. CASE CntWait0 \/ CntWait1
  <2>1. /\ cntState \in {"wait0", "wait1"} /\ cntState' \in {"wait1", "write"}
        /\ streamRw' = FALSE /\ addressB' = addressB /\ streamAddr' = streamAddr
    BY <1>0, <1>3 DEF CntWait0, CntWait1
  <2>2. stream' = Tail(Q)
    BY <2>1, StreamMoves DEF GoeInv, Sending
  <2>3. stream[1].flag # "tail"
    BY <1>3, FirstWordsSend
  <2>4. stream'[1].pkt = stream[1].pkt
    BY <2>1, <2>2, <2>3, FirstGoes
  <2>5. QED
    BY <1>0, <2>1, <2>4
<1>4. CASE CntWrite
  <2>1. cntState = "write" /\ cntState' = "trans" /\ streamRw' = TRUE
        /\ addressB' = streamAddr
    BY <1>4 DEF CntWrite
  <2>2. QED
    BY <1>0, <2>1
<1>5. CASE CntTrans
  <2>1. cntState = "trans" /\ cntState' \in {"idle", "trans"} /\ streamRw' = FALSE
        /\ addressB' = addressB
    BY <1>5 DEF CntTrans
  <2>2. QED
    BY <1>0, <2>1
<1>6. QED
  BY <1>1, <1>2, <1>3, <1>4, <1>5 DEF Sends

LEMMA CountingMoves ==
  ASSUME GoeInv, PgmSends, DelIdle(inGoe) \/ DelTrans(inGoe), StreamFifo,
         NEW ready, Sends(ready), goe_ram_inst(portA)
  PROVE  Counting'
<1>1. /\ addressB \in Flows /\ IsTable(counts)
      /\ portA = <<>> \/ portA = <<0, 0>>
  BY DEF GoeInv, Counting, Software, IsTable
<1>2. IsTable(counts)'
  <2> DEFINE b == IF streamRw THEN <<addressB, dataB>> ELSE <<>>
  <2>1. /\ portA = <<>> \/ portA[1] \in Flows
        /\ b = <<>> \/ b[1] \in Flows
    BY <1>1, FlowType
  <2>2. IsTable(After(After(counts, portA), b))
    <3>1. IsTable(After(counts, portA))
      BY <1>1, <2>1, AfterIsTable
    <3>2. QED
      BY <2>1, <3>1, AfterIsTable
  <2>3. IsTable(After(After(counts, b), portA))
    <3>1. IsTable(After(counts, b))
      BY <1>1, <2>1, AfterIsTable
    <3>2. QED
      BY <2>1, <3>1, AfterIsTable
  <2>4. counts' \in {After(After(counts, portA), b), After(After(counts, b), portA)}
    BY DEF goe_ram_inst
  <2>5. IsTable(counts')
    BY <2>2, <2>3, <2>4
  <2>6. QED
    BY <2>5 DEF IsTable
<1>3. /\ addressB' \in Flows
      /\ streamRw' = (cntState = "write")
      /\ cntState = "write" => cntState' = "trans"
      /\ cntState' \in {"wait0", "wait1", "write"} =>
           addressB' = Kinds[stream'[1].pkt].flow /\ streamAddr' = addressB'
  BY AddressMoves
<1>4. QED
  BY <1>2, <1>3 DEF Counting, IsTable

\* Software writes nothing but 0, and only to the counter of flow 0.
LEMMA BeatVal ==
  ASSUME NEW b \in Beats
  PROVE  b.val = 0 /\ (CmdHead(b) => b.op \in Ops)
<1>1. CASE b = Quiet
  BY <1>1 DEF Quiet, CmdHead
<1>2. ASSUME NEW op \in Ops, b = HeadBeat(Command(op)) PROVE b.val = 0 /\ b.op = op
  BY <1>2 DEF HeadBeat, Command
<1>3. ASSUME NEW op \in Ops, b = TailBeat(Command(op))
      PROVE  b.val = 0 /\ b.part = "tail"
  <2>1. b = [Quiet EXCEPT !.wr = TRUE, !.part = "tail", !.id = 0]
    BY <1>3 DEF TailBeat, Command
  <2>2. QED
    BY <2>1 DEF Quiet
<1>4. QED
  BY <1>1, <1>2, <1>3 DEF Beats, CmdHead

LEMMA SoftwareMoves ==
  ASSUME Software, ChainSends, NEW dmaReady, NEW count,
         GoeClock(cinGoe, dmaReady, count),
         portA' = IF goeState = "write" THEN <<0, GoeWord.val>> ELSE <<>>
  PROVE  Software'
<1>1. GoeWord \in Beats
  BY DEF Software, GoeWord
<1>2. portA' = <<>> \/ portA' = <<0, 0>>
  <2>1. GoeWord.val = 0
    BY <1>1, BeatVal
  <2>2. QED
    BY <2>1
<1>3. goeShown' \in Beats
  BY <1>1 DEF GoeClock
<1>4. goeFifo' \in Seq(Beats)
  <2> DEFINE p == IF goeRd /\ goeFifo # <<>> THEN Tail(goeFifo) ELSE goeFifo
  <2>1. p \in Seq(Beats) /\ cinGoe \in Beats
    BY DEF Software
  <2>2. goeFifo' = Append(p, cinGoe) \/ goeFifo' = p
    BY DEF GoeClock
  <2>3. QED
    BY <2>1, <2>2
<1>5. cinGoe' \in Beats
  <2>1. CASE CmdHead(cinGoe) /\ cinGoe' = TailBeat(Command(cinGoe.op))
    BY <2>1, BeatVal DEF Software, Beats
  <2>2. CASE cinGoe' = Quiet
    BY <2>2 DEF Beats
  <2>3. CASE \E op \in Ops : cinGoe' = HeadBeat(Command(op))
    BY <2>3 DEF Beats
  <2>4. QED
    BY <2>1, <2>2, <2>3 DEF ChainSends
<1>6. QED
  BY <1>2, <1>3, <1>4, <1>5 DEF Software
-----------------------------------------------------------------------------
(***************************************************************************)
(* The invariant.                                                          *)
(***************************************************************************)

LEMMA InvInit == Init => GoeInv
<1> SUFFICES ASSUME Init PROVE GoeInv
  OBVIOUS
<1>1. /\ delState = "idle" /\ inStream = Idle /\ inValid = FALSE
      /\ stream = <<>> /\ valids = 0 /\ inGoe = Idle
      /\ cntState = "idle" /\ dataRd = FALSE /\ validRd = FALSE
      /\ pktout = Idle
      /\ streamRw = FALSE /\ addressB = 0 /\ counts = [f \in Flows |-> 0]
      /\ cinGoe = Quiet /\ goeShown = Quiet /\ goeFifo = <<>> /\ portA = <<>>
  BY DEF Init, DataInit, GoeInit
<1>2. Q = <<>> /\ stream \in Seq(KeptWords) /\ Len(Q) = 0
  BY <1>1, IdleWord DEF Q
<1>3. Wire /\ Discard
  BY <1>1, IdleWord DEF Wire, Discard
<1>4. Queue
  <2>1. Chained(Q)
    BY <1>2 DEF Chained
  <2>2. QED
    BY <1>2, <2>1 DEF Queue, Closed
<1>5. ~Leaving
  BY <1>1 DEF Leaving
<1>6. Sending
  BY <1>1, <1>2, <1>5, IdleWord DEF Sending
<1>7. Cardinality(Tails(Q)) = 0
  <2>1. Tails(Q) = {}
    BY <1>2 DEF Tails
  <2>2. QED
    BY <2>1, FS_EmptySet
<1>8. Balance /\ Level
  BY <1>1, <1>2, <1>5, <1>7, GoeAssumption DEF Balance, Level, One
<1>9. Counting /\ Software
  BY <1>1, FlowType DEF Counting, Software, Beats
<1>10. QED
  BY <1>3, <1>4, <1>6, <1>8, <1>9 DEF GoeInv

LEMMA InvClock ==
  ASSUME GoeInv, Roomy, NEW ready, NEW dmaReady, ready \/ Stall,
         Clock(ready, dmaReady)
  PROVE  GoeInv'
<1>1. /\ PgmSends /\ ChainSends
      /\ DelIdle(inGoe) \/ DelTrans(inGoe)
      /\ Sends(ready) /\ StreamFifo /\ ValidFifo /\ goe_ram_inst(portA)
      /\ GoeClock(cinGoe, dmaReady, counts[0])
      /\ portA' = IF goeState = "write" THEN <<0, GoeWord.val>> ELSE <<>>
  BY DEF Clock, DataClock, Sends
<1>2. Wire'
  BY <1>1, WireMoves DEF GoeInv
<1>3. Discard'
  BY <1>1, DiscardMoves DEF GoeInv
<1>4. Queue'
  BY <1>1, QueueMoves
<1>5. Sending'
  BY <1>1, SendingMoves
<1>6. Balance'
  BY <1>1, BalanceMoves
<1>7. Level'
  BY <1>1, LevelMoves
<1>8. Counting'
  BY <1>1, CountingMoves
<1>9. Software'
  BY <1>1, SoftwareMoves DEF GoeInv
<1>10. QED
  BY <1>2, <1>3, <1>4, <1>5, <1>6, <1>7, <1>8, <1>9 DEF GoeInv

\* A step without a clock.
LEMMA InvStutters == GoeInv /\ UNCHANGED vars => GoeInv'
<1> SUFFICES ASSUME GoeInv, UNCHANGED vars PROVE GoeInv'
  OBVIOUS
<1> USE DEF vars, dataVars, delVars, cntVars, goeVars
<1>1. Q' = Q /\ Leaving' = Leaving
  BY DEF Q, Leaving
<1>2. Wire' /\ Discard'
  BY DEF GoeInv, Wire, Discard
<1>3. Queue'
  BY <1>1 DEF GoeInv, Queue, Closed, Chained
<1>4. Sending'
  BY <1>1 DEF GoeInv, Sending, Position, Tails
<1>5. Balance' /\ Level'
  BY <1>1 DEF GoeInv, Balance, Level, Tails
<1>6. Counting' /\ Software'
  BY DEF GoeInv, Counting, Software
<1>7. QED
  BY <1>2, <1>3, <1>4, <1>5, <1>6 DEF GoeInv

LEMMA InvNext == ASSUME Roomy PROVE GoeInv /\ [Next]_vars => GoeInv'
<1> SUFFICES ASSUME GoeInv, [Next]_vars PROVE GoeInv'
  OBVIOUS
<1>1. CASE Next
  <2>1. PICK ready, dmaReady \in BOOLEAN :
          (ready \/ Stall) /\ Clock(ready, dmaReady)
    BY <1>1 DEF Next
  <2>2. QED
    BY <2>1, InvClock
<1>2. CASE UNCHANGED vars
  BY <1>2, InvStutters
<1>3. QED
  BY <1>1, <1>2

LEMMA InvHolds == ASSUME Roomy PROVE Spec => []GoeInv
<1>1. Init => GoeInv
  BY InvInit
<1>2. GoeInv /\ [Next]_vars => GoeInv'
  BY InvNext
<1>3. QED
  BY <1>1, <1>2, PTL DEF Spec

LEMMA InvHasRoom == GoeInv => Room
<1> SUFFICES ASSUME GoeInv, inStream.wr PROVE Len(stream) < StreamDepth
  BY DEF Room
<1>1. Len(Q) = Len(stream) + 1 /\ Len(stream) \in Nat
  BY QueueType DEF QueueFacts, One
<1>2. QED
  BY <1>1, QueueFits, GoeAssumption

(***************************************************************************)
(* Room: however long packets and pauses are, what arrives finds room in   *)
(* goe's FIFO although nothing stops the generator, if pktout stalls no    *)
(* more than Roomy allows.                                                 *)
(***************************************************************************)
THEOREM RoomSuffices == ASSUME Roomy PROVE Spec => []Room
  BY InvHolds, InvHasRoom, PTL
-----------------------------------------------------------------------------
(***************************************************************************)
(* Every step is one of Egress, or none.                                   *)
(***************************************************************************)

LEMMA EngineStarts == Init => Engine!EInit
<1> SUFFICES ASSUME Init PROVE Engine!EInit
  OBVIOUS
<1>1. /\ stream = <<>> /\ inStream = Idle /\ pktout = Idle
      /\ streamRw = FALSE /\ counts = [f \in Flows |-> 0] /\ cntState = "idle"
  BY DEF Init, DataInit
<1>2. Q = <<>> /\ Out = Idle /\ Taken = 0 /\ Counters = [f \in Flows |-> 0]
  BY <1>1, IdleWord DEF Q, Out, Taken, Counters
<1>3. QED
  BY <1>2 DEF Engine!EInit

LEMMA FirstIsHead ==
  ASSUME NEW b \in KeptWords, b.seq = 0
  PROVE  b.flag = "head"
<1>1. PICK k \in KeptKinds : b \in {Word(k, n) : n \in WordNo(k)}
  BY DEF KeptWords
<1>2. PICK n \in WordNo(k) : b = Word(k, n)
  BY <1>1
<1>3. QED
  BY <1>2 DEF Word

\* What comes in is the first word of a packet or the one that follows.
LEMMA EngineArrives ==
  ASSUME GoeInv, PgmSends, DelIdle(inGoe) \/ DelTrans(inGoe), StreamFifo
  PROVE  Engine!Arrive(stream')
<1>1. /\ Queue' /\ QueueFacts'
      /\ Q' = IF inStream'.wr THEN Append(stream', inStream') ELSE stream'
      /\ inStream'.wr => inStream' \in KeptWords /\ Joins(stream', inStream')
  BY QueueMoves
<1>2. CASE ~inStream'.wr
  BY <1>1, <1>2 DEF Engine!Arrive
<1>3. CASE inStream'.wr
  <2>1. /\ stream' \in Seq(KeptWords) /\ inStream' \in KeptWords
        /\ Q' = Append(stream', inStream') /\ Joins(stream', inStream')
    BY <1>1, <1>3 DEF Queue
  <2>2. Q' # <<>> /\ Q'[Len(Q')] = inStream'
    BY <2>1
  <2>3. inStream'.seq = 0 => inStream'.flag = "head"
    BY <2>1, FirstIsHead
  <2>4. IF stream' # <<>> /\ stream'[Len(stream')].flag # "tail"
        THEN /\ inStream'.pkt = stream'[Len(stream')].pkt
             /\ inStream'.seq = stream'[Len(stream')].seq + 1
        ELSE inStream'.seq = 0
    BY <2>1 DEF Joins
  <2> DEFINE w == Q'[Len(Q')]
  <2>5. /\ Q' # <<>> /\ Q' = Append(stream', w)
        /\ IF stream' # <<>> /\ stream'[Len(stream')].flag # "tail"
           THEN /\ w.pkt = stream'[Len(stream')].pkt
                /\ w.seq = stream'[Len(stream')].seq + 1
           ELSE w.flag = "head" /\ w.seq = 0
    BY <2>1, <2>2, <2>3, <2>4
  <2>6. QED
    BY <2>5, Zenon DEF Engine!Arrive
<1>4. QED
  BY <1>2, <1>3

\* A counter that is being written counts as written.
LEMMA CountersAre ==
  ASSUME Counting
  PROVE  /\ streamRw => Counters = [counts EXCEPT ![addressB] = dataB]
         /\ ~streamRw => Counters = counts
         /\ IsTable(counts)
  BY DEF Counting, Counters, IsTable

LEMMA CountersAreNext ==
  ASSUME Counting'
  PROVE  /\ streamRw' => Counters' = [counts' EXCEPT ![addressB'] = dataB']
         /\ ~streamRw' => Counters' = counts'
         /\ IsTable(counts')
<1>1. (Counting => /\ streamRw => Counters = [counts EXCEPT ![addressB] = dataB]
                   /\ ~streamRw => Counters = counts
                   /\ IsTable(counts))'
  BY CountersAre, PTL
<1>2. QED
  BY <1>1 DEF IsTable

\* The word that leaves, if one does.
Goes == IF cntState = "idle" THEN Idle ELSE stream[1]

\* Where in its packet it is.
LEMMA GoesWhere ==
  ASSUME GoeInv, cntState # "idle"
  PROVE  /\ Goes = stream[1] /\ Goes \in KeptWords /\ Goes # Idle
         /\ Goes.seq \in Nat
         /\ cntState = "wait0" <=> Goes.seq = 0
         /\ cntState = "wait1" <=> Goes.seq = 1
         /\ cntState = "write" <=> Goes.seq = 2
<1>1. Position /\ Tails(stream) # {}
  BY DEF GoeInv, Sending
<1>2. stream # <<>>
  <2>1. stream = <<>> => 1 .. Len(stream) = {}
    OBVIOUS
  <2>2. QED
    BY <1>1, <2>1 DEF Tails
<1>3. Goes = stream[1] /\ stream[1] \in KeptWords
  BY <1>2, QueueType DEF Goes, QueueFacts
<1>4. Goes.seq \in Nat /\ Goes # Idle
  BY <1>3, KeptType
<1>5. cntState \in {"wait0", "wait1", "write", "trans"}
  BY DEF GoeInv, Sending, Leaving
<1>6. QED
  BY <1>1, <1>3, <1>4, <1>5 DEF Position
\* Where a packet and software meet at one counter, it is as if one came after
\* the other.
LEMMA EngineCounts ==
  ASSUME GoeInv, GoeInv', PgmSends, DelIdle(inGoe) \/ DelTrans(inGoe),
         StreamFifo, NEW ready, Sends(ready), goe_ram_inst(portA)
  PROVE  Engine!Tally(Goes)
<1> DEFINE zero(t) == [t EXCEPT ![0] = 0]
           b == <<addressB, dataB>>
<1>1. /\ portA = <<>> \/ portA = <<0, 0>>
      /\ streamRw \in BOOLEAN /\ (streamRw => cntState = "trans")
      /\ addressB \in Flows /\ IsTable(counts) /\ 0 \in Flows
  BY FlowType DEF GoeInv, Software, Counting, IsTable
<1>2. \A t : After(t, portA) = t \/ After(t, portA) = zero(t)
  <2>1. CASE portA = <<>>
    BY <2>1 DEF After
  <2>2. CASE portA = <<0, 0>>
    <3>1. portA # <<>> /\ portA[1] = 0 /\ portA[2] = 0
      BY <2>2
    <3>2. QED
      BY <3>1 DEF After
  <2>3. QED
    BY <1>1, <2>1, <2>2
<1>3. SUFFICES \/ Counters' = Engine!Counted(Counters, Goes)
               \/ Counters' = zero(Engine!Counted(Counters, Goes))
               \/ Counters' = Engine!Counted(zero(Counters), Goes)
  BY <1>1 DEF Engine!Tally
<1>4. /\ streamRw' => Counters' = [counts' EXCEPT ![addressB'] = dataB']
      /\ ~streamRw' => Counters' = counts'
      /\ IsTable(counts')
      /\ streamRw => Counters = [counts EXCEPT ![addressB] = dataB]
      /\ ~streamRw => Counters = counts
  BY CountersAre, CountersAreNext DEF GoeInv
<1>5. streamRw' = (cntState = "write")
  BY AddressMoves
<1>6. cntState # "write" => \A t : Engine!Counted(t, Goes) = t
  <2>1. cntState # "write" => Goes = Idle \/ Goes.seq # 2
    BY GoesWhere DEF Goes
  <2>2. QED
    BY <2>1 DEF Engine!Counted
<1>7. CASE streamRw
  <2>1. cntState # "write" /\ Counters' = counts'
    BY <1>1, <1>4, <1>5, <1>7
  <2>2. \/ counts' = After(After(counts, portA), b)
        \/ counts' = After(Counters, portA)
    <3>1. After(counts, b) = Counters
      BY <1>4, <1>7 DEF After
    <3>2. QED
      BY <1>7, <3>1 DEF goe_ram_inst
  <2>3. CASE counts' = After(Counters, portA)
    BY <1>2, <1>6, <2>1, <2>3
  <2>4. CASE counts' = After(After(counts, portA), b)
    <3>1. \A t : After(t, b) = [t EXCEPT ![addressB] = dataB]
      BY DEF After
    <3>2. counts' = Counters \/ counts' = [zero(counts) EXCEPT ![addressB] = dataB]
      BY <1>2, <1>4, <1>7, <2>4, <3>1
    <3>3. addressB = 0 =>
            [zero(counts) EXCEPT ![addressB] = dataB]
              = [counts EXCEPT ![addressB] = dataB]
      BY <1>1 DEF IsTable
    <3>4. addressB # 0 =>
            [zero(counts) EXCEPT ![addressB] = dataB]
              = zero([counts EXCEPT ![addressB] = dataB])
      BY <1>1 DEF IsTable
    <3>5. QED
      BY <1>4, <1>6, <1>7, <2>1, <3>2, <3>3, <3>4
  <2>5. QED
    BY <2>2, <2>3, <2>4
<1>8. CASE ~streamRw
  <2>1. Counters = counts /\ counts' = After(counts, portA)
    BY <1>4, <1>8 DEF goe_ram_inst, After
  <2>2. CASE cntState # "write"
    <3>1. Counters' = counts'
      BY <1>4, <1>5, <2>2
    <3>2. QED
      BY <1>2, <1>6, <2>1, <2>2, <3>1
  <2>3. CASE cntState = "write"
    <3>1. /\ addressB' = Kinds[Goes.pkt].flow
          /\ dataB' = (Taken + 1) % CountMod
      <4>1. CntWrite
        BY <2>3 DEF Sends, CntIdle, CntWait0, CntWait1, CntTrans
      <4>2. Goes = stream[1] /\ Taken = qB
        BY <2>3, GoesWhere DEF Taken
      <4>3. streamAddr = Kinds[stream[1].pkt].flow
        BY <2>3 DEF GoeInv, Counting
      <4>4. QED
        BY <4>1, <4>2, <4>3 DEF CntWrite
    <3>2. Goes # Idle /\ Goes.seq = 2
      BY <2>3, GoesWhere
    <3>3. Counters' = [counts' EXCEPT ![Kinds[Goes.pkt].flow]
                                        = (Taken + 1) % CountMod]
      BY <1>4, <1>5, <2>3, <3>1
    <3>4. Counters' = Engine!Counted(counts', Goes)
      BY <3>2, <3>3 DEF Engine!Counted
    <3>5. QED
      BY <1>2, <2>1, <3>4
  <2>4. QED
    BY <2>2, <2>3
<1>9. QED
  BY <1>1, <1>7, <1>8
\* Between packets nothing leaves.
LEMMA EngineRests ==
  ASSUME GoeInv, GoeInv', NEW ready, NEW dmaReady, Clock(ready, dmaReady),
         cntState = "idle"
  PROVE  Engine!Rest
<1>1. /\ PgmSends /\ (DelIdle(inGoe) \/ DelTrans(inGoe)) /\ Sends(ready)
      /\ StreamFifo /\ goe_ram_inst(portA)
  BY DEF Clock, DataClock, Sends
<1>2. CntIdle(ready)
  BY <1>1 DEF Sends, CntWait0, CntWait1, CntWrite, CntTrans
<1>3. ~Engine!Inside(Out)
  <2>1. ~pktout.wr \/ pktout.flag = "tail"
    BY DEF GoeInv, Sending, Leaving
  <2>2. QED
    BY <2>1 DEF Out, Engine!Inside
<1>4. Out' = Idle
  BY <1>2, IdleWord DEF CntIdle, Out
<1>5. Engine!Arrive(Q)
  <2>1. stream' = Q
    BY <1>1, StreamMoves DEF GoeInv, Sending
  <2>2. Engine!Arrive(stream')
    BY <1>1, EngineArrives
  <2>3. QED
    BY <2>1, <2>2
<1>6. Engine!Tally(Idle)
  BY <1>1, EngineCounts DEF Goes
<1>7. Taken' = 0
  BY <1>2 DEF CntIdle, Taken
<1>8. QED
  BY <1>3, <1>4, <1>5, <1>6, <1>7 DEF Engine!Rest

\* While a packet leaves, its next word does.
LEMMA EngineSends ==
  ASSUME GoeInv, GoeInv', NEW ready, NEW dmaReady, Clock(ready, dmaReady),
         cntState # "idle"
  PROVE  Engine!Send
<1>1. /\ PgmSends /\ (DelIdle(inGoe) \/ DelTrans(inGoe)) /\ Sends(ready)
      /\ StreamFifo /\ goe_ram_inst(portA)
  BY DEF Clock, DataClock, Sends
<1>2. CntWait0 \/ CntWait1 \/ CntWrite \/ CntTrans
  BY <1>1 DEF Sends, CntIdle
<1>3. /\ Emit
      /\ cntState = "wait0" => cntState' = "wait1"
      /\ cntState = "wait1" => cntState' = "write"
      /\ cntState \notin {"wait0", "wait1"} => cntState' \in {"trans", "idle"}
  BY <1>2 DEF CntWait0, CntWait1, CntWrite, CntTrans
<1>4. stream' = Tail(Q)
  BY <1>1, StreamMoves DEF GoeInv, Sending
<1>5. /\ Goes = stream[1] /\ Goes \in KeptWords /\ Goes # Idle
      /\ cntState = "wait0" <=> Goes.seq = 0
      /\ cntState = "wait1" <=> Goes.seq = 1
  BY GoesWhere
<1>6. Out' = Goes /\ Q # <<>> /\ Q[1] = Goes
  <2>1. pktout' = Goes /\ Q # <<>> /\ Q[1] = Goes
    BY <1>3, <1>4, <1>5, FirstGoes
  <2>2. pktout'.wr
    BY <1>5, <2>1, KeptType
  <2>3. QED
    BY <2>1, <2>2 DEF Out
<1>7. Engine!Complete
  <2>1. Tails(Q) # {}
    BY QueueType DEF GoeInv, Sending, QueueFacts
  <2>2. QED
    BY <2>1 DEF Engine!Complete, Tails
<1>8. Out' = Head(Q)
  BY <1>6
<1>9. Engine!Arrive(Tail(Q))
  <2>1. Engine!Arrive(stream')
    BY <1>1, EngineArrives
  <2>2. QED
    BY <1>4, <2>1
<1>10. Engine!Tally(Out')
  BY <1>1, <1>6, EngineCounts
<1>11. Goes.seq = 0 =>
         Taken' \in {Counters[Kinds[Goes.pkt].flow],
                     Counters'[Kinds[Goes.pkt].flow]}
  <2>1. SUFFICES ASSUME cntState = "wait0"
                 PROVE  Taken' \in {Counters[addressB], Counters'[addressB]}
    BY <1>5 DEF GoeInv, Counting
  <2>2. Taken' = core' /\ core' \in {counts[addressB], After(counts, portA)[addressB]}
    BY <1>1, <1>3, <2>1 DEF Taken, goe_ram_inst
  <2>3. ~streamRw /\ ~streamRw' /\ Counting /\ Counting'
    BY <1>1, <2>1, AddressMoves DEF GoeInv, Counting
  <2>4. counts' = After(counts, portA)
    BY <1>1, <2>3 DEF goe_ram_inst, After
  <2>5. Counters = counts /\ Counters' = counts'
    BY <2>3, CountersAre, CountersAreNext
  <2>6. QED
    BY <2>2, <2>4, <2>5
<1>12. Goes.seq = 1 => Taken' = Taken
  BY <1>1, <1>3, <1>5 DEF Taken, goe_ram_inst
<1>13. Goes.seq \notin {0, 1} => Taken' = 0
  BY <1>3, <1>5 DEF Taken
<1>14. (CASE Out'.seq = 0 -> Taken' \in {Counters[Kinds[Out'.pkt].flow],
                                        Counters'[Kinds[Out'.pkt].flow]}
         [] Out'.seq = 1 -> Taken' = Taken
         [] OTHER -> Taken' = 0)
  BY <1>6, <1>11, <1>12, <1>13
<1>15. QED
  BY <1>7, <1>8, <1>9, <1>10, <1>14 DEF Engine!Send

LEMMA EngineSteps ==
  ASSUME GoeInv, GoeInv', [Next]_vars
  PROVE  [Engine!Rest \/ Engine!Send]_(Engine!evars)
<1>1. CASE Next
  <2>1. PICK ready, dmaReady \in BOOLEAN : Clock(ready, dmaReady)
    BY <1>1 DEF Next
  <2>2. QED
    BY <2>1, EngineRests, EngineSends
<1>2. CASE UNCHANGED vars
  BY <1>2 DEF vars, dataVars, delVars, cntVars, Q, Out, Taken, Counters,
              Engine!evars
<1>3. QED
  BY <1>1, <1>2

(***************************************************************************)
(* The data half keeps what Egress promises, but for the progress: however *)
(* packets, stalls and commands of software come together, packets leave   *)
(* whole, in order and once, none before it is complete, and each adds one *)
(* to the counter of its flow.                                             *)
(***************************************************************************)
THEOREM EngineKeepsPromise == ASSUME Roomy PROVE Spec => Engine!ESafe
<1>1. Init => Engine!EInit
  BY EngineStarts
<1>2. GoeInv /\ GoeInv' /\ [Next]_vars =>
        [Engine!Rest \/ Engine!Send]_(Engine!evars)
  BY EngineSteps
<1>3. Spec => []GoeInv
  BY InvHolds
<1>4. QED
  BY <1>1, <1>2, <1>3, PTL DEF Spec, Engine!ESafe
=============================================================================
