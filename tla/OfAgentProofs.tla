---------------------------- MODULE OfAgentProofs ----------------------------
(***************************************************************************)
(* What is proved of the agent, for any number of ports, any of them       *)
(* changing, any numbers of requests and any length of the queue.          *)
(***************************************************************************)
EXTENDS OfAgent, SequenceTheorems, TLAPS

(***************************************************************************)
(* The update thread between its two looks at a port: it has seen that the *)
(* port is not what it was and has not told the controller yet.            *)
(***************************************************************************)
AtPort(p) == upd.port = p /\ upd.pc = "compare"
Telling(p) == AtPort(p) /\ old_state[p] # state[p]

\* The ranges of what the property is about.
PortRanges ==
  /\ link \in [Ports -> Status]
  /\ state \in [Ports -> Status]
  /\ old_state \in [Ports -> Status \cup {"new"}]
  /\ upd \in [port : Ports, pc : {"read", "compare"}]

ViewRanges ==
  /\ PortRanges
  /\ knows \in [Ports -> Status \cup {"none"}]
  /\ held \in Seq(Status)

\* A port that was down when it was first found is down until it has been
\* looked at again (the environment's part, with UpAtOnce FALSE).
StaysDown ==
  \A p \in Ports : state[p] = "down" /\ old_state[p] # "down" => link[p] = "down"

\* What the update thread remembers of a port it is not at is what it read,
\* but for the port it counts as up because it was new to it.
Remembered ==
  \A p \in Ports :
    \/ AtPort(p)
    \/ old_state[p] = state[p]
    \/ old_state[p] = "up" /\ state[p] = "down"
    \/ old_state[p] = "new" /\ state[p] = "up"

\* Nothing is told before the session is open.
Untold == fl_connect \in {0, 1} /\ (fl_connect = 0 => \A p \in Ports : knows[p] = "none")

\* What the controller was told, and what the PORT_DESC that is being composed
\* will tell it, is the state unless the update thread is about to correct it.
ToldRight ==
  \A p \in Ports : knows[p] \in {state[p], "none"} \/ Telling(p) \/ p \in overtaken

HeldRight ==
  \A p \in Ports :
    p < Len(held) => held[p + 1] = state[p] \/ Telling(p) \/ p \in overtaken

ViewInv == ViewRanges /\ StaysDown /\ Remembered /\ Untold /\ ToldRight /\ HeldRight

-----------------------------------------------------------------------------
view == <<fl_connect, held, link, state, old_state, upd, knows, overtaken>>

Opens == fl_connect' = 1 /\ UNCHANGED <<held, link, state, old_state, upd, knows, overtaken>>

\* What a step can do to what the properties are about.
LEMMA StepKinds ==
  ASSUME [Next]_vars
  PROVE  \/ UNCHANGED view \/ Opens \/ LinkChanges
         \/ handle_ofpmp_port_desc \/ CopyState \/ SendPortDesc
         \/ (\E ok \in BOOLEAN : read_port_status(ok)) \/ update_port_info
<1> USE DEF view, Opens, session, update, packets
<1>1. CASE UNCHANGED vars
  BY <1>1 DEF vars
<1>2. CASE ControllerAsks \/ ControllerSays \/ ControllerSendsPacket
  BY <1>2 DEF ControllerAsks, ControllerSays, ControllerSendsPacket, Post
<1>3. CASE send_hello_message \/ handle_quiet \/ handle_packet_out \/ Answered
  BY <1>3 DEF send_hello_message, handle_quiet, handle_packet_out, Answered, Next_message
<1>4. CASE handle_hello \/ handle_features_request
  BY <1>4 DEF handle_hello, handle_features_request, Next_message
<1>5. ASSUME NEW p \in Wired, pcap_packet(p) PROVE UNCHANGED view
  BY <1>5 DEF pcap_packet
<1>6. QED
  BY <1>1, <1>2, <1>3, <1>4, <1>5
     DEF Next, Environment, Receive, Update, handle_echo_request,
         handle_get_config_request, handle_barrier_request, handle_role_request,
         handle_multipart_request, handle_ofpmp_desc, handle_ofpmp_stats,
         handle_ofpmp_table, handle_ofpmp_group_features, handle_ofpmp_unsupported

LEMMA InitView == Init => ViewInv
<1> SUFFICES ASSUME Init PROVE ViewInv
  OBVIOUS
<1> USE AgentAssumption DEF Init, Ports, Status
<1>1. PortRanges
  BY DEF PortRanges
<1>2. ViewRanges
  BY <1>1 DEF ViewRanges
<1>3. StaysDown /\ Remembered
  BY DEF StaysDown, Remembered
<1>4. Untold /\ ToldRight /\ HeldRight
  BY DEF Untold, ToldRight, HeldRight
<1>5. QED
  BY <1>2, <1>3, <1>4 DEF ViewInv

LEMMA StepView == ~UpAtOnce /\ ViewInv /\ [Next]_vars => ViewInv'
<1> SUFFICES ASSUME ~UpAtOnce, ViewInv, [Next]_vars PROVE ViewInv'
  OBVIOUS
<1>0. ViewRanges /\ StaysDown /\ Remembered /\ Untold /\ ToldRight /\ HeldRight
  BY DEF ViewInv
<1>1. CASE UNCHANGED view
  BY <1>0, <1>1 DEF view, ViewInv, ViewRanges, PortRanges, StaysDown, Remembered, Untold,
     ToldRight, HeldRight, AtPort, Telling
<1>2. CASE Opens
  BY <1>0, <1>2 DEF Opens, ViewInv, ViewRanges, PortRanges, StaysDown, Remembered, Untold,
     ToldRight, HeldRight, AtPort, Telling
<1>3. CASE LinkChanges
  <2>1. PICK p \in Changing :
          /\ link[p] = "up" \/ state[p] = "up" \/ old_state[p] = "down"
          /\ link' = [link EXCEPT ![p] = CHOOSE s \in Status : s # @]
    BY <1>3 DEF LinkChanges
  <2>2. UNCHANGED <<fl_connect, held, state, old_state, upd, knows, overtaken>>
    BY <1>3 DEF LinkChanges, session, update
  <2>3. p \in Ports
    BY AgentAssumption DEF Ports
  <2>4. (CHOOSE s \in Status : s # link[p]) \in Status
        /\ (CHOOSE s \in Status : s # link[p]) # link[p]
    BY DEF Status
  <2>5. link' \in [Ports -> Status]
    BY <1>0, <2>1, <2>4 DEF ViewRanges, PortRanges
  <2>6. StaysDown'
    <3>1. link[p] = "up" => link'[p] = "down"
      BY <1>0, <2>1, <2>3, <2>4 DEF ViewRanges, PortRanges, Status
    <3>2. \A q \in Ports : q # p => link'[q] = link[q]
      BY <1>0, <2>1 DEF ViewRanges, PortRanges
    <3>3. QED
      BY <1>0, <2>1, <2>2, <3>1, <3>2 DEF StaysDown
  <2>7. QED
    BY <1>0, <2>2, <2>5, <2>6 DEF ViewInv, ViewRanges, PortRanges, Remembered, Untold,
       ToldRight, HeldRight, AtPort, Telling
<1>4. CASE handle_ofpmp_port_desc
  <2>1. held' = <<>> /\ UNCHANGED <<fl_connect, link, state, old_state, upd, knows, overtaken>>
    BY <1>4 DEF handle_ofpmp_port_desc, Next_message, update
  <2>2. HeldRight' /\ held' \in Seq(Status)
    BY <2>1 DEF HeldRight, Ports
  <2>3. QED
    BY <1>0, <2>1, <2>2 DEF ViewInv, ViewRanges, PortRanges, StaysDown, Remembered, Untold,
       ToldRight, AtPort, Telling
<1>5. CASE CopyState
  <2>1. /\ Len(held) < cnt /\ held' = Append(held, state[Len(held)])
        /\ UNCHANGED <<fl_connect, link, state, old_state, upd, knows, overtaken>>
    BY <1>5 DEF CopyState, update
  <2>2. held \in Seq(Status) /\ Len(held) \in Ports
    BY <1>0, <2>1, AgentAssumption DEF ViewRanges, Ports
  <2>3. state[Len(held)] \in Status
    BY <1>0, <2>2 DEF ViewRanges, PortRanges
  <2>4. held' \in Seq(Status)
    BY <2>1, <2>2, <2>3
  <2>5. HeldRight'
    <3> SUFFICES ASSUME NEW p \in Ports, p < Len(held)'
                 PROVE  held'[p + 1] = state[p] \/ Telling(p) \/ p \in overtaken
      BY <2>1 DEF HeldRight, Telling, AtPort
    <3>1. CASE p = Len(held)
      BY <2>1, <2>2, <2>3, <3>1
    <3>2. CASE p < Len(held)
      <4>1. held'[p + 1] = held[p + 1]
        BY <2>1, <2>2, <2>3, <3>2 DEF Ports
      <4>2. QED
        BY <1>0, <3>2, <4>1 DEF HeldRight
    <3>3. QED
      BY <2>1, <2>2, <2>3, <3>1, <3>2 DEF Ports
  <2>6. QED
    BY <1>0, <2>1, <2>4, <2>5 DEF ViewInv, ViewRanges, PortRanges, StaysDown, Remembered,
       Untold, ToldRight, AtPort, Telling
<1>6. CASE SendPortDesc
  <2>1. /\ Len(held) = cnt /\ held' = <<>>
        /\ knows' = IF fl_connect = 1 THEN [p \in Ports |-> held[p + 1]] ELSE knows
        /\ UNCHANGED <<fl_connect, link, state, old_state, upd, overtaken>>
    BY <1>6 DEF SendPortDesc, update
  <2>2. HeldRight' /\ held' \in Seq(Status)
    BY <2>1 DEF HeldRight, Ports
  <2>3. \A p \in Ports : p < Len(held) /\ held[p + 1] \in Status
    BY <1>0, <2>1, AgentAssumption DEF ViewRanges, Ports
  <2>4. knows' \in [Ports -> Status \cup {"none"}]
    BY <1>0, <2>1, <2>3 DEF ViewRanges
  <2>5. ToldRight'
    BY <1>0, <2>1, <2>3 DEF ToldRight, HeldRight, Telling, AtPort
  <2>6. Untold'
    BY <1>0, <2>1 DEF Untold
  <2>7. QED
    BY <1>0, <2>1, <2>2, <2>4, <2>5, <2>6 DEF ViewInv, ViewRanges, PortRanges, StaysDown,
       Remembered, AtPort
<1>7. ASSUME NEW ok \in BOOLEAN, read_port_status(ok) PROVE ViewInv'
  <2> DEFINE p == upd.port
  <2>1. /\ upd.pc = "read"
        /\ state' = IF ok THEN [state EXCEPT ![p] = link[p]] ELSE state
        /\ upd' = [upd EXCEPT !.pc = "compare"]
        /\ UNCHANGED <<fl_connect, held, link, old_state, knows, overtaken>>
    BY <1>7 DEF read_port_status, session
  <2>2. p \in Ports /\ upd'.port = p /\ upd'.pc = "compare"
        /\ upd' \in [port : Ports, pc : {"read", "compare"}]
    BY <1>0, <2>1 DEF ViewRanges, PortRanges
  <2>3. link[p] \in Status /\ state'[p] \in {link[p], state[p]} /\ state' \in [Ports -> Status]
        /\ \A q \in Ports : q # p => state'[q] = state[q]
    BY <1>0, <2>1, <2>2 DEF ViewRanges, PortRanges
  <2> HIDE DEF p
  <2>4. \A q \in Ports : AtPort(q)' <=> q = p
    BY <2>2 DEF AtPort
  <2>5. \A q \in Ports : ~AtPort(q)
    BY <2>1 DEF AtPort
  <2>6. StaysDown' /\ Remembered'
    BY <1>0, <2>1, <2>3, <2>4, <2>5 DEF StaysDown, Remembered
  <2>7. old_state[p] = state'[p] => state[p] = state'[p]
    BY <1>0, <2>1, <2>2, <2>3, <2>5 DEF StaysDown, Remembered, Status
  <2>8. ASSUME NEW q \in Ports
        PROVE  /\ ~Telling(q)
               /\ Telling(q)' \/ state'[q] = state[q]
    BY <2>1, <2>3, <2>4, <2>5, <2>7 DEF Telling
  <2>9. ToldRight' /\ HeldRight'
    BY <1>0, <2>1, <2>8 DEF ToldRight, HeldRight
  <2>10. QED
    BY <1>0, <2>1, <2>2, <2>3, <2>6, <2>9 DEF ViewInv, ViewRanges, PortRanges, Untold
<1>8. CASE update_port_info
  <2> DEFINE p == upd.port
  <2>1. /\ upd.pc = "compare"
        /\ upd' = [port |-> (p + 1) % cnt, pc |-> "read"]
        /\ IF old_state[p] = state[p] THEN UNCHANGED <<old_state, knows, overtaken>>
           ELSE /\ old_state' = [old_state EXCEPT ![p] = IF @ = "new" THEN "up" ELSE state[p]]
                /\ Told(p)
        /\ UNCHANGED <<fl_connect, held, link, state>>
    BY <1>8 DEF update_port_info, NextPort, session
  <2>2. p \in Ports /\ upd' \in [port : Ports, pc : {"read", "compare"}]
        /\ upd'.pc = "read"
    BY <1>0, <2>1, AgentAssumption DEF ViewRanges, PortRanges, Ports
  <2> HIDE DEF p
  <2>3. \A q \in Ports : ~AtPort(q)'
    BY <2>2 DEF AtPort
  <2>4. \A q \in Ports : AtPort(q) <=> q = p
    BY <2>1 DEF AtPort, p
  <2>5. CASE old_state[p] = state[p]
    BY <1>0, <2>1, <2>2, <2>3, <2>4, <2>5 DEF ViewInv, ViewRanges, PortRanges, StaysDown,
       Remembered, Untold, ToldRight, HeldRight, Telling
  <2>6. CASE old_state[p] # state[p]
    <3>1. /\ old_state' = [old_state EXCEPT ![p] = IF @ = "new" THEN "up" ELSE state[p]]
          /\ knows' = IF fl_connect = 1 THEN [knows EXCEPT ![p] = state[p]] ELSE knows
          /\ overtaken' = IF Len(held) > p THEN overtaken \cup {p} ELSE overtaken \ {p}
          /\ UNCHANGED <<fl_connect, held, link, state>>
      BY <2>1, <2>6 DEF Told
    <3>2. state[p] \in Status /\ old_state[p] \in Status \cup {"new"}
      BY <1>0, <2>2 DEF ViewRanges, PortRanges
    <3>3. /\ old_state' \in [Ports -> Status \cup {"new"}]
          /\ old_state'[p] = IF old_state[p] = "new" THEN "up" ELSE state[p]
          /\ \A q \in Ports : q # p => old_state'[q] = old_state[q]
      BY <1>0, <2>2, <3>1, <3>2 DEF ViewRanges, PortRanges, Status
    <3>4. /\ knows' \in [Ports -> Status \cup {"none"}]
          /\ \A q \in Ports : q # p => knows'[q] = knows[q]
          /\ knows'[p] = IF fl_connect = 1 THEN state[p] ELSE knows[p]
      BY <1>0, <2>2, <3>1, <3>2 DEF ViewRanges
    <3>5. StaysDown'
      BY <1>0, <3>1, <3>2, <3>3 DEF StaysDown, Status
    <3>6. Remembered'
      BY <1>0, <2>4, <3>1, <3>2, <3>3 DEF Remembered, Status
    <3>7. Untold' /\ knows'[p] \in {state[p], "none"}
      BY <1>0, <2>2, <3>1, <3>4 DEF Untold
    <3>8. ASSUME NEW q \in Ports, q # p
          PROVE  /\ ~Telling(q) /\ (q \in overtaken <=> q \in overtaken')
                 /\ knows'[q] = knows[q]
      BY <2>4, <3>1, <3>4, <3>8 DEF Telling
    <3>9. ToldRight'
      BY <1>0, <3>1, <3>7, <3>8 DEF ToldRight
    <3>10. HeldRight'
      <4>1. p < Len(held) => p \in overtaken'
        BY <1>0, <2>2, <3>1 DEF ViewRanges, Ports
      <4>2. QED
        BY <1>0, <3>1, <3>8, <4>1 DEF HeldRight
    <3>11. QED
      BY <1>0, <2>2, <3>1, <3>3, <3>4, <3>5, <3>6, <3>7, <3>9, <3>10
         DEF ViewInv, ViewRanges, PortRanges
  <2>7. QED
    BY <2>5, <2>6
<1>9. QED
  BY <1>1, <1>2, <1>3, <1>4, <1>5, <1>6, <1>7, <1>8, StepKinds

(***************************************************************************)
(* Where a port that was found down is not up again before the second look *)
(* at it, what the controller was last told of a port is what the update   *)
(* thread found, but for a PORT_DESC that was overtaken.                   *)
(***************************************************************************)
THEOREM ViewIsCurrent == ~UpAtOnce => (Spec => []ViewCurrent)
<1> SUFFICES ASSUME ~UpAtOnce PROVE Spec => []ViewCurrent
  OBVIOUS
<1>1. ViewInv /\ [Next]_vars => ViewInv'
  BY StepView
<1>2. ViewInv => ViewCurrent
  BY DEF ViewInv, ViewRanges, PortRanges, ToldRight, ViewCurrent, Telling, AtPort
<1>3. QED
  BY InitView, <1>1, <1>2, PTL DEF Spec

-----------------------------------------------------------------------------
(***************************************************************************)
(* Which requests are owed an answer: those that the receiver comes to     *)
(* when the session is open, because it is or because a message before     *)
(* them, or they themselves, open it.                                      *)
(***************************************************************************)
TurnRanges ==
  /\ queue \in Seq(Messages) /\ owed \in Seq(Xids)
  /\ recv \in Xids \cup {Starting, Reading}
  /\ fl_connect \in {0, 1} /\ opened \in BOOLEAN

\* Whether the session is open once the receiver has come to place n.
OpenAt(n) ==
  fl_connect = 1 \/ \E k \in 1 .. n : queue[k].kind \in {"hello", "features"}

Opening ==
  /\ opened <=> OpenAt(Len(queue))
  /\ \A n \in 0 .. Len(queue), y \in Xids :
       Asks(n, y) => (y \in Range(owed) <=> OpenAt(n))

TurnInv == TurnRanges /\ Opening /\ OwedInHand /\ NoneAstray

\* The messages that ask for an answer.
LEMMA KindTells ==
  ASSUME NEW m \in Messages
  PROVE  /\ m \in Requests <=> m.kind \in Asking
         /\ m \in Requests => m.xid \in Xids
         /\ m.kind \in Asking \cup {"packet_out", "hello", "quiet"}
  BY DEF Messages, Requests, PacketOuts, Asking

\* Numbers of requests are not states of the receiver.
LEMMA NoState == Starting \notin Xids /\ Reading \notin Xids
  BY AgentAssumption DEF Starting, Reading

\* The place of every request that is owed.
InTurn(at) ==
  /\ at \in [DOMAIN owed -> 0 .. Len(queue)]
  /\ \A i, j \in DOMAIN owed : i < j => at[i] < at[j]
  /\ \A i \in DOMAIN owed, n \in 0 .. Len(queue) : Asks(n, owed[i]) <=> n = at[i]

\* What moves every request up by s places keeps their turns.
Moved(s, y) ==
  \A n \in 0 .. Len(queue)' :
    Asks(n, y)' <=> (n + s) \in 0 .. Len(queue) /\ Asks(n + s, y)

\* Every place s or above.
Room(s) == \A i \in DOMAIN owed, n \in 0 .. Len(queue) : Asks(n, owed[i]) => s <= n

LEMMA MovedUp ==
  ASSUME TurnRanges, OwedInHand, NEW s \in {0, 1}, Len(queue)' \in Nat,
         Len(queue)' >= Len(queue) - s, Room(s), owed' = owed,
         \A y \in Range(owed) : Moved(s, y)
  PROVE  OwedInHand'
<1>1. PICK at : InTurn(at)
  BY DEF OwedInHand, InTurn
<1>2. owed \in Seq(Xids) /\ Len(queue) \in Nat /\ DOMAIN owed \subseteq Nat
  BY DEF TurnRanges
<1>3. \A i \in DOMAIN owed : at[i] \in 0 .. Len(queue) /\ s <= at[i]
  BY <1>1 DEF InTurn, Room
<1> DEFINE to == [i \in DOMAIN owed |-> at[i] - s]
<1>4. to \in [DOMAIN owed -> 0 .. Len(queue)']
  BY <1>2, <1>3
<1>5. \A i, j \in DOMAIN owed : i < j => to[i] < to[j]
  BY <1>1, <1>2, <1>3 DEF InTurn
<1>6. \A i \in DOMAIN owed, n \in 0 .. Len(queue)' : Asks(n, owed[i])' <=> n = to[i]
  <2> SUFFICES ASSUME NEW i \in DOMAIN owed, NEW n \in 0 .. Len(queue)'
               PROVE  Asks(n, owed[i])' <=> n = to[i]
    OBVIOUS
  <2>1. Asks(n, owed[i])' <=> (n + s) \in 0 .. Len(queue) /\ Asks(n + s, owed[i])
    <3>1. PICK y \in Range(owed) : y = owed[i]
      BY DEF Range
    <3>2. Asks(n, y)' <=> (n + s) \in 0 .. Len(queue) /\ Asks(n + s, y)
      BY <3>1 DEF Moved
    <3>3. QED
      BY <3>1, <3>2 DEF Asks
  <2>2. \A m \in 0 .. Len(queue) : Asks(m, owed[i]) <=> m = at[i]
    BY <1>1 DEF InTurn
  <2>3. n + s = at[i] <=> n = at[i] - s
    BY <1>2, <1>3
  <2>4. QED
    BY <1>3, <2>1, <2>2, <2>3
<1> HIDE DEF to
<1>7. QED
  BY <1>4, <1>5, <1>6 DEF OwedInHand

\* The answer to the request that is first takes it from what is owed.
LEMMA AnsweredFirst ==
  ASSUME TurnRanges, OwedInHand, NEW s \in {0, 1}, Room(s), s <= Len(queue),
         NEW x \in Xids, Asks(s, x), x \in Range(owed),
         Answer(x, 1),
         Len(queue)' \in Nat, Len(queue)' >= Len(queue) - s,
         \A y \in Range(owed) \ {x} : Moved(s, y)
  PROVE  /\ owed' = Tail(owed) /\ owed' \in Seq(Xids) /\ astray' = astray
         /\ Range(owed)' = Range(owed) \ {x}
         /\ \A n \in 0 .. Len(queue) : Asks(n, x) => n = s
         /\ OwedInHand'
<1>1. PICK at : InTurn(at)
  BY DEF OwedInHand, InTurn
<1>2. /\ owed \in Seq(Xids) /\ Len(queue) \in Nat
      /\ Len(owed) \in Nat /\ DOMAIN owed = 1 .. Len(owed)
  BY DEF TurnRanges
<1>3. \A i \in DOMAIN owed : at[i] \in 0 .. Len(queue) /\ s <= at[i]
  BY <1>1 DEF InTurn, Room
<1>4. \A i \in DOMAIN owed : owed[i] = x => i = 1
  <2> TAKE i \in DOMAIN owed
  <2> HAVE owed[i] = x
  <2>1. at[i] = s
    BY <1>1, <1>2 DEF InTurn
  <2>2. i # 1 => at[1] < at[i]
    BY <1>1, <1>2 DEF InTurn
  <2>3. QED
    BY <1>2, <1>3, <2>1, <2>2
<1>5. 1 \in DOMAIN owed /\ owed[1] = x
  BY <1>4 DEF Range
<1>6. owed # <<>> /\ Head(owed) = x
  BY <1>2, <1>5
<1>7. owed' = Tail(owed) /\ astray' = astray
  BY <1>6 DEF Answer
<1>8. /\ DOMAIN owed' = 1 .. Len(owed) - 1
      /\ \A i \in DOMAIN owed' : i + 1 \in DOMAIN owed /\ owed'[i] = owed[i + 1]
  <2> DEFINE rest == Tail(owed)
  <2>1. Len(owed) > 0 /\ rest \in Seq(Xids) /\ Len(rest) = Len(owed) - 1
        /\ \A i \in 1 .. Len(owed) - 1 : rest[i] = owed[i + 1]
    BY <1>2, <1>5
  <2>2. DOMAIN rest = 1 .. Len(owed) - 1
    BY <2>1
  <2>3. owed' = rest
    BY <1>7, Zenon
  <2> HIDE DEF rest
  <2>4. \A i \in 1 .. Len(owed) - 1 : i + 1 \in DOMAIN owed
    BY <1>2, <2>1
  <2>5. QED
    BY <2>1, <2>2, <2>3, <2>4
<1> DEFINE to == [i \in DOMAIN owed' |-> at[i + 1] - s]
<1>9. to \in [DOMAIN owed' -> 0 .. Len(queue)']
  BY <1>2, <1>3, <1>8
<1>10. \A i, j \in DOMAIN owed' : i < j => to[i] < to[j]
  <2> SUFFICES ASSUME NEW i \in DOMAIN owed', NEW j \in DOMAIN owed', i < j
               PROVE  at[i + 1] - s < at[j + 1] - s
    OBVIOUS
  <2>1. i + 1 \in DOMAIN owed /\ j + 1 \in DOMAIN owed /\ i + 1 < j + 1
    BY <1>2, <1>8
  <2>2. at[i + 1] < at[j + 1]
    BY <1>1, <2>1 DEF InTurn
  <2>3. QED
    BY <1>2, <1>3, <2>1, <2>2
<1>11. \A i \in DOMAIN owed', n \in 0 .. Len(queue)' : Asks(n, owed[i])' <=> n = to[i]
  <2> SUFFICES ASSUME NEW i \in DOMAIN owed', NEW n \in 0 .. Len(queue)'
               PROVE  Asks(n, owed[i])' <=> n = to[i]
    OBVIOUS
  <2>1. i + 1 \in DOMAIN owed /\ owed'[i] = owed[i + 1] /\ i + 1 # 1
    BY <1>2, <1>8
  <2>2. owed[i + 1] # x
    BY <1>4, <2>1
  <2>3. Asks(n, owed[i])' <=> (n + s) \in 0 .. Len(queue) /\ Asks(n + s, owed[i + 1])
    <3>1. PICK y \in Range(owed) : y = owed[i + 1]
      BY <2>1 DEF Range
    <3>2. Asks(n, y)' <=> (n + s) \in 0 .. Len(queue) /\ Asks(n + s, y)
      BY <2>2, <3>1 DEF Moved
    <3>3. QED
      BY <2>1, <3>1, <3>2 DEF Asks
  <2>4. \A m \in 0 .. Len(queue) : Asks(m, owed[i + 1]) <=> m = at[i + 1]
    BY <1>1, <2>1 DEF InTurn
  <2>5. n + s = at[i + 1] <=> n = at[i + 1] - s
    BY <1>2, <1>3, <2>1
  <2>6. QED
    BY <1>3, <2>1, <2>3, <2>4, <2>5
<1> HIDE DEF to
<1>12. OwedInHand'
  BY <1>9, <1>10, <1>11 DEF OwedInHand
<1>13. owed' \in Seq(Xids)
  BY <1>2, <1>6, <1>7, HeadTailProperties
<1>14. Range(owed)' = Range(owed) \ {x}
  <2>1. ASSUME NEW i \in DOMAIN owed' PROVE owed'[i] \in Range(owed) /\ owed'[i] # x
    BY <1>2, <1>4, <1>8 DEF Range
  <2>2. ASSUME NEW i \in DOMAIN owed, owed[i] # x
        PROVE  i - 1 \in DOMAIN owed' /\ owed'[i - 1] = owed[i]
    BY <1>2, <1>5, <1>8, <2>2
  <2>3. QED
    BY <2>1, <2>2 DEF Range
<1>15. \A n \in 0 .. Len(queue) : Asks(n, x) => n = s
  BY <1>1, <1>2, <1>5 DEF InTurn
<1>16. QED
  BY <1>7, <1>12, <1>13, <1>14, <1>15

\* The places once the receiver has taken the first message.
LEMMA QueueTail ==
  ASSUME TurnRanges, queue # <<>>, queue' = Tail(queue)
  PROVE  /\ Len(queue)' = Len(queue) - 1 /\ Len(queue) \in Nat \ {0}
         /\ queue' \in Seq(Messages) /\ Head(queue) = queue[1] /\ queue[1] \in Messages
         /\ \A n \in 1 .. Len(queue) - 1 : queue'[n] = queue[n + 1]
<1>1. queue \in Seq(Messages)
  BY DEF TurnRanges
<1>2. /\ Tail(queue) \in Seq(Messages) /\ Len(Tail(queue)) = Len(queue) - 1
      /\ Head(queue) \in Messages
      /\ \A i \in 1 .. Len(Tail(queue)) : Tail(queue)[i] = queue[i + 1]
  BY <1>1, HeadTailProperties
<1>3. Len(queue) \in Nat \ {0} /\ Head(queue) = queue[1]
  BY <1>1
<1>4. QED
  BY <1>2, <1>3

LEMMA TailMoves ==
  ASSUME TurnRanges, recv = Reading, queue # <<>>, queue' = Tail(queue),
         NEW y \in Xids, recv' = y <=> Asks(1, y)
  PROVE  Moved(1, y)
<1>1. /\ Len(queue)' = Len(queue) - 1 /\ Len(queue) \in Nat \ {0}
      /\ \A n \in 1 .. Len(queue) - 1 : queue'[n] = queue[n + 1]
  BY QueueTail
<1>2. ASSUME NEW n \in 0 .. Len(queue)'
      PROVE  Asks(n, y)' <=> (n + 1) \in 0 .. Len(queue) /\ Asks(n + 1, y)
  <2>1. n + 1 \in 0 .. Len(queue) /\ n + 1 # 0
    BY <1>1
  <2>2. CASE n = 0
    BY <2>1, <2>2 DEF Asks
  <2>3. CASE n # 0
    <3>1. queue'[n] = queue[n + 1]
      BY <1>1, <2>3
    <3>2. QED
      BY <2>1, <2>3, <3>1 DEF Asks
  <2>4. QED
    BY <2>2, <2>3
<1>3. QED
  BY <1>2 DEF Moved

\* While the receiver reads nothing is at place 0.
LEMMA ReadingRoom == ASSUME TurnRanges, recv = Reading PROVE Room(1)
<1>1. ASSUME NEW i \in DOMAIN owed, NEW n \in 0 .. Len(queue), Asks(n, owed[i])
      PROVE  1 <= n
  <2>1. owed[i] \in Xids /\ Len(queue) \in Nat
    BY DEF TurnRanges
  <2>2. n # 0
    BY <1>1, <2>1, NoState DEF Asks
  <2>3. QED
    BY <2>1, <2>2
<1>2. QED
  BY <1>1 DEF Room

LEMMA RangeOwed ==
  ASSUME TurnRanges
  PROVE  Range(owed) \subseteq Xids /\ \A i \in DOMAIN owed : owed[i] \in Range(owed)
  BY DEF TurnRanges, Range

\* The receiver takes a message: the session is open where it was, or by it.
LEMMA TailOpens ==
  ASSUME TurnRanges, queue # <<>>, queue' = Tail(queue),
         fl_connect' = 1 <=> OpenAt(1)
  PROVE  \A n \in 0 .. Len(queue)' : OpenAt(n)' <=> OpenAt(n + 1)
<1>1. /\ Len(queue)' = Len(queue) - 1 /\ Len(queue) \in Nat \ {0}
      /\ \A n \in 1 .. Len(queue) - 1 : queue'[n] = queue[n + 1]
  BY QueueTail
<1> TAKE n \in 0 .. Len(queue)'
<1>2. ASSUME NEW k \in 1 .. n PROVE k + 1 \in 1 .. n + 1 /\ queue'[k] = queue[k + 1]
  BY <1>1
<1>3. ASSUME NEW k \in 1 .. n + 1, k # 1 PROVE k - 1 \in 1 .. n /\ queue'[k - 1] = queue[k]
  BY <1>1, <1>3
<1>4. 1 \in 1 .. n + 1 /\ 1 .. 1 = {1}
  BY <1>1
<1>5. QED
  BY <1>2, <1>3, <1>4 DEF OpenAt

LEMMA OpeningMoves ==
  ASSUME TurnRanges, Opening, NEW s \in {0, 1}, s <= Len(queue),
         Len(queue)' = Len(queue) - s, opened' = opened,
         \A n \in 0 .. Len(queue)' : OpenAt(n)' <=> OpenAt(n + s),
         \A n \in 0 .. Len(queue)', y \in Xids :
           Asks(n, y)' => Asks(n + s, y) /\ (y \in Range(owed)' <=> y \in Range(owed))
  PROVE  Opening'
<1>1. Len(queue) \in Nat /\ Len(queue)' \in 0 .. Len(queue)' /\ Len(queue)' + s = Len(queue)
  BY DEF TurnRanges
<1>2. opened' <=> OpenAt(Len(queue))'
  <2>1. PICK n \in 0 .. Len(queue)' : n = Len(queue)'
    BY <1>1
  <2>2. OpenAt(n)' <=> OpenAt(n + s)
    OBVIOUS
  <2>3. n + s = Len(queue)
    BY <1>1, <2>1
  <2>4. OpenAt(n)' <=> OpenAt(Len(queue))'
    BY <2>1 DEF OpenAt
  <2>5. OpenAt(n + s) <=> OpenAt(Len(queue))
    BY <2>3
  <2>6. QED
    BY <2>2, <2>4, <2>5 DEF Opening
<1>3. ASSUME NEW n \in 0 .. Len(queue)', NEW y \in Xids, Asks(n, y)'
      PROVE  y \in Range(owed)' <=> OpenAt(n)'
  <2>1. n + s \in 0 .. Len(queue)
    BY <1>1
  <2>2. y \in Range(owed) <=> OpenAt(n + s)
    BY <1>3, <2>1 DEF Opening
  <2>3. QED
    BY <1>3, <2>2
<1>4. QED
  BY <1>2, <1>3 DEF Opening

\* A message that is no request is read and gone, and a PORT_DESC request
\* moves from the queue into the receiver.
LEMMA HeadMoves ==
  ASSUME TurnInv, recv = Reading, queue # <<>>, queue' = Tail(queue),
         UNCHANGED <<asked, opened>>, fl_connect' \in {0, 1},
         recv' \in Xids \cup {Starting, Reading},
         \A y \in Xids : recv' = y <=> Asks(1, y),
         fl_connect' = 1 <=> OpenAt(1)
  PROVE  TurnInv'
<1>1. TurnRanges /\ Opening /\ OwedInHand /\ NoneAstray
      /\ owed' = owed /\ astray' = astray
  BY DEF TurnInv, asked
<1>2. /\ Len(queue)' = Len(queue) - 1 /\ Len(queue) \in Nat \ {0}
      /\ queue' \in Seq(Messages)
  BY <1>1, QueueTail
<1>3. \A y \in Xids : Moved(1, y)
  BY <1>1, TailMoves
<1>4. OwedInHand'
  BY <1>1, <1>2, <1>3, ReadingRoom, RangeOwed, MovedUp
<1>5. \A n \in 0 .. Len(queue)' : OpenAt(n)' <=> OpenAt(n + 1)
  BY <1>1, TailOpens
<1>6. Opening'
  <2>1. ASSUME NEW n \in 0 .. Len(queue)', NEW y \in Xids, Asks(n, y)'
        PROVE  Asks(n + 1, y) /\ (y \in Range(owed)' <=> y \in Range(owed))
    BY <1>1, <1>3, <2>1 DEF Moved
  <2>2. 1 <= Len(queue)
    BY <1>2
  <2>3. QED
    BY <1>1, <1>2, <1>5, <2>1, <2>2, OpeningMoves
<1>7. QED
  BY <1>1, <1>2, <1>4, <1>6 DEF TurnInv, TurnRanges, NoneAstray

\* The answer to the request at place s, which is the first in hand, is the
\* one that is due, and is dropped only if none is.
LEMMA AnswerKeeps ==
  ASSUME TurnInv, NEW s \in {0, 1}, s <= Len(queue), Room(s),
         NEW x \in Xids, Asks(s, x), UNCHANGED opened,
         recv' \in Xids \cup {Starting, Reading},
         queue' \in Seq(Messages), Len(queue)' = Len(queue) - s,
         fl_connect' \in {0, 1}, fl_connect' = 1 <=> OpenAt(s),
         Answer(x, fl_connect'),
         \A n \in 0 .. Len(queue)' : OpenAt(n)' <=> OpenAt(n + s),
         \A n \in 0 .. Len(queue)', y \in Xids :
           Asks(n, y)' <=> n # 0 /\ Asks(n + s, y)
  PROVE  TurnInv'
<1>1. TurnRanges /\ Opening /\ OwedInHand /\ NoneAstray
  BY DEF TurnInv
<1>2. Len(queue) \in Nat /\ Len(queue)' \in Nat /\ s \in 0 .. Len(queue)
  BY <1>1 DEF TurnRanges
<1>3. x \in Range(owed) <=> fl_connect' = 1
  BY <1>1, <1>2 DEF Opening
<1>4. \A y \in Xids \ {x} : Moved(s, y)
  <2> SUFFICES ASSUME NEW y \in Xids \ {x}, NEW n \in 0 .. Len(queue)'
               PROVE  Asks(n, y)' <=> (n + s) \in 0 .. Len(queue) /\ Asks(n + s, y)
    BY DEF Moved
  <2>1. n + s \in 0 .. Len(queue) /\ (n = 0 => n + s = s)
    BY <1>2
  <2>2. ~Asks(s, y)
    BY DEF Asks
  <2>3. QED
    BY <2>1, <2>2
<1>5. CASE fl_connect' = 1
  <2>1. x \in Range(owed) /\ Answer(x, 1)
    BY <1>3, <1>5
  <2>2. \A y \in Range(owed) \ {x} : Moved(s, y)
    BY <1>1, <1>4, RangeOwed
  <2>3. /\ owed' \in Seq(Xids) /\ astray' = astray /\ OwedInHand'
        /\ Range(owed)' = Range(owed) \ {x}
        /\ \A n \in 0 .. Len(queue) : Asks(n, x) => n = s
    BY <1>1, <1>2, <2>1, <2>2, AnsweredFirst
  <2>4. ASSUME NEW n \in 0 .. Len(queue)', NEW y \in Xids, Asks(n, y)'
        PROVE  Asks(n + s, y) /\ (y \in Range(owed)' <=> y \in Range(owed))
    <3>1. n # 0 /\ Asks(n + s, y) /\ n + s \in 0 .. Len(queue) /\ n + s # s
      BY <1>2, <2>4
    <3>2. y # x
      BY <2>3, <3>1
    <3>3. QED
      BY <2>3, <3>1, <3>2
  <2>5. Opening'
    BY <1>1, <2>4, OpeningMoves
  <2>6. QED
    BY <1>1, <2>3, <2>5 DEF TurnInv, TurnRanges, NoneAstray
<1>6. CASE fl_connect' # 1
  <2>1. owed' = owed /\ astray' = astray /\ x \notin Range(owed)
    BY <1>3, <1>6 DEF Answer
  <2>2. \A y \in Range(owed) : Moved(s, y)
    BY <1>1, <1>4, <2>1, RangeOwed
  <2>3. OwedInHand'
    BY <1>1, <1>2, <2>1, <2>2, MovedUp
  <2>4. Opening'
    BY <1>1, <2>1, OpeningMoves
  <2>5. QED
    BY <1>1, <2>1, <2>3, <2>4 DEF TurnInv, TurnRanges, NoneAstray
<1>7. QED
  BY <1>5, <1>6

\* The request at the head of the queue is answered.
LEMMA HeadAnswered ==
  ASSUME TurnInv, recv = Reading, recv' = Reading, queue # <<>>,
         Head(queue) \in Requests, queue' = Tail(queue), UNCHANGED opened,
         fl_connect' \in {0, 1}, fl_connect' = 1 <=> OpenAt(1),
         Answer(Head(queue).xid, fl_connect')
  PROVE  TurnInv'
<1> DEFINE x == Head(queue).xid
<1>1. TurnRanges
  BY DEF TurnInv
<1>2. /\ Len(queue)' = Len(queue) - 1 /\ Len(queue) \in Nat \ {0}
      /\ queue' \in Seq(Messages) /\ queue[1] \in Requests /\ queue[1].xid = x
      /\ \A n \in 1 .. Len(queue) - 1 : queue'[n] = queue[n + 1]
  BY <1>1, QueueTail
<1>3. x \in Xids
  BY <1>1, KindTells, QueueTail
<1>4. Answer(x, fl_connect')
  OBVIOUS
<1> HIDE DEF x
<1>5. Asks(1, x) /\ Room(1)
  BY <1>1, <1>2, ReadingRoom DEF Asks
<1>6. \A n \in 0 .. Len(queue)' : OpenAt(n)' <=> OpenAt(n + 1)
  BY <1>1, TailOpens
<1>7. ASSUME NEW n \in 0 .. Len(queue)', NEW y \in Xids
      PROVE  Asks(n, y)' <=> n # 0 /\ Asks(n + 1, y)
  <2>1. CASE n = 0
    BY <2>1, NoState DEF Asks
  <2>2. CASE n # 0
    <3>1. queue'[n] = queue[n + 1] /\ n + 1 # 0
      BY <1>2, <2>2
    <3>2. QED
      BY <2>2, <3>1 DEF Asks
  <2>3. QED
    BY <2>1, <2>2
<1>8. recv' \in Xids \cup {Starting, Reading} /\ 1 <= Len(queue) /\ 1 \in {0, 1}
  BY <1>2
<1>9. QED
  BY <1>2, <1>3, <1>4, <1>5, <1>6, <1>7, <1>8, AnswerKeeps

LEMMA InitTurn == Init => TurnInv
<1> SUFFICES ASSUME Init PROVE TurnInv
  OBVIOUS
<1>1. TurnRanges
  <2>1. queue \in Seq(Messages) /\ owed \in Seq(Xids)
    BY DEF Init
  <2>2. QED
    BY <2>1 DEF Init, TurnRanges
<1>2. OwedInHand
  <2>1. <<>> \in [DOMAIN owed -> 0 .. Len(queue)]
    BY DEF Init
  <2>2. DOMAIN owed = {}
    BY DEF Init
  <2>3. QED
    BY <2>1, <2>2 DEF OwedInHand
<1>3. Opening
  <2>1. Len(queue) = 0 /\ ~OpenAt(0)
    BY DEF Init, OpenAt
  <2>2. \A n \in 0 .. Len(queue), y \in Xids : ~Asks(n, y)
    BY <2>1, NoState DEF Init, Asks
  <2>3. QED
    BY <2>1, <2>2 DEF Init, Opening
<1>4. QED
  BY <1>1, <1>2, <1>3 DEF TurnInv, NoneAstray, Init

\* The places once the controller has sent a message.
LEMMA QueueGrows ==
  ASSUME TurnRanges, NEW m \in Messages, Post(m)
  PROVE  /\ UNCHANGED <<fl_connect, recv, astray>>
         /\ Len(queue) \in Nat /\ Len(queue)' = Len(queue) + 1
         /\ queue' \in Seq(Messages) /\ queue'[Len(queue) + 1] = m
         /\ \A n \in 1 .. Len(queue) : queue'[n] = queue[n]
         /\ \A n \in 0 .. Len(queue) : OpenAt(n)' <=> OpenAt(n)
         /\ OpenAt(Len(queue))' <=> OpenAt(Len(queue)) \/ m.kind \in {"hello", "features"}
<1>1. /\ queue' = Append(queue, m) /\ UNCHANGED <<fl_connect, recv, astray>>
      /\ queue \in Seq(Messages)
  BY DEF Post, TurnRanges
<1>2. /\ Len(queue) \in Nat /\ Len(queue)' = Len(queue) + 1
      /\ queue' \in Seq(Messages) /\ queue'[Len(queue) + 1] = m
      /\ \A n \in 1 .. Len(queue) : queue'[n] = queue[n]
  BY <1>1
<1>3. \A n \in 0 .. Len(queue) : OpenAt(n)' <=> OpenAt(n)
  <2> TAKE n \in 0 .. Len(queue)
  <2>1. \A k \in 1 .. n : queue'[k] = queue[k]
    BY <1>2
  <2>2. QED
    BY <1>1, <2>1 DEF OpenAt
<1>4. OpenAt(Len(queue))' <=> OpenAt(Len(queue)) \/ m.kind \in {"hello", "features"}
  <2>1. 1 .. Len(queue)' = 1 .. Len(queue) \cup {Len(queue) + 1}
    BY <1>2
  <2>2. QED
    BY <1>1, <1>2, <2>1 DEF OpenAt
<1>5. QED
  BY <1>1, <1>2, <1>3, <1>4

\* What asks for nothing comes after everything in hand.
LEMMA PostMoves ==
  ASSUME TurnInv, NEW m \in Messages, m \notin Requests, Post(m), owed' = owed,
         opened' = (opened \/ m.kind \in {"hello", "features"})
  PROVE  TurnInv'
<1>1. TurnRanges /\ Opening /\ OwedInHand /\ NoneAstray
  BY DEF TurnInv
<1>2. /\ UNCHANGED <<fl_connect, recv, astray>>
      /\ Len(queue) \in Nat /\ Len(queue)' = Len(queue) + 1
      /\ queue' \in Seq(Messages) /\ queue'[Len(queue) + 1] = m
      /\ \A n \in 1 .. Len(queue) : queue'[n] = queue[n]
      /\ \A n \in 0 .. Len(queue) : OpenAt(n)' <=> OpenAt(n)
      /\ OpenAt(Len(queue))' <=> OpenAt(Len(queue)) \/ m.kind \in {"hello", "features"}
  BY <1>1, QueueGrows
<1>3. ASSUME NEW n \in 0 .. Len(queue)', NEW y
      PROVE  Asks(n, y)' <=> n \in 0 .. Len(queue) /\ Asks(n, y)
  <2>1. CASE n = Len(queue) + 1
    BY <1>2, <2>1 DEF Asks
  <2>2. CASE n \in 0 .. Len(queue)
    BY <1>2, <2>2 DEF Asks
  <2>3. QED
    BY <1>2, <2>1, <2>2
<1>4. \A y \in Range(owed) : Moved(0, y)
  <2> SUFFICES ASSUME NEW y \in Range(owed), NEW n \in 0 .. Len(queue)'
               PROVE  Asks(n, y)' <=> (n + 0) \in 0 .. Len(queue) /\ Asks(n + 0, y)
    BY DEF Moved
  <2>1. n + 0 = n
    BY <1>2
  <2>2. QED
    BY <1>3, <2>1
<1>5. Room(0)
  BY <1>2 DEF Room
<1>6. OwedInHand'
  BY <1>1, <1>2, <1>4, <1>5, MovedUp
<1>7. Opening'
  <2>1. opened' <=> OpenAt(Len(queue))'
    BY <1>1, <1>2 DEF Opening, TurnRanges
  <2>2. ASSUME NEW n \in 0 .. Len(queue)', NEW y \in Xids, Asks(n, y)'
        PROVE  y \in Range(owed)' <=> OpenAt(n)'
    BY <1>1, <1>2, <1>3, <2>2 DEF Opening
  <2>3. QED
    BY <2>1, <2>2 DEF Opening
<1>8. QED
  BY <1>1, <1>2, <1>6, <1>7 DEF TurnInv, TurnRanges, NoneAstray

LEMMA AsksStep == TurnInv /\ ControllerAsks => TurnInv'
<1> SUFFICES ASSUME TurnInv, ControllerAsks PROVE TurnInv'
  OBVIOUS
<1>1. TurnRanges /\ Opening /\ OwedInHand /\ NoneAstray
  BY DEF TurnInv
<1> DEFINE hand == {queue[n].xid : n \in {i \in DOMAIN queue : queue[i] \in Requests}}
           open == Range(owed) \cup {recv} \cup hand
<1>2. PICK kind \in Asking :
        LET x == CHOOSE y \in Xids : y \notin open
        IN /\ ~ Xids \subseteq open
           /\ Post([kind |-> kind, xid |-> x])
           /\ opened' = (opened \/ kind = "features")
           /\ owed' = IF opened' THEN Append(owed, x) ELSE owed
  BY <1>1 DEF ControllerAsks
<1> DEFINE x == CHOOSE y \in Xids : y \notin open
           m == [kind |-> kind, xid |-> x]
<1>3. x \in Xids /\ x \notin open
  BY <1>2
<1>4. /\ Post(m) /\ opened' = (opened \/ kind = "features")
      /\ owed' = IF opened' THEN Append(owed, x) ELSE owed
  BY <1>2
<1> HIDE DEF x, open
<1>5. x \notin Range(owed) /\ recv # x /\ x \notin hand
  BY <1>3 DEF open
<1>6. m \in Messages /\ m \in Requests /\ m.kind = kind /\ m.xid = x
  BY <1>3 DEF Messages, Requests
<1> HIDE DEF m, hand
<1>7. opened' \in BOOLEAN /\ opened \in BOOLEAN
  BY <1>1, <1>4 DEF TurnRanges
<1>8. /\ UNCHANGED <<fl_connect, recv, astray>>
      /\ Len(queue) \in Nat /\ Len(queue)' = Len(queue) + 1
      /\ queue' \in Seq(Messages) /\ queue'[Len(queue) + 1] = m
      /\ \A n \in 1 .. Len(queue) : queue'[n] = queue[n]
      /\ \A n \in 0 .. Len(queue) : OpenAt(n)' <=> OpenAt(n)
      /\ OpenAt(Len(queue))' <=> OpenAt(Len(queue)) \/ m.kind \in {"hello", "features"}
  BY <1>1, <1>4, <1>6, QueueGrows
<1>9. opened' <=> OpenAt(Len(queue))'
  <2>1. kind = "features" <=> m.kind \in {"hello", "features"}
    BY <1>6 DEF Asking
  <2>2. opened <=> OpenAt(Len(queue))
    BY <1>1 DEF Opening
  <2>3. opened' <=> opened \/ kind = "features"
    BY <1>4
  <2> HIDE DEF OpenAt
  <2>4. QED
    BY <1>8, <2>1, <2>2, <2>3
<1>10. \A y : \A n \in 0 .. Len(queue) : Asks(n, y)' <=> Asks(n, y)
  BY <1>8 DEF Asks
<1>11. \A n \in 0 .. Len(queue) : ~Asks(n, x)
  BY <1>1, <1>5, <1>8 DEF Asks, hand, TurnRanges
<1>12. ASSUME NEW n \in 0 .. Len(queue)', n = Len(queue)'
       PROVE  /\ \A y : Asks(n, y)' <=> y = x
              /\ OpenAt(n)' <=> opened'
  <2>1. n = Len(queue) + 1 /\ n # 0
    BY <1>8, <1>12
  <2>2. \A y : Asks(n, y)' <=> y = x
    BY <1>6, <1>8, <2>1 DEF Asks
  <2>3. OpenAt(n)' <=> OpenAt(Len(queue))'
    BY <1>12 DEF OpenAt
  <2>4. QED
    BY <1>9, <2>2, <2>3
<1>13. \A n \in 0 .. Len(queue)' : n \in 0 .. Len(queue) \/ n = Len(queue)'
  BY <1>8
<1>14. CASE ~opened'
  <2>1. owed' = owed
    BY <1>4, <1>14
  <2>2. ASSUME NEW y \in Range(owed), NEW n \in 0 .. Len(queue)'
        PROVE  Asks(n, y)' <=> (n + 0) \in 0 .. Len(queue) /\ Asks(n + 0, y)
    <3>1. y # x /\ n + 0 = n
      BY <1>5, <1>8
    <3>2. Len(queue)' \notin 0 .. Len(queue)
      BY <1>8
    <3>3. QED
      BY <1>10, <1>12, <1>13, <3>1, <3>2
  <2>3. Room(0)
    BY <1>8 DEF Room
  <2>4. OwedInHand'
    BY <1>1, <1>8, <2>1, <2>2, <2>3, MovedUp DEF Moved
  <2>5. ASSUME NEW n \in 0 .. Len(queue)', NEW y \in Xids, Asks(n, y)'
        PROVE  y \in Range(owed)' <=> OpenAt(n)'
    <3>1. CASE n = Len(queue)'
      BY <1>5, <1>12, <1>14, <2>1, <2>5, <3>1
    <3>2. CASE n \in 0 .. Len(queue)
      BY <1>1, <1>8, <1>10, <2>1, <2>5, <3>2 DEF Opening
    <3>3. QED
      BY <1>13, <3>1, <3>2
  <2>6. Opening'
    BY <1>9, <2>5 DEF Opening
  <2>7. QED
    BY <1>1, <1>7, <1>8, <2>1, <2>4, <2>6 DEF TurnInv, TurnRanges, NoneAstray
<1>15. CASE opened'
  <2>1. UNCHANGED <<fl_connect, recv>> /\ owed \in Seq(Xids)
    BY <1>1, <1>8 DEF TurnRanges
  <2>2. /\ Len(queue) \in Nat /\ Len(queue)' = Len(queue) + 1
        /\ queue' \in Seq(Messages) /\ queue'[Len(queue) + 1] = m
        /\ \A n \in 1 .. Len(queue) : queue'[n] = queue[n]
    BY <1>8
  <2>3. owed' = Append(owed, x)
    BY <1>4, <1>15
  <2>4. /\ Len(owed) \in Nat /\ DOMAIN owed = 1 .. Len(owed)
        /\ DOMAIN owed' = 1 .. Len(owed) + 1 /\ owed' \in Seq(Xids)
        /\ owed'[Len(owed) + 1] = x
        /\ \A i \in 1 .. Len(owed) : owed'[i] = owed[i] /\ owed[i] # x
    BY <1>3, <1>5, <2>1, <2>3 DEF Range
  <2>5. ASSUME NEW y, NEW n \in 0 .. Len(queue)
        PROVE  Asks(n, y)' <=> Asks(n, y)
    BY <2>1, <2>2 DEF Asks
  <2>6. ASSUME NEW n \in 0 .. Len(queue) PROVE ~Asks(n, x)
    BY <1>5, <2>1, <2>2 DEF Asks, hand
  <2>7. ASSUME NEW i \in DOMAIN owed', NEW n \in 0 .. Len(queue)'
        PROVE  /\ i \in DOMAIN owed =>
                    (Asks(n, owed[i])' <=> n # Len(queue)' /\ Asks(n, owed[i]))
               /\ i \notin DOMAIN owed => (Asks(n, owed[i])' <=> n = Len(queue)')
    <3>1. PICK y \in Xids : y = owed'[i]
      BY <2>4
    <3>2. Asks(n, owed[i])' <=> Asks(n, y)'
      BY <3>1 DEF Asks
    <3>3. n \in 0 .. Len(queue) => (Asks(n, y)' <=> Asks(n, y))
      BY <2>5
    <3>4. n \notin 0 .. Len(queue) => n = Len(queue)'
      BY <2>2
    <3>5. n = Len(queue)' => (Asks(n, y)' <=> y = x)
      BY <1>6, <2>2 DEF Asks
    <3>6. CASE i \in DOMAIN owed
      <4>1. y = owed[i] /\ y # x
        BY <2>4, <3>1, <3>6
      <4>2. QED
        BY <2>2, <3>2, <3>3, <3>4, <3>5, <3>6, <4>1
    <3>7. CASE i \notin DOMAIN owed
      <4>1. y = x
        BY <2>4, <3>1, <3>7
      <4>2. n \in 0 .. Len(queue) => ~Asks(n, y)
        BY <2>6, <4>1
      <4>3. QED
        BY <2>2, <3>2, <3>3, <3>4, <3>5, <3>7, <4>1, <4>2
    <3>8. QED
      BY <3>6, <3>7
  <2>8. OwedInHand'
    <3>1. PICK at : InTurn(at)
      BY <1>1 DEF OwedInHand, InTurn
    <3> DEFINE to == [i \in DOMAIN owed' |-> IF i \in DOMAIN owed THEN at[i] ELSE Len(queue)']
    <3>2. \A i \in DOMAIN owed : at[i] \in 0 .. Len(queue)
      BY <3>1 DEF InTurn
    <3>3. to \in [DOMAIN owed' -> 0 .. Len(queue)']
      BY <2>2, <3>2
    <3>4. \A i, j \in DOMAIN owed' : i < j => to[i] < to[j]
      BY <2>2, <2>4, <3>1, <3>2 DEF InTurn
    <3>5. \A i \in DOMAIN owed', n \in 0 .. Len(queue)' : Asks(n, owed[i])' <=> n = to[i]
      <4> SUFFICES ASSUME NEW i \in DOMAIN owed', NEW n \in 0 .. Len(queue)'
                   PROVE  Asks(n, owed[i])' <=> n = to[i]
        OBVIOUS
      <4>1. i \in DOMAIN owed /\ n # Len(queue)' => (Asks(n, owed[i]) <=> n = at[i])
        BY <2>2, <3>1 DEF InTurn
      <4>2. QED
        BY <2>2, <2>7, <3>2, <4>1
    <3> HIDE DEF to
    <3>6. QED
      BY <3>3, <3>4, <3>5 DEF OwedInHand
  <2>9. Range(owed)' = Range(owed) \cup {x}
    <3>1. DOMAIN owed' = DOMAIN owed \cup {Len(owed) + 1}
      BY <2>4
    <3>2. QED
      BY <2>4, <3>1 DEF Range
  <2>10. ASSUME NEW n \in 0 .. Len(queue)', NEW y \in Xids, Asks(n, y)'
         PROVE  y \in Range(owed)' <=> OpenAt(n)'
    <3>1. CASE n = Len(queue)'
      BY <1>12, <1>15, <2>9, <2>10, <3>1
    <3>2. CASE n \in 0 .. Len(queue)
      <4>1. Asks(n, y) /\ y # x
        BY <1>10, <1>11, <2>10, <3>2
      <4>2. QED
        BY <1>1, <1>8, <2>9, <3>2, <4>1 DEF Opening
    <3>3. QED
      BY <1>13, <3>1, <3>2
  <2>11. Opening'
    BY <1>9, <2>10 DEF Opening
  <2>12. QED
    BY <1>1, <1>7, <1>8, <2>4, <2>8, <2>11 DEF TurnInv, TurnRanges, NoneAstray
<1>16. QED
  BY <1>14, <1>15

LEMMA TurnStep == TurnInv /\ [Next]_vars => TurnInv'
<1> SUFFICES ASSUME TurnInv, [Next]_vars PROVE TurnInv'
  OBVIOUS
<1>0. TurnRanges /\ Opening /\ OwedInHand /\ NoneAstray
  BY DEF TurnInv
<1> DEFINE hands == <<fl_connect, queue, opened, asked, recv>>
<1>1. CASE UNCHANGED hands
  <2>1. UNCHANGED <<fl_connect, queue, opened, owed, astray, recv>>
    BY <1>1 DEF asked
  <2>2. OwedInHand'
    BY <1>0, <2>1 DEF OwedInHand, Asks
  <2>3. Opening'
    BY <1>0, <2>1 DEF Opening, OpenAt, Asks
  <2>4. QED
    BY <1>0, <2>1, <2>2, <2>3 DEF TurnInv, TurnRanges, NoneAstray
<1>2. CASE ControllerAsks
  BY <1>2, AsksStep
<1>3. CASE ControllerSays
  <2>1. PICK m \in [kind : {"hello", "quiet"}] :
          Post(m) /\ opened' = (opened \/ m.kind = "hello") /\ owed' = owed
    BY <1>3 DEF ControllerSays
  <2>2. m \in Messages /\ m \notin Requests
    BY DEF Messages, Requests, Asking
  <2>3. m.kind = "hello" <=> m.kind \in {"hello", "features"}
    OBVIOUS
  <2>4. QED
    BY <2>1, <2>2, <2>3, PostMoves
<1>4. CASE ControllerSendsPacket
  <2>1. PICK m \in PacketOuts : Post(m) /\ UNCHANGED <<opened, owed>>
    BY <1>4 DEF ControllerSendsPacket
  <2>2. m \in Messages /\ m \notin Requests /\ m.kind = "packet_out"
    BY DEF Messages, Requests, Asking, PacketOuts
  <2>3. opened' = (opened \/ m.kind \in {"hello", "features"})
    BY <1>0, <2>1, <2>2 DEF TurnRanges
  <2>4. QED
    BY <2>1, <2>2, <2>3, PostMoves
<1>5. CASE send_hello_message
  <2>1. recv = Starting /\ recv' = Reading /\ UNCHANGED <<fl_connect, queue, opened, owed, astray>>
    BY <1>5 DEF send_hello_message, asked
  <2>2. ASSUME NEW y \in Xids, NEW n PROVE Asks(n, y)' <=> Asks(n, y)
    BY <2>1, NoState DEF Asks
  <2>3. ASSUME NEW i \in DOMAIN owed, NEW n PROVE Asks(n, owed[i])' <=> Asks(n, owed[i])
    <3>1. PICK y \in Xids : y = owed[i]
      BY <1>0 DEF TurnRanges
    <3>2. QED
      BY <2>1, <2>2, <3>1 DEF Asks
  <2>4. OwedInHand'
    BY <1>0, <2>1, <2>3 DEF OwedInHand
  <2>5. Opening'
    BY <1>0, <2>1, <2>2 DEF Opening, OpenAt
  <2>6. QED
    BY <1>0, <2>1, <2>4, <2>5 DEF TurnInv, TurnRanges, NoneAstray
<1>o. ASSUME queue # <<>>
      PROVE  /\ OpenAt(1) <=> fl_connect = 1 \/ Head(queue).kind \in {"hello", "features"}
             /\ queue[1] = Head(queue) /\ queue[1] \in Messages /\ fl_connect \in {0, 1}
  <2>1. Head(queue) = queue[1] /\ queue[1] \in Messages
    BY <1>0, <1>o DEF TurnRanges
  <2>2. 1 .. 1 = {1}
    OBVIOUS
  <2>3. QED
    BY <1>0, <2>1, <2>2 DEF OpenAt, TurnRanges
<1>6. CASE handle_hello \/ handle_quiet \/ handle_packet_out
  <2>1. /\ recv = Reading /\ queue # <<>> /\ queue' = Tail(queue)
        /\ UNCHANGED <<opened, asked, recv>>
        /\ \/ fl_connect' = 1 /\ Head(queue).kind = "hello"
           \/ fl_connect' = fl_connect /\ Head(queue).kind \in {"quiet", "packet_out"}
    BY <1>6 DEF handle_hello, handle_quiet, handle_packet_out, Reads, Next_message
  <2>2. queue[1] \notin Requests
    BY <1>o, <2>1, KindTells DEF Asking
  <2>3. \A y \in Xids : recv' = y <=> Asks(1, y)
    BY <2>1, <2>2, NoState DEF Asks
  <2>4. fl_connect' = 1 <=> OpenAt(1)
    BY <1>o, <2>1
  <2>5. QED
    BY <1>0, <1>o, <2>1, <2>3, <2>4, HeadMoves DEF TurnRanges
<1>7. CASE handle_features_request \/ Answered
  <2>1. /\ recv = Reading /\ queue # <<>> /\ queue' = Tail(queue)
        /\ UNCHANGED <<opened, recv>>
        /\ Head(queue).kind \in {"features", "ask"}
        /\ fl_connect' = IF Head(queue).kind = "features" THEN 1 ELSE fl_connect
        /\ Answer(Head(queue).xid, fl_connect')
    BY <1>7 DEF handle_features_request, Answered, Reads, Next_message
  <2>2. Head(queue) \in Requests
    BY <1>o, <2>1, KindTells DEF Asking
  <2>3. fl_connect' = 1 <=> OpenAt(1)
    BY <1>o, <2>1
  <2>4. QED
    BY <1>o, <2>1, <2>2, <2>3, HeadAnswered
<1>8. CASE handle_ofpmp_port_desc
  <2>1. /\ recv = Reading /\ queue # <<>> /\ queue' = Tail(queue)
        /\ UNCHANGED <<opened, asked, fl_connect>> /\ recv' = Head(queue).xid
        /\ Head(queue).kind = "port_desc"
    BY <1>8 DEF handle_ofpmp_port_desc, Reads, Next_message
  <2>2. /\ Head(queue) \in Requests /\ Head(queue).xid \in Xids
        /\ queue[1] = Head(queue)
    BY <1>o, <2>1, KindTells DEF Asking
  <2>3. \A y \in Xids : recv' = y <=> Asks(1, y)
    BY <2>1, <2>2 DEF Asks
  <2>4. fl_connect' = 1 <=> OpenAt(1)
    BY <1>o, <2>1
  <2>5. QED
    BY <1>o, <2>1, <2>2, <2>3, <2>4, HeadMoves
<1>9. CASE SendPortDesc
  <2> DEFINE x == recv
  <2>1. /\ x \in Xids /\ recv' = Reading /\ Answer(x, fl_connect)
        /\ UNCHANGED <<fl_connect, queue, opened>>
    BY <1>9 DEF SendPortDesc
  <2>2. /\ Asks(0, x) /\ Len(queue) \in Nat /\ Room(0)
        /\ queue \in Seq(Messages) /\ fl_connect \in {0, 1}
    BY <1>0 DEF TurnRanges, Asks, Room
  <2>3. fl_connect' = 1 <=> OpenAt(0)
    BY <2>1 DEF OpenAt
  <2>4. \A n \in 0 .. Len(queue)' : OpenAt(n)' <=> OpenAt(n + 0)
    BY <2>1, <2>2 DEF OpenAt
  <2>5. ASSUME NEW n \in 0 .. Len(queue)', NEW y \in Xids
        PROVE  Asks(n, y)' <=> n # 0 /\ Asks(n + 0, y)
    <3>1. n + 0 = n
      BY <2>1, <2>2
    <3>2. QED
      BY <2>1, <3>1, NoState DEF Asks
  <2>6. Len(queue)' = Len(queue) - 0 /\ 0 <= Len(queue)
    BY <2>1, <2>2
  <2> HIDE DEF x
  <2>7. QED
    BY <2>1, <2>2, <2>3, <2>4, <2>5, <2>6, AnswerKeeps
<1>10. CASE CopyState
  BY <1>1, <1>10 DEF CopyState
<1>11. CASE LinkChanges \/ Update \/ \E p \in Wired : pcap_packet(p)
  BY <1>1, <1>11 DEF LinkChanges, Update, read_port_status, update_port_info, pcap_packet,
                     session
<1>12. CASE UNCHANGED vars
  BY <1>1, <1>12 DEF vars, session
<1>13. QED
  BY <1>2, <1>3, <1>4, <1>5, <1>6, <1>7, <1>8, <1>9, <1>10, <1>11, <1>12
     DEF Next, Environment, Receive, handle_echo_request,
         handle_get_config_request, handle_barrier_request, handle_role_request,
         handle_multipart_request, handle_ofpmp_desc, handle_ofpmp_stats,
         handle_ofpmp_table, handle_ofpmp_group_features, handle_ofpmp_unsupported

\* What the receiver has in hand is, at every step, what the controller waits
\* for (recv_openflow_message and the handlers).
THEOREM Turns == Spec => []TurnInv
  BY InitTurn, TurnStep, PTL DEF Spec

(***************************************************************************)
(* Every answer is to the request that has waited longest: none is given   *)
(* again, out of turn, or to what came before the session was open; and    *)
(* what is not yet answered is still in hand, in its order: none is        *)
(* dropped because the session is thought closed (handle_openflow,         *)
(* handle_features_request, send_openflow_message).                        *)
(***************************************************************************)
THEOREM TurnIsKept == Spec => []AnsweredInTurn
<1>1. TurnInv => AnsweredInTurn
  BY DEF TurnInv, AnsweredInTurn
<1>2. QED
  BY Turns, <1>1, PTL
=============================================================================
