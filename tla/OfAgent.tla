------------------------------ MODULE OfAgent ------------------------------
(***************************************************************************)
(* libofp: the session with the controller, the ports and the packets that *)
(* go through it.  Threads of the program: the receiver of the controller's *)
(* messages, the update of the ports, and a capture per port.  All of them *)
(* write to the one socket; nothing is locked.  The flow table messages    *)
(* are in OfRules.                                                         *)
(*                                                                         *)
(* The controller, the links and the cable between ports 1 and 2 are the   *)
(* environment.  A message is read whole; the connection, once made, stays *)
(* up.                                                                     *)
(***************************************************************************)
EXTENDS Integers, Sequences, SequencesExt, FiniteSets

CONSTANTS cnt,       \* nmps.cnt: ports 0 (br0) .. cnt - 1
          Changing,  \* the ports whose link goes up and down
          Xids,      \* requests the controller may wait for at once
          MaxQueue,  \* unread messages in the socket
          Meanwhile, \* the controller writes while a frame waits at a port
          UpAtOnce   \* a port found down at first may be up at the second look

ASSUME AgentAssumption == /\ cnt \in Nat /\ cnt >= 3
                          /\ Changing \subseteq 0 .. cnt - 1
                          /\ Xids \subseteq Nat \ {0}
                          /\ MaxQueue \in Nat \ {0}
                          /\ {Meanwhile, UpAtOnce} \subseteq BOOLEAN

VARIABLES fl_connect,
          queue,      \* the controller's messages, as the receiver reads them
          opened,     \* history: the controller has sent what opens the session
          owed,       \* history: requests sent and not answered, oldest first
          astray,     \* history: requests answered when they were not the
                      \* oldest of these: again, or out of turn
          recv,       \* the receiver: starting, reading, or composing a
                      \* PORT_DESC in answer to the request of this number
          held,       \* the port states copied into that PORT_DESC
          link, state, old_state,
          upd,        \* the update thread: the port it is at, read or not
          knows,      \* what the controller was last told of each port
          overtaken,  \* history: told by a PORT_DESC older than a PORT_STATUS
          air,        \* the frame waiting at each port's capture
          probe       \* history: port whose LLDP probe is out

asked == <<owed, astray>>
session == <<fl_connect, queue, opened, asked, recv, held>>
update == <<state, old_state, upd>>
packets == <<air, probe>>
vars == <<session, link, update, knows, overtaken, packets>>

Ports == 0 .. cnt - 1
Wired == 1 .. cnt - 1     \* capture and libnet: not br0
Status == {"up", "down"}
NoPort == -1
Controller == cnt         \* OFPP_CONTROLLER as port of arrival: no real port
FLOOD == cnt + 1          \* OFPP_FLOOD, ALL, ANY, MAX; an empty list of actions
IN_PORT == cnt + 2        \* OFPP_IN_PORT
Nowhere == cnt + 3        \* OFPP_CONTROLLER, LOCAL, TABLE, NORMAL, no such port

Starting == -1
Reading == 0

\* Requests with an answer.  "ask" is every one that is answered from
\* constants or from counters, multipart or not: which it is shows when it is
\* handled.  Of the multipart types only PORT_DESC tells of what changes here.
\* "quiet" messages change nothing and get no answer: a HELLO of another
\* version, ERROR, EXPERIMENTER, SET_CONFIG, GROUP_MOD, PORT_MOD, TABLE_MOD,
\* QUEUE_GET_CONFIG, GET_ASYNC, SET_ASYNC, METER_MOD, and whatever is longer
\* than 1600 bytes.
Asking == {"features", "ask", "port_desc"}
Requests == [kind : Asking, xid : Xids]
PacketOuts == [kind : {"packet_out"}, frame : {"lldp"},
               inport : {Controller}, outport : Wired]
              \cup [kind : {"packet_out"}, frame : {"data"}, inport : {1},
                    outport : Wired \cup {FLOOD, IN_PORT, Nowhere}]
              \cup [kind : {"packet_out"}, frame : {"data"}, inport : {0},
                    outport : {FLOOD}]
Messages == Requests \cup PacketOuts \cup [kind : {"hello", "quiet"}]
-----------------------------------------------------------------------------
(* Environment *)

Peer(p) == CASE p = 1 -> 2 [] p = 2 -> 1 [] OTHER -> p
Connected(p) == link[p] = "up" /\ link[Peer(p)] = "up"

Post(m) == /\ Len(queue) < MaxQueue
           /\ queue' = Append(queue, m)
           /\ UNCHANGED <<fl_connect, astray, recv, held, link, update, knows,
                          overtaken, air>>

\* A controller waits for answers once it has opened the session.
ControllerAsks ==
  \E kind \in Asking :
    LET open == Range(owed) \cup {recv}
                \cup {queue[n].xid : n \in {i \in DOMAIN queue : queue[i] \in Requests}}
        xid == CHOOSE x \in Xids : x \notin open
    IN /\ ~ Xids \subseteq open
       /\ Meanwhile \/ \A p \in Wired : air[p] = "none"
       /\ Post([kind |-> kind, xid |-> xid])
       /\ opened' = (opened \/ kind = "features")
       /\ owed' = IF opened' THEN Append(owed, xid) ELSE owed
       /\ UNCHANGED probe

ControllerSays ==
  \E m \in [kind : {"hello", "quiet"}] :
    /\ Meanwhile \/ \A p \in Wired : air[p] = "none"
    /\ Post(m)
    /\ opened' = (opened \/ m.kind = "hello")
    /\ UNCHANGED <<owed, probe>>

\* One packet at a time, while nothing else is asked.  A probe counts once the
\* session is open.
ControllerSendsPacket ==
  \E m \in PacketOuts :
    /\ \A p \in Wired : air[p] = "none"
    /\ queue = <<>> /\ recv = Reading
    /\ Post(m)
    /\ probe' = IF m.frame = "lldp" /\ opened THEN m.outport ELSE probe
    /\ UNCHANGED <<opened, owed>>

LinkChanges ==
  \E p \in Changing :
    /\ UpAtOnce \/ link[p] = "up" \/ state[p] = "up" \/ old_state[p] = "down"
    /\ link' = [link EXCEPT ![p] = CHOOSE s \in Status : s # @]
    /\ UNCHANGED <<session, update, knows, overtaken, packets>>

Environment == ControllerAsks \/ ControllerSays \/ ControllerSendsPacket
               \/ LinkChanges
-----------------------------------------------------------------------------
(* The receiver *)

\* send_openflow_message, for the answer to request x: dropped, like every
\* message but HELLO, until the session is open.
Answer(x, open) ==
  LET due == owed # <<>> /\ Head(owed) = x
  IN /\ owed' = IF open = 1 /\ due THEN Tail(owed) ELSE owed
     /\ astray' = IF open = 1 /\ ~due THEN astray \cup {x} ELSE astray

send_hello_message ==
  /\ recv = Starting
  /\ recv' = Reading
  /\ UNCHANGED <<fl_connect, queue, opened, asked, held, link, update, knows,
                 overtaken, packets>>

\* Mutant: messages are read while a PORT_DESC is being composed.
Reads_meanwhile(kind) ==
  recv # Starting /\ queue # <<>> /\ Head(queue).kind = kind

Reads(kind) == recv = Reading /\ queue # <<>> /\ Head(queue).kind = kind
Next_message == queue' = Tail(queue) /\ UNCHANGED <<opened, link, update>>

handle_hello ==
  /\ Reads("hello") /\ Next_message
  /\ fl_connect' = 1
  /\ UNCHANGED <<asked, recv, held, knows, overtaken, packets>>

handle_quiet ==
  /\ Reads("quiet") /\ Next_message
  /\ UNCHANGED <<fl_connect, asked, recv, held, knows, overtaken, packets>>

handle_features_request ==
  /\ Reads("features") /\ Next_message
  /\ fl_connect' = 1
  /\ Answer(Head(queue).xid, fl_connect')
  /\ UNCHANGED <<recv, held, knows, overtaken, packets>>

\* Each of the handlers of an "ask" builds an answer that depends on nothing
\* here: the model keeps only that it is sent.
Answered ==
  /\ Reads("ask") /\ Next_message
  /\ Answer(Head(queue).xid, fl_connect)
  /\ UNCHANGED <<fl_connect, recv, held, knows, overtaken, packets>>

handle_echo_request == Answered
handle_get_config_request == Answered
handle_barrier_request == Answered
handle_role_request == Answered
handle_ofpmp_desc == Answered
handle_ofpmp_stats == Answered            \* FLOW, AGGREGATE and PORT_STATS
handle_ofpmp_table == Answered
handle_ofpmp_group_features == Answered
handle_ofpmp_unsupported == Answered      \* an ERROR

\* The states are copied port by port while the update thread writes them.
handle_ofpmp_port_desc ==
  /\ Reads("port_desc") /\ Next_message
  /\ recv' = Head(queue).xid /\ held' = <<>>
  /\ UNCHANGED <<fl_connect, asked, knows, overtaken, packets>>

CopyState ==
  /\ recv \in Xids /\ Len(held) < cnt
  /\ held' = Append(held, state[Len(held)])
  /\ UNCHANGED <<fl_connect, queue, opened, asked, recv, link, update, knows,
                 overtaken, packets>>

SendPortDesc ==
  /\ recv \in Xids /\ Len(held) = cnt
  /\ recv' = Reading /\ held' = <<>>
  /\ Answer(recv, fl_connect)
  /\ knows' = IF fl_connect = 1 THEN [p \in Ports |-> held[p + 1]] ELSE knows
  /\ UNCHANGED <<fl_connect, queue, opened, link, update, overtaken, packets>>

\* The ports a packet leaves by; nothing is sent for port of arrival 0.  A
\* flood spares neither ports that are down nor br0's network.  A data packet
\* sent to the controller comes to it as PACKET_IN, which changes nothing here.
nms_exec_action(inport, outport) ==
  IF inport = 0 THEN {}
  ELSE CASE outport = FLOOD   -> Wired \ {inport}
         [] outport = IN_PORT -> {inport}
         [] outport = Nowhere -> {}
         [] OTHER             -> {outport}

\* Mutant: the frame goes out as it is.
send_eth_unmarked(frame) == IF frame = "lldp" THEN "marked" ELSE frame

\* The first byte of an LLDP frame is cleared, for it to arrive.
send_eth_packet_out(frame) == frame

\* "LLDP frames whose first byte is 1 are sometimes not received": what may
\* arrive of a frame sent to these ports.
Arrivals(frame, ports) == IF frame = "marked" THEN SUBSET ports ELSE {ports}

handle_packet_out ==
  /\ Reads("packet_out") /\ Next_message
  /\ LET m == Head(queue)
         sent == {p \in nms_exec_action(m.inport, m.outport) : Connected(p)}
         frame == send_eth_packet_out(m.frame)
     IN /\ \E arrive \in Arrivals(frame, {Peer(p) : p \in sent}) :
             air' = [p \in Wired |-> IF p \in arrive THEN frame ELSE air[p]]
        /\ probe' = IF m.frame = "lldp" /\ probe \notin sent THEN NoPort
                    ELSE probe
  /\ UNCHANGED <<fl_connect, asked, recv, held, knows, overtaken>>

handle_multipart_request ==
  \/ handle_ofpmp_desc \/ handle_ofpmp_stats \/ handle_ofpmp_table
  \/ handle_ofpmp_group_features \/ handle_ofpmp_unsupported
  \/ handle_ofpmp_port_desc \/ CopyState \/ SendPortDesc

Receive == \/ send_hello_message
           \/ handle_hello \/ handle_quiet
           \/ handle_features_request \/ handle_echo_request
           \/ handle_get_config_request \/ handle_barrier_request
           \/ handle_role_request \/ handle_multipart_request
           \/ handle_packet_out
-----------------------------------------------------------------------------
(* The update of the ports *)

\* Mutant: the state is read before the loop and not in it.
read_port_status_once(ok) ==
  /\ upd.pc = "read"
  /\ state' = IF ok /\ old_state[upd.port] = "new"
              THEN [state EXCEPT ![upd.port] = link[upd.port]] ELSE state
  /\ upd' = [upd EXCEPT !.pc = "compare"]
  /\ UNCHANGED <<session, link, old_state, knows, overtaken, packets>>

\* Without a socket, or where the driver does not answer, the state stays.
read_port_status(ok) ==
  /\ upd.pc = "read"
  /\ state' = IF ok THEN [state EXCEPT ![upd.port] = link[upd.port]] ELSE state
  /\ upd' = [upd EXCEPT !.pc = "compare"]
  /\ UNCHANGED <<session, link, old_state, knows, overtaken, packets>>

NextPort == upd' = [port |-> (upd.port + 1) % cnt, pc |-> "read"]

\* A copy already made for a PORT_DESC will follow this message.
Told(p) ==
  /\ knows' = IF fl_connect = 1 THEN [knows EXCEPT ![p] = state[p]] ELSE knows
  /\ overtaken' = IF Len(held) > p THEN overtaken \cup {p}
                  ELSE overtaken \ {p}

\* Mutant: a port that comes up again is not reported.
update_silent_up ==
  /\ upd.pc = "compare"
  /\ NextPort
  /\ LET p == upd.port IN
     IF old_state[p] = state[p] THEN UNCHANGED <<old_state, knows, overtaken>>
     ELSE /\ old_state' = [old_state EXCEPT
               ![p] = IF @ = "new" THEN "up" ELSE state[p]]
          /\ IF old_state[p] = "down" THEN UNCHANGED <<knows, overtaken>>
             ELSE Told(p)
  /\ UNCHANGED <<session, link, state, packets>>

\* PORT_STATUS: ADD the first time (then the port counts as up), MODIFY when
\* it comes up, DELETE when it goes down.
update_port_info ==
  /\ upd.pc = "compare"
  /\ NextPort
  /\ LET p == upd.port IN
     IF old_state[p] = state[p] THEN UNCHANGED <<old_state, knows, overtaken>>
     ELSE /\ old_state' = [old_state EXCEPT
               ![p] = IF @ = "new" THEN "up" ELSE state[p]]
          /\ Told(p)
  /\ UNCHANGED <<session, link, state, packets>>

Update == (\E ok \in BOOLEAN : read_port_status(ok)) \/ update_port_info
-----------------------------------------------------------------------------
(* The captures *)

\* Mutant: the first byte stays as it came.
handle_pcap_packet_raw(p) == [port |-> p, marked |-> FALSE, lldp |-> air[p] = "lldp"]

\* PACKET_IN: an LLDP frame gets its first byte back.
handle_pcap_packet(p) == [port |-> p, marked |-> air[p] # "data", lldp |-> air[p] # "data"]

\* The message has the frame and the port it came in by; send_openflow_message
\* drops it without a session.
send_packet_in_message(in) ==
  probe' = IF fl_connect = 1 /\ in.lldp /\ in.marked /\ in.port = Peer(probe)
           THEN NoPort ELSE probe

pcap_packet(p) ==
  /\ air[p] # "none"
  /\ air' = [air EXCEPT ![p] = "none"]
  /\ send_packet_in_message(handle_pcap_packet(p))
  /\ UNCHANGED <<session, link, update, knows, overtaken>>

-----------------------------------------------------------------------------
Init == /\ fl_connect = 0 /\ queue = <<>> /\ opened = FALSE
        /\ owed = <<>> /\ astray = {}
        /\ recv = Starting /\ held = <<>>
        /\ link \in {f \in [Ports -> Status] :
                       \A p \in Ports \ Changing : f[p] = "up"}
        /\ state = [p \in Ports |-> "up"]
        /\ old_state = [p \in Ports |-> "new"]
        /\ upd = [port |-> 0, pc |-> "read"]
        /\ knows = [p \in Ports |-> "none"] /\ overtaken = {}
        /\ air = [p \in Wired |-> "none"] /\ probe = NoPort

Next == Environment \/ Receive \/ Update \/ \E p \in Wired : pcap_packet(p)

\* The threads run, and a port whose state is asked for again and again is
\* answered for in the end; the environment does as it likes.
Fairness == /\ WF_vars(Receive) /\ WF_vars(Update)
            /\ \A p \in Changing : SF_vars(upd.port = p /\ read_port_status(TRUE))
            /\ \A p \in Wired : WF_vars(pcap_packet(p))

Spec == Init /\ [][Next]_vars /\ Fairness
-----------------------------------------------------------------------------
(* Properties *)

\* A request in hand: at its place in the queue, or at 0 while the receiver
\* composes its answer.
Asks(n, x) == \/ n = 0 /\ recv = x
              \/ n # 0 /\ queue[n] \in Requests /\ queue[n].xid = x

\* No answer has left but to the request the controller had waited for longest.
NoneAstray == astray = {}

\* Every request the controller waits for is one the receiver still has, each
\* at one place and in the order they were sent.
OwedInHand ==
  \E at \in [DOMAIN owed -> 0 .. Len(queue)] :
    /\ \A i, j \in DOMAIN owed : i < j => at[i] < at[j]
    /\ \A i \in DOMAIN owed, n \in 0 .. Len(queue) : Asks(n, owed[i]) <=> n = at[i]

\* Every answer that leaves is to the request the controller has waited for
\* longest: none is answered twice, none while an earlier one is being composed
\* or was dropped, and none that came before the session was open; and every
\* request not yet answered is still in hand: none is dropped because the
\* session is thought closed (handle_openflow, handle_features_request,
\* handle_ofpmp_port_desc, send_openflow_message).
AnsweredInTurn == NoneAstray /\ OwedInHand

\* What the controller was last told of a port is what the program found, as
\* soon as the change has been looked at; a PORT_DESC that was being composed
\* meanwhile is the only way to an older answer (update_port_info,
\* handle_ofpmp_port_desc).
ViewCurrent ==
  \A p \in Ports :
    \/ knows[p] \in {state[p], "none"}
    \/ upd = [port |-> p, pc |-> "compare"]
    \/ p \in overtaken

\* A link that settles is reported to a controller that has been told of the
\* port at all (update_port_info, read_port_status).
LinkReported ==
  \A p \in Changing, s \in Status :
    <>[](link[p] = s) => <>[](knows[p] \in {s, "none"} \/ p \in overtaken)

\* A probe sent out of a port whose link is up reaches the controller again,
\* as it was sent and with the port at the other end of the cable
\* (send_eth_packet_out, handle_pcap_packet).
ProbesReturn == (probe # NoPort) ~> (probe = NoPort)
=============================================================================
