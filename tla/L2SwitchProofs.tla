--------------------------- MODULE L2SwitchProofs ---------------------------
(***************************************************************************)
(* What is proved of the learning switch for every set of addresses and    *)
(* ports, every size of the table, life time, sleep and lag.               *)
(***************************************************************************)
EXTENDS L2Switch, TLAPS

Times == 0 .. (IF AgingSleep > MaxLag THEN AgingSleep ELSE MaxLag)

\* The times of the aging thread.
LEMMA TimesType ==
  /\ Floor \in Int /\ Floor < 0 /\ MAC_LIFE_TIME \in Lives /\ Floor \in Lives
  /\ 0 \in Times /\ AgingSleep \in Times
  BY L2Assumption DEF Floor, Lives, Times

\* An entry renewed from a frame is an entry.
LEMMA TimedType ==
  ASSUME NEW e \in nm08_port_mac, NEW p \in Ports
  PROVE  /\ Timed(e, p) \in nm08_port_mac
         /\ Timed(e, p).valid = e.valid /\ Timed(e, p).addr = e.addr
         /\ Timed(e, p).life = MAC_LIFE_TIME
  BY TimesType DEF Timed, nm08_port_mac

-----------------------------------------------------------------------------
(***************************************************************************)
(* Type correctness, thread by thread.                                     *)
(***************************************************************************)

CbType == [pc : {"recv", "learn", "refresh", "fill", "valid", "find"},
           frame : Frame, i : 0 .. NM08_NEIGH_MAX, j : Entries \cup {-1}]
AgingType == [pc : {"sleep", "check", "clear"}, i : 0 .. NM08_NEIGH_MAX,
              t : Times]

\* TypeOK, and that a thread that writes an entry is at an entry.
TypeInv ==
  /\ mac \in [Entries -> nm08_port_mac]
  /\ cb \in CbType
  /\ cb.pc \in {"fill", "valid"} => cb.j \in Entries
  /\ cb.pc = "refresh" => cb.i \in Entries
  /\ aging \in AgingType
  /\ aging.pc = "clear" => aging.i \in Entries
  /\ out \in SUBSET Ports

LEMMA InitType == Init => TypeInv
<1> SUFFICES ASSUME Init PROVE TypeInv
  OBVIOUS
<1> PICK p \in Ports, m \in Receivers :
      /\ mac = [k \in Entries |->
                [valid |-> FALSE, port |-> p, addr |-> m, life |-> Floor]]
      /\ cb = [pc |-> "recv", i |-> 0, j |-> -1,
               frame |-> [smac |-> m, dmac |-> m, inport |-> p]]
      /\ aging = [pc |-> "sleep", i |-> 0, t |-> 0]
      /\ out = {}
  BY DEF Init
<1>1. 0 \in 0 .. NM08_NEIGH_MAX /\ m \in Macs
  BY L2Assumption
<1>2. QED
  BY <1>1, TimesType DEF TypeInv, nm08_port_mac, Frame, CbType, AgingType

LEMMA RecvType == TypeInv /\ recv_thread => TypeInv'
<1> SUFFICES ASSUME TypeInv, recv_thread PROVE TypeInv'
  OBVIOUS
<1> USE DEF TypeInv, CbType
<1>0. /\ NM08_NEIGH_MAX \in Nat /\ 0 \in 0 .. NM08_NEIGH_MAX
      /\ cb.i \in 0 .. NM08_NEIGH_MAX
      /\ \A i \in 0 .. NM08_NEIGH_MAX : i < NM08_NEIGH_MAX =>
           i \in Entries /\ i + 1 \in 0 .. NM08_NEIGH_MAX
  BY L2Assumption DEF Entries
<1>1. ASSUME NEW f \in Frame, callback(f) PROVE TypeInv'
  BY <1>0, <1>1 DEF callback
<1>2. CASE learn_smac
  BY <1>0, <1>2 DEF learn_smac
<1>3. CASE learn_end
  BY <1>0, <1>3 DEF learn_end
<1>4. CASE update_mac_time
  <2>1. cb.i \in Entries /\ cb.frame.inport \in Ports
    BY <1>4 DEF update_mac_time, Frame
  <2>2. mac' \in [Entries -> nm08_port_mac]
    BY <1>4, <2>1, TimedType DEF update_mac_time
  <2>3. QED
    BY <1>0, <1>4, <2>2 DEF update_mac_time
<1>5. CASE fill_entry
  <2>1. cb.j \in Entries /\ cb.frame.inport \in Ports /\ cb.frame.smac \in Macs
    BY <1>5 DEF fill_entry, Frame
  <2>2. [mac[cb.j] EXCEPT !.addr = cb.frame.smac] \in nm08_port_mac
    BY <2>1 DEF nm08_port_mac
  <2>3. mac' \in [Entries -> nm08_port_mac]
    BY <1>5, <2>1, <2>2, TimedType DEF fill_entry
  <2>4. QED
    BY <1>0, <1>5, <2>3 DEF fill_entry
<1>6. CASE set_valid
  <2>1. mac' \in [Entries -> nm08_port_mac]
    BY <1>6 DEF set_valid, nm08_port_mac
  <2>2. QED
    BY <1>0, <1>6, <2>1 DEF set_valid
<1>7. CASE find_dmac
  <2>1. cb.i \in Entries /\ mac[cb.i].port \in Ports
    BY <1>0, <1>7 DEF find_dmac, nm08_port_mac
  <2>2. out' \in SUBSET Ports
    BY <1>7, <2>1 DEF find_dmac, pkt_send_normal
  <2>3. /\ cb' \in CbType
        /\ cb'.pc \in {"recv", "find"}
    BY <1>0, <1>7 DEF find_dmac
  <2>4. UNCHANGED <<mac, aging>>
    BY <1>7 DEF find_dmac
  <2>5. QED
    BY <2>2, <2>3, <2>4
<1>8. CASE find_none
  BY <1>0, <1>8 DEF find_none, pkt_send_flood
<1>9. QED
  BY <1>1, <1>2, <1>3, <1>4, <1>5, <1>6, <1>7, <1>8 DEF recv_thread

LEMMA AgingTypeStep == TypeInv /\ nm08_mac_aging => TypeInv'
<1> SUFFICES ASSUME TypeInv, nm08_mac_aging PROVE TypeInv'
  OBVIOUS
<1> USE DEF TypeInv, AgingType
<1>0. /\ NM08_NEIGH_MAX \in Nat /\ 0 \in 0 .. NM08_NEIGH_MAX
      /\ \A i \in 0 .. NM08_NEIGH_MAX : i < NM08_NEIGH_MAX =>
           i \in Entries /\ i + 1 \in 0 .. NM08_NEIGH_MAX
      /\ \A i \in Entries : i + 1 \in 0 .. NM08_NEIGH_MAX
  BY L2Assumption DEF Entries
<1>1. CASE aging_wake
  BY <1>0, <1>1, TimesType DEF aging_wake
<1>2. CASE aging_check
  BY <1>0, <1>2 DEF aging_check
<1>3. CASE aging_clear
  <2>1. mac' \in [Entries -> nm08_port_mac]
    BY <1>3 DEF aging_clear, nm08_port_mac
  <2>2. QED
    BY <1>0, <1>3, <2>1 DEF aging_clear
<1>4. CASE aging_sleep
  BY <1>0, <1>4, TimesType DEF aging_sleep
<1>5. QED
  BY <1>1, <1>2, <1>3, <1>4 DEF nm08_mac_aging

LEMMA TickType == TypeInv /\ Tick => TypeInv'
<1> SUFFICES ASSUME TypeInv, Tick PROVE TypeInv'
  OBVIOUS
<1> USE DEF TypeInv, AgingType
<1>1. \A l \in Lives : (IF l > Floor THEN l - 1 ELSE Floor) \in Lives
  BY L2Assumption DEF Lives, Floor
<1>2. \A k \in Entries :
        [mac[k] EXCEPT !.life = IF @ > Floor THEN @ - 1 ELSE Floor]
          \in nm08_port_mac
  BY <1>1 DEF nm08_port_mac
<1>3. mac' \in [Entries -> nm08_port_mac]
  BY <1>2 DEF Tick
<1>4. \A t \in Times : /\ t < MaxLag => t + 1 \in Times
                       /\ t > 0 => t - 1 \in Times
  BY L2Assumption DEF Times
<1>5. aging' \in AgingType /\ aging'.pc = aging.pc /\ aging'.i = aging.i
  BY <1>4, TimesType DEF Tick
<1>6. QED
  BY <1>3, <1>5 DEF Tick

LEMMA TypeStep == TypeInv /\ [Next]_vars => TypeInv'
<1>1. TypeInv /\ UNCHANGED vars => TypeInv'
  BY DEF TypeInv, vars
<1>2. QED
  BY <1>1, RecvType, AgingTypeStep, TickType DEF Next

\* The table, both threads and what they send keep their types.
THEOREM TypeCorrect == Spec => []TypeOK
<1>1. TypeInv => TypeOK
  BY DEF TypeInv, TypeOK, CbType, AgingType, Times
<1>2. QED
  BY <1>1, InitType, TypeStep, PTL DEF Spec
-----------------------------------------------------------------------------
(***************************************************************************)
(* No address twice.  What the receive thread has passed in its walk does  *)
(* not become the sender's entry behind its back, because only it makes    *)
(* entries valid; the entry it fills is the one free entry it noted.       *)
(***************************************************************************)

Passed(k) == cb.pc = "learn" => k < cb.i

\* The entries the walk has passed are not the sender's.
Searched ==
  cb.pc \in {"learn", "fill", "valid"} =>
    \A k \in Entries : Passed(k) => ~Same(k, cb.frame.smac)

\* The free entry noted stays free until it is filled.
NotedIsFree ==
  cb.pc \in {"learn", "fill", "valid"} /\ cb.j \in Entries => ~mac[cb.j].valid

\* An entry that is about to become valid has its address.
Filled == cb.pc = "valid" => mac[cb.j].addr = cb.frame.smac

EntryInv == OneEntryPerAddress /\ Searched /\ NotedIsFree /\ Filled

\* A step that takes entries away, and leaves the receive thread where it is,
\* keeps the invariant.
LEMMA FewerEntries ==
  ASSUME TypeInv, EntryInv, UNCHANGED cb,
         \A k \in Entries : /\ mac'[k].valid => mac[k].valid
                           /\ mac'[k].addr = mac[k].addr
  PROVE  EntryInv'
<1> USE DEF EntryInv
<1>1. OneEntryPerAddress'
  BY DEF OneEntryPerAddress
<1>2. Searched'
  BY DEF Searched, Passed, Same
<1>3. NotedIsFree'
  BY DEF NotedIsFree
<1>4. Filled'
  BY DEF Filled, TypeInv
<1>5. QED
  BY <1>1, <1>2, <1>3, <1>4

\* A step that leaves the entries and ends the walk keeps it.
LEMMA SameEntries ==
  ASSUME EntryInv, cb'.pc \in {"recv", "refresh", "find"},
         \A k \in Entries : /\ mac'[k].valid = mac[k].valid
                           /\ mac'[k].addr = mac[k].addr
  PROVE  EntryInv'
  BY DEF EntryInv, OneEntryPerAddress, Searched, NotedIsFree, Filled

LEMMA EntryInit == Init => EntryInv
  BY DEF Init, EntryInv, OneEntryPerAddress, Searched, NotedIsFree, Filled

LEMMA EntryRecv == TypeInv /\ EntryInv /\ recv_thread => EntryInv'
<1> SUFFICES ASSUME TypeInv, EntryInv, recv_thread PROVE EntryInv'
  OBVIOUS
<1>0. /\ cb \in CbType /\ NM08_NEIGH_MAX \in Nat
      /\ cb.i \in 0 .. NM08_NEIGH_MAX
      /\ cb.i < NM08_NEIGH_MAX => cb.i \in Entries
  BY L2Assumption DEF TypeInv, CbType, Entries
<1>1. ASSUME NEW f \in Frame, callback(f) PROVE EntryInv'
  <2>1. UNCHANGED mac /\ cb' = [pc |-> "learn", frame |-> f, i |-> 0, j |-> -1]
    BY <1>1 DEF callback
  <2>2. -1 \notin Entries /\ \A k \in Entries : ~(k < 0)
    BY L2Assumption DEF Entries
  <2>3. OneEntryPerAddress'
    BY <2>1 DEF EntryInv, OneEntryPerAddress
  <2>4. Searched' /\ NotedIsFree' /\ Filled'
    BY <2>1, <2>2 DEF Searched, Passed, NotedIsFree, Filled
  <2>5. QED
    BY <2>3, <2>4 DEF EntryInv
<1>2. CASE learn_smac
  <2>1. CASE Same(cb.i, cb.frame.smac)
    BY <1>0, <1>2, <2>1, SameEntries DEF learn_smac, CbType
  <2>2. CASE ~Same(cb.i, cb.frame.smac)
    <3>1. /\ UNCHANGED mac /\ cb'.pc = "learn" /\ cb'.frame = cb.frame
          /\ cb'.i = cb.i + 1
          /\ cb'.j = IF ~mac[cb.i].valid /\ cb.j = -1 THEN cb.i ELSE cb.j
      BY <1>0, <1>2, <2>2 DEF learn_smac, CbType
    <3>2. cb.pc = "learn" /\ cb.i \in Entries
      BY <1>0, <1>2 DEF learn_smac
    <3>3. Searched'
      <4>1. \A k \in Entries : k < cb.i + 1 => k < cb.i \/ k = cb.i
        BY <1>0 DEF Entries
      <4>2. QED
        BY <2>2, <3>1, <3>2, <4>1 DEF EntryInv, Searched, Passed, Same
    <3>4. NotedIsFree' /\ Filled' /\ OneEntryPerAddress'
      BY <3>1, <3>2 DEF EntryInv, NotedIsFree, Filled, OneEntryPerAddress
    <3>5. QED
      BY <3>3, <3>4 DEF EntryInv
  <2>3. QED
    BY <2>1, <2>2
<1>3. CASE learn_end
  <2>1. CASE cb.j = -1
    BY <1>0, <1>3, <2>1, SameEntries DEF learn_end, CbType
  <2>2. CASE cb.j # -1
    <3>1. /\ UNCHANGED mac /\ cb'.pc = "fill" /\ cb'.frame = cb.frame
          /\ cb'.j = cb.j /\ cb.pc = "learn" /\ cb.i = NM08_NEIGH_MAX
      BY <1>0, <1>3, <2>2 DEF learn_end, CbType
    <3>2. \A k \in Entries : k < NM08_NEIGH_MAX
      BY <1>0 DEF Entries
    <3>3. Searched'
      BY <3>1, <3>2 DEF EntryInv, Searched, Passed, Same
    <3>4. NotedIsFree' /\ Filled' /\ OneEntryPerAddress'
      BY <3>1 DEF EntryInv, NotedIsFree, Filled, OneEntryPerAddress
    <3>5. QED
      BY <3>3, <3>4 DEF EntryInv
  <2>3. QED
    BY <2>1, <2>2
<1>4. CASE update_mac_time
  <2>1. cb.i \in Entries /\ cb.frame.inport \in Ports /\ cb'.pc = "find"
    BY <1>0, <1>4 DEF update_mac_time, TypeInv, Frame, CbType
  <2>2. \A k \in Entries : /\ mac'[k].valid = mac[k].valid
                          /\ mac'[k].addr = mac[k].addr
    BY <1>4, <2>1, TimedType DEF update_mac_time, TypeInv
  <2>3. QED
    BY <2>1, <2>2, SameEntries
<1>5. CASE fill_entry
  <2>1. /\ cb.j \in Entries /\ cb.frame.inport \in Ports
        /\ cb.frame.smac \in Macs
        /\ cb.pc = "fill" /\ cb'.pc = "valid"
        /\ cb'.j = cb.j /\ cb'.frame = cb.frame
    BY <1>0, <1>5 DEF fill_entry, TypeInv, Frame, CbType
  <2>2. /\ [mac[cb.j] EXCEPT !.addr = cb.frame.smac] \in nm08_port_mac
        /\ [mac[cb.j] EXCEPT !.addr = cb.frame.smac].valid = mac[cb.j].valid
        /\ [mac[cb.j] EXCEPT !.addr = cb.frame.smac].addr = cb.frame.smac
    BY <2>1 DEF nm08_port_mac, TypeInv
  <2>3. /\ mac'[cb.j].addr = cb.frame.smac
        /\ ~mac'[cb.j].valid
        /\ \A k \in Entries : k # cb.j => mac'[k] = mac[k]
    BY <1>5, <2>1, <2>2, TimedType DEF fill_entry, TypeInv, EntryInv, NotedIsFree
  <2>4. OneEntryPerAddress'
    BY <2>1, <2>3 DEF EntryInv, OneEntryPerAddress
  <2>5. Searched'
    BY <2>1, <2>3 DEF EntryInv, Searched, Passed, Same
  <2>6. NotedIsFree' /\ Filled'
    BY <2>1, <2>3 DEF NotedIsFree, Filled
  <2>7. QED
    BY <2>4, <2>5, <2>6 DEF EntryInv
<1>6. CASE set_valid
  <2>1. /\ cb.pc = "valid" /\ cb.j \in Entries /\ cb'.pc = "find"
        /\ mac' = [mac EXCEPT ![cb.j].valid = TRUE]
    BY <1>0, <1>6 DEF set_valid, TypeInv, CbType
  <2>2. /\ \A k \in Entries : mac'[k].addr = mac[k].addr
        /\ \A k \in Entries : k # cb.j => mac'[k].valid = mac[k].valid
    BY <2>1 DEF TypeInv, nm08_port_mac
  <2>3. \A k \in Entries : mac[k].valid => mac[k].addr # mac[cb.j].addr
    BY <2>1 DEF EntryInv, Searched, Passed, Same, Filled
  <2>4. OneEntryPerAddress'
    BY <2>1, <2>2, <2>3 DEF EntryInv, OneEntryPerAddress
  <2>5. QED
    BY <2>1, <2>4 DEF EntryInv, Searched, NotedIsFree, Filled
<1>7. CASE find_dmac
  <2>1. UNCHANGED mac /\ cb'.pc \in {"recv", "find"}
    BY <1>0, <1>7 DEF find_dmac, CbType
  <2>2. QED
    BY <2>1, SameEntries
<1>8. CASE find_none
  BY <1>0, <1>8, SameEntries DEF find_none, CbType
<1>9. QED
  BY <1>1, <1>2, <1>3, <1>4, <1>5, <1>6, <1>7, <1>8 DEF recv_thread

LEMMA EntryStep == TypeInv /\ EntryInv /\ [Next]_vars => EntryInv'
<1> SUFFICES ASSUME TypeInv, EntryInv, [Next]_vars PROVE EntryInv'
  OBVIOUS
<1>1. CASE recv_thread
  BY <1>1, EntryRecv
<1>2. CASE nm08_mac_aging
  <2>1. CASE aging_clear
    <3>1. \A k \in Entries : /\ mac'[k].valid => mac[k].valid
                            /\ mac'[k].addr = mac[k].addr
      BY <2>1 DEF aging_clear, TypeInv, nm08_port_mac
    <3>2. QED
      BY <2>1, <3>1, FewerEntries DEF aging_clear
  <2>2. CASE aging_wake \/ aging_check \/ aging_sleep
    BY <2>2, FewerEntries DEF aging_wake, aging_check, aging_sleep
  <2>3. QED
    BY <1>2, <2>1, <2>2 DEF nm08_mac_aging
<1>3. CASE Tick
  <2>1. \A k \in Entries : /\ mac'[k].valid = mac[k].valid
                          /\ mac'[k].addr = mac[k].addr
    BY <1>3 DEF Tick, TypeInv, nm08_port_mac
  <2>2. QED
    BY <1>3, <2>1, FewerEntries DEF Tick
<1>4. CASE UNCHANGED vars
  BY <1>4, FewerEntries DEF vars
<1>5. QED
  BY <1>1, <1>2, <1>3, <1>4 DEF Next

\* An address never has two valid entries.
THEOREM NoAddressTwice == Spec => []OneEntryPerAddress
<1>1. EntryInv => OneEntryPerAddress
  BY DEF EntryInv
<1>2. QED
  BY <1>1, InitType, TypeStep, EntryInit, EntryStep, PTL DEF Spec

-----------------------------------------------------------------------------
(***************************************************************************)
(* What aging takes.  Between the decision and the invalidation the entry  *)
(* may only be renewed or grow older.                                      *)
(***************************************************************************)

\* Since the decision: expired, or renewed during this walk.
Fair(k) == mac[k].life < 0 \/ mac[k].life + aging.t >= MAC_LIFE_TIME

Decided == aging.pc = "clear" => Fair(aging.i)

LEMMA DecidedStep == TypeInv /\ Decided /\ [Next]_vars => Decided'
<1> SUFFICES ASSUME TypeInv, Decided, [Next]_vars PROVE Decided'
  OBVIOUS
<1>0. /\ MAC_LIFE_TIME \in Nat /\ MaxLag \in Nat /\ Times \subseteq Nat
      /\ Lives \subseteq Int /\ Floor < 0 /\ Floor \in Int
  BY L2Assumption DEF Lives, Times, Floor
<1>1. /\ aging \in AgingType /\ aging.t \in Nat
      /\ aging.pc = "clear" => aging.i \in Entries
      /\ \A k \in Entries : mac[k].life \in Int
  BY <1>0 DEF TypeInv, AgingType, nm08_port_mac
<1>2. ASSUME UNCHANGED aging,
             \A k \in Entries : mac'[k].life \in {mac[k].life, MAC_LIFE_TIME}
      PROVE  Decided'
  BY <1>0, <1>1, <1>2 DEF Decided, Fair
<1>3. CASE recv_thread
  <2>1. CASE update_mac_time
    <3>1. cb.i \in Entries /\ cb.frame.inport \in Ports
      BY <2>1 DEF update_mac_time, TypeInv, Frame, CbType
    <3>2. QED
      BY <1>2, <2>1, <3>1, TimedType DEF update_mac_time, TypeInv
  <2>2. CASE fill_entry
    <3>1. cb.j \in Entries /\ cb.frame.inport \in Ports /\ cb.frame.smac \in Macs
      BY <2>2 DEF fill_entry, TypeInv, Frame, CbType
    <3>2. [mac[cb.j] EXCEPT !.addr = cb.frame.smac] \in nm08_port_mac
      BY <3>1 DEF nm08_port_mac, TypeInv
    <3>3. QED
      BY <1>2, <2>2, <3>1, <3>2, TimedType DEF fill_entry, TypeInv
  <2>3. CASE set_valid
    <3>1. \A k \in Entries : mac'[k].life = mac[k].life
      BY <2>3 DEF set_valid, TypeInv, nm08_port_mac
    <3>2. QED
      BY <1>2, <2>3, <3>1 DEF set_valid
  <2>4. CASE UNCHANGED <<mac, aging>>
    BY <1>2, <2>4
  <2>5. QED
    BY <1>3, <2>1, <2>2, <2>3, <2>4
    DEF recv_thread, callback, learn_smac, learn_end, find_dmac, find_none
<1>4. CASE aging_check
  <2>1. CASE mac[aging.i].valid /\ Expired(aging.i)
    <3>1. /\ aging.i \in Entries /\ UNCHANGED mac
          /\ aging'.i = aging.i /\ aging'.t = aging.t
      BY <1>1, <1>4, <2>1, L2Assumption DEF aging_check, AgingType, Entries
    <3>2. mac[aging.i].life < 0
      BY <1>1, <2>1, <3>1 DEF Expired
    <3>3. QED
      BY <3>1, <3>2 DEF Decided, Fair
  <2>2. CASE ~(mac[aging.i].valid /\ Expired(aging.i))
    BY <1>1, <1>4, <2>2 DEF aging_check, Decided, AgingType
  <2>3. QED
    BY <2>1, <2>2
<1>5. CASE aging_wake \/ aging_clear \/ aging_sleep
  <2>1. CASE aging_wake
    BY <2>1 DEF aging_wake, Decided
  <2>2. CASE aging_clear
    BY <1>1, <2>2 DEF aging_clear, AgingType, Decided
  <2>3. CASE aging_sleep
    BY <2>3 DEF aging_sleep, Decided
  <2>4. QED
    BY <1>5, <2>1, <2>2, <2>3
<1>6. CASE Tick
  <2>1. /\ aging'.pc = aging.pc /\ aging'.i = aging.i
        /\ aging.pc = "clear" => aging'.t = aging.t + 1
    BY <1>1, <1>6 DEF Tick, AgingType
  <2>2. \A k \in Entries :
          mac'[k].life = IF mac[k].life > Floor THEN mac[k].life - 1 ELSE Floor
    BY <1>6 DEF Tick, TypeInv, nm08_port_mac
  <2>3. QED
    BY <1>0, <1>1, <2>1, <2>2 DEF Decided, Fair
<1>7. CASE UNCHANGED vars
  BY <1>2, <1>7 DEF vars
<1>8. QED
  BY <1>3, <1>4, <1>5, <1>6, <1>7 DEF Next, nm08_mac_aging

\* Whatever loses its entry has expired, or was heard after the walk began.
LEMMA OnlyDecidedGo ==
  TypeInv /\ Decided /\ [Next]_vars =>
    \A k \in Entries : mac[k].valid /\ ~mac'[k].valid => Fair(k)
<1> SUFFICES ASSUME TypeInv, Decided, [Next]_vars,
                    NEW k \in Entries, mac[k].valid, ~mac'[k].valid
             PROVE  Fair(k)
  OBVIOUS
<1>1. CASE recv_thread
  <2>1. CASE update_mac_time
    <3>1. cb.i \in Entries /\ cb.frame.inport \in Ports
      BY <2>1 DEF update_mac_time, TypeInv, Frame, CbType
    <3>2. QED
      BY <2>1, <3>1, TimedType DEF update_mac_time, TypeInv
  <2>2. CASE fill_entry
    <3>1. cb.j \in Entries /\ cb.frame.inport \in Ports /\ cb.frame.smac \in Macs
      BY <2>2 DEF fill_entry, TypeInv, Frame, CbType
    <3>2. /\ [mac[cb.j] EXCEPT !.addr = cb.frame.smac] \in nm08_port_mac
          /\ [mac[cb.j] EXCEPT !.addr = cb.frame.smac].valid = mac[cb.j].valid
      BY <3>1 DEF nm08_port_mac, TypeInv
    <3>3. QED
      BY <2>2, <3>1, <3>2, TimedType DEF fill_entry, TypeInv
  <2>3. CASE set_valid
    BY <2>3 DEF set_valid, TypeInv, nm08_port_mac
  <2>4. CASE UNCHANGED mac
    BY <2>4
  <2>5. QED
    BY <1>1, <2>1, <2>2, <2>3, <2>4
    DEF recv_thread, callback, learn_smac, learn_end, find_dmac, find_none
<1>2. CASE aging_clear
  <2>1. k = aging.i /\ aging.pc = "clear"
    BY <1>2 DEF aging_clear, TypeInv, nm08_port_mac
  <2>2. QED
    BY <2>1 DEF Decided
<1>3. CASE Tick
  <2>1. mac'[k] = [mac[k] EXCEPT !.life = IF @ > Floor THEN @ - 1 ELSE Floor]
    BY <1>3 DEF Tick
  <2>2. mac[k] \in nm08_port_mac
    BY DEF TypeInv
  <2>3. mac'[k].valid = mac[k].valid
    BY <2>1, <2>2 DEF nm08_port_mac
  <2>4. QED
    BY <2>3
<1>4. CASE UNCHANGED mac
  BY <1>4
<1>5. QED
  BY <1>1, <1>2, <1>3, <1>4
  DEF Next, nm08_mac_aging, aging_wake, aging_check, aging_sleep, vars

\* Aging takes an address only if it has expired or was renewed while the walk
\* was under way.
THEOREM SettledStay == Spec => AgingSparesSettled
<1>1. Init => Decided
  BY DEF Init, Decided
<1>2. TypeInv /\ Decided /\ [Next]_vars =>
        [\A k \in Entries : mac[k].valid /\ ~mac'[k].valid =>
            mac[k].life < 0 \/ mac[k].life + aging.t >= MAC_LIFE_TIME]_vars
  BY OnlyDecidedGo DEF Fair
<1>3. QED
  BY <1>1, <1>2, InitType, TypeStep, DecidedStep, PTL
  DEF Spec, AgingSparesSettled

-----------------------------------------------------------------------------
(***************************************************************************)
(* The table and its two threads implement LearningSwitch: every step is a *)
(* step of a learning switch or none.  The invariants of L2SwitchProofs    *)
(* say where an address can be; here it is added what each walk has seen.  *)
(***************************************************************************)

\* The entry to renew is the sender's, unless it has been taken since, and no
\* other is.
Renewing ==
  cb.pc = "refresh" =>
    /\ mac[cb.i].addr = cb.frame.smac
    /\ \A k \in Entries : k # cb.i => ~Same(k, cb.frame.smac)

\* The entry filled has the port the frame came from.
FilledPort == cb.pc = "valid" => mac[cb.j].port = cb.frame.inport

\* What find_dmac has passed does not lead to the receiver.
Sought ==
  cb.pc = "find" =>
    \A k \in Entries : k < cb.i =>
      ~(Same(k, cb.frame.dmac) /\ mac[k].port # cb.frame.inport)

WalkInv == Renewing /\ FilledPort /\ Sought

LEMMA WalkInit == Init => WalkInv
  BY DEF Init, WalkInv, Renewing, FilledPort, Sought

\* A step that takes entries away and leaves the receive thread keeps it.
LEMMA FewerWalk ==
  ASSUME TypeInv, WalkInv, UNCHANGED cb,
         \A k \in Entries : /\ mac'[k].valid => mac[k].valid
                            /\ mac'[k].addr = mac[k].addr
                            /\ mac'[k].port = mac[k].port
  PROVE  WalkInv'
<1>1. Renewing'
  BY DEF WalkInv, Renewing, Same, TypeInv
<1>2. FilledPort'
  BY DEF WalkInv, FilledPort, TypeInv
<1>3. Sought'
  BY DEF WalkInv, Sought, Same
<1>4. QED
  BY <1>1, <1>2, <1>3 DEF WalkInv

\* At the start of a walk nothing has been passed.
LEMMA WalkBegins ==
  ASSUME cb'.pc \in {"recv", "learn", "fill"} \/ (cb'.pc = "find" /\ cb'.i = 0)
  PROVE  WalkInv'
<1>1. \A k \in Entries : ~(k < 0)
  BY L2Assumption DEF Entries
<1>2. QED
  BY <1>1 DEF WalkInv, Renewing, FilledPort, Sought

LEMMA WalkRecv == TypeInv /\ EntryInv /\ WalkInv /\ recv_thread => WalkInv'
<1> SUFFICES ASSUME TypeInv, EntryInv, WalkInv, recv_thread PROVE WalkInv'
  OBVIOUS
<1>0. /\ cb \in CbType /\ NM08_NEIGH_MAX \in Nat
      /\ cb.i \in 0 .. NM08_NEIGH_MAX
      /\ cb.i < NM08_NEIGH_MAX => cb.i \in Entries
  BY L2Assumption DEF TypeInv, CbType, Entries
<1>1. ASSUME NEW f \in Frame, callback(f) PROVE WalkInv'
  BY <1>1, WalkBegins DEF callback
<1>2. CASE learn_smac
  <2>1. CASE Same(cb.i, cb.frame.smac)
    <3>1. /\ cb.i \in Entries /\ cb'.pc = "refresh" /\ cb'.i = cb.i
          /\ cb'.frame = cb.frame /\ UNCHANGED mac
      BY <1>0, <1>2, <2>1 DEF learn_smac, CbType
    <3>2. \A k \in Entries : k # cb.i => ~Same(k, cb.frame.smac)
      BY <2>1, <3>1 DEF EntryInv, OneEntryPerAddress, Same
    <3>3. QED
      BY <2>1, <3>1, <3>2 DEF WalkInv, Renewing, FilledPort, Sought, Same
  <2>2. CASE ~Same(cb.i, cb.frame.smac)
    <3>1. cb'.pc = "learn"
      BY <1>0, <1>2, <2>2 DEF learn_smac, CbType
    <3>2. QED
      BY <3>1, WalkBegins
  <2>3. QED
    BY <2>1, <2>2
<1>3. CASE learn_end
  <2>1. cb'.pc \in {"find", "fill"} /\ cb'.i = 0
    BY <1>0, <1>3 DEF learn_end, CbType
  <2>2. QED
    BY <2>1, WalkBegins
<1>4. CASE update_mac_time
  <2>1. cb'.pc = "find" /\ cb'.i = 0
    BY <1>0, <1>4 DEF update_mac_time, CbType
  <2>2. QED
    BY <2>1, WalkBegins
<1>5. CASE fill_entry
  <2>1. /\ cb.j \in Entries /\ cb.frame.inport \in Ports /\ cb.frame.smac \in Macs
        /\ cb'.pc = "valid" /\ cb'.j = cb.j /\ cb'.frame = cb.frame
    BY <1>0, <1>5 DEF fill_entry, TypeInv, Frame, CbType
  <2>2. [mac[cb.j] EXCEPT !.addr = cb.frame.smac] \in nm08_port_mac
    BY <2>1 DEF nm08_port_mac, TypeInv
  <2>3. \A e \in nm08_port_mac : Timed(e, cb.frame.inport).port = cb.frame.inport
    BY DEF Timed, nm08_port_mac
  <2>4. mac'[cb.j].port = cb.frame.inport
    BY <1>5, <2>1, <2>2, <2>3 DEF fill_entry, TypeInv
  <2>5. QED
    BY <2>1, <2>4 DEF WalkInv, Renewing, FilledPort, Sought
<1>6. CASE set_valid
  <2>1. cb'.pc = "find" /\ cb'.i = 0
    BY <1>0, <1>6 DEF set_valid, CbType
  <2>2. QED
    BY <2>1, WalkBegins
<1>7. CASE find_dmac
  <2>1. CASE Same(cb.i, cb.frame.dmac) /\ mac[cb.i].port # cb.frame.inport
    <3>1. cb'.pc = "recv"
      BY <1>0, <1>7, <2>1 DEF find_dmac, CbType
    <3>2. QED
      BY <3>1, WalkBegins
  <2>2. CASE ~(Same(cb.i, cb.frame.dmac) /\ mac[cb.i].port # cb.frame.inport)
    <3>1. /\ cb.pc = "find" /\ cb'.pc = "find" /\ cb'.i = cb.i + 1
          /\ cb'.frame = cb.frame /\ UNCHANGED mac
      BY <1>0, <1>7, <2>2 DEF find_dmac, CbType
    <3>2. \A k \in Entries : k < cb.i + 1 => k < cb.i \/ k = cb.i
      BY <1>0 DEF Entries
    <3>3. Sought'
      BY <2>2, <3>1, <3>2 DEF WalkInv, Sought, Same
    <3>4. QED
      BY <3>1, <3>3 DEF WalkInv, Renewing, FilledPort
  <2>3. QED
    BY <2>1, <2>2
<1>8. CASE find_none
  <2>1. cb'.pc = "recv"
    BY <1>0, <1>8 DEF find_none, CbType
  <2>2. QED
    BY <2>1, WalkBegins
<1>9. QED
  BY <1>1, <1>2, <1>3, <1>4, <1>5, <1>6, <1>7, <1>8 DEF recv_thread

\* What clearing an entry and a second do to the table.
LEMMA ClearEffect ==
  ASSUME TypeInv, aging_clear
  PROVE  /\ UNCHANGED <<cb, out>> /\ aging.i \in Entries
         /\ mac'[aging.i].valid = FALSE
         /\ \A k \in Entries : /\ k # aging.i => mac'[k].valid = mac[k].valid
                               /\ mac'[k].addr = mac[k].addr
                               /\ mac'[k].port = mac[k].port
  BY DEF aging_clear, TypeInv, nm08_port_mac

LEMMA TickEffect ==
  ASSUME TypeInv, Tick
  PROVE  /\ UNCHANGED <<cb, out>>
         /\ \A k \in Entries : /\ mac'[k].valid = mac[k].valid
                               /\ mac'[k].addr = mac[k].addr
                               /\ mac'[k].port = mac[k].port
<1>1. ASSUME NEW k \in Entries
      PROVE  /\ mac'[k].valid = mac[k].valid
             /\ mac'[k].addr = mac[k].addr
             /\ mac'[k].port = mac[k].port
  <2>1. mac'[k] = [mac[k] EXCEPT !.life = IF @ > Floor THEN @ - 1 ELSE Floor]
    BY DEF Tick
  <2>2. mac[k] \in nm08_port_mac
    BY DEF TypeInv
  <2>3. QED
    BY <2>1, <2>2 DEF nm08_port_mac
<1>2. QED
  BY <1>1 DEF Tick

LEMMA WalkStep == TypeInv /\ EntryInv /\ WalkInv /\ [Next]_vars => WalkInv'
<1> SUFFICES ASSUME TypeInv, EntryInv, WalkInv, [Next]_vars PROVE WalkInv'
  OBVIOUS
<1>1. CASE recv_thread
  BY <1>1, WalkRecv
<1>2. CASE aging_clear
  BY <1>2, ClearEffect, FewerWalk
<1>3. CASE Tick
  BY <1>3, TickEffect, FewerWalk
<1>4. CASE UNCHANGED <<mac, cb>>
  BY <1>4, FewerWalk
<1>5. QED
  BY <1>1, <1>2, <1>3, <1>4
  DEF Next, nm08_mac_aging, aging_wake, aging_check, aging_sleep, vars

-----------------------------------------------------------------------------
(***************************************************************************)
(* The port known of an address.                                           *)
(***************************************************************************)

LEMMA KnownIs ==
  ASSUME OneEntryPerAddress, NEW m, NEW k \in Entries, Same(k, m)
  PROVE  KnownPort(m) = mac[k].port
<1>1. \A n \in Entries : Same(n, m) => n = k
  BY DEF OneEntryPerAddress, Same
<1>2. (CHOOSE n \in Entries : Same(n, m)) = k
  BY <1>1
<1>3. QED
  BY <1>2 DEF KnownPort

LEMMA KnownNot ==
  ASSUME NEW m, \A k \in Entries : ~Same(k, m)
  PROVE  KnownPort(m) = NoPort
  BY DEF KnownPort

\* An address whose entries stay is known as before.
LEMMA KnownKept ==
  ASSUME NEW m, OneEntryPerAddress, OneEntryPerAddress',
         \A k \in Entries : /\ Same(k, m)' <=> Same(k, m)
                            /\ Same(k, m) => mac'[k].port = mac[k].port
  PROVE  KnownPort(m)' = KnownPort(m)
<1>1. CASE \E k \in Entries : Same(k, m)
  <2> PICK k \in Entries : Same(k, m)
    BY <1>1
  <2>1. KnownPort(m) = mac[k].port
    BY KnownIs
  <2>2. Same(k, m)'
    OBVIOUS
  <2>3. \A n \in Entries : Same(n, m)' => n = k
    BY DEF OneEntryPerAddress, Same
  <2>4. (CHOOSE n \in Entries : Same(n, m))' = k
    BY <2>2, <2>3
  <2>5. KnownPort(m)' = mac'[k].port
    BY <2>2, <2>4 DEF KnownPort
  <2>6. QED
    BY <2>1, <2>5
<1>2. CASE \A k \in Entries : ~Same(k, m)
  BY <1>2 DEF KnownPort
<1>3. QED
  BY <1>1, <1>2

-----------------------------------------------------------------------------
(***************************************************************************)
(* Steps.                                                                  *)
(***************************************************************************)

Known == [m \in Macs |-> KnownPort(m)]
Stage == CASE cb.pc = "recv" -> "idle"
           [] cb.pc = "find" -> "forward"
           [] OTHER -> "learn"

LEMMA StageOf ==
  /\ cb.pc = "recv" => Stage = "idle"
  /\ cb.pc = "find" => Stage = "forward"
  /\ cb.pc \in {"learn", "refresh", "fill", "valid"} => Stage = "learn"
  BY DEF Stage

Stutter == UNCHANGED <<Known, Stage, cb.frame, out>>

\* What stays valid at its port stays known; the rest is in the frame.
LEMMA KnownSame ==
  ASSUME OneEntryPerAddress, OneEntryPerAddress',
         \A k \in Entries : /\ mac'[k].valid = mac[k].valid
                            /\ mac[k].valid => /\ mac'[k].addr = mac[k].addr
                                               /\ mac'[k].port = mac[k].port
  PROVE  Known' = Known
<1>1. ASSUME NEW m \in Macs PROVE KnownPort(m)' = KnownPort(m)
  <2>1. \A k \in Entries : /\ Same(k, m)' <=> Same(k, m)
                           /\ Same(k, m) => mac'[k].port = mac[k].port
    BY DEF Same
  <2>2. QED
    BY <2>1, KnownKept
<1>2. QED
  BY <1>1 DEF Known

\* The sender becomes known at the port of arrival, the others stay.
LEMMA KnownLearnt ==
  ASSUME OneEntryPerAddress, OneEntryPerAddress', TypeInv,
         NEW n \in Entries, Same(n, cb.frame.smac)',
         mac'[n].port = cb.frame.inport, UNCHANGED cb.frame,
         \A k \in Entries \ {n} : mac'[k] = mac[k],
         Same(n, cb.frame.smac) \/ ~mac[n].valid
  PROVE  Known' = [Known EXCEPT ![cb.frame.smac] = cb.frame.inport]
<1>1. KnownPort(cb.frame.smac)' = cb.frame.inport
  <2>1. \A k \in Entries : Same(k, cb.frame.smac)' => k = n
    BY DEF OneEntryPerAddress, Same
  <2>2. (CHOOSE k \in Entries : Same(k, cb.frame.smac))' = n
    BY <2>1
  <2>3. QED
    BY <2>2 DEF KnownPort
<1>2. ASSUME NEW m \in Macs, m # cb.frame.smac
      PROVE  KnownPort(m)' = KnownPort(m)
  <2>1. ~Same(n, m)' /\ ~Same(n, m)
    BY <1>2 DEF Same
  <2>2. \A k \in Entries : /\ Same(k, m)' <=> Same(k, m)
                           /\ Same(k, m) => mac'[k].port = mac[k].port
    BY <2>1 DEF Same
  <2>3. QED
    BY <2>2, KnownKept
<1>3. \A m \in Macs : KnownPort(m)' = IF m = cb.frame.smac THEN cb.frame.inport
                                      ELSE KnownPort(m)
  BY <1>1, <1>2
<1>4. QED
  BY <1>3 DEF Known

Arrives(f) == /\ Stage = "idle" /\ Stage' = "learn"
              /\ cb'.frame = f /\ out' = {} /\ Known' = Known
Learns == /\ Stage = "learn" /\ Stage' = "forward"
          /\ \/ Known' = [Known EXCEPT ![cb.frame.smac] = cb.frame.inport]
             \/ Known[cb.frame.smac] = NoPort /\ UNCHANGED Known
          /\ UNCHANGED <<cb.frame, out>>
Forgets(m) == /\ Known' = [Known EXCEPT ![m] = NoPort]
              /\ UNCHANGED <<Stage, cb.frame, out>>
Forwards == /\ Stage = "forward" /\ Stage' = "idle"
            /\ out' = IF Known[cb.frame.dmac] \in {NoPort, cb.frame.inport}
                      THEN Ports \ {cb.frame.inport}
                      ELSE {Known[cb.frame.dmac]}
            /\ UNCHANGED <<Known, cb.frame>>

AbstractStep == \/ \E f \in Frame : Arrives(f)
                \/ \E m \in Macs : Forgets(m)
                \/ Learns \/ Forwards \/ Stutter

LEMMA RecvImplements ==
  TypeInv /\ EntryInv /\ EntryInv' /\ WalkInv /\ recv_thread => AbstractStep
<1> SUFFICES ASSUME TypeInv, EntryInv, EntryInv', WalkInv, recv_thread
             PROVE  AbstractStep
  OBVIOUS
<1>0. /\ cb \in CbType /\ cb.frame \in Frame /\ NM08_NEIGH_MAX \in Nat
      /\ cb.frame.smac \in Macs /\ cb.frame.dmac \in Macs
      /\ cb.frame.inport \in Ports
      /\ cb.i \in 0 .. NM08_NEIGH_MAX
      /\ cb.i < NM08_NEIGH_MAX => cb.i \in Entries
      /\ \A k \in Entries : k < NM08_NEIGH_MAX
  BY L2Assumption DEF TypeInv, CbType, Entries, Frame
<1>u. OneEntryPerAddress /\ OneEntryPerAddress'
  BY DEF EntryInv
<1>s. UNCHANGED mac => Known' = Known
  BY <1>u, KnownSame
<1>g. Stage' = CASE cb'.pc = "recv" -> "idle"
                 [] cb'.pc = "find" -> "forward"
                 [] OTHER -> "learn"
  BY DEF Stage
<1>1. ASSUME NEW f \in Frame, callback(f) PROVE AbstractStep
  <2>1. cb.pc = "recv" /\ cb'.pc = "learn" /\ cb'.frame = f /\ out' = {}
        /\ UNCHANGED mac
    BY <1>1 DEF callback
  <2>2. Arrives(f)
    BY <2>1, <1>s, <1>g, StageOf DEF Arrives
  <2>3. QED
    BY <2>2 DEF AbstractStep
<1>2. CASE learn_smac
  <2>1. /\ cb.pc = "learn" /\ cb'.pc \in {"learn", "refresh"}
        /\ cb'.frame = cb.frame /\ UNCHANGED <<mac, out>>
    BY <1>0, <1>2 DEF learn_smac, CbType
  <2>2. QED
    BY <2>1, <1>s, <1>g, StageOf DEF Stutter, AbstractStep
<1>3. CASE learn_end
  <2>1. /\ cb.pc = "learn" /\ cb.i = NM08_NEIGH_MAX
        /\ cb'.pc = IF cb.j = -1 THEN "find" ELSE "fill"
        /\ cb'.frame = cb.frame /\ UNCHANGED <<mac, out>>
    BY <1>0, <1>3 DEF learn_end, CbType
  <2>2. CASE cb.j = -1
    <3>1. \A k \in Entries : ~Same(k, cb.frame.smac)
      BY <1>0, <2>1 DEF EntryInv, Searched, Passed
    <3>2. Known[cb.frame.smac] = NoPort
      BY <1>0, <3>1, KnownNot DEF Known
    <3>3. Learns
      BY <2>1, <2>2, <3>2, <1>s, <1>g, StageOf DEF Learns
    <3>4. QED
      BY <3>3 DEF AbstractStep
  <2>3. CASE cb.j # -1
    BY <2>1, <2>3, <1>s, <1>g, StageOf DEF Stutter, AbstractStep
  <2>4. QED
    BY <2>2, <2>3
<1>4. CASE update_mac_time
  <2>1. /\ cb.i \in Entries /\ cb.pc = "refresh" /\ cb'.pc = "find"
        /\ cb'.frame = cb.frame /\ UNCHANGED out
        /\ mac' = [mac EXCEPT ![cb.i] = Timed(@, cb.frame.inport)]
    BY <1>0, <1>4 DEF update_mac_time, TypeInv, CbType
  <2>2. \A e \in nm08_port_mac : Timed(e, cb.frame.inport).port = cb.frame.inport
    BY DEF Timed, nm08_port_mac
  <2>3. /\ mac'[cb.i].port = cb.frame.inport
        /\ mac'[cb.i].valid = mac[cb.i].valid
        /\ mac'[cb.i].addr = mac[cb.i].addr
        /\ \A k \in Entries \ {cb.i} : mac'[k] = mac[k]
    BY <1>0, <2>1, <2>2, TimedType DEF TypeInv
  <2>4. mac[cb.i].addr = cb.frame.smac
        /\ \A k \in Entries : k # cb.i => ~Same(k, cb.frame.smac)
    BY <2>1 DEF WalkInv, Renewing
  <2>5. CASE mac[cb.i].valid
    <3> PICK n \in Entries : n = cb.i
      BY <2>1
    <3>1. Same(n, cb.frame.smac) /\ Same(n, cb.frame.smac)'
      BY <2>1, <2>3, <2>4, <2>5 DEF Same
    <3>2. Known' = [Known EXCEPT ![cb.frame.smac] = cb.frame.inport]
      BY <2>1, <2>3, <3>1, <1>u, KnownLearnt
    <3>3. Learns
      BY <2>1, <3>2, <1>g, StageOf DEF Learns
    <3>4. QED
      BY <3>3 DEF AbstractStep
  <2>6. CASE ~mac[cb.i].valid
    <3>1. Known' = Known
      BY <2>3, <2>6, <1>u, KnownSame
    <3>2. Known[cb.frame.smac] = NoPort
      BY <1>0, <2>4, <2>6, KnownNot DEF Known, Same
    <3>3. Learns
      BY <2>1, <3>1, <3>2, <1>g, StageOf DEF Learns
    <3>4. QED
      BY <3>3 DEF AbstractStep
  <2>7. QED
    BY <2>5, <2>6
<1>5. CASE fill_entry
  <2>1. /\ cb.j \in Entries /\ cb.pc = "fill" /\ cb'.pc = "valid"
        /\ cb'.frame = cb.frame /\ UNCHANGED out
    BY <1>0, <1>5 DEF fill_entry, TypeInv, CbType
  <2>2. /\ [mac[cb.j] EXCEPT !.addr = cb.frame.smac] \in nm08_port_mac
        /\ [mac[cb.j] EXCEPT !.addr = cb.frame.smac].valid = mac[cb.j].valid
    BY <1>0, <2>1 DEF nm08_port_mac, TypeInv
  <2>3. /\ mac'[cb.j].valid = mac[cb.j].valid /\ ~mac[cb.j].valid
        /\ \A k \in Entries : k # cb.j => mac'[k] = mac[k]
    BY <1>0, <1>5, <2>1, <2>2, TimedType
    DEF fill_entry, TypeInv, EntryInv, NotedIsFree
  <2>4. Known' = Known
    BY <2>3, <1>u, KnownSame
  <2>5. QED
    BY <2>1, <2>4, <1>g, StageOf DEF Stutter, AbstractStep
<1>6. CASE set_valid
  <2>1. /\ cb.pc = "valid" /\ cb.j \in Entries /\ cb'.pc = "find"
        /\ cb'.frame = cb.frame /\ UNCHANGED out
        /\ mac' = [mac EXCEPT ![cb.j].valid = TRUE]
    BY <1>0, <1>6 DEF set_valid, TypeInv, CbType
  <2>2. /\ mac'[cb.j].valid /\ mac'[cb.j].addr = mac[cb.j].addr
        /\ mac'[cb.j].port = mac[cb.j].port
        /\ \A k \in Entries \ {cb.j} : mac'[k] = mac[k]
    BY <2>1 DEF TypeInv, nm08_port_mac
  <2>3. /\ mac[cb.j].addr = cb.frame.smac /\ mac[cb.j].port = cb.frame.inport
        /\ ~mac[cb.j].valid
    BY <2>1 DEF EntryInv, Filled, WalkInv, FilledPort, NotedIsFree
  <2> PICK n \in Entries : n = cb.j
    BY <2>1
  <2>4. Same(n, cb.frame.smac)'
    BY <2>1, <2>2, <2>3 DEF Same
  <2>5. Known' = [Known EXCEPT ![cb.frame.smac] = cb.frame.inport]
    BY <2>1, <2>2, <2>3, <2>4, <1>u, KnownLearnt
  <2>6. Learns
    BY <2>1, <2>5, <1>g, StageOf DEF Learns
  <2>7. QED
    BY <2>6 DEF AbstractStep
<1>7. CASE find_dmac
  <2>1. /\ cb.pc = "find" /\ cb.i \in Entries /\ cb'.frame = cb.frame
        /\ UNCHANGED mac
    BY <1>0, <1>7 DEF find_dmac, CbType
  <2>2. CASE Same(cb.i, cb.frame.dmac) /\ mac[cb.i].port # cb.frame.inport
    <3>1. cb'.pc = "recv" /\ out' = {mac[cb.i].port}
      BY <1>0, <1>7, <2>2 DEF find_dmac, pkt_send_normal, CbType
    <3>2. Known[cb.frame.dmac] = mac[cb.i].port
      BY <1>0, <1>u, <2>1, <2>2, KnownIs DEF Known
    <3>3. mac[cb.i].port # NoPort
      BY <2>1, L2Assumption DEF TypeInv, nm08_port_mac
    <3>4. Forwards
      BY <2>1, <2>2, <3>1, <3>2, <3>3, <1>s, <1>g, StageOf DEF Forwards
    <3>5. QED
      BY <3>4 DEF AbstractStep
  <2>3. CASE ~(Same(cb.i, cb.frame.dmac) /\ mac[cb.i].port # cb.frame.inport)
    <3>1. cb'.pc = "find" /\ UNCHANGED out
      BY <1>0, <1>7, <2>3 DEF find_dmac, CbType
    <3>2. QED
      BY <2>1, <3>1, <1>s, <1>g, StageOf DEF Stutter, AbstractStep
  <2>4. QED
    BY <2>2, <2>3
<1>8. CASE find_none
  <2>1. /\ cb.pc = "find" /\ cb.i = NM08_NEIGH_MAX /\ cb'.pc = "recv"
        /\ cb'.frame = cb.frame /\ UNCHANGED mac
        /\ out' = Ports \ {cb.frame.inport}
    BY <1>0, <1>8 DEF find_none, pkt_send_flood, CbType
  <2>2. \A k \in Entries : Same(k, cb.frame.dmac) =>
                             mac[k].port = cb.frame.inport
    BY <1>0, <2>1 DEF WalkInv, Sought
  <2>3. Known[cb.frame.dmac] \in {NoPort, cb.frame.inport}
    <3>1. CASE \E k \in Entries : Same(k, cb.frame.dmac)
      BY <1>0, <1>u, <2>2, <3>1, KnownIs DEF Known
    <3>2. CASE \A k \in Entries : ~Same(k, cb.frame.dmac)
      BY <1>0, <3>2, KnownNot DEF Known
    <3>3. QED
      BY <3>1, <3>2
  <2>4. Forwards
    BY <2>1, <2>3, <1>s, <1>g, StageOf DEF Forwards
  <2>5. QED
    BY <2>4 DEF AbstractStep
<1>9. QED
  BY <1>1, <1>2, <1>3, <1>4, <1>5, <1>6, <1>7, <1>8 DEF recv_thread

LEMMA ClearImplements ==
  TypeInv /\ EntryInv /\ EntryInv' /\ aging_clear => AbstractStep
<1> SUFFICES ASSUME TypeInv, EntryInv, EntryInv', aging_clear
             PROVE  AbstractStep
  OBVIOUS
<1>u. OneEntryPerAddress /\ OneEntryPerAddress'
  BY DEF EntryInv
<1>1. /\ UNCHANGED <<cb, out>> /\ aging.i \in Entries
      /\ mac'[aging.i].valid = FALSE
      /\ \A k \in Entries : /\ k # aging.i => mac'[k].valid = mac[k].valid
                            /\ mac'[k].addr = mac[k].addr
                            /\ mac'[k].port = mac[k].port
  BY ClearEffect
<1>2. UNCHANGED <<Stage, cb.frame, out>>
  BY <1>1 DEF Stage
<1>3. CASE mac[aging.i].valid
  <2> PICK m \in Macs : m = mac[aging.i].addr
    BY <1>1 DEF TypeInv, nm08_port_mac
  <2>1. KnownPort(m)' = NoPort
    <3>1. \A k \in Entries : ~Same(k, m)'
      BY <1>1, <1>3, <1>u DEF OneEntryPerAddress, Same
    <3>2. QED
      BY <3>1 DEF KnownPort
  <2>2. ASSUME NEW x \in Macs, x # m PROVE KnownPort(x)' = KnownPort(x)
    <3>1. \A k \in Entries : /\ Same(k, x)' <=> Same(k, x)
                             /\ Same(k, x) => mac'[k].port = mac[k].port
      BY <1>1, <2>2 DEF Same
    <3>2. QED
      BY <3>1, <1>u, KnownKept
  <2>3. \A x \in Macs : KnownPort(x)' = IF x = m THEN NoPort ELSE KnownPort(x)
    BY <2>1, <2>2
  <2>4. Known' = [Known EXCEPT ![m] = NoPort]
    BY <2>3 DEF Known
  <2>5. Forgets(m)
    BY <1>2, <2>4 DEF Forgets
  <2>6. QED
    BY <2>5 DEF AbstractStep
<1>4. CASE ~mac[aging.i].valid
  <2> mac[aging.i].valid = FALSE
    BY <1>1, <1>4 DEF TypeInv, nm08_port_mac
  <2>1. \A k \in Entries : mac'[k].valid = mac[k].valid
    BY <1>1
  <2>2. Known' = Known
    BY <1>1, <2>1, <1>u, KnownSame
  <2>3. QED
    BY <1>2, <2>2 DEF Stutter, AbstractStep
<1>5. QED
  BY <1>3, <1>4

LEMMA NextImplements ==
  TypeInv /\ EntryInv /\ EntryInv' /\ WalkInv /\ [Next]_vars => AbstractStep
<1> SUFFICES ASSUME TypeInv, EntryInv, EntryInv', WalkInv, [Next]_vars
             PROVE  AbstractStep
  OBVIOUS
<1>u. OneEntryPerAddress /\ OneEntryPerAddress'
  BY DEF EntryInv
<1>1. CASE recv_thread
  BY <1>1, RecvImplements
<1>2. CASE aging_clear
  BY <1>2, ClearImplements
<1>3. CASE Tick
  <2>1. /\ UNCHANGED <<cb, out>>
        /\ \A k \in Entries : /\ mac'[k].valid = mac[k].valid
                              /\ mac'[k].addr = mac[k].addr
                              /\ mac'[k].port = mac[k].port
    BY <1>3, TickEffect
  <2>2. Known' = Known
    BY <2>1, <1>u, KnownSame
  <2>3. QED
    BY <2>1, <2>2 DEF Stage, Stutter, AbstractStep
<1>4. CASE UNCHANGED <<mac, cb, out>>
  <2>1. Known' = Known
    BY <1>4, <1>u, KnownSame
  <2>2. QED
    BY <1>4, <2>1 DEF Stage, Stutter, AbstractStep
<1>5. QED
  BY <1>1, <1>2, <1>3, <1>4
  DEF Next, nm08_mac_aging, aging_wake, aging_check, aging_sleep, vars

LEMMA InitImplements == Init => Abstract!AInit
<1> SUFFICES ASSUME Init PROVE Abstract!AInit
  OBVIOUS
<1>1. \A k \in Entries : ~mac[k].valid
  BY DEF Init
<1>2. \A m \in Macs : KnownPort(m) = NoPort
  BY <1>1 DEF KnownPort, Same
<1>3. cb.pc = "recv" /\ cb.frame \in Frame /\ out = {}
  BY L2Assumption DEF Init, Frame
<1>4. QED
  BY <1>2, <1>3 DEF Abstract!AInit, Abstract!Frame, Frame

LEMMA StepImplements == AbstractStep => [Abstract!ANext]_(Abstract!avars)
  BY DEF AbstractStep, Arrives, Learns, Forgets, Forwards, Stutter, Known, Stage,
     Abstract!ANext, Abstract!Arrive, Abstract!Learn, Abstract!Forget,
     Abstract!Forward, Abstract!avars, Abstract!Frame, Frame

\* The switch with its two threads and no lock implements a learning switch.
THEOREM SwitchLearns == Spec => ImplementsLearningSwitch
<1>1. TypeInv /\ EntryInv /\ EntryInv' /\ WalkInv /\ [Next]_vars
        => [Abstract!ANext]_(Abstract!avars)
  BY NextImplements, StepImplements
<1>2. Spec => [](TypeInv /\ EntryInv /\ WalkInv)
  BY InitType, TypeStep, EntryInit, EntryStep, WalkInit, WalkStep, PTL DEF Spec
<1>3. QED
  BY <1>1, <1>2, InitImplements, PTL
  DEF Spec, ImplementsLearningSwitch, Abstract!ASpec
=============================================================================
