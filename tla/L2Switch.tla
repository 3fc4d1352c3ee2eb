------------------------------ MODULE L2Switch ------------------------------
(***************************************************************************)
(* app/l2switch: a learning switch in user space.  Two threads share the   *)
(* address table without a lock: the receive thread of libua, which runs   *)
(* `callback` for every frame, and `nm08_mac_aging`.  A step is what one   *)
(* thread does between two accesses to what the other one writes: the      *)
(* receive thread walks the table entry by entry, the aging thread decides *)
(* on an entry and invalidates it afterwards.                              *)
(*                                                                         *)
(* Times are kept relative to the clock: `life` is tv.tv_sec minus now, so *)
(* the clock needs no bound; it is floored below what `Expired` can tell   *)
(* apart.  MaxLag bounds how many seconds one walk of the aging thread     *)
(* over the table may take.                                                *)
(***************************************************************************)
EXTENDS Integers

CONSTANTS Macs, Ports, NoPort,
          Receivers,       \* the addresses frames are sent to
          NM08_NEIGH_MAX,  \* entries of the table
          MAC_LIFE_TIME,   \* seconds an address stays valid
          AgingSleep,      \* the aging thread sleeps that long between walks
          MaxLag

ASSUME L2Assumption == /\ NM08_NEIGH_MAX \in Nat \ {0}
                       /\ MAC_LIFE_TIME \in Nat \ {0}
                       /\ AgingSleep \in Nat \ {0}
                       /\ MaxLag \in Nat
                       /\ NoPort \notin Ports
                       /\ Receivers \subseteq Macs

Entries == 0 .. NM08_NEIGH_MAX - 1
Floor == 0 - MaxLag - 1
Lives == Floor .. MAC_LIFE_TIME
Frame == [smac : Macs, dmac : Receivers, inport : Ports]

VARIABLES mac,    \* nm08_table->mac
          cb,     \* the receive thread: where it is, its frame, i and j
          aging,  \* the aging thread: where it is, i, seconds since or left
          out     \* the ports fast_ua_send was called with for the frame

vars == <<mac, cb, aging, out>>

nm08_port_mac == [valid : BOOLEAN, port : Ports, addr : Macs, life : Lives]

TypeOK ==
  /\ mac \in [Entries -> nm08_port_mac]
  /\ cb \in [pc : {"recv", "learn", "refresh", "fill", "valid", "find"},
             frame : Frame, i : 0 .. NM08_NEIGH_MAX, j : Entries \cup {-1}]
  /\ cb.pc \in {"fill", "valid"} => cb.j \in Entries
  /\ aging \in [pc : {"sleep", "check", "clear"}, i : 0 .. NM08_NEIGH_MAX,
                t : 0 .. (IF AgingSleep > MaxLag THEN AgingSleep ELSE MaxLag)]
  /\ out \in SUBSET Ports

-----------------------------------------------------------------------------
(* The receive thread *)

\* `callback`: learn_smac first, then find_dmac.
callback(f) ==
  /\ cb.pc = "recv"
  /\ cb' = [pc |-> "learn", frame |-> f, i |-> 0, j |-> -1]
  /\ out' = {}
  /\ UNCHANGED <<mac, aging>>

Same(k, m) == mac[k].valid /\ mac[k].addr = m

\* Mutant: the first free entry is taken without looking further.
learn_smac_eager ==
  /\ cb.pc = "learn" /\ cb.i < NM08_NEIGH_MAX
  /\ cb' = IF Same(cb.i, cb.frame.smac) THEN [cb EXCEPT !.pc = "refresh"]
           ELSE IF mac[cb.i].valid THEN [cb EXCEPT !.i = @ + 1]
           ELSE [cb EXCEPT !.pc = "fill", !.i = 0, !.j = cb.i]
  /\ UNCHANGED <<mac, aging, out>>

\* learn_smac, one entry: known, or the first free one, or go on.
learn_smac ==
  /\ cb.pc = "learn" /\ cb.i < NM08_NEIGH_MAX
  /\ cb' = IF Same(cb.i, cb.frame.smac) THEN [cb EXCEPT !.pc = "refresh"]
           ELSE [cb EXCEPT !.i = @ + 1,
                           !.j = IF ~mac[cb.i].valid /\ @ = -1 THEN cb.i ELSE @]
  /\ UNCHANGED <<mac, aging, out>>

\* Mutant: the check for a full table is missing.
learn_end_unchecked ==
  /\ cb.pc = "learn" /\ cb.i = NM08_NEIGH_MAX
  /\ cb' = [cb EXCEPT !.pc = "fill", !.i = 0]
  /\ UNCHANGED <<mac, aging, out>>

\* The end of the walk: the first free entry is taken, or nothing is learnt.
learn_end ==
  /\ cb.pc = "learn" /\ cb.i = NM08_NEIGH_MAX
  /\ cb' = [cb EXCEPT !.pc = IF cb.j = -1 THEN "find" ELSE "fill", !.i = 0]
  /\ UNCHANGED <<mac, aging, out>>

Timed(e, inport) == [e EXCEPT !.life = MAC_LIFE_TIME, !.port = inport]

\* Mutant: an address that moved keeps its old port.
update_mac_time_only ==
  /\ cb.pc = "refresh"
  /\ mac' = [mac EXCEPT ![cb.i].life = MAC_LIFE_TIME]
  /\ cb' = [cb EXCEPT !.pc = "find", !.i = 0, !.j = -1]
  /\ UNCHANGED <<aging, out>>

\* update_mac_time of the entry found; it may have been invalidated since.
update_mac_time ==
  /\ cb.pc = "refresh"
  /\ mac' = [mac EXCEPT ![cb.i] = Timed(@, cb.frame.inport)]
  /\ cb' = [cb EXCEPT !.pc = "find", !.i = 0, !.j = -1]
  /\ UNCHANGED <<aging, out>>

\* A new address: everything but the valid flag.
fill_entry ==
  /\ cb.pc = "fill"
  /\ mac' = [mac EXCEPT ![cb.j] =
               Timed([@ EXCEPT !.addr = cb.frame.smac], cb.frame.inport)]
  /\ cb' = [cb EXCEPT !.pc = "valid"]
  /\ UNCHANGED <<aging, out>>

set_valid ==
  /\ cb.pc = "valid"
  /\ mac' = [mac EXCEPT ![cb.j].valid = TRUE]
  /\ cb' = [cb EXCEPT !.pc = "find", !.i = 0, !.j = -1]
  /\ UNCHANGED <<aging, out>>

pkt_send_normal(outport) == out' = {outport}
pkt_send_flood == out' = {i \in Ports : i # cb.frame.inport}

\* find_dmac, one entry: an entry of the port of arrival is passed over.
find_dmac ==
  /\ cb.pc = "find" /\ cb.i < NM08_NEIGH_MAX
  /\ IF Same(cb.i, cb.frame.dmac) /\ mac[cb.i].port # cb.frame.inport
     THEN /\ pkt_send_normal(mac[cb.i].port)
          /\ cb' = [cb EXCEPT !.pc = "recv", !.i = 0]
     ELSE cb' = [cb EXCEPT !.i = @ + 1] /\ UNCHANGED out
  /\ UNCHANGED <<mac, aging>>

find_none ==
  /\ cb.pc = "find" /\ cb.i = NM08_NEIGH_MAX
  /\ pkt_send_flood
  /\ cb' = [cb EXCEPT !.pc = "recv", !.i = 0]
  /\ UNCHANGED <<mac, aging>>

-----------------------------------------------------------------------------
(* The aging thread.  While it walks, t is the time since it read the clock. *)

\* Mutant: a second too early.
ExpiredEarly(k) == mac[k].life + aging.t <= 0

Expired(k) == mac[k].life + aging.t < 0

aging_wake ==
  /\ aging.pc = "sleep" /\ aging.t = 0
  /\ aging' = [pc |-> "check", i |-> 0, t |-> 0]
  /\ UNCHANGED <<mac, cb, out>>

aging_check ==
  /\ aging.pc = "check" /\ aging.i < NM08_NEIGH_MAX
  /\ aging' = IF mac[aging.i].valid /\ Expired(aging.i)
              THEN [aging EXCEPT !.pc = "clear"] ELSE [aging EXCEPT !.i = @ + 1]
  /\ UNCHANGED <<mac, cb, out>>

aging_clear ==
  /\ aging.pc = "clear"
  /\ mac' = [mac EXCEPT ![aging.i].valid = FALSE]
  /\ aging' = [aging EXCEPT !.pc = "check", !.i = @ + 1]
  /\ UNCHANGED <<cb, out>>

\* Mutant: the last entry is not looked at.
aging_sleep_early ==
  /\ aging.pc = "check" /\ aging.i >= NM08_NEIGH_MAX - 1
  /\ aging' = [pc |-> "sleep", i |-> 0, t |-> AgingSleep]
  /\ UNCHANGED <<mac, cb, out>>

aging_sleep ==
  /\ aging.pc = "check" /\ aging.i = NM08_NEIGH_MAX
  /\ aging' = [pc |-> "sleep", i |-> 0, t |-> AgingSleep]
  /\ UNCHANGED <<mac, cb, out>>

nm08_mac_aging == aging_wake \/ aging_check \/ aging_clear \/ aging_sleep

\* A second passes.
Tick ==
  /\ aging.pc # "sleep" => aging.t < MaxLag
  /\ aging' = [aging EXCEPT !.t = IF aging.pc # "sleep" THEN @ + 1
                                  ELSE IF @ > 0 THEN @ - 1 ELSE 0]
  /\ mac' = [k \in Entries |->
               [mac[k] EXCEPT !.life = IF @ > Floor THEN @ - 1 ELSE Floor]]
  /\ UNCHANGED <<cb, out>>

-----------------------------------------------------------------------------
\* What `main` leaves when both threads run: an empty table.
Init ==
  \E p \in Ports, m \in Receivers :
    /\ mac = [k \in Entries |->
                [valid |-> FALSE, port |-> p, addr |-> m, life |-> Floor]]
    /\ cb = [pc |-> "recv", i |-> 0, j |-> -1,
             frame |-> [smac |-> m, dmac |-> m, inport |-> p]]
    /\ aging = [pc |-> "sleep", i |-> 0, t |-> 0]
    /\ out = {}

recv_thread == \/ \E f \in Frame : callback(f)
               \/ learn_smac \/ learn_end \/ update_mac_time
               \/ fill_entry \/ set_valid \/ find_dmac \/ find_none

Next == recv_thread \/ nm08_mac_aging \/ Tick

Spec == Init /\ [][Next]_vars

\* The aging thread is scheduled and the clock goes on; frames need not come.
FairSpec == Spec /\ WF_vars(nm08_mac_aging) /\ WF_vars(Tick)

-----------------------------------------------------------------------------
(* Properties *)

\* An address never has two valid entries, although the table is searched and
\* filled while another thread frees entries (learn_smac, nm08_mac_aging):
\* otherwise find_dmac would go by the older one.
OneEntryPerAddress ==
  \A k, n \in Entries :
    mac[k].valid /\ mac[n].valid /\ mac[k].addr = mac[n].addr => k = n

\* The aging thread takes an address that is not expired only if its sender was
\* heard since the walk began: the deadline was read before update_mac_time and
\* the entry is invalidated after it.  Nothing older is ever lost.
AgingSparesSettled ==
  [][\A k \in Entries : mac[k].valid /\ ~mac'[k].valid =>
        mac[k].life < 0 \/ mac[k].life + aging.t >= MAC_LIFE_TIME]_vars

\* A silent sender does not stay in the table (nm08_mac_aging).
SilentAddressesAge ==
  \A k \in Entries : (mac[k].valid /\ mac[k].life < 0)
                        ~> (~mac[k].valid \/ mac[k].life >= 0)

\* The table and the two threads implement a learning switch: what is known of
\* an address is the port of its valid entry.
KnownPort(m) == IF \E k \in Entries : Same(k, m)
                THEN mac[CHOOSE k \in Entries : Same(k, m)].port ELSE NoPort

Abstract == INSTANCE LearningSwitch
  WITH known <- [m \in Macs |-> KnownPort(m)],
       stage <- CASE cb.pc = "recv" -> "idle"
                  [] cb.pc = "find" -> "forward"
                  [] OTHER -> "learn",
       frame <- cb.frame

ImplementsLearningSwitch == Abstract!ASpec

=============================================================================
