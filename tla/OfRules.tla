------------------------------ MODULE OfRules -------------------------------
(***************************************************************************)
(* libofp: the flow table messages of the controller, and the flow         *)
(* statistics that tell the controller what is installed, on top of        *)
(* librule.  The receive thread handles one message after the other; while *)
(* a handler writes registers the match engine looks packets up.  The      *)
(* program may be killed at any moment and started again: the engine keeps *)
(* its registers, the rest is lost.                                        *)
(*                                                                         *)
(* A match is either empty (mask 0) or on the port of arrival (mask 1).    *)
(* The expiry times are set here but nothing reads them: the thread that   *)
(* would, aging_rule_sw, is not started (main_libofp.c:2843).              *)
(***************************************************************************)
EXTENDS RuleTable

CONSTANTS LogPorts,    \* the ports of -i, numbered from 1 as given
          FirstObx,    \* the first of them is obx<FirstObx>, and so on
          Prios, Cookies,
          NoStats

ASSUME OfAssumption ==
  /\ LogPorts \subseteq 1 .. 9 /\ FirstObx \in Nat
  /\ Prios \subseteq Nat /\ Cookies \subseteq Nat

VARIABLES stats,  \* flow_stats_addr: what each flow_mod in force said
          op,     \* history: the handler at work or last at work
          was     \* history: View before it

vars == <<tableVars, stats, op, was>>

\* The port number ends the interface's name; port 0 is br0.
get_phyport_by_logport(p) == IF p = 0 THEN 0 ELSE p - 1 + FirstObx
Keys == {get_phyport_by_logport(p) : p \in LogPorts}

ACTION_PORT(p) == 3 * 16 + p
ToCpu == 4 * 16 + 2    \* ACTION_SET_MID, FAST_DMID_PROTO_STACK
CONTROLLER == 10       \* OFPP_CONTROLLER, and any port from 10 on
NoOutput == 0          \* an instruction without actions

Match == {[port |-> 0, mask |-> 0]} \cup [port : LogPorts, mask : {1}]
Adding == {"ADD", "MODIFY", "MODIFY_STRICT", "DELETE_STRICT"}

ofp_flow_stats == [match : Match, prio : Prios,
                   out : LogPorts \cup {CONTROLLER, NoOutput},
                   cookie : Cookies]

\* A null pointer in flow_stats_addr is no message.
ASSUME NoStatsAssumption == NoStats \notin ofp_flow_stats

TypeOK == /\ TableTypeOK
          /\ stats \in [Slots \cup {Default} -> ofp_flow_stats \cup {NoStats}]
          /\ op \in {"init", "write", "delete"}
          /\ was \in [Slots -> [key : Nat, mask : {0, 1}, prio : Nat,
                                valid : {0, 1}, action : Nat,
                                md5 : {<<>>} \cup (Nat \X {0, 1} \X Nat)]]

\* What the rules in force are to do: a rule whose statistics are gone drops.
View == [i \in Slots |-> IF stats[i] = NoStats
                         THEN [rules[i] EXCEPT !.action = ACTION_DROP]
                         ELSE rules[i]]
-----------------------------------------------------------------------------
\* The action of the last output; none at all drops.
rule_action(m) == CASE m.out = NoOutput -> ACTION_DROP
                    [] m.out = CONTROLLER -> ToCpu
                    [] OTHER -> ACTION_PORT(get_phyport_by_logport(m.out))

\* The digest is taken before the port is translated.
md5(m) == <<m.match.port, m.match.mask, m.prio>>

Rule(m, key) == [key |-> key, mask |-> m.match.mask, prio |-> m.prio,
                 valid |-> 1, action |-> rule_action(m), md5 |-> md5(m)]

Idx(m) == rule_exists(rules, md5(m))
Known(m) == Idx(m) # -1

default_rule(m) == m.out = CONTROLLER /\ m.match.mask = 0
SetsDefault(m) == default_rule(m) /\ stats[Default] = NoStats

History(name) == op' = name /\ was' = View

\* Whatever its command, the first message for the default action sets it.
set_default(m) ==
  /\ SetsDefault(m)
  /\ Call(rules, <<openbox_action_reg_wr(Default, rule_action(m))>>)
  /\ stats' = [stats EXCEPT ![Default] = m]
  /\ History("write")

\* Mutant: the answer of fast_add_rule is not looked at.
readd_flow_unchecked(command, m) ==
  /\ ~SetsDefault(m) /\ ~Known(m)
  /\ command # "DELETE_STRICT"
  /\ command = "ADD" \/ m.match.mask = 1
  /\ fast_add_rule(Rule(m, get_phyport_by_logport(m.match.port)))
  /\ stats' = [stats EXCEPT ![added_slot(rules, md5(m))] = m]
  /\ History("write")

\* readd_flow: a rule that is not there is added, also by a modification that
\* names a match ("the software may have restarted and lost its table").  In
\* a full table nothing happens but a message.
readd_flow(command, m) ==
  /\ ~SetsDefault(m) /\ ~Known(m)
  /\ command # "DELETE_STRICT"
  /\ command = "ADD" \/ m.match.mask = 1
  /\ added_slot(rules, md5(m)) # -1
  /\ fast_add_rule(Rule(m, get_phyport_by_logport(m.match.port)))
  /\ stats' = [stats EXCEPT ![added_slot(rules, md5(m))] = m]
  /\ History("write")

\* Mutant: the statistics of the old version stay.
modify_strict_hw_only(m) ==
  /\ ~SetsDefault(m) /\ Known(m)
  /\ fast_modify_rule(Idx(m), Rule(m, m.match.port),
       <<openbox_action_reg_wr(Idx(m), rule_action(m))>>)
  /\ UNCHANGED stats
  /\ History("write")

\* The port of the match is written as the controller numbers it.
modify_strict(m) ==
  /\ ~SetsDefault(m) /\ Known(m)
  /\ fast_modify_rule(Idx(m), Rule(m, m.match.port),
       <<openbox_action_reg_wr(Idx(m), rule_action(m))>>)
  /\ stats' = [stats EXCEPT ![Idx(m)] = m]
  /\ History("write")

ActionZero == [i \in Slots |-> <<openbox_action_reg_wr(i, ACTION_DROP)>>]
None == [i \in Slots |-> <<>>]

delete_strict(m) ==
  /\ ~SetsDefault(m) /\ Known(m)
  /\ fast_del_rule({Idx(m)}, ActionZero, None)
  /\ stats' = [stats EXCEPT ![Idx(m)] = NoStats]
  /\ History("delete")

\* ADD of a rule that is there, MODIFY of one that is there, DELETE_STRICT of
\* one that is not, and a message without instructions change nothing.
handle_flow_mod_add(command, m) ==
  \/ set_default(m)
  \/ readd_flow(command, m)
  \/ command = "MODIFY_STRICT" /\ modify_strict(m)
  \/ command = "DELETE_STRICT" /\ delete_strict(m)

\* OFPFC_DELETE with a cookie mask of zero, whatever its match: statistics
\* and actions go, the rules stay valid.
delete_all ==
  /\ Call(rules, FlattenSeq([n \in 1 .. FAST_RULE_CNT |-> ActionZero[n - 1]]))
  /\ stats' = [i \in Slots \cup {Default} |->
                 IF i \in Slots THEN NoStats ELSE stats[i]]
  /\ History("delete")

\* With another mask: the rules of just this cookie.
delete_cookie(c) ==
  LET D == {i \in Slots : stats[i] # NoStats /\ stats[i].cookie = c} IN
  /\ D # {}
  /\ fast_del_rule(D, None, ActionZero)
  /\ stats' = [i \in Slots \cup {Default} |->
                 IF i \in D THEN NoStats ELSE stats[i]]
  /\ History("delete")

handle_flow_mod_delete == delete_all \/ \E c \in Cookies : delete_cookie(c)

\* ofp_init; all that was known of the rules is gone.
ofp_init ==
  /\ init_rule(ToCpu)
  /\ stats' = [i \in Slots \cup {Default} |-> NoStats]
  /\ op' = "init"
  /\ was' = NoRules

Writes == fast_reg_wr /\ UNCHANGED <<stats, op, was>>

Init == /\ TableInit(ToCpu)
        /\ stats = [i \in Slots \cup {Default} |-> NoStats]
        /\ op = "init"
        /\ was = NoRules

Next == \/ \E c \in Adding, m \in ofp_flow_stats : handle_flow_mod_add(c, m)
        \/ handle_flow_mod_delete
        \/ ofp_init
        \/ Writes

Spec == Init /\ [][Next]_vars
-----------------------------------------------------------------------------
(* Properties *)

\* Packets that are looked up while a message is being handled are treated by
\* the table before it or by the one after it: never by a rule half written,
\* never by a new rule with the old action of its slot.  While rules are being
\* deleted their packets may also be dropped or fall to another of the rules.
\* Between messages the engine does what the statistics say; after a restart,
\* too, whatever was being written when the program died (write_rule_normal,
\* init_rule, handle_flow_mod_add, handle_flow_mod_delete).
Answer(t, k) == IF Matching(t, k) = {} THEN ToCpu ELSE fast_match_rule(t, k)

UpdatesSeenWhole ==
  /\ op # "init" =>
       \A k \in Keys :
         \/ HwAnswer(k) \in {Answer(was, k), Answer(View, k)}
         \/ /\ op = "delete"
            /\ \/ HwAnswer(k) = ACTION_DROP /\ Matching(was, k) # {}
               \/ HwAnswer(k) \in {was[i].action : i \in Matching(was, k)}
  /\ todo = <<>> => \A k \in Keys : HwAnswer(k) = Answer(View, k)

\* The answer to OFPMP_FLOW: the entry of the default action is among them.
handle_ofpmp_flow_stats == {i \in Slots \cup {Default} : stats[i] # NoStats}

\* Every flow the controller is told of is installed as its message said, on
\* the hardware's ports for the controller's: whatever was added, changed,
\* deleted or refused before.  The one that set the default action, which a
\* later one for it does not replace and no deletion removes, is what is done
\* with packets no rule matches (handle_flow_mod_add, handle_flow_mod_delete).
ReportedIsInstalled ==
  \A i \in handle_ofpmp_flow_stats :
    LET m == stats[i] IN
    IF i = Default
    THEN m.match.mask = 0 /\ (todo = <<>> => act[Default] = rule_action(m))
    ELSE /\ rules[i] = Rule(m, rules[i].key)
         /\ m.match.mask = 1 =>
              rules[i].key = get_phyport_by_logport(m.match.port)
=============================================================================
