----------------------------- MODULE RuleTable ------------------------------
(***************************************************************************)
(* librule on an OpenBox-S4: the software copy of the flow table and the   *)
(* registers of the match engine, written one after the other while the    *)
(* engine looks packets up.  A call changes the software table at once and *)
(* leaves `todo`, the register writes it makes in their order; the caller  *)
(* goes on when they are made.                                             *)
(*                                                                         *)
(* table.cnt is left out: it is counted up and never read.                 *)
(***************************************************************************)
EXTENDS RuleStore, Sequences, SequencesExt

VARIABLES rules,  \* table.rules
          hw,     \* the rule space of the match engine
          act,    \* the action registers, the default action among them
          todo    \* register writes of the call in progress

tableVars == <<rules, hw, act, todo>>

Default == FAST_RULE_CNT   \* FAST_DEFAULT_RULE_ADDR

zero_rule == [key |-> 0, mask |-> 0, prio |-> 0, valid |-> 0, action |-> 0,
              md5 |-> <<>>]
NoRules == [i \in Slots |-> zero_rule]

openbox_rule_reg_wr(i, w, v) == [reg |-> w, i |-> i, v |-> v]
openbox_action_reg_wr(i, v) == [reg |-> "action", i |-> i, v |-> v]

TableTypeOK ==
  /\ rules \in [Slots -> [key : Nat, mask : {0, 1}, prio : Nat,
                          valid : {0, 1}, action : Nat,
                          md5 : {<<>>} \cup (Nat \X {0, 1} \X Nat)]]
  /\ \A i \in Slots : rules[i].valid = 0 => rules[i] = zero_rule
  /\ hw \in [Slots -> [key : Nat, mask : {0, 1}, prio : Nat, valid : {0, 1}]]
  /\ act \in [Slots \cup {Default} -> Nat]
  /\ todo \in Seq([reg : {"key", "mask", "prio", "valid", "action"},
                   i : Slots \cup {Default}, v : Nat])

\* The two words of `ap`: the low half first, so the priority before valid.
ap(i, r) == <<openbox_rule_reg_wr(i, "prio", r.prio),
              openbox_rule_reg_wr(i, "valid", r.valid)>>

\* Mutant: a rule becomes valid before its action is written.
write_rule_action_last(i, r) ==
  IF r.valid = 0 THEN <<openbox_action_reg_wr(i, 0)>> \o ap(i, zero_rule)
  ELSE <<openbox_rule_reg_wr(i, "key", r.key),
         openbox_rule_reg_wr(i, "mask", r.mask)>>
       \o ap(i, r) \o <<openbox_action_reg_wr(i, r.action)>>

\* A valid rule: action, key, mask, and `ap` twice (in the loop and after it).
\* An invalid one: the action becomes ACTION_DROP before the rule goes; key
\* and mask stay in the hardware.
write_rule_normal(i, r) ==
  IF r.valid = 0 THEN <<openbox_action_reg_wr(i, 0)>> \o ap(i, zero_rule)
  ELSE <<openbox_action_reg_wr(i, r.action),
         openbox_rule_reg_wr(i, "key", r.key),
         openbox_rule_reg_wr(i, "mask", r.mask)>> \o ap(i, r) \o ap(i, r)

\* A call begins when the last one has made its writes.
Call(table, writes) ==
  /\ todo = <<>>
  /\ rules' = table
  /\ todo' = writes
  /\ UNCHANGED <<hw, act>>

\* fast_add_rule into the slot it has found, or fast_modify_rule, and the
\* writes the caller makes after it.
fast_write_rule(i, r, writes) ==
  Call([rules EXCEPT ![i] = r], write_rule_normal(i, r) \o writes)
fast_add_rule(r) == fast_write_rule(added_slot(rules, r.md5), r, <<>>)
fast_modify_rule(i, r, writes) == fast_write_rule(i, r, writes)

\* fast_del_rule of the slots in D, one after the other, each with the
\* writes the caller makes before and after it.
fast_del_rule(D, before, after) ==
  Call([i \in Slots |-> IF i \in D THEN zero_rule ELSE rules[i]],
       FlattenSeq([n \in 1 .. FAST_RULE_CNT |->
         IF n - 1 \notin D THEN <<>>
         ELSE before[n - 1] \o write_rule_normal(n - 1, zero_rule)
              \o after[n - 1]]))

\* The loops of init_rule: for every slot all its words, then its action.
Cleared(i) == <<openbox_rule_reg_wr(i, "key", 0),
                openbox_rule_reg_wr(i, "mask", 0)>>
              \o ap(i, zero_rule) \o <<openbox_action_reg_wr(i, 0)>>
init_writes(default_action) ==
  FlattenSeq([n \in 1 .. FAST_RULE_CNT |-> Cleared(n - 1)])
  \o <<openbox_action_reg_wr(Default, default_action)>>

\* Also what a program killed in the middle of a call begins again with.
init_rule(default_action) ==
  /\ rules' = NoRules
  /\ todo' = init_writes(default_action)
  /\ UNCHANGED <<hw, act>>

fast_reg_wr ==
  /\ todo # <<>>
  /\ todo' = Tail(todo)
  /\ LET w == Head(todo) IN
     IF w.reg = "action"
     THEN act' = [act EXCEPT ![w.i] = w.v] /\ UNCHANGED hw
     ELSE hw' = [hw EXCEPT ![w.i][w.reg] = w.v] /\ UNCHANGED act
  /\ UNCHANGED rules

\* The hardware is cleared at power-on; the program has called init_rule.
TableInit(default_action) ==
  /\ rules = NoRules
  /\ hw = [i \in Slots |-> [key |-> 0, mask |-> 0, prio |-> 0, valid |-> 0]]
  /\ act = [i \in Slots \cup {Default} |-> 0]
  /\ todo = init_writes(default_action)

\* The engine (external): the first valid rule that matches, in the order of
\* the slots, as fast_match_rule does in software.
HwMatching(k) == {i \in Slots : hw[i].valid = 1 /\ cmp_key32(hw[i], k)}
HwAnswer(k) == act[LeastOr(HwMatching(k), Default)]

\* No match is held by two slots, or deleting a rule would bring back an older
\* version of it (rule_exists, fast_add_rule).
OneSlotPerRule ==
  \A i, n \in Slots :
    rules[i].valid = 1 /\ rules[n].valid = 1 /\ rules[i].md5 = rules[n].md5
      => i = n
=============================================================================
