----------------------------- MODULE RuleStore ------------------------------
(***************************************************************************)
(* librule, the flow table as software keeps it: the search and the        *)
(* choice of an index, which read the table and write nothing.             *)
(*                                                                         *)
(* A key stands for the 64 bytes of a `struct flow`; a mask either looks   *)
(* at all of it (1) or at none of it (0).  md5 is the digest by which two  *)
(* rules are told apart, or the empty tuple where it is not filled in.     *)
(***************************************************************************)
EXTENDS Integers

CONSTANT FAST_RULE_CNT

ASSUME RuleCntAssumption == FAST_RULE_CNT \in Nat \ {0}

Slots == 0 .. FAST_RULE_CNT - 1
ACTION_DROP == 0
NoMatch == -1              \* 0xFFFFFFFF

Least(S) == CHOOSE i \in S : \A n \in S : i <= n
LeastOr(S, none) == IF S = {} THEN none ELSE Least(S)

\* (rule ^ key) & mask is zero.
cmp_key32(rule, key) == rule.mask = 0 \/ rule.key = key

Matching(t, key) == {i \in Slots : t[i].valid = 1 /\ cmp_key32(t[i], key)}

\* The first valid rule that matches answers, whatever the priorities.
fast_match_rule(t, key) == IF Matching(t, key) = {} THEN NoMatch
                           ELSE t[Least(Matching(t, key))].action

Holding(t, md5) == {i \in Slots : t[i].valid = 1 /\ t[i].md5 = md5}

\* Mutant: the walk ends at the first free slot.
rule_exists_to_hole(t, md5) ==
  LeastOr({i \in Holding(t, md5) : \A n \in Slots : n < i => t[n].valid = 1}, -1)

rule_exists(t, md5) == LeastOr(Holding(t, md5), -1)

\* The walk ends at the rule: a free slot behind it is not seen.
free_before(t, md5) ==
  LeastOr({i \in Slots : /\ t[i].valid # 1
                         /\ \A n \in Holding(t, md5) : i < n}, -1)

\* The slot fast_add_rule writes, or -1 when it writes none: the rule is there
\* already or the table is full.
added_slot(t, md5) == IF rule_exists(t, md5) # -1 THEN -1
                      ELSE free_before(t, md5)
=============================================================================
