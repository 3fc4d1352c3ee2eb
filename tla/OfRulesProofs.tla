--------------------------- MODULE OfRulesProofs ---------------------------
(***************************************************************************)
(* What is proved of the flow table and of what the controller is told of  *)
(* it, for every size of the table and every set of ports, priorities and  *)
(* cookies.                                                                *)
(***************************************************************************)
EXTENDS OfRules, SequenceTheorems, WellFoundedInduction, TLAPS

\* A set of slots that is not empty has a least one.
LEMMA LeastIn ==
  ASSUME NEW S \in SUBSET Slots, S # {}
  PROVE  Least(S) \in S /\ \A n \in S : Least(S) <= n
<1>1. S \subseteq Nat
  BY RuleCntAssumption DEF Slots
<1>2. PICK x \in S : \A y \in S : ~(<<y, x>> \in OpToRel(<, Nat))
  BY <1>1, NatLessThanWellFounded, WFMin
<1>3. ASSUME NEW y \in S PROVE x <= y
  <2>1. x \in Nat /\ y \in Nat
    BY <1>1
  <2>2. <<y, x>> \in Nat \X Nat /\ <<y, x>>[1] = y /\ <<y, x>>[2] = x
    BY <2>1
  <2>3. ~(y < x)
    BY <1>2, <2>2 DEF OpToRel
  <2>4. QED
    BY <2>1, <2>3
<1>4. QED
  BY <1>3 DEF Least

\* LeastOr is -1 for the empty set only.
LEMMA LeastOrIn ==
  ASSUME NEW S \in SUBSET Slots
  PROVE  /\ S = {} => LeastOr(S, -1) = -1
         /\ S # {} => LeastOr(S, -1) \in S /\ LeastOr(S, -1) # -1
<1>1. -1 \notin Slots
  BY RuleCntAssumption DEF Slots
<1>2. QED
  BY <1>1, LeastIn DEF LeastOr

\* rule_exists finds a slot of the rule if there is one.
LEMMA ExistsFinds ==
  ASSUME NEW t, NEW d
  PROVE  /\ rule_exists(t, d) = -1 => Holding(t, d) = {}
         /\ rule_exists(t, d) # -1 => rule_exists(t, d) \in Holding(t, d)
<1>1. Holding(t, d) \in SUBSET Slots
  BY DEF Holding
<1>2. QED
  BY <1>1, LeastOrIn DEF rule_exists

\* The slot fast_add_rule chooses is a free one, and no slot has the rule.
LEMMA AddedIsFree ==
  ASSUME NEW t, NEW d, added_slot(t, d) # -1
  PROVE  /\ added_slot(t, d) \in Slots /\ t[added_slot(t, d)].valid # 1
         /\ Holding(t, d) = {}
<1> DEFINE F == {i \in Slots : /\ t[i].valid # 1
                               /\ \A n \in Holding(t, d) : i < n}
<1>1. rule_exists(t, d) = -1 /\ added_slot(t, d) = LeastOr(F, -1)
  BY DEF added_slot, free_before
<1>2. F \in SUBSET Slots
  OBVIOUS
<1>3. LeastOr(F, -1) \in F
  BY <1>1, <1>2, LeastOrIn
<1>4. QED
  BY <1>1, <1>3, ExistsFinds

-----------------------------------------------------------------------------
(***************************************************************************)
(* What the handlers do to the table and to the statistics, without the    *)
(* registers.                                                              *)
(***************************************************************************)

TableInv == /\ rules = [i \in Slots |-> rules[i]]
            /\ OneSlotPerRule

\* A new rule goes to a free slot.
Added == \E m \in ofp_flow_stats, i \in Slots :
  /\ Holding(rules, md5(m)) = {}
  /\ rules' = [rules EXCEPT ![i] =
                 Rule(m, get_phyport_by_logport(m.match.port))]
  /\ stats' = [stats EXCEPT ![i] = m]

\* A rule that is there gets a new version in its slot.
Modified == \E m \in ofp_flow_stats, i \in Slots :
  /\ i \in Holding(rules, md5(m))
  /\ rules' = [rules EXCEPT ![i] = Rule(m, m.match.port)]
  /\ stats' = [stats EXCEPT ![i] = m]

\* Slots are emptied, and with them their statistics.
Deleted == \E D \in SUBSET Slots :
  /\ rules' = [i \in Slots |-> IF i \in D THEN zero_rule ELSE rules[i]]
  /\ \/ stats' = [i \in Slots \cup {Default} |->
                    IF i \in D THEN NoStats ELSE stats[i]]
     \/ \E i \in D : D = {i} /\ stats' = [stats EXCEPT ![i] = NoStats]

\* The statistics of all rules go, the rules stay.
Forgotten == /\ rules' = rules
             /\ stats' = [i \in Slots \cup {Default} |->
                            IF i \in Slots THEN NoStats ELSE stats[i]]

\* The default action is set: no rule is concerned.
Defaulted == /\ rules' = rules
             /\ \E m \in ofp_flow_stats :
                  stats' = [stats EXCEPT ![Default] = m]

Restarted == /\ rules' = NoRules
             /\ stats' = [i \in Slots \cup {Default} |-> NoStats]

\* Every step of the program is one of these, or leaves both alone.
LEMMA StepKinds ==
  ASSUME [Next]_vars
  PROVE  Added \/ Modified \/ Deleted \/ Forgotten \/ Defaulted \/ Restarted
         \/ (rules' = rules /\ stats' = stats)
<1>1. ASSUME NEW c \in Adding, NEW m \in ofp_flow_stats, set_default(m)
      PROVE  Defaulted
  BY <1>1 DEF set_default, Call, Defaulted
<1>2. ASSUME NEW c \in Adding, NEW m \in ofp_flow_stats, readd_flow(c, m)
      PROVE  Added
  <2>1. rules' = [rules EXCEPT ![added_slot(rules, md5(m))] =
                    Rule(m, get_phyport_by_logport(m.match.port))]
    BY <1>2 DEF readd_flow, fast_add_rule, fast_write_rule, Call, Rule
  <2>2. /\ added_slot(rules, md5(m)) \in Slots
        /\ Holding(rules, md5(m)) = {}
    BY <1>2, AddedIsFree DEF readd_flow
  <2>3. QED
    BY <1>2, <2>1, <2>2 DEF readd_flow, Added
<1>3. ASSUME NEW m \in ofp_flow_stats, modify_strict(m)
      PROVE  Modified
  <2>1. Idx(m) \in Holding(rules, md5(m)) /\ Idx(m) \in Slots
    BY <1>3, ExistsFinds DEF modify_strict, Known, Idx, Holding
  <2>2. rules' = [rules EXCEPT ![Idx(m)] = Rule(m, m.match.port)]
    BY <1>3 DEF modify_strict, fast_modify_rule, fast_write_rule, Call
  <2>3. QED
    BY <1>3, <2>1, <2>2 DEF modify_strict, Modified
<1>4. ASSUME NEW m \in ofp_flow_stats, delete_strict(m)
      PROVE  Deleted
  <2>1. Idx(m) \in Slots
    BY <1>4, ExistsFinds DEF delete_strict, Known, Idx, Holding
  <2>2. rules' = [i \in Slots |->
                    IF i \in {Idx(m)} THEN zero_rule ELSE rules[i]]
    BY <1>4 DEF delete_strict, fast_del_rule, Call
  <2>3. {Idx(m)} \in SUBSET Slots /\ Idx(m) \in {Idx(m)}
    BY <2>1
  <2>4. stats' = [stats EXCEPT ![Idx(m)] = NoStats]
    BY <1>4 DEF delete_strict
  <2>5. QED
    BY <2>2, <2>3, <2>4 DEF Deleted
<1>5. ASSUME delete_all PROVE Forgotten
  BY <1>5 DEF delete_all, Call, Forgotten
<1>6. ASSUME NEW c \in Cookies, delete_cookie(c) PROVE Deleted
  BY <1>6 DEF delete_cookie, fast_del_rule, Call, Deleted
<1>7. ASSUME ofp_init PROVE Restarted
  BY <1>7 DEF ofp_init, init_rule, Restarted
<1>8. ASSUME Writes PROVE rules' = rules /\ stats' = stats
  BY <1>8 DEF Writes, fast_reg_wr
<1>9. ASSUME UNCHANGED vars PROVE rules' = rules /\ stats' = stats
  BY <1>9 DEF vars, tableVars
<1>10. QED
  BY <1>1, <1>2, <1>3, <1>4, <1>5, <1>6, <1>7, <1>8, <1>9
     DEF Next, handle_flow_mod_add, handle_flow_mod_delete

-----------------------------------------------------------------------------
(***************************************************************************)
(* One slot for each rule.                                                 *)
(***************************************************************************)

LEMMA InitTable == Init => TableInv
  BY DEF Init, TableInit, TableInv, OneSlotPerRule, NoRules, zero_rule

LEMMA RuleFields ==
  ASSUME NEW m, NEW k
  PROVE  /\ Rule(m, k).md5 = md5(m) /\ Rule(m, k).key = k
         /\ Rule(m, k) = Rule(m, Rule(m, k).key)
  BY DEF Rule

\* A version of a rule written where only slots of that rule are is alone.
LEMMA PutAlone ==
  ASSUME TableInv, NEW i \in Slots, NEW r,
         \A n \in Slots : n # i => n \notin Holding(rules, r.md5),
         rules' = [rules EXCEPT ![i] = r]
  PROVE  TableInv'
<1>1. rules' = [n \in Slots |-> IF n = i THEN r ELSE rules[n]]
  BY DEF TableInv
<1>2. OneSlotPerRule'
  BY <1>1 DEF OneSlotPerRule, TableInv, Holding
<1>3. QED
  BY <1>1, <1>2 DEF TableInv

LEMMA StepTable == TableInv /\ [Next]_vars => TableInv'
<1> SUFFICES ASSUME TableInv, [Next]_vars PROVE TableInv'
  OBVIOUS
<1>1. CASE Added
  <2>1. PICK m \in ofp_flow_stats, i \in Slots :
          /\ Holding(rules, md5(m)) = {}
          /\ rules' = [rules EXCEPT ![i] =
                         Rule(m, get_phyport_by_logport(m.match.port))]
    BY <1>1 DEF Added
  <2>2. QED
    BY <2>1, PutAlone, RuleFields
<1>2. CASE Modified
  <2>1. PICK m \in ofp_flow_stats, i \in Slots :
          /\ i \in Holding(rules, md5(m))
          /\ rules' = [rules EXCEPT ![i] = Rule(m, m.match.port)]
    BY <1>2 DEF Modified
  <2> DEFINE r == Rule(m, m.match.port)
  <2>2. \A n \in Slots : n # i => n \notin Holding(rules, md5(m))
    BY <2>1 DEF TableInv, OneSlotPerRule, Holding
  <2>3. \A n \in Slots : n # i => n \notin Holding(rules, r.md5)
    BY <2>2, RuleFields
  <2>4. rules' = [rules EXCEPT ![i] = r]
    BY <2>1
  <2> HIDE DEF r
  <2>5. QED
    BY <2>3, <2>4, PutAlone
<1>3. CASE Deleted
  <2>1. PICK D \in SUBSET Slots :
          rules' = [i \in Slots |-> IF i \in D THEN zero_rule ELSE rules[i]]
    BY <1>3 DEF Deleted
  <2>2. QED
    BY <2>1 DEF TableInv, OneSlotPerRule, zero_rule
<1>4. CASE Restarted
  BY <1>4 DEF Restarted, TableInv, OneSlotPerRule, NoRules, zero_rule
<1>5. CASE rules' = rules
  BY <1>5 DEF TableInv, OneSlotPerRule
<1>6. QED
  BY <1>1, <1>2, <1>3, <1>4, <1>5, StepKinds DEF Forgotten, Defaulted

\* However rules are added, changed and deleted, through whatever slots that
\* became free in between, and also over restarts: no rule is held by two
\* slots (rule_exists, fast_add_rule, handle_flow_mod_add).
THEOREM NoRuleTwice == Spec => []OneSlotPerRule
<1>1. TableInv => OneSlotPerRule
  BY DEF TableInv
<1>2. QED
  BY <1>1, InitTable, StepTable, PTL DEF Spec

-----------------------------------------------------------------------------
(***************************************************************************)
(* The statistics say what is installed.                                   *)
(***************************************************************************)

\* Of the entries of rules; that of the default action comes at the end.
RulesReported ==
  \A i \in Slots : stats[i] # NoStats =>
    /\ rules[i] = Rule(stats[i], rules[i].key)
    /\ stats[i].match.mask = 1 =>
         rules[i].key = get_phyport_by_logport(stats[i].match.port)

ReportInv == /\ TableInv
             /\ stats = [i \in Slots \cup {Default} |-> stats[i]]
             /\ RulesReported

\* FAST_DEFAULT_RULE_ADDR is no slot of the table.
LEMMA DefaultNoSlot == Default \notin Slots
  BY RuleCntAssumption DEF Default, Slots

\* The obvious numbering of the ports: obx1 is the controller's port 1.
LEMMA PortsAsNumbered ==
  ASSUME FirstObx = 1, NEW m \in ofp_flow_stats, m.match.mask = 1
  PROVE  get_phyport_by_logport(m.match.port) = m.match.port
<1>1. m.match \in Match
  BY DEF ofp_flow_stats
<1>2. m.match.port \in LogPorts
  BY <1>1 DEF Match
<1>3. m.match.port \in 1 .. 9
  BY <1>2, OfAssumption
<1>4. QED
  BY <1>3 DEF get_phyport_by_logport

\* A version of a rule and its statistics written together agree.
LEMMA PutReported ==
  ASSUME ReportInv, TableInv', NEW i \in Slots, NEW m \in ofp_flow_stats,
         NEW k, m.match.mask = 1 => k = get_phyport_by_logport(m.match.port),
         rules' = [rules EXCEPT ![i] = Rule(m, k)],
         stats' = [stats EXCEPT ![i] = m]
  PROVE  ReportInv'
<1>1. rules' = [n \in Slots |-> IF n = i THEN Rule(m, k) ELSE rules[n]]
  BY DEF ReportInv, TableInv
<1>2. stats' = [n \in Slots \cup {Default} |-> IF n = i THEN m ELSE stats[n]]
  BY DEF ReportInv
<1>3. ASSUME NEW n \in Slots, stats'[n] # NoStats
      PROVE  /\ rules'[n] = Rule(stats'[n], rules'[n].key)
             /\ stats'[n].match.mask = 1 =>
                  rules'[n].key = get_phyport_by_logport(stats'[n].match.port)
  <2>1. CASE n = i
    <3>1. rules'[n] = Rule(m, k) /\ stats'[n] = m
      BY <1>1, <1>2, <2>1
    <3>2. QED
      BY <3>1, RuleFields
  <2>2. CASE n # i
    <3>1. rules'[n] = rules[n] /\ stats'[n] = stats[n]
      BY <1>1, <1>2, <2>2
    <3>2. QED
      BY <1>3, <3>1 DEF ReportInv, RulesReported
  <2>3. QED
    BY <2>1, <2>2
<1>4. RulesReported'
  BY <1>3 DEF RulesReported
<1>5. QED
  BY <1>2, <1>4 DEF ReportInv

\* Where no statistics appear and the rules of those that stay are kept.
LEMMA KeptReported ==
  ASSUME ReportInv, TableInv',
         stats' = [n \in Slots \cup {Default} |-> stats'[n]],
         \A n \in Slots : stats'[n] = NoStats
                            \/ (stats'[n] = stats[n] /\ rules'[n] = rules[n])
  PROVE  ReportInv'
<1>1. RulesReported'
  BY DEF ReportInv, RulesReported
<1>2. QED
  BY <1>1 DEF ReportInv

LEMMA StepReport ==
  ASSUME FirstObx = 1, ReportInv, [Next]_vars
  PROVE  ReportInv'
<1>1. TableInv'
  BY StepTable DEF ReportInv
<1>2. CASE Added
  <2>1. PICK m \in ofp_flow_stats, i \in Slots :
          /\ rules' = [rules EXCEPT ![i] =
                         Rule(m, get_phyport_by_logport(m.match.port))]
          /\ stats' = [stats EXCEPT ![i] = m]
    BY <1>2 DEF Added
  <2>2. QED
    BY <1>1, <2>1, PutReported
<1>3. CASE Modified
  <2>1. PICK m \in ofp_flow_stats, i \in Slots :
          /\ rules' = [rules EXCEPT ![i] = Rule(m, m.match.port)]
          /\ stats' = [stats EXCEPT ![i] = m]
    BY <1>3 DEF Modified
  <2>2. QED
    BY <1>1, <2>1, PutReported, PortsAsNumbered
<1>4. CASE Deleted
  <2>1. PICK D \in SUBSET Slots :
          /\ rules' = [i \in Slots |-> IF i \in D THEN zero_rule ELSE rules[i]]
          /\ \/ stats' = [i \in Slots \cup {Default} |->
                            IF i \in D THEN NoStats ELSE stats[i]]
             \/ \E i \in D : /\ D = {i}
                             /\ stats' = [stats EXCEPT ![i] = NoStats]
    BY <1>4 DEF Deleted
  <2>2. stats' = [i \in Slots \cup {Default} |->
                    IF i \in D THEN NoStats ELSE stats[i]]
    BY <2>1 DEF ReportInv
  <2>3. QED
    BY <1>1, <2>1, <2>2, KeptReported
<1>5. CASE Forgotten
  BY <1>1, <1>5, KeptReported DEF Forgotten
<1>6. CASE Defaulted
  <2>1. PICK m \in ofp_flow_stats : stats' = [stats EXCEPT ![Default] = m]
    BY <1>6 DEF Defaulted
  <2>2. stats' = [n \in Slots \cup {Default} |->
                    IF n = Default THEN m ELSE stats[n]]
    BY <2>1 DEF ReportInv
  <2>3. QED
    BY <1>1, <1>6, <2>2, DefaultNoSlot, KeptReported DEF Defaulted
<1>7. CASE Restarted
  BY <1>1, <1>7, KeptReported DEF Restarted
<1>8. CASE rules' = rules /\ stats' = stats
  BY <1>1, <1>8, KeptReported DEF ReportInv
<1>9. QED
  BY <1>2, <1>3, <1>4, <1>5, <1>6, <1>7, <1>8, StepKinds

LEMMA InitReport == Init => ReportInv
<1> SUFFICES ASSUME Init PROVE ReportInv
  OBVIOUS
<1>1. stats = [i \in Slots \cup {Default} |-> NoStats]
  BY DEF Init
<1>2. QED
  BY <1>1, InitTable DEF ReportInv, RulesReported

-----------------------------------------------------------------------------
(***************************************************************************)
(* The register writes of a call.  FlattenSeq is defined by recursion:     *)
(* what it leaves is proved by induction over the length.                  *)
(***************************************************************************)

\* Induction over the numbers, for a set instead of a predicate.
LEMMA AllNumbers ==
  ASSUME NEW S \in SUBSET Nat, 0 \in S, \A n \in S : n + 1 \in S
  PROVE  S = Nat
<1> SUFFICES ASSUME Nat \ S # {} PROVE FALSE
  OBVIOUS
<1>1. PICK x \in Nat \ S : \A y \in Nat \ S : ~(<<y, x>> \in OpToRel(<, Nat))
  BY NatLessThanWellFounded, WFMin
<1>2. x # 0 /\ x - 1 \in Nat /\ x - 1 < x /\ (x - 1) + 1 = x
  OBVIOUS
<1>3. <<x - 1, x>> \in OpToRel(<, Nat)
  <2>1. /\ <<x - 1, x>> \in Nat \X Nat
        /\ <<x - 1, x>>[1] = x - 1 /\ <<x - 1, x>>[2] = x
    BY <1>2
  <2>2. QED
    BY <1>2, <2>1 DEF OpToRel
<1>4. x - 1 \in S
  BY <1>1, <1>2, <1>3
<1>5. QED
  BY <1>2, <1>4

\* f joins the first k sequences of s one after the other.
Joined(s, i, f) == IF i = 1 THEN s[i] ELSE f[i - 1] \o s[i]
Joins(s, k, f) == f = [i \in 1 .. k |-> Joined(s, i, f)]

LEMMA JoinsMore ==
  ASSUME NEW s, NEW n \in Nat, NEW f, Joins(s, n, f)
  PROVE  Joins(s, n + 1, [i \in 1 .. n + 1 |-> Joined(s, i, f)])
<1> DEFINE g == [i \in 1 .. n + 1 |-> Joined(s, i, f)]
<1>1. ASSUME NEW i \in 1 .. n PROVE g[i] = f[i]
  <2>1. f[i] = Joined(s, i, f)
    BY DEF Joins
  <2>2. i \in 1 .. n + 1
    OBVIOUS
  <2>3. QED
    BY <2>1, <2>2
<1>2. ASSUME NEW i \in 1 .. n + 1 PROVE Joined(s, i, g) = Joined(s, i, f)
  <2> HIDE DEF g
  <2>1. i # 1 => i - 1 \in 1 .. n
    OBVIOUS
  <2>2. QED
    BY <1>1, <2>1 DEF Joined
<1>3. g = [i \in 1 .. n + 1 |-> Joined(s, i, f)]
  OBVIOUS
<1> HIDE DEF g
<1>4. g = [i \in 1 .. n + 1 |-> Joined(s, i, g)]
  BY <1>2, <1>3
<1>5. QED
  BY <1>4 DEF Joins, g

\* The recursive function of FlattenSeq exists.
LEMMA JoinExists ==
  ASSUME NEW s, NEW k \in Nat
  PROVE  \E f : Joins(s, k, f)
<1> DEFINE S == {n \in Nat : \E f : Joins(s, n, f)}
<1>1. 0 \in S
  <2>1. Joins(s, 0, [i \in 1 .. 0 |-> s])
    BY DEF Joins
  <2>2. QED
    BY <2>1
<1>2. ASSUME NEW n \in S PROVE n + 1 \in S
  <2>1. n \in Nat /\ n + 1 \in Nat
    OBVIOUS
  <2>2. PICK f : Joins(s, n, f)
    OBVIOUS
  <2>3. \E g : Joins(s, n + 1, g)
    BY <2>1, <2>2, JoinsMore
  <2>4. QED
    BY <2>1, <2>3
<1>3. S \in SUBSET Nat
  OBVIOUS
<1> HIDE DEF S
<1>4. S = Nat
  BY <1>1, <1>2, <1>3, AllNumbers
<1>5. QED
  BY <1>4 DEF S

\* What is joined: a sequence, of the elements of the sequences.
Holds(s, n, x) == \E m \in 1 .. n : \E q \in 1 .. Len(s[m]) : x = s[m][q]
Has(t, x) == \E p \in 1 .. Len(t) : x = t[p]
Whole(T, s, n, t) == t \in Seq(T) /\ \A x : Has(t, x) <=> Holds(s, n, x)

LEMMA ConcatHas ==
  ASSUME NEW T, NEW t \in Seq(T), NEW u \in Seq(T), NEW x
  PROVE  Has(t \o u, x) <=> Has(t, x) \/ Has(u, x)
<1>1. /\ Len(t) \in Nat /\ Len(u) \in Nat /\ Len(t \o u) = Len(t) + Len(u)
      /\ \A p \in 1 .. Len(t \o u) :
           (t \o u)[p] = IF p <= Len(t) THEN t[p] ELSE u[p - Len(t)]
  OBVIOUS
<1>2. ASSUME NEW p \in 1 .. Len(t) PROVE Has(t \o u, t[p])
  <2>1. p \in 1 .. Len(t \o u) /\ (t \o u)[p] = t[p]
    BY <1>1
  <2>2. QED
    BY <2>1 DEF Has
<1>3. ASSUME NEW p \in 1 .. Len(u) PROVE Has(t \o u, u[p])
  <2>1. Len(t) + p \in 1 .. Len(t \o u) /\ (t \o u)[Len(t) + p] = u[p]
    BY <1>1
  <2>2. QED
    BY <2>1 DEF Has
<1>4. ASSUME NEW p \in 1 .. Len(t \o u)
      PROVE  Has(t, (t \o u)[p]) \/ Has(u, (t \o u)[p])
  <2>1. CASE p <= Len(t)
    BY <1>1, <2>1 DEF Has
  <2>2. CASE ~(p <= Len(t))
    <3>1. p - Len(t) \in 1 .. Len(u) /\ (t \o u)[p] = u[p - Len(t)]
      BY <1>1, <2>2
    <3>2. QED
      BY <3>1 DEF Has
  <2>3. QED
    BY <2>1, <2>2
<1>5. ASSUME Has(t \o u, x) PROVE Has(t, x) \/ Has(u, x)
  <2>1. PICK p \in 1 .. Len(t \o u) : x = (t \o u)[p]
    BY <1>5 DEF Has
  <2>2. QED
    BY <1>4, <2>1
<1>6. ASSUME Has(t, x) PROVE Has(t \o u, x)
  <2>1. PICK p \in 1 .. Len(t) : x = t[p]
    BY <1>6 DEF Has
  <2>2. QED
    BY <1>2, <2>1
<1>7. ASSUME Has(u, x) PROVE Has(t \o u, x)
  <2>1. PICK p \in 1 .. Len(u) : x = u[p]
    BY <1>7 DEF Has
  <2>2. QED
    BY <1>3, <2>1
<1>8. QED
  BY <1>5, <1>6, <1>7

LEMMA JoinWhole ==
  ASSUME NEW T, NEW k \in Nat, NEW s \in [1 .. k -> Seq(T)], NEW f,
         Joins(s, k, f), NEW n \in 1 .. k
  PROVE  Whole(T, s, n, f[n])
<1> DEFINE S == {i \in Nat : i \in 1 .. k => Whole(T, s, i, f[i])}
<1>0. \A i \in 1 .. k : f[i] = Joined(s, i, f)
  BY DEF Joins
<1>1. 0 \in S
  OBVIOUS
<1>2. ASSUME NEW i \in S PROVE i + 1 \in S
  <2> SUFFICES ASSUME i + 1 \in 1 .. k PROVE Whole(T, s, i + 1, f[i + 1])
    OBVIOUS
  <2>1. i \in Nat /\ s[i + 1] \in Seq(T)
    OBVIOUS
  <2>2. CASE i = 0
    <3>0. i + 1 = 1 /\ 1 \in 1 .. k
      BY <2>2
    <3>1. f[1] = s[1] /\ 1 .. 1 = {1} /\ s[1] \in Seq(T)
      BY <1>0, <3>0 DEF Joined
    <3>2. Whole(T, s, 1, f[1])
      BY <3>1 DEF Whole, Holds, Has
    <3>3. QED
      BY <3>0, <3>2
  <2>3. CASE i # 0
    <3>1. i \in 1 .. k /\ i + 1 # 1 /\ (i + 1) - 1 = i
      BY <2>1, <2>3
    <3>2. Whole(T, s, i, f[i])
      BY <3>1
    <3>3. f[i + 1] = f[i] \o s[i + 1]
      BY <1>0, <3>1 DEF Joined
    <3>4. f[i] \in Seq(T) /\ f[i + 1] \in Seq(T)
      BY <2>1, <3>2, <3>3 DEF Whole
    <3>5. ASSUME NEW x PROVE Has(f[i + 1], x) <=> Holds(s, i + 1, x)
      <4>1. Has(f[i + 1], x) <=> Has(f[i], x) \/ Has(s[i + 1], x)
        BY <2>1, <3>3, <3>4, ConcatHas
      <4>2. 1 .. i + 1 = (1 .. i) \cup {i + 1}
        BY <2>1
      <4>3. Holds(s, i + 1, x) <=> Holds(s, i, x) \/ Has(s[i + 1], x)
        BY <4>2 DEF Holds, Has
      <4>4. QED
        BY <3>2, <4>1, <4>3 DEF Whole
    <3>6. QED
      BY <3>4, <3>5 DEF Whole
  <2>4. QED
    BY <2>2, <2>3
<1>3. S \in SUBSET Nat
  OBVIOUS
<1> HIDE DEF S
<1>4. S = Nat
  BY <1>1, <1>2, <1>3, AllNumbers
<1>5. n \in S
  BY <1>4
<1>6. QED
  BY <1>5 DEF S

\* FlattenSeq keeps the elements: what it is needed for here.
LEMMA Flattened ==
  ASSUME NEW T, NEW k \in Nat \ {0}, NEW s \in [1 .. k -> Seq(T)]
  PROVE  Whole(T, s, k, FlattenSeq(s))
<1>1. Len(s) = k
  OBVIOUS
<1> DEFINE h == CHOOSE f : f = [i \in 1 .. Len(s) |->
                       IF i = 1 THEN s[i] ELSE f[i - 1] \o s[i]]
<1>2. Joins(s, k, h)
  BY <1>1, JoinExists DEF Joins, Joined
<1>3. FlattenSeq(s) = h[k]
  BY <1>1 DEF FlattenSeq
<1> HIDE DEF h
<1>4. QED
  BY <1>2, <1>3, JoinWhole

-----------------------------------------------------------------------------
(***************************************************************************)
(* Types.  A register is written with what fits it.                        *)
(***************************************************************************)

RuleType == [key : Nat, mask : {0, 1}, prio : Nat, valid : {0, 1},
             action : Nat, md5 : {<<>>} \cup (Nat \X {0, 1} \X Nat)]
RegWrite == {w \in [reg : {"key", "mask", "prio", "valid", "action"},
                    i : Slots \cup {Default}, v : Nat] :
               /\ w.reg \in {"mask", "valid"} => w.v \in {0, 1}
               /\ w.reg # "action" => w.i \in Slots}
TypeInv == TypeOK /\ todo \in Seq(RegWrite)

(***************************************************************************)
(* What a packet meets while registers are written.                        *)
(***************************************************************************)

\* With port numbers as the controller has them the digest says which packets
\* a rule matches.
MatchByDigest ==
  \A i \in Slots : rules[i].valid = 1 => /\ rules[i].key = rules[i].md5[1]
                                         /\ rules[i].mask = rules[i].md5[2]

\* The engine does with the packets of slot i what table t says.
Agrees(i, t) ==
  /\ hw[i].valid = t[i].valid
  /\ t[i].valid = 1 => /\ hw[i].key = t[i].key /\ hw[i].mask = t[i].mask
                       /\ act[i] = t[i].action

Pending(reg, i) == \E p \in 1 .. Len(todo) : todo[p].reg = reg /\ todo[p].i = i

\* The write of a register that is still to come comes before the rule of the
\* slot is made valid.
BeforeValid(reg) ==
  \E q \in 1 .. Len(todo) :
    /\ todo[q].reg = reg
    /\ \A p \in 1 .. Len(todo) : todo[p].reg = "valid" => q < p

DefaultInv ==
  /\ \A p \in 1 .. Len(todo) : todo[p].i = Default => todo[p].v = ToCpu
  /\ act[Default] = ToCpu \/ (op = "init" /\ Pending("action", Default))

Initialising ==
  /\ \A n \in Slots : rules[n].valid = 0
  /\ \A p \in 1 .. Len(todo) : todo[p].reg = "valid" => todo[p].v = 0
  /\ \A n \in Slots : hw[n].valid = 0 \/ Pending("valid", n)

\* A new version in the slot of the old one: the packets are the same.
Replacing(i) ==
  /\ was[i].valid = 1 /\ hw[i].valid = 1
  /\ was[i].key = rules[i].key /\ hw[i].key = rules[i].key
  /\ was[i].mask = rules[i].mask /\ hw[i].mask = rules[i].mask
  /\ \/ act[i] = rules[i].action
     \/ act[i] = was[i].action /\ Pending("action", i)

\* A new rule in a free slot: valid when all the rest is written.
Filling(i) ==
  /\ was[i].valid = 0
  /\ hw[i].valid = 1 => Agrees(i, rules)
  /\ hw[i].valid = 1 \/ Pending("valid", i)
  /\ hw[i].key = rules[i].key \/ BeforeValid("key")
  /\ hw[i].mask = rules[i].mask \/ BeforeValid("mask")
  /\ act[i] = rules[i].action \/ BeforeValid("action")

Writing(i) ==
  /\ \A p \in 1 .. Len(todo) : /\ todo[p].i = i
                               /\ i \in Slots => todo[p].v = rules[i][todo[p].reg]
  /\ \A n \in Slots \ {i} : Agrees(n, View) /\ Agrees(n, was)
  /\ i \in Slots => /\ rules[i].valid = 1 /\ stats[i] # NoStats
                    /\ Replacing(i) \/ Filling(i)

\* Whatever the order in which actions are cleared and rules taken away.
Deleting ==
  /\ \A p \in 1 .. Len(todo) :
       /\ todo[p].i \in Slots /\ todo[p].v = 0
       /\ todo[p].reg \in {"action", "prio", "valid"}
       /\ todo[p].reg = "valid" => rules[todo[p].i].valid = 0
       /\ todo[p].reg = "action" => View[todo[p].i].action = ACTION_DROP
  /\ \A n \in Slots :
       /\ hw[n].valid = 1 =>
            /\ was[n].valid = 1
            /\ hw[n].key = was[n].key /\ hw[n].mask = was[n].mask
            /\ act[n] \in {was[n].action, ACTION_DROP}
            /\ rules[n].valid = 0 => Pending("valid", n)
       /\ rules[n].valid = 1 =>
            /\ hw[n].valid = 1
            /\ rules[n].key = was[n].key /\ rules[n].mask = was[n].mask
            /\ act[n] = View[n].action \/ Pending("action", n)

SeenInv ==
  /\ TypeInv
  /\ MatchByDigest
  /\ DefaultInv
  /\ op = "init" => Initialising
  /\ op = "write" => \E i \in Slots \cup {Default} : Writing(i)
  /\ op = "delete" => Deleting

-----------------------------------------------------------------------------
LEMMA StatsTypes ==
  ASSUME NEW m \in ofp_flow_stats
  PROVE  /\ m.match.port \in Nat /\ m.match.mask \in {0, 1} /\ m.prio \in Nat
         /\ get_phyport_by_logport(m.match.port) \in Nat
         /\ rule_action(m) \in Nat
         /\ md5(m) \in Nat \X {0, 1} \X Nat
<1>1. /\ m.match \in Match /\ m.prio \in Nat
      /\ m.out \in LogPorts \cup {CONTROLLER, NoOutput}
  BY OfAssumption DEF ofp_flow_stats
<1>2. /\ m.match.port \in {0} \cup LogPorts /\ m.match.mask \in {0, 1}
  BY <1>1 DEF Match
<1>3. ASSUME NEW p \in {0} \cup LogPorts
      PROVE  p \in Nat /\ get_phyport_by_logport(p) \in Nat
  <2>1. p \in {0} \cup 1 .. 9 /\ FirstObx \in Nat
    BY OfAssumption
  <2>2. QED
    BY <2>1 DEF get_phyport_by_logport
<1>4. rule_action(m) \in Nat
  <2>1. CASE m.out = NoOutput
    BY <2>1 DEF rule_action, ACTION_DROP, NoOutput, CONTROLLER
  <2>2. CASE m.out # NoOutput /\ m.out = CONTROLLER
    BY <2>2 DEF rule_action, ToCpu, NoOutput, CONTROLLER
  <2>3. CASE m.out # NoOutput /\ m.out # CONTROLLER
    <3>1. rule_action(m) = 3 * 16 + get_phyport_by_logport(m.out)
      BY <2>3 DEF rule_action, ACTION_PORT
    <3>2. get_phyport_by_logport(m.out) \in Nat
      BY <1>1, <1>3, <2>3
    <3>3. QED
      BY <3>1, <3>2
  <2>4. QED
    BY <2>1, <2>2, <2>3
<1>5. QED
  BY <1>1, <1>2, <1>3, <1>4 DEF md5

LEMMA RuleTyped ==
  ASSUME NEW m \in ofp_flow_stats, NEW k \in Nat
  PROVE  Rule(m, k) \in RuleType
  BY StatsTypes DEF Rule, RuleType

LEMMA ZeroTyped == zero_rule \in RuleType
  BY DEF zero_rule, RuleType

LEMMA Joined7 ==
  ASSUME NEW S, NEW a \in S, NEW b \in S, NEW c \in S, NEW d \in S, NEW e \in S,
         NEW L, L = <<a, b, c>> \o <<d, e>> \o <<d, e>>
  PROVE  /\ L \in Seq(S) /\ Len(L) = 7
         /\ L[1] = a /\ L[2] = b /\ L[3] = c /\ L[4] = d /\ L[5] = e
         /\ L[6] = d /\ L[7] = e
  OBVIOUS

LEMMA Joined3 ==
  ASSUME NEW S, NEW a \in S, NEW d \in S, NEW e \in S,
         NEW L, L = <<a>> \o <<d, e>>
  PROVE  /\ L \in Seq(S) /\ Len(L) = 3
         /\ L[1] = a /\ L[2] = d /\ L[3] = e
  OBVIOUS

\* The registers of a valid rule, one by one.
LEMMA RuleWrites ==
  ASSUME NEW i \in Slots, NEW r \in RuleType, r.valid = 1
  PROVE  LET L == write_rule_normal(i, r) IN
         /\ L \in Seq(RegWrite) /\ Len(L) = 7
         /\ L[1] = [reg |-> "action", i |-> i, v |-> r.action]
         /\ L[2] = [reg |-> "key", i |-> i, v |-> r.key]
         /\ L[3] = [reg |-> "mask", i |-> i, v |-> r.mask]
         /\ L[4] = [reg |-> "prio", i |-> i, v |-> r.prio]
         /\ L[5] = [reg |-> "valid", i |-> i, v |-> r.valid]
         /\ L[6] = [reg |-> "prio", i |-> i, v |-> r.prio]
         /\ L[7] = [reg |-> "valid", i |-> i, v |-> r.valid]
<1> DEFINE w(reg, v) == [reg |-> reg, i |-> i, v |-> v]
<1>1. /\ w("action", r.action) \in RegWrite /\ w("key", r.key) \in RegWrite
      /\ w("mask", r.mask) \in RegWrite /\ w("prio", r.prio) \in RegWrite
      /\ w("valid", r.valid) \in RegWrite
  BY DEF RegWrite, RuleType
<1>2. write_rule_normal(i, r) =
        <<w("action", r.action), w("key", r.key), w("mask", r.mask)>>
        \o <<w("prio", r.prio), w("valid", r.valid)>>
        \o <<w("prio", r.prio), w("valid", r.valid)>>
  BY DEF write_rule_normal, ap, openbox_rule_reg_wr, openbox_action_reg_wr
<1> HIDE DEF w
<1>3. LET L == write_rule_normal(i, r) IN
      /\ L \in Seq(RegWrite) /\ Len(L) = 7
      /\ L[1] = w("action", r.action) /\ L[2] = w("key", r.key)
      /\ L[3] = w("mask", r.mask) /\ L[4] = w("prio", r.prio)
      /\ L[5] = w("valid", r.valid) /\ L[6] = w("prio", r.prio)
      /\ L[7] = w("valid", r.valid)
  BY <1>1, <1>2, Joined7
<1>4. QED
  BY <1>3 DEF w

\* The registers of a rule that goes.
LEMMA NoRuleWrites ==
  ASSUME NEW i \in Slots
  PROVE  LET L == write_rule_normal(i, zero_rule) IN
         /\ L \in Seq(RegWrite)
         /\ \A w : Has(L, w) <=>
              \E reg \in {"action", "prio", "valid"} :
                w = [reg |-> reg, i |-> i, v |-> 0]
<1> DEFINE w(reg) == [reg |-> reg, i |-> i, v |-> 0]
<1>1. /\ w("action") \in RegWrite
      /\ w("prio") \in RegWrite /\ w("valid") \in RegWrite
  BY DEF RegWrite
<1>2. write_rule_normal(i, zero_rule) =
        <<w("action")>> \o <<w("prio"), w("valid")>>
  BY DEF write_rule_normal, ap, openbox_rule_reg_wr, openbox_action_reg_wr,
         zero_rule
<1> HIDE DEF w
<1>3. LET L == write_rule_normal(i, zero_rule) IN
      /\ L \in Seq(RegWrite) /\ Len(L) = 3
      /\ L[1] = w("action") /\ L[2] = w("prio") /\ L[3] = w("valid")
  BY <1>1, <1>2, Joined3
<1>4. ASSUME NEW x
      PROVE  Has(write_rule_normal(i, zero_rule), x) <=>
               x = w("action") \/ x = w("prio") \/ x = w("valid")
  <2>1. 1 .. 3 = {1, 2, 3}
    OBVIOUS
  <2>2. QED
    BY <1>3, <2>1 DEF Has
<1>5. QED
  BY <1>3, <1>4 DEF w

\* What is pending when the rules of the slots in D are deleted.
DelWrites(D, before, after) ==
  FlattenSeq([n \in 1 .. FAST_RULE_CNT |->
    IF n - 1 \notin D THEN <<>>
    ELSE before[n - 1] \o write_rule_normal(n - 1, zero_rule) \o after[n - 1]])

LEMMA ActionWrite ==
  ASSUME NEW i \in Slots \cup {Default}, NEW v \in Nat,
         NEW L, L = <<openbox_action_reg_wr(i, v)>>
  PROVE  /\ L \in Seq(RegWrite)
         /\ \A w : Has(L, w) <=> w = [reg |-> "action", i |-> i, v |-> v]
<1> DEFINE w == [reg |-> "action", i |-> i, v |-> v]
<1>1. w \in RegWrite
  BY DEF RegWrite
<1>2. openbox_action_reg_wr(i, v) = w
  BY DEF openbox_action_reg_wr
<1> HIDE DEF w
<1>3. <<w>> \in Seq(RegWrite) /\ Len(<<w>>) = 1 /\ <<w>>[1] = w
  BY <1>1
<1>4. \A x : Has(<<w>>, x) <=> x = w
  BY <1>3 DEF Has
<1>5. QED
  BY <1>2, <1>3, <1>4 DEF w

LEMMA NoWrite == <<>> \in Seq(RegWrite) /\ \A w : ~Has(<<>>, w)
  BY DEF Has

\* The writes around the deletion of one rule.
LEMMA AroundDelete ==
  ASSUME NEW b \in {ActionZero, None}, NEW i \in Slots
  PROVE  /\ b[i] \in Seq(RegWrite)
         /\ \A w : Has(b[i], w) => w = [reg |-> "action", i |-> i, v |-> 0]
<1>1. b[i] = <<openbox_action_reg_wr(i, 0)>> \/ b[i] = <<>>
  BY DEF ActionZero, None, ACTION_DROP
<1>2. 0 \in Nat /\ i \in Slots \cup {Default}
  OBVIOUS
<1>3. CASE b[i] = <<openbox_action_reg_wr(i, 0)>>
  BY <1>2, <1>3, ActionWrite
<1>4. CASE b[i] = <<>>
  BY <1>4, NoWrite, Zenon
<1>5. QED
  BY <1>1, <1>3, <1>4

LEMMA DelWritesAre ==
  ASSUME NEW D \in SUBSET Slots,
         NEW before \in {ActionZero, None}, NEW after \in {ActionZero, None},
         NEW L, L = DelWrites(D, before, after)
  PROVE  /\ L \in Seq(RegWrite)
         /\ \A w : Has(L, w) =>
              \E i \in D, reg \in {"action", "prio", "valid"} :
                w = [reg |-> reg, i |-> i, v |-> 0]
         /\ \A i \in D, reg \in {"action", "valid"} :
              Has(L, [reg |-> reg, i |-> i, v |-> 0])
<1> DEFINE part(i) == before[i] \o write_rule_normal(i, zero_rule) \o after[i]
           s == [n \in 1 .. FAST_RULE_CNT |->
                   IF n - 1 \notin D THEN <<>> ELSE part(n - 1)]
<1>1. ASSUME NEW i \in Slots
      PROVE  /\ part(i) \in Seq(RegWrite)
             /\ \A w : Has(part(i), w) <=>
                  \E reg \in {"action", "prio", "valid"} :
                    w = [reg |-> reg, i |-> i, v |-> 0]
  <2> DEFINE a == before[i]  b == write_rule_normal(i, zero_rule)
             c == after[i]
  <2>1. /\ a \in Seq(RegWrite) /\ b \in Seq(RegWrite) /\ c \in Seq(RegWrite)
        /\ \A w : Has(a, w) => w = [reg |-> "action", i |-> i, v |-> 0]
        /\ \A w : Has(c, w) => w = [reg |-> "action", i |-> i, v |-> 0]
        /\ \A w : Has(b, w) <=>
             \E reg \in {"action", "prio", "valid"} :
               w = [reg |-> reg, i |-> i, v |-> 0]
    BY AroundDelete, NoRuleWrites
  <2>2. part(i) = (a \o b) \o c
    OBVIOUS
  <2> HIDE DEF a, b, c, part
  <2>3. a \o b \in Seq(RegWrite) /\ (a \o b) \o c \in Seq(RegWrite)
    BY <2>1
  <2>4. \A w : Has((a \o b) \o c, w) <=> Has(a, w) \/ Has(b, w) \/ Has(c, w)
    BY <2>1, <2>3, ConcatHas
  <2>5. QED
    BY <2>1, <2>2, <2>3, <2>4
<1> HIDE DEF part
<1>2. FAST_RULE_CNT \in Nat \ {0} /\ \A n \in 1 .. FAST_RULE_CNT : n - 1 \in Slots
  BY RuleCntAssumption DEF Slots
<1>3. s \in [1 .. FAST_RULE_CNT -> Seq(RegWrite)]
  BY <1>1, <1>2, NoWrite
<1>4. L = FlattenSeq(s)
  BY DEF DelWrites, part
<1>5. ASSUME NEW n \in 1 .. FAST_RULE_CNT
      PROVE  s[n] = IF n - 1 \notin D THEN <<>> ELSE part(n - 1)
  OBVIOUS
<1> HIDE DEF s
<1>6. L \in Seq(RegWrite) /\ \A w : Has(L, w) <=> Holds(s, FAST_RULE_CNT, w)
  BY <1>2, <1>3, <1>4, Flattened DEF Whole
<1>7. \A w : Holds(s, FAST_RULE_CNT, w) <=>
               \E n \in 1 .. FAST_RULE_CNT : Has(s[n], w)
  BY DEF Holds, Has
<1>8. ASSUME NEW w, Has(L, w)
      PROVE  \E i \in D, reg \in {"action", "prio", "valid"} :
               w = [reg |-> reg, i |-> i, v |-> 0]
  <2>1. PICK n \in 1 .. FAST_RULE_CNT : Has(s[n], w)
    BY <1>6, <1>7, <1>8
  <2>2. n - 1 \in D /\ Has(part(n - 1), w)
    BY <1>5, <2>1, NoWrite
  <2>3. QED
    BY <1>1, <2>2
<1>9. ASSUME NEW i \in D, NEW reg \in {"action", "valid"}
      PROVE  Has(L, [reg |-> reg, i |-> i, v |-> 0])
  <2>1. i + 1 \in 1 .. FAST_RULE_CNT /\ (i + 1) - 1 = i /\ i \in Slots
    BY <1>2 DEF Slots
  <2>2. s[i + 1] = part(i)
    BY <1>5, <2>1
  <2>3. Has(part(i), [reg |-> reg, i |-> i, v |-> 0])
    BY <1>1, <2>1
  <2>4. QED
    BY <1>6, <1>7, <2>1, <2>2, <2>3
<1>10. QED
  BY <1>6, <1>8, <1>9

LEMMA ActionsZeroed ==
  ASSUME NEW L, L = FlattenSeq([n \in 1 .. FAST_RULE_CNT |-> ActionZero[n - 1]])
  PROVE  /\ L \in Seq(RegWrite)
         /\ \A w : Has(L, w) <=>
              \E i \in Slots : w = [reg |-> "action", i |-> i, v |-> 0]
<1> DEFINE s == [n \in 1 .. FAST_RULE_CNT |-> ActionZero[n - 1]]
<1>1. FAST_RULE_CNT \in Nat \ {0} /\ \A n \in 1 .. FAST_RULE_CNT : n - 1 \in Slots
  BY RuleCntAssumption DEF Slots
<1>2. ASSUME NEW n \in 1 .. FAST_RULE_CNT
      PROVE  /\ s[n] \in Seq(RegWrite)
             /\ \A w : Has(s[n], w) <=>
                         w = [reg |-> "action", i |-> n - 1, v |-> 0]
  <2>1. s[n] = <<openbox_action_reg_wr(n - 1, 0)>>
    BY <1>1 DEF ActionZero, ACTION_DROP
  <2>2. 0 \in Nat /\ n - 1 \in Slots \cup {Default}
    BY <1>1
  <2> HIDE DEF s
  <2>3. QED
    BY <2>1, <2>2, ActionWrite
<1>3. s \in [1 .. FAST_RULE_CNT -> Seq(RegWrite)]
  BY <1>2
<1>4. L = FlattenSeq(s)
  OBVIOUS
<1> HIDE DEF s
<1>5. L \in Seq(RegWrite) /\ \A w : Has(L, w) <=> Holds(s, FAST_RULE_CNT, w)
  BY <1>1, <1>3, <1>4, Flattened DEF Whole
<1>6. \A w : Holds(s, FAST_RULE_CNT, w) <=>
               \E n \in 1 .. FAST_RULE_CNT : Has(s[n], w)
  BY DEF Holds, Has
<1>7. ASSUME NEW i \in Slots
      PROVE  i + 1 \in 1 .. FAST_RULE_CNT /\ (i + 1) - 1 = i
  BY <1>1 DEF Slots
<1>8. ASSUME NEW i \in Slots, NEW w
      PROVE  Has(s[i + 1], w) <=> w = [reg |-> "action", i |-> i, v |-> 0]
  <2>1. i + 1 \in 1 .. FAST_RULE_CNT /\ (i + 1) - 1 = i
    BY <1>7
  <2>2. Has(s[i + 1], w) <=>
          w = [reg |-> "action", i |-> (i + 1) - 1, v |-> 0]
    BY <1>2, <2>1
  <2>3. QED
    BY <2>1, <2>2
<1>9. ASSUME NEW w, Has(L, w)
      PROVE  \E i \in Slots : w = [reg |-> "action", i |-> i, v |-> 0]
  <2>1. PICK n \in 1 .. FAST_RULE_CNT : Has(s[n], w)
    BY <1>5, <1>6, <1>9
  <2>2. QED
    BY <1>1, <1>2, <2>1
<1>10. ASSUME NEW i \in Slots
       PROVE  Has(L, [reg |-> "action", i |-> i, v |-> 0])
  BY <1>5, <1>6, <1>7, <1>8
<1>11. QED
  BY <1>5, <1>9, <1>10

LEMMA Joined5 ==
  ASSUME NEW S, NEW a \in S, NEW b \in S, NEW c \in S, NEW d \in S, NEW e \in S,
         NEW L, L = <<a, b>> \o <<c, d>> \o <<e>>
  PROVE  /\ L \in Seq(S) /\ Len(L) = 5
         /\ L[1] = a /\ L[2] = b /\ L[3] = c /\ L[4] = d /\ L[5] = e
  OBVIOUS

\* The registers of one slot at the start of the program.
LEMMA ClearedWrites ==
  ASSUME NEW i \in Slots, NEW L, L = Cleared(i)
  PROVE  /\ L \in Seq(RegWrite)
         /\ \A w : Has(L, w) <=>
              \E reg \in {"key", "mask", "prio", "valid", "action"} :
                w = [reg |-> reg, i |-> i, v |-> 0]
<1> DEFINE w(reg) == [reg |-> reg, i |-> i, v |-> 0]
<1>1. /\ w("key") \in RegWrite /\ w("mask") \in RegWrite
      /\ w("prio") \in RegWrite /\ w("valid") \in RegWrite
      /\ w("action") \in RegWrite
  BY DEF RegWrite
<1>2. L = <<w("key"), w("mask")>> \o <<w("prio"), w("valid")>>
          \o <<w("action")>>
  BY DEF Cleared, ap, openbox_rule_reg_wr, openbox_action_reg_wr, zero_rule
<1> HIDE DEF w
<1>3. /\ L \in Seq(RegWrite) /\ Len(L) = 5
      /\ L[1] = w("key") /\ L[2] = w("mask") /\ L[3] = w("prio")
      /\ L[4] = w("valid") /\ L[5] = w("action")
  BY <1>1, <1>2, Joined5
<1>4. ASSUME NEW x
      PROVE  Has(L, x) <=> \/ x = w("key") \/ x = w("mask") \/ x = w("prio")
                           \/ x = w("valid") \/ x = w("action")
  <2>1. 1 .. 5 = {1, 2, 3, 4, 5}
    OBVIOUS
  <2>2. QED
    BY <1>3, <2>1 DEF Has
<1>5. QED
  BY <1>3, <1>4 DEF w

LEMMA InitWritesAre ==
  ASSUME NEW L, L = init_writes(ToCpu)
  PROVE  /\ L \in Seq(RegWrite)
         /\ \A w : Has(L, w) =>
              \/ w = [reg |-> "action", i |-> Default, v |-> ToCpu]
              \/ \E i \in Slots, reg \in {"key", "mask", "prio", "valid", "action"} :
                   w = [reg |-> reg, i |-> i, v |-> 0]
         /\ Has(L, [reg |-> "action", i |-> Default, v |-> ToCpu])
         /\ \A i \in Slots : Has(L, [reg |-> "valid", i |-> i, v |-> 0])
<1> DEFINE s == [n \in 1 .. FAST_RULE_CNT |-> Cleared(n - 1)]
           A == FlattenSeq(s)
           B == <<openbox_action_reg_wr(Default, ToCpu)>>
<1>1. FAST_RULE_CNT \in Nat \ {0} /\ \A n \in 1 .. FAST_RULE_CNT : n - 1 \in Slots
  BY RuleCntAssumption DEF Slots
<1>2. ASSUME NEW n \in 1 .. FAST_RULE_CNT
      PROVE  /\ s[n] \in Seq(RegWrite)
             /\ \A w : Has(s[n], w) <=>
                  \E reg \in {"key", "mask", "prio", "valid", "action"} :
                    w = [reg |-> reg, i |-> n - 1, v |-> 0]
  <2>1. s[n] = Cleared(n - 1) /\ n - 1 \in Slots
    BY <1>1
  <2> HIDE DEF s
  <2>2. QED
    BY <2>1, ClearedWrites
<1>3. s \in [1 .. FAST_RULE_CNT -> Seq(RegWrite)]
  BY <1>2
<1>4. L = A \o B
  BY DEF init_writes
<1> HIDE DEF s
<1>5. A \in Seq(RegWrite) /\ \A w : Has(A, w) <=> Holds(s, FAST_RULE_CNT, w)
  BY <1>1, <1>3, Flattened DEF Whole
<1>6. /\ B \in Seq(RegWrite)
      /\ \A w : Has(B, w) <=> w = [reg |-> "action", i |-> Default, v |-> ToCpu]
  <2>1. ToCpu \in Nat /\ Default \in Slots \cup {Default}
    BY DEF ToCpu
  <2>2. QED
    BY <2>1, ActionWrite
<1> HIDE DEF A, B
<1>7. L \in Seq(RegWrite) /\ \A w : Has(L, w) <=> Has(A, w) \/ Has(B, w)
  BY <1>4, <1>5, <1>6, ConcatHas
<1>8. \A w : Holds(s, FAST_RULE_CNT, w) <=>
               \E n \in 1 .. FAST_RULE_CNT : Has(s[n], w)
  BY DEF Holds, Has
<1>9. ASSUME NEW w, Has(A, w)
      PROVE  \E i \in Slots, reg \in {"key", "mask", "prio", "valid", "action"} :
               w = [reg |-> reg, i |-> i, v |-> 0]
  <2>1. PICK n \in 1 .. FAST_RULE_CNT : Has(s[n], w)
    BY <1>5, <1>8, <1>9
  <2>2. QED
    BY <1>1, <1>2, <2>1
<1>10. ASSUME NEW i \in Slots
       PROVE  Has(A, [reg |-> "valid", i |-> i, v |-> 0])
  <2>1. i + 1 \in 1 .. FAST_RULE_CNT /\ (i + 1) - 1 = i
    BY <1>1 DEF Slots
  <2>2. Has(s[i + 1], [reg |-> "valid", i |-> (i + 1) - 1, v |-> 0])
    BY <1>2, <2>1
  <2>3. QED
    BY <1>5, <1>8, <2>1, <2>2
<1>11. QED
  BY <1>6, <1>7, <1>9, <1>10

-----------------------------------------------------------------------------
\* The next write is made: what becomes of the registers and of the rest.
LEMMA RegStep ==
  ASSUME TypeInv, fast_reg_wr
  PROVE  LET w == todo[1] IN
         /\ w \in RegWrite /\ Len(todo) \in Nat \ {0}
         /\ Len(todo') = Len(todo) - 1 /\ todo' \in Seq(RegWrite)
         /\ \A p \in 1 .. Len(todo') : todo'[p] = todo[p + 1]
         /\ \A n \in Slots :
              /\ hw'[n].valid = IF w.reg = "valid" /\ w.i = n THEN w.v
                                ELSE hw[n].valid
              /\ hw'[n].key = IF w.reg = "key" /\ w.i = n THEN w.v
                              ELSE hw[n].key
              /\ hw'[n].mask = IF w.reg = "mask" /\ w.i = n THEN w.v
                               ELSE hw[n].mask
              /\ hw'[n].prio = IF w.reg = "prio" /\ w.i = n THEN w.v
                               ELSE hw[n].prio
         /\ \A n \in Slots \cup {Default} :
              act'[n] = IF w.reg = "action" /\ w.i = n THEN w.v ELSE act[n]
         /\ hw' \in [Slots -> [key : Nat, mask : {0, 1}, prio : Nat,
                               valid : {0, 1}]]
         /\ act' \in [Slots \cup {Default} -> Nat]
<1> DEFINE w == todo[1]
           Rec == [key : Nat, mask : {0, 1}, prio : Nat, valid : {0, 1}]
<1>1. todo \in Seq(RegWrite) /\ todo # <<>> /\ todo' = Tail(todo)
  BY DEF TypeInv, fast_reg_wr
<1>2. /\ w \in RegWrite /\ Len(todo) \in Nat \ {0} /\ w = Head(todo)
      /\ Len(todo') = Len(todo) - 1 /\ todo' \in Seq(RegWrite)
      /\ \A p \in 1 .. Len(todo') : todo'[p] = todo[p + 1]
  BY <1>1
<1>3. /\ hw \in [Slots -> Rec] /\ act \in [Slots \cup {Default} -> Nat]
  BY DEF TypeInv, TypeOK, TableTypeOK
<1>4. IF w.reg = "action"
      THEN act' = [act EXCEPT ![w.i] = w.v] /\ hw' = hw
      ELSE hw' = [hw EXCEPT ![w.i][w.reg] = w.v] /\ act' = act
  BY <1>2 DEF fast_reg_wr
<1>5. /\ w.reg \in {"key", "mask", "prio", "valid", "action"}
      /\ w.i \in Slots \cup {Default} /\ w.v \in Nat
      /\ w.reg \in {"mask", "valid"} => w.v \in {0, 1}
      /\ w.reg # "action" => w.i \in Slots
  BY <1>2 DEF RegWrite
<1> HIDE DEF w
<1>6. CASE w.reg = "action"
  BY <1>2, <1>3, <1>4, <1>5, <1>6 DEF w
<1>7. CASE w.reg # "action"
  <2>1. /\ hw' = [hw EXCEPT ![w.i] = [hw[w.i] EXCEPT ![w.reg] = w.v]]
        /\ act' = act /\ w.i \in Slots /\ hw[w.i] \in Rec
    BY <1>3, <1>4, <1>5, <1>7
  <2> DEFINE r == [hw[w.i] EXCEPT ![w.reg] = w.v]
  <2>2. /\ r \in Rec
        /\ r.key = IF w.reg = "key" THEN w.v ELSE hw[w.i].key
        /\ r.mask = IF w.reg = "mask" THEN w.v ELSE hw[w.i].mask
        /\ r.prio = IF w.reg = "prio" THEN w.v ELSE hw[w.i].prio
        /\ r.valid = IF w.reg = "valid" THEN w.v ELSE hw[w.i].valid
    <3>1. CASE w.reg = "key"
      BY <1>5, <2>1, <3>1
    <3>2. CASE w.reg = "mask"
      BY <1>5, <2>1, <3>2
    <3>3. CASE w.reg = "prio"
      BY <1>5, <2>1, <3>3
    <3>4. CASE w.reg = "valid"
      BY <1>5, <2>1, <3>4
    <3>5. QED
      BY <1>5, <1>7, <3>1, <3>2, <3>3, <3>4
  <2> HIDE DEF r
  <2>3. hw' \in [Slots -> Rec]
    BY <1>3, <2>1, <2>2 DEF r
  <2>4. ASSUME NEW n \in Slots PROVE hw'[n] = IF w.i = n THEN r ELSE hw[n]
    BY <1>3, <2>1 DEF r
  <2>5. QED
    BY <1>2, <1>3, <1>7, <2>1, <2>2, <2>3, <2>4 DEF w
<1>8. QED
  BY <1>6, <1>7

-----------------------------------------------------------------------------
(***************************************************************************)
(* What the handlers do, with the register writes they leave pending.      *)
(***************************************************************************)

\* L writes rule r to slot i, its valid bit behind all that packets meet.
Lists(L, i, r) ==
  /\ L \in Seq(RegWrite) /\ Len(L) >= 7
  /\ \A p \in 1 .. Len(L) : /\ L[p].i = i /\ L[p].v = r[L[p].reg]
                            /\ L[p].reg = "valid" => p > 3
  /\ L[1].reg = "action" /\ L[2].reg = "key" /\ L[3].reg = "mask"
  /\ L[5].reg = "valid"

\* The message m puts a rule with this key into slot i.
Puts(i, m, k) ==
  /\ todo = <<>>
  /\ rules' = [rules EXCEPT ![i] = Rule(m, k)]
  /\ stats' = [stats EXCEPT ![i] = m]
  /\ hw' = hw /\ act' = act
  /\ op' = "write" /\ was' = View
  /\ Lists(todo', i, Rule(m, k))

\* The statistics of the slots in Z are forgotten and their actions cleared,
\* the rules of those in D deleted.
Clears(D, Z) ==
  /\ todo = <<>>
  /\ rules' = [i \in Slots |-> IF i \in D THEN zero_rule ELSE rules[i]]
  /\ stats' = [i \in Slots \cup {Default} |->
                 IF i \in Z THEN NoStats ELSE stats[i]]
  /\ hw' = hw /\ act' = act
  /\ op' = "delete" /\ was' = View
  /\ todo' \in Seq(RegWrite)
  /\ \A w : Has(todo', w) =>
       /\ w.i \in Z /\ w.v = 0 /\ w.reg \in {"action", "prio", "valid"}
       /\ w.reg = "valid" => w.i \in D
  /\ \A i \in Z : Has(todo', [reg |-> "action", i |-> i, v |-> 0])
  /\ \A i \in D : Has(todo', [reg |-> "valid", i |-> i, v |-> 0])

\* One more write does not change what a list of writes begins with.
Begins(N, x, L) == /\ Len(L) = 7 \/ Len(L) = 8
                   /\ \A p \in 1 .. 7 : L[p] = N[p]
                   /\ Len(L) = 8 => L[8] = x

LEMMA OneMore ==
  ASSUME NEW S, NEW N \in Seq(S), NEW x \in S, Len(N) = 7,
         NEW y \in Seq(S), Len(y) = 0 \/ Len(y) = 1, Len(y) = 1 => y[1] = x
  PROVE  N \o y \in Seq(S) /\ Begins(N, x, N \o y)
<1> DEFINE L == N \o y
<1>2. /\ N \o y \in Seq(S) /\ Len(N \o y) = Len(N) + Len(y)
      /\ \A p \in 1 .. Len(N) + Len(y) :
           (N \o y)[p] = IF p <= Len(N) THEN N[p] ELSE y[p - Len(N)]
  BY ConcatProperties
<1>3. Len(L) = 7 + Len(y)
  BY <1>2
<1>4. ASSUME NEW p \in 1 .. 7 PROVE L[p] = N[p]
  <2>1. p \in 1 .. Len(N) + Len(y) /\ p <= Len(N)
    OBVIOUS
  <2>2. QED
    BY <1>2, <2>1
<1>5. ASSUME Len(y) = 1 PROVE L[8] = x
  <2>1. 8 \in 1 .. Len(N) + Len(y) /\ ~(8 <= Len(N)) /\ 8 - Len(N) = 1
    BY <1>5
  <2>2. QED
    BY <1>2, <1>5, <2>1
<1>6. QED
  BY <1>2, <1>3, <1>4, <1>5 DEF Begins

LEMMA NoneOrOne ==
  ASSUME NEW S, NEW x \in S
  PROVE  /\ <<>> \in Seq(S) /\ Len(<<>>) = 0
         /\ <<x>> \in Seq(S) /\ Len(<<x>>) = 1 /\ <<x>>[1] = x
  OBVIOUS

LEMMA WritesOfRule ==
  ASSUME NEW i \in Slots, NEW m \in ofp_flow_stats, NEW k \in Nat
  PROVE  /\ Lists(write_rule_normal(i, Rule(m, k)) \o <<>>, i, Rule(m, k))
         /\ Lists(write_rule_normal(i, Rule(m, k))
                  \o <<openbox_action_reg_wr(i, rule_action(m))>>,
                  i, Rule(m, k))
<1> DEFINE r == Rule(m, k)
           N == write_rule_normal(i, r)
           w(reg, v) == [reg |-> reg, i |-> i, v |-> v]
<1>1. /\ r \in RuleType /\ r.valid = 1 /\ r.action = rule_action(m)
  BY RuleTyped DEF Rule
<1>2. /\ N \in Seq(RegWrite) /\ Len(N) = 7
      /\ N[1] = w("action", r.action) /\ N[2] = w("key", r.key)
      /\ N[3] = w("mask", r.mask) /\ N[4] = w("prio", r.prio)
      /\ N[5] = w("valid", r.valid) /\ N[6] = w("prio", r.prio)
      /\ N[7] = w("valid", r.valid)
  <2> HIDE DEF r
  <2>1. QED
    BY <1>1, RuleWrites
<1> DEFINE O == openbox_action_reg_wr(i, rule_action(m))
<1>3. O = w("action", r.action) /\ O \in RegWrite
  <2>1. O = w("action", r.action)
    BY <1>1 DEF openbox_action_reg_wr
  <2>2. w("action", r.action) \in RegWrite
    BY <1>1 DEF RegWrite, RuleType
  <2>3. QED
    BY <2>1, <2>2
<1> HIDE DEF N, O, r
<1>4. /\ N[1].reg = "action" /\ N[2].reg = "key" /\ N[3].reg = "mask"
      /\ N[5].reg = "valid"
      /\ \A p \in 1 .. 7 : /\ N[p].i = i /\ N[p].v = r[N[p].reg]
                           /\ N[p].reg = "valid" => p > 3
  <2>1. \A p \in 1 .. 7 : \/ p = 1 \/ p = 2 \/ p = 3 \/ p = 4 \/ p = 5
                          \/ p = 6 \/ p = 7
    OBVIOUS
  <2>2. QED
    BY <1>2, <2>1
<1>5. O.i = i /\ O.v = r[O.reg] /\ O.reg = "action"
  BY <1>3
<1> HIDE DEF w
<1>6. N \in Seq(RegWrite) /\ Len(N) = 7 /\ O \in RegWrite
  BY <1>2, <1>3
<1>7. ASSUME NEW L \in Seq(RegWrite), Begins(N, O, L)
      PROVE  Lists(L, i, r)
  <2>1. ASSUME NEW p \in 1 .. Len(L)
        PROVE  /\ L[p].i = i /\ L[p].v = r[L[p].reg]
               /\ L[p].reg = "valid" => p > 3
    <3>1. CASE p \in 1 .. 7
      BY <1>4, <1>7, <3>1 DEF Begins
    <3>2. CASE p \notin 1 .. 7
      <4>1. Len(L) = 7 \/ Len(L) = 8
        BY <1>7 DEF Begins
      <4>2. p = 8 /\ Len(L) = 8
        <5>1. CASE Len(L) = 7
          BY <3>2, <5>1
        <5>2. CASE Len(L) = 8
          <6>1. p \in 1 .. 8
            BY <5>2
          <6>2. QED
            BY <3>2, <5>2, <6>1
        <5>3. QED
          BY <4>1, <5>1, <5>2
      <4>3. QED
        BY <1>5, <1>7, <4>2 DEF Begins
    <3>3. QED
      BY <3>1, <3>2
  <2>2. /\ L[1].reg = "action" /\ L[2].reg = "key" /\ L[3].reg = "mask"
        /\ L[5].reg = "valid"
    <3>1. 1 \in 1 .. 7 /\ 2 \in 1 .. 7 /\ 3 \in 1 .. 7 /\ 5 \in 1 .. 7
      OBVIOUS
    <3>2. QED
      BY <1>4, <1>7, <3>1 DEF Begins
  <2>3. Len(L) >= 7
    BY <1>7 DEF Begins
  <2>4. QED
    BY <2>1, <2>2, <2>3 DEF Lists
<1>8. /\ <<>> \in Seq(RegWrite) /\ Len(<<>>) = 0
      /\ <<O>> \in Seq(RegWrite) /\ Len(<<O>>) = 1 /\ <<O>>[1] = O
  BY <1>6, NoneOrOne
<1>9. N \o <<>> \in Seq(RegWrite) /\ Begins(N, O, N \o <<>>)
  <2>1. N \o <<>> = N
    BY <1>6, ConcatEmptySeq
  <2>2. QED
    BY <1>6, <2>1 DEF Begins
<1>10. N \o <<O>> \in Seq(RegWrite) /\ Begins(N, O, N \o <<O>>)
  BY <1>6, <1>8, OneMore
<1>11. Lists(N \o <<>>, i, r) /\ Lists(N \o <<O>>, i, r)
  BY <1>7, <1>9, <1>10
<1>12. QED
  BY <1>11 DEF N, O, r

LEMMA ReaddPuts ==
  ASSUME TypeInv, NEW c, NEW m \in ofp_flow_stats, readd_flow(c, m)
  PROVE  \E i \in Slots : rules[i].valid = 0
                          /\ Puts(i, m, get_phyport_by_logport(m.match.port))
<1> DEFINE i == added_slot(rules, md5(m))
           k == get_phyport_by_logport(m.match.port)
<1>1. i \in Slots /\ rules[i].valid # 1
  BY AddedIsFree DEF readd_flow
<1>2. rules[i].valid = 0
  BY <1>1 DEF TypeInv, TypeOK, TableTypeOK
<1>3. Rule(m, k).md5 = md5(m) /\ k \in Nat
  BY StatsTypes DEF Rule
<1>4. /\ todo = <<>> /\ rules' = [rules EXCEPT ![i] = Rule(m, k)]
      /\ todo' = write_rule_normal(i, Rule(m, k)) \o <<>>
      /\ hw' = hw /\ act' = act /\ stats' = [stats EXCEPT ![i] = m]
      /\ op' = "write" /\ was' = View
  BY <1>3 DEF readd_flow, fast_add_rule, fast_write_rule, Call, History
<1> HIDE DEF i, k
<1>5. Puts(i, m, k)
  BY <1>1, <1>3, <1>4, WritesOfRule DEF Puts
<1>6. QED
  BY <1>1, <1>2, <1>5 DEF k

LEMMA ModifyPuts ==
  ASSUME TypeInv, NEW m \in ofp_flow_stats, modify_strict(m)
  PROVE  \E i \in Holding(rules, md5(m)) : Puts(i, m, m.match.port)
<1> DEFINE i == Idx(m)
<1>1. i \in Holding(rules, md5(m)) /\ i \in Slots
  BY ExistsFinds DEF modify_strict, Known, Idx, Holding
<1>2. /\ todo = <<>> /\ rules' = [rules EXCEPT ![i] = Rule(m, m.match.port)]
      /\ todo' = write_rule_normal(i, Rule(m, m.match.port))
                 \o <<openbox_action_reg_wr(i, rule_action(m))>>
      /\ hw' = hw /\ act' = act /\ stats' = [stats EXCEPT ![i] = m]
      /\ op' = "write" /\ was' = View
  BY DEF modify_strict, fast_modify_rule, fast_write_rule, Call, History
<1>3. m.match.port \in Nat
  BY StatsTypes
<1> HIDE DEF i
<1>4. Puts(i, m, m.match.port)
  BY <1>1, <1>2, <1>3, WritesOfRule DEF Puts
<1>5. QED
  BY <1>1, <1>4

LEMMA DelClears ==
  ASSUME TypeInv, NEW D \in SUBSET Slots,
         NEW before \in {ActionZero, None}, NEW after \in {ActionZero, None},
         fast_del_rule(D, before, after),
         stats' = [i \in Slots \cup {Default} |->
                     IF i \in D THEN NoStats ELSE stats[i]],
         op' = "delete", was' = View
  PROVE  Clears(D, D)
<1>1. /\ todo' \in Seq(RegWrite)
      /\ \A w : Has(todo', w) =>
           \E i \in D, reg \in {"action", "prio", "valid"} :
             w = [reg |-> reg, i |-> i, v |-> 0]
      /\ \A i \in D, reg \in {"action", "valid"} :
           Has(todo', [reg |-> reg, i |-> i, v |-> 0])
  <2>1. todo' = DelWrites(D, before, after)
    BY DEF fast_del_rule, Call, DelWrites
  <2>2. QED
    BY <2>1, DelWritesAre
<1>2. /\ todo = <<>> /\ hw' = hw /\ act' = act
      /\ rules' = [i \in Slots |-> IF i \in D THEN zero_rule ELSE rules[i]]
  BY DEF fast_del_rule, Call
<1>3. ASSUME NEW w, Has(todo', w)
      PROVE  /\ w.i \in D /\ w.v = 0 /\ w.reg \in {"action", "prio", "valid"}
             /\ w.reg = "valid" => w.i \in D
  BY <1>1, <1>3
<1>4. QED
  BY <1>1, <1>2, <1>3 DEF Clears

LEMMA DeleteStrictClears ==
  ASSUME TypeInv, NEW m \in ofp_flow_stats, delete_strict(m)
  PROVE  \E D \in SUBSET Slots : Clears(D, D)
<1>1. {Idx(m)} \in SUBSET Slots
  BY ExistsFinds DEF delete_strict, Known, Idx, Holding
<1>2. stats' = [i \in Slots \cup {Default} |->
                  IF i \in {Idx(m)} THEN NoStats ELSE stats[i]]
  <2>1. stats' = [stats EXCEPT ![Idx(m)] = NoStats]
    BY DEF delete_strict
  <2>2. stats = [i \in Slots \cup {Default} |-> stats[i]]
    BY DEF TypeInv, TypeOK
  <2>3. QED
    BY <2>1, <2>2
<1>3. /\ fast_del_rule({Idx(m)}, ActionZero, None)
      /\ op' = "delete" /\ was' = View
  BY DEF delete_strict, History
<1>4. Clears({Idx(m)}, {Idx(m)})
  BY <1>1, <1>2, <1>3, DelClears
<1>5. QED
  BY <1>1, <1>4

LEMMA DeleteCookieClears ==
  ASSUME TypeInv, NEW c \in Cookies, delete_cookie(c)
  PROVE  \E D \in SUBSET Slots : Clears(D, D)
<1> DEFINE D == {i \in Slots : stats[i] # NoStats /\ stats[i].cookie = c}
<1>1. D \in SUBSET Slots
  OBVIOUS
<1>2. /\ fast_del_rule(D, None, ActionZero)
      /\ stats' = [i \in Slots \cup {Default} |->
                     IF i \in D THEN NoStats ELSE stats[i]]
      /\ op' = "delete" /\ was' = View
  BY DEF delete_cookie, History
<1> HIDE DEF D
<1>3. QED
  BY <1>1, <1>2, DelClears

LEMMA DeleteAllClears ==
  ASSUME TypeInv, delete_all
  PROVE  Clears({}, Slots)
<1>1. /\ todo' \in Seq(RegWrite)
      /\ \A w : Has(todo', w) <=>
           \E i \in Slots : w = [reg |-> "action", i |-> i, v |-> 0]
  BY ActionsZeroed DEF delete_all, Call
<1>2. rules = [i \in Slots |-> rules[i]]
  BY DEF TypeInv, TypeOK, TableTypeOK
<1>3. /\ todo = <<>> /\ hw' = hw /\ act' = act /\ rules' = rules
      /\ stats' = [i \in Slots \cup {Default} |->
                     IF i \in Slots THEN NoStats ELSE stats[i]]
      /\ op' = "delete" /\ was' = View
  BY DEF delete_all, Call, History
<1>4. rules' = [i \in Slots |-> IF i \in {} THEN zero_rule ELSE rules[i]]
  BY <1>2, <1>3
<1>5. ASSUME NEW w, Has(todo', w)
      PROVE  /\ w.i \in Slots /\ w.v = 0
             /\ w.reg \in {"action", "prio", "valid"}
             /\ w.reg = "valid" => w.i \in {}
  BY <1>1, <1>5
<1>6. QED
  BY <1>1, <1>3, <1>4, <1>5 DEF Clears

SetsDefaultAction(m) ==
  /\ todo = <<>> /\ rules' = rules
  /\ stats' = [stats EXCEPT ![Default] = m]
  /\ hw' = hw /\ act' = act
  /\ op' = "write" /\ was' = View
  /\ todo' \in Seq(RegWrite)
  /\ \A w : Has(todo', w) <=> w = [reg |-> "action", i |-> Default, v |-> ToCpu]

LEMMA SetDefaultIs ==
  ASSUME NEW m \in ofp_flow_stats, set_default(m)
  PROVE  SetsDefaultAction(m)
<1>1. rule_action(m) = ToCpu
  BY DEF set_default, SetsDefault, default_rule, rule_action, CONTROLLER,
         NoOutput
<1>2. todo' = <<openbox_action_reg_wr(Default, ToCpu)>>
  BY <1>1 DEF set_default, Call
<1>3. ToCpu \in Nat /\ Default \in Slots \cup {Default}
  BY DEF ToCpu
<1>4. /\ todo' \in Seq(RegWrite)
      /\ \A w : Has(todo', w) <=>
                  w = [reg |-> "action", i |-> Default, v |-> ToCpu]
  BY <1>2, <1>3, ActionWrite
<1>5. QED
  BY <1>4 DEF set_default, Call, History, SetsDefaultAction

\* Every step is one of these, or a register write, or changes nothing.
LEMMA StepShapes ==
  ASSUME TypeInv, [Next]_vars
  PROVE  \/ \E m \in ofp_flow_stats, i \in Slots :
              /\ rules[i].valid = 0
              /\ Puts(i, m, get_phyport_by_logport(m.match.port))
         \/ \E m \in ofp_flow_stats : \E i \in Holding(rules, md5(m)) :
              Puts(i, m, m.match.port)
         \/ \E D \in SUBSET Slots : Clears(D, D)
         \/ Clears({}, Slots)
         \/ \E m \in ofp_flow_stats : SetsDefaultAction(m)
         \/ ofp_init \/ Writes \/ UNCHANGED vars
<1>1. ASSUME NEW c \in Adding, NEW m \in ofp_flow_stats,
             handle_flow_mod_add(c, m)
      PROVE  \/ SetsDefaultAction(m)
             \/ \E i \in Slots :
                  /\ rules[i].valid = 0
                  /\ Puts(i, m, get_phyport_by_logport(m.match.port))
             \/ \E i \in Holding(rules, md5(m)) : Puts(i, m, m.match.port)
             \/ \E D \in SUBSET Slots : Clears(D, D)
  BY <1>1, SetDefaultIs, ReaddPuts, ModifyPuts, DeleteStrictClears
     DEF handle_flow_mod_add
<1>2. ASSUME handle_flow_mod_delete
      PROVE  Clears({}, Slots) \/ \E D \in SUBSET Slots : Clears(D, D)
  BY <1>2, DeleteAllClears, DeleteCookieClears DEF handle_flow_mod_delete
<1>3. QED
  BY <1>1, <1>2 DEF Next

-----------------------------------------------------------------------------
LEMMA DropTyped ==
  ASSUME NEW r \in RuleType
  PROVE  /\ [r EXCEPT !.action = ACTION_DROP] \in RuleType
         /\ [r EXCEPT !.action = ACTION_DROP].valid = r.valid
         /\ [r EXCEPT !.action = ACTION_DROP].key = r.key
         /\ [r EXCEPT !.action = ACTION_DROP].mask = r.mask
         /\ [r EXCEPT !.action = ACTION_DROP].action = ACTION_DROP
  BY DEF RuleType, ACTION_DROP

LEMMA ViewIs ==
  ASSUME rules \in [Slots -> RuleType]
  PROVE  /\ View \in [Slots -> RuleType]
         /\ \A n \in Slots :
              /\ View[n].valid = rules[n].valid
              /\ View[n].key = rules[n].key /\ View[n].mask = rules[n].mask
              /\ stats[n] = NoStats => View[n].action = ACTION_DROP
              /\ stats[n] # NoStats => View[n] = rules[n]
<1>1. ASSUME NEW n \in Slots
      PROVE  /\ View[n] = IF stats[n] = NoStats
                          THEN [rules[n] EXCEPT !.action = ACTION_DROP]
                          ELSE rules[n]
             /\ rules[n] \in RuleType
  BY DEF View
<1>2. ASSUME NEW n \in Slots
      PROVE  /\ View[n] \in RuleType /\ View[n].valid = rules[n].valid
             /\ View[n].key = rules[n].key /\ View[n].mask = rules[n].mask
             /\ stats[n] = NoStats => View[n].action = ACTION_DROP
             /\ stats[n] # NoStats => View[n] = rules[n]
  BY <1>1, DropTyped
<1>3. View = [n \in Slots |-> View[n]]
  BY DEF View
<1>4. QED
  BY <1>2, <1>3

\* The same of the next state.
LEMMA ViewIsNext ==
  ASSUME rules' \in [Slots -> RuleType]
  PROVE  /\ View' \in [Slots -> RuleType]
         /\ \A n \in Slots :
              /\ View'[n].valid = rules'[n].valid
              /\ View'[n].key = rules'[n].key /\ View'[n].mask = rules'[n].mask
              /\ stats'[n] = NoStats => View'[n].action = ACTION_DROP
              /\ stats'[n] # NoStats => View'[n] = rules'[n]
<1>1. ASSUME NEW n \in Slots
      PROVE  /\ View'[n] = IF stats'[n] = NoStats
                           THEN [rules'[n] EXCEPT !.action = ACTION_DROP]
                           ELSE rules'[n]
             /\ rules'[n] \in RuleType
  BY DEF View
<1>2. ASSUME NEW n \in Slots
      PROVE  /\ View'[n] \in RuleType /\ View'[n].valid = rules'[n].valid
             /\ View'[n].key = rules'[n].key /\ View'[n].mask = rules'[n].mask
             /\ stats'[n] = NoStats => View'[n].action = ACTION_DROP
             /\ stats'[n] # NoStats => View'[n] = rules'[n]
  BY <1>1, DropTyped
<1>3. View' = [n \in Slots |-> View'[n]]
  BY DEF View
<1>4. QED
  BY <1>2, <1>3

\* What the types come to.
Typed ==
  /\ rules \in [Slots -> RuleType]
  /\ \A i \in Slots : rules[i].valid = 0 => rules[i] = zero_rule
  /\ hw \in [Slots -> [key : Nat, mask : {0, 1}, prio : Nat, valid : {0, 1}]]
  /\ act \in [Slots \cup {Default} -> Nat]
  /\ todo \in Seq(RegWrite)
  /\ stats \in [Slots \cup {Default} -> ofp_flow_stats \cup {NoStats}]
  /\ op \in {"init", "write", "delete"}
  /\ was \in [Slots -> RuleType]

LEMMA TypedIsType == Typed <=> TypeInv
<1>1. ASSUME todo \in Seq(RegWrite)
      PROVE  todo \in Seq([reg : {"key", "mask", "prio", "valid", "action"},
                           i : Slots \cup {Default}, v : Nat])
  <2>1. RegWrite \subseteq [reg : {"key", "mask", "prio", "valid", "action"},
                            i : Slots \cup {Default}, v : Nat]
    BY DEF RegWrite
  <2>2. QED
    BY <1>1, <2>1, SeqMonotonic
<1>2. QED
  BY <1>1 DEF Typed, TypeInv, TypeOK, TableTypeOK, RuleType

LEMMA NoRulesTyped == NoRules \in [Slots -> RuleType]
  BY ZeroTyped DEF NoRules

LEMMA InitTyped == Init => Typed
<1> SUFFICES ASSUME Init PROVE Typed
  OBVIOUS
<1>1. todo \in Seq(RegWrite)
  BY InitWritesAre DEF Init, TableInit
<1>2. QED
  BY <1>1, NoRulesTyped DEF Init, TableInit, Typed, NoRules

LEMMA StepTyped == TypeInv /\ [Next]_vars => Typed'
<1> SUFFICES ASSUME TypeInv, [Next]_vars PROVE Typed'
  OBVIOUS
<1>0. Typed
  BY TypedIsType
<1>1. ASSUME NEW m \in ofp_flow_stats, NEW i \in Slots, NEW k \in Nat,
             Puts(i, m, k)
      PROVE  Typed'
  <2>1. Rule(m, k) \in RuleType /\ Rule(m, k).valid = 1
    BY RuleTyped DEF Rule
  <2>2. View \in [Slots -> RuleType]
    BY <1>0, ViewIs DEF Typed
  <2>3. /\ rules' \in [Slots -> RuleType]
        /\ \A n \in Slots : rules'[n].valid = 0 => rules'[n] = zero_rule
    BY <1>0, <1>1, <2>1 DEF Puts, Typed
  <2>4. stats' \in [Slots \cup {Default} -> ofp_flow_stats \cup {NoStats}]
    BY <1>0, <1>1 DEF Puts, Typed
  <2>5. QED
    BY <1>0, <1>1, <2>2, <2>3, <2>4 DEF Puts, Lists, Typed
<1>2. ASSUME NEW D \in SUBSET Slots, NEW Z \in SUBSET Slots, Clears(D, Z)
      PROVE  Typed'
  <2>1. View \in [Slots -> RuleType]
    BY <1>0, ViewIs DEF Typed
  <2>2. /\ rules' \in [Slots -> RuleType]
        /\ \A n \in Slots : rules'[n].valid = 0 => rules'[n] = zero_rule
    BY <1>0, <1>2, ZeroTyped DEF Clears, Typed
  <2>3. stats' \in [Slots \cup {Default} -> ofp_flow_stats \cup {NoStats}]
    BY <1>0, <1>2 DEF Clears, Typed
  <2>4. QED
    BY <1>0, <1>2, <2>1, <2>2, <2>3 DEF Clears, Typed
<1>3. ASSUME NEW m \in ofp_flow_stats, SetsDefaultAction(m) PROVE Typed'
  <2>1. View \in [Slots -> RuleType]
    BY <1>0, ViewIs DEF Typed
  <2>2. QED
    BY <1>0, <1>3, <2>1 DEF SetsDefaultAction, Typed
<1>4. CASE ofp_init
  <2>1. todo' \in Seq(RegWrite)
    BY <1>4, InitWritesAre DEF ofp_init, init_rule
  <2>2. /\ rules' = NoRules /\ was' = NoRules /\ hw' = hw /\ act' = act
        /\ op' = "init"
        /\ stats' = [i \in Slots \cup {Default} |-> NoStats]
    BY <1>4 DEF ofp_init, init_rule
  <2>3. \A i \in Slots : rules'[i] = zero_rule
    BY <2>2 DEF NoRules
  <2>4. QED
    BY <1>0, <2>1, <2>2, <2>3, NoRulesTyped DEF Typed
<1>5. CASE Writes
  BY <1>0, <1>5, RegStep DEF Writes, fast_reg_wr, Typed
<1>6. CASE UNCHANGED vars
  BY <1>0, <1>6 DEF Typed, vars, tableVars
<1>7. \A m \in ofp_flow_stats : /\ m.match.port \in Nat
                                /\ get_phyport_by_logport(m.match.port) \in Nat
  BY StatsTypes
<1>8. \A m \in ofp_flow_stats : Holding(rules, md5(m)) \subseteq Slots
  BY DEF Holding
<1>9. Slots \in SUBSET Slots /\ {} \in SUBSET Slots
  OBVIOUS
<1>10. QED
  BY <1>1, <1>2, <1>3, <1>4, <1>5, <1>6, <1>7, <1>8, <1>9, StepShapes

\* The table, the registers and the writes still to be made are what they are
\* declared to be, and no register is written with what it cannot hold
\* (write_rule_normal, init_rule, handle_flow_mod_add).
THEOREM TableTyped == Spec => []TypeOK
<1>1. Init => TypeInv
  BY InitTyped, TypedIsType
<1>2. TypeInv /\ [Next]_vars => TypeInv'
  <2>1. Typed' <=> TypeInv'
    BY TypedIsType, PTL
  <2>2. QED
    BY <2>1, StepTyped
<1>3. TypeInv => TypeOK
  BY DEF TypeInv
<1>4. QED
  BY <1>1, <1>2, <1>3, PTL DEF Spec

-----------------------------------------------------------------------------
LEMMA PortIsKey ==
  ASSUME FirstObx = 1, NEW m \in ofp_flow_stats
  PROVE  get_phyport_by_logport(m.match.port) = m.match.port
<1>1. m.match \in Match
  BY DEF ofp_flow_stats
<1>2. m.match.mask = 1 \/ m.match.port = 0
  BY <1>1 DEF Match
<1>3. QED
  BY <1>2, PortsAsNumbered DEF get_phyport_by_logport

LEMMA DigestStep ==
  ASSUME FirstObx = 1, TypeInv, MatchByDigest, [Next]_vars
  PROVE  MatchByDigest'
<1>0. Typed
  BY TypedIsType
<1>1. ASSUME NEW m \in ofp_flow_stats, NEW i \in Slots,
             Puts(i, m, m.match.port)
      PROVE  MatchByDigest'
  <2> DEFINE r == Rule(m, m.match.port)
  <2>1. r.key = r.md5[1] /\ r.mask = r.md5[2]
    BY DEF Rule, md5
  <2>2. \A n \in Slots : rules'[n] = IF n = i THEN r ELSE rules[n]
    BY <1>0, <1>1 DEF Typed, Puts
  <2> HIDE DEF r
  <2>3. QED
    BY <2>1, <2>2 DEF MatchByDigest
<1>2. ASSUME NEW D, NEW Z, Clears(D, Z) PROVE MatchByDigest'
  BY <1>2 DEF Clears, MatchByDigest, zero_rule
<1>3. ASSUME ofp_init PROVE MatchByDigest'
  BY <1>3 DEF ofp_init, init_rule, NoRules, MatchByDigest, zero_rule
<1>4. ASSUME rules' = rules PROVE MatchByDigest'
  BY <1>4 DEF MatchByDigest
<1>5. \A m \in ofp_flow_stats : Holding(rules, md5(m)) \subseteq Slots
  BY DEF Holding
<1>6. QED
  BY <1>1, <1>2, <1>3, <1>4, <1>5, StepShapes, PortIsKey
     DEF SetsDefaultAction, Writes, fast_reg_wr, vars, tableVars

\* When all is written the engine does what the statistics say.
LEMMA SettledWhenDone ==
  ASSUME SeenInv, todo = <<>>
  PROVE  act[Default] = ToCpu /\ \A n \in Slots : Agrees(n, View)
<1>0. Typed
  BY TypedIsType DEF SeenInv
<1>1. \A reg, i : ~Pending(reg, i) /\ ~BeforeValid(reg)
  BY DEF Pending, BeforeValid
<1>2. /\ View \in [Slots -> RuleType]
      /\ \A n \in Slots :
           /\ View[n].valid = rules[n].valid
           /\ View[n].key = rules[n].key /\ View[n].mask = rules[n].mask
           /\ stats[n] # NoStats => View[n] = rules[n]
  BY <1>0, ViewIs DEF Typed
<1>3. \A n \in Slots : rules[n].valid \in {0, 1} /\ hw[n].valid \in {0, 1}
  BY <1>0 DEF Typed, RuleType
<1>4. act[Default] = ToCpu
  BY <1>1 DEF SeenInv, DefaultInv
<1>5. CASE op = "init"
  <2>1. ASSUME NEW n \in Slots PROVE rules[n].valid = 0 /\ hw[n].valid = 0
    BY <1>1, <1>5 DEF SeenInv, Initialising
  <2>2. QED
    BY <1>2, <1>4, <2>1 DEF Agrees
<1>6. CASE op = "write"
  <2>1. PICK i \in Slots \cup {Default} : Writing(i)
    BY <1>6 DEF SeenInv
  <2>2. ASSUME i \in Slots PROVE Agrees(i, View)
    BY <1>1, <1>2, <1>3, <2>1, <2>2
       DEF Writing, Replacing, Filling, Agrees
  <2>3. QED
    BY <1>4, <2>1, <2>2 DEF Writing
<1>7. CASE op = "delete"
  BY <1>1, <1>2, <1>3, <1>4, <1>7 DEF SeenInv, Deleting, Agrees
<1>8. QED
  BY <1>0, <1>4, <1>5, <1>6, <1>7 DEF Typed

LEMMA PutsSeen ==
  ASSUME SeenInv, TypeInv', MatchByDigest',
         NEW m \in ofp_flow_stats, NEW i \in Slots, Puts(i, m, m.match.port),
         rules[i].valid = 0 \/ i \in Holding(rules, md5(m))
  PROVE  SeenInv'
<1> DEFINE r == Rule(m, m.match.port)
           L == todo'
<1>0. Typed
  BY TypedIsType DEF SeenInv
<1>1. act[Default] = ToCpu /\ \A n \in Slots : Agrees(n, View)
  BY SettledWhenDone DEF Puts
<1>2. /\ \A n \in Slots : rules'[n] = IF n = i THEN r ELSE rules[n]
      /\ \A n \in Slots : stats'[n] = IF n = i THEN m ELSE stats[n]
      /\ hw' = hw /\ act' = act /\ op' = "write" /\ was' = View
      /\ Lists(L, i, r)
  BY <1>0 DEF Typed, Puts
<1>3. /\ L \in Seq(RegWrite) /\ Len(L) \in Nat /\ Len(L) >= 7
      /\ \A p \in 1 .. Len(L) : /\ L[p].i = i /\ L[p].v = r[L[p].reg]
                                /\ L[p].reg = "valid" => p > 3
      /\ L[1].reg = "action" /\ L[2].reg = "key" /\ L[3].reg = "mask"
      /\ L[5].reg = "valid"
  BY <1>2 DEF Lists
<1>4. /\ 1 \in 1 .. Len(L) /\ 2 \in 1 .. Len(L) /\ 3 \in 1 .. Len(L)
      /\ 5 \in 1 .. Len(L)
  BY <1>3
<1>5. /\ Pending("action", i)' /\ Pending("valid", i)'
      /\ BeforeValid("action")' /\ BeforeValid("key")' /\ BeforeValid("mask")'
  <2>1. Pending("action", i)' /\ Pending("valid", i)'
    BY <1>3, <1>4 DEF Pending
  <2>2. ASSUME NEW p \in 1 .. Len(L), L[p].reg = "valid"
        PROVE  1 < p /\ 2 < p /\ 3 < p
    BY <1>3, <2>2
  <2>3. BeforeValid("action")'
    BY <1>3, <1>4, <2>2 DEF BeforeValid
  <2>4. BeforeValid("key")'
    BY <1>3, <1>4, <2>2 DEF BeforeValid
  <2>5. BeforeValid("mask")'
    BY <1>3, <1>4, <2>2 DEF BeforeValid
  <2>6. QED
    BY <2>1, <2>3, <2>4, <2>5
<1>6. i # Default /\ m # NoStats
  BY DefaultNoSlot, NoStatsAssumption
<1>7. /\ r.valid = 1 /\ r.md5 = md5(m) /\ r.mask = m.match.mask
      /\ r.key = m.match.port /\ md5(m)[1] = m.match.port
      /\ md5(m)[2] = m.match.mask
  BY DEF Rule, md5
<1> HIDE DEF L, r
<1>8. DefaultInv'
  <2>1. \A p \in 1 .. Len(todo') : todo'[p].i # Default
    BY <1>3, <1>6 DEF L
  <2>2. act'[Default] = ToCpu
    BY <1>1, <1>2
  <2>3. QED
    BY <2>1, <2>2 DEF DefaultInv
<1>9. \A n \in Slots :
        /\ View[n].valid = rules[n].valid
        /\ View[n].key = rules[n].key /\ View[n].mask = rules[n].mask
  BY <1>0, ViewIs DEF Typed
<1>10. \A n \in Slots : n # i => View'[n] = View[n]
  BY <1>2 DEF View
<1>11. ASSUME NEW n \in Slots \ {i} PROVE Agrees(n, View)' /\ Agrees(n, was)'
  BY <1>1, <1>2, <1>10 DEF Agrees
<1>12. CASE rules[i].valid = 0
  <2>1. Filling(i)'
    <3>1. was'[i].valid = 0 /\ hw'[i].valid = 0
      BY <1>1, <1>2, <1>9, <1>12 DEF Agrees
    <3>2. QED
      BY <1>5, <3>1 DEF Filling
  <2>2. Writing(i)'
    BY <1>2, <1>3, <1>6, <1>7, <1>11, <2>1 DEF Writing, L
  <2>3. QED
    BY <1>2, <1>8, <2>2 DEF SeenInv
<1>13. CASE i \in Holding(rules, md5(m))
  <2>1. /\ rules[i].valid = 1 /\ rules[i].key = r.key
        /\ rules[i].mask = r.mask
    BY <1>7, <1>13 DEF Holding, SeenInv, MatchByDigest
  <2>2. /\ was'[i].valid = 1 /\ hw'[i].valid = 1
        /\ was'[i].key = r.key /\ hw'[i].key = r.key
        /\ was'[i].mask = r.mask /\ hw'[i].mask = r.mask
        /\ act'[i] = was'[i].action
    BY <1>1, <1>2, <1>9, <2>1 DEF Agrees
  <2>3. Replacing(i)'
    BY <1>2, <1>5, <2>2 DEF Replacing
  <2>4. Writing(i)'
    BY <1>2, <1>3, <1>6, <1>7, <1>11, <2>3 DEF Writing, L
  <2>5. QED
    BY <1>2, <1>8, <2>4 DEF SeenInv
<1>14. QED
  BY <1>12, <1>13

LEMMA DefaultSeen ==
  ASSUME SeenInv, TypeInv', MatchByDigest',
         NEW m \in ofp_flow_stats, SetsDefaultAction(m)
  PROVE  SeenInv'
<1>0. Typed
  BY TypedIsType DEF SeenInv
<1>1. act[Default] = ToCpu /\ \A n \in Slots : Agrees(n, View)
  BY SettledWhenDone DEF SetsDefaultAction
<1>2. /\ rules' = rules /\ hw' = hw /\ act' = act /\ op' = "write"
      /\ was' = View /\ todo' \in Seq(RegWrite)
      /\ \A n \in Slots : stats'[n] = stats[n]
  BY <1>0, DefaultNoSlot DEF Typed, SetsDefaultAction
<1>3. \A p \in 1 .. Len(todo') : todo'[p].i = Default /\ todo'[p].v = ToCpu
  BY DEF SetsDefaultAction, Has
<1>4. View' = View
  BY <1>2 DEF View
<1>5. Writing(Default)'
  BY <1>1, <1>2, <1>3, <1>4, DefaultNoSlot DEF Writing, Agrees
<1>6. DefaultInv'
  BY <1>1, <1>2, <1>3 DEF DefaultInv
<1>7. QED
  BY <1>2, <1>5, <1>6 DEF SeenInv

LEMMA HasPending ==
  ASSUME NEW reg, NEW i, NEW v, Has(todo, [reg |-> reg, i |-> i, v |-> v])
  PROVE  Pending(reg, i)
<1>1. PICK p \in 1 .. Len(todo) : [reg |-> reg, i |-> i, v |-> v] = todo[p]
  BY DEF Has
<1>2. todo[p].reg = reg /\ todo[p].i = i
  BY <1>1
<1>3. QED
  BY <1>2 DEF Pending

LEMMA HasPendingNext ==
  ASSUME NEW reg, NEW i, NEW v, Has(todo', [reg |-> reg, i |-> i, v |-> v])
  PROVE  Pending(reg, i)'
<1>1. PICK p \in 1 .. Len(todo') : [reg |-> reg, i |-> i, v |-> v] = todo'[p]
  BY DEF Has
<1>2. todo'[p].reg = reg /\ todo'[p].i = i
  BY <1>1
<1>3. QED
  BY <1>2 DEF Pending

LEMMA InitSeen ==
  ASSUME TypeInv, MatchByDigest, rules = NoRules, todo = init_writes(ToCpu),
         op = "init"
  PROVE  SeenInv
<1>0. Typed
  BY TypedIsType
<1>1. ASSUME NEW p \in 1 .. Len(todo)
      PROVE  /\ todo[p].i = Default => todo[p].v = ToCpu
             /\ todo[p].reg = "valid" => todo[p].v = 0
  <2>1. Has(todo, todo[p])
    BY DEF Has
  <2>2. \/ todo[p] = [reg |-> "action", i |-> Default, v |-> ToCpu]
        \/ \E i \in Slots, reg \in {"key", "mask", "prio", "valid", "action"} :
             todo[p] = [reg |-> reg, i |-> i, v |-> 0]
    BY <2>1, InitWritesAre
  <2>3. CASE todo[p] = [reg |-> "action", i |-> Default, v |-> ToCpu]
    BY <2>3
  <2>4. ASSUME NEW i \in Slots, NEW reg,
               todo[p] = [reg |-> reg, i |-> i, v |-> 0]
        PROVE  todo[p].i # Default /\ todo[p].v = 0
    BY <2>4, DefaultNoSlot
  <2>5. QED
    BY <2>2, <2>3, <2>4
<1>2. /\ Has(todo, [reg |-> "action", i |-> Default, v |-> ToCpu])
      /\ \A n \in Slots : Has(todo, [reg |-> "valid", i |-> n, v |-> 0])
  BY InitWritesAre
<1>3. Pending("action", Default) /\ \A n \in Slots : Pending("valid", n)
  BY <1>2, HasPending
<1>4. \A n \in Slots : rules[n].valid = 0
  BY DEF NoRules, zero_rule
<1>5. QED
  BY <1>1, <1>3, <1>4 DEF SeenInv, DefaultInv, Initialising

LEMMA ClearsSeen ==
  ASSUME SeenInv, TypeInv', MatchByDigest', NEW D \in SUBSET Slots,
         NEW Z \in SUBSET Slots, D \subseteq Z, Clears(D, Z)
  PROVE  SeenInv'
<1>0. Typed
  BY TypedIsType DEF SeenInv
<1>1. act[Default] = ToCpu /\ \A n \in Slots : Agrees(n, View)
  BY SettledWhenDone DEF Clears
<1>2. /\ hw' = hw /\ act' = act /\ op' = "delete" /\ was' = View
      /\ \A n \in Slots : rules'[n] = IF n \in D THEN zero_rule ELSE rules[n]
      /\ \A n \in Slots : stats'[n] = IF n \in Z THEN NoStats ELSE stats[n]
  BY DEF Clears
<1>3. ASSUME NEW p \in 1 .. Len(todo')
      PROVE  /\ todo'[p].i \in Z /\ todo'[p].v = 0
             /\ todo'[p].reg \in {"action", "prio", "valid"}
             /\ todo'[p].reg = "valid" => todo'[p].i \in D
  BY DEF Clears, Has
<1>4. /\ \A n \in Z : Pending("action", n)'
      /\ \A n \in D : Pending("valid", n)'
  <2>1. /\ \A n \in Z : Has(todo', [reg |-> "action", i |-> n, v |-> 0])
        /\ \A n \in D : Has(todo', [reg |-> "valid", i |-> n, v |-> 0])
    BY DEF Clears
  <2>2. QED
    BY <2>1, HasPendingNext
<1>5. \A n \in Slots :
        /\ View[n].valid = rules[n].valid
        /\ View[n].key = rules[n].key /\ View[n].mask = rules[n].mask
        /\ rules[n].valid \in {0, 1}
  BY <1>0, ViewIs DEF Typed, RuleType
<1>6. /\ \A n \in Z : View'[n].action = ACTION_DROP
      /\ \A n \in Slots \ Z : View'[n] = View[n]
  <2>1. rules' \in [Slots -> RuleType]
    BY DEF TypeInv, TypeOK, TableTypeOK, RuleType
  <2>2. \A n \in Z : View'[n].action = ACTION_DROP
    BY <1>2, <2>1, ViewIsNext
  <2>3. \A n \in Slots \ Z : View'[n] = View[n]
    BY <1>2 DEF View
  <2>4. QED
    BY <2>2, <2>3
<1>7. zero_rule.valid = 0
  BY DEF zero_rule
<1>8. ASSUME NEW n \in Slots
      PROVE  /\ hw'[n].valid = 1 =>
                  /\ was'[n].valid = 1
                  /\ hw'[n].key = was'[n].key /\ hw'[n].mask = was'[n].mask
                  /\ act'[n] = was'[n].action
                  /\ rules'[n].valid = 0 => Pending("valid", n)'
             /\ rules'[n].valid = 1 =>
                  /\ hw'[n].valid = 1 /\ rules'[n].key = was'[n].key
                  /\ rules'[n].mask = was'[n].mask
                  /\ act'[n] = View'[n].action \/ Pending("action", n)'
  BY <1>1, <1>2, <1>4, <1>5, <1>6, <1>7 DEF Agrees
<1>9. Deleting'
  BY <1>2, <1>3, <1>6, <1>7, <1>8 DEF Deleting
<1>10. DefaultInv'
  BY <1>1, <1>2, <1>3, DefaultNoSlot DEF DefaultInv
<1>11. QED
  BY <1>2, <1>9, <1>10 DEF SeenInv

-----------------------------------------------------------------------------
\* A write that is still to come comes nearer.
LEMMA PendingKept ==
  ASSUME TypeInv, fast_reg_wr, NEW reg, NEW i, Pending(reg, i)
  PROVE  Pending(reg, i)' \/ (todo[1].reg = reg /\ todo[1].i = i)
<1>1. /\ Len(todo) \in Nat \ {0} /\ Len(todo') = Len(todo) - 1
      /\ \A p \in 1 .. Len(todo') : todo'[p] = todo[p + 1]
  BY RegStep
<1>2. PICK p \in 1 .. Len(todo) : todo[p].reg = reg /\ todo[p].i = i
  BY DEF Pending
<1>3. CASE p # 1
  <2>1. p - 1 \in 1 .. Len(todo') /\ (p - 1) + 1 = p
    BY <1>1, <1>3
  <2>2. todo'[p - 1] = todo[p]
    BY <1>1, <2>1
  <2>3. QED
    BY <1>2, <2>1, <2>2 DEF Pending
<1>4. QED
  BY <1>2, <1>3

LEMMA BeforeKept ==
  ASSUME TypeInv, fast_reg_wr, NEW reg, BeforeValid(reg)
  PROVE  /\ BeforeValid(reg)' \/ todo[1].reg = reg
         /\ todo[1].reg # "valid"
<1>1. /\ Len(todo) \in Nat \ {0} /\ Len(todo') = Len(todo) - 1
      /\ \A p \in 1 .. Len(todo') : todo'[p] = todo[p + 1]
  BY RegStep
<1>2. PICK q \in 1 .. Len(todo) :
        /\ todo[q].reg = reg
        /\ \A p \in 1 .. Len(todo) : todo[p].reg = "valid" => q < p
  BY DEF BeforeValid
<1>3. todo[1].reg # "valid"
  BY <1>1, <1>2
<1>4. CASE q # 1
  <2>1. q - 1 \in 1 .. Len(todo') /\ (q - 1) + 1 = q
    BY <1>1, <1>4
  <2>2. todo'[q - 1].reg = reg
    BY <1>1, <1>2, <2>1
  <2>3. ASSUME NEW p \in 1 .. Len(todo'), todo'[p].reg = "valid"
        PROVE  q - 1 < p
    <3>1. p + 1 \in 1 .. Len(todo) /\ todo[p + 1].reg = "valid"
      BY <1>1, <2>3
    <3>2. q < p + 1
      BY <1>2, <3>1
    <3>3. QED
      BY <1>1, <3>2
  <2>4. QED
    BY <1>3, <2>1, <2>2, <2>3 DEF BeforeValid
<1>5. QED
  BY <1>2, <1>3, <1>4

\* What is said of every pending write is said of those that remain.
LEMMA StillPending ==
  ASSUME TypeInv, fast_reg_wr, NEW p \in 1 .. Len(todo')
  PROVE  \E q \in 1 .. Len(todo) : todo'[p] = todo[q]
<1>1. /\ Len(todo) \in Nat \ {0} /\ Len(todo') = Len(todo) - 1
      /\ \A n \in 1 .. Len(todo') : todo'[n] = todo[n + 1]
  BY RegStep
<1>2. p + 1 \in 1 .. Len(todo) /\ todo'[p] = todo[p + 1]
  BY <1>1
<1>3. QED
  BY <1>2

LEMMA RegSeen ==
  ASSUME SeenInv, TypeInv', MatchByDigest', Writes
  PROVE  SeenInv'
<1> DEFINE w == todo[1]
<1>0. Typed /\ TypeInv /\ fast_reg_wr
  BY TypedIsType DEF SeenInv, Writes
<1>1. /\ rules' = rules /\ stats' = stats /\ op' = op /\ was' = was
      /\ View' = View
  BY DEF Writes, fast_reg_wr, View
<1>2. /\ w \in RegWrite /\ 1 \in 1 .. Len(todo)
      /\ \A n \in Slots :
           /\ hw'[n].valid = IF w.reg = "valid" /\ w.i = n THEN w.v
                             ELSE hw[n].valid
           /\ hw'[n].key = IF w.reg = "key" /\ w.i = n THEN w.v
                           ELSE hw[n].key
           /\ hw'[n].mask = IF w.reg = "mask" /\ w.i = n THEN w.v
                            ELSE hw[n].mask
      /\ \A n \in Slots \cup {Default} :
           act'[n] = IF w.reg = "action" /\ w.i = n THEN w.v ELSE act[n]
  BY <1>0, RegStep
<1>3. \A p \in 1 .. Len(todo') : \E q \in 1 .. Len(todo) : todo'[p] = todo[q]
  BY <1>0, StillPending
<1>4. \A reg, i : Pending(reg, i) =>
                    Pending(reg, i)' \/ (w.reg = reg /\ w.i = i)
  BY <1>0, PendingKept
<1>5. \A reg : BeforeValid(reg) =>
                 (BeforeValid(reg)' \/ w.reg = reg) /\ w.reg # "valid"
  BY <1>0, BeforeKept
<1>6. /\ w.reg \in {"key", "mask", "prio", "valid", "action"}
      /\ w.reg # "action" => w.i \in Slots
  BY <1>2 DEF RegWrite
<1>7. \A n \in Slots : rules[n].valid \in {0, 1} /\ hw[n].valid \in {0, 1}
  BY <1>0 DEF Typed, RuleType
<1>8. \A n \in Slots :
        /\ View[n].valid = rules[n].valid
        /\ View[n].key = rules[n].key /\ View[n].mask = rules[n].mask
        /\ stats[n] # NoStats => View[n] = rules[n]
  BY <1>0, ViewIs DEF Typed
<1> HIDE DEF w
<1>9. DefaultInv'
  <2>1. DefaultInv
    BY DEF SeenInv
  <2>2. \A p \in 1 .. Len(todo') : todo'[p].i = Default => todo'[p].v = ToCpu
    BY <1>3, <2>1 DEF DefaultInv
  <2>3. w.i = Default => w.v = ToCpu
    BY <1>2, <2>1 DEF DefaultInv, w
  <2>4. act'[Default] = IF w.reg = "action" /\ w.i = Default THEN w.v
                        ELSE act[Default]
    BY <1>2
  <2>5. act'[Default] = ToCpu \/ (op' = "init" /\ Pending("action", Default)')
    BY <1>1, <1>4, <2>1, <2>3, <2>4 DEF DefaultInv
  <2>6. QED
    BY <2>2, <2>5 DEF DefaultInv
<1>10. CASE op = "init"
  <2>1. Initialising
    BY <1>10 DEF SeenInv
  <2>2. \A p \in 1 .. Len(todo') : todo'[p].reg = "valid" => todo'[p].v = 0
    BY <1>3, <2>1 DEF Initialising
  <2>3. w.reg = "valid" => w.v = 0
    BY <1>2, <2>1 DEF Initialising, w
  <2>4. ASSUME NEW n \in Slots
        PROVE  rules'[n].valid = 0 /\ (hw'[n].valid = 0 \/ Pending("valid", n)')
    BY <1>1, <1>2, <1>4, <2>1, <2>3 DEF Initialising
  <2>5. Initialising'
    BY <2>2, <2>4 DEF Initialising
  <2>6. QED
    BY <1>1, <1>9, <1>10, <2>5 DEF SeenInv
<1>11. CASE op = "write"
  <2>1. PICK i \in Slots \cup {Default} : Writing(i)
    BY <1>11 DEF SeenInv
  <2>2. /\ w.i = i
        /\ i \in Slots => w.v = rules[i][w.reg]
    BY <1>2, <2>1 DEF Writing, w
  <2>3. \A p \in 1 .. Len(todo') :
          /\ todo'[p].i = i
          /\ i \in Slots => todo'[p].v = rules'[i][todo'[p].reg]
    BY <1>1, <1>3, <2>1 DEF Writing
  <2>4. ASSUME NEW n \in Slots \ {i}
        PROVE  Agrees(n, View)' /\ Agrees(n, was)'
    <3>1. /\ hw'[n].valid = hw[n].valid /\ hw'[n].key = hw[n].key
          /\ hw'[n].mask = hw[n].mask /\ act'[n] = act[n]
      BY <1>2, <2>2
    <3>2. QED
      BY <1>1, <2>1, <3>1 DEF Writing, Agrees
  <2>5. ASSUME i \in Slots, Replacing(i) PROVE Replacing(i)'
    <3>1. rules[i].valid = 1
      BY <2>1, <2>5 DEF Writing
    <3>2. /\ hw'[i].valid = 1 /\ hw'[i].key = rules[i].key
          /\ hw'[i].mask = rules[i].mask
      BY <1>2, <2>2, <2>5, <3>1 DEF Replacing
    <3>3. \/ act'[i] = rules[i].action
          \/ act'[i] = was[i].action /\ Pending("action", i)'
      BY <1>2, <1>4, <2>2, <2>5 DEF Replacing
    <3>4. QED
      BY <1>1, <2>5, <3>2, <3>3 DEF Replacing
  <2>6. ASSUME i \in Slots, Filling(i) PROVE Filling(i)'
    <3>1. rules[i].valid = 1
      BY <2>1, <2>6 DEF Writing
    <3>2. hw'[i].key = rules[i].key \/ BeforeValid("key")'
      BY <1>2, <1>5, <2>2, <2>6 DEF Filling
    <3>3. hw'[i].mask = rules[i].mask \/ BeforeValid("mask")'
      BY <1>2, <1>5, <2>2, <2>6 DEF Filling
    <3>4. act'[i] = rules[i].action \/ BeforeValid("action")'
      BY <1>2, <1>5, <2>2, <2>6 DEF Filling
    <3>5. hw'[i].valid = 1 \/ Pending("valid", i)'
      BY <1>2, <1>4, <2>2, <2>6, <3>1 DEF Filling
    <3>6. ASSUME hw'[i].valid = 1
          PROVE  /\ hw'[i].key = rules[i].key /\ hw'[i].mask = rules[i].mask
                 /\ act'[i] = rules[i].action
      <4>1. CASE hw[i].valid = 1
        <5>1. /\ hw[i].key = rules[i].key /\ hw[i].mask = rules[i].mask
              /\ act[i] = rules[i].action
          BY <2>6, <3>1, <4>1 DEF Filling, Agrees
        <5>2. QED
          BY <1>2, <2>2, <2>6, <5>1
      <4>2. CASE hw[i].valid # 1
        <5>1. w.reg = "valid"
          BY <1>2, <2>6, <3>6, <4>2
        <5>2. /\ hw[i].key = rules[i].key /\ hw[i].mask = rules[i].mask
              /\ act[i] = rules[i].action
          BY <1>5, <2>6, <5>1 DEF Filling
        <5>3. QED
          BY <1>2, <2>6, <5>1, <5>2
      <4>3. QED
        BY <4>1, <4>2
    <3>7. hw'[i].valid = 1 => Agrees(i, rules)'
      BY <1>1, <3>1, <3>6 DEF Agrees
    <3>8. QED
      BY <1>1, <2>6, <3>2, <3>3, <3>4, <3>5, <3>7 DEF Filling
  <2>7. Writing(i)'
    BY <1>1, <2>1, <2>3, <2>4, <2>5, <2>6 DEF Writing
  <2>8. QED
    BY <1>1, <1>9, <1>11, <2>7 DEF SeenInv
<1>12. CASE op = "delete"
  <2>1. Deleting
    BY <1>12 DEF SeenInv
  <2>2. ASSUME NEW p \in 1 .. Len(todo')
        PROVE  /\ todo'[p].i \in Slots /\ todo'[p].v = 0
               /\ todo'[p].reg \in {"action", "prio", "valid"}
               /\ todo'[p].reg = "valid" => rules[todo'[p].i].valid = 0
               /\ todo'[p].reg = "action" =>
                    View[todo'[p].i].action = ACTION_DROP
    <3>1. PICK q \in 1 .. Len(todo) : todo'[p] = todo[q]
      BY <1>3
    <3>2. QED
      BY <2>1, <3>1 DEF Deleting
  <2>3. /\ w.i \in Slots /\ w.v = 0 /\ w.reg \in {"action", "prio", "valid"}
        /\ w.reg = "valid" => rules[w.i].valid = 0
        /\ w.reg = "action" => View[w.i].action = ACTION_DROP
    BY <1>2, <2>1 DEF Deleting, w
  <2>4. ASSUME NEW n \in Slots, hw'[n].valid = 1
        PROVE  /\ was[n].valid = 1
               /\ hw'[n].key = was[n].key /\ hw'[n].mask = was[n].mask
               /\ act'[n] \in {was[n].action, ACTION_DROP}
               /\ rules[n].valid = 0 => Pending("valid", n)'
    <3>1. hw[n].valid = 1 /\ ~(w.reg = "valid" /\ w.i = n)
      BY <1>2, <2>3, <2>4
    <3>2. /\ hw'[n].key = hw[n].key /\ hw'[n].mask = hw[n].mask
          /\ act'[n] \in {act[n], ACTION_DROP}
      BY <1>2, <2>3 DEF ACTION_DROP
    <3>3. QED
      BY <1>4, <2>1, <3>1, <3>2 DEF Deleting
  <2>5. ASSUME NEW n \in Slots, rules[n].valid = 1
        PROVE  /\ hw'[n].valid = 1
               /\ rules[n].key = was[n].key /\ rules[n].mask = was[n].mask
               /\ act'[n] = View[n].action \/ Pending("action", n)'
    <3>1. /\ hw[n].valid = 1
          /\ rules[n].key = was[n].key /\ rules[n].mask = was[n].mask
          /\ act[n] = View[n].action \/ Pending("action", n)
      BY <2>1, <2>5 DEF Deleting
    <3>2. hw'[n].valid = 1
      BY <1>2, <2>3, <2>5, <3>1
    <3>3. act'[n] = View[n].action \/ Pending("action", n)'
      BY <1>2, <1>4, <2>3, <3>1 DEF ACTION_DROP
    <3>4. QED
      BY <3>1, <3>2, <3>3
  <2>6. Deleting'
    BY <1>1, <2>2, <2>4, <2>5 DEF Deleting
  <2>7. QED
    BY <1>1, <1>9, <1>12, <2>6 DEF SeenInv
<1>13. QED
  BY <1>0, <1>10, <1>11, <1>12 DEF Typed

LEMMA SeenStep ==
  ASSUME FirstObx = 1, SeenInv, [Next]_vars
  PROVE  SeenInv'
<1>1. TypeInv /\ TypeInv'
  <2>1. Typed' <=> TypeInv'
    BY TypedIsType, PTL
  <2>2. QED
    BY <2>1, StepTyped DEF SeenInv
<1>2. MatchByDigest'
  BY DigestStep DEF SeenInv
<1>3. CASE ofp_init
  <2>1. rules' = NoRules /\ todo' = init_writes(ToCpu) /\ op' = "init"
    BY <1>3 DEF ofp_init, init_rule
  <2>2. (TypeInv /\ MatchByDigest /\ rules = NoRules /\ todo = init_writes(ToCpu)
         /\ op = "init" => SeenInv)'
    BY InitSeen, PTL
  <2>3. QED
    BY <1>1, <1>2, <2>1, <2>2
<1>4. CASE UNCHANGED vars
  <2>1. /\ rules' = rules /\ hw' = hw /\ act' = act /\ todo' = todo
        /\ stats' = stats /\ op' = op /\ was' = was /\ View' = View
    BY <1>4 DEF vars, tableVars, View
  <2>2. QED
    BY <1>1, <1>2, <2>1
       DEF SeenInv, DefaultInv, Initialising, Writing, Replacing, Filling,
           Deleting, Agrees, Pending, BeforeValid
<1>5. \A m \in ofp_flow_stats : Holding(rules, md5(m)) \subseteq Slots
  BY DEF Holding
<1>6. {} \in SUBSET Slots /\ Slots \in SUBSET Slots
  OBVIOUS
<1>7. QED
  BY <1>1, <1>2, <1>3, <1>4, <1>5, <1>6, StepShapes, PortIsKey,
     PutsSeen, ClearsSeen, DefaultSeen, RegSeen

LEMMA SeenInit == Init => SeenInv
<1> SUFFICES ASSUME Init PROVE SeenInv
  OBVIOUS
<1>1. TypeInv
  BY InitTyped, TypedIsType
<1>2. MatchByDigest
  BY DEF Init, TableInit, NoRules, zero_rule, MatchByDigest
<1>3. rules = NoRules /\ todo = init_writes(ToCpu) /\ op = "init"
  BY DEF Init, TableInit
<1>4. QED
  BY <1>1, <1>2, <1>3, InitSeen

\* Where engine and table agree they answer alike.
LEMMA AgreeingAnswer ==
  ASSUME NEW t, NEW k, act[Default] = ToCpu, \A n \in Slots : Agrees(n, t)
  PROVE  HwAnswer(k) = Answer(t, k)
<1>1. HwMatching(k) = Matching(t, k)
  BY DEF HwMatching, Matching, Agrees, cmp_key32
<1>2. CASE Matching(t, k) = {}
  BY <1>1, <1>2 DEF HwAnswer, LeastOr, Answer
<1>3. CASE Matching(t, k) # {}
  <2>1. Matching(t, k) \in SUBSET Slots
    BY DEF Matching
  <2>2. Least(Matching(t, k)) \in Matching(t, k)
    BY <1>3, <2>1, LeastIn
  <2>3. act[Least(Matching(t, k))] = t[Least(Matching(t, k))].action
    BY <2>2 DEF Matching, Agrees
  <2>4. QED
    BY <1>1, <1>3, <2>3 DEF HwAnswer, LeastOr, Answer, fast_match_rule
<1>4. QED
  BY <1>2, <1>3

LEMMA SeenWhole == SeenInv => UpdatesSeenWhole
<1> SUFFICES ASSUME SeenInv PROVE UpdatesSeenWhole
  OBVIOUS
<1>0. Typed
  BY TypedIsType DEF SeenInv
<1>1. op # "init" => act[Default] = ToCpu
  BY DEF SeenInv, DefaultInv
<1>2. ASSUME todo = <<>>, NEW k PROVE HwAnswer(k) = Answer(View, k)
  BY <1>2, SettledWhenDone, AgreeingAnswer
<1>3. ASSUME op = "write", NEW k
      PROVE  HwAnswer(k) \in {Answer(was, k), Answer(View, k)}
  <2>1. PICK i \in Slots \cup {Default} : Writing(i)
    BY <1>3 DEF SeenInv
  <2>2. i \in Slots => View[i] = rules[i]
    BY <1>0, <2>1, ViewIs DEF Typed, Writing
  <2>3. i \in Slots => Agrees(i, was) \/ Agrees(i, View)
    <3>1. ASSUME i \in Slots, Replacing(i)
          PROVE  Agrees(i, was) \/ Agrees(i, View)
      BY <2>1, <2>2, <3>1 DEF Writing, Replacing, Agrees
    <3>2. ASSUME i \in Slots, Filling(i)
          PROVE  Agrees(i, was) \/ Agrees(i, View)
      <4>1. hw[i].valid \in {0, 1}
        BY <1>0, <3>2 DEF Typed
      <4>2. QED
        BY <2>2, <3>2, <4>1 DEF Filling, Agrees
    <3>3. QED
      BY <2>1, <3>1, <3>2 DEF Writing
  <2>4. (\A n \in Slots : Agrees(n, was)) \/ (\A n \in Slots : Agrees(n, View))
    BY <2>1, <2>3 DEF Writing
  <2>5. QED
    BY <1>1, <1>3, <2>4, AgreeingAnswer
<1>4. ASSUME op = "delete", NEW k
      PROVE  \/ HwAnswer(k) = Answer(View, k)
             \/ HwAnswer(k) = ACTION_DROP /\ Matching(was, k) # {}
             \/ HwAnswer(k) \in {was[i].action : i \in Matching(was, k)}
  <2>1. Deleting
    BY <1>4 DEF SeenInv
  <2>2. CASE HwMatching(k) = {}
    <3>1. \A n \in Slots : /\ View[n].valid = rules[n].valid
                           /\ View[n].key = rules[n].key
                           /\ View[n].mask = rules[n].mask
      BY <1>0, ViewIs DEF Typed
    <3>2. ASSUME NEW n \in Matching(View, k) PROVE FALSE
      <4>1. n \in Slots /\ rules[n].valid = 1 /\ cmp_key32(View[n], k)
        BY <3>1 DEF Matching
      <4>2. hw[n].valid = 1 /\ hw[n].key = View[n].key /\ hw[n].mask = View[n].mask
        BY <2>1, <3>1, <4>1 DEF Deleting
      <4>3. QED
        BY <2>2, <4>1, <4>2 DEF HwMatching, cmp_key32
    <3>3. Answer(View, k) = ToCpu /\ HwAnswer(k) = act[Default]
      BY <2>2, <3>2 DEF Answer, HwAnswer, LeastOr
    <3>4. QED
      BY <1>1, <1>4, <3>3
  <2>3. CASE HwMatching(k) # {}
    <3> DEFINE n == Least(HwMatching(k))
    <3>1. HwMatching(k) \in SUBSET Slots
      BY DEF HwMatching
    <3>2. n \in HwMatching(k) /\ HwAnswer(k) = act[n]
      BY <2>3, <3>1, LeastIn DEF HwAnswer, LeastOr
    <3> HIDE DEF n
    <3>3. /\ n \in Slots /\ was[n].valid = 1
          /\ hw[n].key = was[n].key /\ hw[n].mask = was[n].mask
          /\ act[n] \in {was[n].action, ACTION_DROP}
          /\ cmp_key32(hw[n], k)
      BY <2>1, <3>2 DEF HwMatching, Deleting
    <3>4. n \in Matching(was, k)
      BY <3>3 DEF Matching, cmp_key32
    <3>5. QED
      BY <3>2, <3>3, <3>4
  <2>4. QED
    BY <2>2, <2>3
<1>5. QED
  BY <1>0, <1>2, <1>3, <1>4 DEF Typed, UpdatesSeenWhole

\* For every size of the table and whatever messages come: while registers are
\* written packets meet the table before the message or the one after it, and
\* between messages, and after every restart, what the statistics say.  Only
\* deletions show steps in between, as UpdatesSeenWhole says.  The assumption
\* is that of ReportsAreTrue: otherwise modify_strict changes the match, too.
THEOREM MessagesSeenWhole == FirstObx = 1 => (Spec => []UpdatesSeenWhole)
<1> SUFFICES ASSUME FirstObx = 1 PROVE Spec => []UpdatesSeenWhole
  OBVIOUS
<1>1. SeenInv /\ [Next]_vars => SeenInv'
  BY SeenStep
<1>2. QED
  BY <1>1, SeenInit, SeenWhole, PTL DEF Spec

-----------------------------------------------------------------------------
(***************************************************************************)
(* The default action and its entry in the statistics.                     *)
(***************************************************************************)

\* Only a message that sends to the controller whatever matches nothing sets
\* the entry, and only a restart, which sets the same action, removes it.
DefaultReported ==
  stats[Default] # NoStats => default_rule(stats[Default]) /\ op # "init"

LEMMA DefaultAction ==
  ASSUME SeenInv, DefaultReported, stats[Default] # NoStats
  PROVE  /\ stats[Default].match.mask = 0
         /\ act[Default] = rule_action(stats[Default])
<1>1. default_rule(stats[Default]) /\ op # "init"
  BY DEF DefaultReported
<1>2. rule_action(stats[Default]) = ToCpu
  BY <1>1 DEF default_rule, rule_action, CONTROLLER, NoOutput
<1>3. act[Default] = ToCpu
  BY <1>1 DEF SeenInv, DefaultInv
<1>4. QED
  BY <1>1, <1>2, <1>3 DEF default_rule

LEMMA DefaultStep ==
  ASSUME ReportInv, DefaultReported, [Next]_vars
  PROVE  DefaultReported'
<1>1. stats = [n \in Slots \cup {Default} |-> stats[n]]
  BY DEF ReportInv
<1>2. ASSUME NEW m \in ofp_flow_stats, set_default(m)
      PROVE  stats'[Default] = m /\ default_rule(m) /\ op' = "write"
  BY <1>1, <1>2 DEF set_default, SetsDefault, History
<1>3. ASSUME NEW i \in Slots, NEW m, stats' = [stats EXCEPT ![i] = m]
      PROVE  stats'[Default] = stats[Default]
  BY <1>1, <1>3, DefaultNoSlot
<1>4. ASSUME NEW c \in Adding, NEW m \in ofp_flow_stats, readd_flow(c, m)
      PROVE  stats'[Default] = stats[Default] /\ op' = "write"
  BY <1>3, <1>4, AddedIsFree DEF readd_flow, History
<1>5. ASSUME NEW m \in ofp_flow_stats, modify_strict(m)
      PROVE  stats'[Default] = stats[Default] /\ op' = "write"
  <2>1. Idx(m) \in Slots
    BY <1>5, ExistsFinds DEF modify_strict, Known, Idx, Holding
  <2>2. QED
    BY <1>3, <1>5, <2>1 DEF modify_strict, History
<1>6. ASSUME NEW m \in ofp_flow_stats, delete_strict(m)
      PROVE  stats'[Default] = stats[Default] /\ op' = "delete"
  <2>1. Idx(m) \in Slots
    BY <1>6, ExistsFinds DEF delete_strict, Known, Idx, Holding
  <2>2. QED
    BY <1>3, <1>6, <2>1 DEF delete_strict, History
<1>7. ASSUME handle_flow_mod_delete
      PROVE  stats'[Default] = stats[Default] /\ op' = "delete"
  BY <1>7, DefaultNoSlot
     DEF handle_flow_mod_delete, delete_all, delete_cookie, History
<1>8. ASSUME ofp_init PROVE stats'[Default] = NoStats
  BY <1>8 DEF ofp_init
<1>9. ASSUME Writes \/ UNCHANGED vars PROVE stats' = stats /\ op' = op
  BY <1>9 DEF Writes, vars
<1>10. QED
  BY <1>2, <1>4, <1>5, <1>6, <1>7, <1>8, <1>9
     DEF DefaultReported, Next, handle_flow_mod_add, default_rule

\* Where the controller's port numbers are the numbers in the names of the
\* interfaces, every flow it is told of is installed as its message said.  The
\* code needs the assumption: modify_strict writes the controller's number.
THEOREM ReportsAreTrue == FirstObx = 1 => (Spec => []ReportedIsInstalled)
<1> SUFFICES ASSUME FirstObx = 1 PROVE Spec => []ReportedIsInstalled
  OBVIOUS
<1>1. ReportInv /\ SeenInv /\ DefaultReported => ReportedIsInstalled
  BY DefaultNoSlot, DefaultAction DEF ReportInv, RulesReported,
     ReportedIsInstalled, handle_ofpmp_flow_stats
<1>2. ReportInv /\ [Next]_vars => ReportInv'
  BY StepReport
<1>3. SeenInv /\ [Next]_vars => SeenInv'
  BY SeenStep
<1>4. ReportInv /\ DefaultReported /\ [Next]_vars => DefaultReported'
  BY DefaultStep
<1>5. Init => DefaultReported
  BY DEF Init, DefaultReported
<1>6. QED
  BY <1>1, <1>2, <1>3, <1>4, <1>5, InitReport, SeenInit, PTL DEF Spec
=============================================================================
