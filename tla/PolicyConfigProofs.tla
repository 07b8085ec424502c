--------------------------- MODULE PolicyConfigProofs --------------------------
(***************************************************************************)
(* Theorems about PolicyConfig, for any keys, patterns, priorities and     *)
(* number of rules: the two ways of asking for a policy agree, and a clean *)
(* audit is a safe configuration.                                          *)
(***************************************************************************)
EXTENDS PolicyConfig, SequenceTheorems, WellFoundedInduction, TLAPS

LEMMA PolicyMapType == POLICY_MAP \in [PolicyNames -> Policies]
BY DEF POLICY_MAP, PolicyNames, Policies, AUTO, SNAPSHOT, REVIEW, BLOCK

LEMMA KeyOfType == \A t \in ConfigurableTypes : ACTION_FIELD_MAP[t] \in RuleKeys
BY DEF RuleKeys

LEMMA TypesHaveKeys ==
  /\ ConfigurableTypes = {"file.read", "file.write", "file.create", "file.delete",
                          "web.read", "map.dry_run", "map.execute"}
  /\ RuleKeys = {"file_read", "file_write", "file_create", "file_delete",
                 "web_read", "map_dry_run", "map_execute", "unknown"}
  /\ ACTION_FIELD_MAP["file.write"] = "file_write"
  /\ ACTION_FIELD_MAP["file.create"] = "file_create"
  /\ ACTION_FIELD_MAP["file.delete"] = "file_delete"
  /\ ACTION_FIELD_MAP["map.execute"] = "map_execute"
BY DEF ConfigurableTypes, RuleKeys, ACTION_FIELD_MAP

(***************************************************************************)
(* The field map lists every configurable type once.                       *)
(***************************************************************************)
LEMMA FieldOrderIsBijective ==
  /\ \A i \in DOMAIN FieldOrder : FieldOrder[i] \in ConfigurableTypes
  /\ \A t \in ConfigurableTypes : \E i \in DOMAIN FieldOrder : FieldOrder[i] = t
  /\ \A i, j \in DOMAIN FieldOrder : FieldOrder[i] = FieldOrder[j] => i = j
<1>1. DOMAIN FieldOrder = 1 .. 7
  BY DEF FieldOrder
<1>2. /\ FieldOrder[1] = "file.read" /\ FieldOrder[2] = "file.write"
      /\ FieldOrder[3] = "file.create" /\ FieldOrder[4] = "file.delete"
      /\ FieldOrder[5] = "web.read" /\ FieldOrder[6] = "map.dry_run"
      /\ FieldOrder[7] = "map.execute"
  BY DEF FieldOrder
<1> QED
  BY <1>1, <1>2, TypesHaveKeys

(***************************************************************************)
(* The rules a configuration stands for: at most one matches a type, and   *)
(* one does when the type has a key that is set.                           *)
(***************************************************************************)
LEMMA ConfiguredRule ==
  ASSUME NEW c \in Configs, NEW t \in ConfigurableTypes,
         c.rules[ACTION_FIELD_MAP[t]] # Unset
  PROVE  LET rs == rules_from_config(c) IN
         /\ Matching(rs, t) # {}
         /\ rs[match_explicit_rule(rs, t)].policy = POLICY_MAP[c.rules[ACTION_FIELD_MAP[t]]]
<1> DEFINE rs == rules_from_config(c)
<1>1. PICK i \in DOMAIN FieldOrder : FieldOrder[i] = t
  BY FieldOrderIsBijective
<1>2. i \in DOMAIN rs /\ rs[i].pattern = {t}
      /\ rs[i].policy = POLICY_MAP[c.rules[ACTION_FIELD_MAP[t]]]
  BY <1>1 DEF rules_from_config
<1>3. \A j \in DOMAIN rs : t \in rs[j].pattern => j = i
  BY <1>1, FieldOrderIsBijective DEF rules_from_config
<1>4. Matching(rs, t) = {i}
  BY <1>2, <1>3 DEF Matching
<1>5. rs[i].priority = 0 /\ i <= i
  <2>1. i \in Int
    BY <1>1 DEF FieldOrder
  <2>2. rs[i].priority = 0
    BY <1>2 DEF rules_from_config
  <2> QED
    BY <2>1, <2>2
<1>6. SortsBefore(rs, i, i)
  BY <1>5 DEF SortsBefore
<1>7. match_explicit_rule(rs, t) = i
  BY <1>4, <1>6 DEF match_explicit_rule
<1> QED
  BY <1>2, <1>4, <1>7

LEMMA UnconfiguredHasNoRule ==
  ASSUME NEW c \in Configs, NEW t,
         t \in ConfigurableTypes => c.rules[ACTION_FIELD_MAP[t]] = Unset
  PROVE  Matching(rules_from_config(c), t) = {}
BY FieldOrderIsBijective DEF Matching, rules_from_config

(***************************************************************************)
(* explain_policy and the engine of the same configuration agree on every  *)
(* type but api.call: on a key that is set, on a default, and on a type    *)
(* nobody knows.                                                           *)
(***************************************************************************)
LEMMA ExplainAgrees ==
  ASSUME NEW c \in Configs, NEW t, t # "api.call", NEW action, action.action_type = t
  PROVE  explain_policy(t, c).policy = engine_from_config(c, action)
<1> DEFINE rs == rules_from_config(c)
<1>1. CASE t \in ConfigurableTypes /\ c.rules[ACTION_FIELD_MAP[t]] # Unset
  <2>1. /\ Matching(rs, t) # {}
        /\ rs[match_explicit_rule(rs, t)].policy = POLICY_MAP[c.rules[ACTION_FIELD_MAP[t]]]
    BY <1>1, ConfiguredRule
  <2>2. explain_policy(t, c).policy = POLICY_MAP[c.rules[ACTION_FIELD_MAP[t]]]
    BY <1>1 DEF explain_policy
  <2> QED
    BY <2>1, <2>2 DEF engine_from_config, evaluate
<1>2. CASE ~(t \in ConfigurableTypes /\ c.rules[ACTION_FIELD_MAP[t]] # Unset)
  <2>1. Matching(rs, t) = {}
    BY <1>2, UnconfiguredHasNoRule
  <2>2. CASE t \in DOMAIN DEFAULT_POLICIES
    BY <1>2, <2>1, <2>2 DEF engine_from_config, evaluate, explain_policy
  <2>3. CASE t \notin DOMAIN DEFAULT_POLICIES
    BY <1>2, <2>1, <2>3 DEF engine_from_config, evaluate, explain_policy
  <2> QED
    BY <2>2, <2>3
<1> QED
  BY <1>1, <1>2

(***************************************************************************)
(* What an audit without warnings rules out.                               *)
(***************************************************************************)
LEMMA AllowIsAuto ==
  \A policy \in Policies : decision_for_policy(policy) = "allow" => policy = AUTO
BY DEF decision_for_policy, DECISION_MAP, Policies, AUTO, SNAPSHOT, REVIEW, BLOCK

LEMMA AutoIsAuto ==
  \A name \in PolicyNames : POLICY_MAP[name] = AUTO => name = "auto"
BY DEF POLICY_MAP, PolicyNames, AUTO, SNAPSHOT, REVIEW, BLOCK

LEMMA SafeAudit ==
  ASSUME NEW c \in Configs, audit_policy_config(c) = {}, NEW t \in Risky
  PROVE  decision_for_policy(explain_policy(t, c).policy) # "allow"
<1>1. \A key \in {"map_execute", "file_delete", "unknown", "file_write", "file_create"} :
        c.rules[key] # "auto"
  BY DEF audit_policy_config
<1>2. \A key \in RuleKeys : c.rules[key] # Unset => c.rules[key] \in PolicyNames
  BY DEF Configs
<1>3. SUFFICES /\ explain_policy(t, c).policy \in Policies
               /\ explain_policy(t, c).policy # AUTO
  BY AllowIsAuto
<1>4. CASE t \in ConfigurableTypes /\ c.rules[ACTION_FIELD_MAP[t]] # Unset
  <2>1. t \in {"map.execute", "file.delete", "file.write", "file.create"}
    BY <1>4, TypesAssumption DEF Risky, StandardTypes, DEFAULT_POLICIES
  <2>2. c.rules[ACTION_FIELD_MAP[t]] \in PolicyNames \ {"auto"}
    BY <1>1, <1>2, <1>4, <2>1, TypesHaveKeys
  <2> QED
    BY <1>4, <2>2, PolicyMapType, AutoIsAuto DEF explain_policy
<1>5. CASE /\ ~(t \in ConfigurableTypes /\ c.rules[ACTION_FIELD_MAP[t]] # Unset)
           /\ t \in DOMAIN DEFAULT_POLICIES
  <2>1. t \in {"map.execute", "file.delete", "file.write", "file.create"}
    BY <1>5, TypesAssumption DEF Risky, StandardTypes
  <2>2. explain_policy(t, c).policy = DEFAULT_POLICIES[t]
    BY <1>5 DEF explain_policy
  <2>3. DEFAULT_POLICIES[t] \in {SNAPSHOT, REVIEW}
    BY <1>5, <2>1 DEF DEFAULT_POLICIES
  <2> QED
    BY <2>2, <2>3 DEF Policies, AUTO, SNAPSHOT, REVIEW
<1>6. CASE /\ ~(t \in ConfigurableTypes /\ c.rules[ACTION_FIELD_MAP[t]] # Unset)
           /\ t \notin DOMAIN DEFAULT_POLICIES
  <2>1. CASE c.rules["unknown"] # Unset
    <3>1. c.rules["unknown"] \in PolicyNames \ {"auto"}
      BY <1>1, <1>2, <2>1, TypesHaveKeys
    <3> QED
      BY <1>6, <2>1, <3>1, PolicyMapType, AutoIsAuto DEF explain_policy
  <2>2. CASE c.rules["unknown"] = Unset
    BY <1>6, <2>2 DEF explain_policy, Policies, AUTO, REVIEW
  <2> QED
    BY <2>1, <2>2
<1> QED
  BY <1>4, <1>5, <1>6

-------------------------------------------------------------------------------
LEMMA ProfileType == \A name : Profile(name) \in Configs
BY DEF Profile, Configs, RulesOf, PolicyNames, Unset

LEMMA DefaultType == DefaultConfig \in Configs
BY DEF DefaultConfig, Configs, PolicyNames

(***************************************************************************)
(* Every sequence of `config set`, `reset` and `profile`, and every rule   *)
(* list, stays well formed.                                                *)
(***************************************************************************)
THEOREM ConfigTypeCorrect == Spec => []TypeOK
<1>1. Init => TypeOK
  BY DefaultType DEF Init, TypeOK
<1>2. TypeOK /\ [Next]_vars => TypeOK'
  <2> SUFFICES ASSUME TypeOK, [Next]_vars PROVE TypeOK'
    OBVIOUS
  <2>1. ASSUME NEW key \in EditedKeys, NEW value \in PolicyNames, SetRule(key, value)
        PROVE  TypeOK'
    BY <2>1, KeysAssumption DEF SetRule, TypeOK, Configs
  <2>2. ASSUME NEW value \in BOOLEAN, SetAllowExecute(value) PROVE TypeOK'
    BY <2>2 DEF SetAllowExecute, TypeOK, Configs
  <2>3. ASSUME NEW name, ApplyProfile(name) PROVE TypeOK'
    BY <2>3, ProfileType DEF ApplyProfile, TypeOK
  <2>4. ASSUME NEW pattern \in Patterns, NEW policy \in Policies, NEW priority \in Priorities,
               AddRule(pattern, policy, priority)
        PROVE  TypeOK'
    BY <2>4, RulesAssumption DEF AddRule, TypeOK
  <2>5. CASE UNCHANGED vars
    BY <2>5 DEF TypeOK, vars
  <2> QED
    BY <2>1, <2>2, <2>3, <2>4, <2>5 DEF Next
<1> QED
  BY <1>1, <1>2, PTL DEF Spec

(***************************************************************************)
(* `policy explain`, `policy test`, the MCP server and the SDK never       *)
(* disagree with the engine that the configuration describes.              *)
(***************************************************************************)
THEOREM ExplainCorrect == Spec => []ExplainMatchesEngine
<1>1. TypeOK => ExplainMatchesEngine
  BY ExplainAgrees DEF TypeOK, ExplainMatchesEngine, Calls
<1> QED
  BY <1>1, ConfigTypeCorrect, PTL

(***************************************************************************)
(* `policy audit` finds every setting that lets a risky action through.    *)
(***************************************************************************)
THEOREM AuditCorrect == Spec => []CleanAuditIsSafe
<1>1. TypeOK => CleanAuditIsSafe
  <2> SUFFICES ASSUME TypeOK, audit_policy_config(config) = {} PROVE CleanAuditIsSafe
    BY DEF CleanAuditIsSafe
  <2>1. config \in Configs /\ config.allow_execute \in BOOLEAN
    BY DEF TypeOK, Configs
  <2>2. ~config.allow_execute
    BY <2>1 DEF audit_policy_config
  <2> QED
    BY <2>1, <2>2, SafeAudit DEF CleanAuditIsSafe
<1> QED
  BY <1>1, ConfigTypeCorrect, PTL

-------------------------------------------------------------------------------
(***************************************************************************)
(* Numbers and recursion.  The library states induction with an operator   *)
(* as a parameter; that the order of the numbers is well founded is a fact *)
(* about a set, and gives induction over sets of numbers.  From it, what   *)
(* is defined by recursion over the numbers exists.                        *)
(***************************************************************************)
LEMMA LeastNumber ==
  ASSUME NEW T, T \subseteq Nat, T # {}
  PROVE  \E x \in T : \A y \in T : x <= y
<1>1. PICK R : R = OpToRel(<, Nat)
  OBVIOUS
<1>2. IsWellFoundedOn(R, Nat)
  BY <1>1, NatLessThanWellFounded
<1>3. PICK x \in T : \A y \in T : ~ (<<y, x>> \in R)
  BY <1>2, WFMin
<1>4. \A y, z \in Nat : <<y, z>> \in R <=> y < z
  BY <1>1 DEF OpToRel
<1>5. ASSUME NEW y \in T PROVE x <= y
  <2>1. x \in Nat /\ y \in Nat
    OBVIOUS
  <2>2. ~ (y < x)
    BY <1>3, <1>4, <2>1
  <2>3. QED
    BY <2>1, <2>2
<1>6. QED
  BY <1>5

\* Induction, on sets: one that holds 0 and every successor holds all.
LEMMA AllNumbers ==
  ASSUME NEW S, 0 \in S, \A n \in Nat : n \in S => n + 1 \in S
  PROVE  Nat \subseteq S
<1> SUFFICES ASSUME Nat \ S # {} PROVE FALSE
  OBVIOUS
<1>1. PICK x \in Nat \ S : \A y \in Nat \ S : x <= y
  BY LeastNumber
<1>2. x - 1 \in Nat /\ ~ (x <= x - 1)
  BY <1>1
<1>3. x - 1 \in S
  BY <1>1, <1>2
<1>4. (x - 1) + 1 \in S /\ (x - 1) + 1 = x
  BY <1>2, <1>3
<1>5. QED
  BY <1>1, <1>4

\* The runs of a recursion up to n: one exists, and two agree where both are defined.
Runs(V, v, step, n) ==
  {g \in [0 .. n -> V] : g[0] = v /\ \A i \in 0 .. n - 1 : g[i + 1] = step[i][g[i]]}

LEMMA RunsExist ==
  ASSUME NEW V, NEW v \in V, NEW step \in [Nat -> [V -> V]]
  PROVE  \A n \in Nat : Runs(V, v, step, n) # {}
<1> DEFINE S == {n \in Nat : Runs(V, v, step, n) # {}}
<1>1. 0 \in S
  <2>1. [i \in 0 .. 0 |-> v] \in Runs(V, v, step, 0)
    BY DEF Runs
  <2>2. QED
    BY <2>1
<1>2. ASSUME NEW n \in Nat, n \in S PROVE n + 1 \in S
  <2>1. PICK g : g \in Runs(V, v, step, n)
    BY <1>2
  <2>2. PICK h : h = [i \in 0 .. n + 1 |-> IF i = n + 1 THEN step[n][g[n]] ELSE g[i]]
    OBVIOUS
  <2>3. g \in [0 .. n -> V] /\ g[0] = v /\ \A i \in 0 .. n - 1 : g[i + 1] = step[i][g[i]]
    BY <2>1 DEF Runs
  <2>4. step[n] \in [V -> V] /\ g[n] \in V
    BY <2>3
  <2>5. h \in [0 .. n + 1 -> V]
    BY <2>2, <2>3, <2>4
  <2>6. h[0] = v
    BY <2>2, <2>3
  <2>7. ASSUME NEW i \in 0 .. (n + 1) - 1 PROVE h[i + 1] = step[i][h[i]]
    BY <2>2, <2>3
  <2>8. h \in Runs(V, v, step, n + 1)
    BY <2>5, <2>6, <2>7 DEF Runs
  <2>9. QED
    BY <2>8
<1> HIDE DEF S
<1>3. Nat \subseteq S
  BY <1>1, <1>2, AllNumbers
<1>4. QED
  BY <1>3 DEF S

LEMMA RunsAgree ==
  ASSUME NEW V, NEW v, NEW step, NEW n \in Nat, NEW m \in Nat,
         NEW g \in Runs(V, v, step, n), NEW h \in Runs(V, v, step, m)
  PROVE  \A i \in Nat : i <= n /\ i <= m => g[i] = h[i]
<1> DEFINE S == {i \in Nat : i <= n /\ i <= m => g[i] = h[i]}
<1>1. /\ g[0] = v /\ \A i \in 0 .. n - 1 : g[i + 1] = step[i][g[i]]
      /\ h[0] = v /\ \A i \in 0 .. m - 1 : h[i + 1] = step[i][h[i]]
  BY DEF Runs
<1>2. 0 \in S
  BY <1>1
<1>3. ASSUME NEW i \in Nat, i \in S PROVE i + 1 \in S
  <2>1. CASE i + 1 <= n /\ i + 1 <= m
    BY <1>1, <1>3, <2>1
  <2>2. CASE ~ (i + 1 <= n /\ i + 1 <= m)
    BY <2>2
  <2>3. QED
    BY <2>1, <2>2
<1> HIDE DEF S
<1>4. Nat \subseteq S
  BY <1>2, <1>3, AllNumbers
<1>5. QED
  BY <1>4 DEF S

\* What a recursion over all numbers defines: its values along the runs.
Recursions(V, v, step) ==
  {f \in [Nat -> V] : f[0] = v /\ \A n \in Nat : f[n + 1] = step[n][f[n]]}

LEMMA RecursionExists ==
  ASSUME NEW V, NEW v \in V, NEW step \in [Nat -> [V -> V]]
  PROVE  Recursions(V, v, step) # {}
<1>1. PICK run : run = [n \in Nat |-> CHOOSE g : g \in Runs(V, v, step, n)]
  OBVIOUS
<1>2. \A n \in Nat : run[n] \in Runs(V, v, step, n)
  BY <1>1, RunsExist
<1>3. PICK f : f = [n \in Nat |-> run[n][n]]
  OBVIOUS
<1>4. \A n \in Nat : run[n] \in [0 .. n -> V] /\ run[n][0] = v
  BY <1>2 DEF Runs
<1>5. f \in [Nat -> V] /\ f[0] = v
  <2>1. \A n \in Nat : n \in 0 .. n
    OBVIOUS
  <2>2. QED
    BY <1>3, <1>4, <2>1
<1>6. ASSUME NEW n \in Nat PROVE f[n + 1] = step[n][f[n]]
  <2>1. run[n + 1] \in Runs(V, v, step, n + 1) /\ run[n] \in Runs(V, v, step, n)
    BY <1>2
  <2>2. run[n + 1][n + 1] = step[n][run[n + 1][n]]
    <3>1. n \in 0 .. (n + 1) - 1
      OBVIOUS
    <3>2. QED
      BY <2>1, <3>1 DEF Runs
  <2>3. run[n + 1][n] = run[n][n]
    <3>1. n <= n + 1 /\ n <= n /\ n + 1 \in Nat
      OBVIOUS
    <3>2. QED
      BY <2>1, <3>1, RunsAgree
  <2>4. QED
    BY <1>3, <2>2, <2>3
<1>7. f \in Recursions(V, v, step)
  BY <1>5, <1>6 DEF Recursions
<1>8. QED
  BY <1>7

-------------------------------------------------------------------------------
(***************************************************************************)
(* The engine of a rule list: what reading it rule by rule remembers of    *)
(* the first i is none if none of them matches, and else the one that      *)
(* sorting puts first.                                                     *)
(***************************************************************************)
FirstRule(rs, type, i) ==
  /\ i \in Matching(rs, type)
  /\ \A j \in Matching(rs, type) : SortsBefore(rs, i, j)

RuleLists == Seq([pattern : SUBSET ActionTypes, policy : Policies, priority : Int])

LEMMA RulesTyped ==
  \A rs \in RuleLists : \A i \in DOMAIN rs : i \in Nat /\ rs[i].priority \in Int
<1>1. PICK S : S = [pattern : SUBSET ActionTypes, policy : Policies, priority : Int]
  OBVIOUS
<1>2. ASSUME NEW rs \in RuleLists, NEW i \in DOMAIN rs
      PROVE  i \in Nat /\ rs[i].priority \in Int
  <2>1. rs \in Seq(S)
    BY <1>1 DEF RuleLists
  <2>2. Len(rs) \in Nat /\ i \in 1 .. Len(rs)
    BY <2>1, LenProperties
  <2>3. rs[i] \in S
    BY <2>1, <2>2, ElementOfSeq
  <2>4. QED
    BY <1>1, <2>2, <2>3
<1>3. QED
  BY <1>2

BestAmong(rs, type, i, best) ==
  LET first == {j \in Matching(rs, type) : j <= i} IN
  IF best = 0 THEN first = {}
  ELSE best \in first /\ \A j \in first : SortsBefore(rs, best, j)

\* BestOf is what its recursive definition says.
LEMMA BestOfRecursion ==
  /\ BestOf[0] = [type \in ActionTypes |-> 0]
  /\ \A n \in Nat : BestOf[n + 1] = Reconsidered(n + 1, BestOf[n])
<1>1. PICK V : V = [ActionTypes -> Nat]
  OBVIOUS
<1>2. PICK v : v = [type \in ActionTypes |-> 0]
  OBVIOUS
<1>3. PICK step : step = [n \in Nat |-> [best \in V |-> Reconsidered(n + 1, best)]]
  OBVIOUS
<1>4. v \in V
  BY <1>1, <1>2
<1>5. ASSUME NEW n \in Nat, NEW best \in V PROVE Reconsidered(n + 1, best) \in V
  BY <1>1 DEF Reconsidered
<1>6. step \in [Nat -> [V -> V]]
  BY <1>3, <1>5
<1>7. PICK f \in [Nat -> V] : f[0] = v /\ \A n \in Nat : f[n + 1] = step[n][f[n]]
  <2>1. Recursions(V, v, step) # {}
    BY <1>4, <1>6, RecursionExists
  <2>2. QED
    BY <2>1 DEF Recursions
<1>8. \A n \in Nat : f[n + 1] = Reconsidered(n + 1, f[n])
  BY <1>3, <1>7
<1>9. f = [i \in Nat |-> IF i = 0 THEN [type \in ActionTypes |-> 0] ELSE Reconsidered(i, f[i - 1])]
  <2>1. ASSUME NEW i \in Nat
        PROVE  f[i] = IF i = 0 THEN [type \in ActionTypes |-> 0] ELSE Reconsidered(i, f[i - 1])
    <3>1. CASE i = 0
      BY <1>2, <1>7, <3>1
    <3>2. CASE i # 0
      <4>1. i - 1 \in Nat /\ (i - 1) + 1 = i
        BY <3>2
      <4>2. QED
        BY <1>8, <3>2, <4>1
    <3>3. QED
      BY <3>1, <3>2
  <2>2. f = [i \in Nat |-> f[i]]
    OBVIOUS
  <2>3. QED
    BY <2>1, <2>2
<1>10. BestOf = [i \in Nat |-> IF i = 0 THEN [type \in ActionTypes |-> 0]
                               ELSE Reconsidered(i, BestOf[i - 1])]
  BY <1>9 DEF BestOf
<1>11. BestOf[0] = [type \in ActionTypes |-> 0]
  BY <1>10
<1>12. ASSUME NEW n \in Nat PROVE BestOf[n + 1] = Reconsidered(n + 1, BestOf[n])
  <2>1. n + 1 \in Nat /\ n + 1 # 0 /\ (n + 1) - 1 = n
    OBVIOUS
  <2>2. QED
    BY <1>10, <2>1
<1>13. QED
  BY <1>11, <1>12

LEMMA BestOfIsBest ==
  ASSUME rules \in RuleLists, NEW type \in ActionTypes
  PROVE  \A i \in Nat : i <= Len(rules) =>
           BestOf[i][type] \in Nat /\ BestAmong(rules, type, i, BestOf[i][type])
<1> DEFINE best(i) == BestOf[i][type]
           S == {i \in Nat : i <= Len(rules) =>
                               best(i) \in Nat /\ BestAmong(rules, type, i, best(i))}
<1>1. PICK len \in Nat : len = Len(rules) /\ DOMAIN rules = 1 .. len
  BY DEF RuleLists
<1>2. \A j \in 1 .. len : rules[j].priority \in Int
  BY <1>1, RulesTyped
<1>3. \A j \in Matching(rules, type) : j \in 1 .. len
  BY <1>1 DEF Matching
<1>4. 0 \in S
  <2>1. best(0) = 0
    BY BestOfRecursion
  <2>2. QED
    BY <1>3, <2>1 DEF BestAmong
<1>5. ASSUME NEW n \in Nat, n \in S PROVE n + 1 \in S
  <2> SUFFICES ASSUME n + 1 <= len
               PROVE  best(n + 1) \in Nat /\ BestAmong(rules, type, n + 1, best(n + 1))
    BY <1>1
  <2>1. best(n) \in Nat /\ BestAmong(rules, type, n, best(n))
    BY <1>1, <1>5
  <2>2. best(n + 1) = IF /\ type \in rules[n + 1].pattern
                         /\ best(n) = 0 \/ rules[n + 1].priority > rules[best(n)].priority
                      THEN n + 1 ELSE best(n)
    BY BestOfRecursion DEF Reconsidered
  <2> HIDE DEF best
  <2>3. PICK before : before = {j \in Matching(rules, type) : j <= n}
    OBVIOUS
  <2>4. PICK upto : upto = {j \in Matching(rules, type) : j <= n + 1}
    OBVIOUS
  <2>5. upto = IF type \in rules[n + 1].pattern THEN before \cup {n + 1} ELSE before
    BY <1>1, <1>3, <2>3, <2>4 DEF Matching
  <2>6. before \subseteq 1 .. n
    BY <1>3, <2>3
  <2>7. IF best(n) = 0 THEN before = {}
        ELSE best(n) \in before /\ \A j \in before : SortsBefore(rules, best(n), j)
    BY <2>1, <2>3 DEF BestAmong
  <2>8. best(n + 1) \in Nat
        /\ IF best(n + 1) = 0 THEN upto = {}
           ELSE best(n + 1) \in upto /\ \A j \in upto : SortsBefore(rules, best(n + 1), j)
    <3>1. CASE type \notin rules[n + 1].pattern
      BY <2>1, <2>2, <2>5, <2>7, <3>1
    <3>2. CASE type \in rules[n + 1].pattern /\ best(n) = 0
      BY <1>2, <2>2, <2>5, <2>7, <3>2 DEF SortsBefore
    <3>3. CASE /\ type \in rules[n + 1].pattern /\ best(n) # 0
               /\ rules[n + 1].priority > rules[best(n)].priority
      <4>1. best(n) \in 1 .. n /\ best(n + 1) = n + 1
        BY <2>2, <2>6, <2>7, <3>3
      <4>2. ASSUME NEW j \in before PROVE SortsBefore(rules, n + 1, j)
        BY <1>2, <2>6, <2>7, <3>3, <4>1, <4>2 DEF SortsBefore
      <4>3. SortsBefore(rules, n + 1, n + 1)
        BY <1>2 DEF SortsBefore
      <4>4. QED
        BY <2>5, <3>3, <4>1, <4>2, <4>3
    <3>4. CASE /\ type \in rules[n + 1].pattern /\ best(n) # 0
               /\ ~ (rules[n + 1].priority > rules[best(n)].priority)
      <4>1. best(n) \in 1 .. n /\ best(n + 1) = best(n)
        BY <2>2, <2>6, <2>7, <3>4
      <4>2. SortsBefore(rules, best(n), n + 1)
        BY <1>2, <3>4, <4>1 DEF SortsBefore
      <4>3. QED
        BY <2>1, <2>5, <2>7, <3>4, <4>1, <4>2
    <3>5. QED
      BY <3>1, <3>2, <3>3, <3>4
  <2>9. QED
    BY <2>4, <2>8 DEF BestAmong
<1> HIDE DEF S
<1>6. Nat \subseteq S
  BY <1>4, <1>5, AllNumbers
<1>7. QED
  BY <1>6 DEF S

\* Read to its end, the list has been searched; no two rules sort first.
LEMMA SearchedList ==
  ASSUME rules \in RuleLists, NEW type \in ActionTypes, NEW best, best = BestOf[Len(rules)][type]
  PROVE  /\ best = 0 <=> Matching(rules, type) = {}
         /\ best # 0 => FirstRule(rules, type, best) /\ match_explicit_rule(rules, type) = best
<1>1. PICK len \in Nat : len = Len(rules) /\ DOMAIN rules = 1 .. len
  BY DEF RuleLists
<1>2. BestAmong(rules, type, len, best)
  <2>1. len <= len
    OBVIOUS
  <2>2. QED
    BY <1>1, <2>1, BestOfIsBest
<1>3. {j \in Matching(rules, type) : j <= len} = Matching(rules, type)
  BY <1>1 DEF Matching
<1>4. /\ best = 0 => Matching(rules, type) = {}
      /\ best # 0 => FirstRule(rules, type, best)
  BY <1>2, <1>3 DEF BestAmong, FirstRule
<1>5. best = 0 <=> Matching(rules, type) = {}
  BY <1>4 DEF FirstRule
<1>6. ASSUME best # 0 PROVE match_explicit_rule(rules, type) = best
  <2>1. ASSUME NEW i, FirstRule(rules, type, i) PROVE i = best
    <3>1. i \in Nat /\ best \in Nat /\ rules[i].priority \in Int /\ rules[best].priority \in Int
      BY <1>4, <1>6, <2>1, RulesTyped DEF FirstRule, Matching
    <3>2. SortsBefore(rules, i, best) /\ SortsBefore(rules, best, i)
      BY <1>4, <1>6, <2>1 DEF FirstRule
    <3>3. QED
      BY <3>1, <3>2 DEF SortsBefore
  <2>2. QED
    BY <1>4, <1>6, <2>1 DEF match_explicit_rule, FirstRule
<1>7. QED
  BY <1>4, <1>5, <1>6

(***************************************************************************)
(* core/rules.py, RulesEngine: for a list of any length, sorting it by     *)
(* priority and taking the first rule that matches decides as reading it   *)
(* in the order given, where only a strictly higher priority counts.       *)
(***************************************************************************)
THEOREM ListOrderBreaksTies == Spec => []FirstOfEqualsWins
<1>1. ASSUME TypeOK, NEW type \in ActionTypes, NEW action \in Calls(type),
             NEW best, best = BestOf[Len(rules)][type]
      PROVE  evaluate(rules, REVIEW, action) =
               IF best = 0 THEN evaluate(<<>>, REVIEW, action) ELSE rules[best].policy
  <2>1. rules \in RuleLists /\ action.action_type = type
    BY <1>1 DEF TypeOK, RuleLists, Calls
  <2>2. /\ best = 0 <=> Matching(rules, type) = {}
        /\ best # 0 => match_explicit_rule(rules, type) = best
    BY <1>1, <2>1, SearchedList
  <2>3. Matching(<<>>, type) = {}
    BY DEF Matching
  <2>4. QED
    BY <2>1, <2>2, <2>3 DEF evaluate
<1>2. TypeOK => FirstOfEqualsWins
  BY <1>1 DEF FirstOfEqualsWins
<1>3. QED
  BY <1>2, ConfigTypeCorrect, PTL

(***************************************************************************)
(* core/rules.py, RulesEngine: in any list a caller gives, the rule that   *)
(* decides matches, none that matches has a higher priority, and none of   *)
(* the same priority was given before it.                                  *)
(***************************************************************************)
FirstRuleDecides ==
  \A type \in ActionTypes : \A action \in Calls(type) :
    Matching(rules, type) # {} =>
      \E i \in Matching(rules, type) :
        /\ evaluate(rules, REVIEW, action) = rules[i].policy
        /\ \A j \in Matching(rules, type) :
             /\ rules[j].priority <= rules[i].priority
             /\ j < i => rules[j].priority < rules[i].priority

(***************************************************************************)
(* RulesEngine sorts a list of any length so: the rule that decides, told  *)
(* by what it has over the others and not by how it is found.              *)
(***************************************************************************)
THEOREM FirstRuleWins == Spec => []FirstRuleDecides
<1>1. ASSUME TypeOK, NEW type \in ActionTypes, NEW action \in Calls(type),
             Matching(rules, type) # {}
      PROVE  \E i \in Matching(rules, type) :
               /\ evaluate(rules, REVIEW, action) = rules[i].policy
               /\ \A j \in Matching(rules, type) :
                    /\ rules[j].priority <= rules[i].priority
                    /\ j < i => rules[j].priority < rules[i].priority
  <2>1. PICK i : i = match_explicit_rule(rules, type)
    OBVIOUS
  <2>2. FirstRule(rules, type, i)
    BY <1>1, <2>1, SearchedList DEF TypeOK, RuleLists
  <2>3. evaluate(rules, REVIEW, action) = rules[i].policy
    BY <1>1, <2>1 DEF evaluate, Calls
  <2>4. \A j \in Matching(rules, type) : j \in Nat /\ rules[j].priority \in Int
    BY <1>1, RulesTyped DEF TypeOK, RuleLists, Matching
  <2>5. QED
    BY <2>2, <2>3, <2>4 DEF FirstRule, SortsBefore
<1>2. TypeOK => FirstRuleDecides
  BY <1>1 DEF FirstRuleDecides
<1>3. QED
  BY <1>2, ConfigTypeCorrect, PTL

===============================================================================
