----------------------------- MODULE PolicyConfig -----------------------------
(***************************************************************************)
(* The three places that answer "what happens to an action of this type":  *)
(* explain_policy (the CLI, MCP and SDK), engine_from_config (the engine   *)
(* the configuration describes) and the engine that protect_file_* builds  *)
(* from the rules its caller passes.  The state is a configuration reached *)
(* by `config set`, `config reset` and `config profile`, and a rule list   *)
(* put together rule by rule.                                              *)
(***************************************************************************)
EXTENDS Policy, FiniteSets

CONSTANTS EditedKeys,   \* the keys of [rules] that are set
          UnknownTypes, \* action types the program has no default for
          Patterns,     \* patterns, as sets of action types
          Priorities,
          MaxRules      \* bound: length of the rule list

VARIABLES config, rules

vars == <<config, rules>>

StandardTypes == DOMAIN DEFAULT_POLICIES
ActionTypes   == StandardTypes \cup UnknownTypes \cup {"api.call"}

ASSUME KeysAssumption == EditedKeys \subseteq RuleKeys
ASSUME TypesAssumption == UnknownTypes \cap (StandardTypes \cup {"api.call"}) = {}
ASSUME RulesAssumption == Patterns \subseteq SUBSET ActionTypes /\ Priorities \subseteq Int

\* Variant: the profile texts spell policies the way the engine does.
RulesOfUpper(writes) ==
  [k \in RuleKeys |-> CASE k \in {"file_write", "file_create"} -> SNAPSHOT
                        [] k \in {"file_delete", "map_execute", "unknown"} -> REVIEW
                        [] OTHER -> AUTO]

\* The configurations the fixed texts of core/config.py stand for.
RulesOf(writes) ==
  [k \in RuleKeys |-> CASE k \in {"file_write", "file_create"} -> writes
                        [] k \in {"file_delete", "map_execute", "unknown"} -> "review"
                        [] k \in {"web_read", "map_dry_run"} -> "auto"
                        [] OTHER -> Unset]
DefaultConfig == [rules |-> [k \in RuleKeys |-> Unset],
                  default_policy |-> "review", allow_execute |-> FALSE]
Profile(name) == [rules |-> RulesOf(IF name = "agent" THEN "review" ELSE "snapshot"),
                  default_policy |-> IF name = "dev" THEN "snapshot" ELSE "review",
                  allow_execute |-> FALSE]

Init == config = DefaultConfig /\ rules = <<>>

SetRule(key, value) ==
  /\ config' = [config EXCEPT !.rules[key] = value]
  /\ UNCHANGED rules

SetAllowExecute(value) ==
  /\ config' = [config EXCEPT !.allow_execute = value]
  /\ UNCHANGED rules

ApplyProfile(name) == config' = Profile(name) /\ UNCHANGED rules

AddRule(pattern, policy, priority) ==
  /\ Len(rules) < MaxRules
  /\ rules' = Append(rules, [pattern |-> pattern, policy |-> policy, priority |-> priority])
  /\ UNCHANGED config

Next ==
  \/ \E key \in EditedKeys, value \in PolicyNames : SetRule(key, value)
  \/ \E value \in BOOLEAN : SetAllowExecute(value)
  \/ \E name \in {"safe", "dev", "agent"} : ApplyProfile(name)
  \/ \E pattern \in Patterns, policy \in Policies, priority \in Priorities :
       AddRule(pattern, policy, priority)

Spec == Init /\ [][Next]_vars

-------------------------------------------------------------------------------
TypeOK == config \in Configs /\ rules \in Seq([pattern : SUBSET ActionTypes,
                                               policy : Policies, priority : Int])

Calls(type) == {[action_type |-> type, read_only |-> r] : r \in BOOLEAN}

(***************************************************************************)
(* What `policy explain` says of an action type is what the engine of the  *)
(* same configuration decides, for every type but api.call, whose policy   *)
(* also depends on the parameters.                                         *)
(***************************************************************************)
ExplainMatchesEngine ==
  \A type \in ActionTypes \ {"api.call"} : \A action \in Calls(type) :
    explain_policy(type, config).policy = engine_from_config(config, action)

(***************************************************************************)
(* Sorting once by priority and taking the first match is the same as      *)
(* reading the list in order and changing one's mind only for a matching   *)
(* rule of strictly higher priority: of equals the first one given wins.   *)
(***************************************************************************)
Reconsidered(i, best) ==
  [type \in ActionTypes |->
     IF /\ type \in rules[i].pattern
        /\ best[type] = 0 \/ rules[i].priority > rules[best[type]].priority
     THEN i ELSE best[type]]
BestOf[i \in Nat] == IF i = 0 THEN [type \in ActionTypes |-> 0]
                     ELSE Reconsidered(i, BestOf[i - 1])
FirstOfEqualsWins ==
  \A type \in ActionTypes : \A action \in Calls(type) :
    LET best == BestOf[Len(rules)][type] IN
    evaluate(rules, REVIEW, action) =
      IF best = 0 THEN evaluate(<<>>, REVIEW, action) ELSE rules[best].policy

(***************************************************************************)
(* A clean `policy audit` means what it says: with no warning, nothing     *)
(* that deletes, writes, creates, executes a map or is unknown is allowed  *)
(* without a snapshot or a review, and external execution is off.          *)
(***************************************************************************)
Risky == {"map.execute", "file.delete", "file.write", "file.create"} \cup UnknownTypes
CleanAuditIsSafe ==
  audit_policy_config(config) = {} =>
    /\ ~config.allow_execute
    /\ \A type \in Risky : decision_for_policy(explain_policy(type, config).policy) # "allow"

===============================================================================
