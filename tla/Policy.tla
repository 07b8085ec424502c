-------------------------------- MODULE Policy --------------------------------
(***************************************************************************)
(* The policy engine: which of AUTO, SNAPSHOT, REVIEW and BLOCK applies to *)
(* an action (core/rules.py), and what the CLI tells its user about it.    *)
(* Pure operators; no state.  A configuration is the part of               *)
(* .runewall/config.toml these functions read:                             *)
(*   [rules |-> [RuleKeys -> PolicyNames \cup {Unset}],                    *)
(*    default_policy |-> a policy name, allow_execute |-> a Boolean]       *)
(* An fnmatch pattern is abstracted to the set of action types it matches. *)
(***************************************************************************)
EXTENDS Integers, Sequences

AUTO     == "AUTO"
SNAPSHOT == "SNAPSHOT"
REVIEW   == "REVIEW"
BLOCK    == "BLOCK"
Policies == {AUTO, SNAPSHOT, REVIEW, BLOCK}

Unset       == "unset"
PolicyNames == {"auto", "snapshot", "review", "block"}

POLICY_MAP == [name \in PolicyNames |->
                  CASE name = "auto"     -> AUTO
                    [] name = "snapshot" -> SNAPSHOT
                    [] name = "review"   -> REVIEW
                    [] name = "block"    -> BLOCK]

DECISION_MAP == [policy \in Policies |->
                  CASE policy = AUTO     -> "allow"
                    [] policy = SNAPSHOT -> "snapshot_required"
                    [] policy = REVIEW   -> "review_required"
                    [] policy = BLOCK    -> "blocked"]

(***************************************************************************)
(* Action types that have a key of their own under [rules].                *)
(***************************************************************************)
ACTION_FIELD_MAP == [t \in {"file.read", "file.write", "file.create", "file.delete",
                             "web.read", "map.dry_run", "map.execute"} |->
                  CASE t = "file.read"   -> "file_read"
                    [] t = "file.write"  -> "file_write"
                    [] t = "file.create" -> "file_create"
                    [] t = "file.delete" -> "file_delete"
                    [] t = "web.read"    -> "web_read"
                    [] t = "map.dry_run" -> "map_dry_run"
                    [] t = "map.execute" -> "map_execute"]

ConfigurableTypes == DOMAIN ACTION_FIELD_MAP
RuleKeys == {ACTION_FIELD_MAP[t] : t \in ConfigurableTypes} \cup {"unknown"}

DEFAULT_POLICIES == [t \in ConfigurableTypes \cup {"shell.exec", "email.send"} |->
                  IF t \in {"file.read", "web.read", "map.dry_run"} THEN AUTO
                  ELSE IF t \in {"file.create", "file.write"} THEN SNAPSHOT
                  ELSE REVIEW]

Configs == [rules : [RuleKeys -> PolicyNames \cup {Unset}],
            default_policy : PolicyNames,
            allow_execute : BOOLEAN]

-------------------------------------------------------------------------------
(***************************************************************************)
(* RulesEngine.  `rules` is the list the engine is built from, in the      *)
(* caller's order, each [pattern, policy, priority]; the constructor sorts *)
(* it by priority, highest first, and equal priorities keep their order    *)
(* (Python's sort is stable also when reversed).                           *)
(***************************************************************************)
Matching(rules, type) == {i \in DOMAIN rules : type \in rules[i].pattern}

\* Variant: of equal priorities the last one given comes first.
SortsLastFirst(rules, i, j) ==
  \/ rules[i].priority > rules[j].priority
  \/ rules[i].priority = rules[j].priority /\ i >= j

SortsBefore(rules, i, j) ==
  \/ rules[i].priority > rules[j].priority
  \/ rules[i].priority = rules[j].priority /\ i <= j

\* The first matching rule of the sorted list.
match_explicit_rule(rules, type) ==
  CHOOSE i \in Matching(rules, type) :
    \A j \in Matching(rules, type) : SortsBefore(rules, i, j)

\* action.read_only stands for "params ask for GET, or say read_only".
evaluate(rules, unknown_policy, action) ==
  IF Matching(rules, action.action_type) # {}
  THEN rules[match_explicit_rule(rules, action.action_type)].policy
  ELSE IF action.action_type = "api.call"
  THEN IF action.read_only THEN AUTO ELSE REVIEW
  ELSE IF action.action_type \in DOMAIN DEFAULT_POLICIES
  THEN DEFAULT_POLICIES[action.action_type]
  ELSE unknown_policy

-------------------------------------------------------------------------------
(***************************************************************************)
(* The engine a configuration describes.  rules_from_config keeps the      *)
(* order of the field map and skips the keys that are not set: a list with *)
(* gaps, since only the order of its indices matters to the engine.        *)
(***************************************************************************)
FieldOrder == <<"file.read", "file.write", "file.create", "file.delete",
                "web.read", "map.dry_run", "map.execute">>

rules_from_config(config) ==
  [i \in {j \in DOMAIN FieldOrder : config.rules[ACTION_FIELD_MAP[FieldOrder[j]]] # Unset} |->
     [pattern  |-> {FieldOrder[i]},
      priority |-> 0,
      policy   |-> POLICY_MAP[config.rules[ACTION_FIELD_MAP[FieldOrder[i]]]]]]

engine_from_config(config, action) ==
  evaluate(rules_from_config(config),
           IF config.rules["unknown"] = Unset
           THEN REVIEW ELSE POLICY_MAP[config.rules["unknown"]],
           action)

\* Variant: rules.unknown wins over the built-in defaults.
explain_policy_unknown_first(type, config) ==
  IF /\ type \in ConfigurableTypes
     /\ config.rules[ACTION_FIELD_MAP[type]] # Unset
  THEN [policy |-> POLICY_MAP[config.rules[ACTION_FIELD_MAP[type]]], source |-> "config_rule"]
  ELSE IF config.rules["unknown"] # Unset
  THEN [policy |-> POLICY_MAP[config.rules["unknown"]], source |-> "config_rule"]
  ELSE IF type \in DOMAIN DEFAULT_POLICIES
  THEN [policy |-> DEFAULT_POLICIES[type], source |-> "default_rule"]
  ELSE [policy |-> REVIEW, source |-> "unknown_fallback"]

\* What `policy explain`, `policy test` and the act command use instead.
explain_policy(type, config) ==
  IF /\ type \in ConfigurableTypes
     /\ config.rules[ACTION_FIELD_MAP[type]] # Unset
  THEN [policy |-> POLICY_MAP[config.rules[ACTION_FIELD_MAP[type]]], source |-> "config_rule"]
  ELSE IF type \in DOMAIN DEFAULT_POLICIES
  THEN [policy |-> DEFAULT_POLICIES[type], source |-> "default_rule"]
  ELSE IF config.rules["unknown"] # Unset
  THEN [policy |-> POLICY_MAP[config.rules["unknown"]], source |-> "config_rule"]
  ELSE IF config.default_policy = "review"
  THEN [policy |-> REVIEW, source |-> "default_policy_fallback"]
  ELSE [policy |-> REVIEW, source |-> "unknown_fallback"]

decision_for_policy(policy) == DECISION_MAP[policy]

\* Variant: file.create is not among the risky types.
audit_without_create(config) ==
  {key \in {"map_execute", "file_delete", "unknown", "file_write"} :
      config.rules[key] = "auto"}
  \cup (IF config.allow_execute THEN {"allow_execute"} ELSE {})

\* The keys `policy audit` warns about.
audit_policy_config(config) ==
  {key \in {"map_execute", "file_delete", "unknown", "file_write", "file_create"} :
      config.rules[key] = "auto"}
  \cup (IF config.allow_execute THEN {"allow_execute"} ELSE {})

===============================================================================
