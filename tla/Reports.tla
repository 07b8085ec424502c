-------------------------------- MODULE Reports --------------------------------
(***************************************************************************)
(* The reports on a project's safety: `config validate`, `policy audit`,   *)
(* `policy test`, `release check` and `doctor`, which the CLI, the SDK and *)
(* the MCP server share.  A report reads config.toml up to five times, one *)
(* check after the other, while `config` commands rewrite it (ConfigStore),*)
(* and notes what each check finds.                                        *)
(*                                                                         *)
(* Each process that makes reports is an element of Reporters.  A read of  *)
(* a file that is not TOML raises: the CLI stops, the SDK returns an error *)
(* result, the MCP server ends.                                            *)
(***************************************************************************)
EXTENDS ConfigStore

CONSTANTS Reporters,
          Called,        \* bound: the kinds of reports that the CLI and the SDK make
          Surroundings,  \* what may be there: sets of "database", "dependencies",
                         \* "maps" (bundled maps that pass the strict lint)
          Environment,   \* names of the environment variables that are set
          MaxReports     \* bound: reports the CLI and the SDK begin

ASSUME ReportsAssumption == MaxReports \in Nat

VARIABLES reporter,   \* each process's report: what it reads next, what it found
          there,      \* which of the surroundings are there
          reports     \* reports begun so far by the CLI and the SDK

reportVars == <<reporter, there, reports>>

-------------------------------------------------------------------------------
(***************************************************************************)
(* validate_config_data: the lines that it rejects.  `config set` checks   *)
(* less than this, and unknown keys under [rules] are not its own.         *)
(***************************************************************************)
NotPositive == {"0", "-1"}

\* Variant: a rule that is not set is compared like any other.
validate_unset(data) ==
  {k \in Lines :
     \/ data[k] = WrongType
     \/ k = "safety.default_policy" /\ data[k] \notin {"auto", "review", "snapshot"}
     \/ k \in {"safety.max_snapshot_mb", "retention.snapshot_days"} /\ data[k] \in NotPositive
     \/ k \in RULE_CONFIG_KEYS /\ data[k] \notin PolicyNames
     \/ k = Stray /\ data[k] # Unset}

\* Variant: a number only has to be one.
validate_unranged(data) ==
  {k \in Lines :
     \/ data[k] = WrongType
     \/ k = "safety.default_policy" /\ data[k] \notin {"auto", "review", "snapshot"}
     \/ k \in RULE_CONFIG_KEYS /\ data[k] \notin PolicyNames \cup {Unset}
     \/ k = Stray /\ data[k] # Unset}

validate_config_data(data) ==
  {k \in Lines :
     \/ data[k] = WrongType
     \/ k = "safety.default_policy" /\ data[k] \notin {"auto", "review", "snapshot"}
     \/ k \in {"safety.max_snapshot_mb", "retention.snapshot_days"} /\ data[k] \in NotPositive
     \/ k \in RULE_CONFIG_KEYS /\ data[k] \notin PolicyNames \cup {Unset}
     \/ k = Stray /\ data[k] # Unset}

TokenKeys == {"auth.github_token_env", "auth.vercel_token_env", "auth.netlify_token_env",
              "auth.supabase_access_token_env", "auth.cloudflare_api_token_env"}
token_set(f, k) == as_str(k, Setting(f, k)) \in Environment

-------------------------------------------------------------------------------
(***************************************************************************)
(* What each report reads, in order, and what a read finds in file f.      *)
(***************************************************************************)
ReadsOf == [config_validate |-> <<"check">>,
            policy_test     |-> <<"load">>,
            dry_run         |-> <<"load">>,
            policy_audit    |-> <<"check", "audit">>,
            release_check   |-> <<"check", "check", "audit", "exists">>,
            doctor          |-> <<"exists", "settings", "check", "audit">>,
            doctor_command  |-> <<"exists", "settings", "check", "audit", "load">>]
Kinds == DOMAIN ReadsOf

ASSUME CalledAssumption == Called \subseteq Kinds

FoundBy(read, f) ==
  CASE read = "check"    -> IF validate_config_data(load_config_data(f)) = {} THEN {} ELSE {"invalid"}
    [] read = "audit"    -> IF audit_policy_config(load_config(f)) = {} THEN {} ELSE {"risky"}
    [] read = "exists"   -> IF f = Missing THEN {"no_config"} ELSE {}
    [] read = "settings" -> (IF load_config(f).allow_execute THEN {"enabled"} ELSE {})
                            \cup (IF \A k \in TokenKeys : token_set(f, k) THEN {} ELSE {"no_token"})
    [] OTHER             -> {}

\* The level of a report, out of all that was found.
Level(kind, found) ==
  CASE kind \in {"config_validate", "policy_audit"} ->
         IF "invalid" \in found THEN "INVALID" ELSE IF "risky" \in found THEN "WARN" ELSE "OK"
    [] kind = "release_check" ->
         IF "invalid" \in found \/ "maps" \notin there THEN "FAIL"
         ELSE IF {"risky", "no_config"} \cap found # {} \/ ~({"database", "dependencies"} \subseteq there)
         THEN "WARN" ELSE "OK"
    [] kind \in {"doctor", "doctor_command"} ->
         IF "invalid" \in found \/ "dependencies" \notin there THEN "FAIL"
         ELSE IF {"risky", "enabled", "no_token"} \cap found # {} \/ "database" \notin there
         THEN "WARN" ELSE "OK"
    [] OTHER -> "answer"

-------------------------------------------------------------------------------
NoReport == [kind |-> "none", todo |-> <<>>, found |-> {}, level |-> "none", calm |-> TRUE]
Busy(p)  == reporter[p].todo # <<>>

ReportsInit ==
  /\ reporter = [p \in Reporters |-> NoReport]
  /\ there \in Surroundings
  /\ reports = 0

Begin(p, kind) ==
  reporter' = [reporter EXCEPT ![p] = [NoReport EXCEPT !.kind = kind, !.todo = ReadsOf[kind]]]

\* The audit ends when its own check, the read just before, finds an error.
Rest(p) ==
  LET todo == reporter[p].todo  next == Tail(todo) IN
  IF FoundBy(Head(todo), file) = {"invalid"} /\ next # <<>> /\ Head(next) = "audit"
  THEN Tail(next) ELSE next

\* Variant: the exception is noted and the report goes on.
RaisedAndOn(p) == [reporter[p] EXCEPT !.todo = Tail(@), !.level = "raised"]

Raised(p) == [reporter[p] EXCEPT !.todo = <<>>, !.level = "raised"]

\* A report after its next check.
AfterRead(p) ==
  LET read == Head(reporter[p].todo)
      found == reporter[p].found \cup FoundBy(read, file)
      rest == Rest(p) IN
  IF read # "exists" /\ ~Readable(file) THEN Raised(p)
  ELSE [reporter[p] EXCEPT !.todo = rest, !.found = found,
                           !.level = IF rest = <<>> THEN Level(reporter[p].kind, found) ELSE @]

ReadOn(p) ==
  /\ Busy(p)
  /\ reporter' = [reporter EXCEPT ![p] = AfterRead(p)]

\* A command of the CLI, or a call of the SDK.
CallReport(p, kind) ==
  /\ ~Busy(p)
  /\ reports < MaxReports /\ reports' = reports + 1
  /\ Begin(p, kind)
  /\ UNCHANGED there

\* A config command goes on: reports begun before no longer see one file.
Disturb == /\ reporter' = [p \in Reporters |->
                             [reporter[p] EXCEPT !.calm = @ /\ file' = file]]
           /\ UNCHANGED <<there, reports>>

-------------------------------------------------------------------------------
Levels == {"none", "OK", "WARN", "FAIL", "INVALID", "answer", "raised"}

ReportsTypeOK ==
  /\ there \in Surroundings
  /\ reports \in 0 .. MaxReports
  /\ \A p \in Reporters :
       /\ reporter[p].kind \in Kinds \cup {"none"}
       /\ reporter[p].found \subseteq {"invalid", "risky", "no_config", "enabled", "no_token"}
       /\ reporter[p].level \in Levels
       /\ Busy(p) => reporter[p].level = "none"

(***************************************************************************)
(* What a report that says OK promises, for the file as it is.             *)
(***************************************************************************)
RiskyTypes == {"map.execute", "file.delete", "file.write", "file.create", "shell.exec", "other"}
Guarded(f) ==
  /\ ~load_config(f).allow_execute
  /\ \A type \in RiskyTypes :
       engine_from_config(load_config(f), [action_type |-> type, read_only |-> FALSE]) # AUTO
Valid(f) == \A k \in Lines :
  /\ load_config_data(f)[k] # WrongType
  /\ k = Stray => load_config_data(f)[k] = Unset
  /\ k \in {"safety.max_snapshot_mb", "retention.snapshot_days"} =>
       load_config_data(f)[k] \notin NotPositive
  /\ k \in RULE_CONFIG_KEYS =>
       load_config_data(f)[k] \in {Unset, load_config(f).rules[CHOOSE r \in RuleKeys : k = RuleConfigKey[r]]}

(***************************************************************************)
(* A report that says OK, and during and after which the file did not      *)
(* change, is right: nothing risky is let through by the engine the file   *)
(* describes, execution is off, no rule was dropped as unknown and no      *)
(* value for its type, and snapshots are neither refused for their size    *)
(* nor old at once.                                                        *)
(***************************************************************************)
OkMeansSafe ==
  \A p \in Reporters :
    reporter[p].level = "OK" /\ reporter[p].calm =>
      /\ Valid(file)
      /\ reporter[p].kind # "config_validate" => Guarded(file)

(***************************************************************************)
(* Whatever config commands a report runs beside, what it calls risky is   *)
(* something that somebody asked for, never a product of files that were   *)
(* read half-written or mixed up.  What it calls invalid is too, unless    *)
(* one command wrote its text over the text of another.                    *)
(***************************************************************************)
NoFalseAlarm ==
  \A p \in Reporters :
    /\ "invalid" \in reporter[p].found =>
         \/ mixed
         \/ \E pair \in asked : \/ pair[2] \in NotPositive \cup {WrongType}
                                \/ pair[1] = Stray /\ pair[2] # Unset
                                \/ pair[1] \in RULE_CONFIG_KEYS /\ pair[2] \notin PolicyNames \cup {Unset}
                                \/ pair[1] = "safety.default_policy"
    /\ {"risky", "enabled"} \cap reporter[p].found # {} =>
         \E pair \in asked : pair \in {<<"maps.allow_execute", "true">>}
                                      \cup {<<k, "auto">> : k \in RULE_CONFIG_KEYS}

===============================================================================
