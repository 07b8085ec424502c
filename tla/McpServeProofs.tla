---------------------------- MODULE McpServeProofs -----------------------------
(***************************************************************************)
(* Theorems about Reports and McpServe, for any processes that report, any *)
(* requests, any buffer and any `config` commands beside them: what a      *)
(* report that says OK promises, what it takes to raise an alarm, and that *)
(* the server answers every request once and in order.                     *)
(***************************************************************************)
EXTENDS McpServe, ConfigStoreProofs, SequenceTheorems

Findings  == {"invalid", "risky", "no_config", "enabled", "no_token"}
ReadNames == {"check", "load", "audit", "exists", "settings"}

ReportType == [kind : Kinds \cup {"none"}, todo : Seq(ReadNames), found : SUBSET Findings,
               level : Levels, calm : BOOLEAN]

ReadsIn(todo) == {todo[i] : i \in DOMAIN todo}

-------------------------------------------------------------------------------
(***************************************************************************)
(* The reads of each report, and the levels it can end with.               *)
(***************************************************************************)
LEMMA KindsAre ==
  Kinds = {"config_validate", "policy_test", "dry_run", "policy_audit", "release_check",
           "doctor", "doctor_command"}
BY DEF Kinds, ReadsOf

LEMMA ReadsOfKinds ==
  /\ \A kind \in Kinds : ReadsOf[kind] \in Seq(ReadNames) /\ ReadsOf[kind] # <<>>
  /\ \A kind \in Kinds \ {"policy_test", "dry_run"} : "check" \in ReadsIn(ReadsOf[kind])
  /\ \A kind \in Kinds \ {"policy_test", "dry_run", "config_validate"} :
       "audit" \in ReadsIn(ReadsOf[kind])
<1> DEFINE Good(kind) ==
      /\ ReadsOf[kind] \in Seq(ReadNames) /\ ReadsOf[kind] # <<>>
      /\ kind \notin {"policy_test", "dry_run"} => "check" \in ReadsIn(ReadsOf[kind])
      /\ kind \notin {"policy_test", "dry_run", "config_validate"} =>
           "audit" \in ReadsIn(ReadsOf[kind])
<1>1. Good("config_validate")
  <2>1. ReadsOf["config_validate"] = <<"check">>
    BY DEF ReadsOf
  <2>2. QED
    BY <2>1 DEF ReadsIn, ReadNames
<1>2. Good("policy_test") /\ Good("dry_run")
  <2>1. ReadsOf["policy_test"] = <<"load">> /\ ReadsOf["dry_run"] = <<"load">>
    BY DEF ReadsOf
  <2>2. QED
    BY <2>1 DEF ReadsIn, ReadNames
<1>3. Good("policy_audit")
  <2> PICK s : s = <<"check", "audit">>
    OBVIOUS
  <2>1. ReadsOf["policy_audit"] = s /\ s[1] = "check" /\ s[2] = "audit" /\ DOMAIN s = 1 .. 2
        /\ s \in Seq(ReadNames)
    BY DEF ReadsOf, ReadNames
  <2>2. QED
    BY <2>1 DEF ReadsIn
<1>4. Good("release_check")
  <2> PICK s : s = <<"check", "check", "audit", "exists">>
    OBVIOUS
  <2>1. ReadsOf["release_check"] = s /\ s[1] = "check" /\ s[3] = "audit" /\ DOMAIN s = 1 .. 4
        /\ s \in Seq(ReadNames)
    BY DEF ReadsOf, ReadNames
  <2>2. QED
    BY <2>1 DEF ReadsIn
<1>5. Good("doctor")
  <2> PICK s : s = <<"exists", "settings", "check", "audit">>
    OBVIOUS
  <2>1. ReadsOf["doctor"] = s /\ s[3] = "check" /\ s[4] = "audit" /\ DOMAIN s = 1 .. 4
        /\ s \in Seq(ReadNames)
    BY DEF ReadsOf, ReadNames
  <2>2. QED
    BY <2>1 DEF ReadsIn
<1>6. Good("doctor_command")
  <2> PICK s : s = <<"exists", "settings", "check", "audit", "load">>
    OBVIOUS
  <2>1. ReadsOf["doctor_command"] = s /\ s[3] = "check" /\ s[4] = "audit" /\ DOMAIN s = 1 .. 5
        /\ s \in Seq(ReadNames)
    BY DEF ReadsOf, ReadNames
  <2>2. QED
    BY <2>1 DEF ReadsIn
<1>7. QED
  BY <1>1, <1>2, <1>3, <1>4, <1>5, <1>6, KindsAre

LEMMA LevelsAre ==
  ASSUME NEW kind \in Kinds, NEW found
  PROVE  /\ Level(kind, found) \in Levels \ {"none", "raised"}
         /\ Level(kind, found) = "OK" =>
              /\ "invalid" \notin found
              /\ "risky" \notin found
              /\ kind \notin {"policy_test", "dry_run"}
BY KindsAre DEF Level, Levels

LEMMA FindingsAre == \A read, f : FoundBy(read, f) \subseteq Findings
BY DEF FoundBy, Findings

-------------------------------------------------------------------------------
(***************************************************************************)
(* What an OK promises, read off the file.                                 *)
(***************************************************************************)
LEMMA RuleKeysAre ==
  /\ RuleKeys = {"file_read", "file_write", "file_create", "file_delete",
                 "web_read", "map_dry_run", "map_execute", "unknown"}
  /\ ConfigurableTypes = {"file.read", "file.write", "file.create", "file.delete",
                          "web.read", "map.dry_run", "map.execute"}
  /\ \A t \in ConfigurableTypes : ACTION_FIELD_MAP[t] \in RuleKeys
  /\ ACTION_FIELD_MAP["file.write"] = "file_write"
  /\ ACTION_FIELD_MAP["file.create"] = "file_create"
  /\ ACTION_FIELD_MAP["file.delete"] = "file_delete"
  /\ ACTION_FIELD_MAP["map.execute"] = "map_execute"
BY DEF RuleKeys, ConfigurableTypes, ACTION_FIELD_MAP

LEMMA AutoNames ==
  \A name \in PolicyNames : POLICY_MAP[name] = AUTO => name = "auto"
BY DEF POLICY_MAP, PolicyNames, AUTO, SNAPSHOT, REVIEW, BLOCK

LEMMA LoadedRules ==
  ASSUME NEW f, NEW r \in RuleKeys
  PROVE  load_config(f).rules[r] \in PolicyNames \cup {Unset}
BY DEF load_config, as_valid_rule_policy

LEMMA FieldOrderTypes ==
  /\ DOMAIN FieldOrder = 1 .. 7
  /\ \A i \in DOMAIN FieldOrder : FieldOrder[i] \in ConfigurableTypes
  /\ \A i, j \in DOMAIN FieldOrder : FieldOrder[i] = FieldOrder[j] => i = j
<1>1. DOMAIN FieldOrder = 1 .. 7
  BY DEF FieldOrder
<1>2. /\ FieldOrder[1] = "file.read" /\ FieldOrder[2] = "file.write"
      /\ FieldOrder[3] = "file.create" /\ FieldOrder[4] = "file.delete"
      /\ FieldOrder[5] = "web.read" /\ FieldOrder[6] = "map.dry_run"
      /\ FieldOrder[7] = "map.execute"
  BY DEF FieldOrder
<1>3. QED
  BY <1>1, <1>2, RuleKeysAre

\* The engine of a configuration that the audit has nothing to say about.
LEMMA CleanEngine ==
  ASSUME NEW f, audit_policy_config(load_config(f)) = {}, NEW t \in RiskyTypes
  PROVE  engine_from_config(load_config(f), [action_type |-> t, read_only |-> FALSE]) # AUTO
<1> PICK c : c = load_config(f)
  OBVIOUS
<1> PICK rs : rs = rules_from_config(c)
  OBVIOUS
<1> PICK call : call = [action_type |-> t, read_only |-> FALSE]
  OBVIOUS
<1>1. \A key \in {"map_execute", "file_delete", "unknown", "file_write", "file_create"} :
        c.rules[key] \in (PolicyNames \cup {Unset}) \ {"auto"}
  BY LoadedRules, RuleKeysAre DEF audit_policy_config
<1>2. t \in ConfigurableTypes =>
        ACTION_FIELD_MAP[t] \in {"map_execute", "file_delete", "file_write", "file_create"}
  BY RuleKeysAre DEF RiskyTypes
<1>3. call.action_type = t /\ t # "api.call"
  BY DEF RiskyTypes
<1>4. CASE Matching(rs, t) # {}
  <2>1. \A i \in Matching(rs, t) :
          /\ i \in DOMAIN FieldOrder /\ FieldOrder[i] = t /\ rs[i].priority = 0
          /\ rs[i].policy = POLICY_MAP[c.rules[ACTION_FIELD_MAP[t]]]
          /\ c.rules[ACTION_FIELD_MAP[t]] # Unset
    BY DEF Matching, rules_from_config
  <2>2. PICK i \in Matching(rs, t) : TRUE
    BY <1>4
  <2>3. Matching(rs, t) = {i} /\ SortsBefore(rs, i, i)
    BY <2>1, <2>2, FieldOrderTypes DEF SortsBefore
  <2>4. match_explicit_rule(rs, t) = i
    BY <2>3 DEF match_explicit_rule
  <2>5. evaluate(rs, IF c.rules["unknown"] = Unset THEN REVIEW ELSE POLICY_MAP[c.rules["unknown"]], call)
          = POLICY_MAP[c.rules[ACTION_FIELD_MAP[t]]]
    BY <1>3, <1>4, <2>1, <2>2, <2>4 DEF evaluate
  <2>6. c.rules[ACTION_FIELD_MAP[t]] \in PolicyNames \ {"auto"}
    BY <1>1, <1>2, <2>1, <2>2, FieldOrderTypes
  <2>7. QED
    BY <2>5, <2>6, AutoNames DEF engine_from_config
<1>5. CASE Matching(rs, t) = {} /\ t \in DOMAIN DEFAULT_POLICIES
  <2>1. DEFAULT_POLICIES[t] \in {SNAPSHOT, REVIEW}
    BY <1>5 DEF DEFAULT_POLICIES, RiskyTypes
  <2>2. evaluate(rs, IF c.rules["unknown"] = Unset THEN REVIEW ELSE POLICY_MAP[c.rules["unknown"]], call)
          = DEFAULT_POLICIES[t]
    BY <1>3, <1>5 DEF evaluate
  <2>3. QED
    BY <2>1, <2>2 DEF engine_from_config, AUTO, SNAPSHOT, REVIEW
<1>6. CASE Matching(rs, t) = {} /\ t \notin DOMAIN DEFAULT_POLICIES
  <2>1. evaluate(rs, IF c.rules["unknown"] = Unset THEN REVIEW ELSE POLICY_MAP[c.rules["unknown"]], call)
          = IF c.rules["unknown"] = Unset THEN REVIEW ELSE POLICY_MAP[c.rules["unknown"]]
    BY <1>3, <1>6 DEF evaluate
  <2>2. c.rules["unknown"] # Unset => POLICY_MAP[c.rules["unknown"]] # AUTO
    BY <1>1, AutoNames
  <2>3. QED
    BY <2>1, <2>2 DEF engine_from_config, AUTO, REVIEW
<1>7. QED
  BY <1>4, <1>5, <1>6

LEMMA CleanIsGuarded ==
  ASSUME NEW f, "risky" \notin FoundBy("audit", f)
  PROVE  Guarded(f)
<1>1. audit_policy_config(load_config(f)) = {}
  BY DEF FoundBy
<1>2. ~load_config(f).allow_execute
  BY <1>1 DEF audit_policy_config
<1>3. QED
  BY <1>1, <1>2, CleanEngine DEF Guarded

LEMMA RuleConfigKeysAre ==
  RULE_CONFIG_KEYS = {"rules.file_read", "rules.file_write", "rules.file_create",
                      "rules.file_delete", "rules.web_read", "rules.map_dry_run",
                      "rules.map_execute", "rules.unknown"}
BY RuleKeysAre DEF RULE_CONFIG_KEYS, RuleConfigKey

LEMMA StrayIsNoRule == Stray \notin RULE_CONFIG_KEYS
BY RuleConfigKeysAre DEF Stray

LEMMA CheckedIsValid ==
  ASSUME NEW f, "invalid" \notin FoundBy("check", f)
  PROVE  Valid(f)
<1> PICK data : data = load_config_data(f)
  OBVIOUS
<1>1. validate_config_data(data) = {}
  BY DEF FoundBy
<1>2. \A k \in Lines :
        /\ data[k] # WrongType
        /\ k = Stray => data[k] = Unset
        /\ k \in {"safety.max_snapshot_mb", "retention.snapshot_days"} => data[k] \notin NotPositive
        /\ k \in RULE_CONFIG_KEYS => data[k] \in PolicyNames \cup {Unset}
  BY <1>1 DEF validate_config_data
<1>3. ASSUME NEW k \in Lines, k \in RULE_CONFIG_KEYS
      PROVE  data[k] \in {Unset, load_config(f).rules[CHOOSE r \in RuleKeys : k = RuleConfigKey[r]]}
  <2>1. data[k] \in PolicyNames \cup {Unset}
    BY <1>2, <1>3
  <2>2. PICK r : r = CHOOSE q \in RuleKeys : k = RuleConfigKey[q]
    OBVIOUS
  <2>3. r \in RuleKeys /\ k = RuleConfigKey[r]
    BY <1>3, <2>2 DEF RULE_CONFIG_KEYS
  <2>4. k \in Keys
    BY <1>3, StrayIsNoRule DEF Lines
  <2>5. load_config(f).rules[r] = as_valid_rule_policy(data[k])
    BY <2>3, <2>4 DEF load_config, Setting
  <2>6. QED
    BY <2>1, <2>2, <2>5 DEF as_valid_rule_policy
<1>4. QED
  BY <1>2, <1>3 DEF Valid

-------------------------------------------------------------------------------
(***************************************************************************)
(* What an alarm takes: the default of every setting is harmless, so that  *)
(* a setting that is not was asked for, or is a line of two texts that     *)
(* were written one over the other.                                        *)
(***************************************************************************)
Sources == asked \cup {pair \in {<<Stray, "stray">>} : mixed}

SomeoneAskedInvalid(known) ==
  \E pair \in known : \/ pair[2] \in NotPositive \cup {WrongType}
                      \/ pair[1] = Stray /\ pair[2] # Unset
                      \/ pair[1] \in RULE_CONFIG_KEYS /\ pair[2] \notin PolicyNames \cup {Unset}
                      \/ pair[1] = "safety.default_policy"
SomeoneAskedRisky(known) ==
  \E pair \in known : pair \in {<<"maps.allow_execute", "true">>}
                               \cup {<<k, "auto">> : k \in RULE_CONFIG_KEYS}

AlarmOK(found, known) ==
  /\ "invalid" \in found => SomeoneAskedInvalid(known)
  /\ {"risky", "enabled"} \cap found # {} => SomeoneAskedRisky(known)

LEMMA DefaultsHarmless ==
  /\ \A k \in RULE_CONFIG_KEYS : DataclassDefault(k) = Unset
  /\ DataclassDefault("safety.default_policy") = "review"
  /\ DataclassDefault("maps.allow_execute") = "false"
  /\ DataclassDefault("safety.max_snapshot_mb") \notin NotPositive
  /\ DataclassDefault("retention.snapshot_days") \notin NotPositive
  /\ DataclassDefault(Stray) = Unset
  /\ \A k : DataclassDefault(k) # WrongType
BY RuleConfigKeysAre DEF DataclassDefault, NotPositive, Stray, WrongType, Unset

LEMMA AlarmsAskedFor ==
  ASSUME NEW read, ConfigIInv, Readable(file)
  PROVE  AlarmOK(FoundBy(read, file), Sources)
<1> PICK data : data = load_config_data(file)
  OBVIOUS
<1>1. \A k \in Keys : data[k] = DataclassDefault(k) \/ <<k, data[k]>> \in Sources
  BY NoneUnasked, StrayIsUnknown DEF NothingUnasked, Sources
<1>2. ASSUME validate_config_data(data) # {} PROVE SomeoneAskedInvalid(Sources)
  <2>1. PICK k \in Lines :
          \/ data[k] = WrongType
          \/ k = "safety.default_policy" /\ data[k] \notin {"auto", "review", "snapshot"}
          \/ k \in {"safety.max_snapshot_mb", "retention.snapshot_days"} /\ data[k] \in NotPositive
          \/ k \in RULE_CONFIG_KEYS /\ data[k] \notin PolicyNames \cup {Unset}
          \/ k = Stray /\ data[k] # Unset
    BY <1>2 DEF validate_config_data
  <2>2. CASE k = Stray
    <3>1. mixed \/ <<Stray, data[Stray]>> \in asked
      BY <2>1, <2>2, NoneUnasked, DefaultsHarmless DEF NothingUnasked, NotPositive
    <3>2. data[Stray] # Unset
      BY <2>1, <2>2, StrayIsNoRule DEF Stray, WrongType, Unset
    <3>3. CASE mixed
      <4>1. <<Stray, "stray">> \in Sources /\ "stray" # Unset
        BY <3>3 DEF Sources, Unset
      <4>2. QED
        BY <4>1 DEF SomeoneAskedInvalid
    <3>4. CASE <<Stray, data[Stray]>> \in asked
      BY <3>2, <3>4 DEF Sources, SomeoneAskedInvalid
    <3>5. QED
      BY <3>1, <3>3, <3>4
  <2>3. CASE k # Stray
    <3>1. <<k, data[k]>> \in Sources
      BY <1>1, <2>1, <2>3, DefaultsHarmless DEF Lines
    <3>2. QED
      BY <2>1, <2>3, <3>1 DEF SomeoneAskedInvalid
  <2>4. QED
    BY <2>2, <2>3
<1>3. ASSUME load_config(file).allow_execute PROVE SomeoneAskedRisky(Sources)
  <2>1. "maps.allow_execute" \in Keys /\ data["maps.allow_execute"] = "true"
    BY <1>3, DefaultsHarmless DEF load_config, Setting
  <2>2. <<"maps.allow_execute", "true">> \in Sources
    BY <1>1, <2>1, DefaultsHarmless
  <2>3. QED
    BY <2>2 DEF SomeoneAskedRisky
<1>4. ASSUME audit_policy_config(load_config(file)) # {} PROVE SomeoneAskedRisky(Sources)
  <2>1. CASE \E key \in RuleKeys : load_config(file).rules[key] = "auto"
    <3>1. PICK key \in RuleKeys : load_config(file).rules[key] = "auto"
      BY <2>1
    <3>2. PICK k : k = RuleConfigKey[key]
      OBVIOUS
    <3>3. k \in RULE_CONFIG_KEYS
      BY <3>2 DEF RULE_CONFIG_KEYS
    <3>4. Setting(file, k) = "auto"
      BY <3>1, <3>2 DEF load_config, as_valid_rule_policy, Unset
    <3>5. k \in Keys /\ data[k] = "auto"
      BY <3>3, <3>4, DefaultsHarmless DEF Setting, Unset
    <3>6. <<k, "auto">> \in Sources
      BY <1>1, <3>3, <3>5, DefaultsHarmless DEF Unset
    <3>7. QED
      BY <3>3, <3>6 DEF SomeoneAskedRisky
  <2>2. CASE \A key \in RuleKeys : load_config(file).rules[key] # "auto"
    <3>1. load_config(file).allow_execute
      BY <1>4, <2>2, RuleKeysAre DEF audit_policy_config
    <3>2. QED
      BY <1>3, <3>1
  <2>3. QED
    BY <2>1, <2>2
<1>5. QED
  BY <1>2, <1>3, <1>4 DEF FoundBy, AlarmOK

LEMMA AlarmsStay ==
  ASSUME NEW known, NEW more, known \subseteq more, NEW found, AlarmOK(found, known)
  PROVE  AlarmOK(found, more)
BY DEF AlarmOK, SomeoneAskedInvalid, SomeoneAskedRisky

-------------------------------------------------------------------------------
(***************************************************************************)
(* What holds of one report.  A calm report has found whatever the reads   *)
(* it has behind it find in the file as it is, or an error.                *)
(***************************************************************************)
Covered(s, f) ==
  \/ "invalid" \in s.found
  \/ \A read \in ReadsIn(ReadsOf[s.kind]) \ ReadsIn(s.todo) : FoundBy(read, f) \subseteq s.found

ReportOK(s, f, known) ==
  /\ s \in ReportType
  /\ s.todo # <<>> => s.level = "none" /\ s.kind \in Kinds
  /\ s.level = "OK" => /\ s.todo = <<>> /\ s.kind \in Kinds \ {"policy_test", "dry_run"}
                       /\ "invalid" \notin s.found /\ "risky" \notin s.found
  /\ s.calm /\ s.kind \in Kinds /\ s.level # "raised" => Covered(s, f)
  /\ AlarmOK(s.found, known)

LEMMA NoReportOK == \A f, known : ReportOK(NoReport, f, known) /\ NoReport.todo = <<>>
<1>1. NoReport \in ReportType /\ NoReport.todo = <<>> /\ NoReport.level = "none"
      /\ NoReport.kind = "none" /\ NoReport.found = {}
  BY DEF NoReport, ReportType, Levels
<1>2. "none" \notin Kinds
  BY KindsAre
<1>3. QED
  BY <1>1, <1>2 DEF ReportOK, AlarmOK

LEMMA ReportBegins ==
  ASSUME NEW kind \in Kinds, NEW f, NEW known
  PROVE  LET s == [NoReport EXCEPT !.kind = kind, !.todo = ReadsOf[kind]] IN
           ReportOK(s, f, known) /\ s.todo # <<>> /\ s.level = "none"
<1>1. PICK reads : reads = ReadsOf[kind]
  OBVIOUS
<1>2. reads \in Seq(ReadNames) /\ reads # <<>>
  BY <1>1, ReadsOfKinds
<1>3. PICK none : none = NoReport
  OBVIOUS
<1>4. none \in ReportType /\ none.found = {} /\ none.level = "none"
  BY <1>3 DEF NoReport, ReportType, Levels
<1>5. PICK s : s = [none EXCEPT !.kind = kind, !.todo = reads]
  OBVIOUS
<1>6. /\ s \in ReportType /\ s.kind = kind /\ s.todo = reads /\ s.found = {}
      /\ s.level = "none"
  BY <1>2, <1>4, <1>5 DEF ReportType
<1>7. Covered(s, f) /\ AlarmOK(s.found, known)
  BY <1>1, <1>6 DEF Covered, AlarmOK
<1>8. ReportOK(s, f, known)
  BY <1>2, <1>6, <1>7 DEF ReportOK
<1>9. QED
  BY <1>1, <1>2, <1>3, <1>5, <1>6, <1>8

LEMMA TodoSplits ==
  ASSUME NEW S, NEW todo \in Seq(S), todo # <<>>
  PROVE  /\ Head(todo) \in S /\ Tail(todo) \in Seq(S)
         /\ ReadsIn(todo) \subseteq {Head(todo)} \cup ReadsIn(Tail(todo))
<1>1. Len(todo) \in Nat /\ Len(todo) >= 1 /\ DOMAIN todo = 1 .. Len(todo)
  BY EmptySeq, LenProperties
<1>2. PICK next : next = Tail(todo)
  OBVIOUS
<1>3. /\ Head(todo) \in S /\ next \in Seq(S) /\ Len(next) = Len(todo) - 1
      /\ \A i \in 1 .. Len(next) : next[i] = todo[i + 1]
  BY <1>2, HeadTailProperties
<1>4. DOMAIN next = 1 .. Len(next)
  BY <1>3
<1>5. \A i \in DOMAIN todo : i = 1 \/ (i - 1 \in DOMAIN next /\ next[i - 1] = todo[i])
  BY <1>1, <1>3, <1>4
<1>6. Head(todo) = todo[1]
  BY <1>1
<1>7. ReadsIn(todo) \subseteq {Head(todo)} \cup ReadsIn(next)
  BY <1>5, <1>6 DEF ReadsIn
<1>8. QED
  BY <1>2, <1>3, <1>7

\* What is left to read.
LEMMA RestIs ==
  ASSUME NEW p \in Reporters, NEW todo \in Seq(ReadNames), todo = reporter[p].todo, todo # <<>>
  PROVE  /\ Rest(p) \in Seq(ReadNames)
         /\ \/ ReadsIn(todo) \subseteq {Head(todo)} \cup ReadsIn(Rest(p))
            \/ "invalid" \in FoundBy(Head(todo), file)
<1>1. CASE FoundBy(Head(todo), file) = {"invalid"} /\ Tail(todo) # <<>> /\ Head(Tail(todo)) = "audit"
  <2>1. PICK next : next = Tail(todo)
    OBVIOUS
  <2>2. next \in Seq(ReadNames) /\ next # <<>>
    BY <1>1, <2>1, TodoSplits
  <2>3. Tail(next) \in Seq(ReadNames)
    BY <2>2, TodoSplits
  <2>4. Rest(p) = Tail(next)
    BY <1>1, <2>1 DEF Rest
  <2>5. QED
    BY <1>1, <2>3, <2>4
<1>2. CASE ~(FoundBy(Head(todo), file) = {"invalid"} /\ Tail(todo) # <<>> /\ Head(Tail(todo)) = "audit")
  <2>1. Rest(p) = Tail(todo)
    BY <1>2 DEF Rest
  <2>2. QED
    BY <2>1, TodoSplits
<1>3. QED
  BY <1>1, <1>2

(***************************************************************************)
(* One check, of a report that goes on or ends.                            *)
(***************************************************************************)
LEMMA ReadOnOK ==
  ASSUME NEW p \in Reporters, reporter = [q \in Reporters |-> reporter[q]], ConfigIInv,
         ReportOK(reporter[p], file, Sources), ReadOn(p)
  PROVE  \E s : /\ reporter' = [reporter EXCEPT ![p] = s]
                /\ ReportOK(s, file, Sources)
                /\ s.level = "none" <=> s.todo # <<>>
                /\ s.level = "raised" => s.todo = <<>>
<1> PICK old : old = reporter[p]
  OBVIOUS
<1> PICK todo : todo = old.todo
  OBVIOUS
<1> PICK rest : rest = Rest(p)
  OBVIOUS
<1> PICK found : found = old.found \cup FoundBy(Head(todo), file)
  OBVIOUS
<1>1. /\ old \in ReportType /\ todo \in Seq(ReadNames) /\ todo # <<>> /\ old.level = "none"
      /\ old.kind \in Kinds /\ ReportOK(old, file, Sources)
  BY DEF ReadOn, Busy, ReportOK, ReportType
<1>2. rest \in Seq(ReadNames)
      /\ \/ ReadsIn(todo) \subseteq {Head(todo)} \cup ReadsIn(rest)
         \/ "invalid" \in FoundBy(Head(todo), file)
  BY <1>1, RestIs
<1>3. found \in SUBSET Findings
  BY <1>1, FindingsAre DEF ReportType
<1>4. CASE Head(todo) # "exists" /\ ~Readable(file)
  <2>1. PICK s : s = [old EXCEPT !.todo = <<>>, !.level = "raised"]
    OBVIOUS
  <2>2. /\ s \in ReportType /\ s.todo = <<>> /\ s.level = "raised" /\ s.kind = old.kind
        /\ s.found = old.found
    BY <1>1, <2>1, EmptySeq DEF ReportType, Levels
  <2>3. reporter' = [reporter EXCEPT ![p] = s]
    <3>1. AfterRead(p) = s
      BY <1>4, <2>1 DEF AfterRead, Raised
    <3>2. QED
      BY <3>1 DEF ReadOn
  <2>4. ReportOK(s, file, Sources)
    BY <1>1, <2>2 DEF ReportOK
  <2>5. QED
    BY <2>2, <2>3, <2>4
<1>5. CASE ~(Head(todo) # "exists" /\ ~Readable(file))
  <2>1. PICK level : level = IF rest = <<>> THEN Level(old.kind, found) ELSE old.level
    OBVIOUS
  <2>2. level \in Levels
    BY <1>1, <2>1, LevelsAre DEF ReportType
  <2>3. PICK s : s = [old EXCEPT !.todo = rest, !.found = found, !.level = level]
    OBVIOUS
  <2>4. /\ s \in ReportType /\ s.todo = rest /\ s.level = level /\ s.kind = old.kind
        /\ s.found = found /\ s.calm = old.calm
    BY <1>1, <1>2, <1>3, <2>2, <2>3 DEF ReportType
  <2>5. reporter' = [reporter EXCEPT ![p] = s]
    <3>1. AfterRead(p) = s
      BY <1>5, <2>1, <2>3 DEF AfterRead
    <3>2. QED
      BY <3>1 DEF ReadOn
  <2>6. Covered(old, file) => Covered(s, file)
    BY <1>2, <2>4 DEF Covered
  <2>7. AlarmOK(FoundBy(Head(todo), file), Sources)
    <3>1. CASE Readable(file)
      BY <3>1, AlarmsAskedFor
    <3>2. CASE Head(todo) = "exists"
      BY <3>2 DEF FoundBy, AlarmOK
    <3>3. QED
      BY <1>5, <3>1, <3>2
  <2>8. AlarmOK(s.found, Sources)
    BY <1>1, <2>4, <2>7 DEF AlarmOK, ReportOK
  <2>9. rest = <<>> => level \notin {"none", "raised"}
    BY <1>1, <2>1, LevelsAre
  <2>10. rest # <<>> => level = "none"
    BY <1>1, <2>1
  <2>11. level = "OK" => /\ rest = <<>> /\ old.kind \in Kinds \ {"policy_test", "dry_run"}
                         /\ "invalid" \notin found /\ "risky" \notin found
    BY <1>1, <2>1, LevelsAre
  <2>12. ReportOK(s, file, Sources)
    BY <1>1, <2>4, <2>6, <2>8, <2>10, <2>11 DEF ReportOK
  <2>13. QED
    BY <2>4, <2>5, <2>9, <2>10, <2>12
<1>6. QED
  BY <1>4, <1>5

(***************************************************************************)
(* The `config` commands: whoever reports while the file changes is no     *)
(* longer calm.                                                            *)
(***************************************************************************)
LEMMA DisturbedOK ==
  ASSUME NEW s, NEW same \in BOOLEAN, NEW f, NEW g, NEW known, NEW more,
         ReportOK(s, f, known), known \subseteq more, same => g = f
  PROVE  /\ ReportOK([s EXCEPT !.calm = @ /\ same], g, more)
         /\ [s EXCEPT !.calm = @ /\ same].todo = s.todo
         /\ [s EXCEPT !.calm = @ /\ same].kind = s.kind
<1> PICK new : new = [s EXCEPT !.calm = @ /\ same]
  OBVIOUS
<1>1. s \in ReportType
  BY DEF ReportOK
<1>2. new \in ReportType /\ new.todo = s.todo /\ new.level = s.level /\ new.kind = s.kind
      /\ new.found = s.found
  BY <1>1 DEF ReportType
<1>3. new.calm => s.calm /\ same
  BY <1>1 DEF ReportType
<1>4. Covered(new, f) <=> Covered(s, f)
  BY <1>2 DEF Covered
<1>5. AlarmOK(new.found, more)
  BY <1>2, AlarmsStay DEF ReportOK
<1>6. QED
  BY <1>2, <1>3, <1>4, <1>5 DEF ReportOK

-------------------------------------------------------------------------------
(***************************************************************************)
(* All reports of all processes, beside all `config` commands.             *)
(***************************************************************************)
RInv ==
  /\ ConfigIInv
  /\ there \in Surroundings /\ reports \in 0 .. MaxReports
  /\ reporter = [p \in Reporters |-> reporter[p]]
  /\ \A p \in Reporters : ReportOK(reporter[p], file, Sources)

LEMMA InitRInv == Init => RInv
<1> SUFFICES ASSUME Init PROVE RInv
  OBVIOUS
<1>1. ConfigIInv
  BY InitConfigIInv DEF Init
<1>2. \A p \in Reporters : reporter[p] = NoReport
  BY DEF Init, ReportsInit
<1>3. /\ there \in Surroundings /\ reports \in 0 .. MaxReports
      /\ reporter = [p \in Reporters |-> reporter[p]]
  BY ReportsAssumption DEF Init, ReportsInit
<1>4. QED
  BY <1>1, <1>2, <1>3, NoReportOK DEF RInv

\* One report changes, the file does not.
LEMMA OneReport ==
  ASSUME RInv, NEW p \in Reporters, NEW s, reporter' = [reporter EXCEPT ![p] = s],
         ReportOK(s, file, Sources), UNCHANGED configVars,
         there' = there, reports' \in 0 .. MaxReports
  PROVE  RInv'
<1>1. reporter' = [q \in Reporters |-> IF q = p THEN s ELSE reporter[q]]
  BY DEF RInv
<1>2. ConfigIInv' /\ file' = file /\ Sources' = Sources
  BY NextConfigIInv DEF RInv, Sources, configVars, configHistory
<1>3. \A q \in Reporters : ReportOK(reporter'[q], file', Sources')
  BY <1>1, <1>2 DEF RInv
<1>4. QED
  BY <1>1, <1>2, <1>3 DEF RInv

LEMMA NothingReported ==
  ASSUME RInv, UNCHANGED <<configVars, reportVars>>
  PROVE  RInv'
<1>1. ConfigIInv' /\ file' = file /\ Sources' = Sources
  BY NextConfigIInv DEF RInv, Sources, configVars, configHistory
<1>2. QED
  BY <1>1 DEF RInv, reportVars

LEMMA BeginStep ==
  ASSUME RInv, NEW p \in Reporters, NEW kind \in Kinds, Begin(p, kind), UNCHANGED configVars,
         there' = there, reports' \in 0 .. MaxReports
  PROVE  RInv' /\ reporter'[p].todo # <<>>
<1> PICK s : s = [NoReport EXCEPT !.kind = kind, !.todo = ReadsOf[kind]]
  OBVIOUS
<1>1. reporter' = [reporter EXCEPT ![p] = s]
  BY DEF Begin
<1>2. ReportOK(s, file, Sources) /\ s.todo # <<>>
  BY ReportBegins
<1>3. reporter'[p] = s
  BY <1>1 DEF RInv
<1>4. QED
  BY <1>1, <1>2, <1>3, OneReport

LEMMA ReadOnStep ==
  ASSUME RInv, NEW p \in Reporters, ReadOn(p), UNCHANGED <<there, reports, configVars>>
  PROVE  /\ RInv'
         /\ reporter'[p].level = "none" <=> reporter'[p].todo # <<>>
<1>1. PICK s : /\ reporter' = [reporter EXCEPT ![p] = s]
               /\ ReportOK(s, file, Sources)
               /\ s.level = "none" <=> s.todo # <<>>
  BY ReadOnOK DEF RInv
<1>2. reporter'[p] = s
  BY <1>1 DEF RInv
<1>3. reports' \in 0 .. MaxReports
  BY DEF RInv
<1>4. QED
  BY <1>1, <1>2, <1>3, OneReport

LEMMA SourcesGrow == ConfigNext => Sources \subseteq Sources'
<1> SUFFICES ASSUME ConfigNext PROVE Sources \subseteq Sources'
  OBVIOUS
<1>1. mixed => mixed'
  BY DEF ConfigNext, ConfigSet, ConfigReset, ConfigProfile, ConfigText, Create, Fill, Load, Open, Write,
     WriteText, SetterDies, configHistory
<1>2. QED
  BY <1>1, AskedGrows DEF Sources

LEMMA DisturbStep ==
  ASSUME RInv, ConfigNext, Disturb
  PROVE  RInv' /\ \A p \in Reporters : reporter'[p].todo = reporter[p].todo
<1> PICK same \in BOOLEAN : same = (file' = file)
  OBVIOUS
<1>1. reporter' = [p \in Reporters |-> [reporter[p] EXCEPT !.calm = @ /\ same]]
  BY DEF Disturb
<1>2. ConfigIInv' /\ Sources \subseteq Sources'
  BY NextConfigIInv, SourcesGrow DEF RInv
<1>3. ASSUME NEW p \in Reporters
      PROVE  ReportOK(reporter'[p], file', Sources') /\ reporter'[p].todo = reporter[p].todo
  <2>1. reporter'[p] = [reporter[p] EXCEPT !.calm = @ /\ same]
    BY <1>1
  <2>2. ReportOK(reporter[p], file, Sources)
    BY DEF RInv
  <2>3. PICK s, g, more : s = reporter[p] /\ g = file' /\ more = Sources'
    OBVIOUS
  <2>4. same => g = file
    BY <2>3
  <2>5. Sources \subseteq more
    BY <1>2, <2>3
  <2>6. ReportOK([s EXCEPT !.calm = @ /\ same], g, more)
        /\ [s EXCEPT !.calm = @ /\ same].todo = s.todo
    BY <1>2, <2>2, <2>3, <2>4, <2>5, DisturbedOK
  <2>7. reporter'[p] = [s EXCEPT !.calm = @ /\ same]
    BY <2>1, <2>3
  <2>8. QED
    BY <2>3, <2>6, <2>7
<1>4. reporter' = [p \in Reporters |-> reporter'[p]]
  BY <1>1
<1>5. QED
  BY <1>2, <1>3, <1>4 DEF RInv, Disturb

\* The server reads what was sent.
LinesRead == sent \in 0 .. Len(Requests) /\ taken \in 0 .. sent

LEMMA InitLinesRead == Init => LinesRead
<1>1. Len(Requests) \in Nat
  BY RequestsAssumption, LenProperties
<1>2. QED
  BY <1>1 DEF Init, LinesRead

LEMMA NextLinesRead == LinesRead /\ [Next]_allVars => LinesRead'
<1> SUFFICES ASSUME LinesRead, [Next]_allVars PROVE LinesRead'
  OBVIOUS
<1>1. CASE UNCHANGED <<sent, taken>>
  BY <1>1 DEF LinesRead
<1>2. CASE Send
  BY <1>2, RequestsAssumption, LenProperties DEF Send, LinesRead
<1>3. CASE Serve
  BY <1>3, RequestsAssumption, LenProperties DEF Serve, NextLine, LinesRead
<1>4. CASE ~Send /\ ~Serve
  BY <1>1, <1>4 DEF Next, allVars, mcpVars, Close, ServeReport, EndOfInput, ReportElsewhere, ConfigStep
<1>5. QED
  BY <1>2, <1>3, <1>4

LEMMA NextRInv == RInv /\ LinesRead /\ [Next]_allVars => RInv'
<1> SUFFICES ASSUME RInv, LinesRead, [Next]_allVars PROVE RInv'
  OBVIOUS
<1>1. CASE UNCHANGED allVars
  BY <1>1, NothingReported DEF allVars
<1>2. CASE Send \/ Close \/ EndOfInput
  BY <1>2, NothingReported DEF Send, Close, EndOfInput
<1>3. CASE Serve
  <2>1. CASE Requests[taken'] \in {"blank", "malformed", "static"}
    BY <1>3, <2>1, NothingReported DEF Serve
  <2>2. CASE Requests[taken'] \notin {"blank", "malformed", "static"}
    <3>1. Begin(Server, Requests[taken']) /\ UNCHANGED <<there, reports, configVars>>
      BY <1>3, <2>2 DEF Serve
    <3>2. taken' \in 1 .. Len(Requests)
      <4>1. taken < sent /\ taken' = taken + 1
        BY <1>3 DEF Serve, NextLine
      <4>2. Len(Requests) \in Nat
        BY RequestsAssumption, LenProperties
      <4>3. QED
        BY <4>1, <4>2 DEF LinesRead
    <3>3. Requests[taken'] \in Kinds
      BY <2>2, <3>2, KindsAre, RequestsAssumption, ElementOfSeq
    <3>4. QED
      BY <3>1, <3>3, BeginStep, ServerAssumption DEF RInv
  <2>3. QED
    BY <2>1, <2>2
<1>4. CASE ServeReport
  BY <1>4, ReadOnStep, ServerAssumption DEF ServeReport
<1>5. CASE ReportElsewhere
  <2>1. PICK p \in Reporters \ {Server} :
          \/ \E kind \in Kinds : CallReport(p, kind)
          \/ ReadOn(p) /\ UNCHANGED <<there, reports>>
    BY <1>5, CalledAssumption DEF ReportElsewhere
  <2>2. UNCHANGED configVars
    BY <1>5 DEF ReportElsewhere
  <2>3. ASSUME NEW kind \in Kinds, CallReport(p, kind) PROVE RInv'
    <3>1. reports' \in 0 .. MaxReports
      BY <2>3, ReportsAssumption DEF CallReport, RInv
    <3>2. QED
      BY <2>2, <2>3, <3>1, BeginStep DEF CallReport
  <2>4. QED
    BY <2>1, <2>2, <2>3, ReadOnStep
<1>6. CASE ConfigStep
  BY <1>6, DisturbStep DEF ConfigStep
<1>7. QED
  BY <1>1, <1>2, <1>3, <1>4, <1>5, <1>6 DEF Next

LEMMA ReportsStay == Spec => []RInv /\ []LinesRead
<1>1. Spec => []LinesRead
  BY InitLinesRead, NextLinesRead, PTL DEF Spec
<1>2. QED
  BY <1>1, InitRInv, NextRInv, PTL DEF Spec

(***************************************************************************)
(* Type correctness of the reports, over every interleaving of processes   *)
(* and `config` commands.                                                  *)
(***************************************************************************)
THEOREM ReportsTypeCorrect == Spec => []ReportsTypeOK
<1>1. RInv => ReportsTypeOK
  BY DEF RInv, ReportOK, ReportType, ReportsTypeOK, Findings, Busy
<1>2. QED
  BY <1>1, ReportsStay, PTL

(***************************************************************************)
(* core/policy_audit.py, release.py, cli/main.py: "OK" is a promise about  *)
(* the engine that the file describes, whatever of the settings were       *)
(* dropped or defaulted on the way, as long as the file stays.             *)
(***************************************************************************)
THEOREM OKIsSafe == Spec => []OkMeansSafe
<1>1. ASSUME RInv, NEW p \in Reporters, reporter[p].level = "OK", reporter[p].calm
      PROVE  /\ Valid(file)
             /\ reporter[p].kind # "config_validate" => Guarded(file)
  <2> PICK s : s = reporter[p]
    OBVIOUS
  <2>1. /\ s.todo = <<>> /\ s.kind \in Kinds \ {"policy_test", "dry_run"}
        /\ "invalid" \notin s.found /\ "risky" \notin s.found /\ Covered(s, file)
    BY <1>1 DEF RInv, ReportOK
  <2>2. ReadsIn(s.todo) = {}
    BY <2>1 DEF ReadsIn
  <2>3. \A read \in ReadsIn(ReadsOf[s.kind]) : FoundBy(read, file) \subseteq s.found
    BY <2>1, <2>2 DEF Covered
  <2>4. Valid(file)
    BY <2>1, <2>3, ReadsOfKinds, CheckedIsValid
  <2>5. s.kind # "config_validate" => Guarded(file)
    BY <2>1, <2>3, ReadsOfKinds, CleanIsGuarded
  <2>6. QED
    BY <2>4, <2>5
<1>2. RInv => OkMeansSafe
  BY <1>1 DEF OkMeansSafe
<1>3. QED
  BY <1>2, ReportsStay, PTL

(***************************************************************************)
(* The same reports: a setting called risky was asked for, in whatever     *)
(* torn or half-written file a report was made, and one called invalid     *)
(* was too, unless two texts were written one over the other.              *)
(***************************************************************************)
THEOREM AlarmsAreTrue == Spec => []NoFalseAlarm
<1>1. \A pair \in Sources \ asked : mixed /\ pair[1] = Stray /\ pair[2] = "stray"
  BY DEF Sources
<1>2. SomeoneAskedInvalid(Sources) => mixed \/ SomeoneAskedInvalid(asked)
  BY <1>1 DEF SomeoneAskedInvalid
<1>3. SomeoneAskedRisky(Sources) => SomeoneAskedRisky(asked)
  BY <1>1, StrayIsNoRule DEF SomeoneAskedRisky
<1>4. RInv => NoFalseAlarm
  BY <1>2, <1>3 DEF RInv, ReportOK, AlarmOK, SomeoneAskedInvalid, SomeoneAskedRisky, NoFalseAlarm
<1>5. QED
  BY <1>4, ReportsStay, PTL

-------------------------------------------------------------------------------
(***************************************************************************)
(* The answers.  A list that answers the requests before request n answers *)
(* it too when n is blank, or when its answer is appended.                 *)
(***************************************************************************)
LEMMA BlankAnswered ==
  ASSUME NEW answers, NEW n \in Nat, AnswersTo(answers, n), Requests[n + 1] = "blank"
  PROVE  AnswersTo(answers, n + 1)
<1>1. Answerable(n + 1) = Answerable(n)
  BY DEF Answerable
<1>2. QED
  BY <1>1 DEF AnswersTo

LEMMA OneMoreAnswer ==
  ASSUME NEW answers \in Seq(Nat), NEW n \in Nat, AnswersTo(answers, n), Requests[n + 1] # "blank"
  PROVE  AnswersTo(Append(answers, n + 1), n + 1)
<1> PICK more : more = Append(answers, n + 1)
  OBVIOUS
<1> PICK len : len = Len(answers)
  OBVIOUS
<1>1. /\ len \in Nat /\ DOMAIN answers = 1 .. len /\ DOMAIN more = 1 .. len + 1
      /\ more[len + 1] = n + 1
      /\ \A i \in 1 .. len : more[i] = answers[i] /\ answers[i] \in Nat
  BY AppendProperties, LenProperties, ElementOfSeq
<1>2. Answerable(n + 1) = Answerable(n) \cup {n + 1}
  BY DEF Answerable
<1>3. \A i \in 1 .. len : answers[i] \in Answerable(n)
  BY <1>1 DEF AnswersTo
<1>4. \A i \in 1 .. len : answers[i] < n + 1
  BY <1>1, <1>3 DEF Answerable
<1>5. ASSUME NEW i \in DOMAIN more, NEW j \in DOMAIN more, i < j PROVE more[i] < more[j]
  BY <1>1, <1>4, <1>5 DEF AnswersTo
<1>6. {more[i] : i \in DOMAIN more} = {answers[i] : i \in DOMAIN answers} \cup {n + 1}
  BY <1>1
<1>7. {more[i] : i \in DOMAIN more} = Answerable(n + 1)
  BY <1>2, <1>6 DEF AnswersTo
<1>8. QED
  BY <1>5, <1>7 DEF AnswersTo

LEMMA JoinsAssociate ==
  \A s, t, u \in Seq(Nat) : (s \o t) \o u = s \o (t \o u)
BY ConcatAssociative

\* A full buffer passes on a part; nothing is lost and nothing overtakes.
LEMMA PutKeeps ==
  ASSUME delivered \in Seq(Nat), buffer \in Seq(Nat), NEW answer \in Nat, Put(answer)
  PROVE  /\ delivered' \in Seq(Nat) /\ buffer' \in Seq(Nat)
         /\ delivered' \o buffer' = Append(delivered \o buffer, answer)
<1>1. PICK all : all = Append(buffer, answer)
  OBVIOUS
<1>2. all \in Seq(Nat) /\ Len(all) \in Nat /\ \A i \in 1 .. Len(all) : all[i] \in Nat
  BY <1>1, AppendProperties, LenProperties, ElementOfSeq
<1>3. PICK n \in 0 .. Len(all) : /\ delivered' = delivered \o SubSeq(all, 1, n)
                                 /\ buffer' = SubSeq(all, n + 1, Len(all))
  BY <1>1 DEF Put
<1>4. PICK passed : passed = SubSeq(all, 1, n)
  OBVIOUS
<1>5. PICK kept : kept = SubSeq(all, n + 1, Len(all))
  OBVIOUS
<1>6. passed \in Seq(Nat)
  BY <1>2, <1>4, SubSeqProperties
<1>7. kept \in Seq(Nat)
  BY <1>2, <1>5, SubSeqProperties
<1>8. passed \o kept = all
  <2>1. 1 \in 1 .. Len(all) + 1 /\ n \in 1 - 1 .. Len(all) /\ Len(all) \in n .. Len(all)
    BY <1>2
  <2>2. SubSeq(all, 1, n) \o SubSeq(all, n + 1, Len(all)) = SubSeq(all, 1, Len(all))
    BY <1>2, <2>1, ConcatAdjacentSubSeq
  <2>3. QED
    BY <1>2, <1>4, <1>5, <2>2, SubSeqFull
<1>9. delivered' \o buffer' = delivered \o all
  <2>1. (delivered \o passed) \o kept = delivered \o (passed \o kept)
    BY <1>6, <1>7, JoinsAssociate
  <2>2. delivered' = delivered \o passed /\ buffer' = kept
    BY <1>3, <1>4, <1>5
  <2>3. QED
    BY <1>8, <2>1, <2>2
<1>10. PICK last : last = <<answer>>
  OBVIOUS
<1>11. delivered \o all = (delivered \o buffer) \o last
  <2>1. last \in Seq(Nat)
    BY <1>10
  <2>2. (delivered \o buffer) \o last = delivered \o (buffer \o last)
    BY <2>1, JoinsAssociate
  <2>3. all = buffer \o last
    BY <1>1, <1>10, AppendIsConcat
  <2>4. QED
    BY <2>2, <2>3
<1>12. delivered \o buffer \in Seq(Nat)
  BY ConcatProperties
<1>13. delivered' \in Seq(Nat) /\ buffer' \in Seq(Nat)
  BY <1>3, <1>4, <1>5, <1>6, <1>7, ConcatProperties
<1>14. QED
  BY <1>9, <1>10, <1>11, <1>12, <1>13, AppendIsConcat

LEMMA ExitKeeps ==
  ASSUME delivered \in Seq(Nat), buffer \in Seq(Nat), NEW how, Exit(how)
  PROVE  /\ delivered' \in Seq(Nat) /\ buffer' \in Seq(Nat) /\ buffer' = <<>>
         /\ delivered' \o buffer' = delivered \o buffer
<1>1. delivered' = delivered \o buffer /\ buffer' = <<>>
  BY DEF Exit
<1>2. delivered \o buffer \in Seq(Nat)
  BY ConcatProperties
<1>3. QED
  BY <1>1, <1>2, ConcatEmptySeq, EmptySeq

(***************************************************************************)
(* A server at a report has read a request that is not blank, and so has   *)
(* one that crashed: all requests before it are answered.                  *)
(***************************************************************************)
AtRequest == Busy(Server) \/ server = "crashed"

SInv ==
  /\ delivered \in Seq(Nat) /\ buffer \in Seq(Nat)
  /\ Busy(Server) => server = "serving"
  /\ AtRequest => taken >= 1 /\ Requests[taken] # "blank"
  /\ AnswersTo(delivered \o buffer, IF AtRequest THEN taken - 1 ELSE taken)
  /\ server # "serving" => buffer = <<>>

LEMMA InitSInv == Init => SInv
<1> SUFFICES ASSUME Init PROVE SInv
  OBVIOUS
<1>1. ~AtRequest
  BY ServerAssumption DEF Init, ReportsInit, NoReport, Busy, AtRequest
<1>2. delivered \o buffer = <<>> /\ <<>> \in Seq(Nat)
  BY ConcatEmptySeq, EmptySeq DEF Init
<1>3. AnswersTo(<<>>, 0)
  BY DEF AnswersTo, Answerable
<1>4. QED
  BY <1>1, <1>2, <1>3 DEF Init, SInv, AtRequest

\* A step that serves nothing.
LEMMA NothingServed ==
  ASSUME SInv, UNCHANGED <<taken, buffer, delivered, server>>, Busy(Server)' <=> Busy(Server)
  PROVE  SInv'
BY DEF SInv, AtRequest, AnswersTo, Answerable

LEMMA ServeStep == ASSUME SInv, RInv, LinesRead, Serve PROVE SInv'
<1> PICK n \in Nat : n = taken
  BY DEF LinesRead
<1>1. /\ server = "serving" /\ server' = "serving" /\ taken' = n + 1
      /\ ~AtRequest /\ ~Busy(Server)
  BY DEF Serve, NextLine, AtRequest
<1>2. /\ delivered \in Seq(Nat) /\ buffer \in Seq(Nat) /\ delivered \o buffer \in Seq(Nat)
      /\ AnswersTo(delivered \o buffer, n)
  BY <1>1, ConcatProperties DEF SInv
<1>3. CASE Requests[n + 1] = "blank"
  <2>1. UNCHANGED <<buffer, delivered, reportVars>>
    BY <1>1, <1>3 DEF Serve
  <2>2. ~AtRequest' /\ ~Busy(Server)'
    BY <1>1, <2>1 DEF AtRequest, Busy, reportVars
  <2>3. AnswersTo(delivered \o buffer, n + 1)
    BY <1>2, <1>3, BlankAnswered
  <2>4. QED
    BY <1>1, <1>2, <2>1, <2>2, <2>3 DEF SInv, AnswersTo, Answerable
<1>4. CASE Requests[n + 1] \in {"malformed", "static"}
  <2>1. Put(n + 1) /\ UNCHANGED reportVars
    BY <1>1, <1>4 DEF Serve
  <2>2. ~AtRequest' /\ ~Busy(Server)'
    BY <1>1, <2>1 DEF AtRequest, Busy, reportVars
  <2>3. /\ delivered' \in Seq(Nat) /\ buffer' \in Seq(Nat)
        /\ delivered' \o buffer' = Append(delivered \o buffer, n + 1)
    <3>1. n + 1 \in Nat
      OBVIOUS
    <3>2. QED
      BY <1>2, <2>1, <3>1, PutKeeps
  <2>4. AnswersTo(delivered' \o buffer', n + 1)
    BY <1>2, <1>4, <2>3, OneMoreAnswer
  <2>5. QED
    BY <1>1, <2>2, <2>3, <2>4 DEF SInv, AnswersTo, Answerable
<1>5. CASE Requests[n + 1] \notin {"blank", "malformed", "static"}
  <2>1. UNCHANGED <<there, reports, buffer, delivered, configVars>>
        /\ Begin(Server, Requests[n + 1])
    BY <1>1, <1>5 DEF Serve
  <2>2. Busy(Server)' /\ AtRequest'
    <3>1. n + 1 \in 1 .. Len(Requests)
      <4>1. n < sent
        BY DEF Serve, NextLine
      <4>2. Len(Requests) \in Nat
        BY RequestsAssumption, LenProperties
      <4>3. QED
        BY <4>1, <4>2 DEF LinesRead
    <3>2. Requests[n + 1] \in Kinds
      BY <1>5, <3>1, KindsAre, RequestsAssumption, ElementOfSeq
    <3>3. reports' \in 0 .. MaxReports
      BY <2>1 DEF RInv
    <3>4. QED
      BY <2>1, <3>2, <3>3, BeginStep, ServerAssumption DEF Busy, AtRequest
  <2>3. QED
    BY <1>1, <1>2, <1>5, <2>1, <2>2 DEF SInv, AnswersTo, Answerable
<1>6. QED
  BY <1>3, <1>4, <1>5

LEMMA ServeReportStep == ASSUME SInv, RInv, LinesRead, ServeReport PROVE SInv'
<1>1. /\ server = "serving" /\ Busy(Server) /\ AtRequest /\ taken' = taken
      /\ Busy(Server)' <=> reporter'[Server].level = "none"
  BY ReadOnStep, ServerAssumption DEF ServeReport, ReadOn, Busy, AtRequest
<1> PICK n \in Nat : taken = n + 1
  BY <1>1 DEF SInv, LinesRead
<1>2. /\ delivered \in Seq(Nat) /\ buffer \in Seq(Nat) /\ delivered \o buffer \in Seq(Nat)
      /\ AnswersTo(delivered \o buffer, n) /\ Requests[n + 1] # "blank"
  BY <1>1, ConcatProperties DEF SInv
<1>3. CASE reporter'[Server].level = "none"
  BY <1>1, <1>3, NothingServed DEF ServeReport
<1>4. CASE reporter'[Server].level = "raised"
  <2>1. Exit("crashed") /\ ~Busy(Server)' /\ server' = "crashed" /\ AtRequest'
    BY <1>1, <1>4 DEF ServeReport, Exit, AtRequest
  <2>2. /\ delivered' \in Seq(Nat) /\ buffer' \in Seq(Nat) /\ buffer' = <<>>
        /\ delivered' \o buffer' = delivered \o buffer
    BY <1>2, <2>1, ExitKeeps
  <2>3. QED
    BY <1>1, <1>2, <2>1, <2>2 DEF SInv, AnswersTo, Answerable
<1>5. CASE reporter'[Server].level \notin {"none", "raised"}
  <2>1. Put(n + 1) /\ server' = "serving" /\ ~Busy(Server)' /\ ~AtRequest'
    BY <1>1, <1>5 DEF ServeReport, AtRequest
  <2>2. /\ delivered' \in Seq(Nat) /\ buffer' \in Seq(Nat)
        /\ delivered' \o buffer' = Append(delivered \o buffer, n + 1)
    <3>1. n + 1 \in Nat
      OBVIOUS
    <3>2. QED
      BY <1>2, <2>1, <3>1, PutKeeps
  <2>3. AnswersTo(delivered' \o buffer', n + 1)
    BY <1>2, <2>2, OneMoreAnswer
  <2>4. QED
    BY <1>1, <2>1, <2>2, <2>3 DEF SInv, AnswersTo, Answerable
<1>6. QED
  BY <1>3, <1>4, <1>5

LEMMA EndStep == ASSUME SInv, EndOfInput PROVE SInv'
<1>1. /\ Exit("ended") /\ server' = "ended" /\ ~Busy(Server) /\ ~Busy(Server)'
      /\ ~AtRequest /\ ~AtRequest' /\ taken' = taken
  BY DEF EndOfInput, Exit, AtRequest, Busy, reportVars
<1>2. /\ delivered' \in Seq(Nat) /\ buffer' \in Seq(Nat) /\ buffer' = <<>>
      /\ delivered' \o buffer' = delivered \o buffer
  BY <1>1, ExitKeeps DEF SInv
<1>3. QED
  BY <1>1, <1>2 DEF SInv, AnswersTo, Answerable

LEMMA NextSInv == SInv /\ RInv /\ LinesRead /\ [Next]_allVars => SInv'
<1> SUFFICES ASSUME SInv, RInv, LinesRead, [Next]_allVars PROVE SInv'
  OBVIOUS
<1>1. CASE UNCHANGED allVars
  BY <1>1, NothingServed DEF allVars, mcpVars, reportVars, Busy
<1>2. CASE Send \/ Close
  BY <1>2, NothingServed DEF Send, Close, reportVars, Busy
<1>3. CASE Serve
  BY <1>3, ServeStep
<1>4. CASE ServeReport
  BY <1>4, ServeReportStep
<1>5. CASE EndOfInput
  BY <1>5, EndStep
<1>6. CASE ReportElsewhere
  <2>1. UNCHANGED mcpVars
    BY <1>6 DEF ReportElsewhere
  <2>2. PICK p \in Reporters \ {Server} : \E new : reporter' = [reporter EXCEPT ![p] = new]
    BY <1>6 DEF ReportElsewhere, CallReport, Begin, ReadOn
  <2>3. reporter'[Server] = reporter[Server]
    BY <2>2, ServerAssumption DEF RInv
  <2>4. QED
    BY <2>1, <2>3, NothingServed DEF mcpVars, Busy
<1>7. CASE ConfigStep
  <2>1. UNCHANGED mcpVars
    BY <1>7 DEF ConfigStep
  <2>2. reporter'[Server].todo = reporter[Server].todo
    BY <1>7, DisturbStep, ServerAssumption DEF ConfigStep
  <2>3. QED
    BY <2>1, <2>2, NothingServed DEF mcpVars, Busy
<1>8. QED
  BY <1>1, <1>2, <1>3, <1>4, <1>5, <1>6, <1>7 DEF Next

(***************************************************************************)
(* cli/main.py, _mcp_serve_stream: one answer for each request that is not *)
(* blank, in the order of the requests, and none lost in the buffer when   *)
(* the process ends, by the end of its input or by an exception.           *)
(***************************************************************************)
THEOREM OneAnswerEach == Spec => []AnswersInOrder
<1>1. Spec => []SInv
  BY InitSInv, NextSInv, ReportsStay, PTL DEF Spec
<1>2. SInv => AnswersInOrder
  BY DEF SInv, AtRequest, AnswersInOrder
<1>3. QED
  BY <1>1, <1>2, PTL

===============================================================================
