----------------------------- MODULE ConfigStore ------------------------------
(***************************************************************************)
(* .runewall/config.toml as several processes read and write it: `config   *)
(* set` is a read, a change in memory and a write of the whole file;       *)
(* `config reset` and `config profile` write a fixed text.  A write        *)
(* (Path.write_text) truncates the file first and then writes it, and      *)
(* there is no lock: others can see the file empty, a process that dies in *)
(* between leaves it empty, and two that have truncated it write one over  *)
(* the other, so that the end of the longer text remains behind the        *)
(* shorter one.                                                            *)
(*                                                                         *)
(* Values are the strings the user types.  A file is a text, a function    *)
(* that gives the value of each line or Unset, or one of the two special   *)
(* values Missing and Unreadable (not TOML).                               *)
(***************************************************************************)
EXTENDS Policy, FiniteSets

CONSTANTS Setters,        \* processes that run `config ...`
          Keys,           \* the keys that are looked at
          Offered,        \* what users type: set of <<key, value>>
          Unquotable,     \* values with a quote, which the writer does not escape
          Profiles,       \* names given to `config profile`
          InitialFiles,   \* what the file may hold when observation begins
          MaxSets,        \* bound: `config` commands
          MaxConfigFaults \* bound: processes that die

RuleConfigKey == [file_read   |-> "rules.file_read",   file_write  |-> "rules.file_write",
                  file_create |-> "rules.file_create", file_delete |-> "rules.file_delete",
                  web_read    |-> "rules.web_read",    map_dry_run |-> "rules.map_dry_run",
                  map_execute |-> "rules.map_execute", unknown     |-> "rules.unknown"]
RULE_CONFIG_KEYS == {RuleConfigKey[r] : r \in RuleKeys}

KNOWN_CONFIG_KEYS ==
  {"safety.default_policy", "safety.max_snapshot_mb", "retention.snapshot_days",
   "maps.allow_execute", "auth.github_token_env", "auth.vercel_token_env",
   "auth.netlify_token_env", "auth.supabase_access_token_env",
   "auth.cloudflare_api_token_env"} \cup RULE_CONFIG_KEYS

ASSUME KeysAssumption == Keys \subseteq KNOWN_CONFIG_KEYS

\* A key under [rules] that the program does not know; it stands for all of them.
Stray == "rules.nknown"
Lines == Keys \cup {Stray}

Missing    == [missing |-> TRUE]
Unreadable == [unreadable |-> TRUE]
Empty      == [k \in Lines |-> Unset]
IsText(f)  == f = [k \in Lines |-> f[k]]

\* A value that has not the type of its key, which only a file edited by hand has.
WrongType == "(wrong type)"

ASSUME SettersAssumption == IsFiniteSet(Setters)
ASSUME OfferedAssumption == \A o \in Offered : o[1] \in Keys /\ o[2] # Unset
ASSUME FilesAssumption   == \A f \in InitialFiles : f = Missing \/ IsText(f)

VARIABLES file,       \* the file
          left,       \* the texts in it that a process which has opened it may write over
          setter,     \* where each `config` command is, and what it will write
          sets,       \* commands started
          configFaults,
          asked,      \* history: every <<key, value>> anybody asked for
          wanted,     \* history: what was asked last of each key
          mixed       \* history: a text was written over another one

configHistory == <<asked, wanted, mixed>>
configVars    == <<file, left, setter, sets, configFaults, configHistory>>

-------------------------------------------------------------------------------
(***************************************************************************)
(* The texts and defaults of core/config.py, for the keys in Keys.         *)
(***************************************************************************)
\* Fields of the dataclasses: what RunewallConfig() holds; None is Unset.
DataclassDefault(k) ==
  CASE k = "safety.default_policy"   -> "review"
    [] k = "safety.max_snapshot_mb"  -> "500"
    [] k = "retention.snapshot_days" -> "30"
    [] k = "maps.allow_execute"      -> "false"
    [] k = "auth.github_token_env"   -> "GITHUB_TOKEN"
    [] k = "auth.vercel_token_env"   -> "VERCEL_TOKEN"
    [] k = "auth.netlify_token_env"  -> "NETLIFY_TOKEN"
    [] k = "auth.supabase_access_token_env" -> "SUPABASE_ACCESS_TOKEN"
    [] k = "auth.cloudflare_api_token_env"  -> "CLOUDFLARE_API_TOKEN"
    [] OTHER                         -> Unset

\* The defaults that the text of a new file spells out.
Spelled == {"safety.default_policy", "safety.max_snapshot_mb", "retention.snapshot_days",
            "maps.allow_execute", "auth.github_token_env"}

\* Variant: execution is enabled out of the box.
DEFAULT_TEXT_ENABLED ==
  [k \in Lines |-> IF k = "maps.allow_execute" THEN "true"
                   ELSE IF k \in Spelled THEN DataclassDefault(k) ELSE Unset]

DEFAULT_CONFIG_TEXT == [k \in Lines |-> IF k \in Spelled THEN DataclassDefault(k) ELSE Unset]

RESET_CONFIG_TEXT ==
  [k \in Lines |-> CASE k \in {"rules.file_write", "rules.file_create"}  -> "snapshot"
                     [] k \in {"rules.file_delete", "rules.map_execute",
                               "rules.unknown"}                           -> "review"
                     [] k \in {"rules.web_read", "rules.map_dry_run"}     -> "auto"
                     [] OTHER -> DataclassDefault(k)]

CONFIG_PROFILES(name) ==
  [k \in Lines |->
     CASE name = "dev" /\ k = "safety.default_policy" -> "snapshot"
       [] name = "agent" /\ k \in {"rules.file_write", "rules.file_create"} -> "review"
       [] OTHER -> RESET_CONFIG_TEXT[k]]

(***************************************************************************)
(* load_config_data: the file's values over the defaults, those of keys    *)
(* it does not know among them.  A command that loads an unreadable file   *)
(* raises.                                                                 *)
(***************************************************************************)
Readable(f) == f # Unreadable
load_config_data(f) ==
  [k \in Lines |-> IF f = Missing THEN DataclassDefault(k)
                   ELSE IF f[k] = Unset THEN DataclassDefault(k) ELSE f[k]]

(***************************************************************************)
(* load_config: the part of the dataclasses that module Policy reads.  A   *)
(* value of the wrong kind (an unknown policy, a blank name, another type; *)
(* a file edited by hand may hold them) is dropped for the default.        *)
(***************************************************************************)
Blank == {"", " "}
as_str(k, v) == IF v \in Blank \cup {WrongType} THEN DataclassDefault(k) ELSE v
as_valid_rule_policy(v) == IF v \in PolicyNames THEN v ELSE Unset
Setting(f, k) == IF k \in Keys THEN load_config_data(f)[k] ELSE DataclassDefault(k)

load_config(f) ==
  [rules |-> [r \in RuleKeys |-> as_valid_rule_policy(Setting(f, RuleConfigKey[r]))],
   default_policy |-> as_str("safety.default_policy", Setting(f, "safety.default_policy")),
   allow_execute |-> Setting(f, "maps.allow_execute") = "true"]

\* Booleans and numbers must parse (Offered has no other); of the strings only
\* those of rules.* are checked.
Accepted(k, v) == k \in RULE_CONFIG_KEYS => v \in PolicyNames

\* What the file holds once `data` is written as TOML, without escaping.
Formatted(data) == IF \E k \in Lines : data[k] \in Unquotable THEN Unreadable ELSE data

(***************************************************************************)
(* A text written over another one (no process truncates it in between)    *)
(* replaces its beginning, and the rest of it follows.  Every text opens   *)
(* [safety], [retention], [maps] and [auth], and TOML refuses a section or *)
(* a key that is there twice; so the rest can be read only if it begins    *)
(* below the [auth] of its text, in this order.  The texts differ in       *)
(* length by the names of tokens, which are of any length: any rest may be *)
(* left.                                                                   *)
(***************************************************************************)
TailLayout == <<"auth.github_token_env", "auth.vercel_token_env", "auth.netlify_token_env",
                "auth.supabase_access_token_env", "auth.cloudflare_api_token_env", "[rules]",
                "rules.file_read", "rules.file_write", "rules.file_create", "rules.file_delete",
                "rules.web_read", "rules.map_dry_run", "rules.map_execute", "rules.unknown", Stray>>
Header == 6
RuleLines == RULE_CONFIG_KEYS \cup {Stray}

\* Where the rest of a text may begin: at one of its lines, or not at all.
Cuts == {i \in DOMAIN TailLayout : TailLayout[i] \in Lines \cup {"[rules]"}}
          \cup {Len(TailLayout) + 1}
Remains(t, cut) ==
  {k \in Lines : t[k] # Unset /\ \E i \in DOMAIN TailLayout : i >= cut /\ TailLayout[i] = k}
HasRules(t) == \E k \in Lines \cap RuleLines : t[k] # Unset

\* The tails that bring a [rules] of their own, and those that give a line.
Opening(cut)   == {t \in left : HasRules(t) /\ cut[t] <= Header}
Giving(cut, k) == {t \in left : k \in Remains(t, cut[t])}

\* [rules] is there once at most, and every line; a rule needs [rules] before it.
Fits(data, cut) ==
  /\ Cardinality(Opening(cut)) + (IF HasRules(data) THEN 1 ELSE 0) <= 1
  /\ \A k \in Lines : Giving(cut, k) # {} =>
       /\ data[k] = Unset /\ Cardinality(Giving(cut, k)) = 1
       /\ k \in RuleLines => HasRules(data) \/ Opening(cut) # {}

\* `data` and what the tails add to it.  A line that was cut in its key, or one of
\* [auth] that comes to stand below [rules], is a rule of no known name.
Joined(data, cut) ==
  {[k \in Lines |-> CASE data[k] # Unset      -> data[k]
                     [] Giving(cut, k) # {}  -> (CHOOSE t \in Giving(cut, k) : TRUE)[k]
                     [] OTHER                -> IF k = Stray THEN stray ELSE Unset] :
     stray \in IF HasRules(data) \/ \E t \in Opening(cut) : left # {t}
               THEN {Unset, "stray"} ELSE {Unset}}

\* Bytes written at the start of a file that others may have filled meanwhile.
Overwritten(data) ==
  {Formatted(data)} \cup
  (IF left = {} THEN {}
   ELSE {Unreadable} \cup UNION {{Formatted(text) : text \in Joined(data, cut)} :
                                   cut \in {c \in [left -> Cuts] : Fits(data, c)}})

-------------------------------------------------------------------------------
\* Where a command is: the key and value it was given, the text it will write.
Stage(pc, key, value, data) == [pc |-> pc, key |-> key, value |-> value, data |-> data]
Resting == Stage("idle", Unset, Unset, Empty)

ConfigInit ==
  /\ file \in InitialFiles /\ left = {} /\ mixed = FALSE
  /\ setter = [w \in Setters |-> Resting]
  /\ sets = 0 /\ configFaults = 0
  /\ wanted = load_config_data(file)
  /\ asked = {<<k, wanted[k]>> : k \in Lines}

BeginSet == sets < MaxSets /\ sets' = sets + 1

\* ensure_config looks for the file, and creates one that it has not found, which
\* another command may have created meanwhile, truncating it like any other.
ConfigSet(w, k, v) ==
  /\ setter[w] = Resting /\ BeginSet /\ Accepted(k, v)
  /\ setter' = [setter EXCEPT ![w] = Stage(IF file = Missing THEN "create" ELSE "load", k, v, Empty)]
  /\ asked' = asked \cup {<<k, v>>}
  /\ wanted' = [wanted EXCEPT ![k] = v]
  /\ UNCHANGED <<file, left, configFaults, mixed>>

Create(w) ==
  /\ setter[w].pc = "create"
  /\ file' = Empty /\ left' = {}
  /\ setter' = [setter EXCEPT ![w].pc = "fill"]
  /\ UNCHANGED <<sets, configFaults, configHistory>>

ConfigText(w, text) ==
  /\ setter[w] = Resting /\ BeginSet
  /\ setter' = [setter EXCEPT ![w] = Stage("open", Unset, Unset, text)]
  /\ asked' = asked \cup {<<k, text[k]>> : k \in Lines}
  /\ wanted' = text
  /\ UNCHANGED <<file, left, configFaults, mixed>>

ConfigReset(w)         == ConfigText(w, RESET_CONFIG_TEXT)
ConfigProfile(w, name) == ConfigText(w, CONFIG_PROFILES(name))

\* The text goes into the file, over whatever is there, and others that have opened
\* the file may still write over it.
WriteText(w, data) ==
  /\ file' \in Overwritten(data)
  /\ left' = IF \E v \in Setters \ {w} : setter[v].pc \in {"fill", "write"}
             THEN left \cup {data} ELSE {}
  /\ mixed' = (mixed \/ left # {})

Fill(w) ==
  /\ setter[w].pc = "fill"
  /\ WriteText(w, DEFAULT_CONFIG_TEXT)
  /\ setter' = [setter EXCEPT ![w].pc = "load"]
  /\ UNCHANGED <<sets, configFaults, asked, wanted>>

\* Variant: the section is started anew instead of updated.
LoadSectionAnew(w) ==
  /\ setter[w].pc = "load"
  /\ LET key == setter[w].key  value == setter[w].value IN
     setter' = [setter EXCEPT ![w] =
       IF Readable(file) THEN Stage("open", key, value, [load_config_data(Missing) EXCEPT ![key] = value])
                         ELSE Resting]
  /\ UNCHANGED <<file, left, sets, configFaults, configHistory>>

Load(w) ==
  /\ setter[w].pc = "load"
  /\ LET key == setter[w].key  value == setter[w].value IN
     setter' = [setter EXCEPT ![w] =
       IF Readable(file) THEN Stage("open", key, value, [load_config_data(file) EXCEPT ![key] = value])
                         ELSE Resting]
  /\ UNCHANGED <<file, left, sets, configFaults, configHistory>>

Open(w) ==
  /\ setter[w].pc = "open"
  /\ file' = Empty /\ left' = {}
  /\ setter' = [setter EXCEPT ![w].pc = "write"]
  /\ UNCHANGED <<sets, configFaults, configHistory>>

Write(w) ==
  /\ setter[w].pc = "write"
  /\ WriteText(w, setter[w].data)
  /\ setter' = [setter EXCEPT ![w] = Resting]
  /\ UNCHANGED <<sets, configFaults, asked, wanted>>

SetterDies(w) ==
  /\ setter[w] # Resting
  /\ configFaults < MaxConfigFaults /\ configFaults' = configFaults + 1
  /\ setter' = [setter EXCEPT ![w] = Resting]
  /\ UNCHANGED <<file, left, sets, configHistory>>

ConfigNext ==
  \E w \in Setters :
    \/ \E o \in Offered : ConfigSet(w, o[1], o[2])
    \/ ConfigReset(w) \/ \E name \in Profiles : ConfigProfile(w, name)
    \/ Create(w) \/ Fill(w) \/ Load(w) \/ Open(w) \/ Write(w) \/ SetterDies(w)

ConfigSpec == ConfigInit /\ [][ConfigNext]_configVars

-------------------------------------------------------------------------------
(***************************************************************************)
(* One command at a time: whatever sequence of set, reset and profile was  *)
(* run, every key has the value it was given last, unless a value nobody   *)
(* can read back made the file unreadable.                                 *)
(***************************************************************************)
AsWanted ==
  (\A w \in Setters : setter[w] = Resting) /\ Readable(file)
  => load_config_data(file) = wanted

(***************************************************************************)
(* Commands that race, are cut short or write into each other may lose     *)
(* what was asked, and mix it, but never bring in a value nobody asked     *)
(* for: a setting is one that was typed, part of a profile that was        *)
(* applied, or the built-in default.  Only a key under [rules] that the    *)
(* program does not know, a line with its beginning cut off, can come of   *)
(* two texts written one over the other.                                   *)
(***************************************************************************)
NothingUnasked ==
  Readable(file) => \A k \in Lines :
    \/ load_config_data(file)[k] = DataclassDefault(k)
    \/ <<k, load_config_data(file)[k]>> \in asked
    \/ k = Stray /\ mixed

===============================================================================
