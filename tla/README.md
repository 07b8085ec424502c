# Runewall: a TLA+ model of the safety layer

Runewall puts a local safety layer between an AI agent and the actions it takes:
with-blocks around file changes, a policy engine, a log, snapshots and rollback, a
review queue, site maps that turn "create a GitHub issue" into one HTTP request, a
store of trusted publisher keys, community map packages, and an MCP server.  It is a
single-machine Python program without a daemon.  Every command is a process of its own,
and the processes share a SQLite database, a configuration file, a few directories and
the user's files, with no lock and no transaction across them.  That is where it is
hard to test, and what these modules are about.

Paths below are relative to `src/runewall/`; file:line is the line in the source.

## 1. Inventory

| Component | State it keeps | Operations | Talks to |
|---|---|---|---|
| Rules engine, `core/rules.py` | none (sorted rules in memory) | `evaluate`, `rules_from_config`, `engine_from_config`, `explain_policy`, `audit_policy_config` | called by the interceptor, `act`, `policy ...`, MCP, SDK |
| Configuration, `core/config.py` | `.runewall/config.toml` | `ensure_config`, `set_config_value`, `load_config`, `validate_config_data`, fixed texts of `config reset` / `config profile` | read by nearly every command, up to five times in one command |
| Interceptor, `core/interceptor.py` | none | `protect_file_write/_create/_delete` (with-blocks around agent code), `execute_approved_action` | snapshots, log, the user's files |
| Log, `core/log.py`, `core/db.py` | tables `actions`, `snapshots` of `runewall.db` | `add_action`, `update_action_status`, `update_action_snapshot_id`, `add_snapshot`, `get_latest_snapshot_for_action`, `get_last_action`, `list_actions`, `list_pending_actions` | one transaction per call |
| Snapshots and rollback, `core/snapshot.py`, `core/rollback.py` | `.runewall/snapshots/<id>/` | `create_snapshot`, `cleanup_snapshots`, `rollback` | log, the user's files |
| Review commands, `cli/main.py` | none | `pending`, `approve`, `reject`, `execute`, `rollback ID`, `rollback --last`, `log`, `status` | log, interceptor, rollback engine |
| Map execution, `cli/main.py` (`act`), `maps/executor.py`, `maps/planner.py` | none | plan, policy check, execution switch, one HTTP request, one row | configuration, log, an external service |
| Trusted keys, `maps/registry.py` | `.runewall/trusted-keys/<key_id>.json` | `keys trust [--force]`, `keys revoke`, `inspect`, `list` | read by `package verify` |
| Community maps, `maps/registry.py` | `.runewall/community-maps/` | import of a file, import and verification of a package | the publisher's directory, trusted keys |
| MCP server, `cli/main.py` | buffered stdout | `mcp serve`: one JSON-RPC answer per line | configuration; a client at the other end of two pipes |
| Reports, `cli/main.py`, `sdk.py` | none | `config validate`, `policy audit`, `policy test`, `release check`, `doctor`, from the CLI, the SDK and the MCP server | read the configuration, the environment, the project directory |
| Web reader, `translate/reader.py`, `cli/main.py` | none | `read`: one GET, one row | log, a web server |
| Map registry and linter, `maps/registry.py` | bundled JSON | load, lint | -- |
| `release json-check`, `package check`, argument parsing, output | none | compare texts and files, wording | -- |

Hard behaviours, and what correctness means for each part:

* **Interceptor, log, snapshots, review.** A file action is three stores written one
  after the other: copy the file, insert the row, insert the snapshot's row, then let
  the agent's code (or `unlink`) change the file, then update the status.  A process may
  die between any two; two `execute` commands may hold the same approval; `cleanup` and
  `rollback` look at none of this.  It is correct when nothing held back by policy
  changes a file without an approval, nothing changes before it can be undone, the
  statuses say what happened, the log only grows, and no action stays pending without a
  human to wait for.
* **Time.** Rows are ordered by a text that is made before the row is written.  `rollback
  --last` must undo what was done last, and `log` must show it.
* **Rules.** What is explained and what is enforced is written twice.  The two must
  agree, and a clean audit must mean what it says.
* **Configuration.** Read, change, truncate, write, unlocked.  Updates may be lost, and two
  texts written one over the other may mix.  No known key may get a value nobody asked for,
  and one command at a time must do what it says.
* **Map execution.** Three reads of a file that others rewrite, then one request that
  cannot be taken back.  The switch must fail closed, no service may be given the token of
  another, and the log must not misreport what was answered (what the service did, the
  program does not know).
* **Reports.** Several reads of that file, one check at a time.  OK must mean safe, and an
  alarm must not come from a file read half-written.
* **Keys and packages.** Check, then write; read, then rewrite.  A revocation must hold,
  records must not mix, what is imported must have been checked.
* **MCP server.** Two processes that wait for each other through buffered pipes.

`PROJECT.json` lists each hazard at its line with the properties that cover it.

## 2. Modules

```
Policy                      rules engine, explain, audit (pure operators)
 |-- PolicyConfig           reachable configurations and rule lists
 |-- FileActions            the file safety loop ------- implements --> ReviewGate
 |     '-- Timeline         timestamps, `rollback --last`, `log`, `read`
 '-- ConfigStore            config.toml under `config ...` commands
       |-- ConfigLineage    ... with the readings of each command - implements --> ConfigRegister
       |-- MapExecution     `act` beside the config commands -- implements --> ExecutionGate
       '-- Reports          the reports, read by read
             '-- McpServe   `mcp serve`, the CLI and the SDK beside the config commands
TrustedKeys                 key files under trust / revoke
 '-- CommunityMaps          import and verify beside the key commands

PolicyConfigProofs          theorems of PolicyConfig
FileActionsProofs           theorems of FileActions: types, the gate
 '-- FileActionsLogProofs   ... the log, the snapshots, the statuses
       '-- TimelineProofs   theorems of Timeline
ConfigStoreProofs           theorems of ConfigStore and ConfigLineage
 |-- MapExecutionProofs     theorems of MapExecution
 '-- McpServeProofs         theorems of Reports and McpServe
CommunityMapsProofs         theorems of TrustedKeys and CommunityMaps
MC<Module>                  the instance TLC checks
```

Definitions carry the source's names where there is one (`update_action_status`,
`explain_policy`, `trust_key_file`, ...); the others name the stretch of code between two
effects that another process can see.  Definitions under a comment "Variant:" are
deliberately wrong versions of the definition they stand next to.  No specification uses
them: they exist to show that a property notices the mistake (`mutants` in `PROJECT.json`).

**Policy.**  A rule is `[pattern, policy, priority]`, with the set of action types its
glob matches for `pattern`: wildcards are evaluated before the model starts.
`match_explicit_rule` is the stable sort and first match, `rules_from_config` the rules
in the order the table in the code gives them, `explain_policy` the independent lookup
that the CLI, MCP and SDK show, `audit_policy_config` the warnings.

**PolicyConfig.**  State: a configuration, and a rule list.  Actions: one `config set` of
a rule or of the execution switch, `config reset` / `profile`, and one more rule.

**FileActions.**  State: the user's files (`disk`), the two tables (`status`,
`snapshot_id`, `snapshots`), the snapshot directories (`dir`, `copy`), and for each
process where it is (`proc`).  One action per stretch between two visible effects:

| Code | Actions |
|---|---|
| `_protect_file_action`, held back or let through without a snapshot | `ProtectHold`, `ProtectAuto` |
| ... with a snapshot: `mkdir`, copy (size check and copy are one step), row, snapshot row | `ProtectSnapshot` (`MakeDir`), `CopyFile` / `CopyRefused`, `LogAction`, `LogSnapshot` |
| the agent's block, its writes, its end by `return` or `raise` | `BodyWrite`, `BodyExit` |
| `approve`, `reject` | `Approve`, `Reject` |
| `execute_approved_action` | `Execute`, `CopyFile` / `CopyRefused`, `ExecuteLogSnapshot`, `update_action_snapshot_id`, `Unlink` / `UnlinkFails`, `ExecuteEnd` |
| `RollbackEngine.rollback` | `Rollback`, `Restore` / `RestoreFails`, `Mark` |
| `cleanup_snapshots`, and time passing | `Cleanup`, `GrowOld` |
| kill, power loss; I/O error; another program | `Die`, `Raise`, `OtherWrite` |

A copy or a restore cut short leaves `Partial` or `Torn`.  An unreadable configuration
makes `SnapshotEngine()` raise before anything is written: a command that changes nothing
is no step.  Four history variables (`granted`, `fresh`, `entered`, `before`) remember
what the database does not.

**ReviewGate** is what a reader wants to be told about all this: requests are recorded,
some are granted, and one that is held is let through only when granted.  It knows no
files, processes or stores.  `FileActions!Gate` is the refinement mapping.

**Timeline** adds the time to `FileActions`: each action takes its timestamp when it is
made (`Made`, `Dated`), before its snapshot and its row.  Times are compared as the code's
text is: `datetime.isoformat` leaves a zero fraction out, and "...:07Z" sorts after
"...:07.25Z" (`utc_now_iso`, `NoLater`); the random id decides between equal times, so
either may come first (`get_last_action` is the set of possible answers).  `RollbackLast`
is `rollback --last`, `list_actions` the page that `log` prints, `ReadUrl` and `ReadEnds`
the `read` command with its row.

**ConfigStore.**  State: the file as a function from keys to values (or `Missing`,
`Unreadable`) and where each `config` command is.  `config set` is `ConfigSet`, in which
`ensure_config` looks for the file, `Create` (which truncates) and `Fill` if it found none,
then `Load`, `Open` (which truncates) and `Write`; `reset` and `profile` are `Open`, `Write`
of a fixed text.  `init` calls `ensure_config` too: what it does to the file is what a `config set`
does that is cut short after `Fill`.  A string with a quote is written without escaping and
makes the file unreadable (`Formatted`).  `asked`, `wanted` and `mixed` are history.

Two commands that have both truncated the file write one over the other: the second text
replaces the beginning of the first, and the end of the longer one stays behind (`left` are
the texts that may stay so, `Overwritten` what the file then is).  Every text opens
`[safety]`, `[retention]`, `[maps]` and `[auth]`, and TOML refuses a section or a key that is
there twice; so such a file can be read only if the tail begins below the `[auth]` of its text.
It may be lines of `[auth]`, a whole `[rules]`, lines of it, or a line cut in its key, which
then is a key nobody knows (`Stray`).  Where the tail begins depends on the lengths of the two
texts, and with them on names of tokens, which may be of any length; the model allows every
cut (`Cuts`), also for two texts whose lengths would not give it.  Values that look like lines
of TOML, and sections and keys that only a hand-edited file has, are left out; a value of the
wrong type, which such a file may also have, is `WrongType`.

**ConfigRegister** says without files what `config` commands promise when they race: the
configuration is a register; each command takes effect at one moment and at most once, with
all that it asks for, on a configuration that was there at some time since it began and was not
made by itself.  What others have put in while it was under way (`made`) may stand where its text
leaves a key open, and nowhere else.  Updates in between may be lost, the defaults may show for
a while or stay, the register may break; nothing changes while nobody has asked.

**ConfigLineage** is `ConfigStore` with two history variables: `base` gathers for each command
what readers could find since it began, `made` what others have put into the file since.
`ConfigLineage!Register` is the refinement mapping: the register is what a command that loads
the file now would find (`Reading`), a request is what the command line of a command at work
asks for (`RequestOf`).

**MapExecution** runs `act` beside that: `Start` (looks for a database file), `Plan` (with
the planner's `missing_required_inputs`), `CheckPolicy`, `execute_map_action` (is the
flow supported, is execution enabled, `WithToken`: is the variable set that the service's
setting names), `Request` or `ConnectionFails`, `Answer` or `AnswerLost`, `Log`, `Killed`.
`remote` counts the requests that left; what the service did with them is not in the model,
since the program has no way to know.  `Answer` is what the code makes of the status
(`maps/executor.py:142`): at 400 and above the request was `rejected`, below it was `accepted`.
The five executors differ in the setting they use (`TokenKey`), in URLs, bodies and headers,
and share this control.  An `httpx` error, or a body that is not JSON, is not a
`MapExecutionError`: it ends the command without a row (`Abort`).  `init` creates the
database file and then its tables (`initialize_database`); a row written in between raises.
`crowded` is history: has a `config` command met another command, or been cut short.

**ExecutionGate** is what this promises about the outside world: one request at most,
after execution was enabled, and one row at most, which says what was answered.  That an
accepted request had its effect is no part of it: a redirect is not followed and counts as
accepted, and a gateway may report an error after the service has acted.
`MapExecution!Gate` is the refinement mapping.

**Reports.**  Each report is a list of reads of config.toml (`ReadsOf`), what each finds
(`FoundBy`, with `validate_config_data` on the raw values, types and unknown rules among them,
`audit_policy_config` on the loaded ones), and the level made of it (`Level`).  `ReadOn` is one
read; an unreadable file raises (`Raised`).  `Called` are the reports that the CLI and the SDK are
asked for.  `calm` is history: was the file the same from the first read on.

**TrustedKeys.**  State: one file per key, and where each command is; history: what was
trusted (`given`), revoked (`barred`), and left `torn` by a death in the middle of a write or
by two writes at once.  `trust_key_file`
checks and later writes; `revoke_trusted_key`, `ReadRecord` read and later write; both
write by `OpenRecord` (truncate), `WriteRecord`.  A refused command (an invalid key file,
a key that exists without `--force`) changes nothing and is no step.

**CommunityMaps** adds the publisher's directory, which `Edit` changes at any time, the
imports, one file at a time with `OpenCopy`, `CopyData`, and `verify_package_directory`.
The checks of one package are one step; that the source changes *during* an import is
kept in `disturbed` and excuses what was copied then, since the code promises nothing
there.  The structural checks of a manifest are one Boolean (`sound`), those of a map
another (`valid`).

**McpServe** is the loop, the buffer of stdout and the client.  A request is of one of the
sorts the loop tells apart; one that asks for a report begins it (`Serve`) and is answered
after its last read (`ServeReport`), or ends the server where a read raises.  A line of input that is not
UTF-8 would end the loop too; clients write JSON, and the model has no such line.
`ReportElsewhere` is the CLI and the SDK in processes of their own: the SDK differs from the
CLI in that it returns an error where the CLI stops, and neither takes anybody with it.
An answer is the number of the request it answers.

## 3. What TLC checks

Every bound is a CONSTANT of the module, named `Max...` and explained where it is
declared.  `CHECK_DEADLOCK FALSE` in a configuration: these systems come to rest when the
commands allowed by the bounds are used up, and so does the program.  `PolicyConfig`
never stops and is checked for deadlock.

| Run | States | Instance | Shows |
|---|---|---|---|
| `FileActions_death` | 350 k | 2 processes, 1 action of 5 kinds, 2 snapshots, 2 faults, retention of 0 days, another program | `TypeOK`, `SnapshotBeforeChange`, `DanglingMeansUntouched`, `StatusTruthful`, `LedgerKept` |
| `FileActions_race` | 307 k | 2 processes, 2 of 4 actions (reviewed, blocked, overruled, snapshot), an oversized file, no faults, fair | `GateHolds`, `GateSpec` (implements `ReviewGate`), `PendingIsExplained`, `NoStrandedPending` |
| `Timeline_undo` | 2.3 M | 1 process, 2 of 3 actions, 2 snapshots, one `read`, another program writes, a clock of 3 instants in 2 seconds | `TimelineTypeOK`, `UndoLast`, `SnapshotIsBeforeImage`, `UnlinkSpendsApproval` |
| `PolicyConfig_explain` | 381 k | all configurations over 3 rule keys, all lists of up to 2 rules | `TypeOK`, `ExplainMatchesEngine`, `CleanAuditIsSafe`, `FirstOfEqualsWins` |
| `ConfigLineage_race` | 212 k | 3 `config` processes, 3 commands, 3 settings, one death | `RegisterSpec` (implements `ConfigRegister`) |
| `MapExecution_race` | 1.9 M | 1 of 6 `act` (one of each way to end), which may die, 2 `config` processes, 3 commands of theirs, 3 settings | `TypeOK`, `SentOnlyIfEnabled`, `RowsTruthful`, `TokenOfItsService`, `NothingUnasked`, `AloneAsWanted`, `SentAsConfigured`, `GateSpec` (implements `ExecutionGate`) |
| `CommunityMaps_packages` | 767 k | 9 versions of a package; 3 key processes, 2 key ids, 2 public keys, 5 commands, 2 deaths, `verify` at any moment; or 2 importers, 2 imports, 2 edits, a death | `KeyTypeOK`, `RevocationSticks`, `KeysAreGiven`, `TypeOK`, `ImportedWasChecked`, `VerifyRejectsRevoked`, `PassedForLack` |
| `McpServe_stream` | 1.0 M | a report, a blank and a malformed line, a buffer of 1, one `doctor` elsewhere, 2 `config` commands that may write over each other, a file edited by hand, fair | `ReportsTypeOK`, `OkMeansSafe`, `NoFalseAlarm`, `AnswersInOrder`, `AllAnswered` |

Four more runs end in a counterexample on purpose (section 4).

*Why these bounds are enough.*  What can go wrong in this code is a matter of two
processes on one row, file or key (a third only matters where one decides on what two
others leave: the key store and the configuration have three), and the hazard of a death is
one store written and the next not: a death at each of the steps covers it, the second fault
the retry.
Two snapshots per action separate "latest" from "first".  Two settings in flight is the
least that can lose an update or write two texts one over the other; a third command sees
what they leave.  What a `config` command leaves that dies is a file that is empty or not there yet,
which readers also find while it is at work: only `ConfigLineage_race` has the death.  `act` commands meet nowhere but in what they read, so one of
them at a time beside the `config` commands is every case.  A page of 2 rows and 3 rows stand
for the 50 and 51 of the code; three instants hold two in one second, one of them full, and
one in the next.  A run over several actions does not find more than a run
over each pair, as actions meet only in a file.  Imports and key commands share no state, so that
`CommunityMaps_packages` runs either the ones or the others (`Apart` in `MCCommunityMaps`).
Symmetry is used in safety runs only.

*Fairness.*  `FileActions!FairSpec` assumes `WF(Continue(w))` for each process: the
straight-line code of a process that is not killed goes on, and the agent's block ends,
by returning or raising.  Nothing is assumed of people, cleanup, time or other programs;
deaths are excluded in that run by `MaxFaults = 0`, since the program has no recovery: a
process killed inside its with-block leaves the action pending for good.
`McpServe!FairSpec` assumes that the loop goes on when it has input (`Serve`,
`ServeReport`, `EndOfInput`) and that a client that has nothing to wait for does too (`Send`, `Close`).
Nothing is assumed of the `config` commands.

*Preconditions inside properties.*  `SnapshotIsBeforeImage`, `UnlinkSpendsApproval`,
`UndoLast`, `SentAsConfigured` and `AloneAsWanted` are claims about one command at a time
(`crowded` in the latter two): beside other processes they do not hold, and nothing in the
code says they should.  `OkMeansSafe` is about reports whose file did not change: one that a
`config` command disturbs may be OK without any file ever having been.  Two `execute`
commands that start together may share one approval: the status is read once, at the start.
For the first two one command at a time per file is enough (`Turns`, section 5).
`VerifyRejectsRevoked` leaves out a key whose file is being written while `verify` reads, or
was left `torn`; `PassedForLack` says what there is to find then.
`ExplainMatchesEngine` is about every type but `api.call` (section 4).

## 4. Where code and texts part

Four runs check one property each, which a text of the repository states and the code
does not keep:

* `FileActions_create` / `RollbackToBefore`: "Rollback to before action ID".  For
  `file.create` the rollback unlinks the target (`core/rollback.py:36`), also when the
  action wrote over a file that was there; the snapshot of a create holds no content.
* `MapExecution_block` / `BlockPreventsRequest`: "A `block` policy prevents execute before
  any external API call is made."  `act` reads the file for the policy
  (`cli/main.py:1508`) and later again for the switch.  While a `config set` of any other key
  rewrites it in place, it is empty for a moment, and empty means the defaults, under which
  `map.execute` is not blocked.  With the execution switch on, the request leaves.
* `McpServe_lockstep` / `AnswerWhileWaiting`: the loop does not flush
  (`cli/main.py:808`).  A client that waits for an answer before it sends more waits for ever.

* `Timeline_log` / `LogShowsNewest`: "Action timeline (most recent first)"
  (`brain/runewall-technical-spec.md:263`).  `list_actions` orders ascending and stops at 50
  (`core/log.py:113`): `runewall log` shows the 50 oldest rows, and nothing after them.

Others were met while modelling.  They are in the model as the code has them, and plain
enough from the source to need no run:

* `approve` looks at no status (`cli/main.py:2689`): a `blocked` action can be approved and
  executed, while `docs/POLICIES.md:20` calls it denied.  `GateHolds` therefore asks for
  an approval, of blocked actions too.
* the with-blocks evaluate `RulesEngine(rules=rules)` with the caller's rules only
  (`core/interceptor.py:96`); the `[rules]` of `config.toml` do not reach them, although
  `docs/POLICIES.md:55` presents these as overrides of the policies.
* for `api.call`, `explain_policy` reports what it does for an unknown type, while the
  engine decides by method (`core/rules.py:102`).
* `act --execute` stops for `blocked` only: under `review_required`, the default, the
  request is sent (`cli/main.py:1510`; `docs/POLICIES.md:19`).
* `rollback --last` takes the greatest timestamp: an approved action that is executed after a
  newer one was made is not it, nor is one made in the second of an action that was made on
  its full stroke, and a `read` or `act` hides the file action before it.  `UndoLast` lists
  these exceptions.
* `config set` accepts `0` and negative numbers, which `config validate` then rejects
  (`core/config.py:184`).
* a request that was sent, but whose answer is lost, leaves no row
  (`cli/main.py:1541`).
* the executors look at the status code only (`maps/executor.py:142`): a redirect, which is
  not followed, is logged as a success when its body parses, and an error of a gateway as a
  failure, also if the service has acted.  `RowsTruthful` is about the answer therefore.
* two `config` commands that overlap may leave the tail of one text behind the other
  (`core/config.py:286`): B's values with A's whole `[rules]`, or a line cut to
  `nknown = "review"`, which the next `config set` keeps and `config validate` reports as
  INVALID (`core/config.py:208`).  `RegisterSpec` says what can be mixed, and `NothingUnasked`
  and `NoFalseAlarm` name the exception.
* `keys revoke` killed between truncating and writing loses the record
  (`maps/registry.py:327`; `docs/COMMUNITY_MAP_KEYS.md:132`).
* package import does not run `validate_community_map_file` on the maps it copies
  (`maps/registry.py:742`; `docs/COMMUNITY_MAPS.md:11`), and of two listed maps with one
  file name only the last survives (`maps/registry.py:765`).

## 5. What TLAPS proves

For every value of the constants that meets the named assumptions of the modules:

| Module | Theorem | Statement |
|---|---|---|
| `FileActionsProofs` | `TypeCorrect` | `Spec => []TypeOK` |
| | `GateCorrect` | `Spec => []GateHolds` |
| | `ImplementsGate` | `Spec => GateSpec` |
| `FileActionsLogProofs` | `SnapshotsComeFirst` | `Spec => []SnapshotBeforeChange` |
| | `DanglingRowsAreHarmless` | `Spec => []DanglingMeansUntouched` |
| | `StatusesAreTrue` | `Spec => []StatusTruthful` |
| | `LogOnlyGrows` | `Spec => LedgerKept` |
| | `PendingExplained` | `Spec => []PendingIsExplained`, if `MaxFaults = 0` |
| | `ImagesHoldInTurn` | `Turns => []SnapshotIsBeforeImage`, if `MaxFaults = 0` |
| | `ApprovalsSpentInTurn` | `Turns => UnlinkSpendsApproval`, if `MaxFaults = 0` |
| | `SnapshotsAreBeforeImages` | `Spec => []SnapshotIsBeforeImage`, if `OneAtATime` |
| | `UnlinksSpendApprovals` | `Spec => UnlinkSpendsApproval`, if `OneAtATime` |
| `TimelineProofs` | `TimelineImplements` | `TimelineSpec => Spec` |
| | `TimelineTypeCorrect` | `TimelineSpec => []TimelineTypeOK` |
| | `LastIsUndone` | `TimelineSpec => UndoLast`, if `OneAtATime` |
| | `UndoneFromBeforeImages` | `TimelineSpec => []SnapshotIsBeforeImage /\ UnlinkSpendsApproval`, if `OneAtATime` |
| `PolicyConfigProofs` | `ConfigTypeCorrect` | `Spec => []TypeOK` |
| | `ExplainCorrect` | `Spec => []ExplainMatchesEngine` |
| | `AuditCorrect` | `Spec => []CleanAuditIsSafe` |
| | `FirstRuleWins` | `Spec => []FirstRuleDecides` |
| | `ListOrderBreaksTies` | `Spec => []FirstOfEqualsWins` |
| `ConfigStoreProofs` | `NothingIsUnasked` | `ConfigSpec => []NothingUnasked` |
| | `ConfigImplementsRegister` | `LineageSpec => RegisterSpec` |
| `MapExecutionProofs` | `ActTypeCorrect` | `Spec => []TypeOK` |
| | `SwitchFailsClosed` | `Spec => []SentOnlyIfEnabled` |
| | `TokensStayHome` | `Spec => []TokenOfItsService` |
| | `RowsTellTheTruth` | `Spec => []RowsTruthful` |
| | `ActImplementsGate` | `Spec => GateSpec` |
| | `OneAfterTheOtherAsWanted` | `Spec => []AloneAsWanted` |
| | `RequestsAsConfigured` | `Spec => SentAsConfigured` |
| `CommunityMapsProofs` | `KeyTypeCorrect` | `KeySpec => []KeyTypeOK` |
| | `RevocationHolds` | `KeySpec => []RevocationSticks` |
| | `KeysGiven` | `KeySpec => []KeysAreGiven` |
| | `MapsTypeCorrect` | `Spec => []TypeOK` |
| | `ImportsAreChecked` | `Spec => []ImportedWasChecked` |
| | `OnlyLostRecordsPass` | `Spec => []PassedForLack` |
| | `RevokedKeysFail` | `Spec => []VerifyRejectsRevoked` |
| `McpServeProofs` | `ReportsTypeCorrect` | `Spec => []ReportsTypeOK` |
| | `OKIsSafe` | `Spec => []OkMeansSafe` |
| | `AlarmsAreTrue` | `Spec => []NoFalseAlarm` |
| | `OneAnswerEach` | `Spec => []AnswersInOrder` |

*From which assumptions.*  Those that the modules name say what the program can be given:
actions are of the three types that the with-blocks build (`core/interceptor.py:31`), the
configuration file is a text or missing when the commands start, `config set` gets a known
key and a value, a package lists finitely many maps, the clock has instants, the bounds are
natural numbers.  The other conditions are those under which the properties are meant:

* `Turns`: the behaviours of `FileActions` in which no two processes are at work on one file
  (`InTurn`) and other programs do not write a file while a process is at work on it
  (`Unmeddled`).  On other files anything may happen meanwhile, cleanup, approvals and
  rejections everywhere.  Without it the two snapshot properties fail (section 3).
* `OneAtATime`: no deaths and one process of `FileActions` at work at a time, out of any
  finite number.  This is one way to take turns (`TurnsTaken`), and what `rollback --last`
  needs: the last action is one of all files.
* `MaxFaults = 0`: a process killed inside its with-block does leave its action pending, and an
  `execute` killed between its row and its unlink leaves a snapshot newer than the last change.

Each is met by the run that checks the property.  Nothing is assumed of how many processes,
actions, snapshots, keys, maps, requests, reports or deaths there are.

*FileActions, the gate.*  `GateHolds` is not inductive: a process about to unlink got there
some steps ago, so the invariant must say what its position means.  `IInv` is `TypeOK`,
`ProcOK` for each process (one past the policy check of a with-block has an action the
policy lets through, one inside `execute` has an action that was approved),
`ApprovedGranted` (an approved row has been granted) and `GateHolds`.  There is one lemma
per group of actions, and `NextIInv` puts them together.  `ImplementsGate` maps the first
insertion of a row to `Record`, `Approve` to `Grant`, the opening of a block and the
unlink to `LetThrough`, and everything else to a stutter; it needs `IInv` to know that
the unlink is of a granted action.

*FileActions, the log.*  The three stores are written one after the other, so `LInv` says
for each position of a process what is there by then (`Written`): before `LogAction` no row,
after the copy a directory with a whole copy, before the block or the unlink a snapshot with
a row.  A step of one process must not break that of another; for that `Distinct` keeps two
with-blocks off one action and two copies off one snapshot, and `Undisturbed` lists what a
step of another process may do to the stores: it is proved once for the steps that take
nothing away.  `Accounted` says what remains of it once the process is gone, by death or
by its end.  The four theorems without a condition follow, for any number of deaths.

*FileActions, in turn.*  `FInv`, under `Turns`: whoever else is at work is at work on another
file (`OthersElsewhere`), so what a process saw when it made its copy is in the file until it
changes it (`HoldsNow`), and the latest snapshot stays the file from before (`BeforeImages`);
an approved action keeps its approval until `execute` ends (`Unspent`), and the unlink is of
such a one (`Spending`).  A step of one process keeps these for the others since it writes its
own target, rows and snapshot only (`OwnStepHolds`).  `Sourced` says that a row is of an action
that was let through or is about to be; a new action has none.  Under `OneAtATime` nobody else
is at work at all (`Alone`), and `AInv` is `Alone /\ FInv`.

*Timeline.*  Every step is one of `FileActions` or leaves it alone, so all theorems above
hold with times, reads and `rollback --last`.  `UndoLast` compares texts; `NoLaterMeans` says
in numbers when one text is no later than another, from four lemmas about quotient and
remainder.  `UndoInv` adds that no time is ahead of the clock, that the action of an open
block is the newest, that what was done last is no older than the rest unless it was
approved, and that a `rollback --last` about to restore has an action that is last up to the
exceptions.  It rests on `IInv`, `LInv`, `AInv` and `Sourced` (what a rollback restores from).

*PolicyConfig.*  The hard part is that the engine *chooses* a matching rule from a sorted
sequence and `explain_policy` looks a key up: `FieldOrderIsBijective` and `ConfiguredRule`
show that at most one rule of a configuration matches a type, so that the choice is
unique.  From there `ExplainAgrees` is a case split, and `SafeAudit` follows from it.
`FirstRuleWins` is about every list that rules can be added to: the list is finite, so some
matching rule is the first in the order of priority and position, and that is the one
chosen (`SearchedList`).  `ListOrderBreaksTies` compares it with a search that goes through the
list once and keeps the best so far (`BestOf`, a recursive function).  That such a function
exists, and what it computes, needs induction; the library's theorem takes an operator as
a parameter, so it is done here over the *set* of numbers for which the claim holds: if
it were not all numbers, there would be a least one outside it (`LeastNumber`, from
`WFMin`).  `BestOfIsBest` is then that the search ends with the first of the best.

*ConfigStore and MapExecution.*  `ConfigIInv`: the file, the text that any command holds and
the texts that are `left` in the file to be written over are `Sound`, every value in them asked for,
a default, or, once texts were `mixed`, a rule of no known name; and a command is at a stage
that `config` has (`StageOK`).  A truncated file loses everything, but invents nothing, and a
tail brings lines of sound texts (`Mixes`, `WrittenOK`).  `MInv` adds to it what an `act`
command has found by the time it has come so far (`CommandOK`): one that sends has read a switch
that is on, so that somebody asked for it, since off is the default; the same of the name of its
token; and the row it may leave is that of the answer it has (`Tells`).  `TInv` is what holds
while `crowded` is false: the file, as loaded, is what was last asked for, or the one command
at work is about to make it so (`InTurn`), and a command that may send has read exactly that
(`Cleared`).

*ConfigLineage.*  `LineageInv` adds to `ConfigIInv` that the text which each command is about to
write is `Rooted`: its request, applied to one of the readings in its `base`; and that it is
`Behind`: what is left in the file for it to write over is in its `made`.  It becomes rooted
in `Load`, where the command finds what is the reading then, and a reading is in the `base` of
everybody under way as soon as there is one that is not their own (`OnlookersRooted`,
`RegisterSeen`).  Opening the file leaves nothing to write over; from then on every text that
another one writes is put in `made`.  Each step then is a step of the register: `ConfigSet` and
`ConfigReset` are `Ask`, `Write` is `TakeEffect`, the truncations are `Blank` and `Fill` is `Renew`,
a death or a file that cannot be loaded is `GiveUp`.

*TrustedKeys and CommunityMaps.*  `KeyIInv` adds to the types what each pending command
carries (`KeeperOK`, `PendingGiven`: its record was given for its key) and, for a barred key,
that no command on its way would trust it (`BarredForGood`).  The last is why a `trust`
command that has passed its check when a revocation ends is excepted in the definition of
`barred`.  `CInv`: while the directory is not `disturbed`, each file that an import has still
to copy was checked under the name it will have (`Vouched`), and so was what is there.
`OnlyLostRecordsPass` needs no more: a barred key's file is one that `KeyIInv` allows, and of
those `package_ok` lets only the unreadable pass.  `WInv` adds that the file of a key that is
not `torn` is a record or absent, or empty with exactly one command about to fill it; so
`verify`, which skips a file it cannot read, overlooks no other revocation (`RevokedKeysFail`).

*Reports and McpServe.*  `RInv` says of each report what it has found and has still to read,
and therefore what it can end with: while `calm`, what it has found is what the file holds;
always, an alarm names one of `Sources`, the values that were asked for and, once texts were
mixed, the rule of no known name.  `SInv` says that what was delivered and
what is in the buffer, one after the other, are the answers to the lines taken
(`AnswersTo`), one less while a report is under way.

The recursion in these modules is in functions; there are no RECURSIVE operators.

*Only model-checked.*  The liveness properties `NoStrandedPending` and `AllAnswered`, which
are out of the prover's reach.  Every invariant and every safety property of the passing runs
is proved.  The four runs of section 4 are counterexamples.

## 6. What is not modelled

SQLite and the file system below one statement or one `mkdir`, `unlink`, truncation,
write; locks of SQLite that time out; the matching of globs; URLs, bodies, headers and
secrets of the executors; the text that `read` extracts; redaction and every form of output;
the linter and the bundled maps (data that ships with the package: its outcome is an input of
`Reports`, the required inputs one of `MapExecution`); `release json-check` and `package
check`, which compare texts and files of a checkout; argument parsing; a line of input to the
server that is not UTF-8; what a service does with a request; configuration values that look
like lines of TOML, and sections and unknown keys (but those of `[rules]`) of a file that was
edited by hand.

## 7. Plan

Built: the modules above, in the order `Policy`, `FileActions` with `ReviewGate`,
`PolicyConfig`, `ConfigStore`, `MapExecution`, `TrustedKeys`, `CommunityMaps`, `McpServe`, then
`Timeline`, `Reports`, `ExecutionGate`, `ConfigRegister` with `ConfigLineage`, and the proofs of
section 5.

To extend the model: `lint_map` and `validate_community_map_file` as operators over trees of
keys, instead of one Boolean.

To prove more, in the modules of section 5: `LastIsUndone` beside processes at work on other
files, with a fifth exception for an action that was let through after the command looked.
