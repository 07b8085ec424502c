----------------------------- MODULE MapExecution -----------------------------
(***************************************************************************)
(* `runewall act SITE FLOW --dry-run | --execute`: the plan, the policy    *)
(* check, the execution switch, one HTTP request to an external service,   *)
(* and one row in the action log.  The command reads config.toml three     *)
(* times, each time as ConfigStore has it at that moment, while `config`   *)
(* commands of other processes go on.                                      *)
(*                                                                         *)
(* An element of Commands is one run of the command:                       *)
(*   [id, mode, flow, given]                                               *)
(* (mode "dry_run" or "execute"; flow a pair <<site, flow>> of the bundled *)
(* maps; given the names of the --input options).  A run with an unknown   *)
(* site or flow returns before it touches anything.                        *)
(***************************************************************************)
EXTENDS ConfigStore

CONSTANTS Commands,
          Required,     \* of each flow, the inputs its map declares as required
          Environment,  \* the environment variables that hold a token
          MaxActs,      \* bound: act commands that are started
          MaxDeaths     \* bound: act commands that are killed

ASSUME ActKeysAssumption == {"maps.allow_execute", "rules.map_execute"} \subseteq Keys
ASSUME DeathsAssumption == MaxDeaths \in Nat

VARIABLES act,       \* where each command is; `logs`: did it find a database;
                     \* `env`: where the token of its request comes from
          rows,      \* what the log has about each command
          remote,    \* how often its request has left; what the service does is its own
          answer,    \* what the service answered: the status code, by its meaning here
          database,  \* runewall.db: none, an empty file, or with its tables
          deaths,
          crowded    \* history: a `config` command was not alone, or was cut short

actVars == <<act, rows, remote, answer, database, deaths, crowded>>
allVars == <<configVars, actVars>>

Ready == [pc |-> "ready", logs |-> FALSE, env |-> Unset]

Init ==
  /\ ConfigInit
  /\ act = [c \in Commands |-> Ready]
  /\ rows = [c \in Commands |-> "none"]
  /\ remote = [c \in Commands |-> 0]
  /\ answer = [c \in Commands |-> "none"]
  /\ database \in {"none", "tables"}
  /\ deaths = 0 /\ crowded = FALSE

-------------------------------------------------------------------------------
At(c, pc) == act[c].pc = pc
Move(c, pc) == act' = [act EXCEPT ![c].pc = pc]

\* The end of a command that writes its row, if it found a database to write to.
\* In a database without its tables the INSERT raises and nothing is written.
FinishWith(c, outcome) ==
  /\ Move(c, "done")
  /\ rows' = [rows EXCEPT ![c] = IF act[c].logs /\ database = "tables" THEN outcome ELSE @]

\* An exception that no handler of the command catches.
Abort(c) == Move(c, "done") /\ UNCHANGED rows

DecisionFor(type) == decision_for_policy(explain_policy(type, load_config(file)).policy)

missing_required_inputs(c) == Required[c.flow] \ c.given

is_supported_execution(flow) ==
  flow \in {<<"github", "create_issue">>, <<"vercel", "list_projects">>,
            <<"netlify", "list_sites">>, <<"supabase", "list_projects">>,
            <<"cloudflare", "list_zones">>}

\* Variant: the branch of the last service serves every other one too.
TokenKeyOfGithub(site) == "auth.github_token_env"

\* The setting that names the environment variable of a service's token.
TokenKey(site) ==
  CASE site = "cloudflare" -> "auth.cloudflare_api_token_env"
    [] site = "supabase"   -> "auth.supabase_access_token_env"
    [] site = "netlify"    -> "auth.netlify_token_env"
    [] site = "vercel"     -> "auth.vercel_token_env"
    [] OTHER               -> "auth.github_token_env"

TokenEnv(c) == LET k == TokenKey(c.flow[1]) IN as_str(k, Setting(file, k))

-------------------------------------------------------------------------------
\* `init` creates the file by connecting to it, and then the tables.
initialize_database ==
  /\ \/ database = "none" /\ database' = "bare"
     \/ database = "bare" /\ database' = "tables"
  /\ UNCHANGED <<act, rows, remote, answer, deaths, crowded, configVars>>

\* The log is looked for once, at the start, by the name of its file alone.
Start(c) ==
  /\ At(c, "ready")
  /\ Cardinality({d \in Commands : ~At(d, "ready")}) < MaxActs
  /\ act' = [act EXCEPT ![c] = [@ EXCEPT !.pc = "plan", !.logs = database # "none"]]
  /\ crowded' = (crowded \/ \E w \in Setters : setter[w] # Resting)
  /\ UNCHANGED <<rows, remote, answer, database, deaths, configVars>>

\* Missing inputs, and dry runs, end here.
Plan(c) ==
  /\ At(c, "plan")
  /\ CASE ~Readable(file) -> Abort(c)
       [] Readable(file) /\ missing_required_inputs(c) # {} -> FinishWith(c, "failed")
       [] Readable(file) /\ missing_required_inputs(c) = {} /\ c.mode = "dry_run" -> FinishWith(c, "success")
       [] OTHER -> Move(c, "policy") /\ UNCHANGED rows
  /\ UNCHANGED <<remote, answer, database, deaths, crowded, configVars>>

\* Variant: the policy of the dry run is reused for the execution.
CheckPolicyOfDryRun(c) ==
  /\ At(c, "policy")
  /\ IF ~Readable(file) THEN Abort(c)
     ELSE IF DecisionFor("map.dry_run") = "blocked" THEN FinishWith(c, "failed")
     ELSE Move(c, "execute") /\ UNCHANGED rows
  /\ UNCHANGED <<remote, answer, database, deaths, crowded, configVars>>

CheckPolicy(c) ==
  /\ At(c, "policy")
  /\ IF ~Readable(file) THEN Abort(c)
     ELSE IF DecisionFor("map.execute") = "blocked" THEN FinishWith(c, "failed")
     ELSE Move(c, "execute") /\ UNCHANGED rows
  /\ UNCHANGED <<remote, answer, database, deaths, crowded, configVars>>

\* Variant: the command goes on whether or not the variable is set.
WithTokenUnchecked(c) ==
  /\ act' = [act EXCEPT ![c] = [@ EXCEPT !.pc = "send", !.env = TokenEnv(c)]]
  /\ UNCHANGED rows

\* With its token a command goes on to its request.
WithToken(c) ==
  IF TokenEnv(c) \in Environment
  THEN act' = [act EXCEPT ![c] = [@ EXCEPT !.pc = "send", !.env = TokenEnv(c)]] /\ UNCHANGED rows
  ELSE FinishWith(c, "failed")

\* Variant: the execution switch is not looked at.
execute_map_action_unswitched(c) ==
  /\ At(c, "execute")
  /\ CASE ~is_supported_execution(c.flow) -> FinishWith(c, "failed")
       [] is_supported_execution(c.flow) /\ ~Readable(file) -> Abort(c)
       [] OTHER -> WithToken(c)
  /\ UNCHANGED <<remote, answer, database, deaths, crowded, configVars>>

\* execute_map_action up to the request.
execute_map_action(c) ==
  /\ At(c, "execute")
  /\ CASE ~is_supported_execution(c.flow) -> FinishWith(c, "failed")
       [] is_supported_execution(c.flow) /\ ~Readable(file) -> Abort(c)
       [] is_supported_execution(c.flow) /\ Readable(file) /\ ~load_config(file).allow_execute
            -> FinishWith(c, "failed")
       [] OTHER -> WithToken(c)
  /\ UNCHANGED <<remote, answer, database, deaths, crowded, configVars>>

(***************************************************************************)
(* The external service and the network.  A request that leaves may be     *)
(* carried out or not, and the answer need not tell: a redirect is not     *)
(* followed and counts as accepted (status < 400), a gateway may answer    *)
(* with an error (status >= 400) after the service has acted.  So the      *)
(* answer is any; or it is lost, late, or has a body that is not JSON.     *)
(* httpx's own errors and a body that does not parse are not               *)
(* MapExecutionErrors, so nothing catches them.                            *)
(***************************************************************************)
Request(c) ==
  /\ At(c, "send")
  /\ remote' = [remote EXCEPT ![c] = @ + 1]
  /\ Move(c, "answer")
  /\ UNCHANGED <<rows, answer, database, deaths, crowded, configVars>>

ConnectionFails(c) ==
  /\ At(c, "send") /\ Abort(c)
  /\ UNCHANGED <<remote, answer, database, deaths, crowded, configVars>>

Answer(c, status) ==
  /\ At(c, "answer")
  /\ answer' = [answer EXCEPT ![c] = status]
  /\ Move(c, "log")
  /\ UNCHANGED <<rows, remote, database, deaths, crowded, configVars>>

\* Variant: an answer that is lost sends the command back to its request.
AnswerLostRetried(c) ==
  /\ At(c, "answer") /\ Move(c, "send")
  /\ UNCHANGED <<rows, remote, answer, database, deaths, crowded, configVars>>

AnswerLost(c) ==
  /\ At(c, "answer") /\ Abort(c)
  /\ UNCHANGED <<remote, answer, database, deaths, crowded, configVars>>

\* Variant: the status code of the answer is not looked at.
LogUnchecked(c) ==
  /\ At(c, "log") /\ FinishWith(c, "success")
  /\ UNCHANGED <<remote, answer, database, deaths, crowded, configVars>>

\* The row; of an answer that was accepted the body is parsed first.
Log(c) ==
  /\ At(c, "log")
  /\ \/ answer[c] = "accepted" /\ (FinishWith(c, "success") \/ Abort(c))
     \/ answer[c] = "rejected" /\ FinishWith(c, "failed")
  /\ UNCHANGED <<remote, answer, database, deaths, crowded, configVars>>

Killed(c) ==
  /\ ~At(c, "ready") /\ ~At(c, "done")
  /\ deaths < MaxDeaths /\ deaths' = deaths + 1
  /\ Abort(c)
  /\ UNCHANGED <<remote, answer, database, crowded, configVars>>

ActStep(c) ==
  \/ Plan(c) \/ CheckPolicy(c) \/ execute_map_action(c)
  \/ Request(c) \/ ConnectionFails(c)
  \/ \E status \in {"accepted", "rejected"} : Answer(c, status)
  \/ AnswerLost(c) \/ Log(c)

\* A `config` command is alone while no other one and no `act` is under way.
Alone == /\ Cardinality({w \in Setters : setter[w] # Resting}) <= 1
         /\ \A c \in Commands : act[c].pc \in {"ready", "done"}

ConfigStep ==
  /\ ConfigNext
  /\ UNCHANGED <<act, rows, remote, answer, database, deaths>>
  /\ crowded' = (crowded \/ ~Alone' \/ configFaults' # configFaults)

Next ==
  \/ initialize_database
  \/ \E c \in Commands : Start(c) \/ ActStep(c) \/ Killed(c)
  \/ ConfigStep

Spec == Init /\ [][Next]_allVars

-------------------------------------------------------------------------------
TypeOK ==
  /\ act \in [Commands -> [pc : {"ready", "plan", "policy", "execute", "send", "answer", "log",
                                 "done"},
                           logs : BOOLEAN, env : Environment \cup {Unset}]]
  /\ rows \in [Commands -> {"none", "success", "failed"}]
  /\ remote \in [Commands -> Nat]
  /\ answer \in [Commands -> {"none", "accepted", "rejected"}]
  /\ database \in {"none", "bare", "tables"} /\ deaths \in 0 .. MaxDeaths
  /\ crowded \in BOOLEAN

(***************************************************************************)
(* The execution switch fails closed: a request leaves only if somebody    *)
(* set maps.allow_execute to true, whatever a torn, lost or half-merged    *)
(* write of config.toml lets the command read.                             *)
(***************************************************************************)
SentOnlyIfEnabled ==
  \A c \in Commands : remote[c] > 0 => <<"maps.allow_execute", "true">> \in asked

(***************************************************************************)
(* The log says what the service answered (what it did, the program cannot *)
(* know): success means that it accepted the request or that there was     *)
(* none to send; failed means that it rejected the request or that none    *)
(* was sent.  A request whose answer is not known gets neither, through    *)
(* lost answers, deaths and answers that do not parse.                     *)
(***************************************************************************)
RowsTruthful ==
  \A c \in Commands :
    /\ rows[c] = "success" /\ c.mode = "execute" => answer[c] = "accepted"
    /\ rows[c] = "failed" => answer[c] = "rejected" \/ remote[c] = 0

(***************************************************************************)
(* As long as the `config` commands do not meet each other or an `act`,    *)
(* and none is cut short, what a command sends is what the user asked for  *)
(* last: execution enabled, and a policy for map.execute that is not       *)
(* block, through any sequence of set, reset and profile before it.        *)
(***************************************************************************)
SentAsConfigured ==
  [][\A c \in Commands : ~crowded /\ remote'[c] # remote[c] =>
        wanted["maps.allow_execute"] = "true" /\ wanted["rules.map_execute"] # "block"]_allVars

(***************************************************************************)
(* One command after the other, every key has the value it was given last. *)
(***************************************************************************)
AloneAsWanted == ~crowded => AsWanted

\* The setting that is meant for each service, for the property below.
NamedFor == [github     |-> "auth.github_token_env",
             vercel     |-> "auth.vercel_token_env",
             netlify    |-> "auth.netlify_token_env",
             supabase   |-> "auth.supabase_access_token_env",
             cloudflare |-> "auth.cloudflare_api_token_env"]

(***************************************************************************)
(* No service is ever given the token of another one: the variable that a  *)
(* request's token comes from is the built-in one of its service, or one   *)
(* that somebody named for that service, whatever is written into          *)
(* config.toml meanwhile.                                                  *)
(***************************************************************************)
TokenOfItsService ==
  \A c \in Commands : remote[c] > 0 =>
    LET k == NamedFor[c.flow[1]] IN
      act[c].env = DataclassDefault(k) \/ <<k, act[c].env>> \in asked

(***************************************************************************)
(* The command implements ExecutionGate: at most one request, after        *)
(* execution was enabled, and at most one row, after the answer it         *)
(* reports.                                                                *)
(***************************************************************************)
Gate == INSTANCE ExecutionGate WITH
          DryRuns <- {c \in Commands : c.mode = "dry_run"},
          enabled <- <<"maps.allow_execute", "true">> \in asked,
          row <- rows
GateSpec == Gate!Spec

(***************************************************************************)
(* "A `block` policy prevents execute before any external API call is      *)
(* made": a request leaves only if somebody asked for another policy than  *)
(* block for map.execute.                                                  *)
(***************************************************************************)
BlockPreventsRequest ==
  \A c \in Commands : remote[c] > 0 =>
    \E v \in PolicyNames \cup {Unset} : v # "block" /\ <<"rules.map_execute", v>> \in asked

===============================================================================
