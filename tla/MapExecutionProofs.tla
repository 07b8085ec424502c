-------------------------- MODULE MapExecutionProofs ---------------------------
(***************************************************************************)
(* Theorems about MapExecution, for any commands, flows, keys, `config`    *)
(* commands beside them and deaths: what is sent, whose token goes with    *)
(* it, and what the log says about it.                                     *)
(***************************************************************************)
EXTENDS MapExecution, ConfigStoreProofs

(***************************************************************************)
(* How far a command has come says what it has sent and logged, and what   *)
(* it found in config.toml to be allowed to.                               *)
(***************************************************************************)
Sends(c) == act[c].pc \in {"send", "answer", "log"} \/ remote[c] > 0

TokenOK(c) == LET k == TokenKey(c.flow[1]) IN
                act[c].env = DataclassDefault(k) \/ <<k, act[c].env>> \in asked

\* The row that a command may leave, by what it has sent and was answered.
Tells(c, row) ==
  /\ row = "success" => answer[c] = "accepted" \/ c.mode = "dry_run"
  /\ row = "failed" => answer[c] = "rejected" \/ remote[c] = 0

CommandOK(c) ==
  /\ act[c].pc # "done" => rows[c] = "none"
  /\ remote[c] \in {0, 1}
  /\ act[c].pc \notin {"answer", "log", "done"} => remote[c] = 0
  /\ act[c].pc \in {"answer", "log"} => remote[c] = 1
  /\ act[c].pc \notin {"log", "done"} => answer[c] = "none"
  /\ act[c].pc \in {"policy", "execute"} \/ Sends(c) => c.mode # "dry_run"
  /\ Sends(c) => /\ <<"maps.allow_execute", "true">> \in asked
                 /\ is_supported_execution(c.flow)
                 /\ TokenOK(c)
  /\ Tells(c, rows[c])

MInv == /\ TypeOK /\ ConfigIInv /\ configFaults \in Nat
        /\ \A c \in Commands : CommandOK(c)

(***************************************************************************)
(* The ways a command goes on or ends, which leave the others alone.       *)
(***************************************************************************)
Acts == [pc : {"ready", "plan", "policy", "execute", "send", "answer", "log", "done"},
         logs : BOOLEAN, env : Environment \cup {Unset}]

MovedTo(c, pc) ==
  /\ act' \in [Commands -> Acts]
  /\ act'[c].pc = pc /\ act'[c].env = act[c].env /\ act'[c].logs = act[c].logs
  /\ \A d \in Commands \ {c} : act'[d] = act[d]

LEMMA MoveEffect ==
  ASSUME TypeOK, NEW c \in Commands,
         NEW pc \in {"ready", "plan", "policy", "execute", "send", "answer", "log", "done"},
         Move(c, pc)
  PROVE  MovedTo(c, pc)
<1>1. act \in [Commands -> Acts] /\ act' = [act EXCEPT ![c] = [act[c] EXCEPT !.pc = pc]]
  BY DEF TypeOK, Acts, Move
<1>2. [act[c] EXCEPT !.pc = pc] \in Acts
  BY <1>1 DEF Acts
<1>3. QED
  BY <1>1, <1>2 DEF Acts, MovedTo

\* A row, or none, for a command that ends.
Ended(c, outcome) ==
  /\ MovedTo(c, "done")
  /\ rows' \in [Commands -> {"none", "success", "failed"}]
  /\ rows'[c] \in {rows[c], outcome}
  /\ \A d \in Commands \ {c} : rows'[d] = rows[d]

LEMMA FinishEffect ==
  ASSUME TypeOK, NEW c \in Commands, NEW outcome \in {"success", "failed"},
         FinishWith(c, outcome)
  PROVE  Ended(c, outcome)
BY MoveEffect DEF FinishWith, Ended, TypeOK

LEMMA AbortEffect ==
  ASSUME TypeOK, NEW c \in Commands, Abort(c)
  PROVE  MovedTo(c, "done") /\ rows' = rows
BY MoveEffect DEF Abort

\* The rest of the state, for steps of one command.
LEMMA OneCommandOK ==
  ASSUME MInv, NEW c \in Commands, UNCHANGED configVars,
         act' \in [Commands -> Acts], \A d \in Commands \ {c} : act'[d] = act[d],
         rows' \in [Commands -> {"none", "success", "failed"}],
         \A d \in Commands \ {c} : rows'[d] = rows[d],
         remote' \in [Commands -> Nat], \A d \in Commands \ {c} : remote'[d] = remote[d],
         answer' \in [Commands -> {"none", "accepted", "rejected"}],
         \A d \in Commands \ {c} : answer'[d] = answer[d],
         database' = database, deaths' \in 0 .. MaxDeaths, crowded' \in BOOLEAN,
         CommandOK(c)'
  PROVE  MInv'
<1>1. ConfigIInv' /\ configFaults' = configFaults /\ asked' = asked
  BY NextConfigIInv DEF MInv, configVars, configHistory
<1>2. \A d \in Commands \ {c} : CommandOK(d)'
  BY <1>1 DEF MInv, CommandOK, Sends, TokenOK, Tells
<1>3. TypeOK'
  BY DEF MInv, TypeOK, Acts
<1>4. QED
  BY <1>1, <1>2, <1>3 DEF MInv

-------------------------------------------------------------------------------
(***************************************************************************)
(* What execute_map_action finds before it lets a command go on.           *)
(***************************************************************************)
LEMMA SwitchIsOn ==
  ASSUME ConfigIInv, Readable(file), load_config(file).allow_execute
  PROVE  <<"maps.allow_execute", "true">> \in asked
<1>1. load_config_data(file)["maps.allow_execute"] = "true" /\ "maps.allow_execute" \in Keys
  BY ActKeysAssumption DEF load_config, Setting
<1>2. /\ DataclassDefault("maps.allow_execute") # "true"
      /\ "maps.allow_execute" \in Lines /\ "maps.allow_execute" # Stray
  BY <1>1, StrayIsUnknown DEF DataclassDefault
<1>3. QED
  BY <1>1, <1>2, NoneUnasked DEF NothingUnasked

LEMMA TokenIsItsOwn ==
  ASSUME ConfigIInv, NEW c, Readable(file)
  PROVE  LET k == TokenKey(c.flow[1]) IN
           TokenEnv(c) = DataclassDefault(k) \/ <<k, TokenEnv(c)>> \in asked
<1> PICK k : k = TokenKey(c.flow[1])
  OBVIOUS
<1>1. Setting(file, k) = DataclassDefault(k) \/ <<k, Setting(file, k)>> \in asked
  BY NoneUnasked, StrayIsUnknown DEF NothingUnasked, Setting
<1>2. QED
  BY <1>1 DEF TokenEnv, as_str

\* What WithToken leaves behind when the token is there.
SentOn(c) ==
  /\ act' \in [Commands -> Acts] /\ \A d \in Commands \ {c} : act'[d] = act[d]
  /\ act'[c].pc = "send" /\ act'[c].env = TokenEnv(c)
  /\ rows' = rows

LEMMA WithTokenEffect ==
  ASSUME TypeOK, NEW c \in Commands, WithToken(c)
  PROVE  Ended(c, "failed") \/ SentOn(c)
<1>1. CASE TokenEnv(c) \in Environment
  <2>1. act \in [Commands -> Acts]
        /\ act' = [act EXCEPT ![c] = [act[c] EXCEPT !.pc = "send", !.env = TokenEnv(c)]]
        /\ rows' = rows
    BY <1>1 DEF TypeOK, Acts, WithToken
  <2>2. /\ [act[c] EXCEPT !.pc = "send", !.env = TokenEnv(c)] \in Acts
        /\ [act[c] EXCEPT !.pc = "send", !.env = TokenEnv(c)].pc = "send"
        /\ [act[c] EXCEPT !.pc = "send", !.env = TokenEnv(c)].env = TokenEnv(c)
    BY <1>1, <2>1 DEF Acts
  <2>3. QED
    BY <2>1, <2>2 DEF SentOn
<1>2. CASE TokenEnv(c) \notin Environment
  BY <1>2, FinishEffect DEF WithToken
<1>3. QED
  BY <1>1, <1>2

-------------------------------------------------------------------------------
(***************************************************************************)
(* One step of one command.                                                *)
(***************************************************************************)
LEMMA StartStep == ASSUME MInv, NEW c \in Commands, Start(c) PROVE MInv'
<1>1. act \in [Commands -> Acts] /\ act[c].pc = "ready"
      /\ act' = [act EXCEPT ![c] = [act[c] EXCEPT !.pc = "plan", !.logs = database # "none"]]
  BY DEF MInv, TypeOK, Acts, Start, At
<1>2. /\ [act[c] EXCEPT !.pc = "plan", !.logs = database # "none"] \in Acts
      /\ [act[c] EXCEPT !.pc = "plan", !.logs = database # "none"].pc = "plan"
  BY <1>1 DEF Acts
<1>3. act' \in [Commands -> Acts] /\ act'[c].pc = "plan" /\ \A d \in Commands \ {c} : act'[d] = act[d]
  BY <1>1, <1>2
<1>4. rows' = rows /\ remote' = remote /\ answer' = answer /\ UNCHANGED configVars /\ database' = database
      /\ deaths' = deaths /\ crowded' \in BOOLEAN
  BY DEF Start, MInv, TypeOK
<1>5. CommandOK(c)'
  BY <1>1, <1>3, <1>4 DEF MInv, CommandOK, Sends, Tells
<1>6. QED
  BY <1>3, <1>4, <1>5, OneCommandOK DEF MInv, TypeOK

\* A command that ends with a row that is true, or with none.
Ends(c) == \/ MovedTo(c, "done") /\ rows' = rows
           \/ \E outcome \in {"success", "failed"} : Ended(c, outcome) /\ Tells(c, outcome)

LEMMA EndStep ==
  ASSUME MInv, NEW c \in Commands, ~At(c, "done"), Ends(c), deaths' \in 0 .. MaxDeaths,
         UNCHANGED <<remote, answer, database, crowded, configVars>>
  PROVE  MInv'
<1>1. rows[c] = "none" /\ asked' = asked
  BY DEF MInv, CommandOK, At, configVars, configHistory
<1>2. /\ act'[c].pc = "done" /\ act'[c].env = act[c].env
      /\ act' \in [Commands -> Acts] /\ \A d \in Commands \ {c} : act'[d] = act[d]
  BY DEF Ends, Ended, MovedTo
<1>3. /\ rows' \in [Commands -> {"none", "success", "failed"}]
      /\ \A d \in Commands \ {c} : rows'[d] = rows[d]
  BY <1>1 DEF Ends, Ended, MInv, TypeOK
<1>4. Tells(c, rows'[c])
  BY <1>1 DEF Ends, Ended, Tells
<1>5. CommandOK(c)'
  BY <1>1, <1>2, <1>4 DEF MInv, CommandOK, Sends, TokenOK, Tells, At
<1>6. QED
  BY <1>2, <1>3, <1>5, OneCommandOK DEF MInv, TypeOK

\* A command that goes on without a row.
LEMMA GoStep ==
  ASSUME MInv, NEW c \in Commands, NEW pc \in {"policy", "execute"}, MovedTo(c, pc),
         act[c].pc \in {"plan", "policy"}, c.mode # "dry_run",
         UNCHANGED <<rows, remote, answer, database, deaths, crowded, configVars>>
  PROVE  MInv'
<1>1. /\ act'[c].pc = pc
      /\ act' \in [Commands -> Acts] /\ \A d \in Commands \ {c} : act'[d] = act[d]
  BY DEF MovedTo
<1>2. CommandOK(c)'
  BY <1>1 DEF MInv, CommandOK, Sends, Tells
<1>3. QED
  BY <1>1, <1>2, OneCommandOK DEF MInv, TypeOK

LEMMA PlanStep == ASSUME MInv, NEW c \in Commands, Plan(c) PROVE MInv'
<1>1. At(c, "plan") /\ remote[c] = 0
      /\ UNCHANGED <<remote, answer, database, deaths, crowded, configVars>>
  BY DEF Plan, At, MInv, CommandOK
<1>2. Ends(c) \/ (c.mode # "dry_run" /\ Move(c, "policy") /\ UNCHANGED rows)
  <2>1. \/ Abort(c)
        \/ FinishWith(c, "failed")
        \/ c.mode = "dry_run" /\ FinishWith(c, "success")
        \/ c.mode # "dry_run" /\ Move(c, "policy") /\ UNCHANGED rows
    BY DEF Plan
  <2>2. QED
    BY <1>1, <2>1, FinishEffect, AbortEffect DEF Ends, Tells, MInv
<1>3. QED
  BY <1>1, <1>2, MoveEffect, GoStep, EndStep DEF MInv, TypeOK, At

LEMMA CheckPolicyStep == ASSUME MInv, NEW c \in Commands, CheckPolicy(c) PROVE MInv'
<1>1. At(c, "policy") /\ remote[c] = 0 /\ c.mode # "dry_run"
      /\ UNCHANGED <<remote, answer, database, deaths, crowded, configVars>>
  BY DEF CheckPolicy, At, MInv, CommandOK
<1>2. Ends(c) \/ (Move(c, "execute") /\ UNCHANGED rows)
  <2>1. Abort(c) \/ FinishWith(c, "failed") \/ (Move(c, "execute") /\ UNCHANGED rows)
    BY DEF CheckPolicy
  <2>2. QED
    BY <1>1, <2>1, FinishEffect, AbortEffect DEF Ends, Tells, MInv
<1>3. QED
  BY <1>1, <1>2, MoveEffect, GoStep, EndStep DEF MInv, TypeOK, At

LEMMA ExecuteStep == ASSUME MInv, NEW c \in Commands, execute_map_action(c) PROVE MInv'
<1>1. At(c, "execute") /\ remote[c] = 0 /\ c.mode # "dry_run" /\ rows[c] = "none"
      /\ answer[c] = "none" /\ UNCHANGED <<remote, answer, database, deaths, crowded, configVars>>
  BY DEF execute_map_action, At, MInv, CommandOK
<1>2. \/ Abort(c)
      \/ FinishWith(c, "failed")
      \/ /\ is_supported_execution(c.flow) /\ Readable(file)
         /\ load_config(file).allow_execute /\ WithToken(c)
  BY DEF execute_map_action
<1>3. CASE Abort(c) \/ Ended(c, "failed")
  <2>1. Ends(c)
    BY <1>1, <1>3, AbortEffect DEF Ends, Tells, MInv
  <2>2. QED
    BY <1>1, <2>1, EndStep DEF MInv, TypeOK, At
<1>4. CASE /\ is_supported_execution(c.flow) /\ Readable(file)
           /\ load_config(file).allow_execute /\ SentOn(c)
  <2>1. <<"maps.allow_execute", "true">> \in asked'
    BY <1>1, <1>4, SwitchIsOn DEF MInv, configVars, configHistory
  <2>2. TokenOK(c)'
    BY <1>1, <1>4, TokenIsItsOwn DEF MInv, configVars, configHistory, SentOn, TokenOK
  <2>3. CommandOK(c)'
    BY <1>1, <1>4, <2>1, <2>2 DEF SentOn, CommandOK, Sends, Tells
  <2>4. QED
    BY <1>1, <1>4, <2>3, OneCommandOK DEF MInv, TypeOK, SentOn
<1>5. QED
  BY <1>2, <1>3, <1>4, FinishEffect, WithTokenEffect DEF MInv

LEMMA RequestStep == ASSUME MInv, NEW c \in Commands, Request(c) PROVE MInv'
<1>1. At(c, "send") /\ MovedTo(c, "answer") /\ remote[c] = 0
      /\ remote' = [remote EXCEPT ![c] = remote[c] + 1]
      /\ UNCHANGED <<rows, answer, database, deaths, crowded, configVars>>
  BY MoveEffect DEF Request, MInv, At, CommandOK
<1>2. /\ act'[c].pc = "answer" /\ act'[c].env = act[c].env
      /\ act' \in [Commands -> Acts] /\ \A d \in Commands \ {c} : act'[d] = act[d]
  BY <1>1 DEF MovedTo
<1>3. remote' \in [Commands -> Nat] /\ remote'[c] = 1
      /\ \A d \in Commands \ {c} : remote'[d] = remote[d]
  BY <1>1 DEF MInv, TypeOK
<1>4. CommandOK(c)'
  BY <1>1, <1>2, <1>3 DEF MInv, CommandOK, Sends, TokenOK, Tells, At, configVars, configHistory
<1>5. QED
  BY <1>1, <1>2, <1>3, <1>4, OneCommandOK DEF MInv, TypeOK

LEMMA AnswerStep ==
  ASSUME MInv, NEW c \in Commands, NEW status \in {"accepted", "rejected"}, Answer(c, status)
  PROVE  MInv'
<1>1. At(c, "answer") /\ MovedTo(c, "log") /\ remote[c] = 1 /\ rows[c] = "none"
      /\ answer' = [answer EXCEPT ![c] = status]
      /\ UNCHANGED <<rows, remote, database, deaths, crowded, configVars>>
  BY MoveEffect DEF Answer, MInv, At, CommandOK
<1>2. /\ act'[c].pc = "log" /\ act'[c].env = act[c].env
      /\ act' \in [Commands -> Acts] /\ \A d \in Commands \ {c} : act'[d] = act[d]
  BY <1>1 DEF MovedTo
<1>3. answer' \in [Commands -> {"none", "accepted", "rejected"}]
      /\ \A d \in Commands \ {c} : answer'[d] = answer[d]
  BY <1>1 DEF MInv, TypeOK
<1>4. CommandOK(c)'
  BY <1>1, <1>2 DEF MInv, CommandOK, Sends, TokenOK, Tells, At, configVars, configHistory
<1>5. QED
  BY <1>1, <1>2, <1>3, <1>4, OneCommandOK DEF MInv, TypeOK

LEMMA EndingSteps ==
  ASSUME MInv, NEW c \in Commands,
         ConnectionFails(c) \/ AnswerLost(c) \/ Log(c) \/ Killed(c)
  PROVE  MInv'
<1>1. ~At(c, "done") /\ UNCHANGED <<remote, answer, database, crowded, configVars>>
      /\ deaths' \in 0 .. MaxDeaths
  BY DeathsAssumption DEF ConnectionFails, AnswerLost, Log, Killed, At, MInv, TypeOK
<1>2. Ends(c)
  <2>1. \/ Abort(c)
        \/ answer[c] = "accepted" /\ FinishWith(c, "success")
        \/ answer[c] = "rejected" /\ FinishWith(c, "failed")
    BY DEF ConnectionFails, AnswerLost, Log, Killed
  <2>2. QED
    BY <2>1, FinishEffect, AbortEffect DEF Ends, Tells, MInv
<1>3. QED
  BY <1>1, <1>2, EndStep

-------------------------------------------------------------------------------
(***************************************************************************)
(* The steps of the others, and the whole.                                 *)
(***************************************************************************)
LEMMA FaultsCounted == configFaults \in Nat /\ ConfigNext => configFaults' \in Nat
BY DEF ConfigNext, ConfigSet, ConfigReset, ConfigProfile, ConfigText, Create, Fill, Load, Open, Write,
   SetterDies

LEMMA ConfigStepOK == ASSUME MInv, ConfigStep PROVE MInv'
<1>1. ConfigIInv' /\ configFaults' \in Nat /\ asked \subseteq asked'
  BY NextConfigIInv, FaultsCounted, AskedGrows DEF MInv, ConfigStep
<1>2. UNCHANGED <<act, rows, remote, answer, database, deaths>> /\ crowded' \in BOOLEAN
  BY DEF ConfigStep, MInv, TypeOK
<1>3. \A c \in Commands : CommandOK(c)'
  BY <1>1, <1>2 DEF MInv, CommandOK, Sends, TokenOK, Tells
<1>4. QED
  BY <1>1, <1>2, <1>3 DEF MInv, TypeOK

LEMMA InitMInv == Init => MInv
<1> SUFFICES ASSUME Init PROVE MInv
  OBVIOUS
<1>1. ConfigIInv /\ configFaults = 0
  BY InitConfigIInv DEF Init, ConfigInit
<1>2. TypeOK
  <2>1. Ready \in Acts
    BY DEF Ready, Acts
  <2>2. deaths \in 0 .. MaxDeaths
    BY DeathsAssumption DEF Init
  <2>3. QED
    BY <2>1, <2>2 DEF Init, TypeOK, Acts
<1>3. \A c \in Commands : CommandOK(c)
  BY DEF Init, Ready, CommandOK, Sends, Tells
<1>4. QED
  BY <1>1, <1>2, <1>3 DEF MInv

LEMMA NextMInv == MInv /\ [Next]_allVars => MInv'
<1> SUFFICES ASSUME MInv, [Next]_allVars PROVE MInv'
  OBVIOUS
<1>1. CASE /\ UNCHANGED <<act, rows, remote, answer, deaths, crowded, configVars>>
           /\ database' \in {"none", "bare", "tables"}
  <2>1. ConfigIInv' /\ configFaults' = configFaults /\ asked' = asked
    BY <1>1, NextConfigIInv DEF MInv, configVars, configHistory
  <2>2. QED
    BY <1>1, <2>1 DEF MInv, TypeOK, CommandOK, Sends, TokenOK, Tells
<1>2. CASE UNCHANGED allVars
  BY <1>1, <1>2 DEF allVars, actVars, MInv, TypeOK
<1>3. CASE initialize_database
  BY <1>1, <1>3 DEF initialize_database
<1>4. QED
  BY <1>2, <1>3, StartStep, PlanStep, CheckPolicyStep, ExecuteStep, RequestStep, AnswerStep,
     EndingSteps, ConfigStepOK DEF Next, ActStep

LEMMA AlwaysMInv == Spec => []MInv
BY InitMInv, NextMInv, PTL DEF Spec

-------------------------------------------------------------------------------
(***************************************************************************)
(* Every variable keeps its type.                                          *)
(***************************************************************************)
THEOREM ActTypeCorrect == Spec => []TypeOK
<1>1. MInv => TypeOK
  BY DEF MInv
<1>2. QED
  BY <1>1, AlwaysMInv, PTL

(***************************************************************************)
(* maps/executor.py execute_map_action: the execution switch fails closed. *)
(* A request leaves only if somebody set maps.allow_execute to true,       *)
(* whatever torn, lost or half-merged config.toml the command reads.       *)
(***************************************************************************)
THEOREM SwitchFailsClosed == Spec => []SentOnlyIfEnabled
<1>1. MInv => SentOnlyIfEnabled
  BY DEF MInv, CommandOK, Sends, SentOnlyIfEnabled
<1>2. QED
  BY <1>1, AlwaysMInv, PTL

(***************************************************************************)
(* maps/executor.py: no service is given the token of another one,         *)
(* whatever is written into config.toml between the reads.                 *)
(***************************************************************************)
THEOREM TokensStayHome == Spec => []TokenOfItsService
<1>1. ASSUME NEW c, is_supported_execution(c.flow)
      PROVE  NamedFor[c.flow[1]] = TokenKey(c.flow[1])
  BY <1>1 DEF is_supported_execution, NamedFor, TokenKey
<1>2. MInv => TokenOfItsService
  BY <1>1 DEF MInv, CommandOK, Sends, TokenOK, TokenOfItsService
<1>3. QED
  BY <1>2, AlwaysMInv, PTL

(***************************************************************************)
(* cli/main.py, the act command: a row says success only of a request that *)
(* was accepted, or of a dry run, and failure only of one that was         *)
(* rejected or never left; one whose answer is not known has no row.       *)
(***************************************************************************)
THEOREM RowsTellTheTruth == Spec => []RowsTruthful
<1>1. MInv => RowsTruthful
  BY DEF MInv, CommandOK, Tells, RowsTruthful
<1>2. QED
  BY <1>1, AlwaysMInv, PTL

-------------------------------------------------------------------------------
(***************************************************************************)
(* The command implements ExecutionGate.                                   *)
(***************************************************************************)
DryRunsOf == {c \in Commands : c.mode = "dry_run"}
EnabledNow == <<"maps.allow_execute", "true">> \in asked

GateReport(c, r) ==
  /\ rows[c] = "none"
  /\ r = "success" => answer[c] = "accepted" \/ c \in DryRunsOf
  /\ r = "failed" => answer[c] = "rejected" \/ remote[c] = 0
  /\ rows' = [rows EXCEPT ![c] = r]
  /\ EnabledNow' = EnabledNow /\ remote' = remote /\ answer' = answer

GateStep ==
  \/ EnabledNow' = TRUE /\ UNCHANGED <<remote, answer, rows>>
  \/ \E c \in Commands :
       /\ EnabledNow /\ c \notin DryRunsOf
       /\ remote[c] = 0 /\ rows[c] = "none"
       /\ remote' = [remote EXCEPT ![c] = 1]
       /\ EnabledNow' = EnabledNow /\ answer' = answer /\ rows' = rows
  \/ \E c \in Commands, status \in {"accepted", "rejected"} :
       /\ remote[c] = 1 /\ answer[c] = "none" /\ rows[c] = "none"
       /\ answer' = [answer EXCEPT ![c] = status]
       /\ EnabledNow' = EnabledNow /\ remote' = remote /\ rows' = rows
  \/ \E c \in Commands, r \in {"success", "failed"} : GateReport(c, r)
  \/ EnabledNow' = EnabledNow /\ UNCHANGED <<remote, answer, rows>>

LEMMA FinishReports ==
  ASSUME MInv, NEW c \in Commands, NEW outcome \in {"success", "failed"},
         FinishWith(c, outcome), ~At(c, "done"), Tells(c, outcome),
         UNCHANGED <<remote, answer, configVars>>
  PROVE  GateStep
<1>1. rows[c] = "none" /\ EnabledNow' = EnabledNow /\ rows \in [Commands -> {"none", "success", "failed"}]
  BY DEF MInv, TypeOK, CommandOK, At, EnabledNow, configVars, configHistory
<1>2. rows' = [rows EXCEPT ![c] = outcome] \/ rows' = rows
  BY <1>1 DEF FinishWith
<1>3. QED
  BY <1>1, <1>2 DEF GateStep, GateReport, DryRunsOf, Tells

LEMMA StepThroughGate == ASSUME MInv, [Next]_allVars PROVE GateStep
<1>1. CASE UNCHANGED <<remote, answer, rows, configVars>>
  BY <1>1 DEF GateStep, EnabledNow, configVars, configHistory
<1>2. CASE ConfigStep
  BY <1>2, AskedGrows DEF ConfigStep, GateStep, EnabledNow
<1>3. ASSUME NEW c \in Commands, Plan(c) PROVE GateStep
  <2>1. ~At(c, "done") /\ remote[c] = 0 /\ UNCHANGED <<remote, answer, configVars>>
    BY <1>3 DEF Plan, At, MInv, CommandOK
  <2>2. \/ UNCHANGED rows
        \/ FinishWith(c, "failed")
        \/ c.mode = "dry_run" /\ FinishWith(c, "success")
    BY <1>3 DEF Plan, Abort
  <2>3. QED
    BY <1>1, <2>1, <2>2, FinishReports DEF Tells
<1>4. ASSUME NEW c \in Commands, CheckPolicy(c) \/ execute_map_action(c) PROVE GateStep
  <2>1. ~At(c, "done") /\ remote[c] = 0 /\ UNCHANGED <<remote, answer, configVars>>
    BY <1>4 DEF CheckPolicy, execute_map_action, At, MInv, CommandOK
  <2>2. UNCHANGED rows \/ FinishWith(c, "failed")
    BY <1>4 DEF CheckPolicy, execute_map_action, WithToken, Abort
  <2>3. QED
    BY <1>1, <2>1, <2>2, FinishReports DEF Tells
<1>5. ASSUME NEW c \in Commands, Request(c) PROVE GateStep
  <2>1. EnabledNow /\ c \notin DryRunsOf /\ remote[c] = 0 /\ rows[c] = "none"
    BY <1>5 DEF Request, At, MInv, CommandOK, Sends, EnabledNow, DryRunsOf
  <2>2. remote' = [remote EXCEPT ![c] = 1] /\ UNCHANGED <<answer, rows>> /\ EnabledNow' = EnabledNow
    BY <1>5, <2>1 DEF Request, EnabledNow, configVars, configHistory
  <2>3. QED
    BY <2>1, <2>2 DEF GateStep
<1>6. ASSUME NEW c \in Commands, NEW status \in {"accepted", "rejected"}, Answer(c, status)
      PROVE  GateStep
  <2>1. remote[c] = 1 /\ answer[c] = "none" /\ rows[c] = "none"
    BY <1>6 DEF Answer, At, MInv, CommandOK
  <2>2. QED
    BY <1>6, <2>1 DEF Answer, GateStep, EnabledNow, configVars, configHistory
<1>7. ASSUME NEW c \in Commands, Log(c) PROVE GateStep
  <2>1. ~At(c, "done") /\ UNCHANGED <<remote, answer, configVars>>
    BY <1>7 DEF Log, At
  <2>2. \/ UNCHANGED rows
        \/ answer[c] = "accepted" /\ FinishWith(c, "success")
        \/ answer[c] = "rejected" /\ FinishWith(c, "failed")
    BY <1>7 DEF Log, Abort
  <2>3. QED
    BY <1>1, <2>1, <2>2, FinishReports DEF Tells
<1>8. ASSUME NEW c \in Commands,
             Start(c) \/ Killed(c) \/ ConnectionFails(c) \/ AnswerLost(c)
      PROVE  GateStep
  BY <1>1, <1>8 DEF Start, Killed, ConnectionFails, AnswerLost, Abort
<1>9. CASE UNCHANGED allVars \/ initialize_database
  BY <1>1, <1>9 DEF allVars, actVars, initialize_database
<1>10. QED
  BY <1>2, <1>3, <1>4, <1>5, <1>6, <1>7, <1>8, <1>9 DEF Next, ActStep

(***************************************************************************)
(* maps/executor.py and the act command implement ExecutionGate: at most   *)
(* one request, only once execution was enabled, at most one answer, and   *)
(* at most one row, after the answer it reports.                           *)
(***************************************************************************)
THEOREM ActImplementsGate == Spec => GateSpec
<1>1. Init => Gate!Init
  BY DEF Init, Gate!Init
<1>2. GateStep => [Gate!Next]_Gate!gateVars
  BY DEF GateStep, GateReport, EnabledNow, DryRunsOf, Gate!Next, Gate!Enable, Gate!Send,
     Gate!Answer, Gate!Report, Gate!gateVars
<1>3. MInv /\ [Next]_allVars => [Gate!Next]_Gate!gateVars
  BY <1>2, StepThroughGate
<1>4. QED
  BY <1>1, <1>3, AlwaysMInv, PTL DEF Spec, GateSpec, Gate!Spec

-------------------------------------------------------------------------------
(***************************************************************************)
(* One command after the other.  While `config` commands are alone, a      *)
(* command of `act` finds config.toml as the user wanted it, and it stays  *)
(* so from the policy check to the request.                                *)
(***************************************************************************)
UnderWay(c) == act[c].pc \notin {"ready", "done"}

Cleared(c) ==
  /\ act[c].pc \in {"execute", "send"} => wanted["rules.map_execute"] # "block"
  /\ act[c].pc = "send" => wanted["maps.allow_execute"] = "true"

TInv == ~crowded =>
  /\ InTurn
  /\ (\E c \in Commands : UnderWay(c)) => \A w \in Setters : setter[w] = Resting
  /\ \A c \in Commands : Cleared(c)

LEMMA SameTurn == InTurn /\ UNCHANGED configVars => InTurn'
BY DEF InTurn, OneByOne, AsWanted, TurnOK, configVars, configHistory

\* A policy of block, wanted and read back, blocks.
LEMMA BlockBlocks ==
  ASSUME load_config_data(file) = wanted, wanted["rules.map_execute"] = "block"
  PROVE  DecisionFor("map.execute") = "blocked"
<1>1. Setting(file, "rules.map_execute") = "block"
  BY ActKeysAssumption DEF Setting
<1>2. "map.execute" \in ConfigurableTypes /\ ACTION_FIELD_MAP["map.execute"] = "map_execute"
  BY DEF ConfigurableTypes, ACTION_FIELD_MAP
<1>3. "map_execute" \in RuleKeys /\ RuleConfigKey["map_execute"] = "rules.map_execute"
  BY <1>2 DEF RuleKeys, RuleConfigKey
<1>4. load_config(file).rules["map_execute"] = "block"
  BY <1>1, <1>3 DEF load_config, as_valid_rule_policy, PolicyNames
<1>5. explain_policy("map.execute", load_config(file)).policy = BLOCK
  BY <1>2, <1>4 DEF explain_policy, POLICY_MAP, PolicyNames, Unset
<1>6. QED
  BY <1>5 DEF DecisionFor, decision_for_policy, DECISION_MAP, Policies, AUTO, SNAPSHOT, REVIEW, BLOCK

LEMMA SwitchIsWanted ==
  ASSUME load_config_data(file) = wanted, load_config(file).allow_execute
  PROVE  wanted["maps.allow_execute"] = "true"
BY ActKeysAssumption DEF load_config, Setting

\* What a command under way reads, as long as nobody else is.
LEMMA ReadsWanted ==
  ASSUME TInv, ~crowded, NEW c \in Commands, UnderWay(c), Readable(file)
  PROVE  load_config_data(file) = wanted
BY DEF TInv, InTurn, AsWanted

LEMMA OneClearedOK ==
  ASSUME TInv, NEW c \in Commands, UNCHANGED <<crowded, configVars>>, UnderWay(c),
         \A d \in Commands \ {c} : act'[d] = act[d], ~crowded => Cleared(c)'
  PROVE  TInv'
<1> SUFFICES ASSUME ~crowded' PROVE TInv'
  BY DEF TInv
<1>1. ~crowded /\ InTurn /\ (\A w \in Setters : setter[w] = Resting) /\ \A d \in Commands : Cleared(d)
  BY DEF TInv
<1>2. InTurn' /\ (\A w \in Setters : setter'[w] = Resting) /\ wanted' = wanted
  BY <1>1, SameTurn DEF configVars, configHistory
<1>3. \A d \in Commands : Cleared(d)'
  BY <1>1, <1>2 DEF Cleared
<1>4. QED
  BY <1>2, <1>3 DEF TInv

-------------------------------------------------------------------------------
LEMMA StartInTurn == ASSUME MInv, TInv, NEW c \in Commands, Start(c) PROVE TInv'
<1> SUFFICES ASSUME ~crowded' PROVE TInv'
  BY DEF TInv
<1>1. ~crowded /\ (\A w \in Setters : setter[w] = Resting) /\ UNCHANGED configVars
      /\ act[c].pc = "ready"
  BY DEF Start, At
<1>2. InTurn' /\ (\A w \in Setters : setter'[w] = Resting) /\ wanted' = wanted
  BY <1>1, SameTurn DEF TInv, configVars, configHistory
<1>3. \A d \in Commands : act'[d].pc = act[d].pc \/ act'[d].pc = "plan"
  <2>1. act \in [Commands -> Acts]
        /\ act' = [act EXCEPT ![c] = [act[c] EXCEPT !.pc = "plan", !.logs = database # "none"]]
    BY DEF MInv, TypeOK, Acts, Start
  <2>2. [act[c] EXCEPT !.pc = "plan", !.logs = database # "none"].pc = "plan"
    BY <2>1 DEF Acts
  <2>3. QED
    BY <2>1, <2>2
<1>4. \A d \in Commands : Cleared(d)'
  BY <1>1, <1>2, <1>3 DEF TInv, Cleared
<1>5. QED
  BY <1>2, <1>4 DEF TInv

LEMMA EndingInTurn ==
  ASSUME MInv, TInv, NEW c \in Commands,
         NEW pc \in {"policy", "answer", "log", "done"}, MovedTo(c, pc),
         UnderWay(c), UNCHANGED <<crowded, configVars>>
  PROVE  TInv'
BY OneClearedOK DEF MovedTo, Cleared

LEMMA PlanInTurn == ASSUME MInv, TInv, NEW c \in Commands, Plan(c) PROVE TInv'
<1>1. UnderWay(c) /\ UNCHANGED <<crowded, configVars>>
  BY DEF Plan, At, UnderWay
<1>2. MovedTo(c, "done") \/ MovedTo(c, "policy")
  BY MoveEffect DEF Plan, FinishWith, Abort, MInv
<1>3. QED
  BY <1>1, <1>2, EndingInTurn

LEMMA CheckPolicyInTurn == ASSUME MInv, TInv, NEW c \in Commands, CheckPolicy(c) PROVE TInv'
<1>1. UnderWay(c) /\ UNCHANGED <<crowded, configVars>> /\ wanted' = wanted
  BY DEF CheckPolicy, At, UnderWay, configVars, configHistory
<1>2. \/ MovedTo(c, "done")
      \/ MovedTo(c, "execute") /\ Readable(file) /\ DecisionFor("map.execute") # "blocked"
  BY MoveEffect DEF CheckPolicy, FinishWith, Abort, MInv
<1>3. CASE /\ MovedTo(c, "execute") /\ Readable(file) /\ DecisionFor("map.execute") # "blocked"
  <2>1. ~crowded => wanted["rules.map_execute"] # "block"
    BY <1>1, <1>3, ReadsWanted, BlockBlocks
  <2>2. ~crowded => Cleared(c)'
    BY <1>1, <1>3, <2>1 DEF MovedTo, Cleared
  <2>3. QED
    BY <1>1, <1>3, <2>2, OneClearedOK DEF MovedTo
<1>4. QED
  BY <1>1, <1>2, <1>3, EndingInTurn

LEMMA ExecuteInTurn == ASSUME MInv, TInv, NEW c \in Commands, execute_map_action(c) PROVE TInv'
<1>1. UnderWay(c) /\ UNCHANGED <<crowded, configVars>> /\ wanted' = wanted /\ act[c].pc = "execute"
  BY DEF execute_map_action, At, UnderWay, configVars, configHistory
<1>2. \/ MovedTo(c, "done")
      \/ SentOn(c) /\ Readable(file) /\ load_config(file).allow_execute
  BY MoveEffect, FinishEffect, WithTokenEffect
     DEF execute_map_action, FinishWith, Abort, MInv, Ended
<1>3. CASE SentOn(c) /\ Readable(file) /\ load_config(file).allow_execute
  <2>1. ~crowded => wanted["maps.allow_execute"] = "true"
    BY <1>1, <1>3, ReadsWanted, SwitchIsWanted
  <2>2. ~crowded => Cleared(c)'
    BY <1>1, <1>3, <2>1 DEF SentOn, Cleared, TInv
  <2>3. QED
    BY <1>1, <1>3, <2>2, OneClearedOK DEF SentOn
<1>4. QED
  BY <1>1, <1>2, <1>3, EndingInTurn

LEMMA EndingStepsInTurn ==
  ASSUME MInv, TInv, NEW c \in Commands,
         \/ Request(c) \/ ConnectionFails(c) \/ AnswerLost(c) \/ Log(c) \/ Killed(c)
         \/ \E status \in {"accepted", "rejected"} : Answer(c, status)
  PROVE  TInv'
<1>1. UnderWay(c) /\ UNCHANGED <<crowded, configVars>>
  BY DEF Request, ConnectionFails, Answer, AnswerLost, Log, Killed, At, UnderWay
<1>2. MovedTo(c, "done") \/ MovedTo(c, "answer") \/ MovedTo(c, "log")
  BY MoveEffect DEF Request, ConnectionFails, Answer, AnswerLost, Log, Killed, FinishWith, Abort, MInv
<1>3. QED
  BY <1>1, <1>2, EndingInTurn

(***************************************************************************)
(* A `config` command that is alone, and is not cut short.                 *)
(***************************************************************************)
LEMMA AloneIsOneByOne == ASSUME Alone' PROVE OneByOne'
<1> DEFINE Busy == {w \in Setters : setter[w] # Resting}'
<1>1. IsFiniteSet(Busy)
  BY SettersAssumption, FS_Subset
<1>2. Cardinality(Busy) <= 1 /\ Cardinality(Busy) \in Nat
  BY <1>1, FS_CardinalityType DEF Alone
<1>3. ASSUME NEW w \in Busy, NEW x \in Busy, w # x PROVE FALSE
  <2>1. {w, x} \subseteq Busy
    OBVIOUS
  <2>2. Cardinality({w, x}) <= Cardinality(Busy)
    BY <1>1, <2>1, FS_Subset
  <2>3. Cardinality({w, x}) = 2
    <3>1. IsFiniteSet({w}) /\ Cardinality({w}) = 1
      BY FS_Singleton
    <3>2. Cardinality({w} \cup {x}) = Cardinality({w}) + 1
      BY <1>3, <3>1, FS_AddElement
    <3>3. QED
      BY <3>1, <3>2
  <2>4. QED
    BY <1>2, <2>2, <2>3
<1>4. QED
  BY <1>3 DEF OneByOne

LEMMA ConfigInTurn == ASSUME MInv, TInv, ConfigStep PROVE TInv'
<1> SUFFICES ASSUME ~crowded' PROVE TInv'
  BY DEF TInv
<1>1. ~crowded /\ Alone' /\ configFaults' = configFaults /\ ConfigNext
  BY DEF ConfigStep
<1>2. InTurn'
  BY <1>1, AloneIsOneByOne, StepInTurn DEF MInv, TInv
<1>3. \A c \in Commands : act'[c].pc \in {"ready", "done"}
  BY <1>1 DEF Alone
<1>4. QED
  BY <1>2, <1>3 DEF TInv, UnderWay, Cleared

LEMMA InitTInv == Init => TInv
BY InitInTurn DEF Init, Ready, TInv, UnderWay, Cleared

LEMMA NextTInv == MInv /\ TInv /\ [Next]_allVars => TInv'
<1> SUFFICES ASSUME MInv, TInv, [Next]_allVars PROVE TInv'
  OBVIOUS
<1>1. CASE UNCHANGED <<act, crowded, configVars>>
  BY <1>1, SameTurn DEF TInv, UnderWay, Cleared, configVars, configHistory
<1>2. CASE UNCHANGED allVars \/ initialize_database
  BY <1>1, <1>2 DEF allVars, actVars, initialize_database
<1>3. QED
  BY <1>2, StartInTurn, PlanInTurn, CheckPolicyInTurn, ExecuteInTurn, EndingStepsInTurn,
     ConfigInTurn DEF Next, ActStep

LEMMA AlwaysTInv == Spec => [](MInv /\ TInv)
BY InitMInv, InitTInv, NextMInv, NextTInv, PTL DEF Spec

(***************************************************************************)
(* core/config.py: one `config` command after the other, every key has     *)
(* the value it was given last.                                            *)
(***************************************************************************)
THEOREM OneAfterTheOtherAsWanted == Spec => []AloneAsWanted
<1>1. TInv => AloneAsWanted
  BY DEF TInv, InTurn, AloneAsWanted
<1>2. QED
  BY <1>1, AlwaysTInv, PTL

(***************************************************************************)
(* The act command: as long as `config` commands meet neither each other   *)
(* nor an `act`, a request leaves only while execution is what the user    *)
(* asked for last, and block is not the policy he asked for last.          *)
(***************************************************************************)
THEOREM RequestsAsConfigured == Spec => SentAsConfigured
<1>1. ASSUME MInv, TInv, [Next]_allVars, NEW c \in Commands, ~crowded, remote'[c] # remote[c]
      PROVE  wanted["maps.allow_execute"] = "true" /\ wanted["rules.map_execute"] # "block"
  <2>1. PICK d \in Commands : Request(d)
    BY <1>1 DEF Next, ActStep, allVars, actVars, initialize_database, Start, Plan, CheckPolicy,
       execute_map_action, ConnectionFails, Answer, AnswerLost, Log, Killed, ConfigStep
  <2>2. c = d
    BY <1>1, <2>1 DEF Request, MInv, TypeOK
  <2>3. QED
    BY <1>1, <2>1, <2>2 DEF Request, At, TInv, Cleared
<1>2. MInv /\ TInv /\ [Next]_allVars =>
        [\A c \in Commands : ~crowded /\ remote'[c] # remote[c] =>
            wanted["maps.allow_execute"] = "true" /\ wanted["rules.map_execute"] # "block"]_allVars
  BY <1>1
<1>3. QED
  BY <1>2, AlwaysTInv, PTL DEF Spec, SentAsConfigured

===============================================================================
