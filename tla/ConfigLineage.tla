---------------------------- MODULE ConfigLineage -----------------------------
(***************************************************************************)
(* ConfigStore with two history variables, which remember for each command *)
(* under way the configurations that readers could find since it began,    *)
(* and not from its own hand, and the texts that others wrote since then.  *)
(* With them, ConfigStore implements ConfigRegister: every text that is    *)
(* written descends from one of the first, and what is left behind it      *)
(* comes from the second.                                                  *)
(***************************************************************************)
EXTENDS ConfigStore

VARIABLES base, made
lineageVars == <<configVars, base, made>>

\* What a command that loads the file finds, as far as the program knows the keys.
Known(text) == [k \in Keys |-> text[k]]
Found(f)    == IF Readable(f) THEN Known(load_config_data(f)) ELSE Unreadable
Reading     == Found(file)

\* Only the command that takes the step changes its stage.  Of its own hand it reads
\* nothing but the new file it has filled.
Observed(v) ==
  IF setter'[v] = Resting THEN {}
  ELSE IF setter[v] = Resting THEN {Reading}
  ELSE IF setter'[v] = setter[v]
  THEN IF Reading' # Reading THEN base[v] \cup {Reading'} ELSE base[v]
  ELSE IF setter[v].pc = "fill" THEN base[v] \cup {Reading'} ELSE base[v]

\* The texts that a step writes.
TextOf(s) == IF s.pc = "fill" THEN DEFAULT_CONFIG_TEXT ELSE s.data
Writing   == {w \in Setters : /\ setter[w].pc \in {"fill", "write"}
                              /\ setter'[w] # setter[w] /\ configFaults' = configFaults}
Written   == {Known(TextOf(setter[w])) : w \in Writing}

Witnessed(v) ==
  IF setter'[v] = Resting \/ setter[v] = Resting THEN {}
  ELSE IF setter'[v] # setter[v] THEN made[v] ELSE made[v] \cup Written

LineageInit == ConfigInit /\ base = [w \in Setters |-> {}] /\ made = [w \in Setters |-> {}]
LineageNext == /\ ConfigNext
               /\ base' = [v \in Setters |-> Observed(v)]
               /\ made' = [v \in Setters |-> Witnessed(v)]
LineageSpec == LineageInit /\ [][LineageNext]_lineageVars

-------------------------------------------------------------------------------
\* What the command line of a command asks for: one key, or all of them.
RequestOf(s) == IF s = Resting THEN Resting
                ELSE IF s.key = Unset THEN Known(s.data) ELSE [k \in {s.key} |-> s.value]

Register ==
  INSTANCE ConfigRegister WITH
    Clients   <- Setters,
    Requests  <- {[k \in {o[1]} |-> o[2]] : o \in Offered}
                   \cup {Known(RESET_CONFIG_TEXT)}
                   \cup {Known(CONFIG_PROFILES(name)) : name \in Profiles},
    NoRequest <- Resting,
    Starts    <- {Found(f) : f \in InitialFiles},
    NoValue   <- Unset,
    Defaults  <- Found(Missing),
    NewText   <- Known(DEFAULT_CONFIG_TEXT),
    Broken    <- Unreadable,
    config    <- Reading,
    request   <- [w \in Setters |-> RequestOf(setter[w])]

(***************************************************************************)
(* However `config` commands race, die and write into each other, each of  *)
(* them takes effect at most once, on a configuration that was there since *)
(* it began, and every key it has a value of gets that value.  What can    *)
(* stand beside it is only what others wrote while it was under way, for   *)
(* keys its own text leaves open; none brings back a configuration from    *)
(* before its time, or changes the file after it is done.                  *)
(***************************************************************************)
RegisterSpec == Register!Spec

===============================================================================
