------------------------------- MODULE Timeline --------------------------------
(***************************************************************************)
(* The order of the log.  FileActions with the one thing it leaves out:    *)
(* the time each row carries, and the commands that go by it: `runewall    *)
(* log` shows a page of rows in the order of their timestamps, `runewall   *)
(* rollback --last` undoes the row whose timestamp is the greatest.        *)
(*                                                                         *)
(* An Action takes its timestamp when it is made, before its snapshot and  *)
(* its row, as text in ISO format.  datetime.isoformat leaves the fraction *)
(* out when it is zero, and the text "...:07Z" comes after "...:07.25Z":   *)
(* a row made on the full second sorts as the last of that second.  The    *)
(* id decides between equal timestamps; ids are random, so either may.     *)
(*                                                                         *)
(* `runewall read URL` adds rows of its own, for which there is nothing to *)
(* roll back.                                                              *)
(***************************************************************************)
EXTENDS FileActions

CONSTANTS Reads,      \* runs of `runewall read`
          PerSecond,  \* instants of the clock in one second
          PageSize,   \* LIMIT of list_actions: 50
          MaxClock    \* bound: how long the log is observed

ASSUME ClockAssumption == PerSecond \in Nat \ {0} /\ MaxClock \in Nat
ASSUME ReadsAssumption == None \notin Reads /\ Reads \cap Actions = {}

VARIABLES
  database,  \* runewall.db exists
  clock,     \* now; it never goes back
  stamp,     \* the time each action or read row was made
  reads,     \* where each read is: "fetching" with or without a log, its row, or its end
  byLast,    \* processes whose rollback is a `rollback --last`
  latest     \* history: the action let through last

timeVars     == <<database, clock, stamp, reads, byLast, latest>>
timelineVars == <<vars, timeVars>>

ReadStates == {"none", "fetching", "fetching_unlogged", "logged", "unlogged"}

-------------------------------------------------------------------------------
\* The rows of the actions table.
Logged == {a \in Actions : status[a] # "absent"}
          \cup {r \in Reads : reads[r] = "logged"}

Second(t)   == t \div PerSecond
OnSecond(t) == t % PerSecond = 0

\* What the text of a time is compared by.
utc_now_iso(t) ==
  [second |-> Second(t), fraction |-> IF OnSecond(t) THEN PerSecond ELSE t % PerSecond]

NoLater(x, y) ==
  LET s == utc_now_iso(stamp[x])  t == utc_now_iso(stamp[y]) IN
  s.second < t.second \/ (s.second = t.second /\ s.fraction <= t.fraction)

\* Variant: ORDER BY timestamp ASC.
get_first_action == {x \in Logged : \A y \in Logged : NoLater(x, y)}

\* The row that ORDER BY timestamp DESC, id DESC LIMIT 1 gives: one of these.
get_last_action == {x \in Logged : \A y \in Logged : NoLater(y, x)}

\* The rows that ORDER BY timestamp ASC, id ASC LIMIT PageSize gives: one of
\* these sets.
list_actions ==
  {page \in SUBSET Logged :
     /\ Cardinality(page) = IF Cardinality(Logged) < PageSize THEN Cardinality(Logged) ELSE PageSize
     /\ \A x \in page, y \in Logged \ page : NoLater(x, y)}

-------------------------------------------------------------------------------
TimelineInit ==
  /\ Init
  /\ database \in BOOLEAN
  /\ clock = 0
  /\ stamp = [x \in Actions \cup Reads |-> 0]
  /\ reads = [r \in Reads |-> "none"]
  /\ byLast = {}
  /\ latest = None

\* Actions made in this step; a row of theirs may follow later, or never.
Made == Submitted' \ Submitted

LetThroughNow == {a \in Actions : \E w \in Workers :
  /\ proc'[w].act = a
  /\ \/ proc'[w].pc = "body" /\ proc[w].pc # "body"
     \/ proc'[w].pc = "succeed" /\ proc[w].pc = "unlink"}

\* Every with-block opens the log with ActionLog(), which creates it; whatever
\* the other steps of FileActions do, there is a row before them.
Dated ==
  /\ clock' \in IF Made = {} THEN {clock} ELSE clock .. MaxClock
  /\ stamp' = [x \in Actions \cup Reads |-> IF x \in Made THEN clock' ELSE stamp[x]]
  /\ database' = (database \/ Made # {})
  /\ latest' = IF LetThroughNow = {} THEN latest ELSE CHOOSE a \in LetThroughNow : TRUE
  /\ byLast' = byLast \cap {w \in Workers : proc'[w] # Idle}
  /\ UNCHANGED reads

FileStep == Next /\ Dated

(***************************************************************************)
(* rollback --last: the newest row, then rollback of its id as any other.  *)
(* The two reads it begins with are one step.  It does not come to a       *)
(* restore when the newest row has nothing to roll back: a read, or an     *)
(* action that was held.                                                   *)
(***************************************************************************)
RollbackLast(w) ==
  /\ \E a \in get_last_action \cap Actions : Rollback(w, a)
  /\ byLast' = byLast \cup {w}
  /\ UNCHANGED <<database, clock, stamp, reads, latest>>

\* `runewall init`, `log` and `rollback` create the database too.
OpenLog ==
  /\ ~database /\ database' = TRUE
  /\ UNCHANGED <<vars, clock, stamp, reads, byLast, latest>>

\* `runewall read`: the log is looked for before the page is fetched.
ReadUrl(r) ==
  /\ reads[r] = "none"
  /\ reads' = [reads EXCEPT ![r] = IF database THEN "fetching" ELSE "fetching_unlogged"]
  /\ UNCHANGED <<vars, database, clock, stamp, byLast, latest>>

\* Variant: the row is written wherever the log then is, after the page was fetched.
ReadEndsLogging(r) ==
  /\ reads[r] \in {"fetching", "fetching_unlogged"}
  /\ reads' = [reads EXCEPT ![r] = "logged"]
  /\ clock' \in clock .. MaxClock
  /\ stamp' = [stamp EXCEPT ![r] = clock']
  /\ UNCHANGED <<vars, database, byLast, latest>>

\* Any exception, of the network or of the page, makes it a failed read; there
\* is a row either way, if there was a log.
ReadEnds(r) ==
  /\ \/ /\ reads[r] = "fetching"
        /\ reads' = [reads EXCEPT ![r] = "logged"]
        /\ clock' \in clock .. MaxClock
        /\ stamp' = [stamp EXCEPT ![r] = clock']
     \/ /\ reads[r] = "fetching_unlogged"
        /\ reads' = [reads EXCEPT ![r] = "unlogged"]
        /\ UNCHANGED <<clock, stamp>>
  /\ UNCHANGED <<vars, database, byLast, latest>>

TimelineNext ==
  \/ FileStep
  \/ \E w \in Workers : RollbackLast(w)
  \/ OpenLog
  \/ \E r \in Reads : ReadUrl(r) \/ ReadEnds(r)

TimelineSpec == TimelineInit /\ [][TimelineNext]_timelineVars

-------------------------------------------------------------------------------
TimelineTypeOK ==
  /\ database \in BOOLEAN
  /\ clock \in 0 .. MaxClock
  /\ stamp \in [Actions \cup Reads -> 0 .. MaxClock]
  /\ reads \in [Reads -> ReadStates]
  /\ byLast \subseteq {w \in Workers : proc[w].op = "rollback"}
  /\ latest \in Actions \cup {None}
  /\ Logged # {} => database

(***************************************************************************)
(* With one process at a time and nobody dying, `rollback --last` undoes   *)
(* what was done last: the action it picks is the one that was let through *)
(* last, and its file gets the content it had before that.  The code makes *)
(* four exceptions: an action that was approved and executed after a newer *)
(* one was made; a newer action of the second that one was made on the     *)
(* full stroke of; equal timestamps; and a file created over another one.  *)
(***************************************************************************)
UndoLast ==
  [][\A w \in byLast : proc[w].pc = "restore" /\ proc'[w].pc = "mark" =>
       LET a == proc[w].act IN
       /\ \/ latest = a
          \/ latest \in granted /\ stamp[latest] <= stamp[a]
          \/ Second(stamp[latest]) = Second(stamp[a]) /\ OnSecond(stamp[a])
          \/ stamp[latest] = stamp[a]
       /\ disk'[a.target] = before[a]
          \/ (a.action_type = "file.create" /\ disk'[a.target] = NoFile)]_timelineVars

(***************************************************************************)
(* "runewall log: Action timeline (most recent first)": the most recent    *)
(* row is among those it shows.                                            *)
(***************************************************************************)
LogShowsNewest ==
  \A page \in list_actions : \A x \in Logged :
    (\A y \in Logged \ {x} : stamp[y] < stamp[x]) => x \in page

===============================================================================
