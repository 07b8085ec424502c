---------------------------- MODULE TimelineProofs -----------------------------
(***************************************************************************)
(* Theorems about Timeline: it adds a clock to FileActions and takes       *)
(* nothing away, so that every theorem about FileActions is one about it;  *)
(* and what `runewall rollback --last` undoes.                             *)
(***************************************************************************)
EXTENDS Timeline, FileActionsLogProofs

(***************************************************************************)
(* A log has been opened by the time there is anything to read in it, or   *)
(* anything on its way there.                                              *)
(***************************************************************************)
Opened == Submitted # {} \/ (\E r \in Reads : reads[r] \in {"fetching", "logged"}) => database

OpenInv == TimelineTypeOK /\ Opened

(***************************************************************************)
(* How the times, the log and what was done fit together while one process *)
(* is at work at a time.  The clock only goes forward, so the action of an *)
(* open with-block is the newest one; only an action that was approved     *)
(* can be let through after a newer one was.                               *)
(***************************************************************************)
Past == \A x \in Actions \cup Reads : stamp[x] <= clock

BlockIsNewest == \A w \in Workers : proc[w].op = "protect" =>
                   \A a \in Submitted : stamp[a] <= stamp[proc[w].act]

LatestDone == /\ entered # {} => latest \in entered
              /\ \A a \in entered : stamp[a] <= stamp[latest] \/ latest \in granted

\* How far `rollback --last` may be off: the four exceptions, as UndoLast has them.
LastOf(a) == \/ latest = a
             \/ latest \in granted /\ stamp[latest] <= stamp[a]
             \/ Second(stamp[latest]) = Second(stamp[a]) /\ OnSecond(stamp[a])
             \/ stamp[latest] = stamp[a]

\* A `rollback --last` that is about to restore its file.
Undoes(w) == LET a == proc[w].act IN
  /\ a \in entered /\ LastOf(a)
  /\ snapshots[a] # <<>> /\ proc[w].snap = get_latest_snapshot_for_action(a)

Undoing == \A w \in byLast : proc[w].pc = "restore" => Undoes(w)

UndoInv == Past /\ BlockIsNewest /\ LatestDone /\ Undoing

-------------------------------------------------------------------------------
LEMMA NextIsDated == [TimelineNext]_timelineVars => [Next]_vars
<1>1. ASSUME NEW w \in Workers, RollbackLast(w) PROVE Next
  BY <1>1 DEF RollbackLast, Next, Command
<1>2. QED
  BY <1>1 DEF TimelineNext, FileStep, OpenLog, ReadUrl, ReadEnds, timelineVars

(***************************************************************************)
(* Timeline is FileActions with a clock: each of its steps, `rollback      *)
(* --last` and `read` too, is a step of FileActions or leaves all of it    *)
(* alone.  What is proved of Spec holds of TimelineSpec.                   *)
(***************************************************************************)
THEOREM TimelineImplements == TimelineSpec => Spec
<1>1. TimelineInit => Init
  BY DEF TimelineInit
<1>2. QED
  BY <1>1, NextIsDated, PTL DEF TimelineSpec, Spec

(***************************************************************************)
(* What a step of FileActions does to the processes: one that is at work   *)
(* goes on with what it began, and a with-block begins with a new action.  *)
(***************************************************************************)
LEMMA GoesOn ==
  ASSUME IInv, [Next]_vars, NEW w \in Workers, proc[w] # Idle, proc'[w] # Idle
  PROVE  /\ proc'[w].op = proc[w].op /\ proc'[w].act = proc[w].act
         /\ proc'[w].snap = proc[w].snap
<1>1. ASSUME NEW x \in Workers, Continue(x) \/ Die(x) \/ Raise(x)
      PROVE  Return(x) \/ \E pc \in Pcs : Goto(x, pc)
  BY <1>1 DEF Continue, Die, Raise, CopyFile, CopyRefused, LogAction, LogSnapshot, BodyExit,
     ExecuteLogSnapshot, update_action_snapshot_id, Unlink, UnlinkFails, ExecuteEnd, Restore,
     RestoreFails, Mark, Pcs
<1>2. ASSUME NEW x \in Workers, NEW a \in Actions, Command(x, a)
      PROVE  proc[x] = Idle /\ \A y \in Workers \ {x} : proc'[y] = proc[y]
  BY <1>2 DEF Command, ProtectAuto, ProtectSnapshot, Execute, Rollback, Free, Begin, IInv, TypeOK
<1>3. QED
  BY <1>1, <1>2, GotoEffect, ReturnEffect
  DEF Next, vars, BodyWrite, ProtectHold, Approve, Reject, GrowOld, Cleanup, OtherWrite,
      IInv, TypeOK, Moved

\* The acts of a process that is at work are among the actions submitted.
LEMMA WorkIsSubmitted ==
  ASSUME IInv
  PROVE  \A w \in Workers : proc[w] # Idle /\ proc[w].act # None => proc[w].act \in Submitted
BY DEF IInv, TypeOK, ProcRecords, Submitted

(***************************************************************************)
(* Actions are made only by a command that begins, or by one that is held; *)
(* a with-block is about an action that was made when it began.            *)
(***************************************************************************)
LEMMA NextMakes ==
  ASSUME IInv, LInv, [Next]_vars
  PROVE  /\ Made = {} \/ MayRun
         /\ \A w \in Workers : proc'[w].op = "protect" =>
              \/ proc[w].op = "protect" /\ proc'[w].act = proc[w].act
              \/ proc'[w].act \in Made
<1>1. ASSUME NEW x \in Workers, Continue(x) \/ Die(x) \/ Raise(x)
      PROVE  /\ Made = {}
             /\ \A w \in Workers : proc'[w] = Idle
                                     \/ (proc'[w].op = proc[w].op /\ proc'[w].act = proc[w].act)
  <2>1. Return(x) \/ \E pc \in Pcs : Goto(x, pc)
    BY <1>1 DEF Continue, Die, Raise, CopyFile, CopyRefused, LogAction, LogSnapshot, BodyExit,
       ExecuteLogSnapshot, update_action_snapshot_id, Unlink, UnlinkFails, ExecuteEnd, Restore,
       RestoreFails, Mark, Pcs
  <2>2. \A w \in Workers : proc'[w] = Idle
                             \/ (proc'[w].op = proc[w].op /\ proc'[w].act = proc[w].act)
    BY <2>1, GotoEffect, ReturnEffect DEF IInv, TypeOK, Moved
  <2>3. status' = status \/ \E new \in Statuses : status' = [status EXCEPT ![proc[x].act] = new]
    BY <1>1 DEF Continue, Die, Raise, CopyFile, CopyRefused, LogAction, LogSnapshot, BodyExit,
       ExecuteLogSnapshot, update_action_snapshot_id, Unlink, UnlinkFails, ExecuteEnd, Restore,
       RestoreFails, Mark, update_action_status, add_snapshot, db, Statuses
  <2>4. \A a \in Actions : status'[a] # "absent" => status[a] # "absent" \/ proc[x].act = a
    BY <2>3 DEF IInv, TypeOK
  <2>5. \A a \in Actions : a # Idle.act
    BY ActionsAssumption DEF Idle
  <2>6. QED
    BY <2>2, <2>4, <2>5 DEF Made, Submitted
<1>2. ASSUME NEW x \in Workers, NEW a \in Actions, Command(x, a)
      PROVE  /\ MayRun
             /\ \A w \in Workers \ {x} : proc'[w] = proc[w]
             /\ proc'[x].op = "protect" => proc'[x].act \in Made
  <2>1. MayRun /\ \A w \in Workers \ {x} : proc'[w] = proc[w]
    BY <1>2 DEF Command, ProtectAuto, ProtectSnapshot, Execute, Rollback, Free, Begin, IInv, TypeOK
  <2>2. proc'[x].op = "protect" => New(a) /\ proc'[x].act = a
    BY <1>2 DEF Command, ProtectAuto, ProtectSnapshot, Execute, Rollback, Begin, IInv, TypeOK
  <2>3. QED
    BY <2>1, <2>2 DEF New, Made, Submitted
<1>3. ASSUME NEW a \in Actions, ProtectHold(a) \/ Approve(a) \/ Reject(a)
      PROVE  MayRun /\ proc' = proc
  BY <1>3 DEF ProtectHold, Approve, Reject
<1>4. CASE UNCHANGED <<status, proc>>
  BY <1>4 DEF Made, Submitted
<1>5. ASSUME NEW s \in SnapIds, Cleanup(s) \/ GrowOld(s)
      PROVE  UNCHANGED <<status, proc>>
  BY <1>5 DEF Cleanup, GrowOld, db
<1>6. ASSUME NEW f \in Files, NEW v \in Contents \cup {NoFile}, OtherWrite(f, v)
      PROVE  UNCHANGED <<status, proc>>
  BY <1>6 DEF OtherWrite, db
<1>7. ASSUME NEW w \in Workers, NEW v \in Contents \cup {NoFile}, BodyWrite(w, v)
      PROVE  UNCHANGED <<status, proc>>
  BY <1>7 DEF BodyWrite, db
<1>8. Idle.op # "protect"
  BY DEF Idle
<1>9. UNCHANGED vars => UNCHANGED <<status, proc>>
  BY DEF vars, db
<1>10. CASE \E x \in Workers : Continue(x) \/ Die(x) \/ Raise(x)
  BY <1>1, <1>8, <1>10
<1>11. CASE \E x \in Workers, a \in Actions : Command(x, a)
  BY <1>2, <1>11
<1>12. CASE \E a \in Actions : ProtectHold(a) \/ Approve(a) \/ Reject(a)
  BY <1>3, <1>12
<1>13. QED
  BY <1>4, <1>5, <1>6, <1>7, <1>9, <1>10, <1>11, <1>12 DEF Next

(***************************************************************************)
(* The one action that a step lets through, if any: of a with-block, or    *)
(* approved.                                                               *)
(***************************************************************************)
LEMMA LetsOneThrough ==
  ASSUME IInv, LInv, [Next]_vars
  PROVE  \/ LetThroughNow = {} /\ entered' = entered
         \/ \E a \in Actions :
              /\ LetThroughNow = {a} /\ entered' = entered \cup {a}
              /\ a \in granted \/ \E w \in Workers : proc'[w].op = "protect" /\ proc'[w].act = a
<1> DEFINE Opens(w) == \/ proc'[w].pc = "body" /\ proc[w].pc # "body"
                       \/ proc'[w].pc = "succeed" /\ proc[w].pc = "unlink"
<1>1. ASSUME NEW w \in Workers, LogSnapshot(w) \/ Unlink(w)
      PROVE  \E a \in Actions :
               /\ LetThroughNow = {a} /\ entered' = entered \cup {a}
               /\ a \in granted \/ \E x \in Workers : proc'[x].op = "protect" /\ proc'[x].act = a
  <2>1. PICK a \in Actions : a = proc[w].act
    BY <1>1 DEF LogSnapshot, Unlink, IInv, ProcOK
  <2>2. Opens(w) /\ proc'[w].op = proc[w].op /\ proc'[w].act = a
        /\ \A x \in Workers \ {w} : proc'[x] = proc[x]
    BY <1>1, <2>1, GotoEffect DEF LogSnapshot, Unlink, Moved, Pcs, IInv, TypeOK
  <2>3. entered' = entered \cup {a} /\ (proc[w].op = "protect" \/ a \in granted)
    BY <1>1, <2>1 DEF LogSnapshot, Unlink, LetThrough, IInv, ProcOK
  <2>4. LetThroughNow = {a}
    BY <2>2 DEF LetThroughNow
  <2>5. QED
    BY <2>2, <2>3, <2>4
<1>2. ASSUME NEW w \in Workers, NEW a \in Actions, ProtectAuto(w, a)
      PROVE  /\ LetThroughNow = {a} /\ entered' = entered \cup {a}
             /\ proc'[w].op = "protect" /\ proc'[w].act = a
  <2>1. /\ proc'[w].pc = "body" /\ proc[w].pc # "body" /\ proc'[w].act = a /\ proc'[w].op = "protect"
        /\ \A x \in Workers \ {w} : proc'[x] = proc[x]
        /\ entered' = entered \cup {a}
    BY <1>2 DEF ProtectAuto, Free, Begin, Idle, LetThrough, IInv, TypeOK
  <2>2. LetThroughNow = {a}
    BY <2>1 DEF LetThroughNow
  <2>3. QED
    BY <2>1, <2>2
<1>3. ASSUME NEW w \in Workers, Return(w) \/ \E pc \in Pcs \ {"body", "succeed"} : Goto(w, pc)
      PROVE  LetThroughNow = {}
  <2>1. proc'[w].pc \notin {"body", "succeed"} /\ \A x \in Workers \ {w} : proc'[x] = proc[x]
    BY <1>3, GotoEffect, ReturnEffect DEF IInv, TypeOK, Moved, Idle
  <2>2. QED
    BY <2>1 DEF LetThroughNow
<1>4. ASSUME NEW w \in Workers, Continue(w) \/ Die(w) \/ Raise(w), ~LogSnapshot(w), ~Unlink(w)
      PROVE  LetThroughNow = {} /\ entered' = entered
  <2>1. Return(w) \/ \E pc \in Pcs \ {"body", "succeed"} : Goto(w, pc)
    BY <1>4 DEF Continue, Die, Raise, CopyFile, CopyRefused, LogAction, BodyExit,
       ExecuteLogSnapshot, update_action_snapshot_id, UnlinkFails, ExecuteEnd, Restore,
       RestoreFails, Mark, Pcs
  <2>2. entered' = entered
    BY <1>4 DEF Continue, Die, Raise, CopyFile, CopyRefused, LogAction, BodyExit,
       ExecuteLogSnapshot, update_action_snapshot_id, UnlinkFails, ExecuteEnd, Restore,
       RestoreFails, Mark, history
  <2>3. QED
    BY <1>3, <2>1, <2>2
<1>5. ASSUME NEW w \in Workers, NEW a \in Actions, Command(w, a), ~ProtectAuto(w, a)
      PROVE  LetThroughNow = {} /\ entered' = entered
  <2>1. /\ proc'[w].pc \notin {"body", "succeed"} /\ entered' = entered
        /\ \A x \in Workers \ {w} : proc'[x] = proc[x]
    BY <1>5 DEF Command, ProtectSnapshot, Execute, Rollback, Begin, history, IInv, TypeOK
  <2>2. QED
    BY <2>1 DEF LetThroughNow
<1>6. CASE UNCHANGED <<proc, entered>>
  BY <1>6 DEF LetThroughNow
<1>7. QED
  BY <1>1, <1>2, <1>4, <1>5, <1>6
  DEF Next, vars, history, BodyWrite, ProtectHold, Approve, Reject, GrowOld, Cleanup, OtherWrite

-------------------------------------------------------------------------------
(***************************************************************************)
(* Types.  The invariant of FileActions comes along with its steps.        *)
(***************************************************************************)
LEMMA OpenInit == TimelineInit => OpenInv
<1> SUFFICES ASSUME TimelineInit PROVE OpenInv
  OBVIOUS
<1>1. Submitted = {} /\ Logged = {}
  BY ActionsAssumption DEF TimelineInit, Init, Submitted, Logged, Idle
<1>2. TimelineTypeOK
  BY <1>1, ClockAssumption DEF TimelineInit, TimelineTypeOK, ReadStates
<1>3. Opened
  BY <1>1 DEF TimelineInit, Opened
<1>4. QED
  BY <1>2, <1>3 DEF OpenInv

LEMMA FileStepTypes ==
  ASSUME IInv, LInv, OpenInv, [Next]_vars, Dated
  PROVE  OpenInv'
<1>1. clock' \in 0 .. MaxClock /\ stamp' \in [Actions \cup Reads -> 0 .. MaxClock]
  BY ClockAssumption DEF Dated, OpenInv, TimelineTypeOK
<1>2. latest' \in Actions \cup {None}
  BY DEF Dated, OpenInv, TimelineTypeOK, LetThroughNow
<1>3. byLast' \subseteq {w \in Workers : proc'[w].op = "rollback"}
  <2> SUFFICES ASSUME NEW w \in byLast' PROVE w \in Workers /\ proc'[w].op = "rollback"
    OBVIOUS
  <2>1. w \in Workers /\ proc[w].op = "rollback" /\ proc'[w] # Idle
    BY DEF Dated, OpenInv, TimelineTypeOK
  <2>2. QED
    BY <2>1, GoesOn DEF Idle
<1>4. Submitted' # {} \/ (\E r \in Reads : reads'[r] \in {"fetching", "logged"}) => database'
  BY DEF Dated, Made, OpenInv, Opened
<1>5. Logged' # {} => database'
  BY <1>4 DEF Logged, Submitted
<1>6. database' \in BOOLEAN /\ reads' = reads
  BY DEF Dated, OpenInv, TimelineTypeOK
<1>7. QED
  BY <1>1, <1>2, <1>3, <1>4, <1>5, <1>6 DEF OpenInv, TimelineTypeOK, Opened

LEMMA OpenNext == IInv /\ LInv /\ OpenInv /\ [TimelineNext]_timelineVars => OpenInv'
<1> SUFFICES ASSUME IInv, LInv, OpenInv, [TimelineNext]_timelineVars PROVE OpenInv'
  OBVIOUS
<1>1. CASE FileStep
  BY <1>1, FileStepTypes DEF FileStep
<1>2. ASSUME NEW w \in Workers, RollbackLast(w) PROVE OpenInv'
  <2>1. PICK a \in Actions : Rollback(w, a) /\ status[a] # "absent"
    BY <1>2 DEF RollbackLast, Rollback
  <2>2. /\ status' = status /\ proc'[w].op = "rollback" /\ proc'[w].act = a
        /\ \A x \in Workers \ {w} : proc'[x] = proc[x]
    BY <2>1 DEF Rollback, Begin, db, IInv, TypeOK
  <2>3. byLast' = byLast \cup {w} /\ UNCHANGED <<database, clock, stamp, reads, latest>>
    BY <1>2 DEF RollbackLast
  <2>4. Logged' = Logged /\ Submitted' \subseteq Submitted \cup {a} /\ a \in Logged
    BY <2>1, <2>2, <2>3 DEF Logged, Submitted
  <2>5. byLast' \subseteq {x \in Workers : proc'[x].op = "rollback"}
    BY <2>2, <2>3 DEF OpenInv, TimelineTypeOK
  <2>6. QED
    BY <2>3, <2>4, <2>5 DEF OpenInv, TimelineTypeOK, Opened
<1>3. CASE OpenLog
  <2>1. UNCHANGED <<status, proc, clock, stamp, reads, byLast, latest>> /\ database' = TRUE
    BY <1>3 DEF OpenLog, vars, db
  <2>2. QED
    BY <2>1 DEF OpenInv, TimelineTypeOK, Opened, Logged, Submitted
<1>4. ASSUME NEW r \in Reads, ReadUrl(r) PROVE OpenInv'
  <2>1. UNCHANGED <<status, proc, database, clock, stamp, byLast, latest>>
    BY <1>4 DEF ReadUrl, vars, db
  <2>2. /\ reads[r] = "none"
        /\ reads' = [reads EXCEPT ![r] = IF database THEN "fetching" ELSE "fetching_unlogged"]
    BY <1>4 DEF ReadUrl
  <2>3. reads' \in [Reads -> ReadStates]
    BY <2>2 DEF OpenInv, TimelineTypeOK, ReadStates
  <2>4. Logged' = Logged /\ Opened'
    BY <2>1, <2>2 DEF OpenInv, TimelineTypeOK, Opened, Logged, Submitted
  <2>5. QED
    BY <2>1, <2>3, <2>4 DEF OpenInv, TimelineTypeOK
<1>5. ASSUME NEW r \in Reads, ReadEnds(r) PROVE OpenInv'
  <2>1. UNCHANGED <<status, proc, database, byLast, latest>>
    BY <1>5 DEF ReadEnds, vars, db
  <2>2. clock' \in 0 .. MaxClock /\ stamp' \in [Actions \cup Reads -> 0 .. MaxClock]
    BY <1>5, ClockAssumption DEF ReadEnds, OpenInv, TimelineTypeOK
  <2>3. PICK end \in {"logged", "unlogged"} :
          /\ reads' = [reads EXCEPT ![r] = end]
          /\ end = "logged" => reads[r] = "fetching"
    BY <1>5 DEF ReadEnds
  <2>4. reads' \in [Reads -> ReadStates]
    BY <2>3 DEF OpenInv, TimelineTypeOK, ReadStates
  <2>5. Opened' /\ (Logged' # {} => database')
    BY <2>1, <2>3 DEF OpenInv, TimelineTypeOK, Opened, Logged, Submitted
  <2>6. QED
    BY <2>1, <2>2, <2>4, <2>5 DEF OpenInv, TimelineTypeOK
<1>6. CASE UNCHANGED timelineVars
  <2>1. UNCHANGED <<status, proc, database, clock, stamp, reads, byLast, latest>>
    BY <1>6 DEF timelineVars, vars, db, timeVars
  <2>2. QED
    BY <2>1 DEF OpenInv, TimelineTypeOK, Opened, Logged, Submitted
<1>7. QED
  BY <1>1, <1>2, <1>3, <1>4, <1>5, <1>6 DEF TimelineNext

LEMMA OpenInvariance == TimelineSpec => [](IInv /\ LInv /\ OpenInv)
<1>1. TimelineSpec => [](IInv /\ LInv)
  BY TimelineImplements, LInvariance, PTL
<1>2. QED
  BY <1>1, OpenInit, OpenNext, PTL DEF TimelineSpec

(***************************************************************************)
(* Type correctness of the clock, the times and the reads; every row is in *)
(* a database that exists, although `read` looks for the database long     *)
(* before it writes its row.                                               *)
(***************************************************************************)
THEOREM TimelineTypeCorrect == TimelineSpec => []TimelineTypeOK
BY OpenInvariance, PTL DEF OpenInv

-------------------------------------------------------------------------------
(***************************************************************************)
(* The text of a time sorts as the time does, but for those on the full    *)
(* second.                                                                 *)
(***************************************************************************)
LEMMA TimeParts ==
  ASSUME NEW t \in Nat
  PROVE  \E q \in Nat, r \in 0 .. PerSecond - 1 :
           Second(t) = q /\ t % PerSecond = r /\ t = PerSecond * q + r
BY ClockAssumption DEF Second

LEMMA GreaterParts ==
  ASSUME NEW n \in Nat, NEW p \in Nat, NEW q \in Nat, NEW i \in 0 .. n - 1, NEW j \in 0 .. n - 1,
         n * p + i < n * q + j
  PROVE  p <= q /\ (p = q => i < j)
<1>1. PICK m \in Nat : m = n * p
  OBVIOUS
<1>2. CASE p > q
  <2>1. PICK d \in Nat : p = (q + 1) + d
    <3>1. p - (q + 1) \in Nat /\ p = (q + 1) + (p - (q + 1))
      BY <1>2
    <3>2. QED
      BY <3>1
  <2>2. n * p = n * q + n + n * d /\ n * d \in Nat /\ n * q \in Nat
    BY <2>1
  <2>3. QED
    BY <2>2
<1>3. p = q => m + i < m + j
  BY <1>1
<1>4. QED
  BY <1>2, <1>3

LEMMA SecondsGoBy ==
  ASSUME NEW t \in Nat, NEW u \in Nat, t < u
  PROVE  /\ Second(t) \in Nat /\ Second(u) \in Nat /\ Second(t) <= Second(u)
         /\ t % PerSecond \in 0 .. PerSecond - 1 /\ u % PerSecond \in 0 .. PerSecond - 1
         /\ Second(t) = Second(u) => t % PerSecond < u % PerSecond
<1>1. PICK p \in Nat, i \in 0 .. PerSecond - 1 :
        Second(t) = p /\ t % PerSecond = i /\ t = PerSecond * p + i
  BY TimeParts
<1>2. PICK q \in Nat, j \in 0 .. PerSecond - 1 :
        Second(u) = q /\ u % PerSecond = j /\ u = PerSecond * q + j
  BY TimeParts
<1>3. p <= q /\ (p = q => i < j)
  BY <1>1, <1>2, GreaterParts, ClockAssumption
<1>4. QED
  BY <1>1, <1>2, <1>3

LEMMA NoLaterMeans ==
  ASSUME NEW x, NEW y, stamp[x] \in Nat, stamp[y] \in Nat, NoLater(x, y), ~(stamp[x] <= stamp[y])
  PROVE  Second(stamp[x]) = Second(stamp[y]) /\ OnSecond(stamp[y])
<1>1. PICK t \in Nat, u \in Nat : t = stamp[y] /\ u = stamp[x]
  OBVIOUS
<1>2. /\ Second(t) \in Nat /\ Second(u) \in Nat /\ Second(t) <= Second(u)
      /\ Second(t) = Second(u) => t % PerSecond < u % PerSecond
      /\ t % PerSecond \in 0 .. PerSecond - 1 /\ u % PerSecond \in 0 .. PerSecond - 1
  BY <1>1, SecondsGoBy
<1>3. PerSecond \in Nat \ {0}
  BY ClockAssumption
<1>4. LET s == utc_now_iso(u)  r == utc_now_iso(t) IN
        s.second < r.second \/ (s.second = r.second /\ s.fraction <= r.fraction)
  BY <1>1 DEF NoLater
<1>5. Second(u) = Second(t)
  BY <1>2, <1>4 DEF utc_now_iso
<1>6. CASE ~OnSecond(t)
  <2>1. (IF OnSecond(u) THEN PerSecond ELSE u % PerSecond) <= t % PerSecond
    BY <1>2, <1>4, <1>5, <1>6 DEF utc_now_iso
  <2>2. OnSecond(u) => u % PerSecond = 0
    BY DEF OnSecond
  <2>3. QED
    BY <1>2, <1>3, <1>5, <2>1, <2>2
<1>7. QED
  BY <1>1, <1>5, <1>6

-------------------------------------------------------------------------------
(***************************************************************************)
(* One process at a time and nobody dying.                                 *)
(***************************************************************************)
LEMMA GrantsStay ==
  ASSUME IInv, [Next]_vars
  PROVE  granted \subseteq granted'
<1>1. [Gate!Next]_(Gate!gateVars)
  BY GateStep
<1>2. QED
  BY <1>1 DEF Gate!Next, Gate!Record, Gate!Grant, Gate!LetThrough, Gate!gateVars

\* A process that is about to restore goes on with that, or nothing is done.
LEMMA RestoreIsNext ==
  ASSUME OneAtATime, IInv, AInv, [Next]_vars, NEW w \in Workers, proc[w].pc = "restore"
  PROVE  \/ Restore(w)
         \/ proc'[w] = Idle
         \/ UNCHANGED <<proc, snapshots>>
<1>1. proc[w] # Idle
  BY DEF Idle
<1>2. \A x \in Workers \ {w} : proc[x] = Idle
  BY <1>1 DEF AInv, Alone
<1>3. ~MayRun
  BY <1>1, NobodyAtWork
<1>4. ASSUME NEW x \in Workers, Continue(x) PROVE Restore(w) \/ proc'[w] = Idle
  <2>1. x = w
    BY <1>2, <1>4 DEF Continue, CopyFile, CopyRefused, LogAction, LogSnapshot, BodyExit,
       ExecuteLogSnapshot, update_action_snapshot_id, Unlink, UnlinkFails, ExecuteEnd, Restore,
       RestoreFails, Mark, Idle
  <2>2. Restore(w) \/ RestoreFails(w)
    BY <1>4, <2>1 DEF Continue, CopyFile, CopyRefused, LogAction, LogSnapshot, BodyExit,
       ExecuteLogSnapshot, update_action_snapshot_id, Unlink, UnlinkFails, ExecuteEnd, Mark
  <2>3. QED
    BY <2>2, ReturnEffect DEF RestoreFails, IInv, TypeOK
<1>5. ASSUME NEW x \in Workers, Die(x) \/ Raise(x) PROVE FALSE
  BY <1>5 DEF Die, Raise, Fault, OneAtATime, IInv, TypeOK
<1>6. ASSUME NEW x \in Workers, NEW v \in Contents \cup {NoFile}, BodyWrite(x, v) PROVE FALSE
  BY <1>2, <1>6 DEF BodyWrite, Idle
<1>7. ASSUME NEW x \in Workers, NEW a \in Actions, Command(x, a) PROVE FALSE
  BY <1>3, <1>7 DEF Command, ProtectAuto, ProtectSnapshot, Execute, Rollback, Free
<1>8. ASSUME NEW a \in Actions, ProtectHold(a) \/ Approve(a) \/ Reject(a) PROVE FALSE
  BY <1>3, <1>8 DEF ProtectHold, Approve, Reject
<1>9. ASSUME NEW s \in SnapIds, GrowOld(s) \/ Cleanup(s) PROVE UNCHANGED <<proc, snapshots>>
  BY <1>9 DEF GrowOld, Cleanup, db
<1>10. ASSUME NEW f \in Files, NEW v \in Contents \cup {NoFile}, OtherWrite(f, v) PROVE FALSE
  BY <1>3, <1>10 DEF OtherWrite
<1>11. UNCHANGED vars => UNCHANGED <<proc, snapshots>>
  BY DEF vars, db
<1>12. QED
  BY <1>4, <1>5, <1>6, <1>7, <1>8, <1>9, <1>10, <1>11 DEF Next

LEMMA MarkIsNext ==
  ASSUME OneAtATime, IInv, AInv, [Next]_vars, NEW w \in Workers, proc[w].pc = "mark"
  PROVE  proc'[w].pc # "restore"
<1>1. proc[w] # Idle
  BY DEF Idle
<1>2. ASSUME NEW x \in Workers, Continue(x) \/ Die(x) \/ Raise(x) PROVE proc'[w].pc # "restore"
  <2>1. Return(x) \/ \E pc \in Pcs \ {"restore"} : Goto(x, pc)
    BY <1>2 DEF Continue, Die, Raise, CopyFile, CopyRefused, LogAction, LogSnapshot, BodyExit,
       ExecuteLogSnapshot, update_action_snapshot_id, Unlink, UnlinkFails, ExecuteEnd, Restore,
       RestoreFails, Mark, Pcs
  <2>2. CASE Return(x)
    BY <2>2, ReturnEffect DEF Idle, IInv, TypeOK
  <2>3. ASSUME NEW pc \in Pcs \ {"restore"}, Goto(x, pc) PROVE proc'[w].pc # "restore"
    <3>1. Moved(x, pc)
      BY <2>3, GotoEffect DEF IInv, TypeOK
    <3>2. QED
      BY <3>1 DEF Moved
  <2>4. QED
    BY <2>1, <2>2, <2>3
<1>3. ASSUME NEW x \in Workers, NEW a \in Actions, Command(x, a) PROVE proc'[w].pc # "restore"
  BY <1>1, <1>3, NobodyAtWork DEF Command, ProtectAuto, ProtectSnapshot, Execute, Rollback, Free
<1>4. QED
  BY <1>2, <1>3 DEF Next, vars, BodyWrite, ProtectHold, Approve, Reject, GrowOld, Cleanup, OtherWrite

(***************************************************************************)
(* A step of FileActions, with the clock: what is made now is made last,   *)
(* and what is let through now is the newest there is, or was approved.    *)
(***************************************************************************)
LEMMA FileStepUndoes ==
  ASSUME OneAtATime, IInv, LInv, AInv, OpenInv, UndoInv, [Next]_vars, Dated
  PROVE  UndoInv'
<1>1. /\ clock \in Nat /\ clock' \in Nat /\ clock <= clock'
      /\ stamp \in [Actions \cup Reads -> Nat] /\ stamp' \in [Actions \cup Reads -> Nat]
      /\ \A x \in Actions \cup Reads : stamp'[x] = IF x \in Made THEN clock' ELSE stamp[x]
  BY ClockAssumption DEF Dated, OpenInv, TimelineTypeOK
<1>2. Past'
  BY <1>1 DEF UndoInv, Past
<1>3. Made # {} => \A w \in Workers : proc[w] = Idle
  BY NextMakes, NobodyAtWork
<1>4. BlockIsNewest'
  <2> SUFFICES ASSUME NEW w \in Workers, proc'[w].op = "protect", NEW a \in Submitted'
               PROVE  stamp'[a] <= stamp'[proc'[w].act]
    BY DEF BlockIsNewest
  <2>1. a \in Actions /\ stamp'[a] <= clock'
    BY <1>2 DEF Past, Submitted
  <2>2. CASE proc'[w].act \in Made
    <3>1. stamp'[proc'[w].act] = clock'
      BY <1>1, <2>2 DEF Made, Submitted
    <3>2. QED
      BY <2>1, <3>1
  <2>3. CASE proc[w].op = "protect" /\ proc'[w].act = proc[w].act /\ proc'[w].act \notin Made
    <3>1. Made = {}
      BY <1>3, <2>3 DEF Idle
    <3>2. a \in Submitted /\ proc[w].act \in Actions
      BY <2>3, <3>1 DEF Made, IInv, ProcOK
    <3>3. stamp'[a] = stamp[a] /\ stamp'[proc[w].act] = stamp[proc[w].act]
      BY <1>1, <2>1, <3>1, <3>2
    <3>4. QED
      BY <2>3, <3>2, <3>3 DEF UndoInv, BlockIsNewest
  <2>4. QED
    BY <2>2, <2>3, NextMakes
<1>5. granted \subseteq granted'
  BY GrantsStay
<1>6. entered \subseteq Submitted /\ entered' \subseteq Submitted' /\ entered' \subseteq Actions
  <2>1. LInv' /\ IInv'
    BY LNext, NextIInv
  <2>2. QED
    BY <2>1 DEF LInv, Accounted, Submitted, IInv, TypeOK
<1>7. \A a \in entered : a \in Actions /\ stamp'[a] = stamp[a]
  BY <1>1, <1>6 DEF Made, Submitted
<1>8. LatestDone'
  <2>1. CASE LetThroughNow = {} /\ entered' = entered
    <3>1. latest' = latest
      BY <2>1 DEF Dated
    <3>2. QED
      BY <1>5, <1>7, <2>1, <3>1 DEF UndoInv, LatestDone
  <2>2. ASSUME NEW a \in Actions, LetThroughNow = {a}, entered' = entered \cup {a},
               a \in granted \/ \E w \in Workers : proc'[w].op = "protect" /\ proc'[w].act = a
        PROVE  LatestDone'
    <3>1. latest' = a
      BY <2>2 DEF Dated
    <3>2. a \in granted' \/ \A b \in Submitted' : stamp'[b] <= stamp'[a]
      BY <1>4, <1>5, <2>2 DEF BlockIsNewest
    <3>3. QED
      BY <1>6, <2>2, <3>1, <3>2 DEF LatestDone
  <2>3. QED
    BY <2>1, <2>2, LetsOneThrough
<1>9. Undoing'
  <2> SUFFICES ASSUME NEW w \in byLast', proc'[w].pc = "restore" PROVE Undoes(w)'
    BY DEF Undoing
  <2>1. w \in byLast /\ w \in Workers /\ proc[w].op = "rollback" /\ proc'[w] # Idle
    BY DEF Dated, OpenInv, TimelineTypeOK, Idle
  <2>2. proc[w].pc = "restore" /\ UNCHANGED <<proc, snapshots>>
    <3>1. proc[w].pc \in {"restore", "mark"}
      BY <2>1 DEF LInv, Placed
    <3>2. ~Restore(w)
      <4>1. Restore(w) => Moved(w, "mark")
        BY <2>1, GotoEffect DEF Restore, Pcs, IInv, TypeOK
      <4>2. QED
        BY <4>1 DEF Moved
    <3>3. proc[w].pc # "mark"
      BY <2>1, <3>2, MarkIsNext
    <3>4. QED
      BY <2>1, <3>1, <3>2, <3>3, RestoreIsNext
  <2>3. LetThroughNow = {} /\ entered' = entered
    BY <2>2, LetsOneThrough DEF LetThroughNow
  <2>4. latest' = latest
    BY <2>3 DEF Dated
  <2>5. proc[w].act \in entered /\ LastOf(proc[w].act) /\ latest \in entered
    BY <2>1, <2>2 DEF UndoInv, Undoing, Undoes, LatestDone
  <2>6. LastOf(proc[w].act)'
    BY <1>5, <1>7, <2>2, <2>4, <2>5 DEF LastOf
  <2>7. QED
    BY <2>1, <2>2, <2>3, <2>5, <2>6 DEF UndoInv, Undoing, Undoes, get_latest_snapshot_for_action
<1>10. QED
  BY <1>2, <1>4, <1>8, <1>9 DEF UndoInv

\* Between commands every action that has a snapshot was let through; the one
\* of the newest row is the one let through last, or one of the exceptions.
LEMMA NewestIsLast ==
  ASSUME IInv, LInv, Sourced, OpenInv, UndoInv, \A x \in Workers : proc[x] = Idle,
         NEW a \in get_last_action \cap Actions, snapshots[a] # <<>>
  PROVE  a \in entered /\ LastOf(a)
<1>1. a \in entered
  BY DEF Sourced, Renewing, Idle
<1>2. latest \in entered /\ (stamp[a] <= stamp[latest] \/ latest \in granted)
  BY <1>1 DEF UndoInv, LatestDone
<1>3. latest \in Logged
  BY <1>2 DEF LInv, Accounted, Logged, IInv, TypeOK
<1>4. NoLater(latest, a)
  BY <1>3 DEF get_last_action
<1>5. stamp[a] \in Nat /\ stamp[latest] \in Nat
  BY <1>1, <1>2, ClockAssumption DEF OpenInv, TimelineTypeOK, IInv, TypeOK
<1>6. CASE stamp[latest] <= stamp[a]
  BY <1>1, <1>2, <1>5, <1>6 DEF LastOf
<1>7. CASE ~(stamp[latest] <= stamp[a])
  BY <1>1, <1>4, <1>5, <1>7, NoLaterMeans DEF LastOf
<1>8. QED
  BY <1>6, <1>7

LEMMA RollbackLastUndoes ==
  ASSUME OneAtATime, IInv, LInv, Sourced, OpenInv, UndoInv, NEW w \in Workers, RollbackLast(w)
  PROVE  UndoInv'
<1>1. PICK a \in get_last_action \cap Actions : Rollback(w, a)
  BY DEF RollbackLast
<1>2. \A x \in Workers : proc[x] = Idle
  BY <1>1, NobodyAtWork DEF Rollback, Free
<1>3. a \in entered /\ LastOf(a) /\ snapshots[a] # <<>>
  BY <1>1, <1>2, NewestIsLast DEF Rollback
<1>4. /\ proc'[w] = [op |-> "rollback", pc |-> "restore", act |-> a,
                     snap |-> get_latest_snapshot_for_action(a)]
      /\ \A x \in Workers \ {w} : proc'[x] = Idle
      /\ UNCHANGED <<status, snapshots, granted, entered>>
  BY <1>1, <1>2 DEF Rollback, Begin, db, history, IInv, TypeOK
<1>5. byLast' = {w} /\ UNCHANGED <<clock, stamp, latest>>
  BY <1>2 DEF RollbackLast, OpenInv, TimelineTypeOK, Idle
<1>6. Past' /\ LatestDone'
  BY <1>4, <1>5 DEF UndoInv, Past, LatestDone
<1>7. BlockIsNewest'
  BY <1>4 DEF BlockIsNewest, Idle
<1>8. Undoes(w)'
  BY <1>3, <1>4, <1>5 DEF Undoes, LastOf, get_latest_snapshot_for_action
<1>9. QED
  BY <1>5, <1>6, <1>7, <1>8 DEF UndoInv, Undoing

LEMMA UndoNext ==
  OneAtATime /\ IInv /\ LInv /\ AInv /\ Sourced /\ OpenInv /\ UndoInv
    /\ [TimelineNext]_timelineVars => UndoInv'
<1> SUFFICES ASSUME OneAtATime, IInv, LInv, AInv, Sourced, OpenInv, UndoInv,
                    [TimelineNext]_timelineVars
             PROVE  UndoInv'
  OBVIOUS
<1>1. CASE FileStep
  BY <1>1, FileStepUndoes DEF FileStep
<1>2. CASE \E w \in Workers : RollbackLast(w)
  BY <1>2, RollbackLastUndoes
<1>3. ASSUME UNCHANGED <<status, snapshots, proc, granted, entered, byLast, latest>>,
             clock' \in Nat, clock <= clock',
             \A a \in Actions : stamp'[a] = stamp[a],
             \A r \in Reads : stamp'[r] = stamp[r] \/ stamp'[r] = clock'
      PROVE  UndoInv'
  <2>1. /\ clock \in Nat /\ \A x \in Actions \cup Reads : stamp[x] \in Nat
        /\ entered \subseteq Actions
    BY ClockAssumption DEF OpenInv, TimelineTypeOK, IInv, TypeOK
  <2>2. Past'
    BY <1>3, <2>1 DEF UndoInv, Past
  <2>3. BlockIsNewest'
    BY <1>3 DEF UndoInv, BlockIsNewest, Submitted, IInv, ProcOK
  <2>4. LatestDone'
    BY <1>3, <2>1 DEF UndoInv, LatestDone
  <2>5. ASSUME NEW w \in byLast, proc[w].pc = "restore" PROVE Undoes(w)'
    <3>1. Undoes(w) /\ latest \in Actions /\ proc[w].act \in Actions
      BY <2>1, <2>5 DEF UndoInv, Undoing, Undoes, LatestDone
    <3>2. QED
      BY <1>3, <3>1 DEF Undoes, LastOf, get_latest_snapshot_for_action
  <2>6. QED
    BY <1>3, <2>2, <2>3, <2>4, <2>5 DEF UndoInv, Undoing
<1>4. UNCHANGED vars => UNCHANGED <<status, snapshots, proc, granted, entered>>
  BY DEF vars, db, history
<1>5. clock \in Nat /\ stamp \in [Actions \cup Reads -> Nat]
  BY ClockAssumption DEF OpenInv, TimelineTypeOK
<1>6. CASE OpenLog \/ \E r \in Reads : ReadUrl(r)
  BY <1>3, <1>4, <1>5, <1>6 DEF OpenLog, ReadUrl
<1>7. ASSUME NEW r \in Reads, ReadEnds(r) PROVE UndoInv'
  <2>1. \A a \in Actions : a # r
    BY ReadsAssumption
  <2>2. \/ UNCHANGED <<clock, stamp>>
        \/ clock' \in clock .. MaxClock /\ stamp' = [stamp EXCEPT ![r] = clock']
    BY <1>7 DEF ReadEnds
  <2>3. clock' \in Nat /\ clock <= clock'
    BY <1>5, <2>2, ClockAssumption
  <2>4. /\ \A a \in Actions : stamp'[a] = stamp[a]
        /\ \A q \in Reads : stamp'[q] = stamp[q] \/ stamp'[q] = clock'
    BY <1>5, <2>1, <2>2
  <2>5. QED
    BY <1>3, <1>4, <1>7, <2>3, <2>4 DEF ReadEnds
<1>8. CASE UNCHANGED timelineVars
  BY <1>3, <1>4, <1>5, <1>8 DEF timelineVars, timeVars
<1>9. QED
  BY <1>1, <1>2, <1>6, <1>7, <1>8 DEF TimelineNext

LEMMA UndoInvariance ==
  OneAtATime => (TimelineSpec => [](IInv /\ LInv /\ AInv /\ Sourced /\ OpenInv /\ UndoInv))
<1> SUFFICES ASSUME OneAtATime
             PROVE  TimelineSpec => [](IInv /\ LInv /\ AInv /\ Sourced /\ OpenInv /\ UndoInv)
  OBVIOUS
<1>1. TimelineSpec => [](IInv /\ LInv /\ AInv /\ Sourced /\ OpenInv)
  BY TimelineImplements, AInvariance, OpenInvariance, PTL
<1>2. TimelineInit => UndoInv
  BY DEF TimelineInit, Init, UndoInv, Past, BlockIsNewest, LatestDone, Undoing, Idle
<1>3. IInv /\ LInv /\ AInv /\ Sourced /\ OpenInv /\ UndoInv /\ [TimelineNext]_timelineVars
        => UndoInv'
  BY UndoNext
<1>4. QED
  BY <1>1, <1>2, <1>3, PTL DEF TimelineSpec

(***************************************************************************)
(* cli `rollback --last`, with one process at a time and nobody dying: it  *)
(* undoes the action that was let through last, up to the four exceptions  *)
(* that UndoLast names, and gives its file the content from before; for    *)
(* any number of actions and reads, and however many instants the clock    *)
(* has in a second.                                                        *)
(***************************************************************************)
THEOREM LastIsUndone ==
  ASSUME OneAtATime
  PROVE  TimelineSpec => UndoLast
<1> DEFINE Undone == \A w \in byLast : proc[w].pc = "restore" /\ proc'[w].pc = "mark" =>
             LET a == proc[w].act IN
             /\ \/ latest = a
                \/ latest \in granted /\ stamp[latest] <= stamp[a]
                \/ Second(stamp[latest]) = Second(stamp[a]) /\ OnSecond(stamp[a])
                \/ stamp[latest] = stamp[a]
             /\ disk'[a.target] = before[a]
                \/ (a.action_type = "file.create" /\ disk'[a.target] = NoFile)
<1>1. ASSUME IInv, LInv, AInv, OpenInv, UndoInv, [TimelineNext]_timelineVars
      PROVE  Undone
  <2> SUFFICES ASSUME NEW w \in byLast, proc[w].pc = "restore", proc'[w].pc = "mark"
               PROVE  LET a == proc[w].act IN
                      /\ LastOf(a)
                      /\ disk'[a.target] = before[a]
                         \/ (a.action_type = "file.create" /\ disk'[a.target] = NoFile)
    BY DEF LastOf
  <2>1. w \in Workers /\ Undoes(w)
    BY <1>1 DEF OpenInv, TimelineTypeOK, UndoInv, Undoing
  <2>2. Restore(w)
    BY <1>1, <2>1, RestoreIsNext, NextIsDated DEF Idle
  <2>3. PICK a \in Actions, s \in SnapIds :
          a = proc[w].act /\ s = proc[w].snap /\ a \in entered /\ LastOf(a)
          /\ snapshots[a] # <<>> /\ s = get_latest_snapshot_for_action(a) /\ s \in Rows(a)
    BY <1>1, <2>1, LatestRow DEF Undoes, IInv, TypeOK
  <2>4. disk'[a.target] = IF CopiesFile(a) THEN ReadCopy(s) ELSE NoFile
    BY <1>1, <2>2, <2>3, ActionsAssumption DEF Restore, IInv, TypeOK
  <2>5. CASE CopiesFile(a)
    <3>1. Exists(s)
      BY <2>2, <2>3, <2>5 DEF Restore
    <3>2. ~Renewing(a)
      BY <1>1, <2>1 DEF AInv, Alone, Renewing, Idle
    <3>3. copy[s] = before[a] /\ copy[s] \in FileData
      BY <1>1, <2>3, <2>5, <3>1, <3>2 DEF AInv, FInv, BeforeImages, LInv, Accounted, Kept
    <3>4. QED
      BY <2>3, <2>4, <2>5, <3>3 DEF ReadCopy
  <2>6. CASE ~CopiesFile(a)
    BY <2>3, <2>4, <2>6, ActionsAssumption DEF CopiesFile
  <2>7. QED
    BY <2>5, <2>6
<1>2. IInv /\ LInv /\ AInv /\ Sourced /\ OpenInv /\ UndoInv /\ [TimelineNext]_timelineVars
        => [Undone]_timelineVars
  BY <1>1
<1>3. QED
  BY <1>2, UndoInvariance, PTL DEF TimelineSpec, UndoLast

(***************************************************************************)
(* What holds of the snapshots and approvals of FileActions holds with the *)
(* clock and `rollback --last` beside them.                                *)
(***************************************************************************)
THEOREM UndoneFromBeforeImages ==
  ASSUME OneAtATime
  PROVE  TimelineSpec => []SnapshotIsBeforeImage /\ UnlinkSpendsApproval
BY TimelineImplements, SnapshotsAreBeforeImages, UnlinksSpendApprovals, PTL

===============================================================================
