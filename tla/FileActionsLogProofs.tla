------------------------- MODULE FileActionsLogProofs --------------------------
(***************************************************************************)
(* Theorems about what FileActions writes down: the log only grows, its    *)
(* statuses are true, and nothing is changed before it can be undone, for  *)
(* any number of actions, processes and deaths and any retention.          *)
(***************************************************************************)
EXTENDS FileActionsProofs, FiniteSetTheorems

(***************************************************************************)
(* A snapshot that a rollback could use: its directory was made, and while *)
(* it is there it holds a whole copy, if its action has something to copy. *)
(***************************************************************************)
Kept(a, s) == /\ dir[s] # "unused"
              /\ CopiesFile(a) /\ Exists(s) => copy[s] \in FileData

(***************************************************************************)
(* What the position of a process says about the three stores: what it has *)
(* written by then is there, what it has not yet written is not.           *)
(***************************************************************************)
Unlogged(p) == p.op = "protect" /\ p.pc \in {"copy", "log_action"}

Placed(p) ==
  /\ p.op = "none" => p = Idle
  /\ p.op = "protect" => p.pc \in {"copy", "log_action", "log_snapshot", "body"}
  /\ p.op = "rollback" <=> p.pc \in {"restore", "mark"}
  /\ p.op = "execute" => p.pc \in {"copy", "log_snapshot", "set_id", "unlink", "succeed", "fail"}

Written(p) ==
  /\ p.op # "none" => (status[p.act] = "absent" <=> Unlogged(p))
  /\ p.op = "rollback" => snapshots[p.act] # <<>>
  /\ p.op = "execute" => CopiesFile(p.act)
  /\ p.snap \in SnapIds => dir[p.snap] # "unused"
  /\ p.pc = "copy" => \A b \in Actions : p.snap \notin Rows(b)
  /\ p.pc \in {"log_action", "log_snapshot"} => p.snap \in SnapIds /\ Kept(p.act, p.snap)
  /\ p.op = "protect" /\ p.pc = "log_snapshot" => snapshot_id[p.act] \in Rows(p.act) \cup {p.snap}
  /\ p.pc \in {"set_id", "unlink", "succeed"} => p.snap \in Rows(p.act)
  /\ p.pc \in {"unlink", "succeed"} => snapshot_id[p.act] \in Rows(p.act)
  /\ p.pc \in {"body", "succeed"} => p.act \in entered

(***************************************************************************)
(* No two with-blocks are about one action, and a snapshot that is being   *)
(* made belongs to one process.                                            *)
(***************************************************************************)
Apart(p, q) == /\ p.op = "protect" /\ q.op = "protect" => p.act # q.act
               /\ p.pc = "copy" => p.snap # q.snap

Distinct == \A w, x \in Workers : w # x => Apart(proc[w], proc[x])

\* What the tables say of each action, whatever processes do.
Accounted(a) ==
  /\ status[a] = "absent" => a \notin entered /\ snapshot_id[a] = None
  /\ a \in entered => snapshot_id[a] \in Rows(a) \cup {None}
  /\ a \in entered /\ PolicyOf(a) # AUTO => snapshots[a] # <<>>
  /\ \A s \in Rows(a) : Kept(a, s)

LInv == /\ \A w \in Workers : Placed(proc[w]) /\ Written(proc[w])
        /\ Distinct
        /\ \A a \in Actions : Accounted(a)
        /\ StatusTruthful

-------------------------------------------------------------------------------
(***************************************************************************)
(* A process that a step leaves alone keeps what its position says, when   *)
(* the step takes nothing away from the stores that it relies on.          *)
(***************************************************************************)
Undisturbed(p) ==
  /\ p.op # "none" => (status'[p.act] = "absent" <=> status[p.act] = "absent")
  /\ snapshots[p.act] # <<>> => snapshots'[p.act] # <<>>
  /\ p.snap \in SnapIds /\ dir[p.snap] # "unused" => dir'[p.snap] # "unused"
  /\ p.pc = "copy" => \A b \in Actions : p.snap \in Rows(b)' => p.snap \in Rows(b)
  /\ p.snap \in SnapIds /\ Kept(p.act, p.snap) => Kept(p.act, p.snap)'
  /\ Rows(p.act) \subseteq Rows(p.act)'
  /\ snapshot_id'[p.act] \in {snapshot_id[p.act]} \cup Rows(p.act)
  /\ entered \subseteq entered'

LEMMA StaysWritten ==
  ASSUME NEW p \in ProcRecords, Written(p), p.pc = "idle" \/ Undisturbed(p), p.pc = "idle" => p = Idle
  PROVE  Written(p)'
<1>1. CASE p = Idle
  BY <1>1, ValuesAssumption DEF Written, Idle, Unlogged
<1>2. CASE p # Idle
  <2>1. Undisturbed(p)
    BY <1>2
  <2>2. QED
    BY <2>1 DEF Written, Undisturbed, Unlogged
<1>3. QED
  BY <1>1, <1>2


LEMMA BusyActs ==
  ASSUME IInv, LInv, NEW x \in Workers
  PROVE  /\ proc[x] \in ProcRecords
         /\ proc[x].pc = "idle" => proc[x] = Idle
         /\ proc[x].pc # "idle" => proc[x].act \in Actions /\ proc[x].op # "none"
         /\ proc[x].snap \in SnapIds \/ proc[x].snap = None
<1>1. proc[x] \in ProcRecords /\ ProcOK(proc[x]) /\ Placed(proc[x])
  BY DEF IInv, TypeOK, LInv
<1>2. proc[x].op \in Ops /\ proc[x].snap \in SnapIds \cup {None}
  BY <1>1 DEF ProcRecords
<1>3. QED
  BY <1>1, <1>2 DEF ProcOK, Placed, Idle, Ops

LEMMA OthersKeep ==
  ASSUME IInv, LInv, NEW S \in SUBSET Workers,
         \A x \in S : proc'[x] = proc[x],
         \A x \in S : proc[x].pc # "idle" => Undisturbed(proc[x])
  PROVE  \A x \in S : (Placed(proc[x]) /\ Written(proc[x]))'
<1> SUFFICES ASSUME NEW x \in S PROVE (Placed(proc[x]) /\ Written(proc[x]))'
  OBVIOUS
<1>1. Placed(proc[x]) /\ Written(proc[x])
  BY DEF LInv
<1>2. Written(proc[x])'
  <2> DEFINE p == proc[x]
  <2>1. p \in ProcRecords /\ Written(p) /\ (p.pc = "idle" \/ Undisturbed(p)) /\ (p.pc = "idle" => p = Idle)
    BY <1>1, BusyActs
  <2>2. proc'[x] = proc[x]
    OBVIOUS
  <2> QED
    BY <2>1, <2>2, StaysWritten DEF Written, Undisturbed
<1>3. QED
  BY <1>1, <1>2 DEF Placed

(***************************************************************************)
(* A step that writes no snapshot: statuses may change, but no row comes   *)
(* or goes.                                                                *)
(***************************************************************************)
Quiet == /\ UNCHANGED <<snapshot_id, snapshots, dir, copy>>
         /\ entered \subseteq entered'
         /\ \A a \in Actions : status'[a] = "absent" <=> status[a] = "absent"

LEMMA QuietUndisturbed ==
  ASSUME Quiet, NEW p, p.act \in Actions
  PROVE  Undisturbed(p)
BY DEF Quiet, Undisturbed, Kept, Rows, Exists

LEMMA QuietOthers ==
  ASSUME IInv, LInv, Quiet, NEW S \in SUBSET Workers, \A x \in S : proc'[x] = proc[x]
  PROVE  \A x \in S : (Placed(proc[x]) /\ Written(proc[x]))'
BY OthersKeep, BusyActs, QuietUndisturbed

LEMMA QuietRows ==
  ASSUME LInv, Quiet, entered' = entered
  PROVE  \A a \in Actions : Accounted(a)'
BY DEF LInv, Quiet, Accounted, Kept, Rows, Exists

LEMMA IdleKeeps == (Placed(Idle) /\ Written(Idle))'
BY ValuesAssumption DEF Placed, Written, Idle, Unlogged

(***************************************************************************)
(* Processes stay apart when one goes on, ends, or begins with an action   *)
(* and a snapshot of its own.                                              *)
(***************************************************************************)
LEMMA GoesOnApart ==
  ASSUME IInv, LInv, NEW w \in Workers, NEW pc \in Pcs \ {"copy"}, Moved(w, pc)
  PROVE  Distinct'
BY DEF IInv, TypeOK, LInv, Distinct, Apart, Moved

LEMMA EndsApart ==
  ASSUME IInv, LInv, NEW w \in Workers, Return(w)
  PROVE  Distinct'
<1>1. \A x \in Workers : proc[x].pc = "copy" => proc[x].snap # None
  BY ValuesAssumption DEF IInv, ProcOK
<1>2. QED
  BY <1>1, ReturnEffect DEF IInv, TypeOK, LInv, Distinct, Apart, Idle


-------------------------------------------------------------------------------
(***************************************************************************)
(* The steps, one lemma for each group that writes the same stores.        *)
(***************************************************************************)
LEMMA LInit == Init => LInv
<1> SUFFICES ASSUME Init PROVE LInv
  OBVIOUS
<1>1. \A w \in Workers : proc[w] = Idle
  BY DEF Init
<1>2. Placed(Idle) /\ Written(Idle)
  BY ValuesAssumption DEF Placed, Written, Idle, Unlogged
<1>3. Distinct
  BY <1>1 DEF Distinct, Apart, Idle
<1>4. (\A a \in Actions : Accounted(a)) /\ StatusTruthful
  BY DEF Init, Accounted, StatusTruthful, Rows
<1>5. QED
  BY <1>1, <1>2, <1>3, <1>4 DEF LInv

\* Approvals, rejections, other programs, and the agent's writes: no process moves.
LEMMA DecisionSteps ==
  ASSUME IInv, LInv, NEW a \in Actions,
         Approve(a) \/ Reject(a)
  PROVE  LInv'
<1>1. Quiet /\ entered' = entered /\ proc' = proc
  BY DEF Approve, Reject, update_action_status, IInv, TypeOK, Quiet, store, history
<1>2. \A x \in Workers : (Placed(proc[x]) /\ Written(proc[x]))'
  BY <1>1, QuietOthers
<1>3. Distinct' /\ \A b \in Actions : Accounted(b)'
  BY <1>1, QuietRows DEF LInv, Distinct, Apart
<1>4. StatusTruthful'
  BY <1>1 DEF LInv, StatusTruthful, Approve, Reject, update_action_status, IInv, TypeOK, history
<1>5. QED
  BY <1>2, <1>3, <1>4 DEF LInv

LEMMA FileWriteSteps ==
  ASSUME IInv, LInv,
         UNCHANGED <<db, proc, store, granted, entered>>
  PROVE  LInv'
<1>1. Quiet /\ entered' = entered /\ proc' = proc /\ status' = status
  BY DEF Quiet, db, store
<1>2. \A x \in Workers : (Placed(proc[x]) /\ Written(proc[x]))'
  BY <1>1, QuietOthers
<1>3. Distinct' /\ \A b \in Actions : Accounted(b)'
  BY <1>1, QuietRows DEF LInv, Distinct, Apart
<1>4. StatusTruthful'
  BY <1>1 DEF LInv, StatusTruthful, db
<1>5. QED
  BY <1>2, <1>3, <1>4 DEF LInv

\* The ends of commands and blocks: a status is written, and the process is done.
LEMMA EndsLInv ==
  ASSUME IInv, LInv, NEW w \in Workers, Return(w), Quiet, entered' = entered, StatusTruthful'
  PROVE  LInv'
<1>1. proc'[w] = Idle /\ \A x \in Workers \ {w} : proc'[x] = proc[x]
  BY ReturnEffect DEF IInv, TypeOK
<1>2. \A x \in Workers \ {w} : (Placed(proc[x]) /\ Written(proc[x]))'
  BY <1>1, QuietOthers
<1>3. (Placed(proc[w]) /\ Written(proc[w]))'
  BY <1>1, IdleKeeps DEF Placed, Written
<1>4. Distinct' /\ \A b \in Actions : Accounted(b)'
  BY EndsApart, QuietRows
<1>5. QED
  BY <1>2, <1>3, <1>4 DEF LInv

LEMMA StatusEndSteps ==
  ASSUME IInv, LInv, NEW w \in Workers,
         \/ ExecuteEnd(w) \/ Mark(w)
         \/ \E outcome \in {"success", "failed"} : BodyExit(w, outcome)
  PROVE  LInv'
<1> DEFINE a == proc[w].act
<1>1. a \in Actions /\ status[a] # "absent" /\ Return(w)
  BY BusyActs DEF ExecuteEnd, Mark, BodyExit, LInv, Placed, Written, Unlogged
<1>2. PICK new \in Statuses :
        /\ status' = [status EXCEPT ![a] = new]
        /\ UNCHANGED <<snapshot_id, snapshots, dir, copy, granted, entered>>
        /\ new \in {"success", "failed", "rolled_back"}
        /\ new = "success" => proc[w].pc \in {"body", "succeed"}
        /\ new = "rolled_back" => proc[w].pc = "mark"
  BY DEF ExecuteEnd, Mark, BodyExit, update_action_status, Statuses, store, history
<1>3. Quiet
  BY <1>1, <1>2 DEF Quiet, IInv, TypeOK, Statuses
<1>4. StatusTruthful'
  BY <1>1, <1>2 DEF LInv, StatusTruthful, Written, Placed, IInv, TypeOK
<1>5. QED
  BY <1>1, <1>2, <1>3, <1>4, EndsLInv

LEMMA GoesOnLInv ==
  ASSUME IInv, LInv, NEW w \in Workers, NEW pc \in Pcs \ {"copy"}, Moved(w, pc), Quiet,
         entered' = entered, status' = status, granted' = granted,
         (Placed(proc[w]) /\ Written(proc[w]))'
  PROVE  LInv'
<1>1. \A x \in Workers \ {w} : (Placed(proc[x]) /\ Written(proc[x]))'
  BY QuietOthers DEF Moved
<1>2. Distinct' /\ \A b \in Actions : Accounted(b)'
  BY GoesOnApart, QuietRows
<1>3. StatusTruthful'
  BY DEF LInv, StatusTruthful, Quiet
<1>4. QED
  BY <1>1, <1>2, <1>3 DEF LInv


\* Steps that only move a process on, or end it, without a row.
LEMMA MoveSteps ==
  ASSUME IInv, LInv, NEW w \in Workers,
         CopyRefused(w) \/ UnlinkFails(w) \/ Restore(w) \/ RestoreFails(w)
  PROVE  LInv'
<1> DEFINE a == proc[w].act
<1>1. Quiet /\ UNCHANGED <<entered, granted, status>>
  BY DEF CopyRefused, UnlinkFails, Restore, RestoreFails, db, store, history, Quiet
<1>2. a \in Actions /\ Placed(proc[w]) /\ Written(proc[w]) /\ proc[w].op \in Ops
  BY BusyActs DEF CopyRefused, UnlinkFails, Restore, RestoreFails, LInv, ProcRecords
<1>3. CASE Return(w)
  BY <1>1, <1>3, EndsLInv DEF LInv, StatusTruthful, Quiet
<1>4. CASE proc[w].op = "execute" /\ Goto(w, "fail")
  <2>1. Moved(w, "fail")
    BY <1>4, GotoEffect DEF IInv, TypeOK, Pcs
  <2>2. (Placed(proc[w]) /\ Written(proc[w]))'
    BY <1>1, <1>2, <1>4, <2>1 DEF Moved, Placed, Written, Unlogged, Quiet, Rows
  <2>3. QED
    BY <1>1, <2>1, <2>2, GoesOnLInv DEF Pcs
<1>5. CASE proc[w].op = "rollback" /\ Goto(w, "mark")
  <2>1. Moved(w, "mark")
    BY <1>5, GotoEffect DEF IInv, TypeOK, Pcs
  <2>2. (Placed(proc[w]) /\ Written(proc[w]))'
    BY <1>1, <1>2, <1>5, <2>1 DEF Moved, Placed, Written, Unlogged, Quiet, Rows
  <2>3. QED
    BY <1>1, <2>1, <2>2, GoesOnLInv DEF Pcs
<1>6. QED
  BY <1>2, <1>3, <1>4, <1>5 DEF CopyRefused, UnlinkFails, Restore, RestoreFails, Placed, IInv, ProcOK

LEMMA RollbackStep ==
  ASSUME IInv, LInv, NEW w \in Workers, NEW a \in Actions, Rollback(w, a)
  PROVE  LInv'
<1> DEFINE s == get_latest_snapshot_for_action(a)
           p == [op |-> "rollback", pc |-> "restore", act |-> a, snap |-> s]
<1>1. /\ Quiet /\ UNCHANGED <<entered, granted, status>>
      /\ proc'[w] = p /\ \A x \in Workers \ {w} : proc'[x] = proc[x]
      /\ status[a] # "absent" /\ snapshots[a] # <<>>
  BY DEF Rollback, Begin, db, store, history, Quiet, IInv, TypeOK
<1>2. s \in Rows(a) /\ s \in SnapIds
  BY <1>1 DEF get_latest_snapshot_for_action, Rows, IInv, TypeOK
<1>3. Kept(a, s)
  BY <1>2 DEF LInv, Accounted
<1>4. (Placed(proc[w]) /\ Written(proc[w]))'
  BY <1>1, <1>3 DEF Placed, Written, Unlogged, Quiet, Kept
<1>5. \A x \in Workers \ {w} : (Placed(proc[x]) /\ Written(proc[x]))'
  BY <1>1, QuietOthers
<1>6. Distinct'
  <2>1. \A x \in Workers : proc[x].pc = "copy" => proc[x].snap # s
    BY <1>2 DEF LInv, Written
  <2>2. QED
    BY <1>1, <2>1 DEF LInv, Distinct, Apart
<1>7. (\A b \in Actions : Accounted(b)') /\ StatusTruthful'
  BY <1>1, QuietRows DEF LInv, StatusTruthful, Quiet
<1>8. QED
  BY <1>4, <1>5, <1>6, <1>7 DEF LInv

(***************************************************************************)
(* A new action: no process is at work on it, and no file was changed.     *)
(***************************************************************************)
LEMMA NewActs ==
  ASSUME LInv, NEW a \in Actions, New(a)
  PROVE  /\ status[a] = "absent" /\ a \notin entered /\ snapshot_id[a] = None
         /\ \A x \in Workers : proc[x].act # a
BY DEF New, Submitted, LInv, Accounted

LEMMA HoldStep ==
  ASSUME IInv, LInv, NEW a \in Actions, ProtectHold(a)
  PROVE  LInv'
<1>1. /\ New(a)
      /\ \E new \in {"blocked", "pending"} : status' = [status EXCEPT ![a] = new]
      /\ UNCHANGED <<snapshot_id, snapshots, dir, copy, proc, granted, entered>>
  BY DEF ProtectHold, update_action_status, store, history
<1>2. \A x \in Workers : proc[x].pc # "idle" => Undisturbed(proc[x])
  BY <1>1, NewActs, BusyActs DEF Undisturbed, Rows, Kept, Exists, IInv, TypeOK
<1>3. \A x \in Workers : (Placed(proc[x]) /\ Written(proc[x]))'
  BY <1>1, <1>2, OthersKeep
<1>4. Distinct'
  BY <1>1 DEF LInv, Distinct, Apart
<1>5. (\A b \in Actions : Accounted(b)') /\ StatusTruthful'
  BY <1>1, NewActs DEF LInv, Accounted, StatusTruthful, Rows, Kept, Exists, IInv, TypeOK
<1>6. QED
  BY <1>3, <1>4, <1>5 DEF LInv

LEMMA AutoStep ==
  ASSUME IInv, LInv, NEW w \in Workers, NEW a \in Actions, ProtectAuto(w, a)
  PROVE  LInv'
<1> DEFINE p == [op |-> "protect", pc |-> "body", act |-> a, snap |-> None]
<1>1. /\ New(a) /\ PolicyOf(a) = AUTO
      /\ status' = [status EXCEPT ![a] = "pending"] /\ entered' = entered \cup {a}
      /\ UNCHANGED <<snapshot_id, snapshots, dir, copy, granted>>
      /\ proc'[w] = p /\ \A x \in Workers \ {w} : proc'[x] = proc[x]
  BY DEF ProtectAuto, update_action_status, LetThrough, Begin, store, IInv, TypeOK
<1>2. \A x \in Workers \ {w} : proc[x].pc # "idle" => Undisturbed(proc[x])
  BY <1>1, NewActs, BusyActs DEF Undisturbed, Rows, Kept, Exists, IInv, TypeOK
<1>3. \A x \in Workers \ {w} : (Placed(proc[x]) /\ Written(proc[x]))'
  BY <1>1, <1>2, OthersKeep
<1>4. (Placed(p) /\ Written(p))'
  BY <1>1, ValuesAssumption DEF Placed, Written, Unlogged, IInv, TypeOK
<1>5. Distinct'
  <2>1. \A x \in Workers : proc[x].pc = "copy" => proc[x].snap # None
    BY ValuesAssumption DEF IInv, ProcOK
  <2>2. QED
    BY <1>1, <2>1, NewActs DEF LInv, Distinct, Apart
<1>6. (\A b \in Actions : Accounted(b)') /\ StatusTruthful'
  BY <1>1, NewActs DEF LInv, Accounted, StatusTruthful, Rows, Kept, Exists, IInv, TypeOK
<1>7. QED
  BY <1>1, <1>3, <1>4, <1>5, <1>6 DEF LInv, Placed, Written


(***************************************************************************)
(* A fresh directory, for a with-block or for execute: no row and no       *)
(* process knows its id.                                                   *)
(***************************************************************************)
LEMMA FreshSnapshot ==
  ASSUME IInv, LInv, NEW s \in SnapIds, dir[s] = "unused"
  PROVE  /\ \A a \in Actions : s \notin Rows(a)
         /\ \A x \in Workers : proc[x].snap # s
BY DEF LInv, Accounted, Kept, Written, IInv, TypeOK

LEMMA MakeDirStep ==
  ASSUME IInv, LInv, NEW w \in Workers, NEW a \in Actions, NEW s \in SnapIds,
         proc[w] = Idle, MakeDir(s), UNCHANGED <<db, granted, entered>>,
         NEW op \in {"protect", "execute"}, NEW pc \in {"copy", "log_action"},
         Begin(w, op, pc, a, s),
         op = "protect" => New(a) /\ (CopiesFile(a) => pc = "copy"),
         op = "execute" => status[a] # "absent" /\ CopiesFile(a) /\ pc = "copy"
  PROVE  LInv'
<1> DEFINE p == [op |-> op, pc |-> pc, act |-> a, snap |-> s]
<1>1. /\ proc'[w] = p /\ \A x \in Workers \ {w} : proc'[x] = proc[x]
      /\ UNCHANGED <<status, snapshot_id, snapshots, copy, granted, entered>>
      /\ dir[s] = "unused" /\ dir' = [dir EXCEPT ![s] = "fresh"]
  BY DEF Begin, MakeDir, db, IInv, TypeOK
<1>2. \A x \in Workers \ {w} : proc[x].pc # "idle" => Undisturbed(proc[x])
  BY <1>1, FreshSnapshot, BusyActs DEF Undisturbed, Rows, Kept, Exists, IInv, TypeOK
<1>3. \A x \in Workers \ {w} : (Placed(proc[x]) /\ Written(proc[x]))'
  BY <1>1, <1>2, OthersKeep
<1>4. (Placed(p) /\ Written(p))'
  BY <1>1, FreshSnapshot, NewActs
  DEF Placed, Written, Unlogged, Rows, Kept, IInv, TypeOK
<1>5. Distinct'
  <2>1. \A x \in Workers : proc[x].snap # s
    BY <1>1, FreshSnapshot
  <2>2. op = "protect" => \A x \in Workers : proc[x].act # a
    BY NewActs
  <2>3. QED
    BY <1>1, <2>1, <2>2 DEF LInv, Distinct, Apart
<1>6. (\A b \in Actions : Accounted(b)') /\ StatusTruthful'
  BY <1>1, FreshSnapshot DEF LInv, Accounted, StatusTruthful, Rows, Kept, Exists, IInv, TypeOK
<1>7. QED
  BY <1>1, <1>3, <1>4, <1>5, <1>6 DEF LInv, Placed, Written

LEMMA BeginSnapshotLInv ==
  ASSUME IInv, LInv, NEW w \in Workers, NEW a \in Actions, NEW s \in SnapIds,
         ProtectSnapshot(w, a, s) \/ Execute(w, a, s)
  PROVE  LInv'
<1>1. CASE ProtectSnapshot(w, a, s)
  BY <1>1, MakeDirStep DEF ProtectSnapshot, Free, history
<1>2. CASE Execute(w, a, s)
  BY <1>2, MakeDirStep DEF Execute, Free, CopiesFile, history
<1>3. QED
  BY <1>1, <1>2

LEMMA CopyStep ==
  ASSUME IInv, LInv, NEW w \in Workers, CopyFile(w)
  PROVE  LInv'
<1> DEFINE a == proc[w].act
           s == proc[w].snap
           pc == IF proc[w].op = "protect" THEN "log_action" ELSE "log_snapshot"
<1>1. /\ proc[w].pc = "copy" /\ disk[a.target] \in FileData
      /\ copy' = [copy EXCEPT ![s] = disk[a.target]]
      /\ dir' = [dir EXCEPT ![s] = IF Exists(s) THEN dir[s] ELSE "fresh"]
      /\ UNCHANGED <<status, snapshot_id, snapshots, granted, entered>>
  BY DEF CopyFile, db, history
<1>2. Moved(w, pc)
  BY GotoEffect DEF CopyFile, IInv, TypeOK, Pcs
<1>3. a \in Actions /\ s \in SnapIds /\ proc[w].op \in {"protect", "execute"}
  BY <1>1 DEF IInv, ProcOK
<1>4. /\ \A b \in Actions : s \notin Rows(b)
      /\ \A x \in Workers \ {w} : proc[x].snap # s
  BY <1>1 DEF LInv, Written, Distinct, Apart
<1>5. dir'[s] # "unused" /\ copy'[s] \in FileData
  BY <1>1, <1>3 DEF Exists, IInv, TypeOK
<1>6. \A x \in Workers \ {w} : proc[x].pc # "idle" => Undisturbed(proc[x])
  <2>1. \A t \in SnapIds \ {s} : copy'[t] = copy[t] /\ dir'[t] = dir[t]
    BY <1>1 DEF IInv, TypeOK
  <2> SUFFICES ASSUME NEW x \in Workers \ {w}, proc[x].pc # "idle" PROVE Undisturbed(proc[x])
    OBVIOUS
  <2>2. proc[x].snap \in SnapIds /\ Kept(proc[x].act, proc[x].snap)
          => Kept(proc[x].act, proc[x].snap)'
    BY <1>2, <1>4, <2>1 DEF Kept, Exists, Moved
  <2>3. proc'[x] = proc[x] /\ proc[x].snap # s
    BY <1>2, <1>4 DEF Moved
  <2>4. proc[x].snap \in SnapIds => dir'[proc[x].snap] = dir[proc[x].snap]
    BY <2>1, <2>3
  <2>5. QED
    BY <1>1, <2>2, <2>3, <2>4 DEF Undisturbed, Rows
<1>7. \A x \in Workers \ {w} : (Placed(proc[x]) /\ Written(proc[x]))'
  BY <1>2, <1>6, OthersKeep DEF Moved
<1>8. (Placed(proc[w]) /\ Written(proc[w]))'
  BY <1>1, <1>2, <1>3, <1>5 DEF LInv, Placed, Written, Moved, Unlogged, Kept, Rows
<1>9. Distinct'
  BY <1>2, GoesOnApart DEF Pcs
<1>10. (\A b \in Actions : Accounted(b)') /\ StatusTruthful'
  BY <1>1, <1>4 DEF LInv, Accounted, StatusTruthful, Rows, Kept, Exists, IInv, TypeOK
<1>11. QED
  BY <1>7, <1>8, <1>9, <1>10 DEF LInv


LEMMA LogActionStep ==
  ASSUME IInv, LInv, NEW w \in Workers, LogAction(w)
  PROVE  LInv'
<1> DEFINE a == proc[w].act
           s == proc[w].snap
<1>1. /\ proc[w].pc = "log_action"
      /\ status' = [status EXCEPT ![a] = "pending"]
      /\ snapshot_id' = [snapshot_id EXCEPT ![a] = s]
      /\ UNCHANGED <<snapshots, dir, copy, granted, entered>>
  BY DEF LogAction, store, history
<1>2. Moved(w, "log_snapshot")
  BY GotoEffect DEF LogAction, IInv, TypeOK, Pcs
<1>3. /\ a \in Actions /\ s \in SnapIds /\ proc[w].op = "protect"
      /\ status[a] = "absent" /\ a \notin entered
  BY <1>1 DEF IInv, ProcOK, LInv, Written, Unlogged, Accounted
<1>4. \A x \in Workers \ {w} : proc[x].pc # "idle" => proc[x].act # a
  BY <1>3, BusyActs DEF LInv, Written, Distinct, Apart, Unlogged
<1>5. \A x \in Workers \ {w} : proc[x].pc # "idle" => Undisturbed(proc[x])
  BY <1>1, <1>2, <1>4, BusyActs DEF Undisturbed, Rows, Kept, Exists, Moved, IInv, TypeOK
<1>6. \A x \in Workers \ {w} : (Placed(proc[x]) /\ Written(proc[x]))'
  BY <1>2, <1>5, OthersKeep DEF Moved
<1>7. (Placed(proc[w]) /\ Written(proc[w]))'
  BY <1>1, <1>2, <1>3 DEF LInv, Placed, Written, Moved, Unlogged, Kept, Exists, Rows, IInv, TypeOK
<1>8. Distinct'
  BY <1>2, GoesOnApart DEF Pcs
<1>9. (\A b \in Actions : Accounted(b)') /\ StatusTruthful'
  BY <1>1, <1>3 DEF LInv, Accounted, StatusTruthful, Rows, Kept, Exists, IInv, TypeOK
<1>10. QED
  BY <1>6, <1>7, <1>8, <1>9 DEF LInv

(***************************************************************************)
(* add_snapshot: the rows of one action grow by one that can be used.      *)
(***************************************************************************)
LEMMA RowAdded ==
  ASSUME TypeOK, NEW a \in Actions, NEW s \in SnapIds, add_snapshot(a, s)
  PROVE  /\ Rows(a)' = Rows(a) \cup {s}
         /\ \A b \in Actions \ {a} : snapshots'[b] = snapshots[b] /\ Rows(b)' = Rows(b)
         /\ snapshots'[a] # <<>>
         /\ Len(snapshots'[a]) = Len(snapshots[a]) + 1
         /\ \A i \in DOMAIN snapshots[a] : snapshots'[a][i] = snapshots[a][i]
         /\ snapshots'[a][Len(snapshots'[a])] = s
<1>1. snapshots[a] \in Seq(SnapIds) /\ snapshots'[a] = Append(snapshots[a], s)
  BY DEF TypeOK, add_snapshot
<1>2. \A b \in Actions \ {a} : snapshots'[b] = snapshots[b]
  BY DEF TypeOK, add_snapshot
<1>3. /\ Len(snapshots'[a]) = Len(snapshots[a]) + 1
      /\ DOMAIN snapshots'[a] = 1 .. Len(snapshots[a]) + 1
      /\ DOMAIN snapshots[a] = 1 .. Len(snapshots[a])
      /\ \A i \in DOMAIN snapshots[a] : snapshots'[a][i] = snapshots[a][i]
      /\ snapshots'[a][Len(snapshots[a]) + 1] = s
      /\ Len(snapshots[a]) \in Nat
  BY <1>1
<1>4. Rows(a)' = Rows(a) \cup {s}
  BY <1>3 DEF Rows
<1>5. QED
  BY <1>2, <1>3, <1>4 DEF Rows

LEMMA RowStep ==
  ASSUME IInv, LInv, NEW w \in Workers, proc[w].pc = "log_snapshot",
         add_snapshot(proc[w].act, proc[w].snap), UNCHANGED <<dir, copy, granted>>,
         NEW pc \in {"body", "set_id"}, Moved(w, pc),
         pc = "body" <=> proc[w].op = "protect",
         entered' = IF pc = "body" THEN entered \cup {proc[w].act} ELSE entered
  PROVE  LInv'
<1> PICK a \in Actions, s \in SnapIds : a = proc[w].act /\ s = proc[w].snap
  BY DEF IInv, ProcOK
<1>1. status[a] # "absent" /\ proc[w].op \in {"protect", "execute"}
  BY BusyActs DEF IInv, ProcOK, LInv, Placed, Written, Unlogged, ProcRecords, Ops
<1>2. Kept(a, s) /\ UNCHANGED <<status, snapshot_id>>
  BY DEF LInv, Written, add_snapshot
<1>3. /\ Rows(a)' = Rows(a) \cup {s}
      /\ \A b \in Actions \ {a} : snapshots'[b] = snapshots[b] /\ Rows(b)' = Rows(b)
      /\ snapshots'[a] # <<>>
  BY RowAdded DEF IInv
<1>4. \A x \in Workers \ {w} : proc[x].pc # "idle" => Undisturbed(proc[x])
  <2> SUFFICES ASSUME NEW x \in Workers \ {w}, proc[x].pc # "idle" PROVE Undisturbed(proc[x])
    OBVIOUS
  <2>1. proc[x].pc = "copy" => proc[x].snap # s
    BY DEF LInv, Distinct, Apart
  <2>2. /\ proc'[x] = proc[x] /\ proc[x].act \in Actions
        /\ Rows(proc[x].act) \subseteq Rows(proc[x].act)'
    BY <1>3, BusyActs DEF Moved
  <2>3. QED
    BY <1>1, <1>2, <1>3, <2>1, <2>2 DEF Undisturbed, Kept, Exists
<1>5. \A x \in Workers \ {w} : (Placed(proc[x]) /\ Written(proc[x]))'
  BY <1>4, OthersKeep DEF Moved
<1>6. (Placed(proc[w]) /\ Written(proc[w]))'
  BY <1>1, <1>2, <1>3 DEF LInv, Placed, Written, Moved, Unlogged
<1>7. Distinct'
  BY GoesOnApart DEF Pcs
<1>8. \A b \in Actions : Accounted(b)'
  <2>1. pc = "body" => snapshot_id[a] \in Rows(a)'
    BY <1>3 DEF LInv, Written
  <2>2. QED
    BY <1>1, <1>2, <1>3, <2>1 DEF LInv, Accounted, Kept, Exists
<1>9. StatusTruthful'
  BY <1>2, <1>3 DEF LInv, StatusTruthful
<1>10. QED
  BY <1>5, <1>6, <1>7, <1>8, <1>9 DEF LInv

LEMMA SnapshotRowSteps ==
  ASSUME IInv, LInv, NEW w \in Workers, LogSnapshot(w) \/ ExecuteLogSnapshot(w)
  PROVE  LInv'
<1>1. CASE LogSnapshot(w)
  BY <1>1, GotoEffect, RowStep DEF LogSnapshot, LetThrough, store, IInv, TypeOK, Pcs
<1>2. CASE ExecuteLogSnapshot(w)
  BY <1>2, GotoEffect, RowStep DEF ExecuteLogSnapshot, store, history, IInv, TypeOK, Pcs
<1>3. QED
  BY <1>1, <1>2

LEMMA SetIdStep ==
  ASSUME IInv, LInv, NEW w \in Workers, update_action_snapshot_id(w)
  PROVE  LInv'
<1> DEFINE a == proc[w].act
           s == proc[w].snap
<1>1. /\ proc[w].pc = "set_id"
      /\ snapshot_id' = [snapshot_id EXCEPT ![a] = s]
      /\ UNCHANGED <<status, snapshots, dir, copy, granted, entered>>
  BY DEF update_action_snapshot_id, store, history
<1>2. Moved(w, "unlink")
  BY GotoEffect DEF update_action_snapshot_id, IInv, TypeOK, Pcs
<1>3. a \in Actions /\ s \in Rows(a) /\ proc[w].op = "execute" /\ status[a] # "absent"
  BY <1>1 DEF IInv, ProcOK, LInv, Written
<1>4. \A x \in Workers \ {w} : proc[x].pc # "idle" => Undisturbed(proc[x])
  BY <1>1, <1>2, <1>3, BusyActs DEF Undisturbed, Rows, Kept, Exists, Moved, IInv, TypeOK
<1>5. \A x \in Workers \ {w} : (Placed(proc[x]) /\ Written(proc[x]))'
  BY <1>2, <1>4, OthersKeep DEF Moved
<1>6. (Placed(proc[w]) /\ Written(proc[w]))'
  BY <1>1, <1>2, <1>3 DEF LInv, Placed, Written, Moved, Unlogged, Kept, Exists, Rows, IInv, TypeOK
<1>7. Distinct'
  BY <1>2, GoesOnApart DEF Pcs
<1>8. (\A b \in Actions : Accounted(b)') /\ StatusTruthful'
  BY <1>1, <1>3 DEF LInv, Accounted, StatusTruthful, Rows, Kept, Exists, IInv, TypeOK
<1>9. QED
  BY <1>5, <1>6, <1>7, <1>8 DEF LInv

LEMMA UnlinkStep ==
  ASSUME IInv, LInv, NEW w \in Workers, Unlink(w)
  PROVE  LInv'
<1> DEFINE a == proc[w].act
<1>1. /\ proc[w].pc = "unlink" /\ entered' = entered \cup {a}
      /\ UNCHANGED <<status, snapshot_id, snapshots, dir, copy, granted>>
  BY DEF Unlink, LetThrough, db, store
<1>2. Moved(w, "succeed")
  BY GotoEffect DEF Unlink, IInv, TypeOK, Pcs
<1>3. /\ a \in Actions /\ proc[w].op = "execute" /\ status[a] # "absent"
      /\ proc[w].snap \in Rows(a) /\ snapshot_id[a] \in Rows(a)
  BY <1>1 DEF IInv, ProcOK, LInv, Written
<1>4. Quiet
  BY <1>1 DEF Quiet
<1>5. \A x \in Workers \ {w} : (Placed(proc[x]) /\ Written(proc[x]))'
  BY <1>2, <1>4, QuietOthers DEF Moved
<1>6. (Placed(proc[w]) /\ Written(proc[w]))'
  BY <1>1, <1>2, <1>3 DEF LInv, Placed, Written, Moved, Unlogged, Rows
<1>7. Distinct'
  BY <1>2, GoesOnApart DEF Pcs
<1>8. snapshots[a] # <<>>
  BY <1>3 DEF Rows
<1>9. (\A b \in Actions : Accounted(b)') /\ StatusTruthful'
  BY <1>1, <1>3, <1>8 DEF LInv, Accounted, StatusTruthful, Rows, Kept, Exists
<1>10. QED
  BY <1>5, <1>6, <1>7, <1>9 DEF LInv


(***************************************************************************)
(* Steps that touch directories and copies, but no table: what can be used *)
(* of a snapshot that is there stays whole.                                *)
(***************************************************************************)
Harmless == /\ UNCHANGED <<status, snapshot_id, snapshots, granted, entered>>
            /\ \A s \in SnapIds : dir[s] # "unused" => dir'[s] # "unused"
            /\ \A s \in SnapIds :
                 (Exists(s)' => Exists(s)) /\ (Exists(s)' => copy'[s] = copy[s])

LEMMA HarmlessUndisturbed ==
  ASSUME Harmless, NEW p, p.act \in Actions
  PROVE  Undisturbed(p)
BY DEF Harmless, Undisturbed, Kept, Rows

LEMMA HarmlessRows ==
  ASSUME TypeOK, LInv, Harmless
  PROVE  (\A a \in Actions : Accounted(a)') /\ StatusTruthful'
<1>1. \A a \in Actions : Rows(a)' = Rows(a) /\ Rows(a) \subseteq SnapIds
  BY DEF Harmless, Rows, TypeOK
<1>2. QED
  BY <1>1 DEF Harmless, LInv, Accounted, StatusTruthful, Kept

LEMMA CleanupLInv ==
  ASSUME IInv, LInv, NEW s \in SnapIds, GrowOld(s) \/ Cleanup(s)
  PROVE  LInv'
<1>1. /\ UNCHANGED <<status, snapshot_id, snapshots, granted, entered, proc>>
      /\ dir[s] \in {"fresh", "old"} /\ dir'[s] \in {"old", "removed"}
      /\ dir'[s] = "old" => copy'[s] = copy[s]
      /\ \A t \in SnapIds \ {s} : dir'[t] = dir[t] /\ copy'[t] = copy[t]
  BY ValuesAssumption DEF GrowOld, Cleanup, db, history, IInv, TypeOK
<1>2. Harmless
  BY <1>1 DEF Harmless, Exists
<1>3. \A x \in Workers : proc[x].pc # "idle" => Undisturbed(proc[x])
  BY <1>2, BusyActs, HarmlessUndisturbed
<1>4. \A x \in Workers : (Placed(proc[x]) /\ Written(proc[x]))'
  BY <1>1, <1>3, OthersKeep
<1>5. Distinct'
  BY <1>1 DEF LInv, Distinct, Apart
<1>6. QED
  BY <1>2, <1>4, <1>5, HarmlessRows DEF LInv, IInv

LEMMA CutShortLInv ==
  ASSUME IInv, LInv, NEW w \in Workers, CutShort(w), proc[w] # Idle, dir' = dir,
         UNCHANGED <<status, snapshot_id, snapshots, granted, entered>>,
         \A x \in Workers \ {w} : proc'[x] = proc[x]
  PROVE  /\ \A x \in Workers \ {w} : (Placed(proc[x]) /\ Written(proc[x]))'
         /\ \A a \in Actions : Accounted(a)'
         /\ StatusTruthful'
<1> DEFINE s == proc[w].snap
<1>1. \/ copy' = copy
      \/ proc[w].pc = "copy" /\ s \in SnapIds /\ copy' = [copy EXCEPT ![s] = Partial]
  BY DEF CutShort, IInv, ProcOK
<1>2. CASE copy' = copy
  <2>1. Quiet /\ entered' = entered
    BY <1>2 DEF Quiet
  <2>2. QED
    BY <2>1, QuietOthers, QuietRows DEF LInv, StatusTruthful
<1>3. CASE proc[w].pc = "copy" /\ s \in SnapIds /\ copy' = [copy EXCEPT ![s] = Partial]
  <2>1. /\ \A b \in Actions : s \notin Rows(b)
        /\ \A x \in Workers \ {w} : proc[x].snap # s
    BY <1>3 DEF LInv, Written, Distinct, Apart
  <2>2. \A t \in SnapIds \ {s} : copy'[t] = copy[t]
    BY <1>3, ValuesAssumption DEF IInv, TypeOK
  <2>3. \A x \in Workers \ {w} : proc[x].pc # "idle" => Undisturbed(proc[x])
    BY <2>1, <2>2, BusyActs DEF Undisturbed, Kept, Exists, Rows
  <2>4. \A a \in Actions : Accounted(a)'
    <3>1. \A a \in Actions : Rows(a)' = Rows(a) /\ Rows(a) \subseteq SnapIds
      BY DEF Rows, IInv, TypeOK
    <3>2. QED
      BY <2>1, <2>2, <3>1 DEF LInv, Accounted, Kept, Exists
  <2>5. StatusTruthful'
    BY DEF LInv, StatusTruthful
  <2>6. QED
    BY <2>3, <2>4, <2>5, OthersKeep
<1>4. QED
  BY <1>1, <1>2, <1>3

LEMMA DieLInv ==
  ASSUME IInv, LInv, NEW w \in Workers, Die(w)
  PROVE  LInv'
<1>1. /\ Return(w) /\ CutShort(w) /\ proc[w] # Idle /\ dir' = dir
      /\ UNCHANGED <<status, snapshot_id, snapshots, granted, entered>>
  BY DEF Die, db, history
<1>2. proc'[w] = Idle /\ \A x \in Workers \ {w} : proc'[x] = proc[x]
  BY <1>1, ReturnEffect DEF IInv, TypeOK
<1>3. (Placed(proc[w]) /\ Written(proc[w]))'
  BY <1>2, IdleKeeps DEF Placed, Written
<1>4. QED
  BY <1>1, <1>2, <1>3, CutShortLInv, EndsApart DEF LInv

LEMMA RaiseLInv ==
  ASSUME IInv, LInv, NEW w \in Workers, Raise(w)
  PROVE  LInv'
<1>1. /\ CutShort(w) /\ proc[w].op = "execute" /\ dir' = dir
      /\ UNCHANGED <<status, snapshot_id, snapshots, granted, entered>>
  BY DEF Raise, db, history
<1>2. Moved(w, "fail")
  BY GotoEffect DEF Raise, IInv, TypeOK, Pcs
<1>3. (Placed(proc[w]) /\ Written(proc[w]))'
  BY <1>1, <1>2 DEF LInv, Placed, Written, Moved, Unlogged
<1>4. proc[w] # Idle
  BY <1>1 DEF Idle
<1>5. Distinct'
  BY <1>2, GoesOnApart DEF Pcs
<1>6. QED
  BY <1>1, <1>2, <1>3, <1>4, <1>5, CutShortLInv DEF LInv, Moved

LEMMA LNext == IInv /\ LInv /\ [Next]_vars => LInv'
<1> SUFFICES ASSUME IInv, LInv, [Next]_vars PROVE LInv'
  OBVIOUS
<1>1. ASSUME NEW w \in Workers, Continue(w) PROVE LInv'
  BY <1>1, CopyStep, MoveSteps, LogActionStep, SnapshotRowSteps, SetIdStep, UnlinkStep,
     StatusEndSteps DEF Continue
<1>2. ASSUME NEW w \in Workers, NEW a \in Actions, Command(w, a) PROVE LInv'
  BY <1>2, AutoStep, BeginSnapshotLInv, RollbackStep DEF Command
<1>3. ASSUME NEW w \in Workers, NEW v \in Contents \cup {NoFile}, BodyWrite(w, v) PROVE LInv'
  BY <1>3, FileWriteSteps DEF BodyWrite, history
<1>4. ASSUME NEW f \in Files, NEW v \in Contents \cup {NoFile}, OtherWrite(f, v) PROVE LInv'
  BY <1>4, FileWriteSteps DEF OtherWrite, history
<1>5. CASE UNCHANGED vars
  BY <1>5, FileWriteSteps DEF vars, history
<1>6. QED
  BY <1>1, <1>2, <1>3, <1>4, <1>5, DieLInv, RaiseLInv, DecisionSteps, HoldStep, CleanupLInv
  DEF Next

LEMMA LInvariance == Spec => [](IInv /\ LInv)
<1>1. Init => IInv /\ LInv
  BY InitIInv, LInit
<1>2. IInv /\ LInv /\ [Next]_vars => IInv' /\ LInv'
  BY NextIInv, LNext
<1>3. QED
  BY <1>1, <1>2, PTL DEF Spec

(***************************************************************************)
(* core/interceptor.py writes directory, rows and file in three stores: a  *)
(* process that dies or races anywhere in between leaves no action that    *)
(* was let through without a snapshot, and no row of a snapshot that is    *)
(* there and not whole.                                                    *)
(***************************************************************************)
THEOREM SnapshotsComeFirst == Spec => []SnapshotBeforeChange
<1>1. LInv => SnapshotBeforeChange
  BY DEF LInv, Accounted, Kept, SnapshotBeforeChange
<1>2. QED
  BY <1>1, LInvariance, PTL

(***************************************************************************)
(* A death between add_action and add_snapshot leaves a row without its    *)
(* snapshot, but only of an action that touched nothing.                   *)
(***************************************************************************)
THEOREM DanglingRowsAreHarmless == Spec => []DanglingMeansUntouched
<1>1. LInv => DanglingMeansUntouched
  BY DEF LInv, Accounted, DanglingMeansUntouched
<1>2. QED
  BY <1>1, LInvariance, PTL

(***************************************************************************)
(* The statuses of the log are true of every action, also when `approve`,  *)
(* `reject`, `rollback` and a second `execute` meet it half-way.           *)
(***************************************************************************)
THEOREM StatusesAreTrue == Spec => []StatusTruthful
<1>1. LInv => StatusTruthful
  BY DEF LInv
<1>2. QED
  BY <1>1, LInvariance, PTL


-------------------------------------------------------------------------------
(***************************************************************************)
(* The log only grows: a step writes one status, or adds one row.          *)
(***************************************************************************)
LEMMA StatusWriteKeeps ==
  ASSUME TypeOK, UNCHANGED snapshots,
         \/ UNCHANGED status
         \/ \E a \in Actions, new \in Statuses :
              /\ status' = [status EXCEPT ![a] = new]
              /\ new \in {"pending", "blocked"} => status[a] = "absent"
  PROVE  LedgerStep
<1>1. \A a \in Actions : status[a] \in Statuses \cup {"absent"} /\ Len(snapshots[a]) \in Nat
  BY DEF TypeOK
<1>2. CASE UNCHANGED status
  BY <1>1, <1>2 DEF LedgerStep
<1>3. ASSUME NEW b \in Actions, NEW new \in Statuses,
             status' = [status EXCEPT ![b] = new],
             new \in {"pending", "blocked"} => status[b] = "absent"
      PROVE  LedgerStep
  <2>1. \A a \in Actions : status'[a] = IF a = b THEN new ELSE status[a]
    BY <1>3 DEF TypeOK
  <2>2. QED
    BY <1>1, <1>3, <2>1 DEF LedgerStep
<1>4. QED
  BY <1>2, <1>3

LEMMA RowAddedKeeps ==
  ASSUME TypeOK, NEW a \in Actions, NEW s \in SnapIds, add_snapshot(a, s)
  PROVE  LedgerStep
<1>1. /\ Len(snapshots'[a]) = Len(snapshots[a]) + 1
      /\ \A i \in DOMAIN snapshots[a] : snapshots'[a][i] = snapshots[a][i]
      /\ \A b \in Actions \ {a} : snapshots'[b] = snapshots[b]
  BY RowAdded
<1>2. \A b \in Actions : status[b] \in Statuses \cup {"absent"} /\ Len(snapshots[b]) \in Nat
  BY DEF TypeOK
<1>3. status' = status
  BY DEF add_snapshot
<1>4. QED
  BY <1>1, <1>2, <1>3 DEF LedgerStep

LEMMA ContinueKeeps ==
  ASSUME IInv, LInv, NEW w \in Workers, Continue(w)
  PROVE  LedgerStep
<1> USE DEF IInv
<1>1. CASE LogSnapshot(w) \/ ExecuteLogSnapshot(w)
  <2>1. proc[w].act \in Actions /\ proc[w].snap \in SnapIds
    BY <1>1 DEF LogSnapshot, ExecuteLogSnapshot, ProcOK
  <2>2. QED
    BY <1>1, <2>1, RowAddedKeeps DEF LogSnapshot, ExecuteLogSnapshot
<1>2. CASE LogAction(w)
  <2>1. proc[w].act \in Actions /\ status[proc[w].act] = "absent"
    BY <1>2 DEF LogAction, ProcOK, LInv, Written, Unlogged
  <2>2. QED
    BY <1>2, <2>1, StatusWriteKeeps DEF LogAction, Statuses
<1>3. CASE ExecuteEnd(w) \/ Mark(w) \/ \E outcome \in {"success", "failed"} : BodyExit(w, outcome)
  <2>1. proc[w].act \in Actions
    BY <1>3 DEF ExecuteEnd, Mark, BodyExit, ProcOK
  <2>2. \E new \in {"success", "failed", "rolled_back"} : update_action_status(proc[w].act, new)
    BY <1>3 DEF ExecuteEnd, Mark, BodyExit
  <2>3. QED
    BY <2>1, <2>2, StatusWriteKeeps DEF update_action_status, Statuses
<1>4. CASE \/ CopyFile(w) \/ CopyRefused(w) \/ update_action_snapshot_id(w) \/ Unlink(w)
           \/ UnlinkFails(w) \/ Restore(w) \/ RestoreFails(w)
  BY <1>4, StatusWriteKeeps DEF CopyFile, CopyRefused, update_action_snapshot_id, Unlink,
     UnlinkFails, Restore, RestoreFails, db
<1>5. QED
  BY <1>1, <1>2, <1>3, <1>4 DEF Continue

LEMMA NextKeeps == IInv /\ LInv /\ [Next]_vars => LedgerStep
<1> SUFFICES ASSUME IInv, LInv, [Next]_vars PROVE LedgerStep
  OBVIOUS
<1> USE DEF IInv
<1>1. ASSUME NEW w \in Workers, NEW a \in Actions, Command(w, a) PROVE LedgerStep
  <2>1. CASE ProtectAuto(w, a)
    BY <2>1, NewActs, StatusWriteKeeps DEF ProtectAuto, update_action_status, Statuses
  <2>2. CASE \/ \E s \in SnapIds : ProtectSnapshot(w, a, s) \/ Execute(w, a, s)
             \/ Rollback(w, a)
    BY <2>2, StatusWriteKeeps DEF ProtectSnapshot, Execute, Rollback, db
  <2>3. QED
    BY <1>1, <2>1, <2>2 DEF Command
<1>2. ASSUME NEW a \in Actions, ProtectHold(a) PROVE LedgerStep
  <2>1. \E new \in {"pending", "blocked"} : update_action_status(a, new)
    BY <1>2 DEF ProtectHold
  <2>2. QED
    BY <1>2, <2>1, NewActs, StatusWriteKeeps DEF ProtectHold, update_action_status, Statuses
<1>3. ASSUME NEW a \in Actions, Approve(a) \/ Reject(a) PROVE LedgerStep
  BY <1>3, StatusWriteKeeps DEF Approve, Reject, update_action_status, Statuses
<1>4. ASSUME UNCHANGED db PROVE LedgerStep
  BY <1>4, StatusWriteKeeps DEF db
<1>5. QED
  BY <1>1, <1>2, <1>3, <1>4, ContinueKeeps
  DEF Next, vars, Die, Raise, BodyWrite, GrowOld, Cleanup, OtherWrite

(***************************************************************************)
(* No command and no death takes a row out of the log, and none makes a    *)
(* decided or finished action look undecided: core/log.py only inserts and *)
(* updates, and what every caller updates with keeps to this.              *)
(***************************************************************************)
THEOREM LogOnlyGrows == Spec => LedgerKept
<1>1. IInv /\ LInv /\ [Next]_vars => [LedgerStep]_vars
  BY NextKeeps
<1>2. QED
  BY <1>1, LInvariance, PTL DEF Spec, LedgerKept


-------------------------------------------------------------------------------
(***************************************************************************)
(* While nobody dies, a pending action that no policy holds back has its   *)
(* with-block running.                                                     *)
(***************************************************************************)
BlockOf(a) == \E w \in Workers : proc[w].act = a /\ proc[w].op = "protect"

LEMMA StillPending ==
  ASSUME IInv, PendingIsExplained,
         \A a \in Actions : status'[a] = "pending" /\ ~HeldBack(a)
                              => status[a] = "pending" \/ BlockOf(a)',
         \A w \in Workers : \/ proc'[w].act = proc[w].act /\ proc'[w].op = proc[w].op
                            \/ proc[w].op # "protect"
                            \/ status'[proc[w].act] # "pending"
  PROVE  PendingIsExplained'
BY DEF PendingIsExplained, list_pending_actions, BlockOf

LEMMA MoveExplains ==
  ASSUME IInv, PendingIsExplained, NEW w \in Workers, NEW pc \in Pcs, Goto(w, pc),
         \/ UNCHANGED status
         \/ proc[w].act \in Actions /\ proc[w].op = "protect"
            /\ status' = [status EXCEPT ![proc[w].act] = "pending"]
  PROVE  PendingIsExplained'
<1>1. Moved(w, pc)
  BY GotoEffect DEF IInv, TypeOK
<1>2. QED
  BY <1>1, StillPending DEF Moved, BlockOf, IInv, TypeOK

LEMMA ReturnExplains ==
  ASSUME IInv, LInv, PendingIsExplained, NEW w \in Workers, Return(w),
         \/ UNCHANGED status /\ (proc[w].op = "protect" => Unlogged(proc[w]))
         \/ \E new \in {"success", "failed", "rolled_back"} :
              update_action_status(proc[w].act, new)
  PROVE  PendingIsExplained'
<1>1. proc'[w] = Idle /\ \A x \in Workers \ {w} : proc'[x] = proc[x]
  BY ReturnEffect DEF IInv, TypeOK
<1>2. proc[w].op = "protect" => proc[w].act \in Actions /\ status'[proc[w].act] # "pending"
  BY DEF IInv, TypeOK, ProcOK, LInv, Written, update_action_status
<1>3. \A a \in Actions : status'[a] = "pending" => status[a] = "pending"
  BY DEF IInv, TypeOK, update_action_status
<1>4. QED
  BY <1>1, <1>2, <1>3, StillPending

LEMMA BeginExplains ==
  ASSUME IInv, PendingIsExplained, NEW w \in Workers, proc[w] = Idle,
         NEW op \in Ops, NEW pc \in Pcs, NEW a \in Actions, NEW s, Begin(w, op, pc, a, s),
         UNCHANGED status \/ (op = "protect" /\ status' = [status EXCEPT ![a] = "pending"])
  PROVE  PendingIsExplained'
<1>1. /\ proc'[w].op = op /\ proc'[w].act = a
      /\ \A x \in Workers \ {w} : proc'[x] = proc[x]
  BY DEF Begin, IInv, TypeOK
<1>2. proc[w].op # "protect"
  BY DEF Idle
<1>3. QED
  BY <1>1, <1>2, StillPending DEF BlockOf, IInv, TypeOK

LEMMA NextExplains ==
  ASSUME MaxFaults = 0
  PROVE  IInv /\ LInv /\ PendingIsExplained /\ [Next]_vars => PendingIsExplained'
<1> SUFFICES ASSUME IInv, LInv, PendingIsExplained, [Next]_vars PROVE PendingIsExplained'
  OBVIOUS
<1>1. ASSUME NEW w \in Workers, Continue(w) PROVE PendingIsExplained'
  <2>1. CASE \/ CopyFile(w) \/ LogAction(w) \/ LogSnapshot(w) \/ ExecuteLogSnapshot(w)
             \/ update_action_snapshot_id(w) \/ Unlink(w) \/ UnlinkFails(w) \/ Restore(w)
    BY <2>1, MoveExplains DEF CopyFile, LogAction, LogSnapshot, ExecuteLogSnapshot, add_snapshot,
       update_action_snapshot_id, Unlink, UnlinkFails, Restore, db, Pcs, IInv, ProcOK
  <2>2. CASE CopyRefused(w)
    BY <2>2, MoveExplains, ReturnExplains DEF CopyRefused, db, Pcs, Unlogged
  <2>3. CASE RestoreFails(w)
    BY <2>3, ReturnExplains DEF RestoreFails, db, LInv, Placed
  <2>4. CASE ExecuteEnd(w) \/ Mark(w) \/ \E outcome \in {"success", "failed"} : BodyExit(w, outcome)
    BY <2>4, ReturnExplains DEF ExecuteEnd, Mark, BodyExit
  <2>5. QED
    BY <1>1, <2>1, <2>2, <2>3, <2>4 DEF Continue
<1>2. ASSUME NEW w \in Workers, NEW a \in Actions, Command(w, a) PROVE PendingIsExplained'
  BY <1>2, BeginExplains DEF Command, ProtectAuto, ProtectSnapshot, Execute, Rollback, Free,
     update_action_status, db, Ops, Pcs
<1>3. ASSUME NEW a \in Actions, ProtectHold(a) PROVE PendingIsExplained'
  <2>1. HeldBack(a) /\ proc' = proc /\ \A b \in Actions \ {a} : status'[b] = status[b]
    BY <1>3 DEF ProtectHold, update_action_status, IInv, TypeOK
  <2>2. QED
    BY <2>1, StillPending
<1>4. ASSUME NEW a \in Actions, Approve(a) \/ Reject(a) PROVE PendingIsExplained'
  <2>1. /\ proc' = proc /\ status'[a] # "pending"
        /\ \A b \in Actions \ {a} : status'[b] = status[b]
    BY <1>4 DEF Approve, Reject, update_action_status, IInv, TypeOK
  <2>2. QED
    BY <2>1, StillPending
<1>5. ASSUME NEW w \in Workers, Die(w) \/ Raise(w) PROVE FALSE
  BY <1>5 DEF Die, Raise, Fault, IInv, TypeOK
<1>6. ASSUME UNCHANGED <<status, proc>> PROVE PendingIsExplained'
  BY <1>6, StillPending
<1>7. QED
  BY <1>1, <1>2, <1>3, <1>4, <1>5, <1>6
  DEF Next, vars, db, BodyWrite, GrowOld, Cleanup, OtherWrite

(***************************************************************************)
(* `runewall pending` lists only actions that wait for a human and blocks  *)
(* that are open, as long as no process dies: each way out of a with-block *)
(* writes a status, an exception too.                                      *)
(***************************************************************************)
THEOREM PendingExplained ==
  ASSUME MaxFaults = 0
  PROVE  Spec => []PendingIsExplained
<1>1. Init => PendingIsExplained
  BY DEF Init, PendingIsExplained, list_pending_actions
<1>2. IInv /\ LInv /\ PendingIsExplained /\ [Next]_vars => PendingIsExplained'
  BY NextExplains
<1>3. QED
  BY <1>1, <1>2, LInvariance, PTL DEF Spec


-------------------------------------------------------------------------------
(***************************************************************************)
(* What a snapshot holds, and what an approval is good for, when nobody    *)
(* dies and the files are taken in turn: no two processes are at work on   *)
(* one file, and other programs leave a file alone while a process is at   *)
(* work on it.  Any number of processes may be at work on other files.     *)
(***************************************************************************)
InTurn == \A w, x \in Workers :
  /\ proc[w] # Idle /\ proc[x] # Idle
  /\ proc[w].act.target = proc[x].act.target
  => w = x

Unmeddled == writes' # writes => \A w \in Workers :
  proc[w] # Idle => disk'[proc[w].act.target] = disk[proc[w].act.target]

\* The copy a process has made is its target as it now is, and execute goes
\* on with a target that is there.
HoldsNow(p) ==
  /\ /\ p.pc \in {"log_action", "log_snapshot", "set_id", "unlink"}
     /\ CopiesFile(p.act) /\ Exists(p.snap)
     => copy[p.snap] = disk[p.act.target]
  /\ p.op = "execute" /\ p.pc \in {"log_snapshot", "set_id", "unlink"}
     => disk[p.act.target] # NoFile
  /\ p.pc \in {"set_id", "unlink"}
     => snapshots[p.act] # <<>> /\ get_latest_snapshot_for_action(p.act) = p.snap

\* An action whose newest row is of an execution that has not unlinked yet.
Renewing(a) == \E w \in Workers : proc[w].act = a /\ proc[w].pc \in {"set_id", "unlink"}

BeforeImages ==
  \A a \in entered :
    /\ CopiesFile(a) /\ snapshots[a] # <<>> /\ ~Renewing(a)
    /\ Exists(get_latest_snapshot_for_action(a))
    => copy[get_latest_snapshot_for_action(a)] = before[a]

\* An approval that is not spent, or is just being spent.
Unspent == \A a \in Actions : status[a] = "approved" =>
             a \in fresh \/ \E w \in Workers : proc[w].act = a /\ proc[w].pc = "succeed"

Spending == \A w \in Workers :
  proc[w].op = "execute" /\ proc[w].pc \in {"copy", "log_snapshot", "set_id", "unlink"}
  => proc[w].act \in fresh

FInv == /\ \A w \in Workers : HoldsNow(proc[w])
        /\ BeforeImages
        /\ Unspent /\ Spending

(***************************************************************************)
(* A snapshot is of an action that was let through, or that is about to    *)
(* be: what a rollback undoes was done.                                    *)
(***************************************************************************)
Sourced == \A a \in Actions : snapshots[a] # <<>> =>
             status[a] # "absent" /\ (a \in entered \/ Renewing(a))

LEMMA LatestRow ==
  ASSUME TypeOK, NEW a \in Actions, snapshots[a] # <<>>
  PROVE  get_latest_snapshot_for_action(a) \in Rows(a) \cap SnapIds
BY DEF TypeOK, get_latest_snapshot_for_action, Rows

(***************************************************************************)
(* A process goes on finding its target and its snapshot as it left them,  *)
(* through a step that touches neither.                                    *)
(***************************************************************************)
LEMMA OthersHold ==
  ASSUME IInv, LInv, NEW x \in Workers, HoldsNow(proc[x]), proc'[x] = proc[x],
         proc[x] # Idle => /\ disk'[proc[x].act.target] = disk[proc[x].act.target]
                           /\ snapshots'[proc[x].act] = snapshots[proc[x].act],
         proc[x].snap \in SnapIds /\ Exists(proc[x].snap)'
           => Exists(proc[x].snap) /\ copy'[proc[x].snap] = copy[proc[x].snap]
  PROVE  HoldsNow(proc[x])'
<1>1. CASE proc[x] = Idle
  BY <1>1 DEF HoldsNow, Idle
<1>2. CASE proc[x] # Idle
  <2>1. proc[x].pc \in {"log_action", "log_snapshot", "set_id", "unlink"} => proc[x].snap \in SnapIds
    BY DEF IInv, ProcOK
  <2>2. QED
    BY <1>2, <2>1 DEF HoldsNow, Exists, get_latest_snapshot_for_action
<1>3. QED
  BY <1>1, <1>2

\* Whoever else is at work is at work on another file, for another action.
LEMMA OthersElsewhere ==
  ASSUME InTurn, NEW w \in Workers, proc[w] # Idle,
         NEW x \in Workers \ {w}, proc[x] # Idle
  PROVE  proc[x].act.target # proc[w].act.target /\ proc[x].act # proc[w].act
BY DEF InTurn

\* A step of one process that changes its own target, rows and snapshot only.
LEMMA OwnStepHolds ==
  ASSUME IInv, LInv, FInv, InTurn, NEW w \in Workers, proc[w] # Idle,
         \A x \in Workers \ {w} : proc'[x] = proc[x],
         HoldsNow(proc[w])',
         \A f \in Files : f # proc[w].act.target => disk'[f] = disk[f],
         \A a \in Actions : a # proc[w].act => snapshots'[a] = snapshots[a],
         \A s \in SnapIds : \/ s = proc[w].snap /\ proc[w].pc = "copy"
                            \/ Exists(s)' => Exists(s) /\ copy'[s] = copy[s]
  PROVE  \A x \in Workers : HoldsNow(proc[x])'
<1> SUFFICES ASSUME NEW x \in Workers \ {w} PROVE HoldsNow(proc[x])'
  OBVIOUS
<1>1. proc[x] # Idle => /\ disk'[proc[x].act.target] = disk[proc[x].act.target]
                        /\ snapshots'[proc[x].act] = snapshots[proc[x].act]
  BY OthersElsewhere, BusyActs, ActionsAssumption
<1>2. proc[w].pc = "copy" => proc[w].snap # proc[x].snap
  BY DEF LInv, Distinct, Apart
<1>3. QED
  BY <1>1, <1>2, OthersHold DEF FInv

LEMMA ImagesKept ==
  ASSUME IInv, LInv, BeforeImages, UNCHANGED <<snapshots, before, entered>>,
         \A a \in Actions : \A s \in Rows(a) : Exists(s)' => Exists(s) /\ copy'[s] = copy[s],
         \A a \in Actions : Renewing(a) => Renewing(a)'
  PROVE  BeforeImages'
BY LatestRow DEF BeforeImages, get_latest_snapshot_for_action, IInv, TypeOK


\* Steps of a command that writes no process down.
LEMMA OutsideSteps ==
  ASSUME IInv, LInv, FInv, Unmeddled,
         \/ \E a \in Actions : ProtectHold(a) \/ Approve(a) \/ Reject(a)
         \/ \E s \in SnapIds : Cleanup(s)
         \/ \E f \in Files, v \in Contents \cup {NoFile} : OtherWrite(f, v)
  PROVE  FInv'
<1>1. /\ UNCHANGED <<proc, snapshots, before, entered>>
      /\ \A s \in SnapIds : Exists(s)' => Exists(s) /\ copy'[s] = copy[s]
      /\ \A a \in Actions : status'[a] = "approved" => status[a] = "approved" \/ a \in fresh'
      /\ fresh \subseteq fresh'
  BY DEF ProtectHold, Approve, Reject, Cleanup, OtherWrite, update_action_status, store, history, db,
         Exists, IInv, TypeOK
<1>2. disk' = disk \/ writes' # writes
  BY DEF ProtectHold, Approve, Reject, Cleanup, OtherWrite, IInv, TypeOK
<1>3. \A x \in Workers : HoldsNow(proc[x])'
  BY <1>1, <1>2, OthersHold DEF FInv, Unmeddled
<1>4. BeforeImages'
  <2>1. \A a \in Actions : Rows(a) \subseteq SnapIds
    BY DEF IInv, TypeOK, Rows
  <2>2. QED
    BY <1>1, <2>1, ImagesKept DEF FInv, Renewing
<1>5. Unspent' /\ Spending'
  BY <1>1 DEF FInv, Unspent, Spending
<1>6. QED
  BY <1>3, <1>4, <1>5 DEF FInv

\* A command begins: no row is written yet, and the approval that execute
\* read is not being spent by anybody else.
LEMMA CommandFInv ==
  ASSUME IInv, LInv, FInv, Sourced, InTurn', NEW w \in Workers, NEW a \in Actions, Command(w, a)
  PROVE  FInv'
<1>1. /\ proc[w] = Idle
      /\ UNCHANGED <<snapshots, copy, disk, fresh>>
      /\ \A b \in Actions : status'[b] = "approved" => status[b] = "approved"
      /\ \A x \in Workers \ {w} : proc'[x] = proc[x]
      /\ proc'[w].pc \in {"body", "copy", "log_action", "restore"}
      /\ proc'[w].pc = "log_action" => ~CopiesFile(proc'[w].act)
      /\ proc'[w].op = "execute" => status[proc'[w].act] = "approved" /\ proc'[w].act \in Actions
  BY DEF Command, ProtectAuto, ProtectSnapshot, Execute, Rollback, Free, Begin, MakeDir,
     update_action_status, db, store, history, LetThrough, IInv, TypeOK
<1>2. \/ dir' = dir
      \/ \E s \in SnapIds : dir[s] = "unused" /\ dir' = [dir EXCEPT ![s] = "fresh"]
  BY DEF Command, ProtectAuto, ProtectSnapshot, Execute, Rollback, MakeDir, store
<1>3. ASSUME NEW t \in SnapIds, dir[t] # "unused" PROVE Exists(t)' = Exists(t)
  BY <1>2, <1>3 DEF Exists, IInv, TypeOK
<1>4. \A x \in Workers : HoldsNow(proc[x])'
  <2>1. HoldsNow(proc[w])'
    BY <1>1 DEF HoldsNow
  <2>2. ASSUME NEW x \in Workers \ {w} PROVE HoldsNow(proc[x])'
    <3>1. proc[x].snap \in SnapIds => dir[proc[x].snap] # "unused"
      BY DEF LInv, Written
    <3>2. QED
      BY <1>1, <1>3, <3>1, OthersHold DEF FInv
  <2>3. QED
    BY <2>1, <2>2
<1>5. Unspent'
  BY <1>1 DEF FInv, Unspent, Idle
<1>6. Spending'
  <2>1. ASSUME proc'[w].op = "execute" PROVE proc'[w].act \in fresh
    <3>1. ASSUME NEW x \in Workers, proc[x].act = proc'[w].act, proc[x].pc = "succeed" PROVE FALSE
      <4>1. x # w /\ proc'[x] = proc[x] /\ proc[x] # Idle /\ proc'[w] # Idle
        BY <1>1, <3>1 DEF Idle
      <4>2. QED
        BY <3>1, <4>1 DEF InTurn
    <3>2. QED
      BY <1>1, <2>1, <3>1 DEF FInv, Unspent
  <2>2. QED
    BY <1>1, <2>1 DEF FInv, Spending
<1>7. \A b \in Actions : Renewing(b) => Renewing(b)'
  BY <1>1 DEF Renewing, Idle
<1>8. \A b \in Actions : \A t \in Rows(b) : Exists(t)' => Exists(t) /\ copy'[t] = copy[t]
  <2>1. \A b \in Actions : \A t \in Rows(b) : t \in SnapIds /\ dir[t] # "unused"
    BY DEF LInv, Accounted, Kept, Rows, IInv, TypeOK
  <2>2. QED
    BY <1>1, <1>3, <2>1
<1>9. BeforeImages'
  <2>1. CASE ProtectAuto(w, a)
    <3>1. /\ \A b \in entered' : b # a => b \in entered /\ b \in Actions /\ before'[b] = before[b]
          /\ snapshots[a] = <<>> /\ UNCHANGED <<snapshots, dir, copy>>
      BY <2>1 DEF ProtectAuto, LetThrough, store, update_action_status, New, Submitted, Sourced,
         IInv, TypeOK
    <3>2. QED
      BY <1>7, <3>1 DEF FInv, BeforeImages, get_latest_snapshot_for_action, Exists
  <2>2. CASE ~ProtectAuto(w, a)
    <3>1. UNCHANGED <<snapshots, before, entered>>
      BY <2>2 DEF Command, ProtectSnapshot, Execute, Rollback, db, history
    <3>2. QED
      BY <1>7, <1>8, <3>1, ImagesKept DEF FInv
  <2>3. QED
    BY <2>1, <2>2
<1>10. QED
  BY <1>4, <1>5, <1>6, <1>9 DEF FInv


(***************************************************************************)
(* A step of a process at work that neither writes nor takes away a row,   *)
(* and lets nothing through.                                               *)
(***************************************************************************)
LEMMA QuietGoing ==
  ASSUME IInv, LInv, FInv, InTurn, NEW w \in Workers, proc[w] # Idle,
         proc'[w] = Idle \/ \E pc \in Pcs : Moved(w, pc),
         \A x \in Workers \ {w} : proc'[x] = proc[x],
         HoldsNow(proc[w])', Spending',
         UNCHANGED <<snapshots, before, entered, fresh>>,
         \A f \in Files : f # proc[w].act.target => disk'[f] = disk[f],
         \A s \in SnapIds : \/ s = proc[w].snap /\ proc[w].pc = "copy"
                            \/ Exists(s)' => Exists(s) /\ copy'[s] = copy[s],
         proc[w].pc \in {"set_id", "unlink"} => Moved(w, "unlink"),
         \A a \in Actions : status'[a] = "approved" => status[a] = "approved",
         proc[w].pc = "succeed" => status'[proc[w].act] # "approved"
  PROVE  FInv'
<1>1. \A x \in Workers : HoldsNow(proc[x])'
  BY OwnStepHolds
<1>2. \A a \in Actions : Renewing(a) => Renewing(a)'
  BY DEF Renewing, Moved
<1>3. \A a \in Actions : \A s \in Rows(a) : Exists(s)' => Exists(s) /\ copy'[s] = copy[s]
  <2>1. \A a \in Actions : Rows(a) \subseteq SnapIds
    BY DEF IInv, TypeOK, Rows
  <2>2. proc[w].pc = "copy" => \A a \in Actions : proc[w].snap \notin Rows(a)
    BY DEF LInv, Written
  <2>3. QED
    BY <2>1, <2>2
<1>4. BeforeImages'
  BY <1>2, <1>3, ImagesKept DEF FInv
<1>5. Unspent'
  BY DEF FInv, Unspent
<1>6. QED
  BY <1>1, <1>4, <1>5 DEF FInv

LEMMA SpendingStays ==
  ASSUME FInv, NEW w \in Workers, proc[w] # Idle, fresh' = fresh,
         \A x \in Workers \ {w} : proc'[x] = proc[x],
         \/ proc'[w] = Idle
         \/ \E pc \in Pcs : Moved(w, pc)
                            /\ (proc[w].op = "execute" /\ pc # "fail"
                                 => proc[w].pc \in {"copy", "log_snapshot", "set_id"})
  PROVE  Spending'
BY DEF FInv, Spending, Idle, Moved

LEMMA EndsFInv ==
  ASSUME IInv, LInv, FInv, InTurn, NEW w \in Workers, proc[w] # Idle, Return(w),
         UNCHANGED <<disk, snapshots, store, history>>, proc[w].pc \notin {"set_id", "unlink"},
         \/ UNCHANGED status /\ proc[w].pc # "succeed"
         \/ \E new \in Statuses \ {"approved"} : status' = [status EXCEPT ![proc[w].act] = new]
  PROVE  FInv'
<1>1. proc'[w] = Idle /\ \A x \in Workers \ {w} : proc'[x] = proc[x]
  BY ReturnEffect DEF IInv, TypeOK
<1>2. HoldsNow(proc[w])' /\ Spending'
  BY <1>1, SpendingStays DEF HoldsNow, Idle, history
<1>3. /\ \A a \in Actions : status'[a] = "approved" => status[a] = "approved"
      /\ proc[w].pc = "succeed" => status'[proc[w].act] # "approved"
  BY DEF IInv, TypeOK, ProcOK, Statuses
<1>4. QED
  BY <1>1, <1>2, <1>3, QuietGoing DEF store, history, Exists

LEMMA EndStepsFInv ==
  ASSUME IInv, LInv, FInv, InTurn, NEW w \in Workers,
         \/ ExecuteEnd(w) \/ Mark(w) \/ RestoreFails(w)
         \/ \E outcome \in {"success", "failed"} : BodyExit(w, outcome)
         \/ CopyRefused(w) /\ Return(w)
  PROVE  FInv'
<1>1. proc[w] # Idle
  BY DEF ExecuteEnd, Mark, RestoreFails, BodyExit, CopyRefused, Idle
<1>2. QED
  BY <1>1, EndsFInv DEF ExecuteEnd, Mark, RestoreFails, BodyExit, CopyRefused, db,
     update_action_status, Statuses


LEMMA CopyFInv ==
  ASSUME IInv, LInv, FInv, InTurn, NEW w \in Workers, CopyFile(w)
  PROVE  FInv'
<1> PICK a \in Actions, s \in SnapIds : a = proc[w].act /\ s = proc[w].snap
  BY DEF CopyFile, IInv, ProcOK
<1>1. /\ proc[w] # Idle /\ proc[w].pc = "copy"
      /\ disk[a.target] \in FileData
      /\ copy' = [copy EXCEPT ![s] = disk[a.target]]
      /\ UNCHANGED <<disk, status, snapshots, before, entered, fresh>>
  BY DEF CopyFile, Idle, db, history
<1>2. PICK pc \in {"log_action", "log_snapshot"} : Moved(w, pc)
  BY GotoEffect DEF CopyFile, Pcs, IInv, TypeOK
<1>3. HoldsNow(proc[w])'
  BY <1>1, <1>2, ValuesAssumption DEF HoldsNow, Moved, IInv, TypeOK
<1>4. Spending'
  BY <1>1, <1>2, SpendingStays DEF Moved, Pcs
<1>5. \A t \in SnapIds \ {s} : copy'[t] = copy[t] /\ Exists(t)' = Exists(t)
  <2>1. dir' = [dir EXCEPT ![s] = IF Exists(s) THEN dir[s] ELSE "fresh"]
    BY DEF CopyFile
  <2>2. QED
    BY <1>1, <2>1 DEF Exists, IInv, TypeOK
<1>6. QED
  BY <1>1, <1>2, <1>3, <1>4, <1>5, QuietGoing DEF Moved, Pcs

LEMMA GoesOnFInv ==
  ASSUME IInv, LInv, FInv, InTurn, NEW w \in Workers,
         \/ LogAction(w) \/ update_action_snapshot_id(w) \/ Restore(w)
         \/ CopyRefused(w) /\ Goto(w, "fail")
  PROVE  FInv'
<1>1. /\ proc[w] # Idle /\ UNCHANGED <<snapshots, before, entered, fresh, store>>
      /\ \A b \in Actions : status'[b] = "approved" => status[b] = "approved"
      /\ \A f \in Files : f # proc[w].act.target => disk'[f] = disk[f]
  BY DEF CopyRefused, LogAction, update_action_snapshot_id, Restore, Idle, db, history, IInv, TypeOK
<1>2. PICK pc \in Pcs : /\ Moved(w, pc)
                        /\ \/ pc \in {"fail", "mark"} /\ proc[w].pc \in {"copy", "restore"}
                           \/ /\ <<proc[w].pc, pc>> \in {<<"log_action", "log_snapshot">>, <<"set_id", "unlink">>}
                              /\ disk' = disk
  BY GotoEffect DEF CopyRefused, LogAction, update_action_snapshot_id, Restore, Pcs, IInv, TypeOK
<1>3. /\ proc[w].pc = "log_action" => proc[w].op = "protect"
      /\ proc[w].pc = "restore" => proc[w].op = "rollback"
  BY DEF IInv, ProcOK, TypeOK, ProcRecords, Ops, LInv, Placed
<1>4. HoldsNow(proc[w])'
  BY <1>1, <1>2, <1>3 DEF FInv, HoldsNow, Moved, store, Exists, get_latest_snapshot_for_action
<1>5. Spending'
  BY <1>1, <1>2, <1>3, SpendingStays DEF Moved
<1>6. QED
  BY <1>1, <1>2, <1>4, <1>5, QuietGoing DEF Moved, store, Exists

LEMMA BodyWriteFInv ==
  ASSUME IInv, LInv, FInv, InTurn,
         NEW w \in Workers, NEW v \in Contents \cup {NoFile}, BodyWrite(w, v)
  PROVE  FInv'
<1>1. /\ proc[w].pc = "body" /\ proc[w] # Idle
      /\ UNCHANGED <<proc, status, snapshots, before, entered, fresh, dir, copy>>
      /\ \A f \in Files : f # proc[w].act.target => disk'[f] = disk[f]
  BY DEF BodyWrite, db, store, history, Idle, IInv, TypeOK
<1>2. HoldsNow(proc[w])'
  BY <1>1 DEF HoldsNow, IInv, ProcOK
<1>3. \A x \in Workers : HoldsNow(proc[x])'
  BY <1>1, <1>2, OwnStepHolds DEF Exists
<1>4. QED
  BY <1>1, <1>3, ImagesKept DEF FInv, Unspent, Spending, Renewing, Exists

LEMMA GrowOldFInv ==
  ASSUME IInv, LInv, FInv, NEW s \in SnapIds, GrowOld(s)
  PROVE  FInv'
<1>1. /\ UNCHANGED <<disk, proc, status, snapshots, before, entered, fresh, copy>>
      /\ \A t \in SnapIds : Exists(t)' = Exists(t)
  BY DEF GrowOld, db, history, Exists, IInv, TypeOK
<1>2. \A a \in Actions : Rows(a) \subseteq SnapIds
  BY DEF Rows, IInv, TypeOK
<1>3. BeforeImages'
  BY <1>1, <1>2, ImagesKept DEF FInv, Renewing
<1>4. \A w \in Workers : HoldsNow(proc[w])'
  BY <1>1 DEF FInv, HoldsNow, IInv, ProcOK, get_latest_snapshot_for_action
<1>5. QED
  BY <1>1, <1>3, <1>4 DEF FInv, Unspent, Spending


\* The row of a new snapshot: its action now goes back to what it holds.
LEMMA RowFInv ==
  ASSUME IInv, LInv, FInv, InTurn, NEW w \in Workers, LogSnapshot(w) \/ ExecuteLogSnapshot(w)
  PROVE  FInv'
<1> PICK a \in Actions, s \in SnapIds : a = proc[w].act /\ s = proc[w].snap
  BY DEF LogSnapshot, ExecuteLogSnapshot, IInv, ProcOK
<1>1. /\ proc[w].pc = "log_snapshot" /\ proc[w] # Idle /\ add_snapshot(a, s)
      /\ UNCHANGED <<disk, dir, copy, fresh, status>>
  BY DEF LogSnapshot, ExecuteLogSnapshot, add_snapshot, store, history, Idle
<1>2. PICK pc \in {"body", "set_id"} :
        /\ Moved(w, pc)
        /\ pc = "body" => /\ proc[w].op = "protect" /\ entered' = entered \cup {a}
                          /\ before' = [before EXCEPT ![a] = disk[a.target]]
        /\ pc = "set_id" => UNCHANGED <<entered, before>>
  BY GotoEffect DEF LogSnapshot, ExecuteLogSnapshot, LetThrough, history, Pcs, IInv, TypeOK
<1>3. /\ snapshots'[a] # <<>> /\ get_latest_snapshot_for_action(a)' = s
      /\ \A b \in Actions \ {a} : snapshots'[b] = snapshots[b]
  BY <1>1, RowAdded DEF get_latest_snapshot_for_action, IInv
<1>4. \A x \in Workers : HoldsNow(proc[x])'
  <2>1. HoldsNow(proc[w])'
    BY <1>1, <1>2, <1>3 DEF FInv, HoldsNow, Moved, Exists
  <2>2. QED
    BY <1>1, <1>2, <1>3, <2>1, OwnStepHolds DEF Moved, Exists
<1>5. Unspent' /\ Spending'
  BY <1>1, <1>2 DEF FInv, Unspent, Spending, Moved
<1>6. BeforeImages'
  <2>1. /\ \A b \in Actions : Renewing(b) => Renewing(b)'
        /\ pc = "set_id" => Renewing(a)'
    BY <1>1, <1>2 DEF Renewing, Moved
  <2>2. CopiesFile(a) /\ Exists(s)' => copy'[s] = disk[a.target]
    BY <1>1 DEF FInv, HoldsNow, Exists
  <2>3. \A b \in Actions \ {a} :
          get_latest_snapshot_for_action(b)' = get_latest_snapshot_for_action(b)
    BY <1>3 DEF get_latest_snapshot_for_action
  <2>4. a \in entered' /\ ~Renewing(a)' => before'[a] = disk[a.target]
    BY <1>2, <2>1 DEF IInv, TypeOK
  <2>5. \A b \in entered' \ {a} : b \in entered /\ b \in Actions /\ before'[b] = before[b]
    BY <1>2 DEF IInv, TypeOK
  <2>6. QED
    BY <1>1, <1>3, <2>1, <2>2, <2>3, <2>4, <2>5 DEF FInv, BeforeImages, Exists
<1>7. QED
  BY <1>4, <1>5, <1>6 DEF FInv

\* execute unlinks: what its snapshot holds is what it takes away, and the
\* approval it spends is nobody else's.
LEMMA UnlinkFInv ==
  ASSUME IInv, LInv, FInv, InTurn, NEW w \in Workers, Unlink(w)
  PROVE  FInv'
<1> PICK a \in Actions, s \in SnapIds : a = proc[w].act /\ s = proc[w].snap
  BY DEF Unlink, IInv, ProcOK
<1>1. /\ proc[w].pc = "unlink" /\ proc[w] # Idle /\ Moved(w, "succeed")
      /\ entered' = entered \cup {a} /\ fresh' = fresh \ {a}
      /\ before' = [before EXCEPT ![a] = disk[a.target]]
      /\ UNCHANGED <<status, snapshots, dir, copy>>
      /\ \A f \in Files : f # a.target => disk'[f] = disk[f]
  BY GotoEffect DEF Unlink, LetThrough, db, store, Pcs, Idle, IInv, TypeOK
<1>2. \A x \in Workers : HoldsNow(proc[x])'
  <2>1. HoldsNow(proc[w])'
    BY <1>1 DEF HoldsNow, Moved
  <2>2. QED
    BY <1>1, <2>1, OwnStepHolds DEF Moved, Exists
<1>3. Unspent'
  BY <1>1 DEF FInv, Unspent, Moved
<1>4. Spending'
  <2>1. \A x \in Workers \ {w} : proc'[x] = proc[x] /\ (proc[x] # Idle => proc[x].act # a)
    BY <1>1, OthersElsewhere DEF Moved
  <2>2. QED
    BY <1>1, <2>1 DEF FInv, Spending, Moved, Idle
<1>5. BeforeImages'
  <2>1. \A b \in Actions \ {a} : Renewing(b) => Renewing(b)'
    BY <1>1 DEF Renewing, Moved
  <2>2. get_latest_snapshot_for_action(a) = s /\ (CopiesFile(a) /\ Exists(s) => copy[s] = disk[a.target])
    BY <1>1 DEF FInv, HoldsNow
  <2>3. QED
    BY <1>1, <2>1, <2>2
    DEF FInv, BeforeImages, get_latest_snapshot_for_action, Exists, IInv, TypeOK
<1>6. QED
  BY <1>2, <1>3, <1>4, <1>5 DEF FInv

LEMMA FNext ==
  ASSUME MaxFaults = 0
  PROVE  IInv /\ LInv /\ FInv /\ Sourced /\ InTurn /\ InTurn' /\ [Next]_vars /\ [Unmeddled]_vars
           => FInv'
<1> SUFFICES ASSUME IInv, LInv, FInv, Sourced, InTurn, InTurn', [Next]_vars, [Unmeddled]_vars
             PROVE  FInv'
  OBVIOUS
<1>1. ASSUME NEW w \in Workers, Continue(w) PROVE FInv'
  <2>1. CASE CopyRefused(w)
    BY <2>1, EndStepsFInv, GoesOnFInv DEF CopyRefused
  <2>2. CASE UnlinkFails(w)
    BY <2>2 DEF UnlinkFails, FInv, HoldsNow, IInv, ProcOK
  <2>3. QED
    BY <1>1, <2>1, <2>2, CopyFInv, GoesOnFInv, RowFInv, UnlinkFInv, EndStepsFInv DEF Continue
<1>2. ASSUME NEW w \in Workers, Die(w) \/ Raise(w) PROVE FInv'
  BY <1>2 DEF Die, Raise, Fault, IInv, TypeOK
<1>3. CASE UNCHANGED vars
  <2>1. UNCHANGED <<disk, status, snapshots, dir, copy, proc, fresh, entered, before>>
    BY <1>3 DEF vars, db, store, history
  <2>2. QED
    BY <2>1 DEF FInv, HoldsNow, BeforeImages, Renewing, Unspent, Spending, Exists,
       get_latest_snapshot_for_action
<1>4. CASE \/ \E a \in Actions : ProtectHold(a) \/ Approve(a) \/ Reject(a)
           \/ \E s \in SnapIds : Cleanup(s)
           \/ \E f \in Files, v \in Contents \cup {NoFile} : OtherWrite(f, v)
  BY <1>3, <1>4, OutsideSteps
<1>5. QED
  BY <1>1, <1>2, <1>3, <1>4, CommandFInv, BodyWriteFInv, GrowOldFInv DEF Next

\* Rows are added when their action is let through, or when it will be next.
LEMMA SourcedNext ==
  ASSUME MaxFaults = 0
  PROVE  IInv /\ LInv /\ FInv /\ Sourced /\ [Next]_vars => Sourced'
<1> SUFFICES ASSUME IInv, LInv, FInv, Sourced, [Next]_vars PROVE Sourced'
  OBVIOUS
<1>1. \A a \in Actions : status[a] # "absent" => status'[a] # "absent"
  BY NextKeeps DEF LedgerStep, Statuses
<1>2. ASSUME NEW w \in Workers, LogSnapshot(w) \/ ExecuteLogSnapshot(w) PROVE Sourced'
  <2> PICK a \in Actions : a = proc[w].act
    BY <1>2 DEF LogSnapshot, ExecuteLogSnapshot, IInv, ProcOK
  <2>1. /\ status[a] # "absent" /\ \A b \in Actions \ {a} : snapshots'[b] = snapshots[b]
        /\ proc[w].pc = "log_snapshot"
    BY <1>2 DEF LogSnapshot, ExecuteLogSnapshot, add_snapshot, IInv, ProcOK, TypeOK
  <2>2. /\ entered \subseteq entered' /\ (a \in entered' \/ Renewing(a)')
        /\ \A x \in Workers \ {w} : proc'[x] = proc[x]
    BY <1>2, GotoEffect DEF LogSnapshot, ExecuteLogSnapshot, LetThrough, history, Renewing, Moved,
       Pcs, IInv, TypeOK
  <2>3. \A b \in Actions : Renewing(b) => Renewing(b)'
    BY <2>1, <2>2 DEF Renewing
  <2>4. QED
    BY <1>1, <2>1, <2>2, <2>3 DEF Sourced
<1>3. ASSUME NEW w \in Workers, Unlink(w) PROVE Sourced'
  <2>1. /\ snapshots' = snapshots /\ entered' = entered \cup {proc[w].act}
        /\ Moved(w, "succeed")
    BY <1>3, GotoEffect DEF Unlink, LetThrough, db, Pcs, IInv, TypeOK
  <2>2. \A b \in Actions : Renewing(b) => Renewing(b)' \/ b = proc[w].act
    BY <2>1 DEF Renewing, Moved
  <2>3. QED
    BY <1>1, <2>1, <2>2 DEF Sourced
<1>4. CASE /\ snapshots' = snapshots /\ entered \subseteq entered'
           /\ \A a \in Actions : Renewing(a) => Renewing(a)'
  BY <1>1, <1>4 DEF Sourced
<1>5. ASSUME NEW w \in Workers, update_action_snapshot_id(w) PROVE Sourced'
  <2>1. UNCHANGED <<snapshots, entered>> /\ Moved(w, "unlink")
    BY <1>5, GotoEffect DEF update_action_snapshot_id, history, Pcs, IInv, TypeOK
  <2>2. QED
    BY <1>4, <2>1 DEF Renewing, Moved
<1>6. ASSUME NEW w \in Workers, NEW a \in Actions, Command(w, a) PROVE Sourced'
  <2>1. /\ proc[w] = Idle /\ \A x \in Workers \ {w} : proc'[x] = proc[x]
        /\ snapshots' = snapshots /\ entered \subseteq entered'
    BY <1>6 DEF Command, ProtectAuto, ProtectSnapshot, Execute, Rollback, Free, Begin, LetThrough,
       update_action_status, db, history, IInv, TypeOK
  <2>2. QED
    BY <1>4, <2>1 DEF Renewing, Idle
<1>7. ASSUME NEW w \in Workers,
             \/ CopyFile(w) \/ CopyRefused(w) \/ LogAction(w) \/ ExecuteEnd(w)
             \/ Restore(w) \/ RestoreFails(w) \/ Mark(w)
             \/ \E outcome \in {"success", "failed"} : BodyExit(w, outcome)
      PROVE Sourced'
  <2>1. /\ UNCHANGED <<snapshots, entered>> /\ proc[w].pc \notin {"set_id", "unlink"}
        /\ Return(w) \/ \E pc \in Pcs : Goto(w, pc)
    BY <1>7 DEF CopyFile, CopyRefused, LogAction, ExecuteEnd, Restore, RestoreFails, Mark, BodyExit,
       update_action_status, db, history, Pcs
  <2>2. \A x \in Workers \ {w} : proc'[x] = proc[x]
    BY <2>1, ReturnEffect, GotoEffect DEF Moved, IInv, TypeOK
  <2>3. QED
    BY <1>4, <2>1, <2>2 DEF Renewing
<1>8. ASSUME NEW w \in Workers, UnlinkFails(w) \/ Die(w) \/ Raise(w) PROVE FALSE
  BY <1>8 DEF UnlinkFails, Die, Raise, Fault, FInv, HoldsNow, IInv, ProcOK, TypeOK
<1>9. CASE \/ UNCHANGED vars
           \/ \E w \in Workers : \E v \in Contents \cup {NoFile} : BodyWrite(w, v)
           \/ \E a \in Actions : ProtectHold(a) \/ Approve(a) \/ Reject(a)
           \/ \E s \in SnapIds : GrowOld(s) \/ Cleanup(s)
           \/ \E f \in Files, v \in Contents \cup {NoFile} : OtherWrite(f, v)
  <2>1. UNCHANGED <<snapshots, entered, proc>>
    BY <1>9 DEF vars, db, history, BodyWrite, ProtectHold, Approve, Reject, GrowOld, Cleanup, OtherWrite,
       update_action_status
  <2>2. QED
    BY <1>4, <2>1 DEF Renewing
<1>10. QED
  BY <1>2, <1>3, <1>5, <1>6, <1>7, <1>8, <1>9 DEF Next, Continue

\* The behaviours in which the files are taken in turn.
Turns == Spec /\ []InTurn /\ [][Unmeddled]_vars

LEMMA FInvariance ==
  ASSUME MaxFaults = 0
  PROVE  Turns => [](IInv /\ LInv /\ FInv /\ Sourced)
<1>1. Init => FInv /\ Sourced
  <2> SUFFICES ASSUME Init PROVE FInv /\ Sourced
    OBVIOUS
  <2>1. \A w \in Workers : proc[w] = Idle
    BY DEF Init
  <2>2. QED
    BY <2>1 DEF Init, FInv, HoldsNow, BeforeImages, Unspent, Spending, Sourced, Idle
<1>2. IInv /\ LInv /\ FInv /\ Sourced /\ InTurn /\ InTurn' /\ [Next]_vars /\ [Unmeddled]_vars
        => FInv' /\ Sourced'
  BY FNext, SourcedNext
<1>3. QED
  BY <1>1, <1>2, LInvariance, PTL DEF Turns, Spec

LEMMA FInvMeans == IInv /\ LInv /\ FInv => SnapshotIsBeforeImage
<1> SUFFICES ASSUME IInv, LInv, FInv, InFlight = {} PROVE SnapshotIsBeforeImage
  BY DEF SnapshotIsBeforeImage
<1>1. \A a \in Actions : ~Renewing(a)
  BY DEF Renewing, InFlight, Idle
<1>2. \A a \in entered : a \in Actions /\ (PolicyOf(a) # AUTO => snapshots[a] # <<>>)
  BY DEF IInv, TypeOK, LInv, Accounted
<1>3. QED
  BY <1>1, <1>2 DEF FInv, BeforeImages, SnapshotIsBeforeImage

(***************************************************************************)
(* core/snapshot.py and rollback: however many processes are at work, as   *)
(* long as nobody dies and each file is left to one of them at a time, the *)
(* copy that a rollback takes back is the content that the file had right  *)
(* before its action changed it; the with-block and execute both copy,     *)
(* then log, then change.                                                  *)
(***************************************************************************)
THEOREM ImagesHoldInTurn ==
  ASSUME MaxFaults = 0
  PROVE  Turns => []SnapshotIsBeforeImage
BY FInvMeans, FInvariance, PTL

(***************************************************************************)
(* cli `execute`: under the same conditions every unlink spends an         *)
(* approval that no earlier unlink has spent.                              *)
(***************************************************************************)
THEOREM ApprovalsSpentInTurn ==
  ASSUME MaxFaults = 0
  PROVE  Turns => UnlinkSpendsApproval
<1> DEFINE Spends == \A w \in Workers : proc[w].pc = "unlink" /\ proc'[w].pc = "succeed"
                                          => proc[w].act \in fresh
<1>1. IInv /\ FInv => Spends
  BY DEF IInv, ProcOK, FInv, Spending
<1>2. QED
  BY <1>1, FInvariance, PTL DEF Turns, Spec, UnlinkSpendsApproval


-------------------------------------------------------------------------------
(***************************************************************************)
(* One process at a time is one way to take turns, and the only one that   *)
(* the bounds alone make sure of.                                          *)
(***************************************************************************)
OneAtATime == MaxFaults = 0 /\ MaxInFlight = 1 /\ IsFiniteSet(Workers)

Alone == \A w, x \in Workers : proc[w] # Idle /\ proc[x] # Idle => w = x

AInv == Alone /\ FInv

LEMMA NobodyAtWork ==
  ASSUME OneAtATime, MayRun
  PROVE  \A x \in Workers : proc[x] = Idle
<1>1. IsFiniteSet(InFlight)
  BY FS_Subset DEF OneAtATime, InFlight
<1>2. Cardinality(InFlight) \in Nat /\ Cardinality(InFlight) < 1
  BY <1>1, FS_CardinalityType DEF OneAtATime, MayRun
<1>3. InFlight = {}
  BY <1>1, <1>2, FS_EmptySet
<1>4. QED
  BY <1>3 DEF InFlight

\* A process that is not idle began when nobody was at work.
LEMMA AloneNext ==
  ASSUME OneAtATime
  PROVE  IInv /\ Alone /\ [Next]_vars => Alone'
<1> SUFFICES ASSUME IInv, Alone, [Next]_vars PROVE Alone'
  OBVIOUS
<1>1. ASSUME NEW w \in Workers, Continue(w) \/ Die(w) \/ Raise(w) PROVE Alone'
  <2>1. proc[w] # Idle /\ (Return(w) \/ \E pc \in Pcs : Goto(w, pc))
    BY <1>1 DEF Continue, Die, Raise, CopyFile, CopyRefused, LogAction, LogSnapshot, BodyExit,
       ExecuteLogSnapshot, update_action_snapshot_id, Unlink, UnlinkFails, ExecuteEnd, Restore,
       RestoreFails, Mark, Idle, Pcs
  <2>2. \A x \in Workers \ {w} : proc'[x] = proc[x]
    BY <2>1, ReturnEffect, GotoEffect DEF Moved, IInv, TypeOK
  <2>3. QED
    BY <2>1, <2>2 DEF Alone
<1>2. ASSUME NEW w \in Workers, NEW a \in Actions, Command(w, a) PROVE Alone'
  <2>1. /\ \A x \in Workers : proc[x] = Idle
        /\ \A x \in Workers \ {w} : proc'[x] = proc[x]
    BY <1>2, NobodyAtWork DEF Command, ProtectAuto, ProtectSnapshot, Execute, Rollback, Free, Begin,
       IInv, TypeOK
  <2>2. QED
    BY <2>1 DEF Alone
<1>3. CASE UNCHANGED proc
  BY <1>3 DEF Alone
<1>4. QED
  BY <1>1, <1>2, <1>3
  DEF Next, vars, BodyWrite, ProtectHold, Approve, Reject, GrowOld, Cleanup, OtherWrite

LEMMA NobodyMeddles ==
  ASSUME OneAtATime
  PROVE  IInv /\ [Next]_vars => [Unmeddled]_vars
<1> SUFFICES ASSUME IInv, Next, writes' # writes PROVE \A x \in Workers : proc[x] = Idle
  BY DEF Unmeddled
<1>1. ASSUME NEW w \in Workers, Continue(w) \/ Die(w) \/ Raise(w) PROVE writes' = writes
  BY <1>1 DEF Continue, Die, Raise, CopyFile, CopyRefused, LogAction, LogSnapshot, BodyExit,
     ExecuteLogSnapshot, update_action_snapshot_id, Unlink, UnlinkFails, ExecuteEnd, Restore,
     RestoreFails, Mark, bounds
<1>2. ASSUME NEW w \in Workers, NEW a \in Actions, Command(w, a) PROVE writes' = writes
  BY <1>2 DEF Command, ProtectAuto, ProtectSnapshot, Execute, Rollback, bounds
<1>3. MayRun
  BY <1>1, <1>2 DEF Next, BodyWrite, ProtectHold, Approve, Reject, GrowOld, Cleanup, OtherWrite, bounds
<1>4. QED
  BY <1>3, NobodyAtWork

LEMMA TurnsTaken == OneAtATime => (Spec => Turns /\ []Alone)
<1> SUFFICES ASSUME OneAtATime PROVE Spec => Turns /\ []Alone
  OBVIOUS
<1>1. Init => Alone
  BY DEF Init, Alone
<1>2. IInv /\ Alone /\ [Next]_vars => Alone' /\ [Unmeddled]_vars
  BY AloneNext, NobodyMeddles
<1>3. Alone => InTurn
  BY DEF Alone, InTurn
<1>4. QED
  BY <1>1, <1>2, <1>3, Invariance, PTL DEF Spec, Turns

LEMMA AInvariance == OneAtATime => (Spec => [](IInv /\ LInv /\ AInv /\ Sourced))
<1> SUFFICES ASSUME OneAtATime PROVE Spec => [](IInv /\ LInv /\ AInv /\ Sourced)
  OBVIOUS
<1>1. Turns => [](IInv /\ LInv /\ FInv /\ Sourced)
  BY FInvariance DEF OneAtATime
<1>2. QED
  BY <1>1, TurnsTaken, PTL DEF AInv

(***************************************************************************)
(* One command after another, and nobody dying: the latest snapshot of an  *)
(* action is the content its file had just before the action changed it.   *)
(***************************************************************************)
THEOREM SnapshotsAreBeforeImages ==
  ASSUME OneAtATime
  PROVE  Spec => []SnapshotIsBeforeImage
BY TurnsTaken, ImagesHoldInTurn, PTL DEF OneAtATime

(***************************************************************************)
(* One command after another, and nobody dying: an unlink by execute has   *)
(* an approval of its own.                                                 *)
(***************************************************************************)
THEOREM UnlinksSpendApprovals ==
  ASSUME OneAtATime
  PROVE  Spec => UnlinkSpendsApproval
BY TurnsTaken, ApprovalsSpentInTurn, PTL DEF OneAtATime


===============================================================================
