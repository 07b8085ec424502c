--------------------------- MODULE FileActionsProofs ---------------------------
(***************************************************************************)
(* Theorems about FileActions, for any actions, processes, files, contents *)
(* and bounds: types, the review gate, and that the module implements the  *)
(* abstract ReviewGate.                                                    *)
(***************************************************************************)
EXTENDS FileActions, TLAPS

(***************************************************************************)
(* What a process is in the middle of.  The gate is checked when an        *)
(* operation begins and files are changed many steps later; this is what   *)
(* carries the check from one to the other.                                *)
(***************************************************************************)
ProcOK(p) ==
  /\ p.pc # "idle" => p.act \in Actions
  /\ p.pc \in {"copy", "log_action", "log_snapshot", "set_id", "unlink", "restore"}
       => p.snap \in SnapIds
  /\ p.op = "protect" => p.act \in Actions /\ ~HeldBack(p.act)
  /\ p.op = "execute" => p.act \in granted
  /\ p.pc \in {"set_id", "unlink", "succeed", "fail"} => p.op = "execute"
  /\ p.pc \in {"log_action", "body"} => p.op = "protect"
  /\ p.pc = "copy" => p.op \in {"protect", "execute"}
  /\ p.op = "execute" \/ p.pc = "log_snapshot" => status[p.act] # "absent"

ApprovedGranted == \A a \in Actions : status[a] = "approved" => a \in granted

IInv == /\ TypeOK
        /\ \A w \in Workers : ProcOK(proc[w])
        /\ ApprovedGranted
        /\ GateHolds

(***************************************************************************)
(* What the three ways of moving a process do to its record, and that they *)
(* leave the other processes alone.                                        *)
(***************************************************************************)
LEMMA IdleIsRecord == Idle \in ProcRecords
BY DEF Idle, ProcRecords, Ops, Pcs

LEMMA ReturnEffect ==
  ASSUME proc \in [Workers -> ProcRecords], NEW w \in Workers, Return(w)
  PROVE  /\ proc' \in [Workers -> ProcRecords]
         /\ proc'[w] = Idle
         /\ \A x \in Workers \ {w} : proc'[x] = proc[x]
BY IdleIsRecord DEF Return

LEMMA IdleIsOK == ProcOK(Idle) /\ ProcOK(Idle)'
BY DEF ProcOK, Idle

Moved(w, pc) == /\ proc' \in [Workers -> ProcRecords]
                /\ proc'[w].pc = pc
                /\ proc'[w].op = proc[w].op
                /\ proc'[w].act = proc[w].act
                /\ proc'[w].snap = proc[w].snap
                /\ \A x \in Workers \ {w} : proc'[x] = proc[x]

LEMMA GotoEffect ==
  ASSUME proc \in [Workers -> ProcRecords], NEW w \in Workers, NEW pc \in Pcs, Goto(w, pc)
  PROVE  Moved(w, pc)
<1>1. proc[w] \in ProcRecords
  OBVIOUS
<1>2. proc' = [proc EXCEPT ![w] = [proc[w] EXCEPT !.pc = pc]]
  BY DEF Goto
<1>3. [proc[w] EXCEPT !.pc = pc] = [op |-> proc[w].op, pc |-> pc, act |-> proc[w].act,
                                     snap |-> proc[w].snap]
  BY <1>1 DEF ProcRecords
<1> QED
  BY <1>1, <1>2, <1>3 DEF ProcRecords, Moved

(***************************************************************************)
(* Approvals and rows are never taken back, so what held of a process that *)
(* a step leaves alone still holds after it.                               *)
(***************************************************************************)
Onward == /\ granted \subseteq granted'
          /\ \A a \in Actions : status[a] # "absent" => status'[a] # "absent"

LEMMA StaysOK ==
  ASSUME TypeOK, Onward, NEW x \in Workers, ProcOK(proc[x]), proc'[x] = proc[x]
  PROVE  ProcOK(proc[x])'
BY DEF TypeOK, Onward, ProcOK

LEMMA ReturnOK ==
  ASSUME IInv, NEW w \in Workers, Onward, Return(w)
  PROVE  \A x \in Workers : ProcOK(proc[x])'
<1>1. \A x \in Workers \ {w} : ProcOK(proc[x])'
  BY ReturnEffect, StaysOK DEF IInv, TypeOK
<1>2. ProcOK(proc[w])'
  BY ReturnEffect, IdleIsOK DEF IInv, TypeOK, ProcOK
<1> QED
  BY <1>1, <1>2

LEMMA InitIInv == Init => IInv
<1> SUFFICES ASSUME Init PROVE IInv
  OBVIOUS
<1>1. TypeOK
  BY ValuesAssumption, IdleIsRecord DEF Init, TypeOK, FileData
<1>2. \A w \in Workers : ProcOK(proc[w])
  BY DEF Init, ProcOK, Idle
<1>3. ApprovedGranted /\ GateHolds
  BY DEF Init, ApprovedGranted, GateHolds
<1> QED
  BY <1>1, <1>2, <1>3 DEF IInv

(*****************************************************************************)
(* Every step keeps the invariant: a lemma for the steps with the same       *)
(* parameters, a case for each step.                                         *)
(*****************************************************************************)
LEMMA ReviewSteps ==
  ASSUME IInv, NEW a \in Actions,
         ProtectHold(a) \/ Approve(a) \/ Reject(a)
  PROVE  IInv'
<1> USE DEF IInv
<1>1. CASE ProtectHold(a)
  <2>1. TypeOK'
    BY <1>1 DEF ProtectHold, TypeOK, update_action_status, Statuses, store, bounds, history
  <2>2. ApprovedGranted' /\ GateHolds'
    BY <1>1 DEF ProtectHold, TypeOK, ApprovedGranted, GateHolds, update_action_status, history
  <2>3. Onward
    BY <1>1 DEF ProtectHold, TypeOK, Onward, update_action_status, history
  <2>4. \A x \in Workers : ProcOK(proc[x])'
    BY <1>1, <2>3, StaysOK DEF ProtectHold
  <2> QED
    BY <2>1, <2>2, <2>4
<1>2. CASE Approve(a)
  <2>1. TypeOK'
    BY <1>2 DEF Approve, TypeOK, update_action_status, Statuses, store, bounds
  <2>2. ApprovedGranted' /\ GateHolds'
    BY <1>2 DEF Approve, TypeOK, ApprovedGranted, GateHolds, update_action_status
  <2>3. Onward
    BY <1>2 DEF Approve, TypeOK, Onward, update_action_status
  <2>4. \A x \in Workers : ProcOK(proc[x])'
    BY <1>2, <2>3, StaysOK DEF Approve
  <2> QED
    BY <2>1, <2>2, <2>4
<1>3. CASE Reject(a)
  <2>1. TypeOK'
    BY <1>3 DEF Reject, TypeOK, update_action_status, Statuses, store, bounds, history
  <2>2. ApprovedGranted' /\ GateHolds'
    BY <1>3 DEF Reject, TypeOK, ApprovedGranted, GateHolds, update_action_status, history
  <2>3. Onward
    BY <1>3 DEF Reject, TypeOK, Onward, update_action_status, history
  <2>4. \A x \in Workers : ProcOK(proc[x])'
    BY <1>3, <2>3, StaysOK DEF Reject
  <2> QED
    BY <2>1, <2>2, <2>4
<1> QED
  BY <1>1, <1>2, <1>3

LEMMA BeginSteps ==
  ASSUME IInv, NEW w \in Workers, NEW a \in Actions,
         ProtectAuto(w, a) \/ Rollback(w, a)
  PROVE  IInv'
<1> USE DEF IInv
<1>1. CASE ProtectAuto(w, a)
  <2>1. TypeOK'
    BY <1>1, ActionsAssumption
    DEF ProtectAuto, TypeOK, update_action_status, Statuses, LetThrough, Begin,
        ProcRecords, store, bounds, Ops, Pcs, FileData
  <2>2. ~HeldBack(a)
    BY <1>1 DEF ProtectAuto, HeldBack, NeedsReview, AUTO, BLOCK, REVIEW
  <2>3. ApprovedGranted' /\ GateHolds'
    BY <1>1, <2>2
    DEF ProtectAuto, TypeOK, ApprovedGranted, GateHolds, update_action_status, LetThrough
  <2>4. Onward
    BY <1>1 DEF ProtectAuto, TypeOK, Onward, update_action_status
  <2>5. \A x \in Workers \ {w} : ProcOK(proc[x])'
    BY <1>1, <2>4, StaysOK DEF ProtectAuto, TypeOK, Begin
  <2>6. ProcOK(proc[w])'
    BY <1>1, <2>2 DEF ProtectAuto, TypeOK, ProcOK, Begin
  <2> QED
    BY <2>1, <2>3, <2>5, <2>6
<1>2. CASE Rollback(w, a)
  <2>1. get_latest_snapshot_for_action(a) \in SnapIds
    BY <1>2 DEF Rollback, TypeOK, get_latest_snapshot_for_action
  <2>2. TypeOK'
    BY <1>2, <2>1 DEF Rollback, TypeOK, Begin, ProcRecords, db, store, bounds, history, Ops, Pcs
  <2>3. ApprovedGranted' /\ GateHolds'
    BY <1>2 DEF Rollback, ApprovedGranted, GateHolds, db, history
  <2>4. Onward
    BY <1>2 DEF Rollback, Onward, db, history
  <2>5. \A x \in Workers \ {w} : ProcOK(proc[x])'
    BY <1>2, <2>4, StaysOK DEF Rollback, TypeOK, Begin
  <2>6. ProcOK(proc[w])'
    BY <1>2, <2>1 DEF Rollback, TypeOK, ProcOK, Begin
  <2> QED
    BY <2>2, <2>3, <2>5, <2>6
<1> QED
  BY <1>1, <1>2

LEMMA BeginSnapshotSteps ==
  ASSUME IInv, NEW w \in Workers, NEW a \in Actions, NEW s \in SnapIds,
         ProtectSnapshot(w, a, s) \/ Execute(w, a, s)
  PROVE  IInv'
<1> USE DEF IInv
<1>1. CASE ProtectSnapshot(w, a, s)
  <2>1. TypeOK'
    BY <1>1
    DEF ProtectSnapshot, MakeDir, TypeOK, Begin, ProcRecords, db, bounds, history, Ops, Pcs
  <2>2. ~HeldBack(a)
    BY <1>1 DEF ProtectSnapshot, TakesSnapshot, HeldBack, NeedsReview, SNAPSHOT, BLOCK, REVIEW
  <2>3. ApprovedGranted' /\ GateHolds'
    BY <1>1 DEF ProtectSnapshot, ApprovedGranted, GateHolds, db, history
  <2>4. Onward
    BY <1>1 DEF ProtectSnapshot, Onward, db, history
  <2>5. \A x \in Workers \ {w} : ProcOK(proc[x])'
    BY <1>1, <2>4, StaysOK DEF ProtectSnapshot, TypeOK, Begin
  <2>6. ProcOK(proc[w])'
    BY <1>1, <2>2 DEF ProtectSnapshot, TypeOK, ProcOK, Begin
  <2> QED
    BY <2>1, <2>3, <2>5, <2>6
<1>2. CASE Execute(w, a, s)
  <2>1. TypeOK'
    BY <1>2 DEF Execute, MakeDir, TypeOK, Begin, ProcRecords, db, bounds, history, Ops, Pcs
  <2>2. ApprovedGranted' /\ GateHolds'
    BY <1>2 DEF Execute, ApprovedGranted, GateHolds, db, history
  <2>3. Onward
    BY <1>2 DEF Execute, Onward, db, history
  <2>4. \A x \in Workers \ {w} : ProcOK(proc[x])'
    BY <1>2, <2>3, StaysOK DEF Execute, TypeOK, Begin
  <2>5. ProcOK(proc[w])'
    BY <1>2 DEF Execute, TypeOK, ProcOK, Begin, ApprovedGranted, db, history
  <2> QED
    BY <2>1, <2>2, <2>4, <2>5
<1> QED
  BY <1>1, <1>2

LEMMA SnapshotSteps ==
  ASSUME IInv, NEW w \in Workers,
         CopyFile(w) \/ CopyRefused(w) \/ LogAction(w) \/ LogSnapshot(w)
           \/ ExecuteLogSnapshot(w) \/ update_action_snapshot_id(w)
  PROVE  IInv'
<1> USE DEF IInv
<1>1. CASE CopyFile(w)
  <2>1. Moved(w, IF proc[w].op = "protect" THEN "log_action" ELSE "log_snapshot")
    BY <1>1, GotoEffect DEF CopyFile, TypeOK, Pcs
  <2>2. proc[w].act \in Actions
    BY <1>1 DEF CopyFile, ProcOK
  <2>3. TypeOK'
    BY <1>1, <2>1, <2>2 DEF CopyFile, TypeOK, ProcOK, Moved, db, bounds, history
  <2>4. ApprovedGranted' /\ GateHolds'
    BY <1>1, <2>2 DEF CopyFile, TypeOK, ApprovedGranted, GateHolds, ProcOK, db, history
  <2>5. Onward
    BY <1>1, <2>2 DEF CopyFile, TypeOK, Onward, db, history
  <2>6. \A x \in Workers \ {w} : ProcOK(proc[x])'
    BY <2>1, <2>5, StaysOK DEF Moved
  <2>7. ProcOK(proc[w])'
    BY <1>1, <2>1, <2>2, <2>5 DEF CopyFile, TypeOK, Onward, ProcOK, Moved, db
  <2> QED
    BY <2>3, <2>4, <2>6, <2>7
<1>2. CASE CopyRefused(w)
  <2>1. UNCHANGED <<disk, status, snapshot_id, snapshots, dir, copy, faults, writes,
                    granted, fresh, entered, before>>
    BY <1>2 DEF CopyRefused, db, store, bounds, history
  <2>2. Onward
    BY <2>1 DEF Onward
  <2>3. ApprovedGranted' /\ GateHolds'
    BY <2>1 DEF ApprovedGranted, GateHolds
  <2>4. CASE Return(w)
    BY <2>1, <2>2, <2>3, <2>4, ReturnEffect, ReturnOK DEF TypeOK
  <2>5. CASE proc[w].op = "execute" /\ Goto(w, "fail")
    <3>1. Moved(w, "fail")
      BY <2>5, GotoEffect DEF TypeOK, Pcs
    <3>2. \A x \in Workers \ {w} : ProcOK(proc[x])'
      BY <2>2, <3>1, StaysOK DEF Moved
    <3>3. ProcOK(proc[w])'
      BY <1>2, <2>1, <2>5, <3>1 DEF CopyRefused, ProcOK, Moved
    <3> QED
      BY <2>1, <2>3, <3>1, <3>2, <3>3 DEF TypeOK, Moved
  <2> QED
    BY <1>2, <2>4, <2>5 DEF CopyRefused, ProcOK
<1>3. CASE LogAction(w)
  <2>1. Moved(w, "log_snapshot")
    BY <1>3, GotoEffect DEF LogAction, TypeOK, Pcs
  <2>2. proc[w].act \in Actions
    BY <1>3 DEF LogAction, ProcOK
  <2>3. TypeOK'
    BY <1>3, <2>1, <2>2 DEF LogAction, TypeOK, ProcOK, Moved, Statuses, store, bounds, history
  <2>4. ApprovedGranted' /\ GateHolds'
    BY <1>3, <2>2 DEF LogAction, TypeOK, ApprovedGranted, GateHolds, ProcOK, history
  <2>5. Onward
    BY <1>3, <2>2 DEF LogAction, TypeOK, Onward, history
  <2>6. \A x \in Workers \ {w} : ProcOK(proc[x])'
    BY <2>1, <2>5, StaysOK DEF Moved
  <2>7. ProcOK(proc[w])'
    BY <1>3, <2>1, <2>2, <2>5 DEF LogAction, TypeOK, Onward, ProcOK, Moved
  <2> QED
    BY <2>3, <2>4, <2>6, <2>7
<1>4. CASE LogSnapshot(w)
  <2>1. Moved(w, "body")
    BY <1>4, GotoEffect DEF LogSnapshot, TypeOK, Pcs
  <2>2. proc[w].act \in Actions
    BY <1>4 DEF LogSnapshot, ProcOK
  <2>3. TypeOK'
    BY <1>4, <2>1, <2>2, ActionsAssumption
    DEF LogSnapshot, TypeOK, ProcOK, Moved, add_snapshot, LetThrough, store, bounds
  <2>4. ApprovedGranted' /\ GateHolds'
    BY <1>4, <2>2
    DEF LogSnapshot, TypeOK, ApprovedGranted, GateHolds, ProcOK, add_snapshot, LetThrough
  <2>5. Onward
    BY <1>4, <2>2 DEF LogSnapshot, TypeOK, Onward, add_snapshot, LetThrough
  <2>6. \A x \in Workers \ {w} : ProcOK(proc[x])'
    BY <2>1, <2>5, StaysOK DEF Moved
  <2>7. ProcOK(proc[w])'
    BY <1>4, <2>1, <2>2, <2>5 DEF LogSnapshot, TypeOK, Onward, ProcOK, Moved
  <2> QED
    BY <2>3, <2>4, <2>6, <2>7
<1>5. CASE ExecuteLogSnapshot(w)
  <2>1. Moved(w, "set_id")
    BY <1>5, GotoEffect DEF ExecuteLogSnapshot, TypeOK, Pcs
  <2>2. proc[w].act \in Actions
    BY <1>5 DEF ExecuteLogSnapshot, ProcOK
  <2>3. TypeOK'
    BY <1>5, <2>1, <2>2
    DEF ExecuteLogSnapshot, TypeOK, ProcOK, Moved, add_snapshot, store, bounds, history
  <2>4. ApprovedGranted' /\ GateHolds'
    BY <1>5, <2>2
    DEF ExecuteLogSnapshot, TypeOK, ApprovedGranted, GateHolds, ProcOK, add_snapshot, history
  <2>5. Onward
    BY <1>5, <2>2 DEF ExecuteLogSnapshot, TypeOK, Onward, add_snapshot, history
  <2>6. \A x \in Workers \ {w} : ProcOK(proc[x])'
    BY <2>1, <2>5, StaysOK DEF Moved
  <2>7. ProcOK(proc[w])'
    BY <1>5, <2>1, <2>2, <2>5 DEF ExecuteLogSnapshot, TypeOK, Onward, ProcOK, Moved
  <2> QED
    BY <2>3, <2>4, <2>6, <2>7
<1>6. CASE update_action_snapshot_id(w)
  <2>1. Moved(w, "unlink")
    BY <1>6, GotoEffect DEF update_action_snapshot_id, TypeOK, Pcs
  <2>2. proc[w].act \in Actions
    BY <1>6 DEF update_action_snapshot_id, ProcOK
  <2>3. TypeOK'
    BY <1>6, <2>1, <2>2
    DEF update_action_snapshot_id, TypeOK, ProcOK, Moved, store, bounds, history
  <2>4. ApprovedGranted' /\ GateHolds'
    BY <1>6, <2>2
    DEF update_action_snapshot_id, TypeOK, ApprovedGranted, GateHolds, ProcOK, history
  <2>5. Onward
    BY <1>6, <2>2 DEF update_action_snapshot_id, TypeOK, Onward, history
  <2>6. \A x \in Workers \ {w} : ProcOK(proc[x])'
    BY <2>1, <2>5, StaysOK DEF Moved
  <2>7. ProcOK(proc[w])'
    BY <1>6, <2>1, <2>2, <2>5 DEF update_action_snapshot_id, TypeOK, Onward, ProcOK, Moved
  <2> QED
    BY <2>3, <2>4, <2>6, <2>7
<1> QED
  BY <1>1, <1>2, <1>3, <1>4, <1>5, <1>6

LEMMA EndSteps ==
  ASSUME IInv, NEW w \in Workers,
         Unlink(w) \/ UnlinkFails(w) \/ ExecuteEnd(w) \/ Restore(w)
           \/ RestoreFails(w) \/ Mark(w) \/ \E outcome \in {"success", "failed"} : BodyExit(w, outcome)
  PROVE  IInv'
<1> USE DEF IInv
<1>1. CASE Unlink(w)
  <2>1. Moved(w, "succeed")
    BY <1>1, GotoEffect DEF Unlink, TypeOK, Pcs
  <2>2. proc[w].act \in Actions
    BY <1>1 DEF Unlink, ProcOK
  <2>3. TypeOK'
    BY <1>1, <2>1, <2>2, ActionsAssumption
    DEF Unlink, TypeOK, ProcOK, Moved, LetThrough, db, store, bounds
  <2>4. ApprovedGranted' /\ GateHolds'
    BY <1>1, <2>2 DEF Unlink, TypeOK, ApprovedGranted, GateHolds, ProcOK, LetThrough, db
  <2>5. Onward
    BY <1>1, <2>2 DEF Unlink, TypeOK, Onward, LetThrough, db
  <2>6. \A x \in Workers \ {w} : ProcOK(proc[x])'
    BY <2>1, <2>5, StaysOK DEF Moved
  <2>7. ProcOK(proc[w])'
    BY <1>1, <2>1, <2>2, <2>5 DEF Unlink, TypeOK, Onward, ProcOK, Moved, LetThrough, db
  <2> QED
    BY <2>3, <2>4, <2>6, <2>7
<1>2. CASE UnlinkFails(w)
  <2>1. Moved(w, "fail")
    BY <1>2, GotoEffect DEF UnlinkFails, TypeOK, Pcs
  <2>2. proc[w].act \in Actions
    BY <1>2 DEF UnlinkFails, ProcOK
  <2>3. TypeOK'
    BY <1>2, <2>1, <2>2 DEF UnlinkFails, TypeOK, ProcOK, Moved, db, store, bounds, history
  <2>4. ApprovedGranted' /\ GateHolds'
    BY <1>2, <2>2 DEF UnlinkFails, TypeOK, ApprovedGranted, GateHolds, ProcOK, db, history
  <2>5. Onward
    BY <1>2, <2>2 DEF UnlinkFails, TypeOK, Onward, db, history
  <2>6. \A x \in Workers \ {w} : ProcOK(proc[x])'
    BY <2>1, <2>5, StaysOK DEF Moved
  <2>7. ProcOK(proc[w])'
    BY <1>2, <2>1, <2>2, <2>5 DEF UnlinkFails, TypeOK, Onward, ProcOK, Moved, db
  <2> QED
    BY <2>3, <2>4, <2>6, <2>7
<1>3. CASE ExecuteEnd(w)
  <2>1. TypeOK'
    BY <1>3, ReturnEffect
    DEF ExecuteEnd, TypeOK, ProcOK, update_action_status, Statuses, store, bounds, history
  <2>2. ApprovedGranted' /\ GateHolds'
    BY <1>3
    DEF ExecuteEnd, TypeOK, ApprovedGranted, GateHolds, ProcOK, update_action_status, history
  <2>3. Onward
    BY <1>3 DEF ExecuteEnd, TypeOK, ProcOK, Onward, update_action_status, history
  <2>4. \A x \in Workers : ProcOK(proc[x])'
    BY <1>3, <2>3, ReturnOK DEF ExecuteEnd
  <2> QED
    BY <2>1, <2>2, <2>4
<1>4. CASE Restore(w)
  <2>1. Moved(w, "mark")
    BY <1>4, GotoEffect DEF Restore, TypeOK, Pcs
  <2>2. proc[w].act \in Actions
    BY <1>4 DEF Restore, ProcOK
  <2>3. TypeOK'
    BY <1>4, <2>1, <2>2, ActionsAssumption
    DEF Restore, TypeOK, ProcOK, Moved, ReadCopy, FileData, db, store, bounds, history
  <2>4. ApprovedGranted' /\ GateHolds'
    BY <1>4, <2>2 DEF Restore, TypeOK, ApprovedGranted, GateHolds, ProcOK, db, history
  <2>5. Onward
    BY <1>4, <2>2 DEF Restore, TypeOK, Onward, db, history
  <2>6. \A x \in Workers \ {w} : ProcOK(proc[x])'
    BY <2>1, <2>5, StaysOK DEF Moved
  <2>7. ProcOK(proc[w])'
    BY <1>4, <2>1, <2>2, <2>5 DEF Restore, TypeOK, Onward, ProcOK, Moved, db
  <2> QED
    BY <2>3, <2>4, <2>6, <2>7
<1>5. CASE RestoreFails(w)
  <2>1. TypeOK'
    BY <1>5, ReturnEffect DEF RestoreFails, TypeOK, ProcOK, db, store, bounds, history
  <2>2. ApprovedGranted' /\ GateHolds'
    BY <1>5 DEF RestoreFails, TypeOK, ApprovedGranted, GateHolds, ProcOK, db, history
  <2>3. Onward
    BY <1>5 DEF RestoreFails, TypeOK, ProcOK, Onward, db, history
  <2>4. \A x \in Workers : ProcOK(proc[x])'
    BY <1>5, <2>3, ReturnOK DEF RestoreFails
  <2> QED
    BY <2>1, <2>2, <2>4
<1>6. CASE Mark(w)
  <2>1. TypeOK'
    BY <1>6, ReturnEffect
    DEF Mark, TypeOK, ProcOK, update_action_status, Statuses, store, bounds, history
  <2>2. ApprovedGranted' /\ GateHolds'
    BY <1>6 DEF Mark, TypeOK, ApprovedGranted, GateHolds, ProcOK, update_action_status, history
  <2>3. Onward
    BY <1>6 DEF Mark, TypeOK, ProcOK, Onward, update_action_status, history
  <2>4. \A x \in Workers : ProcOK(proc[x])'
    BY <1>6, <2>3, ReturnOK DEF Mark
  <2> QED
    BY <2>1, <2>2, <2>4
<1>7. CASE \E outcome \in {"success", "failed"} : BodyExit(w, outcome)
  <2> PICK outcome \in {"success", "failed"} : BodyExit(w, outcome)
    BY <1>7
  <2>1. TypeOK'
    BY ReturnEffect
    DEF BodyExit, TypeOK, ProcOK, update_action_status, Statuses, store, bounds, history
  <2>2. ApprovedGranted' /\ GateHolds'
    BY <1>7
    DEF BodyExit, TypeOK, ApprovedGranted, GateHolds, ProcOK, update_action_status, history
  <2>3. Onward
    BY DEF BodyExit, TypeOK, ProcOK, Onward, update_action_status, history
  <2>4. \A x \in Workers : ProcOK(proc[x])'
    BY <2>3, ReturnOK DEF BodyExit
  <2> QED
    BY <2>1, <2>2, <2>4
<1> QED
  BY <1>1, <1>2, <1>3, <1>4, <1>5, <1>6, <1>7

LEMMA BodyWriteStep ==
  ASSUME IInv, NEW w \in Workers, NEW v \in Contents \cup {NoFile},
         BodyWrite(w, v)
  PROVE  IInv'
<1> USE DEF IInv
<1>1. CASE BodyWrite(w, v)
  <2>1. TypeOK'
    BY <1>1, ActionsAssumption
    DEF BodyWrite, TypeOK, ProcOK, db, store, bounds, history, FileData
  <2>2. ApprovedGranted' /\ GateHolds' /\ \A x \in Workers : ProcOK(proc[x])'
    BY <1>1 DEF BodyWrite, ApprovedGranted, GateHolds, ProcOK, db, history
  <2> QED
    BY <2>1, <2>2
<1> QED
  BY <1>1

LEMMA CleanupSteps ==
  ASSUME IInv, NEW s \in SnapIds,
         GrowOld(s) \/ Cleanup(s)
  PROVE  IInv'
<1> USE DEF IInv
<1>1. CASE GrowOld(s)
  <2>1. TypeOK'
    BY <1>1 DEF GrowOld, TypeOK, db, bounds, history
  <2>2. UNCHANGED <<status, proc, granted, entered>>
    BY <1>1 DEF GrowOld, db, history
  <2>3. ApprovedGranted' /\ GateHolds' /\ \A x \in Workers : ProcOK(proc[x])'
    BY <2>2 DEF ApprovedGranted, GateHolds, ProcOK
  <2> QED
    BY <2>1, <2>3
<1>2. CASE Cleanup(s)
  <2>1. TypeOK'
    BY <1>2 DEF Cleanup, TypeOK, db, bounds, history
  <2>2. UNCHANGED <<status, proc, granted, entered>>
    BY <1>2 DEF Cleanup, db, history
  <2>3. ApprovedGranted' /\ GateHolds' /\ \A x \in Workers : ProcOK(proc[x])'
    BY <2>2 DEF ApprovedGranted, GateHolds, ProcOK
  <2> QED
    BY <2>1, <2>3
<1> QED
  BY <1>1, <1>2

LEMMA OtherWriteStep ==
  ASSUME IInv, NEW f \in Files, NEW v \in Contents \cup {NoFile},
         OtherWrite(f, v)
  PROVE  IInv'
<1> USE DEF IInv
<1>1. CASE OtherWrite(f, v)
  <2>1. TypeOK'
    BY <1>1 DEF OtherWrite, TypeOK, db, store, history, FileData
  <2>2. UNCHANGED <<status, proc, granted, entered>>
    BY <1>1 DEF OtherWrite, db, history
  <2>3. ApprovedGranted' /\ GateHolds' /\ \A x \in Workers : ProcOK(proc[x])'
    BY <2>2 DEF ApprovedGranted, GateHolds, ProcOK
  <2> QED
    BY <2>1, <2>3
<1> QED
  BY <1>1

LEMMA FaultSteps ==
  ASSUME IInv, NEW w \in Workers,
         Die(w) \/ Raise(w)
  PROVE  IInv'
<1> USE DEF IInv
<1>1. CASE Die(w)
  <2>1. copy' \in [SnapIds -> FileData \cup {NoCopy, Partial}]
    BY <1>1 DEF Die, CutShort, TypeOK
  <2>2. disk' \in [Files -> FileData \cup {NoFile}]
    BY <1>1, ActionsAssumption DEF Die, TypeOK, ProcOK, FileData
  <2>3. UNCHANGED <<status, snapshot_id, snapshots, dir, granted, fresh, entered, before>>
    BY <1>1 DEF Die, db, history
  <2>4. faults' \in Nat /\ writes' \in Nat /\ Return(w)
    BY <1>1 DEF Die, Fault, TypeOK
  <2>5. TypeOK' /\ ApprovedGranted' /\ GateHolds' /\ Onward
    BY <2>1, <2>2, <2>3, <2>4, ReturnEffect DEF TypeOK, ApprovedGranted, GateHolds, Onward
  <2> QED
    BY <2>4, <2>5, ReturnOK
<1>2. CASE Raise(w)
  <2>1. copy' \in [SnapIds -> FileData \cup {NoCopy, Partial}]
    BY <1>2 DEF Raise, CutShort, TypeOK
  <2>2. UNCHANGED <<disk, status, snapshot_id, snapshots, dir, granted, fresh, entered, before>>
    BY <1>2 DEF Raise, db, history
  <2>3. faults' \in Nat /\ writes' \in Nat
    BY <1>2 DEF Raise, Fault, TypeOK
  <2>4. Moved(w, "fail")
    BY <1>2, GotoEffect DEF Raise, TypeOK, Pcs
  <2>5. TypeOK' /\ ApprovedGranted' /\ GateHolds' /\ Onward
    BY <2>1, <2>2, <2>3, <2>4 DEF TypeOK, Moved, ApprovedGranted, GateHolds, Onward
  <2>6. \A x \in Workers \ {w} : ProcOK(proc[x])'
    BY <2>4, <2>5, StaysOK DEF Moved
  <2>7. ProcOK(proc[w])'
    BY <1>2, <2>2, <2>4 DEF Raise, ProcOK, Moved
  <2> QED
    BY <2>5, <2>6, <2>7
<1> QED
  BY <1>1, <1>2

LEMMA NextIInv == IInv /\ [Next]_vars => IInv'
<1> SUFFICES ASSUME IInv, [Next]_vars PROVE IInv'
  OBVIOUS
<1>1. ASSUME NEW w \in Workers, Continue(w) PROVE IInv'
  BY <1>1, SnapshotSteps, EndSteps DEF Continue
<1>2. ASSUME NEW w \in Workers, NEW a \in Actions, Command(w, a) PROVE IInv'
  BY <1>2, BeginSteps, BeginSnapshotSteps DEF Command
<1>3. CASE UNCHANGED vars
  BY <1>3 DEF IInv, TypeOK, ProcOK, ApprovedGranted, GateHolds, vars, db, store, bounds, history
<1> QED
  BY <1>1, <1>2, <1>3, FaultSteps, BodyWriteStep, ReviewSteps, CleanupSteps, OtherWriteStep
  DEF Next

LEMMA Invariance == Spec => []IInv
BY InitIInv, NextIInv, PTL DEF Spec

(***************************************************************************)
(* Every variable keeps its type: the three stores, the processes and the  *)
(* histories.                                                              *)
(***************************************************************************)
THEOREM TypeCorrect == Spec => []TypeOK
<1>1. IInv => TypeOK
  BY DEF IInv
<1> QED
  BY <1>1, Invariance, PTL

(***************************************************************************)
(* The review gate of protect_file_* and execute_approved_action, with any *)
(* number of processes dying, racing and retrying: no action held back by  *)
(* its policy is let through to its file unless it was approved.           *)
(***************************************************************************)
THEOREM GateCorrect == Spec => []GateHolds
<1>1. IInv => GateHolds
  BY DEF IInv
<1> QED
  BY <1>1, Invariance, PTL

-------------------------------------------------------------------------------
(***************************************************************************)
(* The refinement.  A step that neither approves nor lets through writes   *)
(* at most one status, which is recording the action or nothing at all.    *)
(***************************************************************************)
Recorded == {a \in Actions : status[a] # "absent"}

LEMMA StatusRecords ==
  ASSUME TypeOK, NEW a \in Actions, NEW new \in Statuses, status' = [status EXCEPT ![a] = new]
  PROVE  Recorded' = Recorded \cup {a}
BY DEF TypeOK, Recorded, Statuses

LEMMA QuietStep ==
  ASSUME TypeOK, UNCHANGED <<granted, entered>>,
         \/ UNCHANGED status
         \/ \E a \in Actions, new \in Statuses : status' = [status EXCEPT ![a] = new]
  PROVE  [Gate!Next]_(Gate!gateVars)
<1>1. CASE UNCHANGED status
  BY <1>1 DEF Gate!gateVars
<1>2. CASE \E a \in Actions, new \in Statuses : status' = [status EXCEPT ![a] = new]
  <2>1. PICK a \in Actions, new \in Statuses : status' = [status EXCEPT ![a] = new]
    BY <1>2
  <2>2. Gate!Record(a)
    BY <2>1, StatusRecords DEF Gate!Record, Recorded
  <2> QED
    BY <2>2 DEF Gate!Next
<1> QED
  BY <1>1, <1>2

LEMMA GateInit == Init => Gate!Init
BY DEF Init, Gate!Init

LEMMA ApproveGrants ==
  ASSUME TypeOK, NEW a \in Actions, Approve(a)
  PROVE  Gate!Next
<1>1. Recorded' = Recorded /\ a \in Recorded
  BY StatusRecords DEF Approve, update_action_status, Recorded, Statuses
<1>2. Gate!Grant(a)
  BY <1>1 DEF Approve, Gate!Grant, Recorded
<1> QED
  BY <1>2 DEF Gate!Next

LEMMA LetThroughEnters ==
  ASSUME IInv, NEW w \in Workers, NEW a \in Actions,
         \/ ProtectAuto(w, a)
         \/ a = proc[w].act /\ (LogSnapshot(w) \/ Unlink(w))
  PROVE  Gate!Next
<1>1. entered' = entered \cup {a} /\ granted' = granted
  BY DEF ProtectAuto, LogSnapshot, Unlink, LetThrough
<1>2. HeldBack(a) => a \in granted
  BY DEF IInv, ProcOK, ProtectAuto, LogSnapshot, Unlink, HeldBack, NeedsReview, AUTO, BLOCK, REVIEW
<1>3. Recorded' = Recorded \cup {a}
  <2>1. CASE ProtectAuto(w, a)
    BY <2>1, StatusRecords DEF ProtectAuto, update_action_status, Statuses, IInv
  <2>2. CASE a = proc[w].act /\ (LogSnapshot(w) \/ Unlink(w))
    <3>1. status' = status /\ status[a] # "absent"
      BY <2>2 DEF LogSnapshot, Unlink, add_snapshot, db, IInv, ProcOK
    <3> QED
      BY <3>1 DEF Recorded
  <2> QED
    BY <2>1, <2>2
<1>4. Gate!LetThrough(a)
  BY <1>1, <1>2, <1>3 DEF Gate!LetThrough, Recorded
<1> QED
  BY <1>4 DEF Gate!Next

LEMMA GateStep == IInv /\ [Next]_vars => [Gate!Next]_(Gate!gateVars)
<1> SUFFICES ASSUME IInv, [Next]_vars PROVE [Gate!Next]_(Gate!gateVars)
  OBVIOUS
<1> USE DEF IInv
<1>1. ASSUME NEW w \in Workers, Continue(w) PROVE [Gate!Next]_(Gate!gateVars)
  <2>1. CASE LogSnapshot(w) \/ Unlink(w)
    <3>1. proc[w].act \in Actions
      BY <2>1 DEF LogSnapshot, Unlink, ProcOK
    <3> QED
      BY <2>1, <3>1, LetThroughEnters
  <2>2. CASE \/ CopyFile(w) \/ CopyRefused(w) \/ ExecuteLogSnapshot(w)
             \/ update_action_snapshot_id(w) \/ UnlinkFails(w) \/ Restore(w) \/ RestoreFails(w)
    BY <2>2, QuietStep DEF CopyFile, CopyRefused, ExecuteLogSnapshot, add_snapshot,
       update_action_snapshot_id, UnlinkFails, Restore, RestoreFails, db, history
  <2>3. CASE \/ LogAction(w) \/ ExecuteEnd(w) \/ Mark(w)
             \/ \E outcome \in {"success", "failed"} : BodyExit(w, outcome)
    <3>1. proc[w].act \in Actions
      BY <2>3 DEF LogAction, ExecuteEnd, Mark, BodyExit, ProcOK
    <3>2. /\ UNCHANGED <<granted, entered>>
          /\ \E new \in Statuses : status' = [status EXCEPT ![proc[w].act] = new]
      BY <2>3 DEF LogAction, ExecuteEnd, Mark, BodyExit, update_action_status, Statuses, history
    <3> QED
      BY <3>1, <3>2, QuietStep
  <2> QED
    BY <1>1, <2>1, <2>2, <2>3 DEF Continue
<1>2. ASSUME NEW w \in Workers, NEW a \in Actions, Command(w, a)
      PROVE [Gate!Next]_(Gate!gateVars)
  <2>1. CASE ProtectAuto(w, a)
    BY <2>1, LetThroughEnters
  <2>2. CASE \/ \E s \in SnapIds : ProtectSnapshot(w, a, s) \/ Execute(w, a, s)
             \/ Rollback(w, a)
    BY <2>2, QuietStep DEF ProtectSnapshot, Execute, Rollback, db, history
  <2> QED
    BY <1>2, <2>1, <2>2 DEF Command
<1>3. ASSUME NEW a \in Actions, ProtectHold(a) \/ Reject(a) PROVE [Gate!Next]_(Gate!gateVars)
  <2>1. /\ UNCHANGED <<granted, entered>>
        /\ \E new \in Statuses : status' = [status EXCEPT ![a] = new]
    BY <1>3 DEF ProtectHold, Reject, update_action_status, Statuses, history
  <2> QED
    BY <2>1, QuietStep
<1>4. ASSUME NEW w \in Workers, Die(w) \/ Raise(w) PROVE [Gate!Next]_(Gate!gateVars)
  BY <1>4, QuietStep DEF Die, Raise, db, history
<1>5. ASSUME NEW w \in Workers, NEW v \in Contents \cup {NoFile}, BodyWrite(w, v)
      PROVE [Gate!Next]_(Gate!gateVars)
  BY <1>5, QuietStep DEF BodyWrite, db, history
<1>6. ASSUME NEW s \in SnapIds, GrowOld(s) \/ Cleanup(s) PROVE [Gate!Next]_(Gate!gateVars)
  BY <1>6, QuietStep DEF GrowOld, Cleanup, db, history
<1>7. ASSUME NEW f \in Files, NEW v \in Contents \cup {NoFile}, OtherWrite(f, v)
      PROVE [Gate!Next]_(Gate!gateVars)
  BY <1>7, QuietStep DEF OtherWrite, db, history
<1>8. CASE UNCHANGED vars
  BY <1>8, QuietStep DEF vars, db, history
<1> QED
  BY <1>1, <1>2, <1>3, <1>4, <1>5, <1>6, <1>7, <1>8, ApproveGrants DEF Next

(***************************************************************************)
(* FileActions implements ReviewGate: seen from the records, the approvals *)
(* and the actions let through, every step of every process is a step of   *)
(* the gate or none at all.                                                *)
(***************************************************************************)
THEOREM ImplementsGate == Spec => GateSpec
<1>1. Spec => [][Gate!Next]_(Gate!gateVars)
  BY Invariance, GateStep, PTL DEF Spec
<1> QED
  BY <1>1, GateInit, PTL DEF Spec, GateSpec, Gate!Spec

===============================================================================
