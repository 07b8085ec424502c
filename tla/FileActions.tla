----------------------------- MODULE FileActions ------------------------------
(***************************************************************************)
(* The file safety loop of Runewall: protect_file_write / _create /        *)
(* _delete around an agent's code, the approve / reject / execute /        *)
(* rollback / cleanup commands of the CLI, and the three stores they write *)
(* one after the other without a transaction around them: the actions and  *)
(* snapshots tables of runewall.db, the directories under                  *)
(* .runewall/snapshots, and the user's files.                              *)
(*                                                                         *)
(* Each process (an agent inside a with-block, or one CLI command) is an   *)
(* element of Workers; a step of a process is the code between two writes  *)
(* that another process can see.  A process may die between any two steps. *)
(*                                                                         *)
(* An element of Actions is the immutable part of a row of the actions     *)
(* table, with the arguments the agent passed:                             *)
(*   [id, action_type, target, rules, require_review]                      *)
(***************************************************************************)
EXTENDS Policy, FiniteSets

CONSTANTS Actions, Workers, Files, SnapIds,
          Contents,        \* what a file can hold
          Oversized,       \* contents over max_snapshot_mb
          Torn,            \* what a restore that stopped half-way leaves
          Partial,         \* a copy in a snapshot that stopped half-way
          NoFile, NoCopy, None,
          ShortRetention,  \* snapshot_days <= 0: a directory is old at once
          MaxInFlight,     \* bound: processes at work at the same time
          MaxActions,      \* bound: actions submitted
          MaxAged,         \* bound: snapshot directories that grow old
          MaxFaults,       \* bound: processes that die or get an I/O error
          MaxWrites        \* bound: writes of other programs to the files

FileData == Contents \cup {Torn}

ASSUME ActionsAssumption ==
  /\ None \notin Actions
  /\ \A a \in Actions : /\ a.target \in Files
                        /\ a.action_type \in {"file.write", "file.create", "file.delete"}
ASSUME ValuesAssumption ==
  /\ Oversized \subseteq Contents
  /\ {NoFile, NoCopy, Partial} \cap FileData = {}
  /\ None \notin SnapIds
ASSUME RetentionAssumption == ShortRetention \in BOOLEAN

VARIABLES
  disk,         \* the files the actions are about
  status,       \* actions.status; "absent": no row yet
  snapshot_id,  \* actions.snapshot_id
  snapshots,    \* rows of the snapshots table of each action, in rowid order
  dir,          \* the directory of each snapshot id under .runewall/snapshots
  copy,         \* the copied file in that directory
  proc,         \* where each process is
  faults,       \* faults so far
  writes,       \* writes of other programs so far
  granted,      \* history: actions approved at least once
  fresh,        \* history: actions approved since they were last unlinked
  entered,      \* history: actions whose body was opened or file unlinked
  before        \* history: the target's content at that moment

db      == <<status, snapshot_id, snapshots>>
store   == <<dir, copy>>
history == <<granted, fresh, entered, before>>
bounds  == <<faults, writes>>
vars    == <<disk, db, store, proc, bounds, history>>

Statuses == {"pending", "approved", "rejected", "success", "failed",
             "rolled_back", "blocked"}
Idle == [op |-> "none", pc |-> "idle", act |-> None, snap |-> None]
Ops  == {"none", "protect", "execute", "rollback"}
Pcs  == {"idle", "copy", "log_action", "log_snapshot", "body", "set_id",
         "unlink", "succeed", "fail", "restore", "mark"}
ProcRecords == [op : Ops, pc : Pcs, act : Actions \cup {None}, snap : SnapIds \cup {None}]

-------------------------------------------------------------------------------
(***************************************************************************)
(* Helpers.                                                                *)
(***************************************************************************)
PolicyOf(a) == evaluate(a.rules, REVIEW, a)

\* protect_file_delete lets a REVIEW action through unless require_review.
allow_review_override(a) == a.action_type = "file.delete" /\ ~a.require_review

\* The two outcomes of the policy after which the with-block never opens.
NeedsReview(a) == PolicyOf(a) = REVIEW /\ ~allow_review_override(a)
HeldBack(a)    == PolicyOf(a) = BLOCK \/ NeedsReview(a)
\* Variant: the override is forgotten and every REVIEW is let through.
TakesSnapshotOfReview(a) == PolicyOf(a) \in {SNAPSHOT, REVIEW}

TakesSnapshot(a) == \/ PolicyOf(a) = SNAPSHOT
                    \/ PolicyOf(a) = REVIEW /\ allow_review_override(a)

CopiesFile(a) == a.action_type \in {"file.write", "file.delete"}
Rows(a) == {snapshots[a][i] : i \in DOMAIN snapshots[a]}
list_pending_actions == {a \in Actions : status[a] = "pending"}

\* Variant: ORDER BY rowid ASC.
get_oldest_snapshot(a) == snapshots[a][1]
get_latest_snapshot_for_action(a) == snapshots[a][Len(snapshots[a])]
Exists(s) == dir[s] \in {"fresh", "old"}

ReadCopy(s) == IF copy[s] \in FileData THEN copy[s] ELSE Torn

InFlight == {w \in Workers : proc[w] # Idle}
MayRun   == Cardinality(InFlight) < MaxInFlight
Free(w)  == proc[w] = Idle /\ MayRun

\* A new Action() with an id of its own.
Submitted == {a \in Actions : \/ status[a] # "absent"
                              \/ \E w \in Workers : proc[w].act = a}
New(a) == a \notin Submitted /\ Cardinality(Submitted) < MaxActions

Begin(w, op, pc, a, s) ==
  proc' = [proc EXCEPT ![w] = [op |-> op, pc |-> pc, act |-> a, snap |-> s]]
Goto(w, pc) == proc' = [proc EXCEPT ![w].pc = pc]
Return(w)   == proc' = [proc EXCEPT ![w] = Idle]

update_action_status(a, new) ==
  /\ status' = [status EXCEPT ![a] = new]
  /\ UNCHANGED <<snapshot_id, snapshots>>

LetThrough(a) == /\ entered' = entered \cup {a}
                 /\ before' = [before EXCEPT ![a] = disk[a.target]]

-------------------------------------------------------------------------------
(***************************************************************************)
(* The tables and directories start empty (`runewall init`); the files are *)
(* whatever the user has.                                                  *)
(***************************************************************************)
Init ==
  /\ disk \in [Files -> Contents \cup {NoFile}]
  /\ status = [a \in Actions |-> "absent"]
  /\ snapshot_id = [a \in Actions |-> None]
  /\ snapshots = [a \in Actions |-> <<>>]
  /\ dir = [s \in SnapIds |-> "unused"]
  /\ copy = [s \in SnapIds |-> NoCopy]
  /\ proc = [w \in Workers |-> Idle]
  /\ faults = 0 /\ writes = 0
  /\ granted = {} /\ fresh = {} /\ entered = {}
  /\ before = [a \in Actions |-> NoFile]

(***************************************************************************)
(* _protect_file_action, up to the first step another process can see.     *)
(***************************************************************************)
\* BLOCK and REVIEW: the row is logged, the with-statement raises.
ProtectHold(a) ==
  /\ MayRun /\ New(a) /\ HeldBack(a)
  /\ update_action_status(a, IF PolicyOf(a) = BLOCK THEN "blocked" ELSE "pending")
  /\ UNCHANGED <<disk, store, proc, bounds, history>>

ProtectAuto(w, a) ==
  /\ Free(w) /\ New(a) /\ PolicyOf(a) = AUTO
  /\ update_action_status(a, "pending")
  /\ LetThrough(a)
  /\ Begin(w, "protect", "body", a, None)
  /\ UNCHANGED <<disk, store, bounds, granted, fresh>>

\* create_snapshot under a fresh id; file.create keeps metadata only.
MakeDir(s) == /\ dir[s] = "unused"
              /\ dir' = [dir EXCEPT ![s] = "fresh"]
              /\ UNCHANGED copy

ProtectSnapshot(w, a, s) ==
  /\ Free(w) /\ New(a) /\ TakesSnapshot(a)
  /\ MakeDir(s)
  /\ Begin(w, "protect", IF CopiesFile(a) THEN "copy" ELSE "log_action", a, s)
  /\ UNCHANGED <<disk, db, bounds, history>>

(***************************************************************************)
(* create_snapshot, shared by the with-block and by execute: the target    *)
(* must exist and be small enough; mkdir(parents=True) brings back a       *)
(* directory that cleanup took away meanwhile.                             *)
(***************************************************************************)
CopyFile(w) ==
  LET a == proc[w].act  s == proc[w].snap IN
  /\ proc[w].pc = "copy"
  /\ disk[a.target] \in FileData \ Oversized
  /\ copy' = [copy EXCEPT ![s] = disk[a.target]]
  /\ dir' = [dir EXCEPT ![s] = IF Exists(s) THEN dir[s] ELSE "fresh"]
  /\ Goto(w, IF proc[w].op = "protect" THEN "log_action" ELSE "log_snapshot")
  /\ UNCHANGED <<disk, db, bounds, history>>

\* An exception leaves the with-statement as it is, before any row, and
\* takes execute to its handler.
CopyRefused(w) ==
  /\ proc[w].pc = "copy"
  /\ disk[proc[w].act.target] \in Oversized \cup {NoFile}
  /\ IF proc[w].op = "protect" THEN Return(w) ELSE Goto(w, "fail")
  /\ UNCHANGED <<disk, db, store, bounds, history>>

(***************************************************************************)
(* The rows of the with-block: first the action, then the snapshot, each   *)
(* in a transaction of its own; then the agent's code runs.                *)
(***************************************************************************)
\* Variant: the body opens as soon as the action has its row.
LogActionAndYield(w) ==
  LET a == proc[w].act IN
  /\ proc[w].pc = "log_action"
  /\ status' = [status EXCEPT ![a] = "pending"]
  /\ snapshot_id' = [snapshot_id EXCEPT ![a] = proc[w].snap]
  /\ LetThrough(a)
  /\ Goto(w, "body")
  /\ UNCHANGED <<disk, snapshots, store, bounds, granted, fresh>>

LogAction(w) ==
  LET a == proc[w].act IN
  /\ proc[w].pc = "log_action"
  /\ status' = [status EXCEPT ![a] = "pending"]
  /\ snapshot_id' = [snapshot_id EXCEPT ![a] = proc[w].snap]
  /\ Goto(w, "log_snapshot")
  /\ UNCHANGED <<disk, snapshots, store, bounds, history>>

\* Variant: the row is written without its id.
add_snapshot_without_id(a, s) == /\ snapshots' = [snapshots EXCEPT ![a] = Append(@, None)]
                                 /\ UNCHANGED <<status, snapshot_id>>

add_snapshot(a, s) == /\ snapshots' = [snapshots EXCEPT ![a] = Append(@, s)]
                      /\ UNCHANGED <<status, snapshot_id>>

LogSnapshot(w) ==
  /\ proc[w].pc = "log_snapshot" /\ proc[w].op = "protect"
  /\ add_snapshot(proc[w].act, proc[w].snap)
  /\ LetThrough(proc[w].act)
  /\ Goto(w, "body")
  /\ UNCHANGED <<disk, store, bounds, granted, fresh>>

\* What the agent's code does with its target inside the with-block.
BodyWrite(w, v) ==
  LET a == proc[w].act IN
  /\ proc[w].pc = "body"
  /\ IF a.action_type = "file.delete" THEN v = NoFile ELSE v \in Contents
  /\ disk[a.target] # v
  /\ disk' = [disk EXCEPT ![a.target] = v]
  /\ UNCHANGED <<db, store, proc, bounds, history>>

\* Variant: no handler around the yield.
BodyExitUnhandled(w, outcome) ==
  /\ proc[w].pc = "body"
  /\ IF outcome = "success" THEN update_action_status(proc[w].act, outcome) ELSE UNCHANGED db
  /\ Return(w)
  /\ UNCHANGED <<disk, store, bounds, history>>

BodyExit(w, outcome) ==
  /\ proc[w].pc = "body"
  /\ update_action_status(proc[w].act, outcome)
  /\ Return(w)
  /\ UNCHANGED <<disk, store, bounds, history>>

(***************************************************************************)
(* approve and reject: the row must exist; its status is not looked at.    *)
(***************************************************************************)
Approve(a) ==
  /\ MayRun /\ status[a] # "absent"
  /\ update_action_status(a, "approved")
  /\ granted' = granted \cup {a}
  /\ fresh' = fresh \cup {a}
  /\ UNCHANGED <<disk, store, proc, bounds, entered, before>>

\* Variant: a rejected action goes back to the queue.
RejectToQueue(a) ==
  /\ MayRun /\ status[a] # "absent"
  /\ update_action_status(a, "pending")
  /\ UNCHANGED <<disk, store, proc, bounds, history>>

Reject(a) ==
  /\ MayRun /\ status[a] # "absent"
  /\ update_action_status(a, "rejected")
  /\ UNCHANGED <<disk, store, proc, bounds, history>>

(***************************************************************************)
(* execute_approved_action.  The status is read once, at the start.        *)
(***************************************************************************)
\* Variant: the status is not checked.
ExecuteUnchecked(w, a, s) ==
  /\ Free(w)
  /\ status[a] # "absent" /\ a.action_type = "file.delete"
  /\ MakeDir(s)
  /\ Begin(w, "execute", "copy", a, s)
  /\ UNCHANGED <<disk, db, bounds, history>>

\* Variant: the snapshot is logged before it is made.
ExecuteLogFirst(w, a, s) ==
  /\ Free(w)
  /\ status[a] = "approved" /\ a.action_type = "file.delete"
  /\ MakeDir(s)
  /\ Begin(w, "execute", "log_snapshot", a, s)
  /\ UNCHANGED <<disk, db, bounds, history>>

Execute(w, a, s) ==
  /\ Free(w)
  /\ status[a] = "approved" /\ a.action_type = "file.delete"
  /\ MakeDir(s)
  /\ Begin(w, "execute", "copy", a, s)
  /\ UNCHANGED <<disk, db, bounds, history>>

ExecuteLogSnapshot(w) ==
  /\ proc[w].pc = "log_snapshot" /\ proc[w].op = "execute"
  /\ add_snapshot(proc[w].act, proc[w].snap)
  /\ Goto(w, "set_id")
  /\ UNCHANGED <<disk, store, bounds, history>>

update_action_snapshot_id(w) ==
  /\ proc[w].pc = "set_id"
  /\ snapshot_id' = [snapshot_id EXCEPT ![proc[w].act] = proc[w].snap]
  /\ Goto(w, "unlink")
  /\ UNCHANGED <<disk, status, snapshots, store, bounds, history>>

Unlink(w) ==
  LET a == proc[w].act IN
  /\ proc[w].pc = "unlink"
  /\ disk[a.target] # NoFile
  /\ disk' = [disk EXCEPT ![a.target] = NoFile]
  /\ LetThrough(a)
  /\ fresh' = fresh \ {a}
  /\ Goto(w, "succeed")
  /\ UNCHANGED <<db, store, bounds, granted>>

\* The file is gone already.
UnlinkFails(w) ==
  /\ proc[w].pc = "unlink" /\ disk[proc[w].act.target] = NoFile
  /\ Goto(w, "fail")
  /\ UNCHANGED <<disk, db, store, bounds, history>>

\* Variant: `finally` instead of `else`.
ExecuteEndFinally(w) ==
  /\ proc[w].pc \in {"succeed", "fail"}
  /\ update_action_status(proc[w].act, "success")
  /\ Return(w)
  /\ UNCHANGED <<disk, store, bounds, history>>

\* Variant: the status is written by the handler only.
ExecuteEndOnFailure(w) ==
  /\ proc[w].pc \in {"succeed", "fail"}
  /\ IF proc[w].pc = "fail" THEN update_action_status(proc[w].act, "failed") ELSE UNCHANGED db
  /\ Return(w)
  /\ UNCHANGED <<disk, store, bounds, history>>

ExecuteEnd(w) ==
  /\ proc[w].pc \in {"succeed", "fail"}
  /\ update_action_status(proc[w].act,
                          IF proc[w].pc = "succeed" THEN "success" ELSE "failed")
  /\ Return(w)
  /\ UNCHANGED <<disk, store, bounds, history>>

(***************************************************************************)
(* RollbackEngine.rollback: of any action that has a row in snapshots, in  *)
(* whatever status it is.                                                  *)
(***************************************************************************)
Rollback(w, a) ==
  /\ Free(w)
  /\ status[a] # "absent" /\ snapshots[a] # <<>>
  /\ LET s == get_latest_snapshot_for_action(a) IN
       /\ CopiesFile(a) => Exists(s) /\ copy[s] # NoCopy
       /\ Begin(w, "rollback", "restore", a, s)
  /\ UNCHANGED <<disk, db, store, bounds, history>>

Restore(w) ==
  LET a == proc[w].act  s == proc[w].snap IN
  /\ proc[w].pc = "restore"
  /\ CopiesFile(a) => Exists(s)
  /\ disk' = [disk EXCEPT ![a.target] = IF CopiesFile(a) THEN ReadCopy(s) ELSE NoFile]
  /\ Goto(w, "mark")
  /\ UNCHANGED <<db, store, bounds, history>>

\* cleanup took the copy away after rollback had looked for it.
RestoreFails(w) ==
  /\ proc[w].pc = "restore"
  /\ CopiesFile(proc[w].act) /\ ~Exists(proc[w].snap)
  /\ Return(w)
  /\ UNCHANGED <<disk, db, store, bounds, history>>

Mark(w) ==
  /\ proc[w].pc = "mark"
  /\ update_action_status(proc[w].act, "rolled_back")
  /\ Return(w)
  /\ UNCHANGED <<disk, store, bounds, history>>

(***************************************************************************)
(* cleanup_snapshots removes the directories whose mtime is older than     *)
(* snapshot_days, looking at nothing else; one entry at a time.  A         *)
(* directory grows old while an operation uses it only when snapshot_days  *)
(* is zero or negative.                                                    *)
(***************************************************************************)
GrowOld(s) ==
  /\ dir[s] = "fresh"
  /\ Cardinality({t \in SnapIds : dir[t] \in {"old", "removed"}}) < MaxAged
  /\ ShortRetention \/ \A w \in Workers : proc[w].snap # s
  /\ dir' = [dir EXCEPT ![s] = "old"]
  /\ UNCHANGED <<disk, db, copy, proc, bounds, history>>

Cleanup(s) ==
  /\ MayRun /\ dir[s] = "old"
  /\ dir' = [dir EXCEPT ![s] = "removed"]
  /\ copy' = [copy EXCEPT ![s] = NoCopy]
  /\ UNCHANGED <<disk, db, proc, bounds, history>>

(***************************************************************************)
(* The environment: another program writes a file; a process dies (kill,   *)
(* power, KeyboardInterrupt: nothing runs after it) at any step, a copy it *)
(* was making is cut short; or a step of execute raises (disk full,        *)
(* database locked) and the handler takes over.  In the with-block an      *)
(* error outside the agent's code skips every handler, like a death.       *)
(***************************************************************************)
OtherWrite(f, v) ==
  /\ MayRun /\ writes < MaxWrites /\ disk[f] # v
  /\ disk' = [disk EXCEPT ![f] = v]
  /\ writes' = writes + 1
  /\ UNCHANGED <<db, store, proc, faults, history>>

Fault == faults < MaxFaults /\ faults' = faults + 1

CutShort(w) == IF proc[w].pc = "copy" /\ Exists(proc[w].snap)
               THEN copy' \in {copy, [copy EXCEPT ![proc[w].snap] = Partial]}
               ELSE copy' = copy

Die(w) ==
  /\ Fault /\ proc[w] # Idle
  /\ Return(w)
  /\ CutShort(w)
  /\ IF proc[w].pc = "restore" /\ CopiesFile(proc[w].act)
     THEN disk' \in {disk, [disk EXCEPT ![proc[w].act.target] = Torn]}
     ELSE disk' = disk
  /\ UNCHANGED <<db, dir, writes, history>>

Raise(w) ==
  /\ Fault /\ proc[w].op = "execute"
  /\ proc[w].pc \in {"copy", "log_snapshot", "set_id", "unlink"}
  /\ Goto(w, "fail")
  /\ CutShort(w)
  /\ UNCHANGED <<disk, db, dir, writes, history>>

-------------------------------------------------------------------------------
\* The steps a process that has begun takes on its own.
Continue(w) ==
  \/ CopyFile(w) \/ CopyRefused(w) \/ LogAction(w) \/ LogSnapshot(w)
  \/ \E outcome \in {"success", "failed"} : BodyExit(w, outcome)
  \/ ExecuteLogSnapshot(w) \/ update_action_snapshot_id(w)
  \/ Unlink(w) \/ UnlinkFails(w) \/ ExecuteEnd(w)
  \/ Restore(w) \/ RestoreFails(w) \/ Mark(w)

Command(w, a) ==
  \/ ProtectAuto(w, a)
  \/ \E s \in SnapIds : ProtectSnapshot(w, a, s) \/ Execute(w, a, s)
  \/ Rollback(w, a)

Next ==
  \/ \E w \in Workers : \/ Continue(w) \/ Die(w) \/ Raise(w)
                        \/ \E a \in Actions : Command(w, a)
                        \/ \E v \in Contents \cup {NoFile} : BodyWrite(w, v)
  \/ \E a \in Actions : ProtectHold(a) \/ Approve(a) \/ Reject(a)
  \/ \E s \in SnapIds : GrowOld(s) \/ Cleanup(s)
  \/ \E f \in Files, v \in Contents \cup {NoFile} : OtherWrite(f, v)

Spec == Init /\ [][Next]_vars

(***************************************************************************)
(* A process that is not killed goes on: straight-line code, and agent     *)
(* code inside the with-block that ends, by returning or by raising.       *)
(***************************************************************************)
FairSpec == Spec /\ \A w \in Workers : WF_vars(Continue(w))

-------------------------------------------------------------------------------
TypeOK ==
  /\ disk \in [Files -> FileData \cup {NoFile}]
  /\ status \in [Actions -> Statuses \cup {"absent"}]
  /\ snapshot_id \in [Actions -> SnapIds \cup {None}]
  /\ snapshots \in [Actions -> Seq(SnapIds)]
  /\ dir \in [SnapIds -> {"unused", "fresh", "old", "removed"}]
  /\ copy \in [SnapIds -> FileData \cup {NoCopy, Partial}]
  /\ proc \in [Workers -> ProcRecords]
  /\ faults \in Nat /\ writes \in Nat
  /\ granted \subseteq Actions /\ fresh \subseteq Actions /\ entered \subseteq Actions
  /\ before \in [Actions -> FileData \cup {NoFile}]

(***************************************************************************)
(* The review gate: whatever dies, races or is retried, an action that     *)
(* BLOCK or REVIEW held back changes no file unless somebody ran           *)
(* `runewall approve` on it first.                                         *)
(***************************************************************************)
GateHolds == \A a \in entered : HeldBack(a) => a \in granted

(***************************************************************************)
(* Nothing is changed before it can be undone: an action let through with  *)
(* a snapshot has a row in snapshots by then, and every row leads to a     *)
(* directory with a complete copy, as long as cleanup has not removed it.  *)
(* (The with-block and execute write directory, rows and file in three     *)
(* stores, one after the other.)                                           *)
(***************************************************************************)
SnapshotBeforeChange ==
  \A a \in Actions :
    /\ a \in entered /\ PolicyOf(a) # AUTO => snapshots[a] # <<>>
    /\ \A s \in Rows(a) : /\ dir[s] # "unused"
                          /\ CopiesFile(a) /\ Exists(s) => copy[s] \in FileData

(***************************************************************************)
(* A row of actions whose snapshot_id has no row in snapshots (the process *)
(* died between add_action and add_snapshot) is of an action that never    *)
(* got as far as touching its file.                                        *)
(***************************************************************************)
DanglingMeansUntouched ==
  \A a \in Actions : snapshot_id[a] \notin Rows(a) \cup {None} => a \notin entered

(***************************************************************************)
(* What the log says happened did happen: success only of an action that   *)
(* was let through, rolled_back only with a snapshot to have restored,     *)
(* approved only after an approval.                                        *)
(***************************************************************************)
StatusTruthful ==
  \A a \in Actions :
    /\ status[a] = "success" => a \in entered
    /\ status[a] = "rolled_back" => snapshots[a] # <<>>
    /\ status[a] = "approved" => a \in granted

(***************************************************************************)
(* The log only grows: no step removes a row of either table, and none     *)
(* sends an action back to pending or blocked, the states of an action     *)
(* nobody has decided on.                                                  *)
(***************************************************************************)
LedgerStep ==
  \A a \in Actions :
    /\ status[a] # "absent" => status'[a] \in Statuses
    /\ status[a] \notin {"absent", status'[a]} => status'[a] \notin {"pending", "blocked"}
    /\ Len(snapshots'[a]) >= Len(snapshots[a])
    /\ \A i \in DOMAIN snapshots[a] : snapshots'[a][i] = snapshots[a][i]
LedgerKept == [][LedgerStep]_vars

(***************************************************************************)
(* With one process at a time on a file and nobody dying, the latest       *)
(* snapshot of an action is, between commands, the content its file had    *)
(* just before the action changed it: what rollback restores.              *)
(***************************************************************************)
SnapshotIsBeforeImage ==
  InFlight = {} => \A a \in entered :
    /\ CopiesFile(a) /\ PolicyOf(a) # AUTO
    /\ Exists(get_latest_snapshot_for_action(a))
    => copy[get_latest_snapshot_for_action(a)] = before[a]

(***************************************************************************)
(* With one process at a time on a file and nobody dying, every unlink by  *)
(* execute spends an approval: a second one needs a second `runewall       *)
(* approve`.                                                               *)
(***************************************************************************)
UnlinkSpendsApproval ==
  [][\A w \in Workers : proc[w].pc = "unlink" /\ proc'[w].pc = "succeed"
                        => proc[w].act \in fresh]_vars

(***************************************************************************)
(* `runewall rollback ID`, "Rollback to before action ID": the file has    *)
(* the content it had before the action was let through.                   *)
(***************************************************************************)
RollbackToBefore ==
  [][\A w \in Workers : proc[w].pc = "restore" /\ proc'[w].pc = "mark"
                        => LET a == proc[w].act IN disk'[a.target] = before[a]]_vars

(***************************************************************************)
(* While nobody dies, a pending action is one that waits for a human or    *)
(* one whose with-block is running: `runewall pending` lists nothing else. *)
(***************************************************************************)
PendingIsExplained ==
  \A a \in list_pending_actions :
    ~HeldBack(a) => \E w \in Workers : proc[w].act = a /\ proc[w].op = "protect"

(***************************************************************************)
(* And it does not stay so: the with-block of an action that was let       *)
(* through ends in a status that says how it went.                         *)
(***************************************************************************)
NoStrandedPending ==
  \A a \in Actions : status[a] = "pending" /\ ~HeldBack(a) ~> status[a] # "pending"

-------------------------------------------------------------------------------
(***************************************************************************)
(* The stores, processes and commands above implement the abstract gate    *)
(* (module ReviewGate): a row is a record of the request, an approval a    *)
(* grant, and the step that opens the with-block or unlinks the file is    *)
(* the one that lets the action through.                                   *)
(***************************************************************************)
Gate == INSTANCE ReviewGate WITH
          Requests <- Actions,
          Held     <- {a \in Actions : HeldBack(a)},
          recorded <- {a \in Actions : status[a] # "absent"},
          granted  <- granted,
          entered  <- entered
GateSpec == Gate!Spec

===============================================================================
