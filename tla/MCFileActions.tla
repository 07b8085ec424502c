---------------------------- MODULE MCFileActions -----------------------------
(***************************************************************************)
(* Instances of FileActions for TLC: actions on one file, given as rule    *)
(* lists an agent would pass.                                               *)
(***************************************************************************)
EXTENDS FileActions, TLC

Request(id, type, policy, review) ==
  [id |-> id, action_type |-> type, target |-> "f", require_review |-> review,
   rules |-> IF policy = "default" THEN <<>>
             ELSE <<[pattern |-> {type}, policy |-> policy, priority |-> 0]>>]

WriteSnapshot == Request("w", "file.write", "default", FALSE)
WriteAuto     == Request("wa", "file.write", AUTO, FALSE)
CreateFile    == Request("c", "file.create", "default", FALSE)
CreateReview  == Request("cr", "file.create", REVIEW, FALSE)
DeleteFile    == Request("d", "file.delete", "default", FALSE)
DeleteReview  == Request("dr", "file.delete", "default", TRUE)
DeleteBlocked == Request("db", "file.delete", BLOCK, FALSE)

\* A catch-all rule that a more urgent one, later in the list, overrules.
DeleteOverruled ==
  [Request("do", "file.delete", "default", TRUE) EXCEPT
     !.rules = <<[pattern |-> {"file.delete", "file.write"}, policy |-> AUTO, priority |-> 1],
                 [pattern |-> {"file.delete"}, policy |-> REVIEW, priority |-> 2]>>]

DeathActions  == {DeleteReview, DeleteFile, CreateFile, WriteSnapshot, WriteAuto}
RaceActions   == {DeleteReview, DeleteBlocked, DeleteOverruled, WriteSnapshot}
CreateActions == {CreateFile}

Symmetry == Permutations(Workers) \cup Permutations(SnapIds)

===============================================================================
