------------------------------ MODULE MCTimeline -------------------------------
(***************************************************************************)
(* Instances of Timeline: actions of MCFileActions on one file, a clock of *)
(* two instants a second, and one run of `runewall read`.                  *)
(***************************************************************************)
EXTENDS Timeline, MCFileActions

HeldActions == {DeleteReview, DeleteBlocked, CreateReview}
UndoActions == {WriteSnapshot, DeleteReview, CreateFile}

SnapshotIds == Permutations(SnapIds)

===============================================================================
