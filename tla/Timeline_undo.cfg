SPECIFICATION TimelineSpec
CONSTANTS
  Actions <- UndoActions
  Workers = {w1}
  Files = {"f"}
  SnapIds = {s1, s2}
  Contents = {v1, v2}
  Oversized = {}
  Torn = Torn
  Partial = Partial
  NoFile = NoFile
  NoCopy = NoCopy
  None = None
  ShortRetention = FALSE
  MaxInFlight = 1
  MaxActions = 2
  MaxAged = 0
  MaxFaults = 0
  MaxWrites = 1
  Reads = {r1}
  PerSecond = 2
  PageSize = 2
  MaxClock = 2
SYMMETRY SnapshotIds
INVARIANTS TimelineTypeOK SnapshotIsBeforeImage
PROPERTIES UnlinkSpendsApproval UndoLast
CHECK_DEADLOCK FALSE
