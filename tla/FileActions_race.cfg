SPECIFICATION FairSpec
CONSTANTS
  Actions <- RaceActions
  Workers = {w1, w2}
  Files = {"f"}
  SnapIds = {s1, s2}
  Contents = {v1, v2}
  Oversized = {v2}
  Torn = Torn
  Partial = Partial
  NoFile = NoFile
  NoCopy = NoCopy
  None = None
  ShortRetention = FALSE
  MaxInFlight = 3
  MaxActions = 2
  MaxAged = 0
  MaxFaults = 0
  MaxWrites = 0
INVARIANTS GateHolds PendingIsExplained
PROPERTIES GateSpec NoStrandedPending
CHECK_DEADLOCK FALSE
