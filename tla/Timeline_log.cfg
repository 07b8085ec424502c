SPECIFICATION TimelineSpec
CONSTANTS
  Actions <- HeldActions
  Workers = {w1}
  Files = {"f"}
  SnapIds = {s1, s2}
  Contents = {v1, v2}
  Oversized = {}
  Torn = Torn
  Partial = Partial
  NoFile = NoFile
  NoCopy = NoCopy
  None = None
  ShortRetention = FALSE
  MaxInFlight = 1
  MaxActions = 3
  MaxAged = 0
  MaxFaults = 0
  MaxWrites = 0
  Reads = {r1}
  PerSecond = 4
  PageSize = 2
  MaxClock = 3
INVARIANTS LogShowsNewest
CHECK_DEADLOCK FALSE
