SPECIFICATION Spec
CONSTANTS
  Actions <- DeathActions
  Workers = {w1, w2}
  Files = {"f"}
  SnapIds = {s1, s2}
  Contents = {v1}
  Oversized = {}
  Torn = Torn
  Partial = Partial
  NoFile = NoFile
  NoCopy = NoCopy
  None = None
  ShortRetention = TRUE
  MaxInFlight = 3
  MaxActions = 1
  MaxAged = 1
  MaxFaults = 2
  MaxWrites = 1
SYMMETRY Symmetry
INVARIANTS TypeOK SnapshotBeforeChange DanglingMeansUntouched StatusTruthful
PROPERTIES LedgerKept
CHECK_DEADLOCK FALSE
