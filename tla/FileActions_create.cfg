SPECIFICATION Spec
CONSTANTS
  Actions <- CreateActions
  Workers = {w1}
  Files = {"f"}
  SnapIds = {s1}
  Contents = {v1, v2}
  Oversized = {}
  Torn = Torn
  Partial = Partial
  NoFile = NoFile
  NoCopy = NoCopy
  None = None
  ShortRetention = FALSE
  MaxInFlight = 1
  MaxActions = 1
  MaxAged = 0
  MaxFaults = 0
  MaxWrites = 0
PROPERTIES RollbackToBefore
CHECK_DEADLOCK FALSE
