SPECIFICATION Spec
CONSTANTS
  Setters = {c1}
  Keys <- ThreeKeys
  Offered <- TypedElse
  Unquotable <- NoQuote
  Profiles = {}
  InitialFiles <- Blocked
  MaxSets = 1
  MaxConfigFaults = 0
  Commands <- OneCommand
  Required <- RequiredInputs
  Environment <- Tokens
  MaxActs = 1
  MaxDeaths = 0
INVARIANTS BlockPreventsRequest
CHECK_DEADLOCK FALSE
