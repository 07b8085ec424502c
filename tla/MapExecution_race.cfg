SPECIFICATION Spec
CONSTANTS
  Setters = {c1, c2}
  Keys <- ThreeKeys
  Offered <- Typed
  Unquotable <- NoQuote
  Profiles = {"agent"}
  InitialFiles <- Fresh
  MaxSets = 3
  MaxConfigFaults = 0
  Commands <- RaceCommands
  Required <- RequiredInputs
  Environment <- Tokens
  MaxActs = 1
  MaxDeaths = 1
SYMMETRY Others
INVARIANTS TypeOK SentOnlyIfEnabled RowsTruthful TokenOfItsService NothingUnasked AloneAsWanted
PROPERTIES SentAsConfigured GateSpec
CHECK_DEADLOCK FALSE
