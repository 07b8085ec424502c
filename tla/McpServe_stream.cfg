SPECIFICATION FairSpec
CONSTANTS
  Setters = {c1, c2}
  Keys <- SomeKeys
  Offered <- Typed
  Unquotable = {}
  Profiles = {}
  InitialFiles <- Files
  MaxSets = 2
  MaxConfigFaults = 0
  Reporters = {srv, cli}
  Surroundings <- Places
  Environment <- Tokens
  Called = {"doctor"}
  MaxReports = 1
  Server = srv
  Requests <- AllSorts
  Lockstep = FALSE
  BufferSize = 1
INVARIANTS ReportsTypeOK OkMeansSafe NoFalseAlarm AnswersInOrder
PROPERTIES AllAnswered
CHECK_DEADLOCK FALSE
