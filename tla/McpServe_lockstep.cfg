SPECIFICATION FairSpec
CONSTANTS
  Setters = {c1}
  Keys <- SomeKeys
  Offered <- Typed
  Unquotable = {}
  Profiles = {}
  InitialFiles <- Files
  MaxSets = 0
  MaxConfigFaults = 0
  Reporters = {srv}
  Surroundings <- Places
  Environment <- Tokens
  Called = {}
  MaxReports = 0
  Server = srv
  Requests <- Call
  Lockstep = TRUE
  BufferSize = 2
PROPERTIES AnswerWhileWaiting
CHECK_DEADLOCK FALSE
