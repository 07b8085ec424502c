SPECIFICATION LineageSpec
CONSTANTS
  Setters = {c1, c2, c3}
  Keys <- ThreeKeys
  Offered <- Typed
  Unquotable <- NoQuote
  Profiles = {"dev", "agent"}
  InitialFiles <- Files
  MaxSets = 3
  MaxConfigFaults = 1
SYMMETRY Others
PROPERTIES RegisterSpec
CHECK_DEADLOCK FALSE
