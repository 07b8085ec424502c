SPECIFICATION Spec
CONSTANTS
  Importers = {i1, i2}
  Versions <- Published
  Names = {"a", "b"}
  NoFile = NoFile
  Partial = Partial
  MaxImports = 2
  MaxEdits = 2
  MaxImportFaults = 1
  Keepers = {h1, h2, h3}
  KeyIds = {"k1", "k2"}
  PublicKeys = {p1, p2}
  NoKey = NoKey
  MaxKeyCommands = 5
  MaxKeyFaults = 2
SYMMETRY Symmetry
CONSTRAINT Apart
INVARIANTS KeyTypeOK RevocationSticks KeysAreGiven TypeOK ImportedWasChecked VerifyRejectsRevoked PassedForLack
CHECK_DEADLOCK FALSE
