SPECIFICATION Spec
CONSTANTS
  EditedKeys = {"file_create","map_execute","unknown"}
  UnknownTypes = {"plugin.run"}
  Patterns <- SomePatterns
  Priorities = {0, 1}
  MaxRules = 2
INVARIANTS TypeOK ExplainMatchesEngine CleanAuditIsSafe FirstOfEqualsWins
