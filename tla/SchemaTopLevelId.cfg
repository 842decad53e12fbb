SPECIFICATION SchemaSpec
CONSTANTS
  SchemaTexts <- SomeSchemas
  ArgumentTexts <- SomeArguments
  MAX_DOCUMENT_DEPTH = 4
  MAX_SCHEMA_NODES = 8
  RecursionLimit = 5
  MaxSaves = 2
CHECK_DEADLOCK FALSE
INVARIANT TopLevelIdIsChecked
