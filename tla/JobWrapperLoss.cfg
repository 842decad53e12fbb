SPECIFICATION WrapperSpec
CONSTANTS
  Kinds = {"custom"}
  Output <- SomeLines
  LIMIT = 3
  MaxFaults = 0
INVARIANT NewestKept
