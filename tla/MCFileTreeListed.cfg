SPECIFICATION Spec
CONSTANTS
  Name = {a, b}
  MaxFiles = 1
  MaxComponents = 2
  MaxMeddle = 0
INVARIANTS
  ListedAreRemoved
CHECK_DEADLOCK FALSE
