SPECIFICATION DirSpec
CONSTANTS
  Caller = {c1, c2}
  MaxMeddling = 2
INVARIANTS
  MadeOrThrown
CHECK_DEADLOCK FALSE
