SPECIFICATION ConfigSpec
CONSTANTS
  MaxVersion = 3
INVARIANTS
  NeverSpoilt
