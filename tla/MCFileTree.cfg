CONSTANTS
  Name = {a, b}
  MaxFiles = 2
  MaxComponents = 4
  MaxMeddle = 1
SYMMETRY Symmetry
SPECIFICATION Spec
INVARIANTS
  NormalFormAgrees
  TreeIsExact
  CopiedOrReported
  RemovedOrReported
CHECK_DEADLOCK FALSE
