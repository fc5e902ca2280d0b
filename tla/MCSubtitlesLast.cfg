SPECIFICATION Spec
CONSTANTS
  Times = {1, 3}
  Contents = {"time", "text"}
  Delimiters = {"lf"}
  MaxFile = 15
  MaxRare = 0
  MaxBlemished = 0
  MaxTime = 4
INVARIANTS
  EverySubtitleLoaded
