SPECIFICATION Spec
CONSTANTS
  Offsets = {zero, a, b}
  Zero = zero
  Noise = noise
  Eol = eol
  OutCap = 2
  InCap = 1
  SigCap = 1
  LineLimit = 2
  MaxTokens = 4
  JobControl = FALSE
  MaxKeys = 2
  ReadSize = 1
SYMMETRY Symmetry
INVARIANTS
  NoLostUpdate
  QuitComesLast
  FramingCorrect
  LastPositionShown
PROPERTIES
  ViewerSpec
