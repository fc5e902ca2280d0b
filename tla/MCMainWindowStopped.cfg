SPECIFICATION FairSpec
CONSTANTS
  Offsets = {zero, a}
  Zero = zero
  Noise = noise
  Eol = eol
  OutCap = 2
  InCap = 1
  SigCap = 1
  LineLimit = 2
  MaxTokens = 2
  JobControl = TRUE
  MaxKeys = 0
  ReadSize = 1
PROPERTIES
  ViewerLive
