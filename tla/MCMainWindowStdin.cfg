SPECIFICATION FairSpec
CONSTANTS
  Offsets = {zero, a}
  Zero = zero
  Noise = noise
  Eol = eol
  OutCap = 2
  InCap = 2
  SigCap = 1
  LineLimit = 2
  MaxTokens = 1
  JobControl = FALSE
  MaxKeys = 2
  ReadSize = 1
PROPERTIES
  StdinKeysAreRead
