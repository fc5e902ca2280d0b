SPECIFICATION LibrarySpec
CONSTANTS
  MaxVersion = 5
  Times = {1, 3}
  Contents = {"ws", "id", "time", "bad", "text", "tag", "long"}
  Delimiters = {"cr", "lf"}
  MaxFile = 15
  MaxRare = 2
  MaxBlemished = 10
  MaxTime = 4
  Versions <- MCVersions
  Resizable = {1, 2}
  SortId <- MCSortId
  Widths = {100, 150}
  Configurations <- MCConfigurations
  Row = {r1, r2, r3, r4}
  NoRow = NoRow
  Periods <- MCPeriods
  Sizes <- MCSizes
  Kilo = 128
  Thousand = 125
  MaxLength = 4
  Byte = {0, 1}
  IO_BUF_SIZE = 2
  BUFFER_MAX_FILE_SIZE = 3
  MaxBytes = 4
  MaxCalls = 4
  a = a
  b = b
  r1 = r1
  r2 = r2
  Name = {a, b, r1, r2, "?"}
  None = None
  NotADict = NotADict
  InvalidTorrent = InvalidTorrent
  Decoded <- MCDecoded
  Torrents <- MCTorrents
  Upper <- MCUpper
  Arguments <- MCArguments
  FileNames <- MCFileNames
  Caller = {c1, c2}
  MaxMeddling = 2
  MaxFd = 7
CHECK_DEADLOCK FALSE
INVARIANTS
  SavedIsFound
  OneLinePerDelimiter
  TextConserved
  TerminatedFileIsComplete
  OneHighlighted
  NoneBetween
  ButtonsMatch
  AnswersAreRight
  LoadedExactly
  PathsAreRight
  SubtitlesAreFound
  DirectoryIsThere
  TerminalIsPutBack
  EndsAreSeen
PROPERTIES
  ForwardIsExact
  HeaderStays
  SettingsSurvive
