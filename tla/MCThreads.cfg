SPECIFICATION ThreadsSpec
CONSTANTS
  Clients = {c1, c2}
  Workers = {w1, w2}
  Groups = {g1, g2}
  GlibSignals = TRUE
  MaxTasks = 4
  Dir = {d1, d2}
  NoDir = NoDir
  MaxWatch = 2
  MaxEvents = 3
  SignalCap = 2
INVARIANTS
  OneExecutor
  NoTaskStranded
  QuietGroup
  ReportsAreCurrent
  OwnerIsWoken
  ReportedInOrder
  AbortsOnlyIfGone
PROPERTIES
  ImplementsJobQueue
  JobsProgress
  BusyPauseIsSignalled
  DestructorReturns
  UnsetReturns
