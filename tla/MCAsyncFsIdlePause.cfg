SPECIFICATION FairSpec
CONSTANTS
  Clients = {c1, c2}
  Workers = {w1, w2}
  Groups = {g1, g2}
  GlibSignals = TRUE
  MaxTasks = 2
PROPERTIES
  PauseIsSignalled
