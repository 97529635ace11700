SPECIFICATION Spec
CONSTANTS
  Mngrs = {m1, m2}
  Handles = {h1, h2, h3, h4}
  None = None
  App = App
  MaxCount = 3
INVARIANTS TypeOK CountTellsStartup AppKeepsWinsock  SocketsAccounted ReleasedUnlessRun
SYMMETRY Symmetry
CHECK_DEADLOCK FALSE
