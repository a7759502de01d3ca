SPECIFICATION Spec
CONSTANTS
    c1 = c1
    c2 = c2
    Clients = {c1, c2}
    None = None
    Win <- TwoGames
    MaxMessages = 2
    MaxLeaves = 1
    MaxFailures = 1
    MaxTicks = 0
    StateCap = 6
    ExecCap = 3
    Requests = {"createGame", "cancelGame", "terminateGame", "admin"}
    CommitsCanFail = FALSE
SYMMETRY Symmetry
INVARIANTS
  QuietScreensAreCurrent
  EachFinderPaysOnce
PROPERTIES
  ResultsAreNotLost
CHECK_DEADLOCK FALSE
