SPECIFICATION FairSpec
CONSTANTS
    c1 = c1
    c2 = c2
    Clients = {c1}
    None = None
    Win <- OneGame
    MaxMessages = 2
    MaxLeaves = 0
    MaxFailures = 1
    MaxTicks = 1
    StateCap = 6
    ExecCap = 3
    Requests = {"createGame"}
    CommitsCanFail = TRUE
INVARIANT BalanceIsTheSumOfResults
PROPERTY FinishedGamesLeave
CHECK_DEADLOCK FALSE
