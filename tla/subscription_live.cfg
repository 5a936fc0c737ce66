SPECIFICATION FairSpec
CONSTANTS
    Users = {1, 2}
    Scenarios <- LiveScenarios
    Workers = {w1, w2}
    MaxNow = 2
    MaxLag = 0
    ReplayWindow = 1
    MaxCrashes = 1
    None = None
    NoRow = NoRow
    Free = Free
PROPERTIES EventuallyAcked TransactionsEnd NewestEventWins
