SPECIFICATION Spec
CONSTANTS
    Users = {1, 2}
    Scenarios <- LateCancel
    Workers = {w1, w2}
    MaxNow = 2
    MaxLag = 0
    ReplayWindow = 9
    MaxCrashes = 0
    None = None
    NoRow = NoRow
    Free = Free
PROPERTY NoStaleWrite
