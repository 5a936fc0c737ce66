SPECIFICATION UnfailingSpec
CONSTANTS
    Requests = {r1, r2}
    Picks = {p1, none}
    NoPick = none
    Null = Null
    MaxTurns = 2
    MaxConvs = 1
    MaxMessages = 3
SYMMETRY RequestSymmetry
INVARIANT DoneAtCap
