SPECIFICATION ChatSpec
CONSTANTS
    Requests = {r1, r2}
    Picks = {p1, none}
    NoPick = none
    Null = Null
    MaxTurns = 2
    MaxConvs = 2
    MaxMessages = 3
SYMMETRY RequestSymmetry
INVARIANTS CountBacked ExactWhenSerial
PROPERTIES FinalWhenSerial ServesDialogue
