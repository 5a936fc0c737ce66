SPECIFICATION PracticeSpec
CONSTANTS
    Slots = {s1, s2}
    Worlds <- MCWorlds
    mon = mon
    tue = tue
    red = red
    en = en
    Callers = {1, 2}
    Targets = {en}
    MaxTurns = 2
    MaxConvs = 2
    Profiles <- MCProfiles
    Size = 2
    Cap = 3
    Ceiling = 1
    Words = {red}
    MaxBox = 3
    MaxCards = 2
    Tongues = {1, 2}
    Members = {1, 2}
    Creators = {1}
    Codes = {11, 12}
    Locales = {en}
    TierTtl = 1
    MaxRows = 3
    LastHour = 2
SYMMETRY Symmetry
CHECK_DEADLOCK FALSE
INVARIANTS TrialOnce RatedOnce CountsAddUp SentenceMatches PersonalPrivate BundlesWhole
PROPERTIES KeptForGood TierIsFresh
