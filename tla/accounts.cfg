SPECIFICATION AccountsSpec
CONSTANTS
    Slots = {s1, s2}
    Worlds <- MCWorlds
    Identities <- MCIdentities
    Null = Null
    Conversations = {0, 1}
    g1 = g1
    g2 = g2
    a1 = a1
    mail = mail
    other = other
    en = en
    fr = fr
    Learners = {1, 2}
    Langs = {en, fr}
    Unlearnable = {}
    Ttl = 1
    MaxEntries = 1
    MaxTime = 3
    Callers = {1, 2}
    Targets = {en}
    MaxTurns = 2
    MaxConvs = 2
SYMMETRY Symmetry
CHECK_DEADLOCK FALSE
INVARIANTS OneAccount OneSuccessor OneLastLearned TurnsCounted TranscriptBounded
PROPERTIES LanguageIsFresh CompleteStable ClaimedOnce
