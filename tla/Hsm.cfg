SPECIFICATION HsmFairSpec
CONSTANTS
    c1 = c1
    c2 = c2
    c3 = c3
    c4 = c4
    NoCall = NoCall
    Calls = {c1, c2, c3, c4}
    Kind <- KindOf
    Verdict <- VerdictOf
    Pan12 = {c4}
    QueueCap = 1
    HeaderMod = 2
    CounterMod = 3
INVARIANTS
    EntryLive
    AnswerMatches
PROPERTY CallReturns
CHECK_DEADLOCK FALSE
