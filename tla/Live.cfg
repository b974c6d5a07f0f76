SPECIFICATION FairSpec
CONSTANTS
    a1 = a1
    a2 = a2
    a3 = a3
    a4 = a4
    visa = visa
    mc = mc
    NoAttempt = NoAttempt
    NoNode = NoNode
    Attempts = {a1, a2}
    Nodes = {visa}
    Repliers = {w1}
    StanMod = 2
    EgressCap = 1
    MaxProbes = 0
    ScreenCodes = {}
    StipCodes = {"00"}
    MaxAge = 2
    JournalDies = TRUE
    Id <- DistinctId
    Stan <- CrossedStan
    Kind <- SecondSecured
    Mti <- SecondAdvice
    Held <- AllHeld
    OrigStan <- NoOrig
    Route <- ToVisa
PROPERTIES
    EventuallyAnswered
    EntriesLeave
