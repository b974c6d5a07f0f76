SPECIFICATION Spec
CONSTANTS
    a1 = a1
    a2 = a2
    a3 = a3
    a4 = a4
    visa = visa
    mc = mc
    NoAttempt = NoAttempt
    NoNode = NoNode
    Attempts = {a1, a2}
    Nodes = {visa, mc}
    Repliers = {w1}
    StanMod = 2
    EgressCap = 1
    MaxProbes = 1
    ScreenCodes = {"93"}
    StipCodes = {"00"}
    MaxAge = 2
    JournalDies = FALSE
    Id <- DistinctId
    Stan <- CrossedStan
    Kind <- SecondSecured
    Mti <- SecondEcho
    Held <- AllHeld
    OrigStan <- NoOrig
    Route <- FailoverForSecond
INVARIANTS
    ApprovalHasOrigin
    JournalMatchesTerminal
    SoloTracked
