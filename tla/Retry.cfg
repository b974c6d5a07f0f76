SPECIFICATION Spec
CONSTANTS
    a1 = a1
    a2 = a2
    a3 = a3
    a4 = a4
    visa = visa
    mc = mc
    NoAttempt = NoAttempt
    NoNode = NoNode
    Attempts = {a1, a2, a3, a4}
    Nodes = {visa}
    Repliers = {w1}
    StanMod = 2
    EgressCap = 1
    MaxProbes = 0
    ScreenCodes = {}
    StipCodes = {"00"}
    MaxAge = 1
    JournalDies = FALSE
    Id <- SameId
    Stan <- SameStan
    Kind <- ThirdReversesFourthEcho
    Mti <- SecondAdvice
    Held <- SecondUnheld
    OrigStan <- NamesOne
    Route <- ToVisa
INVARIANTS
    TypeOK
    ReversalMeansTimeout
PROPERTIES
    LifecycleSpec
