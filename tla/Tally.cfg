SPECIFICATION FairSpec
CONSTANTS
    r1 = r1
    r2 = r2
    r3 = r3
    bankA = bankA
    bankB = bankB
    NoRecord = NoRecord
    Records = {r1, r2, r3}
    Acquirers = {bankA, bankB}
    Acquirer <- Acquirer3
    Amount <- Amount3
    Mti <- Mti3
    Rc <- RcOneDeclined
    SameFile = TRUE
    WalCap = 2
    ChanCap = 2
    MaxCrashes = 1
    MaxRestarts = 1
    MaxCutoffs = 2
INVARIANT TypeOK
INVARIANT TallyExact
INVARIANT TalliedAtLeastOnce
PROPERTY EventuallySwept
CHECK_DEADLOCK FALSE
