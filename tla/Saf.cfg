SPECIFICATION FairSpec
CONSTANTS
    visa = visa
    mastercard = mastercard
    f1 = f1
    f2 = f2
    f3 = f3
    NoFrame = NoFrame
    Clients = {visa, mastercard}
    Frames = {f1, f2}
    Advices = {f1, f2}
    Home <- HomeOf
    Key <- OwnKey
    SinkCap = 1
    MaxBreaks = 1
INVARIANTS
    StoredUntilWritten
    AdviceLostInBreak
PROPERTY DatabaseDrains
CHECK_DEADLOCK FALSE
