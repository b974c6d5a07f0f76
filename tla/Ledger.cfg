SPECIFICATION MCFairSpec
CONSTANTS
    c1 = c1
    r1 = r1
    r2 = r2
    r3 = r3
    stan = stan
    card = card
    odd = odd
    bin = bin
    rule = rule
    Default = Default
    NoRule = NoRule
    Captures = {c1}
    Reversals = {r1, r2, r3}
    Stans = {stan}
    Stan <- StanOf
    Cards = {card, odd}
    Card <- CardOf
    Amounts = {1, 2}
    Amount <- AmountOf
    Bins = {bin}
    Bin <- BinOf
    ShortPan = {}
    Unsliceable = {odd}
    Rules = {rule}
    Charge <- ChargeOf
    Batch = 2
    ChanCap = 2
    MaxEdits = 1
    MaxErrors = 1
INVARIANTS
    BookedOnce
    ReversalCancels
PROPERTY EventuallyBooked
CHECK_DEADLOCK FALSE
