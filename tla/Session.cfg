SPECIFICATION FairSpec
CONSTANTS
    c1 = c1
    f1 = f1
    f2 = f2
    f3 = f3
    Conns = {c1}
    Frames = {f1, f2, f3}
    Script <- OneConn
    Size <- Sizes
    Kind <- Kinds
    Key <- SameKey
    Workers = {w1, w2}
    CoreCap = 1
    ReplyCap = 1
    SinkCap = 1
INVARIANTS
    FramesIntact
    ReversedNotAnswered
PROPERTIES
    TeardownCompletes
    AnswersReachTerminal
CHECK_DEADLOCK FALSE
