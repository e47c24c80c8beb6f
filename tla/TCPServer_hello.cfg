\* Two io threads, one connection.
SPECIFICATION FairSpec
CONSTANTS
    t1 = t1
    t2 = t2
    IoThreads = {t1, t2}
    Frames <- Lines
    MaxAccepts = 1
    MaxTicks = 0
    IdWord = 10
    PriceWord = 65536
    TopN = 2
    Count = 5
INVARIANTS HelloAccepted
\* A process that has ended does nothing any more.
CHECK_DEADLOCK FALSE
