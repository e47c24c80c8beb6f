\* Two io threads, three connections.  Ten is a client id of 0, as 2^64 is.
SPECIFICATION FairSpec
CONSTANTS
    t1 = t1
    t2 = t2
    IoThreads = {t1, t2}
    Frames <- Lines
    MaxAccepts = 3
    MaxTicks = 6
    IdWord = 10
    PriceWord = 65536
    TopN = 2
    Count = 5
INVARIANTS AcceptArmed ErrExactly BookShaped
PROPERTIES ServerReleased
\* A process that has ended does nothing any more.
CHECK_DEADLOCK FALSE
