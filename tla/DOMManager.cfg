\* Commands, ticks and posts interleaved.
SPECIFICATION FairSpec
CONSTANTS
    c1 = c1
    c2 = c2
    Everyone = Everyone
    Clients = {c1, c2}
    MaxTaken = 2
    MaxIo = 2
    MaxPosted = 2
INVARIANTS TypeOK ChainAlive SnapshotNotLost
PROPERTIES NeverBackwards SnapshotsKeepComing
