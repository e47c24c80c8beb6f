\* Sends, a stop, a release and failures interleaved.
SPECIFICATION FairSpec
CONSTANTS
    MaxSends = 4
    MaxTasks = 3
INVARIANTS WireInOrder OneWriteAtATime NotifiedOnce
PROPERTIES EndNoticed Written
\* A session that was released does nothing any more.
CHECK_DEADLOCK FALSE
