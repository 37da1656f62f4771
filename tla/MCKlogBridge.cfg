SPECIFICATION FairSpec
CONSTANTS
    Handlers = {h1, h2}
    Readers = {r1, r2}
    Ring = 2
    Limit = 1
    MaxSeq = 3
    NULL = NULL
INVARIANTS
    RingContiguous
    OneReader
    WantedIsRead
PROPERTY
    StopEndsReader
