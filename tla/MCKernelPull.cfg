SPECIFICATION PullSpec
CONSTANT
    Windows <- MCWindows
    Base = 8
    Top = 16
    MaxWant = 3
    XferChunk = 2
    Chunk = 3
    JUNK = JUNK
    NULL = NULL
    MaxSize = 9
    Half = 4
    Requests <- MCRequests
INVARIANTS
    ReadsMapped
    PulledIsPrefix
    ElfFaithful
    InPlace
    WroteIsWhole
PROPERTY
    CommandDone
\* The client and the server have nothing left to do when the pull is over.
CHECK_DEADLOCK FALSE
