SPECIFICATION FairSpec
CONSTANTS
    Slots = {s1, s2, s3}
    Pids = {p1, p2, p3}
    Threads = {t1}
    WalkMax = 2
    LockMapped = TRUE
    NULL = NULL
INVARIANTS
    WalkSafe
    WalkExact
    ListFaithful
    UseCurrent
PROPERTY
    LockReleased
