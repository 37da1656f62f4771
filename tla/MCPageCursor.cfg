SPECIFICATION PageSpec
CONSTANTS
    Polls = {q1}
    Ring = 3
    Limit = 2
    KlMax = 3
    MaxSeq = 4
    IncidentLimit = 2
    IncidentKept = 1
    NULL = NULL
    NONE = NONE
    LastZone = 1
    Setpoints = {0, 1}
    FanFactory <- Factory
    Shipped <- ShippedValue
    Clicks = {c1}
    Reads = {r1}
INVARIANT
    CursorHonest
