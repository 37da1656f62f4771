SPECIFICATION PageSpec
CONSTANTS
    Polls = {q1, q2}
    Ring = 3
    Limit = 2
    KlMax = 2
    MaxSeq = 4
    IncidentLimit = 2
    IncidentKept = 1
    NULL = NULL
    NONE = NONE
    LastZone = 1
    Setpoints = {0, 1}
    FanFactory <- Factory
    Shipped <- ShippedValue
    Clicks = {c1}
    Reads = {r1}
INVARIANTS
    PageInOrder
    NoSilentGap
PROPERTIES
    IncidentSurrounded
    StockRestored
