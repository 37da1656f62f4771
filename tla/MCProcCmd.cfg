SPECIFICATION ProcFairSpec
CONSTANTS
    MaxCalls = 2
    Hosts <- HostsValue
    Elfs <- ElfsValue
    PageSize = 2
    Top = 10
    Half = 4
    Menus <- MenusValue
    Lengths = {3}
    Allocs = {a1}
    a1 = a1
INVARIANTS
    OwnResult
    MemoryExact
    SuccessEarned
    TargetSurvives
    MapFaithful
PROPERTIES
    RpcCallSpec
    CommandEnds
\* Nothing is asked of a target that has crashed.
CHECK_DEADLOCK FALSE
