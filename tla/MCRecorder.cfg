SPECIFICATION FairSpec
CONSTANT
    DeepEvery = 2
    PostTrigger = 2
    MaxUp = 1
    MaxBoot = 1
    MaxSeq = 4
    NULL = NULL
INVARIANTS
    TrueReboots
    IncidentComplete
    TriggersCovered
PROPERTY
    IncidentWritten
