SPECIFICATION FairSpec
CONSTANTS
    Console = 1300
    Installers = {i1, i2}
INVARIANTS
    OnePayload
    HooksUnderPayload
    LoaderComplete
    NothingLeaked
    LoaderMapped
    CreatedIsEarned
PROPERTY
    InstallerReturns
\* Nothing is left to do once every installer has returned.
CHECK_DEADLOCK FALSE
