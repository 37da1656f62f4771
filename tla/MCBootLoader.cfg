SPECIFICATION Spec
CONSTANTS
    Console = 1300
    Installers = {i1, i2}
INVARIANT
    LoaderDone
CHECK_DEADLOCK FALSE
