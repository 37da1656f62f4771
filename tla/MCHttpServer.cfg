SPECIFICATION FairSpec
CONSTANT
    Clients = {c1, c2}
    Pieces = 3
    Units = 2
    NULL = NULL
INVARIANTS
    AnswerIsTrue
PROPERTIES
    NothingKept
    EveryoneServed
\* start_http_server may return before it serves anybody.
CHECK_DEADLOCK FALSE
