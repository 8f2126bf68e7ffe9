CONSTANTS
    Initialiser = initialiser
    Client = {a, b}
    Rates = {0, 41666, 250000, 500000}
    NULL = NULL
SPECIFICATION FairSpec
INVARIANTS AnswerIsMine DataIsThere AlwaysSomeoneToWake
PROPERTIES OneAtATime WaitsEnd
CHECK_DEADLOCK FALSE
