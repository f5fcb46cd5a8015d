\* One client session with up to three lines; the server may die or hang.
SPECIFICATION Spec
CONSTANTS
    MaxLines = 3
INVARIANTS
    TypeOK
    ServerIsStopped
    AnswersAreMatched
PROPERTIES
    AnswerArrives
    LossIsSeen
    ShutdownIsSeen
    ClosedClientEndsServer
CHECK_DEADLOCK FALSE
