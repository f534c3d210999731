CONSTANTS
    a = a
    b = b
    c = c
    Calls = {a, b, c}
    Kinds <- OneOfEach
    Callers <- OneOrAll
    Numbers = {0, 1}
    Plugged <- AllPlugged
    Misuses <- SomeMisuses
SPECIFICATION FairSpec
INVARIANTS
    TypeOK
    AnswersAreOwn
    DeclaredCallsWork
PROPERTY LeftClientsLetGo
CHECK_DEADLOCK FALSE
