CONSTANTS
    a = a
    b = b
    c = c
    Calls = {a, b}
    Kinds <- OneOfEach
    Callers <- OneOrAll
    Numbers = {0, 1}
    Plugged <- OneSwarm
    Misuses = {}
SPECIFICATION Spec
INVARIANT EveryAnswerIsOwn
CHECK_DEADLOCK FALSE
