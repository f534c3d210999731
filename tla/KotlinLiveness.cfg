CONSTANTS
    a = a
    b = b
    c = c
    Calls = {a, b}
    NoCall = NoCall
    Refused = {b}
    Leftovers <- SomeLeftovers
    Noise = {"S"}
    MaxNoise = 1
    Disruptions = {"cancelOpen", "close"}
SPECIFICATION FairSpec
PROPERTIES
    ConstructionEnds
    TeardownEnds
    CallsAreAnswered
CHECK_DEADLOCK FALSE
