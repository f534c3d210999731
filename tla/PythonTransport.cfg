CONSTANTS
    a = a
    b = b
    k1 = k1
    k2 = k2
    Calls = {a, b}
    NoCall = NoCall
    Refused = {b}
    Closers = {k1, k2}
    Opener = Opener
    Leftovers <- SomeLeftovers
    Noise = {"S", "LOG"}
    MaxNoise = 1
    Disruptions = {"readFails", "writeFails"}
SPECIFICATION FairSpec
INVARIANTS
    TypeOK
    CorrelatedFutures
    CloseResolvesFutures
    NoCommandBeforeMarker
PROPERTIES
    ImplementsChannel
    CommandsEnd
    OpenEnds
    FuturesAreDone
CHECK_DEADLOCK FALSE
