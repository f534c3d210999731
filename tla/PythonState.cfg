CONSTANTS
    o1 = o1
    o2 = o2
    p1 = p1
    Observers = {o1, o2}
    Pollers = {p1}
    MaxSets = 2
SPECIFICATION FairSpec
INVARIANTS
    TypeOK
    NoUpdateLost
    UpdatesInOrder
PROPERTIES
    ObserversSeeEveryValue
    PollersCatchUp
CHECK_DEADLOCK FALSE
