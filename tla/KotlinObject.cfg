CONSTANTS
    x = x
    y = y
    Objects = {x, y}
    NumEntries = 1
    Selected = {1}
    SetsType = TRUE
    Refusals = {"setIOType", "query", "subscribe"}
    MaxReading = 3
    MaxBad = 1
    BufferCapacity = 2
    ParserThrows = TRUE
SPECIFICATION FairSpec
INVARIANTS
    TypeOK
    StatesFollowFlow
PROPERTIES
    UpdatesArrive
CHECK_DEADLOCK FALSE
