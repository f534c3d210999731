CONSTANTS
    x = x
    y = y
    Objects = {x, y}
    NumEntries = 2
    Selected = {1, 2}
    SetsType = TRUE
    Refusals = {"setIOType", "query", "subscribe"}
    MaxReading = 2
    MaxBad = 1
SPECIFICATION FairSpec
INVARIANTS
    TypeOK
    StatesFollowDevice
PROPERTIES
    StatesNeverGoBack
    UpdatesArrive
CHECK_DEADLOCK FALSE
