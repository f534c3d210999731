CONSTANTS
    x = x
    y = y
    Objects = {x}
    NumEntries = 1
    Selected = {1}
    SetsType = FALSE
    Refusals = {}
    MaxReading = 1
    MaxBad = 1
    BufferCapacity = 2
    ParserThrows = FALSE
SPECIFICATION Spec
INVARIANT StatesFollowDevice
CHECK_DEADLOCK FALSE
