CONSTANTS
    a = a
    b = b
    c = c
    Calls = {a, b, c}
    NoCall = NoCall
    Refused = {b}
    Leftovers <- SomeLeftovers
    Noise = {"S", "LOG"}
    MaxNoise = 1
    Disruptions = {"close", "cancelOpen", "readFails", "writeFails"}
SPECIFICATION Spec
INVARIANTS
    TypeOK
    ChannelIInv
    CorrelatedUnlessTornDown
    SlotBeforeWire
    ClosedTransportHoldsNoSlot
PROPERTY ImplementsChannel
CHECK_DEADLOCK FALSE
