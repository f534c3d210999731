CONSTANTS
    c1 = c1
    c2 = c2
    Commands = {c1, c2}
    Nobody = Nobody
    Letters = {"x", "y"}
    Text <- SomeText
    Streams <- SomeStreams
    MaxChunk = 2
SPECIFICATION Spec
INVARIANTS
    TypeOK
    LinesAreTheBytes
    WireIsInSlotOrder
CHECK_DEADLOCK FALSE
