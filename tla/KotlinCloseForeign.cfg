CONSTANTS
    a = a
    b = b
    c = c
    Calls = {a, b}
    NoCall = NoCall
    Refused = {}
    Leftovers <- NoLeftovers
    Noise = {}
    MaxNoise = 0
    Disruptions = {"close"}
SPECIFICATION Spec
INVARIANT Correlated
CHECK_DEADLOCK FALSE
