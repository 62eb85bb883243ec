SPECIFICATION LoopSpec
CONSTANTS
    r1 = r1
    MaxDepth = 1
    MaxTokens = 3
    Readers = {r1}
    Ops <- ServingOps
PROPERTIES
    TrainsResolve
    DrainReturns
CHECK_DEADLOCK FALSE
