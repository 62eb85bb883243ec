SPECIFICATION ServingLive
CONSTANTS
    r1 = r1
    s1 = s1
    MaxDepth = 1
    MaxTokens = 2
    MaxChunks = 1
    StreamDepth = 2
    Readers = {r1}
    Streams = {s1}
    Ops <- ServingOps
PROPERTY DrainReturns
CHECK_DEADLOCK FALSE
