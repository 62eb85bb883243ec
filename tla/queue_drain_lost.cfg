SPECIFICATION Spec
CONSTANTS
    r1 = r1
    MaxDepth = 1
    MaxTokens = 3
    Readers = {r1}
    Ops <- ServingOps
INVARIANT DrainResolvesAll
CHECK_DEADLOCK FALSE
