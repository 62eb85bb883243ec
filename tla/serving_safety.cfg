SPECIFICATION ServingSpec
CONSTANTS
    r1 = r1
    s1 = s1
    MaxDepth = 2
    MaxTokens = 3
    MaxChunks = 2
    StreamDepth = 2
    Readers = {r1}
    Streams = {s1}
    Ops <- ServingOps
INVARIANTS
    EventsAreCommitted
    CommitTokenCoversBatch
    GenerationSeesTraining
    WeightsHoldStill
    AnswerReachesToken
PROPERTY EventsMoveForward
CONSTRAINT OneKindOfClient
CHECK_DEADLOCK FALSE
