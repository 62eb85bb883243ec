SPECIFICATION Spec
CONSTANTS
    r1 = r1
    MaxDepth = 2
    MaxTokens = 4
    Readers = {r1}
    Ops <- AllOps
INVARIANTS
    TrainsCommitInOrder
    EarlierTrainingFirst
    ReaderSeesTraining
    OkMeansApplied
    PendingCoversTraining
    DrainResolvesTraining
    DropIsFinal
PROPERTIES
    ProgressIsKept
    HandledOnce
    OrderedSpec
CHECK_DEADLOCK FALSE
