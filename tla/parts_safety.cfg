SPECIFICATION PartsSpec
CONSTANTS
    c1 = c1
    c2 = c2
    Chats = {c1, c2}
    Wishes <- ChatWishes
    MaxChunks = 2
    Handler = handler
    Nobody = nobody
    Specs <- StepSpecs
    PerObjective = TRUE
    MaxSteps = 2
    Samples <- SampleShapes
    MaxBatch = 2
    MaxLen = 5
    Followers = {f1}
    TailN = 1
    MaxLines = 5
    MaxCrashes = 2
    Chars = {"lt", "sl", "gt"}
    StartTag <- Think
    EndTag <- Unthink
    MaxText = 7
    MaxDelta = 3
    IndexCap = 2
    MaxAnswers = 3
    MaxFeedbacks = 1
    Payloads <- ClientPayloads
    QueueDepth = 2
    MaxRecords = 4
    ReplayCap = 1
    MinFeedback = 1
    LabelCap = 1
    MinPrompts = 1
    Rollouts = 2
    Answers = {"a"}
INVARIANTS
    WorkIsApart
    AdapterComesBack
    StreamEndsTruthfully
    StepsAreWhole
    PushDownIsAnchored
    GradientsMeetTheirTokens
    FollowerMissesNothing
    CrashLosesAtMostOne
    StreamingIsOneShot
    TrainedAsLogged
    BackgroundIsBounded
PROPERTIES
    RecordLogSpec
    LockComesFree
    ShutdownReachesDrain
CHECK_DEADLOCK FALSE
