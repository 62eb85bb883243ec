SPECIFICATION Spec
CONSTANTS
    auto = auto
    user = user
    Names = {auto, user}
    Autosave = auto
    MaxSteps = 2
    MaxMerges = 2
    MaxBoots = 2
    MaxSaves = 3
    MaxFaults = 1
INVARIANTS TypeOK ResidualIsLive SnapshotIsWhole CleanExit
PROPERTY MergeKeepsWeights
CHECK_DEADLOCK FALSE
