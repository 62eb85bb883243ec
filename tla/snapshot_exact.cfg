SPECIFICATION Spec
CONSTANTS
    auto = auto
    user = user
    Names = {auto, user}
    Autosave = auto
    MaxSteps = 2
    MaxMerges = 2
    MaxBoots = 2
    MaxSaves = 4
    MaxFaults = 0
INVARIANT RestoreIsExact
CHECK_DEADLOCK FALSE
