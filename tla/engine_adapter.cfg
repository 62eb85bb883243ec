SPECIFICATION LockSpec
CONSTANTS
    c1 = c1
    c2 = c2
    Chats = {c1, c2}
    Wishes <- ChatWishes
    MaxChunks = 2
    Handler = handler
    Nobody = nobody
INVARIANT TrainingUnaffected
CHECK_DEADLOCK FALSE
