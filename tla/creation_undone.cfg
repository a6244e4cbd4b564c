SPECIFICATION Spec
CONSTANTS
    Signups = {"alice", "bob"}
    Slugs = {"acme"}
    Cards = {"visa"}
    Blocks = 2
    MinFreeBlocks = 1
    MaxSessions = 2
    MaxDisturbances = 1
INVARIANTS FailedIsUndone
CHECK_DEADLOCK FALSE
