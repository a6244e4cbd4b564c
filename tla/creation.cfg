SPECIFICATION WorkSpec
CONSTANTS
    Signups = {"alice", "bob"}
    Slugs = {"acme", "zen"}
    Cards = {"visa"}
    Blocks = 2
    MinFreeBlocks = 1
    MaxSessions = 3
    MaxDisturbances = 3
INVARIANTS TypeOK PortsNeverShared OneTrialPerCard CreatedHasTenant
PROPERTIES LeftInTwoWaysOnly CreationEnds
CHECK_DEADLOCK FALSE
