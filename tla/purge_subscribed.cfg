SPECIFICATION Spec
CONSTANTS
    Pool = {}
    Modes = {"stripe"}
    MaxSubs = 2
    GraceDays = 1
    TrialDays = 1
    PastDueDays = 1
    MaxTime = 1
    MaxDisturbances = 4
PROPERTY NoPurgeWhileSubscribed
CHECK_DEADLOCK FALSE
