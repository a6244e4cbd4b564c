SPECIFICATION FairSpec
CONSTANTS
    Pool = {}
    Modes = {"stripe", "manual"}
    MaxSubs = 2
    GraceDays = 1
    TrialDays = 1
    PastDueDays = 1
    MaxTime = 2
    MaxDisturbances = 3
PROPERTIES CacheConverges StripeDrives TrialsEnd DuePurged
CHECK_DEADLOCK FALSE
