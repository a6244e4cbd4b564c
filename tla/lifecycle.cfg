SPECIFICATION Spec
CONSTANTS
    Pool = {"pool"}
    Modes = {"stripe"}
    MaxSubs = 2
    GraceDays = 1
    TrialDays = 1
    PastDueDays = 1
    MaxTime = 2
    MaxDisturbances = 4
INVARIANTS TypeOK GraceHeld NoStaleBillingFlag WorkerHolds
PROPERTIES PurgeIsLast RelayFollowsStatus OnlyProviderLiftsSuspension
CHECK_DEADLOCK FALSE
