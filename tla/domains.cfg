SPECIFICATION FairSpec
CONSTANTS
    Tenants = {"acme", "zen"}
    Hosts = {"rd.example"}
    MaxDomains = 1
    PendingDays = 1
    BrokenDays = 1
    CheckEvery = 0
    IssueEvery = 1
    HealthEvery = 1
    RetryEvery = 0
    MaxIssueFailures = 2
    MaxId = 2
    MaxTime = 2
    MaxDisturbances = 4
INVARIANTS PrimaryWorks VerifiedOwner
PROPERTIES ClaimsHold DomainsSettle
CHECK_DEADLOCK FALSE
