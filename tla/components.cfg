SPECIFICATION AllSpec
CONSTANTS
    Users = {"ann", "bob"}
    FirstAdmin = "ann"
    Browsers = {b1, b2}
    Passkeys = {"k1"}
    MaxRequests = 2
    MaxSignIns = 2
    MaxClicks = 3
    Commands = {"first", "second"}
    GoodRows = {"r1"}
    Images = {1}
    MaxFiles = 2
    Admins = {"pam", "pat", "pit"}
    FirstAdmins = {"pam", "pat"}
    Consoles = {"c1"}
    MaxLinks = 0
    MaxArrived = 1
    MaxVersion = 1
    Tabs = {"b1"}
    Clerks = {"k1"}
    MaxGrants = 2
    MaxTokens = 1
    MaxEntries = 1
    Workers = {"timer", "console"}
    Restorers = {"console"}
    Unset = "unset"
    Settings <- BackupSettings
    MaxNames = 2
    MaxLive = 1
    Hosts = {"h"}
    RelayHost = "r"
    Tenants = {"one"}
    First = "one"
    Nobody = "nobody"
    TTL = 1
    Resolvers = 2
    Views <- Answerable
    MaxChanges = 2
    Versions = {1, 2}
    Archs = {"x64", "arm64"}
    MaxRows = 2
    MaxUses = 1
    Starters = {"dashboard", "script"}
    TenantTables = {"users", "devices"}
    MaxUserId = 2
INVARIANTS PasskeyNeverMissing EndedSessionsDie DisabledIsOut SafetyStays AcceptedIsPointed PinHasBinaries RunsRendering TenancyWhole
PROPERTIES RevokeEndsAll ChosenIsRestored StaleAtMostTTL
CHECK_DEADLOCK FALSE
