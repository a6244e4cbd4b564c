SPECIFICATION SchemaSpec
CONSTANTS
    Starters = {"dashboard"}
    TenantTables = {"users", "devices"}
    MaxUserId = 2
INVARIANT StartsAlways
CHECK_DEADLOCK FALSE
