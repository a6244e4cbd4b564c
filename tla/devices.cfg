SPECIFICATION AllSpec
CONSTANTS
    MaxDay = 3
    MaxDevices = 2
    Devices = {"d1"}
    Groups = {"g1", "g2"}
    Options = {"auto_update"}
    MaxEdits = 5
    MaxClock = 2
    Conns = {"c1"}
    Retry = 1
    Stale = 1
    Recent = 2
    MaxRows = 3
    MaxDeletes = 1
INVARIANTS EchoedHasApplied BilledAtPeak
PROPERTIES OnlyItselfComesBack PolicyArrives RepeatsCountOnce EverySessionEnds LastWordIsTrue QuantityArrives
CHECK_DEADLOCK FALSE
