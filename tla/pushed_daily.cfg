SPECIFICATION QuantitiesSpec
CONSTANTS
    PlanCount = 2
    MaxDevices = 1
    MaxUpsets = 2
PROPERTY PushedDaily
CHECK_DEADLOCK FALSE
