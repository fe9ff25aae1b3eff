CONSTANTS
    Calls <- DiamondCalls
    Budget = 2
SPECIFICATION Spec
PROPERTY HoistStaysWithinBudget
CHECK_DEADLOCK FALSE
