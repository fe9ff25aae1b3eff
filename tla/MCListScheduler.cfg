CONSTANTS
    Value <- Values
    Graphs <- TraceDDGs
SPECIFICATION Spec
INVARIANTS
    TypeOK
    PredCountExact
    DependenceOrder
    ReadyQueueExact
    CriticalPathOrder
    ScheduleComplete
    CriticalPathCoversSuccessors
    NoneWaitsForUnmovable
PROPERTIES
    PickIsBestChoice
    Termination
CHECK_DEADLOCK FALSE
