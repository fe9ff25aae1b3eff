CONSTANTS
    Calls <- SmallCalls
    Budget = 2
SPECIFICATION Spec
INVARIANTS
    EndIsLegalMotion
    NoMissedHoist
    StatsAccount
    HoistedInScheduleOrder
PROPERTY IsCodeMotion
CHECK_DEADLOCK FALSE
