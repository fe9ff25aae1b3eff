CONSTANTS
    Profiles <- SmallProfiles
    Threshold = 60
SPECIFICATION Spec
INVARIANTS
    ReachableBlocksInOneTrace
    TracesAreHotPaths
    HotnessOrder
    TracesCannotBeJoined
    StatsCoverTraces
PROPERTY Termination
CHECK_DEADLOCK FALSE
