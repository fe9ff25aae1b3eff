CONSTANTS
    Profiles <- SmallProfiles
    Threshold = 60
SPECIFICATION Spec
INVARIANT RejectedEdgesAreBackEdges
CHECK_DEADLOCK FALSE
