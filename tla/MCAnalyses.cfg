CONSTANTS
    Functions <- AllFunctions
    NoName = NoName
SPECIFICATION Spec
INVARIANTS
    NeverTooMuch
    ResultIsLiveness
    ResultIsReaching
    ResultIsDominance
    IdomIsClosest
    LiveValuesAreDefined
PROPERTY Termination
CHECK_DEADLOCK FALSE
