CONSTANTS
    Bases <- MCLiveBases
    Bounds <- MCLiveBounds
    EnumTypes = {"FULL", "GNR", "YSPARSE"}
    TrialCounts = {0, 1}
    Scales <- MCScales
    BKZSteps <- MCBKZSteps
    CoeffBound = 2

SPECIFICATION Spec

PROPERTY Terminates


\* The function returns (or raises): its final state has no successor.
CHECK_DEADLOCK FALSE
