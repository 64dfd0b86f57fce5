CONSTANTS
    Bases <- MCBases
    Bounds <- MCBounds
    EnumTypes = {"FULL", "GNR", "YSPARSE"}
    TrialCounts = {0, 2}
    Scales <- MCScales
    BKZSteps <- MCBKZSteps
    CoeffBound = 2

SPECIFICATION Spec

INVARIANT ErrorOnlyIfUnsatisfiable


\* The function returns (or raises): its final state has no successor.
CHECK_DEADLOCK FALSE
