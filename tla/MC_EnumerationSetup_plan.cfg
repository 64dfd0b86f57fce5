\* The YSPARSE plan with caller-supplied bound arrays and phase lengths,
\* against the per-phase shape of the arrays the spec describes.
CONSTANTS
    GNRMaxN = 1
    YSparseMaxN = 20
    PhaseLengths = {0, 1, 2, 3, 4, 5}
    StartIndices = {0, 9, 19, 20, 23, 27}
    CustomBounds <- MCCustomBounds
SPECIFICATION Spec
INVARIANT PlanFitsPhases
CHECK_DEADLOCK FALSE
