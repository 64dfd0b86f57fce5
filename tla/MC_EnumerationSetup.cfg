\* GNR pruning bounds for every dimension up to 48; the YSPARSE plan for
\* n = 1..20 (the spec's n = 20, startIndex = 9, phaseLength = 4 case
\* included), start indices inside, at and past n.
CONSTANTS
    GNRMaxN = 48
    YSparseMaxN = 20
    PhaseLengths = {0, 1, 2, 3, 4, 5}
    StartIndices = {0, 9, 19, 20, 23, 27}
    CustomBounds <- MCCustomBounds
SPECIFICATION Spec
INVARIANT PruningMonotone LastBoundIsFull PhasesPartitionTail
\* The bounds or the plan are built, or the vector constructor has thrown.
CHECK_DEADLOCK FALSE
