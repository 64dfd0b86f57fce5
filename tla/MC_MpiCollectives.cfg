\* Every overload of both collectives on one to three ranks, count 0 to 2.
CONSTANTS
    CommSizes = {1, 2, 3}
    Counts = {0, 1, 2}
    RealValues <- MCRealValues
    ComplexValues <- MCComplexValues
SPECIFICATION Spec
INVARIANT CollectiveResult
PROPERTY AllReturn
\* Every call returns or raises LogicError; the ranks then stop.
CHECK_DEADLOCK FALSE
