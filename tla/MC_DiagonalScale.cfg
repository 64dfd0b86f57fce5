\* Every local entry point, side and orientation on 0..2 x 0..2 matrices,
\* and the distributed overload on a 3 x 3 matrix over grids of up to
\* 3 x 3 processes with block sizes 1 and 2.
CONSTANTS
    Heights = {0, 1, 2}
    Widths = {0, 1, 2}
    Values <- MCValues
    DistHeight = 3
    DistWidth = 3
    Strides = {1, 2, 3}
    BlockSizes = {1, 2}
SPECIFICATION Spec
INVARIANT ScaledCorrectly
\* A call returns, raises LogicError or has run into undefined behaviour.
CHECK_DEADLOCK FALSE
