\* The AbstractMatrix overload on a matrix whose memory is on the GPU.
CONSTANTS
    Heights = {1}
    Widths = {1}
    Values <- MCValues
    DistHeight = 1
    DistWidth = 1
    Strides = {1}
    BlockSizes = {1}
SPECIFICATION Spec
INVARIANT KernelOnOwnDevice
CHECK_DEADLOCK FALSE
