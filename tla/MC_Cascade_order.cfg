\* The order in which the cascade tries the lower types.
CONSTANTS
    Ladder <- MCLadder
    NativeBits <- MCNativeBits
    Log2Values <- MCLog2Values
    MaxLoopCalls = 2
    Ulp <- MCUlp
    Bounds <- MCBounds
    Norms <- MCNorms
    R00 = 9
SPECIFICATION Spec
INVARIANT AttemptOrder
\* The engine returns to its caller: the empty stack is a final state.
CHECK_DEADLOCK FALSE
