\* The cascade's failure handling and termination.
CONSTANTS
    Ladder <- MCLadder
    NativeBits <- MCNativeBits
    Log2Values <- MCLog2Values
    MaxLoopCalls = 2
    Ulp <- MCUlp
    Bounds <- MCBounds
    Norms <- MCNorms
    R00 = 9
SPECIFICATION Spec
INVARIANT FailuresAbsorbed AnswerExactUnlessRounded
PROPERTY Terminates
\* The engine returns to its caller: the empty stack is a final state.
CHECK_DEADLOCK FALSE
