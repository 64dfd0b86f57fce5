\* The sparse and distributed sparse builders for n = 0..3 on 1 to 3 processes.
CONSTANTS
    Dims = {0, 1, 2, 3}
    ProcCounts = {1, 2, 3}
SPECIFICATION Spec
INVARIANT TypeOK QueuesWithinReserve BuildersAgree
\* Both builders end: every loop is done and every queue processed.
CHECK_DEADLOCK FALSE
