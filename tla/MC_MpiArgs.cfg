\* Input calls on rank 0 and on another rank, then Process.
CONSTANTS
    Argvs <- MCArgvs
    Programs <- MCPrograms
    Ranks = {0, 1}
SPECIFICATION Spec
INVARIANT ConflictsWarned
\* The reader ends: the program goes on, or ArgException was thrown.
CHECK_DEADLOCK FALSE
