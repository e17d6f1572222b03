CONSTANTS
    Handles = {h1, h2}
    INITIAL_STRONG_VALUE = 8
    MAX_COUNT = 4
    EarlyRelease = TRUE
SYMMETRY HandleSymmetry
SPECIFICATION Spec
INVARIANT BlockOutlivesObject
CHECK_DEADLOCK FALSE
