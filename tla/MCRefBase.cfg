CONSTANTS
    Handles = {h1, h2, h3, h4}
    INITIAL_STRONG_VALUE = 8
    MAX_COUNT = 4
    EarlyRelease = FALSE
SYMMETRY HandleSymmetry
SPECIFICATION Spec
INVARIANTS
    NoAssertion
    ImplNotFreed
    ObjectAlive
    CountsExact
    NoLeak
    HooksBalanced
PROPERTIES
    NotRevived
    ImplementsLifetime
CHECK_DEADLOCK FALSE
