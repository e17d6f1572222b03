SPECIFICATION Spec
CONSTANTS
    t1 = t1
    t2 = t2
    Threads = {t1, t2}
    Calls <- SomeCalls
    Contents <- SomeContents
    MaxNodes = 5
    MaxOps <- FewOps
INVARIANTS
    OffBehindHead
PROPERTIES
    ImplementsQueue
    CallsReturn
CHECK_DEADLOCK FALSE
