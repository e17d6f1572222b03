\* Two threads with AutoLock sections on one object.
CONSTANTS
    t1 = t1  t2 = t2  t3 = t3
    Threads = {t1, t2}
    kThinLockMaxCount = 1
    MaxDepth = 2
    MaxCalls <- FewCalls
    MaxInterrupts = 0
SPECIFICATION Spec
INVARIANT SectionsExclusive
CHECK_DEADLOCK FALSE
