\* Three threads; a thin lock holds two levels and a third inflates it.
CONSTANTS
    t1 = t1  t2 = t2  t3 = t3
    Threads = {t1, t2, t3}
    kThinLockMaxCount = 1
    MaxDepth = 3
    MaxCalls <- FewCalls
    MaxInterrupts = 1
SPECIFICATION Spec
INVARIANTS HoldsExact WaitSetExact NoInterruptedSleeper NoStrandedContender
PROPERTIES WaitReturns
CHECK_DEADLOCK FALSE
