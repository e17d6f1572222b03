\* Three threads on a recursive mutex and its condition.  A mutex whose threads
\* never nest their critical sections behaves the same whether it is recursive
\* or not, so the flat programs stand for both kinds.
CONSTANTS
    t1 = t1  t2 = t2  t3 = t3
    Threads = {t1, t2, t3}
    Programs <- AllPrograms
    Recursive = TRUE
    InitialValues = {0}
    MaxSpurious = 1
SPECIFICATION Spec
INVARIANTS MutualExclusion RecursionExact CountsExact NoStrandedSleeper
PROPERTIES Termination
CHECK_DEADLOCK FALSE
