\* Worlds in which threads race, peers release stubs, threads fail and objects are odd.
CONSTANTS
    Threads = {t1, t2, t3}
    Objects = {a, b}
    Stubs = {s1, s2, s3}
    Worlds <- AllWorlds
    MaxMarshals = 3
    a = a  b = b  s1 = s1  s2 = s2  s3 = s3  t1 = t1  t2 = t2  t3 = t3
SPECIFICATION Spec
INVARIANTS StubCountsExact HeldStubAlive AbortExplained ServedStubAlive PacksResolve SameStub
PROPERTIES MarshalReturns
CHECK_DEADLOCK FALSE
