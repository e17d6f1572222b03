\* The service thread may fail to start.
CONSTANTS
    Threads = {t1, t2}
    Objects = {a, b}
    Stubs = {s1, s2}
    Worlds <- Failing
    MaxMarshals = 2
    a = a  b = b  s1 = s1  s2 = s2  s3 = s3  t1 = t1  t2 = t2  t3 = t3
SPECIFICATION Spec
PROPERTY ListeningReturns
CHECK_DEADLOCK FALSE
