\* Careful clients of a daemon that lasts, and any clients of one that may stop.
CONSTANTS
    c1 = c1  c2 = c2  n1 = n1  empty = empty  s1 = s1  s2 = s2
    Clients = {c1, c2}
    Names = {n1, empty}
    EmptyName = empty
    Services = {s1, s2}
    Owner <- OneOwner
    Worlds <- CarefulAndOpen
SPECIFICATION Spec
INVARIANTS OwnersViewTrue DaemonRuns PacksOwned ResultWasRegistered
PROPERTY CallsReturn
CHECK_DEADLOCK FALSE
