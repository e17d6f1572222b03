------------------------------ MODULE MCExport ------------------------------
\* Instances of Export: the objects a and b; in every world threads may race for one of them.
EXTENDS Export
CONSTANTS a, b, t1, t2, t3, s1, s2, s3

\* Ordinary objects, on a bus that works and among peers that send no Release.
OrdinaryWorld == [mayFail |-> FALSE, maxReleases |-> 0, proxies |-> {}, bare |-> {}, broken |-> {}]

\* Threads and connections may fail, peers send Release, and b is a proxy.
OpenWorld == [mayFail |-> TRUE, maxReleases |-> 1, proxies |-> {b}, bare |-> {}, broken |-> {}]

\* Objects for which no stub can be made: a lacks an interface, b its coclass.
OddWorld == [mayFail |-> FALSE, maxReleases |-> 0, proxies |-> {}, bare |-> {b}, broken |-> {a}]

\* One object lacks an interface, and peers release the stub of the other.
MixedWorld == [mayFail |-> FALSE, maxReleases |-> 1, proxies |-> {}, bare |-> {}, broken |-> {b}]

\* The service thread may fail to start.
FailingWorld == [mayFail |-> TRUE, maxReleases |-> 0, proxies |-> {b}, bare |-> {}, broken |-> {}]

AllWorlds == {OrdinaryWorld, OpenWorld, OddWorld, MixedWorld}
Failing == {FailingWorld}
=============================================================================
