-------------------------- MODULE MCServiceManager --------------------------
(* Instances of ServiceManager for TLC.                                    *)
EXTENDS ServiceManager, TLC

CONSTANTS c1, c2, n1, empty, s1, s2

\* The names belong to the first client; a careful second one only asks.
OneOwner == n1 :> c1 @@ empty :> c1

\* One client adds and removes its name, and both ask for it.
CarefulWorld == [careful |-> TRUE, mayStop |-> FALSE, maxCalls |-> c1 :> 3 @@ c2 :> 2]

\* Clients call as they like and the daemon may stop.
OpenWorld == [careful |-> FALSE, mayStop |-> TRUE, maxCalls |-> c1 :> 2 @@ c2 :> 2]

CarefulAndOpen == {CarefulWorld, OpenWorld}
=============================================================================
