------------------------------ MODULE MCHashMap ------------------------------
(* Instances of HashMap for TLC.                                           *)
EXTENDS HashMap, TLC

CONSTANTS k1, k2, k3, k4, v1, v2

\* Hashes of strings and Uuids, which are never negative.  k1, k2 and k4 share a
\* chain of 5 buckets; in 7, the limit, k2 parts from them and k3 joins them.
StringHash == k1 :> 0 @@ k2 :> 5 @@ k3 :> 7 @@ k4 :> 70

\* Hashes of objects: any Integer, -1 among them.
ObjectHash == k1 :> 3 @@ k2 :> -2 @@ k3 :> -1 @@ k4 :> -30

StringMap == [hash |-> StringHash, allocFails |-> FALSE]
ObjectMap == [hash |-> ObjectHash, allocFails |-> TRUE]
StringAndObjectMaps == {StringMap, ObjectMap}

\* get_lower_bound returns a prime of its list that no other is nearer than.
ASSUME NearestPrime ==
    \A n \in 0..6200 :
       LET distance(p) == IF p < n THEN n - p ELSE p - n
       IN /\ \E i \in DOMAIN prime_list : prime_list[i] = get_lower_bound(n)
          /\ \A i \in DOMAIN prime_list :
                distance(get_lower_bound(n)) <= distance(prime_list[i])
=============================================================================
