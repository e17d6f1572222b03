------------------------------- MODULE MapSpec -------------------------------
(***************************************************************************)
(* What a HashMap promises its clients: a finite map from keys to values,  *)
(* in which Put replaces, Remove forgets one key and Clear all of them.    *)
(***************************************************************************)
CONSTANTS Keys, Values

VARIABLES
    map,    \* the value of each key, or "null"
    call    \* the last call

vars == <<map, call>>

Init == map = [k \in Keys |-> "null"] /\ call = <<"HashMap">>

Put(k, v) == call' = <<"Put", k, v>> /\ map' = [map EXCEPT ![k] = v]

Remove(k) == call' = <<"Remove", k>> /\ map' = [map EXCEPT ![k] = "null"]

Clear == call' = <<"Clear">> /\ map' = [k \in Keys |-> "null"]

Next ==
    \/ \E k \in Keys : Remove(k) \/ \E v \in Values : Put(k, v)
    \/ Clear

Spec == Init /\ [][Next]_vars
=============================================================================
