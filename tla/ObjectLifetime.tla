---------------------------- MODULE ObjectLifetime ----------------------------
(***************************************************************************)
(* What RefBase promises its users, without counters: an object is there   *)
(* while somebody holds it, with the normal lifetime it dies when the last *)
(* holder lets go and can never be held again, and with the extended       *)
(* lifetime it may be held again until it is destroyed.                    *)
(***************************************************************************)
EXTENDS FiniteSets

CONSTANT Handles

VARIABLES
    mode,      \* "STRONG" (normal lifetime) or "WEAK" (extended lifetime)
    holders,   \* the handles that hold a strong reference
    object     \* "fresh" (never held), "live", "dying" or "gone"

absVars == <<mode, holders, object>>

Init ==
    /\ mode = "STRONG"
    /\ holders = {}
    /\ object = "fresh"

Extend ==
    /\ object = "fresh"
    /\ mode' = "WEAK"
    /\ UNCHANGED <<holders, object>>

Acquire(h) ==
    /\ h \notin holders
    /\ object \in {"fresh", "live"}
    /\ holders' = holders \cup {h}
    /\ object' = "live"
    /\ UNCHANGED mode

Release(h) ==
    /\ h \in holders
    /\ holders' = holders \ {h}
    /\ object' = IF mode = "STRONG" /\ holders = {h} THEN "dying" ELSE object
    /\ UNCHANGED mode

Destroy ==
    /\ holders = {}
    /\ object \in (IF mode = "STRONG" THEN {"fresh", "dying"} ELSE {"fresh", "live"})
    /\ object' = "gone"
    /\ UNCHANGED <<mode, holders>>

Next ==
    \/ Extend
    \/ \E h \in Handles : Acquire(h) \/ Release(h)
    \/ Destroy

Spec == Init /\ [][Next]_absVars
=============================================================================
