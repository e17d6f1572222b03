------------------------------ MODULE MCMonitor ------------------------------
(* Instances of Monitor for TLC.                                           *)
EXTENDS Monitor

CONSTANTS t1, t2, t3

\* The first thread can wait at depth two, the second wait, the third notify.
FewCalls == [t \in Threads |-> CASE t = t1 -> 3 [] t = t2 -> 2 [] OTHER -> 1]
=============================================================================
