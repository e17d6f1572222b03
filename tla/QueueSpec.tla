------------------------------ MODULE QueueSpec ------------------------------
(***************************************************************************)
(* What a ConcurrentLinkedQueue promises its clients: a queue on which each *)
(* call takes effect in one step between its beginning and its end.        *)
(***************************************************************************)
EXTENDS Sequences, Integers

SeqExt == INSTANCE SequencesExt

CONSTANTS Threads, Calls

VARIABLES
    queue,    \* the items, oldest first
    op,       \* the call each thread makes, NoCall if none
    result    \* what it will return, "none" while that is open

vars == <<queue, op, result>>

NoCall == [kind |-> "none", items |-> <<>>]

Init ==
    /\ queue \in Seq(UNION {{c.items[i] : i \in DOMAIN c.items} : c \in Calls})
    /\ op = [t \in Threads |-> NoCall]
    /\ result = [t \in Threads |-> "none"]

Call(t, c) ==
    /\ op[t] = NoCall
    /\ op' = [op EXCEPT ![t] = c]
    /\ UNCHANGED <<queue, result>>

\* The call of t, one of the kinds, takes effect: the queue becomes new and the
\* call will return r.
Effect(t, kinds, new, r) ==
    /\ op[t].kind \in kinds /\ result[t] = "none"
    /\ queue' = new
    /\ result' = [result EXCEPT ![t] = r]
    /\ UNCHANGED op

Insert(t) == Effect(t, {"Offer", "AddAll"}, queue \o op[t].items, "true")
Poll(t) == queue # <<>> /\ Effect(t, {"Poll"}, Tail(queue), Head(queue))
Peek(t) == queue # <<>> /\ Effect(t, {"Peek"}, queue, Head(queue))
None(t) == queue = <<>> /\ Effect(t, {"Poll", "Peek"}, queue, "null")
IsEmpty(t) == Effect(t, {"IsEmpty"}, queue, IF queue = <<>> THEN "true" ELSE "false")

\* The first item that equals the argument is removed.
First(t, i) ==
    /\ op[t].items # <<>> /\ queue[i] = op[t].items[1]
    /\ \A j \in 1..(i - 1) : queue[j] # queue[i]
Remove(t) ==
    \E i \in DOMAIN queue :
       First(t, i) /\ Effect(t, {"Remove"}, SeqExt!RemoveAt(queue, i), "true")
Contains(t) ==
    \E i \in DOMAIN queue : First(t, i) /\ Effect(t, {"Contains"}, queue, "true")
Misses(t) ==
    /\ \A i \in DOMAIN queue : ~First(t, i)
    /\ Effect(t, {"Remove", "Contains"}, queue, "false")

Return(t) ==
    /\ op[t] # NoCall /\ result[t] # "none"
    /\ op' = [op EXCEPT ![t] = NoCall]
    /\ result' = [result EXCEPT ![t] = "none"]
    /\ UNCHANGED queue

Next == \E t \in Threads :
    \/ \E c \in Calls : Call(t, c)
    \/ Insert(t) \/ Poll(t) \/ Peek(t) \/ None(t) \/ IsEmpty(t)
    \/ Remove(t) \/ Contains(t) \/ Misses(t) \/ Return(t)

Spec == Init /\ [][Next]_vars
=============================================================================
