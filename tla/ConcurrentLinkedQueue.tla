------------------------ MODULE ConcurrentLinkedQueue ------------------------
(***************************************************************************)
(* The lock-free queue of libcore (util/concurrent/ConcurrentLinkedQueue): *)
(* a list of nodes whose head and tail pointers lag behind, and in which   *)
(* an item is removed before its node.  Where the Java original links a    *)
(* node that fell off the list to itself, this one sets its mIsOff after   *)
(* the head has moved.  One access of shared memory is one step.           *)
(***************************************************************************)
EXTENDS Integers, Sequences

CONSTANTS
    Threads,
    Calls,       \* the calls threads make: records of kind and items
    Contents,    \* the collections a queue is constructed from
    MaxNodes,    \* bound on the nodes ever created
    MaxOps       \* bound on the calls of each thread

Items == UNION {{s[i] : i \in DOMAIN s} : s \in {c.items : c \in Calls} \cup Contents}

ASSUME QueueAssumption ==
    /\ \A c \in Calls : /\ c.kind \in {"Offer", "AddAll", "Poll", "Peek", "IsEmpty",
                                       "Contains", "Remove"}
                        /\ c.items \in Seq(Items)
                        /\ (c.items = <<>>) = (c.kind \in {"Poll", "Peek", "IsEmpty"})
    /\ \A c \in Contents : c \in Seq(Items) /\ Len(c) <= MaxNodes
    /\ MaxNodes \in Nat \ {0} /\ MaxOps \in [Threads -> Nat]

Nodes == 1..MaxNodes
null == 0

VARIABLES
    mItem, mNext, mIsOff,   \* of each node
    mHead, mTail,           \* of the queue
    created,                \* nodes created so far
    my,                     \* where each thread is and its local variables
    op, result,             \* its call and what that will return
    ops                     \* history: calls so far

nodeVars == <<mItem, mNext, mIsOff>>
queueVars == <<mItem, mNext, mIsOff, mHead, mTail, created>>
vars == <<mItem, mNext, mIsOff, mHead, mTail, created, my, op, result, ops>>

NoCall == [kind |-> "none", items |-> <<>>]

Idle == [pc |-> "idle", h |-> null, p |-> null, q |-> null, t |-> null, pred |-> null,
         first |-> null, last |-> null, item |-> "null", unlink |-> FALSE]

\* The nodes from n on, in order: the links, and the nodes they lead to.
Links(n) ==
    LET node[i \in 1..(MaxNodes + 1)] ==
            IF i = 1 THEN n ELSE IF node[i - 1] = null THEN null ELSE mNext[node[i - 1]]
    IN node

Chain(n) == SelectSeq(Links(n), LAMBDA x : x # null)

On(n) == {Links(n)[i] : i \in 1..(MaxNodes + 1)} \ {null}

\* The items of the queue: what is left in the nodes from the head on.
Queue ==
    LET live == SelectSeq(Chain(mHead), LAMBDA n : mItem[n] # "null")
    IN [i \in DOMAIN live |-> mItem[live[i]]]

\* Constructor, of an empty queue with its dummy node or of a collection.
Init ==
    /\ \E c \in Contents :
          LET n == IF c = <<>> THEN 1 ELSE Len(c) IN
          /\ mItem = [i \in Nodes |-> IF i \in DOMAIN c THEN c[i] ELSE "null"]
          /\ mNext = [i \in Nodes |-> IF i < n THEN i + 1 ELSE null]
          /\ mHead = 1 /\ mTail = n /\ created = n
    /\ mIsOff = [n \in Nodes |-> FALSE]
    /\ my = [t \in Threads |-> Idle]
    /\ op = [t \in Threads |-> NoCall]
    /\ result = [t \in Threads |-> "none"]
    /\ ops = [t \in Threads |-> 0]

-----------------------------------------------------------------------------
At(t, l) == my[t].pc = l

\* Local variables that no later step reads are forgotten.
Forget(m) == IF m.pc \in {"return", "head"} THEN [Idle EXCEPT !.pc = m.pc]
             ELSE IF m.pc = "next" THEN [m EXCEPT !.q = null]
             ELSE IF m.pc = "visit" THEN [m EXCEPT !.q = null, !.h = null, !.item = "null",
                                                   !.unlink = FALSE]
             ELSE m

\* Thread t goes on with local variables m and returns r, or has not decided yet.
Decides(t, m, r) ==
    /\ my' = [my EXCEPT ![t] = Forget(m)]
    /\ result' = [result EXCEPT ![t] = r]
    /\ UNCHANGED <<op, ops>>
Goes(t, m) == Decides(t, m, result[t])

\* A call begins.  Offer and AddAll first make a private chain of nodes.
Call(t, c) ==
    /\ At(t, "idle") /\ ops[t] < MaxOps[t]
    /\ op' = [op EXCEPT ![t] = c]
    /\ ops' = [ops EXCEPT ![t] = @ + 1]
    /\ IF c.kind \in {"Offer", "AddAll"}
       THEN LET a == created + 1
                b == created + Len(c.items)
            IN /\ b <= MaxNodes
               /\ created' = b
               /\ mItem' = [n \in Nodes |-> IF n \in a..b THEN c.items[n - created] ELSE mItem[n]]
               /\ mNext' = [n \in Nodes |-> IF n \in a..(b - 1) THEN n + 1 ELSE mNext[n]]
               /\ my' = [my EXCEPT ![t] = [Idle EXCEPT !.pc = "tail", !.first = a, !.last = b]]
       ELSE /\ my' = [my EXCEPT ![t] = [Idle EXCEPT !.pc = "head"]]
            /\ UNCHANGED <<mItem, mNext, created>>
    /\ UNCHANGED <<mIsOff, mHead, mTail, result>>

Return(t) ==
    /\ At(t, "return")
    /\ my' = [my EXCEPT ![t] = Idle]
    /\ op' = [op EXCEPT ![t] = NoCall]
    /\ result' = [result EXCEPT ![t] = "none"]
    /\ UNCHANGED <<queueVars, ops>>

-----------------------------------------------------------------------------
(***************************************************************************)
(* Offer and AddAll: append the chain from first to last.                  *)
(***************************************************************************)
LoadTail(t) ==
    /\ At(t, "tail")
    /\ Goes(t, [my[t] EXCEPT !.pc = "next", !.t = mTail, !.p = mTail])
    /\ UNCHANGED queueVars

LoadNext(t) ==
    /\ At(t, "next")
    /\ LET n == mNext[my[t].p]
       IN Goes(t, [my[t] EXCEPT !.pc = IF n = null THEN "link" ELSE "off", !.q = n])
    /\ UNCHANGED queueVars

\* CasNext(p, nullptr, first).  Offer leaves a tail that is one node behind.
Link_NoCompare(t) ==
    /\ At(t, "link")
    /\ mNext' = [mNext EXCEPT ![my[t].p] = my[t].first]
    /\ Decides(t, [my[t] EXCEPT !.pc = IF op[t].kind = "Offer" /\ my[t].p = my[t].t
                                       THEN "return" ELSE "move"], "true")
    /\ UNCHANGED <<mItem, mIsOff, mHead, mTail, created>>

Link_NoReload(t) ==
    /\ At(t, "link") /\ mNext[my[t].p] = null
    /\ mNext' = [mNext EXCEPT ![my[t].p] = my[t].first]
    /\ Decides(t, [my[t] EXCEPT !.pc = IF op[t].kind = "Offer" /\ my[t].p = my[t].t
                                       THEN "return" ELSE "move"], "true")
    /\ UNCHANGED <<mItem, mIsOff, mHead, mTail, created>>

Link(t) ==
    /\ At(t, "link")
    /\ IF mNext[my[t].p] = null
       THEN /\ mNext' = [mNext EXCEPT ![my[t].p] = my[t].first]
            /\ Decides(t, [my[t] EXCEPT !.pc = IF op[t].kind = "Offer" /\ my[t].p = my[t].t
                                               THEN "return" ELSE "move"], "true")
       ELSE Goes(t, [my[t] EXCEPT !.pc = "next"]) /\ UNCHANGED mNext
    /\ UNCHANGED <<mItem, mIsOff, mHead, mTail, created>>

\* CasTail(t, last); AddAll tries once more.
MoveTail(t) ==
    /\ At(t, "move")
    /\ mTail' = IF mTail = my[t].t THEN my[t].last ELSE mTail
    /\ Goes(t, [my[t] EXCEPT !.pc = IF op[t].kind = "Offer" \/ mTail = my[t].t
                                    THEN "return" ELSE "reload"])
    /\ UNCHANGED <<nodeVars, mHead, created>>

ReloadTail(t) ==
    /\ At(t, "reload")
    /\ Goes(t, [my[t] EXCEPT !.pc = "lastnext", !.t = mTail])
    /\ UNCHANGED queueVars

LoadLastNext(t) ==
    /\ At(t, "lastnext")
    /\ Goes(t, [my[t] EXCEPT !.pc = IF mNext[my[t].last] = null THEN "retry" ELSE "return"])
    /\ UNCHANGED queueVars

RetryTail(t) ==
    /\ At(t, "retry")
    /\ mTail' = IF mTail = my[t].t THEN my[t].last ELSE mTail
    /\ Goes(t, [my[t] EXCEPT !.pc = "return"])
    /\ UNCHANGED <<nodeVars, mHead, created>>

\* p has a successor: has it fallen off the list?  If not, go on behind it, but
\* after two hops see whether the tail has moved.
LoadOff(t) ==
    /\ At(t, "off")
    /\ Goes(t, IF mIsOff[my[t].p] THEN [my[t] EXCEPT !.pc = "lost"]
               ELSE IF my[t].p # my[t].t THEN [my[t] EXCEPT !.pc = "hop"]
               ELSE [my[t] EXCEPT !.pc = "next", !.p = my[t].q])
    /\ UNCHANGED queueVars

Hop(t) ==
    /\ At(t, "hop")
    /\ Goes(t, [my[t] EXCEPT !.pc = "next", !.t = mTail,
                             !.p = IF mTail # my[t].t THEN mTail ELSE my[t].q])
    /\ UNCHANGED queueVars

Lost(t) ==
    /\ At(t, "lost")
    /\ Goes(t, IF mTail # my[t].t THEN [my[t] EXCEPT !.pc = "next", !.t = mTail, !.p = mTail]
               ELSE [my[t] EXCEPT !.pc = "jump"])
    /\ UNCHANGED queueVars

JumpToHead(t) ==
    /\ At(t, "jump")
    /\ Goes(t, [my[t] EXCEPT !.pc = "next", !.p = mHead])
    /\ UNCHANGED queueVars

-----------------------------------------------------------------------------
(***************************************************************************)
(* Poll, Peek, IsEmpty and First (with which Contains and Remove begin):   *)
(* walk from the head to the first item, then let the head catch up.       *)
(***************************************************************************)
Walks(t) == op[t].kind \in {"Contains", "Remove"}

\* Where UpdateHead(h, target) and what follows begin, for a call that is decided
\* or that goes on visiting nodes.
Onward(decided) == IF decided THEN "return" ELSE "visit"
ToUpdate(m, target, decided) ==
    [m EXCEPT !.q = target, !.pc = IF m.h # target THEN "update" ELSE Onward(decided)]

LoadHead(t) ==
    /\ At(t, "head")
    /\ Goes(t, [my[t] EXCEPT !.pc = "item", !.h = mHead, !.p = mHead])
    /\ UNCHANGED queueVars

LoadItem(t) ==
    /\ At(t, "item")
    /\ LET m == my[t]
           item == mItem[m.p]
       IN IF item = "null" THEN Goes(t, [m EXCEPT !.pc = "successor"])
          ELSE IF op[t].kind = "Poll" THEN Goes(t, [m EXCEPT !.pc = "take", !.item = item])
          ELSE IF Walks(t) THEN Goes(t, ToUpdate(m, m.p, FALSE))
          ELSE Decides(t, ToUpdate(m, m.p, TRUE), IF op[t].kind = "Peek" THEN item ELSE "false")
    /\ UNCHANGED queueVars

\* Poll's CasItem(p, item, nullptr).
TakeItem(t) ==
    /\ At(t, "take")
    /\ LET m == my[t] IN
       IF mItem[m.p] = m.item
       THEN /\ mItem' = [mItem EXCEPT ![m.p] = "null"]
            /\ Decides(t, [m EXCEPT !.pc = IF m.p = m.h THEN "return" ELSE "taken"], m.item)
       ELSE Goes(t, [m EXCEPT !.pc = "successor"]) /\ UNCHANGED mItem
    /\ UNCHANGED <<mNext, mIsOff, mHead, mTail, created>>

LoadTakenNext(t) ==
    /\ At(t, "taken")
    /\ LET q == mNext[my[t].p]
       IN Goes(t, ToUpdate(my[t], IF q # null THEN q ELSE my[t].p, TRUE))
    /\ UNCHANGED queueVars

LoadSuccessor(t) ==
    /\ At(t, "successor")
    /\ LET m == my[t]
           q == mNext[m.p]
       IN IF q # null THEN Goes(t, [m EXCEPT !.pc = "check", !.q = q])
          ELSE Decides(t, ToUpdate(m, m.p, TRUE),
                       IF op[t].kind \in {"Poll", "Peek"} THEN "null"
                       ELSE IF op[t].kind = "IsEmpty" THEN "true" ELSE "false")
    /\ UNCHANGED queueVars

CheckOff(t) ==
    /\ At(t, "check")
    /\ Goes(t, IF mIsOff[my[t].p] THEN [my[t] EXCEPT !.pc = "head"]
               ELSE [my[t] EXCEPT !.pc = "item", !.p = my[t].q])
    /\ UNCHANGED queueVars

\* CasHead(h, q).
CasHead_NoCompare(t) ==
    /\ At(t, "update")
    /\ mHead' = my[t].q
    /\ Goes(t, [my[t] EXCEPT !.pc = "setoff"])
    /\ UNCHANGED <<nodeVars, mTail, created>>

CasHead(t) ==
    /\ At(t, "update")
    /\ mHead' = IF mHead = my[t].h THEN my[t].q ELSE mHead
    /\ Goes(t, [my[t] EXCEPT !.pc = IF mHead = my[t].h THEN "setoff"
                                    ELSE Onward(result[t] # "none")])
    /\ UNCHANGED <<nodeVars, mTail, created>>

LazySetOff(t) ==
    /\ At(t, "setoff")
    /\ mIsOff' = [mIsOff EXCEPT ![my[t].h] = TRUE]
    /\ Goes(t, [my[t] EXCEPT !.pc = Onward(result[t] # "none")])
    /\ UNCHANGED <<mItem, mNext, mHead, mTail, created>>

-----------------------------------------------------------------------------
(***************************************************************************)
(* Contains and Remove: from the first node with an item, visit them all.  *)
(***************************************************************************)
Visit(t) ==
    /\ At(t, "visit")
    /\ LET m == my[t]
           item == mItem[m.p]
           found == item = op[t].items[1]
       IN IF found /\ op[t].kind = "Contains"
          THEN Decides(t, [m EXCEPT !.pc = "return"], "true")
          ELSE Goes(t, [m EXCEPT !.pc = IF found THEN "drop" ELSE "succ", !.item = item,
                                 !.unlink = item = "null" \/ found])
    /\ UNCHANGED queueVars

\* Remove's CasItem(p, item, nullptr).
DropItem(t) ==
    /\ At(t, "drop")
    /\ LET m == my[t] IN
       IF mItem[m.p] = m.item
       THEN /\ mItem' = [mItem EXCEPT ![m.p] = "null"]
            /\ Decides(t, [m EXCEPT !.pc = "succ"], "true")
       ELSE Goes(t, [m EXCEPT !.pc = "succ"]) /\ UNCHANGED mItem
    /\ UNCHANGED <<mNext, mIsOff, mHead, mTail, created>>

\* Succ(p): the head if p has fallen off the list.
SuccOff(t) ==
    /\ At(t, "succ")
    /\ Goes(t, [my[t] EXCEPT !.pc = IF mIsOff[my[t].p] THEN "succhead" ELSE "succnext"])
    /\ UNCHANGED queueVars

\* The loop goes on with node q, or ends.
Proceeds(t, m) ==
    IF result[t] # "none" THEN Goes(t, [m EXCEPT !.pc = "return"])
    ELSE IF m.q = null THEN Decides(t, [m EXCEPT !.pc = "return"], "false")
    ELSE Goes(t, [m EXCEPT !.pc = "visit", !.pred = m.p, !.p = m.q])

Succ(t) ==
    /\ At(t, "succhead") \/ At(t, "succnext")
    /\ LET q == IF At(t, "succhead") THEN mHead ELSE mNext[my[t].p]
           m == [my[t] EXCEPT !.q = q]
       IN IF op[t].kind = "Remove" /\ m.unlink /\ m.pred # null /\ q # null
          THEN Goes(t, [m EXCEPT !.pc = "unlink"])
          ELSE Proceeds(t, m)
    /\ UNCHANGED queueVars

\* CasNext(pred, p, next).
Unlink(t) ==
    /\ At(t, "unlink")
    /\ LET m == my[t]
       IN mNext' = IF mNext[m.pred] = m.p THEN [mNext EXCEPT ![m.pred] = m.q] ELSE mNext
    /\ Proceeds(t, my[t])
    /\ UNCHANGED <<mItem, mIsOff, mHead, mTail, created>>

-----------------------------------------------------------------------------
Step(t) ==
    \/ LoadTail(t) \/ LoadNext(t) \/ Link(t) \/ MoveTail(t) \/ ReloadTail(t)
    \/ LoadLastNext(t) \/ RetryTail(t) \/ LoadOff(t) \/ Hop(t) \/ Lost(t) \/ JumpToHead(t)
    \/ LoadHead(t) \/ LoadItem(t) \/ TakeItem(t) \/ LoadTakenNext(t) \/ LoadSuccessor(t)
    \/ CheckOff(t) \/ CasHead(t) \/ LazySetOff(t)
    \/ Visit(t) \/ DropItem(t) \/ SuccOff(t) \/ Succ(t) \/ Unlink(t) \/ Return(t)

Next == \E t \in Threads : Step(t) \/ \E c \in Calls : Call(t, c)

\* A thread in a call is scheduled again and again; nobody has to call.
Fairness == \A t \in Threads : WF_vars(Step(t))

Spec == Init /\ [][Next]_vars /\ Fairness

-----------------------------------------------------------------------------
(***************************************************************************)
(* Properties.                                                             *)
(***************************************************************************)
Abstract == INSTANCE QueueSpec WITH queue <- Queue

\* Every call is one step on a queue of items: the comments of Offer, AddAll and
\* Poll name the linearization points, and the lagging head and tail, the
\* unlinking by Remove and the jumps back to the head lose and repeat nothing.
ImplementsQueue == Abstract!Spec

\* A node is marked as fallen off only when the head has passed it for good; one
\* ahead of the head would send Poll, Peek and First back to the head for ever
\* (RESTART_FROM_HEAD).
OffBehindHead == \A n \in On(mHead) : ~mIsOff[n]

-----------------------------------------------------------------------------
(***************************************************************************)
(* The inductive invariant behind OffBehindHead.  Links change under the   *)
(* feet of every thread, so it is not about who reaches whom but about an  *)
(* order of the nodes, rank, that no step contradicts.                     *)
(***************************************************************************)
Inserting == {"tail", "next", "link", "off", "hop", "lost", "jump"}
Appended  == {"move", "reload", "lastnext", "retry"}
Seeking   == {"item", "take", "taken", "successor", "check", "update", "setoff"}
Visiting  == {"visit", "drop", "succ", "succhead", "succnext", "unlink"}
Points == {"idle", "head", "return"} \cup Inserting \cup Appended \cup Seeking \cup Visiting

\* The nodes that thread t has made and not linked, and those everybody may reach.
Own(t) == IF my[t].pc \in Inserting THEN my[t].first..my[t].last ELSE {}
Shared == {n \in 1..created : \A t \in Threads : n \notin Own(t)}

TypeOK ==
    /\ created \in Nodes
    /\ mNext \in [Nodes -> Nodes \cup {null}]
    /\ mIsOff \in [Nodes -> BOOLEAN]
    /\ mHead \in Shared /\ mTail \in Shared
    /\ DOMAIN my = Threads
    /\ \A t \in Threads : DOMAIN my[t] = DOMAIN Idle /\ my[t].pc \in Points

\* The nodes a thread has made are a chain of their own, and those not made yet are blank.
PrivateOK ==
    /\ \A t \in Threads : my[t].pc \in Inserting =>
          /\ my[t].first \in 1..created /\ my[t].last \in my[t].first..created
          /\ \A n \in Own(t) : mNext[n] = IF n = my[t].last THEN null ELSE n + 1
    /\ \A t, u \in Threads : t # u => Own(t) \cap Own(u) = {}
    /\ \A n \in Nodes : n > created => mNext[n] = null

\* Where a thread with the local variables m stands, below which head.
Standing(m, rank, head) ==
    /\ m.pc \in (Inserting \ {"tail"}) \cup Seeking \cup Visiting => m.p \in Shared
    /\ m.pc \in {"off", "hop", "check", "update", "unlink"} => m.q \in Shared
    /\ m.pc \in Appended => m.last \in Shared
    /\ m.pc \in Seeking => m.h \in Shared
    /\ m.pc \in Seeking \cup {"head"} => m.pred = null
    /\ m.pc \in {"item", "take", "taken", "successor", "check"} =>
          m.h = m.p \/ rank[m.h] < rank[m.p]
    /\ m.pc \in {"check", "unlink"} => rank[m.p] < rank[m.q]
    /\ m.pc = "update" => rank[m.h] < rank[m.q]
    /\ m.pc = "setoff" => rank[m.h] < rank[head]
    /\ m.pc \in Visiting /\ m.pred # null => m.pred \in Shared /\ rank[m.pred] < rank[m.p]
    /\ m.pc = "succhead" => rank[m.p] < rank[head]
    /\ m.pc = "unlink" => m.pred # null

\* Links lead upwards, and a marked node is below the head.
Ordered(rank) ==
    /\ rank \in [Nodes -> Int]
    /\ \A n \in Shared : mNext[n] # null => mNext[n] \in Shared /\ rank[n] < rank[mNext[n]]
    /\ \A n \in Nodes : mIsOff[n] => n \in Shared /\ rank[n] < rank[mHead]
    /\ \A t \in Threads : Standing(my[t], rank, mHead)

IInv == TypeOK /\ PrivateOK /\ \E rank : Ordered(rank)

\* Every call returns: a thread restarts only because another one made progress.
CallsReturn == \A t \in Threads : op[t] # NoCall ~> op[t] = NoCall
=============================================================================
