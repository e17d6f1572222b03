--------------------- MODULE ConcurrentLinkedQueueProofs ---------------------
(***************************************************************************)
(* Proofs about the ConcurrentLinkedQueue, for any threads, calls, initial *)
(* contents and numbers of nodes: a node is marked as fallen off only when *)
(* the head has passed it for good.                                        *)
(*                                                                         *)
(* The nodes that anybody can reach are ordered by a rank: links, the      *)
(* moves of the head and the places of every thread lead upwards in it.    *)
(* Steps keep the rank, except that a chain that is linked gets ranks      *)
(* above the node it is linked to.                                         *)
(***************************************************************************)
EXTENDS ConcurrentLinkedQueue, NaturalsInduction, WellFoundedInduction, TLAPS

\* A nonempty set of natural numbers has a least element.
LEMMA Least ==
  ASSUME NEW S \in SUBSET Nat, S # {}
  PROVE  \E n \in S : \A m \in S : n <= m
<1>1. IsWellFoundedOn(OpToRel(<, Nat), Nat)
  BY NatLessThanWellFounded
<1>2. PICK n \in S : \A m \in S : ~(<<m, n>> \in OpToRel(<, Nat))
  BY <1>1, WFMin
<1>3. \A m \in S : ~(m < n)
  BY <1>2 DEF OpToRel
<1>4. QED  BY <1>3

\* A loop of N steps st over the states S that begins with b: there is a function that
\* gives the state after each step.
Steps(S, N) == [S \X (1..N) -> S]
LoopOf(f, S, N, b, st) ==
    f \in [0..N -> S] /\ f[0] = b /\ \A p \in 1..N : f[p] = st[<<f[p - 1], p>>]

LEMMA Loop ==
  ASSUME NEW S, NEW N \in Nat, NEW b \in S, NEW st \in Steps(S, N)
  PROVE  \E f : LoopOf(f, S, N, b, st)
<1>0. st \in [S \X (1..N) -> S]
  BY DEF Steps
<1> DEFINE Upto(f, n) == f[0] = b /\ \A p \in 1..n : f[p] = st[<<f[p - 1], p>>]
           Bad == {n \in 0..N : ~ \E f \in [0..n -> S] : Upto(f, n)}
<1>1. ASSUME Bad # {} PROVE FALSE
  <2>1. PICK n \in Bad : \A m \in Bad : n <= m
    <3>1. Bad \in SUBSET Nat
      OBVIOUS
    <3>2. QED  BY <1>1, <3>1, Least
  <2>2. n # 0
    <3>1. Upto([p \in 0..0 |-> b], 0) /\ [p \in 0..0 |-> b] \in [0..0 -> S]
      OBVIOUS
    <3>2. QED  BY <3>1, <2>1
  <2>3. n - 1 \in 0..N /\ n - 1 \notin Bad /\ n \in 1..N
    BY <2>1, <2>2
  <2>4. PICK g \in [0..(n - 1) -> S] : Upto(g, n - 1)
    BY <2>3
  <2> DEFINE h == [p \in 0..n |-> IF p = n THEN st[<<g[n - 1], n>>] ELSE g[p]]
  <2>5. g[n - 1] \in S /\ <<g[n - 1], n>> \in S \X (1..N)
    BY <2>3, <2>4
  <2>6. h \in [0..n -> S]
    <3>1. \A p \in 0..n : p = n \/ p \in 0..(n - 1)
      BY <2>3
    <3>2. st[<<g[n - 1], n>>] \in S
      BY <1>0, <2>5
    <3>3. QED  BY <3>1, <3>2, <2>4
  <2>7. /\ h[0] = g[0] /\ h[n] = st[<<g[n - 1], n>>] /\ h[n - 1] = g[n - 1]
        /\ \A p \in 1..(n - 1) : h[p] = g[p] /\ h[p - 1] = g[p - 1]
    BY <2>3
  <2> HIDE DEF h
  <2>8. \A p \in 1..n : p = n \/ p \in 1..(n - 1)
    BY <2>3
  <2>9. Upto(h, n)
    BY <2>4, <2>7, <2>8
  <2>10. QED  BY <2>1, <2>6, <2>9
<1>2. N \notin Bad
  BY <1>1
<1>3. QED  BY <1>2 DEF LoopOf


-----------------------------------------------------------------------------
(***************************************************************************)
(* Steps that neither make nor link nodes.                                 *)
(***************************************************************************)
\* Thread t goes on with local variables m and owns the nodes it owned.
Same(m, t) ==
    /\ DOMAIN m = DOMAIN Idle /\ m.pc \in Points
    /\ (m.pc \in Inserting) <=> (my[t].pc \in Inserting)
    /\ m.pc \in Inserting => m.first = my[t].first /\ m.last = my[t].last

\* Such a step gives no node away and takes none.
LEMMA SharedSame ==
  ASSUME TypeOK, NEW t \in Threads, NEW m, Same(m, t),
         my' = [my EXCEPT ![t] = m], created' = created
  PROVE  Shared' = Shared /\ \A u \in Threads : Own(u)' = Own(u)
<1>1. my'[t] = m /\ \A u \in Threads \ {t} : my'[u] = my[u]
  BY DEF TypeOK
<1>2. \A u \in Threads : Own(u)' = Own(u)
  BY <1>1 DEF Own, Same
<1>3. QED  BY <1>2 DEF Shared

\* The step keeps the order.
StepOK(m, rank) ==
    /\ rank[mHead] <= rank[mHead']
    /\ \A n \in Shared : mNext'[n] # null => mNext'[n] \in Shared /\ rank[n] < rank[mNext'[n]]
    /\ \A n \in Nodes : mIsOff'[n] => n \in Shared /\ rank[n] < rank[mHead']
    /\ Standing(m, rank, mHead')

\* A higher head leaves everybody below it.
LEMMA StandsBelow ==
  ASSUME NEW m, NEW rank \in [Nodes -> Int], NEW g \in Nodes, NEW h \in Nodes, rank[g] <= rank[h],
         Standing(m, rank, g), Shared \subseteq Nodes
  PROVE  Standing(m, rank, h)
<1>1. m.pc = "setoff" => rank[m.h] < rank[h]
  <2>1. m.pc = "setoff" => m.h \in Nodes /\ rank[m.h] < rank[g]
    BY DEF Standing, Seeking
  <2>2. QED  BY <2>1
<1>2. m.pc = "succhead" => rank[m.p] < rank[h]
  <2>1. m.pc = "succhead" => m.p \in Nodes /\ rank[m.p] < rank[g]
    BY DEF Standing, Visiting
  <2>2. QED  BY <2>1
<1>3. QED  BY <1>1, <1>2 DEF Standing

\* The nodes everybody may reach have been made, and null is none of them.
LEMMA SharedNodes ==
  ASSUME TypeOK
  PROVE  /\ Shared \subseteq Nodes /\ null \notin Shared
         /\ created \in Nat /\ \A n \in Shared : n \in 1..created
         /\ \A n \in 1..created : n \in Nodes
<1>1. created \in 1..MaxNodes /\ MaxNodes \in Nat
  BY QueueAssumption DEF TypeOK, Nodes
<1>2. \A n \in Shared : n \in 1..created
  BY DEF Shared
<1>3. \A n \in 1..created : n \in Nodes
  BY <1>1 DEF Nodes
<1>4. null \notin 1..created
  BY <1>1 DEF null
<1>5. QED  BY <1>1, <1>2, <1>3, <1>4

\* A step that keeps the order, and the nodes that are not shared, keeps the invariant.
LEMMA StepKeeps ==
  ASSUME IInv, NEW t \in Threads, NEW m, Same(m, t), my' = [my EXCEPT ![t] = m],
         created' = created, mNext' \in [Nodes -> Nodes \cup {null}],
         mIsOff' \in [Nodes -> BOOLEAN],
         mHead' \in Shared, mTail' \in Shared,
         \A n \in Nodes \ Shared : mNext'[n] = mNext[n],
         \A rank : Ordered(rank) => StepOK(m, rank)
  PROVE  IInv'
<1>1. TypeOK /\ PrivateOK
  BY DEF IInv
<1>2. Shared' = Shared /\ \A u \in Threads : Own(u)' = Own(u)
  BY <1>1, SharedSame
<1>3. my'[t] = m /\ (\A u \in Threads \ {t} : my'[u] = my[u]) /\ DOMAIN my' = Threads
  BY <1>1 DEF TypeOK
<1>4. TypeOK'
  BY <1>1, <1>2, <1>3 DEF TypeOK, Same
<1>5. PrivateOK'
  <2>1. \A u \in Threads : my'[u].pc \in Inserting =>
           my[u].pc \in Inserting /\ my'[u].first = my[u].first /\ my'[u].last = my[u].last
    BY <1>3 DEF Same
  <2>2. \A u \in Threads : \A n \in Own(u) : n \in Nodes \ Shared
    <3>1. ASSUME NEW u \in Threads, NEW n \in Own(u) PROVE n \in 1..created
      BY <1>1, <3>1, SharedNodes DEF PrivateOK, Own
    <3>2. ASSUME NEW u \in Threads, NEW n \in Own(u) PROVE n \notin Shared
      BY <3>2 DEF Shared
    <3>3. QED  BY <1>1, <3>1, <3>2, SharedNodes
  <2>3. \A u \in Threads : \A n \in Own(u) : mNext'[n] = mNext[n]
    BY <2>2
  <2>4. \A n \in Nodes : n > created => n \in Nodes \ Shared
    BY <1>1, SharedNodes, QueueAssumption DEF Nodes
  <2>5. \A n \in Nodes : n > created' => mNext'[n] = null
    BY <1>1, <2>4 DEF PrivateOK
  <2>6. \A u, v \in Threads : u # v => Own(u)' \cap Own(v)' = {}
    BY <1>1, <1>2 DEF PrivateOK
  <2>7. ASSUME NEW u \in Threads, my'[u].pc \in Inserting
        PROVE  /\ my'[u].first \in 1..created' /\ my'[u].last \in my'[u].first..created'
               /\ \A n \in Own(u)' : mNext'[n] = IF n = my'[u].last THEN null ELSE n + 1
    BY <1>1, <1>2, <2>1, <2>3, <2>7 DEF PrivateOK
  <2>8. QED  BY <2>5, <2>6, <2>7 DEF PrivateOK
<1>6. PICK rank : Ordered(rank)
  BY DEF IInv
<1>7. StepOK(m, rank)
  BY <1>6
<1>8. rank \in [Nodes -> Int] /\ \A u \in Threads : Standing(my[u], rank, mHead)
  BY <1>6 DEF Ordered
<1>9. Shared \subseteq Nodes /\ mHead \in Nodes /\ mHead' \in Nodes
  BY <1>1, SharedNodes DEF TypeOK
<1>10. \A u \in Threads : Standing(my'[u], rank, mHead')
  <2>1. ASSUME NEW u \in Threads \ {t} PROVE Standing(my'[u], rank, mHead')
    BY <1>3, <1>7, <1>8, <1>9, StandsBelow DEF StepOK
  <2>2. QED  BY <1>3, <1>7, <2>1 DEF StepOK
<1>11. \A u \in Threads : Standing(my[u], rank, mHead)'
  BY <1>2, <1>10 DEF Standing
<1>12. Ordered(rank)'
  BY <1>2, <1>7, <1>8, <1>11 DEF Ordered, StepOK
<1>13. QED  BY <1>4, <1>5, <1>12 DEF IInv

\* What Forget keeps is what the place of the thread needs.
LEMMA ForgetStands ==
  ASSUME NEW m, NEW t, Same(m, t)
  PROVE  /\ Same(Forget(m), t)
         /\ \A rank, head : Standing(m, rank, head) => Standing(Forget(m), rank, head)
<1>1. DOMAIN m = {"pc", "h", "p", "q", "t", "pred", "first", "last", "item", "unlink"}
  BY DEF Same, Idle
<1>2. CASE m.pc \in {"return", "head"}
  <2>1. Forget(m).pc = m.pc /\ DOMAIN Forget(m) = DOMAIN Idle /\ Forget(m).pred = null
    BY <1>2 DEF Forget, Idle
  <2> HIDE DEF Forget
  <2>2. QED  BY <1>2, <2>1 DEF Same, Standing, Inserting, Appended, Seeking, Visiting
<1>3. CASE m.pc = "next"
  <2>1. /\ Forget(m).pc = m.pc /\ DOMAIN Forget(m) = DOMAIN m /\ Forget(m).p = m.p
        /\ Forget(m).first = m.first /\ Forget(m).last = m.last
    BY <1>1, <1>3 DEF Forget
  <2>2. QED  BY <1>3, <2>1 DEF Same, Standing, Inserting, Appended, Seeking, Visiting
<1>4. CASE m.pc = "visit"
  <2>1. /\ Forget(m).pc = m.pc /\ DOMAIN Forget(m) = DOMAIN m /\ Forget(m).p = m.p
        /\ Forget(m).pred = m.pred
    BY <1>1, <1>4 DEF Forget
  <2>2. QED  BY <1>4, <2>1 DEF Same, Standing, Inserting, Appended, Seeking, Visiting
<1>5. CASE m.pc \notin {"return", "head", "next", "visit"}
  BY <1>5 DEF Forget
<1>6. QED  BY <1>2, <1>3, <1>4, <1>5

\* A step that changes no link, mark or head.
LEMMA QuietKeeps ==
  ASSUME IInv, NEW t \in Threads, NEW m, NEW r, Decides(t, m, r), Same(m, t),
         UNCHANGED <<mNext, mIsOff, mHead, created>>, mTail' \in Shared,
         \A rank : Ordered(rank) => Standing(m, rank, mHead)
  PROVE  IInv'
<1>1. my' = [my EXCEPT ![t] = Forget(m)]
  BY DEF Decides
<1>2. TypeOK
  BY DEF IInv
<1>3. Same(Forget(m), t)
  BY ForgetStands
<1>4. mNext' = mNext /\ mIsOff' = mIsOff /\ mHead' = mHead /\ created' = created
  OBVIOUS
<1>5. ASSUME NEW rank, Ordered(rank) PROVE StepOK(Forget(m), rank)
  <2>1. Standing(Forget(m), rank, mHead)
    BY <1>5, ForgetStands
  <2>2. rank[mHead] <= rank[mHead']
    BY <1>2, <1>4, <1>5, SharedNodes DEF Ordered, TypeOK
  <2>3. QED  BY <1>4, <1>5, <2>1, <2>2 DEF StepOK, Ordered
<1>6. QED  BY <1>1, <1>2, <1>3, <1>4, <1>5, StepKeeps DEF TypeOK

\* The local variables of a thread, before a step.
LEMMA Here ==
  ASSUME IInv, NEW t \in Threads
  PROVE  /\ DOMAIN my[t] = {"pc", "h", "p", "q", "t", "pred", "first", "last", "item", "unlink"}
         /\ DOMAIN my[t] = DOMAIN Idle /\ my[t].pc \in Points
         /\ mTail \in Shared /\ mHead \in Shared
         /\ \A rank : Ordered(rank) => Standing(my[t], rank, mHead)
<1>1. DOMAIN Idle = {"pc", "h", "p", "q", "t", "pred", "first", "last", "item", "unlink"}
  BY DEF Idle
<1>2. QED  BY <1>1 DEF IInv, TypeOK, Ordered

\* A link of a node that everybody can reach.
LEMMA LinkUp ==
  ASSUME IInv, NEW n \in Shared, mNext[n] # null
  PROVE  mNext[n] \in Shared /\ \A rank : Ordered(rank) => rank[n] < rank[mNext[n]]
  BY DEF IInv, Ordered

\* The same where the node is the head a walk began with, or above it.
LEMMA LinkAbove ==
  ASSUME IInv, NEW h \in Shared, NEW n \in Shared, mNext[n] # null, NEW rank, Ordered(rank),
         h = n \/ rank[h] < rank[n]
  PROVE  mNext[n] \in Shared /\ rank[h] < rank[mNext[n]]
<1>1. mNext[n] \in Shared /\ rank[n] < rank[mNext[n]]
  BY LinkUp
<1>2. rank \in [Nodes -> Int] /\ Shared \subseteq Nodes
  BY SharedNodes DEF IInv, Ordered
<1>3. rank[h] \in Int /\ rank[n] \in Int /\ rank[mNext[n]] \in Int
  BY <1>1, <1>2
<1>4. QED  BY <1>1, <1>3

\* A walk from h goes from n on to q.
LEMMA HeadToNext ==
  ASSUME IInv, NEW h \in Shared, NEW n \in Shared, NEW q \in Shared, NEW rank, Ordered(rank),
         h = n \/ rank[h] < rank[n], rank[n] < rank[q]
  PROVE  rank[h] < rank[q]
<1>1. rank \in [Nodes -> Int] /\ Shared \subseteq Nodes
  BY SharedNodes DEF IInv, Ordered
<1>2. rank[h] \in Int /\ rank[n] \in Int /\ rank[q] \in Int
  BY <1>1
<1>3. QED  BY <1>2

USE DEF Points, Inserting, Appended, Seeking, Visiting

\* Offer starts at the tail, which everybody may reach.
LEMMA LoadTailKeeps == ASSUME IInv, NEW t \in Threads, LoadTail(t) PROVE IInv'
<1> DEFINE m == [my[t] EXCEPT !.pc = "next", !.t = mTail, !.p = mTail]
<1>1. my[t].pc = "tail" /\ Decides(t, m, result[t]) /\ UNCHANGED queueVars
  BY DEF LoadTail, At, Goes
<1>2. /\ DOMAIN m = DOMAIN Idle /\ m.pc = "next" /\ m.p = mTail
      /\ m.first = my[t].first /\ m.last = my[t].last
  BY Here
<1> HIDE DEF m
<1>3. Same(m, t)
  BY <1>1, <1>2 DEF Same
<1>4. ASSUME NEW rank, Ordered(rank) PROVE Standing(m, rank, mHead)
  <2>1. Standing(my[t], rank, mHead)
    BY <1>4, Here
  <2>2. QED  BY <1>1, <1>2, <2>1, Here DEF Standing
<1>5. QED  BY <1>1, <1>3, <1>4, Here, QuietKeeps DEF queueVars

\* Offer looks behind p: at the end it tries to link, else q is the next node.
LEMMA LoadNextKeeps == ASSUME IInv, NEW t \in Threads, LoadNext(t) PROVE IInv'
<1> DEFINE m == [my[t] EXCEPT !.pc = IF mNext[my[t].p] = null THEN "link" ELSE "off",
                             !.q = mNext[my[t].p]]
<1>1. my[t].pc = "next" /\ Decides(t, m, result[t]) /\ UNCHANGED queueVars
  BY DEF LoadNext, At, Goes
<1>2. /\ DOMAIN m = DOMAIN Idle
      /\ m.pc = (IF mNext[my[t].p] = null THEN "link" ELSE "off")
      /\ m.q = mNext[my[t].p]
      /\ m.p = my[t].p /\ m.first = my[t].first /\ m.last = my[t].last
  BY Here
<1> HIDE DEF m
<1>3. Same(m, t)
  BY <1>1, <1>2 DEF Same
<1>4. ASSUME NEW rank, Ordered(rank) PROVE Standing(m, rank, mHead)
  <2>1. Standing(my[t], rank, mHead)
    BY <1>4, Here
  <2>2. QED  BY <1>1, <1>2, <2>1, Here, LinkUp DEF Standing
<1>5. QED  BY <1>1, <1>3, <1>4, Here, QuietKeeps DEF queueVars

\* AddAll loads the tail again before it tries once more to move it.
LEMMA ReloadTailKeeps == ASSUME IInv, NEW t \in Threads, ReloadTail(t) PROVE IInv'
<1> DEFINE m == [my[t] EXCEPT !.pc = "lastnext", !.t = mTail]
<1>1. my[t].pc = "reload" /\ Decides(t, m, result[t]) /\ UNCHANGED queueVars
  BY DEF ReloadTail, At, Goes
<1>2. DOMAIN m = DOMAIN Idle /\ m.pc = "lastnext" /\ m.last = my[t].last
  BY Here
<1> HIDE DEF m
<1>3. Same(m, t)
  BY <1>1, <1>2 DEF Same
<1>4. ASSUME NEW rank, Ordered(rank) PROVE Standing(m, rank, mHead)
  <2>1. Standing(my[t], rank, mHead)
    BY <1>4, Here
  <2>2. QED  BY <1>1, <1>2, <2>1, Here DEF Standing
<1>5. QED  BY <1>1, <1>3, <1>4, Here, QuietKeeps DEF queueVars

\* AddAll gives the tail up when somebody has appended behind its last node.
LEMMA LoadLastNextKeeps == ASSUME IInv, NEW t \in Threads, LoadLastNext(t) PROVE IInv'
<1> DEFINE m == [my[t] EXCEPT !.pc = IF mNext[my[t].last] = null THEN "retry" ELSE "return"]
<1>1. my[t].pc = "lastnext" /\ Decides(t, m, result[t]) /\ UNCHANGED queueVars
  BY DEF LoadLastNext, At, Goes
<1>2. DOMAIN m = DOMAIN Idle /\ m.pc \in {"retry", "return"} /\ m.last = my[t].last
  BY Here
<1> HIDE DEF m
<1>3. Same(m, t)
  BY <1>1, <1>2 DEF Same
<1>4. ASSUME NEW rank, Ordered(rank) PROVE Standing(m, rank, mHead)
  <2>1. Standing(my[t], rank, mHead)
    BY <1>4, Here
  <2>2. QED  BY <1>1, <1>2, <2>1, Here DEF Standing
<1>5. QED  BY <1>1, <1>3, <1>4, Here, QuietKeeps DEF queueVars

\* Offer hops to the next node or to a tail that has moved.
LEMMA HopKeeps == ASSUME IInv, NEW t \in Threads, Hop(t) PROVE IInv'
<1> DEFINE m == [my[t] EXCEPT !.pc = "next", !.t = mTail,
                           !.p = IF mTail # my[t].t THEN mTail ELSE my[t].q]
<1>1. my[t].pc = "hop" /\ Decides(t, m, result[t]) /\ UNCHANGED queueVars
  BY DEF Hop, At, Goes
<1>2. DOMAIN m = DOMAIN Idle /\ m.pc = "next" /\ (m.p = mTail \/ m.p = my[t].q)
      /\ m.first = my[t].first /\ m.last = my[t].last
  BY Here
<1> HIDE DEF m
<1>3. Same(m, t)
  BY <1>1, <1>2 DEF Same
<1>4. ASSUME NEW rank, Ordered(rank) PROVE Standing(m, rank, mHead)
  <2>1. Standing(my[t], rank, mHead)
    BY <1>4, Here
  <2>2. QED  BY <1>1, <1>2, <2>1, Here DEF Standing
<1>5. QED  BY <1>1, <1>3, <1>4, Here, QuietKeeps DEF queueVars

\* Offer that fell off the list goes on from the head.
LEMMA JumpToHeadKeeps == ASSUME IInv, NEW t \in Threads, JumpToHead(t) PROVE IInv'
<1> DEFINE m == [my[t] EXCEPT !.pc = "next", !.p = mHead]
<1>1. my[t].pc = "jump" /\ Decides(t, m, result[t]) /\ UNCHANGED queueVars
  BY DEF JumpToHead, At, Goes
<1>2. /\ DOMAIN m = DOMAIN Idle /\ m.pc = "next" /\ m.p = mHead
      /\ m.first = my[t].first /\ m.last = my[t].last
  BY Here
<1> HIDE DEF m
<1>3. Same(m, t)
  BY <1>1, <1>2 DEF Same
<1>4. ASSUME NEW rank, Ordered(rank) PROVE Standing(m, rank, mHead)
  <2>1. Standing(my[t], rank, mHead)
    BY <1>4, Here
  <2>2. QED  BY <1>1, <1>2, <2>1, Here DEF Standing
<1>5. QED  BY <1>1, <1>3, <1>4, Here, QuietKeeps DEF queueVars

\* Poll, Peek, First and the visits start at the head.
LEMMA LoadHeadKeeps == ASSUME IInv, NEW t \in Threads, LoadHead(t) PROVE IInv'
<1> DEFINE m == [my[t] EXCEPT !.pc = "item", !.h = mHead, !.p = mHead]
<1>1. my[t].pc = "head" /\ Decides(t, m, result[t]) /\ UNCHANGED queueVars
  BY DEF LoadHead, At, Goes
<1>2. DOMAIN m = DOMAIN Idle /\ m.pc = "item" /\ m.h = mHead /\ m.p = mHead /\ m.pred = my[t].pred
  BY Here
<1> HIDE DEF m
<1>3. Same(m, t)
  BY <1>1, <1>2 DEF Same
<1>4. ASSUME NEW rank, Ordered(rank) PROVE Standing(m, rank, mHead)
  <2>1. Standing(my[t], rank, mHead)
    BY <1>4, Here
  <2>2. QED  BY <1>1, <1>2, <2>1, Here DEF Standing
<1>5. QED  BY <1>1, <1>3, <1>4, Here, QuietKeeps DEF queueVars

\* Succ reads the mark of p: a marked node is below the head.
LEMMA SuccOffKeeps == ASSUME IInv, NEW t \in Threads, SuccOff(t) PROVE IInv'
<1> DEFINE m == [my[t] EXCEPT !.pc = IF mIsOff[my[t].p] THEN "succhead" ELSE "succnext"]
<1>1. my[t].pc = "succ" /\ Decides(t, m, result[t]) /\ UNCHANGED queueVars
  BY DEF SuccOff, At, Goes
<1>2. DOMAIN m = DOMAIN Idle /\ m.pc = (IF mIsOff[my[t].p] THEN "succhead" ELSE "succnext")
      /\ m.p = my[t].p /\ m.pred = my[t].pred
  BY Here
<1> HIDE DEF m
<1>3. Same(m, t)
  BY <1>1, <1>2 DEF Same
<1>4. ASSUME NEW rank, Ordered(rank) PROVE Standing(m, rank, mHead)
  <2>1. Standing(my[t], rank, mHead)
    BY <1>4, Here
  <2>2. QED  BY <1>1, <1>2, <2>1, Here, SharedNodes, <1>4 DEF Standing, Ordered, IInv
<1>5. QED  BY <1>1, <1>3, <1>4, Here, QuietKeeps DEF queueVars

\* Offer reads the mark of p: it is lost, or it hops on.
LEMMA LoadOffKeeps == ASSUME IInv, NEW t \in Threads, LoadOff(t) PROVE IInv'
<1>1. my[t].pc = "off" /\ UNCHANGED queueVars
  BY DEF LoadOff, At
<1>2. CASE mIsOff[my[t].p]
  <2> DEFINE m == [my[t] EXCEPT !.pc = "lost"]
  <2>1. Decides(t, m, result[t])
    BY <1>1, <1>2 DEF LoadOff, Goes
  <2>2. /\ DOMAIN m = DOMAIN Idle /\ m.pc = "lost" /\ m.p = my[t].p
        /\ m.first = my[t].first /\ m.last = my[t].last
    BY <1>1, <1>2, Here
  <2> HIDE DEF m
  <2>3. Same(m, t)
    BY <1>1, <2>2 DEF Same
  <2>4. ASSUME NEW rank, Ordered(rank) PROVE Standing(m, rank, mHead)
    <3>1. Standing(my[t], rank, mHead)
      BY <2>4, Here
    <3>2. QED  BY <1>1, <1>2, <2>2, <3>1, Here DEF Standing
  <2>5. QED  BY <1>1, <2>1, <2>3, <2>4, Here, QuietKeeps DEF queueVars
<1>3. CASE ~mIsOff[my[t].p] /\ my[t].p # my[t].t
  <2> DEFINE m == [my[t] EXCEPT !.pc = "hop"]
  <2>1. Decides(t, m, result[t])
    BY <1>1, <1>3 DEF LoadOff, Goes
  <2>2. /\ DOMAIN m = DOMAIN Idle /\ m.pc = "hop" /\ m.p = my[t].p
        /\ m.q = my[t].q /\ m.first = my[t].first /\ m.last = my[t].last
    BY <1>1, <1>3, Here
  <2> HIDE DEF m
  <2>3. Same(m, t)
    BY <1>1, <2>2 DEF Same
  <2>4. ASSUME NEW rank, Ordered(rank) PROVE Standing(m, rank, mHead)
    <3>1. Standing(my[t], rank, mHead)
      BY <2>4, Here
    <3>2. QED  BY <1>1, <1>3, <2>2, <3>1, Here DEF Standing
  <2>5. QED  BY <1>1, <2>1, <2>3, <2>4, Here, QuietKeeps DEF queueVars
<1>4. CASE ~mIsOff[my[t].p] /\ my[t].p = my[t].t
  <2> DEFINE m == [my[t] EXCEPT !.pc = "next", !.p = my[t].q]
  <2>1. Decides(t, m, result[t])
    BY <1>1, <1>4 DEF LoadOff, Goes
  <2>2. /\ DOMAIN m = DOMAIN Idle /\ m.pc = "next" /\ m.p = my[t].q
        /\ m.first = my[t].first /\ m.last = my[t].last
    BY <1>1, <1>4, Here
  <2> HIDE DEF m
  <2>3. Same(m, t)
    BY <1>1, <2>2 DEF Same
  <2>4. ASSUME NEW rank, Ordered(rank) PROVE Standing(m, rank, mHead)
    <3>1. Standing(my[t], rank, mHead)
      BY <2>4, Here
    <3>2. QED  BY <1>1, <1>4, <2>2, <3>1, Here DEF Standing
  <2>5. QED  BY <1>1, <2>1, <2>3, <2>4, Here, QuietKeeps DEF queueVars
<1>5. QED  BY <1>2, <1>3, <1>4

\* Offer that fell off goes to the tail when that has moved, else to the head.
LEMMA LostKeeps == ASSUME IInv, NEW t \in Threads, Lost(t) PROVE IInv'
<1>1. my[t].pc = "lost" /\ UNCHANGED queueVars
  BY DEF Lost, At
<1>2. CASE mTail # my[t].t
  <2> DEFINE m == [my[t] EXCEPT !.pc = "next", !.t = mTail, !.p = mTail]
  <2>1. Decides(t, m, result[t])
    BY <1>1, <1>2 DEF Lost, Goes
  <2>2. /\ DOMAIN m = DOMAIN Idle /\ m.pc = "next" /\ m.p = mTail
        /\ m.first = my[t].first /\ m.last = my[t].last
    BY <1>1, <1>2, Here
  <2> HIDE DEF m
  <2>3. Same(m, t)
    BY <1>1, <2>2 DEF Same
  <2>4. ASSUME NEW rank, Ordered(rank) PROVE Standing(m, rank, mHead)
    <3>1. Standing(my[t], rank, mHead)
      BY <2>4, Here
    <3>2. QED  BY <1>1, <1>2, <2>2, <3>1, Here DEF Standing
  <2>5. QED  BY <1>1, <2>1, <2>3, <2>4, Here, QuietKeeps DEF queueVars
<1>3. CASE mTail = my[t].t
  <2> DEFINE m == [my[t] EXCEPT !.pc = "jump"]
  <2>1. Decides(t, m, result[t])
    BY <1>1, <1>3 DEF Lost, Goes
  <2>2. /\ DOMAIN m = DOMAIN Idle /\ m.pc = "jump" /\ m.p = my[t].p
        /\ m.first = my[t].first /\ m.last = my[t].last
    BY <1>1, <1>3, Here
  <2> HIDE DEF m
  <2>3. Same(m, t)
    BY <1>1, <2>2 DEF Same
  <2>4. ASSUME NEW rank, Ordered(rank) PROVE Standing(m, rank, mHead)
    <3>1. Standing(my[t], rank, mHead)
      BY <2>4, Here
    <3>2. QED  BY <1>1, <1>3, <2>2, <3>1, Here DEF Standing
  <2>5. QED  BY <1>1, <2>1, <2>3, <2>4, Here, QuietKeeps DEF queueVars
<1>4. QED  BY <1>2, <1>3

\* The search restarts when p is marked, and goes one node up when not.
LEMMA CheckOffKeeps == ASSUME IInv, NEW t \in Threads, CheckOff(t) PROVE IInv'
<1>1. my[t].pc = "check" /\ UNCHANGED queueVars
  BY DEF CheckOff, At
<1>2. CASE mIsOff[my[t].p]
  <2> DEFINE m == [my[t] EXCEPT !.pc = "head"]
  <2>1. Decides(t, m, result[t])
    BY <1>1, <1>2 DEF CheckOff, Goes
  <2>2. DOMAIN m = DOMAIN Idle /\ m.pc = "head" /\ m.pred = my[t].pred
    BY <1>1, <1>2, Here
  <2> HIDE DEF m
  <2>3. Same(m, t)
    BY <1>1, <2>2 DEF Same
  <2>4. ASSUME NEW rank, Ordered(rank) PROVE Standing(m, rank, mHead)
    <3>1. Standing(my[t], rank, mHead)
      BY <2>4, Here
    <3>2. QED  BY <1>1, <1>2, <2>2, <3>1, Here DEF Standing
  <2>5. QED  BY <1>1, <2>1, <2>3, <2>4, Here, QuietKeeps DEF queueVars
<1>3. CASE ~mIsOff[my[t].p]
  <2> DEFINE m == [my[t] EXCEPT !.pc = "item", !.p = my[t].q]
  <2>1. Decides(t, m, result[t])
    BY <1>1, <1>3 DEF CheckOff, Goes
  <2>2. /\ DOMAIN m = DOMAIN Idle /\ m.pc = "item" /\ m.p = my[t].q
        /\ m.h = my[t].h /\ m.pred = my[t].pred
    BY <1>1, <1>3, Here
  <2> HIDE DEF m
  <2>3. Same(m, t)
    BY <1>1, <2>2 DEF Same
  <2>4. ASSUME NEW rank, Ordered(rank) PROVE Standing(m, rank, mHead)
    <3>1. Standing(my[t], rank, mHead)
      BY <2>4, Here
    <3>2. QED  BY <1>1, <1>3, <2>2, <3>1, Here, <2>4, HeadToNext DEF Standing, Ordered
  <2>5. QED  BY <1>1, <2>1, <2>3, <2>4, Here, QuietKeeps DEF queueVars
<1>4. QED  BY <1>2, <1>3

\* The search takes, skips or ends at p, which is the head it started from or above it.
LEMMA LoadItemKeeps == ASSUME IInv, NEW t \in Threads, LoadItem(t) PROVE IInv'
<1>1. my[t].pc = "item" /\ UNCHANGED queueVars
  BY DEF LoadItem, At
<1>2. CASE mItem[my[t].p] = "null"
  <2> DEFINE m == [my[t] EXCEPT !.pc = "successor"]
  <2>1. Decides(t, m, result[t])
    BY <1>1, <1>2 DEF LoadItem, Goes
  <2>2. /\ DOMAIN m = DOMAIN Idle /\ m.pc = "successor" /\ m.h = my[t].h
        /\ m.p = my[t].p /\ m.pred = my[t].pred
    BY <1>1, <1>2, Here
  <2> HIDE DEF m
  <2>3. Same(m, t)
    BY <1>1, <2>2 DEF Same
  <2>4. ASSUME NEW rank, Ordered(rank) PROVE Standing(m, rank, mHead)
    <3>1. Standing(my[t], rank, mHead)
      BY <2>4, Here
    <3>2. QED  BY <1>1, <1>2, <2>2, <3>1, Here DEF Standing
  <2>5. QED  BY <1>1, <2>1, <2>3, <2>4, Here, QuietKeeps DEF queueVars
<1>3. CASE mItem[my[t].p] # "null" /\ op[t].kind = "Poll"
  <2> DEFINE m == [my[t] EXCEPT !.pc = "take", !.item = mItem[my[t].p]]
  <2>1. Decides(t, m, result[t])
    BY <1>1, <1>3 DEF LoadItem, Goes
  <2>2. /\ DOMAIN m = DOMAIN Idle /\ m.pc = "take" /\ m.h = my[t].h
        /\ m.p = my[t].p /\ m.pred = my[t].pred
    BY <1>1, <1>3, Here
  <2> HIDE DEF m
  <2>3. Same(m, t)
    BY <1>1, <2>2 DEF Same
  <2>4. ASSUME NEW rank, Ordered(rank) PROVE Standing(m, rank, mHead)
    <3>1. Standing(my[t], rank, mHead)
      BY <2>4, Here
    <3>2. QED  BY <1>1, <1>3, <2>2, <3>1, Here DEF Standing
  <2>5. QED  BY <1>1, <2>1, <2>3, <2>4, Here, QuietKeeps DEF queueVars
<1>4. CASE mItem[my[t].p] # "null" /\ op[t].kind # "Poll" /\ Walks(t)
  <2> DEFINE m == ToUpdate(my[t], my[t].p, FALSE)
  <2>1. Decides(t, m, result[t])
    BY <1>1, <1>4 DEF LoadItem, Goes
  <2>2. /\ DOMAIN m = DOMAIN Idle /\ m.q = my[t].p /\ m.h = my[t].h
        /\ m.p = my[t].p /\ m.pred = my[t].pred
        /\ m.pc = (IF my[t].h # my[t].p THEN "update" ELSE "visit")
    BY <1>1, <1>4, Here DEF ToUpdate, Onward
  <2> HIDE DEF m
  <2>3. Same(m, t)
    BY <1>1, <2>2 DEF Same
  <2>4. ASSUME NEW rank, Ordered(rank) PROVE Standing(m, rank, mHead)
    <3>1. Standing(my[t], rank, mHead)
      BY <2>4, Here
    <3>2. QED  BY <1>1, <1>4, <2>2, <3>1, Here DEF Standing
  <2>5. QED  BY <1>1, <2>1, <2>3, <2>4, Here, QuietKeeps DEF queueVars
<1>5. CASE mItem[my[t].p] # "null" /\ op[t].kind # "Poll" /\ ~Walks(t)
  <2> DEFINE m == ToUpdate(my[t], my[t].p, TRUE)
  <2>1. Decides(t, m, IF op[t].kind = "Peek" THEN mItem[my[t].p] ELSE "false")
    BY <1>1, <1>5 DEF LoadItem, Goes
  <2>2. /\ DOMAIN m = DOMAIN Idle /\ m.q = my[t].p /\ m.h = my[t].h
        /\ m.p = my[t].p /\ m.pred = my[t].pred
        /\ m.pc = (IF my[t].h # my[t].p THEN "update" ELSE "return")
    BY <1>1, <1>5, Here DEF ToUpdate, Onward
  <2> HIDE DEF m
  <2>3. Same(m, t)
    BY <1>1, <2>2 DEF Same
  <2>4. ASSUME NEW rank, Ordered(rank) PROVE Standing(m, rank, mHead)
    <3>1. Standing(my[t], rank, mHead)
      BY <2>4, Here
    <3>2. QED  BY <1>1, <1>5, <2>2, <3>1, Here DEF Standing
  <2>5. QED  BY <1>1, <2>1, <2>3, <2>4, Here, QuietKeeps DEF queueVars
<1>6. QED  BY <1>2, <1>3, <1>4, <1>5

\* Poll moves the head behind the node it took, when there is one.
LEMMA LoadTakenNextKeeps == ASSUME IInv, NEW t \in Threads, LoadTakenNext(t) PROVE IInv'
<1>1. my[t].pc = "taken" /\ UNCHANGED queueVars
  BY DEF LoadTakenNext, At
<1>2. CASE mNext[my[t].p] # null
  <2> DEFINE m == ToUpdate(my[t], mNext[my[t].p], TRUE)
  <2>1. Decides(t, m, result[t])
    BY <1>1, <1>2 DEF LoadTakenNext, Goes
  <2>2. /\ DOMAIN m = DOMAIN Idle /\ m.q = mNext[my[t].p] /\ m.h = my[t].h
        /\ m.p = my[t].p /\ m.pred = my[t].pred
        /\ m.pc = (IF my[t].h # mNext[my[t].p] THEN "update" ELSE "return")
    BY <1>1, <1>2, Here DEF ToUpdate, Onward
  <2> HIDE DEF m
  <2>3. Same(m, t)
    BY <1>1, <2>2 DEF Same
  <2>4. ASSUME NEW rank, Ordered(rank) PROVE Standing(m, rank, mHead)
    <3>1. Standing(my[t], rank, mHead)
      BY <2>4, Here
    <3>2. QED  BY <1>1, <1>2, <2>2, <3>1, Here, <2>4, LinkAbove DEF Standing
  <2>5. QED  BY <1>1, <2>1, <2>3, <2>4, Here, QuietKeeps DEF queueVars
<1>3. CASE mNext[my[t].p] = null
  <2> DEFINE m == ToUpdate(my[t], my[t].p, TRUE)
  <2>1. Decides(t, m, result[t])
    BY <1>1, <1>3 DEF LoadTakenNext, Goes
  <2>2. /\ DOMAIN m = DOMAIN Idle /\ m.q = my[t].p /\ m.h = my[t].h
        /\ m.p = my[t].p /\ m.pred = my[t].pred
        /\ m.pc = (IF my[t].h # my[t].p THEN "update" ELSE "return")
    BY <1>1, <1>3, Here DEF ToUpdate, Onward
  <2> HIDE DEF m
  <2>3. Same(m, t)
    BY <1>1, <2>2 DEF Same
  <2>4. ASSUME NEW rank, Ordered(rank) PROVE Standing(m, rank, mHead)
    <3>1. Standing(my[t], rank, mHead)
      BY <2>4, Here
    <3>2. QED  BY <1>1, <1>3, <2>2, <3>1, Here DEF Standing
  <2>5. QED  BY <1>1, <2>1, <2>3, <2>4, Here, QuietKeeps DEF queueVars
<1>4. QED  BY <1>2, <1>3

\* The search ends at the last node, or checks the mark of p.
LEMMA LoadSuccessorKeeps == ASSUME IInv, NEW t \in Threads, LoadSuccessor(t) PROVE IInv'
<1>1. my[t].pc = "successor" /\ UNCHANGED queueVars
  BY DEF LoadSuccessor, At
<1>2. CASE mNext[my[t].p] # null
  <2> DEFINE m == [my[t] EXCEPT !.pc = "check", !.q = mNext[my[t].p]]
  <2>1. Decides(t, m, result[t])
    BY <1>1, <1>2 DEF LoadSuccessor, Goes
  <2>2. /\ DOMAIN m = DOMAIN Idle /\ m.pc = "check" /\ m.q = mNext[my[t].p]
        /\ m.h = my[t].h /\ m.p = my[t].p /\ m.pred = my[t].pred
    BY <1>1, <1>2, Here
  <2> HIDE DEF m
  <2>3. Same(m, t)
    BY <1>1, <2>2 DEF Same
  <2>4. ASSUME NEW rank, Ordered(rank) PROVE Standing(m, rank, mHead)
    <3>1. Standing(my[t], rank, mHead)
      BY <2>4, Here
    <3>2. QED  BY <1>1, <1>2, <2>2, <3>1, Here, <2>4, LinkUp DEF Standing
  <2>5. QED  BY <1>1, <2>1, <2>3, <2>4, Here, QuietKeeps DEF queueVars
<1>3. CASE mNext[my[t].p] = null
  <2> DEFINE m == ToUpdate(my[t], my[t].p, TRUE)
  <2>1. Decides(t, m, IF op[t].kind \in {"Poll", "Peek"} THEN "null"
                            ELSE IF op[t].kind = "IsEmpty" THEN "true" ELSE "false")
    BY <1>1, <1>3 DEF LoadSuccessor, Goes
  <2>2. /\ DOMAIN m = DOMAIN Idle /\ m.q = my[t].p /\ m.h = my[t].h
        /\ m.p = my[t].p /\ m.pred = my[t].pred
        /\ m.pc = (IF my[t].h # my[t].p THEN "update" ELSE "return")
    BY <1>1, <1>3, Here DEF ToUpdate, Onward
  <2> HIDE DEF m
  <2>3. Same(m, t)
    BY <1>1, <2>2 DEF Same
  <2>4. ASSUME NEW rank, Ordered(rank) PROVE Standing(m, rank, mHead)
    <3>1. Standing(my[t], rank, mHead)
      BY <2>4, Here
    <3>2. QED  BY <1>1, <1>3, <2>2, <3>1, Here DEF Standing
  <2>5. QED  BY <1>1, <2>1, <2>3, <2>4, Here, QuietKeeps DEF queueVars
<1>4. QED  BY <1>2, <1>3

\* Contains and Remove look at the item of p and go on behind it.
LEMMA VisitKeeps == ASSUME IInv, NEW t \in Threads, Visit(t) PROVE IInv'
<1>1. my[t].pc = "visit" /\ UNCHANGED queueVars
  BY DEF Visit, At
<1>2. CASE mItem[my[t].p] = op[t].items[1] /\ op[t].kind = "Contains"
  <2> DEFINE m == [my[t] EXCEPT !.pc = "return"]
  <2>1. Decides(t, m, "true")
    BY <1>1, <1>2 DEF Visit, Goes
  <2>2. DOMAIN m = DOMAIN Idle /\ m.pc = "return"
    BY <1>1, <1>2, Here
  <2> HIDE DEF m
  <2>3. Same(m, t)
    BY <1>1, <2>2 DEF Same
  <2>4. ASSUME NEW rank, Ordered(rank) PROVE Standing(m, rank, mHead)
    <3>1. Standing(my[t], rank, mHead)
      BY <2>4, Here
    <3>2. QED  BY <1>1, <1>2, <2>2, <3>1, Here DEF Standing
  <2>5. QED  BY <1>1, <2>1, <2>3, <2>4, Here, QuietKeeps DEF queueVars
<1>3. CASE ~(mItem[my[t].p] = op[t].items[1] /\ op[t].kind = "Contains")
  <2> DEFINE m == [my[t] EXCEPT !.pc = IF mItem[my[t].p] = op[t].items[1] THEN "drop" ELSE "succ",
                             !.item = mItem[my[t].p],
                             !.unlink = mItem[my[t].p] = "null" \/ mItem[my[t].p] = op[t].items[1]]
  <2>1. Decides(t, m, result[t])
    BY <1>1, <1>3 DEF Visit, Goes
  <2>2. DOMAIN m = DOMAIN Idle /\ m.pc \in {"drop", "succ"} /\ m.p = my[t].p /\ m.pred = my[t].pred
    BY <1>1, <1>3, Here
  <2> HIDE DEF m
  <2>3. Same(m, t)
    BY <1>1, <2>2 DEF Same
  <2>4. ASSUME NEW rank, Ordered(rank) PROVE Standing(m, rank, mHead)
    <3>1. Standing(my[t], rank, mHead)
      BY <2>4, Here
    <3>2. QED  BY <1>1, <1>3, <2>2, <3>1, Here DEF Standing
  <2>5. QED  BY <1>1, <2>1, <2>3, <2>4, Here, QuietKeeps DEF queueVars
<1>4. QED  BY <1>2, <1>3


\* CasItem of Poll and of Remove: the items are not part of the order.
LEMMA TakeItemKeeps == ASSUME IInv, NEW t \in Threads, TakeItem(t) PROVE IInv'
<1>1. my[t].pc = "take" /\ UNCHANGED <<mNext, mIsOff, mHead, mTail, created>>
  BY DEF TakeItem, At
<1>2. PICK pc \in {"return", "taken", "successor"} : \E r : Decides(t, [my[t] EXCEPT !.pc = pc], r)
  BY DEF TakeItem, Goes
<1>3. PICK r : Decides(t, [my[t] EXCEPT !.pc = pc], r)
  BY <1>2
<1> DEFINE m == [my[t] EXCEPT !.pc = pc]
<1>4. /\ DOMAIN m = DOMAIN Idle /\ m.pc \in {"return", "taken", "successor"}
      /\ m.h = my[t].h /\ m.p = my[t].p /\ m.pred = my[t].pred
  BY Here
<1>5. Decides(t, m, r)
  BY <1>3
<1> HIDE DEF m
<1>6. Same(m, t)
  BY <1>1, <1>4 DEF Same
<1>7. ASSUME NEW rank, Ordered(rank) PROVE Standing(m, rank, mHead)
  <2>1. Standing(my[t], rank, mHead)
    BY <1>7, Here
  <2>2. QED  BY <1>1, <1>4, <2>1 DEF Standing
<1>8. QED  BY <1>1, <1>5, <1>6, <1>7, Here, QuietKeeps

\* Remove takes the item, or finds it taken.
LEMMA DropItemKeeps == ASSUME IInv, NEW t \in Threads, DropItem(t) PROVE IInv'
<1>1. my[t].pc = "drop" /\ UNCHANGED <<mNext, mIsOff, mHead, mTail, created>>
  BY DEF DropItem, At
<1> DEFINE m == [my[t] EXCEPT !.pc = "succ"]
<1>2. PICK r : Decides(t, m, r)
  BY DEF DropItem, Goes
<1>3. DOMAIN m = DOMAIN Idle /\ m.pc = "succ" /\ m.p = my[t].p /\ m.pred = my[t].pred
  BY Here
<1> HIDE DEF m
<1>4. Same(m, t)
  BY <1>1, <1>3 DEF Same
<1>5. ASSUME NEW rank, Ordered(rank) PROVE Standing(m, rank, mHead)
  <2>1. Standing(my[t], rank, mHead)
    BY <1>5, Here
  <2>2. QED  BY <1>1, <1>3, <2>1 DEF Standing
<1>6. QED  BY <1>1, <1>2, <1>4, <1>5, Here, QuietKeeps

\* CasTail: the tail becomes the last node of a chain that is linked.
LEMMA MoveTailKeeps ==
  ASSUME IInv, NEW t \in Threads, MoveTail(t) \/ RetryTail(t)
  PROVE  IInv'
<1>1. /\ my[t].pc \in {"move", "retry"} /\ UNCHANGED <<mNext, mIsOff, mHead, created>>
      /\ mTail' = IF mTail = my[t].t THEN my[t].last ELSE mTail
  BY DEF MoveTail, RetryTail, At, nodeVars
<1>2. PICK pc \in {"return", "reload"} : Decides(t, [my[t] EXCEPT !.pc = pc], result[t])
  BY DEF MoveTail, RetryTail, Goes
<1> DEFINE m == [my[t] EXCEPT !.pc = pc]
<1>3. DOMAIN m = DOMAIN Idle /\ m.pc \in {"return", "reload"} /\ m.last = my[t].last
  BY Here
<1>4. Decides(t, m, result[t])
  BY <1>2
<1> HIDE DEF m
<1>5. my[t].last \in Shared
  BY <1>1, Here DEF IInv, Standing
<1>6. mTail' \in Shared
  BY <1>1, <1>5, Here
<1>7. Same(m, t)
  BY <1>1, <1>3 DEF Same
<1>8. ASSUME NEW rank, Ordered(rank) PROVE Standing(m, rank, mHead)
  BY <1>3, <1>5 DEF Standing
<1>9. QED  BY <1>1, <1>4, <1>6, <1>7, <1>8, QuietKeeps

\* How Contains and Remove go on: they return, or visit q.
LEMMA ProceedsTo ==
  ASSUME NEW t \in Threads, NEW m, DOMAIN m = DOMAIN Idle, Proceeds(t, m)
  PROVE  \E k, r : /\ Decides(t, k, r) /\ DOMAIN k = DOMAIN Idle
                   /\ \/ k.pc = "return"
                      \/ k.pc = "visit" /\ m.q # null /\ k.pred = m.p /\ k.p = m.q
<1>1. DOMAIN m = {"pc", "h", "p", "q", "t", "pred", "first", "last", "item", "unlink"}
  BY DEF Idle
<1>2. CASE result[t] # "none" \/ m.q = null
  <2> DEFINE k == [m EXCEPT !.pc = "return"]
  <2>1. k.pc = "return" /\ DOMAIN k = DOMAIN Idle
    BY <1>1
  <2>2. \E r : Decides(t, k, r)
    BY <1>2 DEF Proceeds, Goes
  <2>3. QED  BY <2>1, <2>2
<1>3. CASE result[t] = "none" /\ m.q # null
  <2> DEFINE k == [m EXCEPT !.pc = "visit", !.pred = m.p, !.p = m.q]
  <2>1. k.pc = "visit" /\ DOMAIN k = DOMAIN Idle /\ k.pred = m.p /\ k.p = m.q
    BY <1>1
  <2>2. Decides(t, k, result[t])
    BY <1>3 DEF Proceeds, Goes
  <2>3. QED  BY <1>3, <2>1, <2>2
<1>4. QED  BY <1>2, <1>3

\* Succ: the next node, or the head when p has fallen off, which is above p.
LEMMA SuccKeeps == ASSUME IInv, NEW t \in Threads, Succ(t) PROVE IInv'
<1> DEFINE q == IF At(t, "succhead") THEN mHead ELSE mNext[my[t].p]
           m == [my[t] EXCEPT !.q = q]
<1>1. my[t].pc \in {"succhead", "succnext"} /\ UNCHANGED queueVars
  BY DEF Succ, At
<1>2. \/ m.pred # null /\ q # null /\ Goes(t, [m EXCEPT !.pc = "unlink"])
      \/ Proceeds(t, m)
  BY DEF Succ
<1>3. my[t].p \in Shared
  BY <1>1, Here DEF IInv, Standing
<1>4. q # null => q \in Shared /\ \A rank : Ordered(rank) => rank[my[t].p] < rank[q]
  <2>1. CASE my[t].pc = "succhead"
    BY <2>1, Here DEF At, Standing
  <2>2. CASE my[t].pc = "succnext"
    BY <1>3, <2>2, LinkUp DEF At
  <2>3. QED  BY <1>1, <2>1, <2>2
<1>5. DOMAIN m = DOMAIN Idle /\ m.q = q /\ m.p = my[t].p /\ m.pred = my[t].pred
  BY Here
<1> HIDE DEF q, m
<1>6. CASE m.pred # null /\ q # null /\ Goes(t, [m EXCEPT !.pc = "unlink"])
  <2> DEFINE k == [m EXCEPT !.pc = "unlink"]
  <2>1. DOMAIN k = DOMAIN Idle /\ k.pc = "unlink" /\ k.p = my[t].p /\ k.q = q /\ k.pred = my[t].pred
    BY <1>5 DEF Idle
  <2>2. Decides(t, k, result[t])
    BY <1>6 DEF Goes
  <2> HIDE DEF k
  <2>3. Same(k, t)
    BY <1>1, <2>1 DEF Same
  <2>4. ASSUME NEW rank, Ordered(rank) PROVE Standing(k, rank, mHead)
    <3>1. Standing(my[t], rank, mHead)
      BY <2>4, Here
    <3>2. QED  BY <1>1, <1>3, <1>4, <1>5, <1>6, <2>1, <2>4, <3>1 DEF Standing
  <2>5. QED  BY <1>1, <2>2, <2>3, <2>4, Here, QuietKeeps DEF queueVars
<1>7. CASE Proceeds(t, m)
  <2>1. PICK k, r : /\ Decides(t, k, r) /\ DOMAIN k = DOMAIN Idle
                    /\ \/ k.pc = "return"
                       \/ k.pc = "visit" /\ m.q # null /\ k.pred = m.p /\ k.p = m.q
    BY <1>5, <1>7, ProceedsTo
  <2>2. Same(k, t)
    BY <1>1, <2>1 DEF Same
  <2>3. ASSUME NEW rank, Ordered(rank) PROVE Standing(k, rank, mHead)
    BY <1>3, <1>4, <1>5, <2>1, <2>3 DEF Standing
  <2>4. QED  BY <1>1, <2>1, <2>2, <2>3, Here, QuietKeeps DEF queueVars
<1>8. QED  BY <1>2, <1>6, <1>7

\* Unlink links pred past p to q, upwards.
LEMMA UnlinkKeeps == ASSUME IInv, NEW t \in Threads, Unlink(t) PROVE IInv'
<1> DEFINE m == my[t]
<1>1. /\ m.pc = "unlink" /\ UNCHANGED <<mItem, mIsOff, mHead, mTail, created>> /\ Proceeds(t, m)
      /\ mNext' = IF mNext[m.pred] = m.p THEN [mNext EXCEPT ![m.pred] = m.q] ELSE mNext
  BY DEF Unlink, At
<1>2. PICK k, r : /\ Decides(t, k, r) /\ DOMAIN k = DOMAIN Idle
                  /\ \/ k.pc = "return"
                     \/ k.pc = "visit" /\ m.q # null /\ k.pred = m.p /\ k.p = m.q
  BY <1>1, Here, ProceedsTo
<1>3. my' = [my EXCEPT ![t] = Forget(k)]
  BY <1>2 DEF Decides
<1>4. TypeOK /\ Shared \subseteq Nodes /\ null \notin Shared
  BY SharedNodes DEF IInv
<1>5. m.p \in Shared /\ m.q \in Shared /\ m.pred \in Shared
  BY <1>1, Here DEF IInv, Standing
<1>6. ASSUME NEW rank, Ordered(rank)
      PROVE  /\ rank[m.pred] < rank[m.p] /\ rank[m.p] < rank[m.q] /\ rank[m.pred] < rank[m.q]
             /\ rank \in [Nodes -> Int]
  <2>1. rank[m.pred] < rank[m.p] /\ rank[m.p] < rank[m.q]
    BY <1>1, <1>6, Here DEF Standing
  <2>2. rank \in [Nodes -> Int]
    BY <1>6 DEF Ordered
  <2>3. rank[m.pred] \in Int /\ rank[m.p] \in Int /\ rank[m.q] \in Int
    BY <1>4, <1>5, <2>2
  <2>4. QED  BY <2>1, <2>2, <2>3
<1>7. Same(k, t)
  BY <1>1, <1>2 DEF Same
<1>8. Same(Forget(k), t)
  BY <1>7, ForgetStands
<1>9. mNext' \in [Nodes -> Nodes \cup {null}]
  BY <1>1, <1>4, <1>5 DEF TypeOK
<1>10. \A n \in Nodes : n # m.pred => mNext'[n] = mNext[n]
  BY <1>1, <1>4 DEF TypeOK
<1>11. mNext'[m.pred] \in {mNext[m.pred], m.q}
  BY <1>1, <1>4, <1>5 DEF TypeOK
<1>12. ASSUME NEW rank, Ordered(rank) PROVE StepOK(Forget(k), rank)
  <2>1. Standing(k, rank, mHead)
    BY <1>2, <1>5, <1>6, <1>12 DEF Standing
  <2>2. Standing(Forget(k), rank, mHead')
    BY <1>1, <1>7, <2>1, ForgetStands
  <2>3. rank[mHead] <= rank[mHead']
    BY <1>1, <1>4, <1>6, <1>12 DEF TypeOK
  <2>4. ASSUME NEW n \in Shared, mNext'[n] # null
        PROVE  mNext'[n] \in Shared /\ rank[n] < rank[mNext'[n]]
    <3>1. CASE mNext'[n] = mNext[n]
      BY <1>12, <2>4, <3>1 DEF Ordered
    <3>2. CASE n = m.pred /\ mNext'[n] = m.q
      BY <1>5, <1>6, <1>12, <3>2
    <3>3. QED  BY <1>4, <1>10, <1>11, <3>1, <3>2
  <2>5. \A n \in Nodes : mIsOff'[n] => n \in Shared /\ rank[n] < rank[mHead']
    BY <1>1, <1>12 DEF Ordered
  <2>6. QED  BY <2>2, <2>3, <2>4, <2>5 DEF StepOK
<1>13. \A n \in Nodes \ Shared : mNext'[n] = mNext[n]
  BY <1>5, <1>10
<1>14. /\ created' = created /\ mIsOff' \in [Nodes -> BOOLEAN]
       /\ mHead' \in Shared /\ mTail' \in Shared
  BY <1>1, <1>4 DEF TypeOK
<1>15. QED  BY <1>3, <1>8, <1>9, <1>12, <1>13, <1>14, StepKeeps

\* CasHead: the head moves upwards.
LEMMA CasHeadKeeps == ASSUME IInv, NEW t \in Threads, CasHead(t) PROVE IInv'
<1> DEFINE h == my[t].h
           q == my[t].q
<1>1. my[t].pc = "update" /\ UNCHANGED <<mItem, mNext, mIsOff, mTail, created>>
  BY DEF CasHead, At, nodeVars
<1>2. TypeOK /\ Shared \subseteq Nodes
  BY SharedNodes DEF IInv
<1>3. h \in Shared /\ q \in Shared /\ my[t].p \in Shared
  BY <1>1, Here DEF IInv, Standing
<1>4. CASE mHead = h
  <2> DEFINE m == [my[t] EXCEPT !.pc = "setoff"]
  <2>1. mHead' = q /\ Decides(t, m, result[t])
    BY <1>4 DEF CasHead, Goes
  <2>2. /\ DOMAIN m = DOMAIN Idle /\ m.pc = "setoff" /\ m.h = h /\ m.p = my[t].p
        /\ m.pred = my[t].pred
    BY Here
  <2> HIDE DEF m
  <2>3. my' = [my EXCEPT ![t] = Forget(m)]
    BY <2>1 DEF Decides
  <2>4. Same(m, t)
    BY <1>1, <2>2 DEF Same
  <2>5. Same(Forget(m), t)
    BY <2>4, ForgetStands
  <2>6. ASSUME NEW rank, Ordered(rank) PROVE StepOK(Forget(m), rank)
    <3>1. rank \in [Nodes -> Int] /\ Standing(my[t], rank, mHead)
      BY <2>6, Here DEF Ordered
    <3>2. rank[h] < rank[q] /\ rank[h] \in Int /\ rank[q] \in Int /\ my[t].pred = null
      BY <1>1, <1>2, <1>3, <3>1 DEF Standing
    <3>3. rank[mHead] <= rank[mHead']
      BY <1>4, <2>1, <3>2
    <3>4. Standing(m, rank, mHead')
      BY <1>3, <2>1, <2>2, <3>2 DEF Standing
    <3>5. Standing(Forget(m), rank, mHead')
      BY <2>4, <3>4, ForgetStands
    <3>6. ASSUME NEW n \in Nodes, mIsOff'[n] PROVE n \in Shared /\ rank[n] < rank[mHead']
      <4>1. n \in Shared /\ rank[n] < rank[h] /\ rank[n] \in Int
        BY <1>1, <1>4, <2>6, <3>1, <3>6 DEF Ordered
      <4>2. QED  BY <2>1, <3>2, <4>1
    <3>7. \A n \in Shared : mNext'[n] # null => mNext'[n] \in Shared /\ rank[n] < rank[mNext'[n]]
      BY <1>1, <2>6 DEF Ordered
    <3>8. QED  BY <3>3, <3>5, <3>6, <3>7 DEF StepOK
  <2>7. /\ created' = created /\ mIsOff' \in [Nodes -> BOOLEAN]
        /\ mHead' \in Shared /\ mTail' \in Shared
        /\ mNext' \in [Nodes -> Nodes \cup {null}] /\ \A n \in Nodes \ Shared : mNext'[n] = mNext[n]
    BY <1>1, <1>2, <1>3, <2>1 DEF TypeOK
  <2>8. QED  BY <2>3, <2>5, <2>6, <2>7, StepKeeps
<1>5. CASE mHead # h
  <2>1. mHead' = mHead
    BY <1>5 DEF CasHead
  <2>2. PICK pc \in {"return", "visit"} : Decides(t, [my[t] EXCEPT !.pc = pc], result[t])
    BY <1>5 DEF CasHead, Goes, Onward
  <2> DEFINE m == [my[t] EXCEPT !.pc = pc]
  <2>3. /\ DOMAIN m = DOMAIN Idle /\ m.pc \in {"return", "visit"}
        /\ m.p = my[t].p /\ m.pred = my[t].pred
    BY Here
  <2>4. Decides(t, m, result[t])
    BY <2>2
  <2> HIDE DEF m
  <2>5. Same(m, t)
    BY <1>1, <2>3 DEF Same
  <2>6. ASSUME NEW rank, Ordered(rank) PROVE Standing(m, rank, mHead)
    <3>1. Standing(my[t], rank, mHead)
      BY <2>6, Here
    <3>2. QED  BY <1>1, <1>3, <2>3, <3>1 DEF Standing
  <2>7. QED  BY <1>1, <2>1, <2>4, <2>5, <2>6, Here, QuietKeeps
<1>6. QED  BY <1>4, <1>5

\* LazySetOff marks the node the head was moved from.
LEMMA LazySetOffKeeps == ASSUME IInv, NEW t \in Threads, LazySetOff(t) PROVE IInv'
<1>1. /\ my[t].pc = "setoff" /\ UNCHANGED <<mItem, mNext, mHead, mTail, created>>
      /\ mIsOff' = [mIsOff EXCEPT ![my[t].h] = TRUE]
  BY DEF LazySetOff, At
<1>2. PICK pc \in {"return", "visit"} : Decides(t, [my[t] EXCEPT !.pc = pc], result[t])
  BY DEF LazySetOff, Goes, Onward
<1> DEFINE m == [my[t] EXCEPT !.pc = pc]
<1>3. DOMAIN m = DOMAIN Idle /\ m.pc \in {"return", "visit"} /\ m.p = my[t].p /\ m.pred = my[t].pred
  BY Here
<1>4. my' = [my EXCEPT ![t] = Forget(m)]
  BY <1>2 DEF Decides
<1> HIDE DEF m
<1>5. Same(m, t)
  BY <1>1, <1>3 DEF Same
<1>6. Same(Forget(m), t)
  BY <1>5, ForgetStands
<1>7. TypeOK /\ Shared \subseteq Nodes
  BY SharedNodes DEF IInv
<1>8. my[t].h \in Shared
  BY <1>1, Here DEF IInv, Standing
<1>9. ASSUME NEW rank, Ordered(rank) PROVE StepOK(Forget(m), rank)
  <2>1. rank \in [Nodes -> Int] /\ Standing(my[t], rank, mHead)
    BY <1>9, Here DEF Ordered
  <2>2. Standing(m, rank, mHead)
    BY <1>1, <1>3, <2>1 DEF Standing
  <2>3. Standing(Forget(m), rank, mHead')
    BY <1>1, <1>5, <2>2, ForgetStands
  <2>4. rank[my[t].h] < rank[mHead]
    BY <1>1, <2>1 DEF Standing
  <2>5. ASSUME NEW n \in Nodes, mIsOff'[n] PROVE n \in Shared /\ rank[n] < rank[mHead']
    BY <1>1, <1>7, <1>8, <1>9, <2>4, <2>5 DEF Ordered, TypeOK
  <2>6. rank[mHead] <= rank[mHead']
    BY <1>1, <1>7, <2>1 DEF TypeOK
  <2>7. \A n \in Shared : mNext'[n] # null => mNext'[n] \in Shared /\ rank[n] < rank[mNext'[n]]
    BY <1>1, <1>9 DEF Ordered
  <2>8. QED  BY <2>3, <2>5, <2>6, <2>7 DEF StepOK
<1>10. /\ created' = created /\ mIsOff' \in [Nodes -> BOOLEAN]
       /\ mHead' \in Shared /\ mTail' \in Shared
       /\ mNext' \in [Nodes -> Nodes \cup {null}] /\ \A n \in Nodes \ Shared : mNext'[n] = mNext[n]
  BY <1>1, <1>7 DEF TypeOK
<1>11. QED  BY <1>4, <1>6, <1>9, <1>10, StepKeeps


\* A thread that returns stands nowhere.
LEMMA ReturnKeeps == ASSUME IInv, NEW t \in Threads, Return(t) PROVE IInv'
<1>1. my[t].pc = "return" /\ my' = [my EXCEPT ![t] = Idle] /\ UNCHANGED queueVars
  BY DEF Return, At
<1>2. TypeOK /\ Idle.pc = "idle"
  BY DEF IInv, Idle
<1>3. Same(Idle, t)
  BY <1>1, <1>2 DEF Same
<1>4. mNext' = mNext /\ mIsOff' = mIsOff /\ mHead' = mHead /\ created' = created /\ mTail' = mTail
  BY <1>1 DEF queueVars
<1>5. ASSUME NEW rank, Ordered(rank) PROVE StepOK(Idle, rank)
  <2>1. Standing(Idle, rank, mHead)
    BY <1>2 DEF Standing
  <2>2. rank[mHead] <= rank[mHead']
    BY <1>2, <1>4, <1>5, SharedNodes DEF Ordered, TypeOK
  <2>3. QED  BY <1>4, <1>5, <2>1, <2>2 DEF StepOK, Ordered
<1>6. QED  BY <1>1, <1>2, <1>3, <1>4, <1>5, StepKeeps DEF TypeOK

-----------------------------------------------------------------------------
(***************************************************************************)
(* Making nodes and linking them.                                          *)
(***************************************************************************)
\* The nodes of a call are new, a chain of their own, and nobody else's.
LEMMA MakeKeeps ==
  ASSUME IInv, NEW t \in Threads, NEW k \in Nat \ {0}, created + k <= MaxNodes, my[t].pc = "idle",
         created' = created + k,
         mNext' = [n \in Nodes |-> IF n \in (created + 1)..((created + k) - 1) THEN n + 1 ELSE mNext[n]],
         my' = [my EXCEPT ![t] = [Idle EXCEPT !.pc = "tail", !.first = created + 1,
                                              !.last = created + k]],
         UNCHANGED <<mIsOff, mHead, mTail>>
  PROVE  IInv'
<1> DEFINE a == created + 1
           b == created + k
           m == [Idle EXCEPT !.pc = "tail", !.first = a, !.last = b]
<1>1. TypeOK /\ PrivateOK /\ Shared \subseteq Nodes /\ null \notin Shared /\ created \in Nat
  BY SharedNodes DEF IInv
<1>2. /\ my'[t] = m /\ (\A u \in Threads \ {t} : my'[u] = my[u]) /\ DOMAIN my' = Threads
  BY <1>1 DEF TypeOK
<1>3. DOMAIN m = DOMAIN Idle /\ m.pc = "tail" /\ m.first = a /\ m.last = b
  BY DEF Idle
<1>4. /\ a \in Nat /\ b \in Nat /\ created \in Nat /\ a = created + 1 /\ created < a /\ a <= b
      /\ created' = b /\ b <= MaxNodes /\ MaxNodes \in Nat
      /\ mNext' = [n \in Nodes |-> IF n \in a..(b - 1) THEN n + 1 ELSE mNext[n]]
  BY <1>1, QueueAssumption
<1> HIDE DEF m, a, b
<1>5. Own(t)' = a..b /\ Own(t) = {} /\ \A u \in Threads \ {t} : Own(u)' = Own(u)
  BY <1>2, <1>3 DEF Own
<1>6. \A u \in Threads : \A n \in Own(u) : n \in 1..created
  BY <1>1 DEF PrivateOK, Own
<1>7. Shared' = Shared
  <2>1. ASSUME NEW n \in Shared PROVE n \in Shared'
    <3>1. n \in 1..created /\ n \in 1..b /\ n \notin a..b
      BY <1>1, <1>4, SharedNodes
    <3>2. QED  BY <1>4, <1>5, <3>1 DEF Shared
  <2>2. ASSUME NEW n \in Shared' PROVE n \in Shared
    <3>1. n \in 1..b /\ n \notin a..b /\ \A u \in Threads \ {t} : n \notin Own(u)
      BY <1>4, <1>5 DEF Shared
    <3>2. n \in 1..created
      BY <1>4, <3>1
    <3>3. QED  BY <1>5, <3>1, <3>2 DEF Shared
  <2>3. QED  BY <2>1, <2>2
<1>8. \A n \in Nodes : n \in 1..created => mNext'[n] = mNext[n]
  BY <1>4 DEF Nodes
<1>9. mNext' \in [Nodes -> Nodes \cup {null}]
  <2>1. \A n \in a..(b - 1) : n + 1 \in Nodes
    BY <1>4 DEF Nodes
  <2>2. QED  BY <1>1, <1>4, <2>1 DEF TypeOK
<1>10. TypeOK'
  <2>1. created' \in Nodes
    BY <1>4 DEF Nodes
  <2>2. \A u \in Threads : DOMAIN my'[u] = DOMAIN Idle /\ my'[u].pc \in Points
    BY <1>1, <1>2, <1>3 DEF TypeOK
  <2>3. QED  BY <1>1, <1>2, <1>7, <1>9, <2>1, <2>2 DEF TypeOK
<1>11. PrivateOK'
  <2>1. ASSUME NEW n \in a..b PROVE mNext'[n] = IF n = b THEN null ELSE n + 1
    <3>1. n \in Nodes /\ n > created
      BY <1>4 DEF Nodes
    <3>2. mNext[n] = null
      BY <1>1, <3>1 DEF PrivateOK
    <3>3. CASE n = b
      BY <1>4, <3>1, <3>2, <3>3
    <3>4. CASE n # b
      BY <1>4, <3>1, <3>4
    <3>5. QED  BY <3>3, <3>4
  <2>2. ASSUME NEW u \in Threads, my'[u].pc \in Inserting
        PROVE  /\ my'[u].first \in 1..created' /\ my'[u].last \in my'[u].first..created'
               /\ \A n \in Own(u)' : mNext'[n] = IF n = my'[u].last THEN null ELSE n + 1
    <3>1. CASE u = t
      <4>1. my'[u].first = a /\ my'[u].last = b /\ Own(u)' = a..b
        BY <1>2, <1>3, <1>5, <3>1
      <4>2. a \in 1..created' /\ b \in a..created'
        BY <1>4
      <4>3. QED  BY <2>1, <4>1, <4>2
    <3>2. CASE u # t
      <4>1. /\ my[u].pc \in Inserting /\ my[u].first \in 1..created
            /\ my[u].last \in my[u].first..created
            /\ \A n \in Own(u) : mNext[n] = IF n = my[u].last THEN null ELSE n + 1
        BY <1>1, <1>2, <2>2, <3>2 DEF PrivateOK
      <4>2. my[u].first \in 1..created' /\ my[u].last \in my[u].first..created'
        BY <1>4, <4>1
      <4>3. \A n \in Own(u) : n \in 1..created /\ n \in Nodes
        BY <1>1, <1>6, SharedNodes
      <4>4. QED  BY <1>2, <1>5, <1>8, <3>2, <4>1, <4>2, <4>3
    <3>3. QED  BY <3>1, <3>2
  <2>3. ASSUME NEW u \in Threads, NEW v \in Threads, u # v PROVE Own(u)' \cap Own(v)' = {}
    <3>1. \A w \in Threads : Own(w) \cap (a..b) = {}
      BY <1>4, <1>6
    <3>2. Own(u) \cap Own(v) = {}
      BY <1>1, <2>3 DEF PrivateOK
    <3>3. QED  BY <1>5, <2>3, <3>1, <3>2
  <2>4. ASSUME NEW n \in Nodes, n > created' PROVE mNext'[n] = null
    <3>1. n > created /\ n \notin a..(b - 1)
      BY <1>4, <2>4 DEF Nodes
    <3>2. QED  BY <1>1, <1>4, <3>1 DEF PrivateOK
  <2>5. QED  BY <2>2, <2>3, <2>4 DEF PrivateOK
<1>12. PICK rank : Ordered(rank)
  BY DEF IInv
<1>13. \A u \in Threads : Standing(my'[u], rank, mHead)
  <2>1. Standing(m, rank, mHead)
    BY <1>3 DEF Standing
  <2>2. QED  BY <1>2, <1>12, <2>1 DEF Ordered
<1>14. \A u \in Threads : Standing(my[u], rank, mHead)'
  BY <1>7, <1>13 DEF Standing
<1>15. \A n \in Shared : mNext'[n] = mNext[n]
  BY <1>1, <1>8, SharedNodes
<1>16. Ordered(rank)'
  BY <1>7, <1>12, <1>14, <1>15 DEF Ordered
<1>17. QED  BY <1>10, <1>11, <1>16 DEF IInv

\* A call makes its nodes or starts a search.
LEMMA CallKeeps == ASSUME IInv, NEW t \in Threads, NEW c \in Calls, Call(t, c) PROVE IInv'
<1>1. my[t].pc = "idle" /\ UNCHANGED <<mIsOff, mHead, mTail>> /\ TypeOK
  BY DEF Call, At, IInv
<1>2. CASE c.kind \in {"Offer", "AddAll"}
  <2> DEFINE k == Len(c.items)
  <2>1. k \in Nat \ {0}
    <3>1. c.items \in Seq(Items) /\ c.items # <<>>
      BY <1>2, QueueAssumption
    <3>2. QED  BY <3>1
  <2>2. created + k <= MaxNodes /\ created' = created + k
    BY <1>2 DEF Call
  <2>3. mNext' = [n \in Nodes |-> IF n \in (created + 1)..((created + k) - 1) THEN n + 1 ELSE mNext[n]]
    BY <1>2, Zenon DEF Call
  <2>4. my' = [my EXCEPT ![t] = [Idle EXCEPT !.pc = "tail", !.first = created + 1, !.last = created + k]]
    BY <1>2, Zenon DEF Call
  <2> HIDE DEF k
  <2>5. QED  BY <1>1, <2>1, <2>2, <2>3, <2>4, MakeKeeps
<1>3. CASE c.kind \notin {"Offer", "AddAll"}
  <2> DEFINE m == [Idle EXCEPT !.pc = "head"]
  <2>1. my' = [my EXCEPT ![t] = m] /\ mNext' = mNext /\ created' = created
    BY <1>3 DEF Call
  <2>2. m.pc = "head" /\ m.pred = null /\ DOMAIN m = DOMAIN Idle
    BY DEF Idle
  <2> HIDE DEF m
  <2>3. Same(m, t)
    BY <1>1, <2>2 DEF Same
  <2>4. ASSUME NEW rank, Ordered(rank) PROVE StepOK(m, rank)
    <3>1. Standing(m, rank, mHead)
      BY <2>2 DEF Standing
    <3>2. rank[mHead] <= rank[mHead']
      BY <1>1, <2>4, SharedNodes DEF Ordered, TypeOK
    <3>3. QED  BY <1>1, <2>1, <2>4, <3>1, <3>2 DEF StepOK, Ordered
  <2>5. QED  BY <1>1, <2>1, <2>3, <2>4, StepKeeps DEF TypeOK
<1>4. QED  BY <1>2, <1>3


\* The ranks when the nodes a..b are linked behind p.
Lifted(rank, p, a, b) == [n \in Nodes |-> IF n \in a..b THEN rank[p] + 1 + (n - a) ELSE rank[n]]

\* A chain linked behind the end of the list is above the node it is linked to.
LEMMA AppendKeeps ==
  ASSUME IInv, NEW t \in Threads, my[t].pc = "link", mNext[my[t].p] = null,
         mNext' = [mNext EXCEPT ![my[t].p] = my[t].first],
         NEW m, DOMAIN m = DOMAIN Idle, m.pc \in {"return", "move"},
         m.pc = "move" => m.last = my[t].last,
         my' = [my EXCEPT ![t] = m],
         UNCHANGED <<mIsOff, mHead, mTail, created>>
  PROVE  IInv'
<1> DEFINE p == my[t].p
           a == my[t].first
           b == my[t].last
<1>1. TypeOK /\ PrivateOK /\ Shared \subseteq Nodes /\ null \notin Shared /\ created \in Nat
  BY SharedNodes DEF IInv
<1>2. my'[t] = m /\ (\A u \in Threads \ {t} : my'[u] = my[u]) /\ DOMAIN my' = Threads
  BY <1>1 DEF TypeOK
<1>3. p \in Shared /\ p \in Nodes
  BY <1>1, Here DEF IInv, Standing
<1>4. /\ a \in 1..created /\ b \in a..created /\ a \in Nat /\ b \in Nat /\ Own(t) = a..b
      /\ \A n \in a..b : n \in Nodes /\ mNext[n] = IF n = b THEN null ELSE n + 1
  <2>1. a \in 1..created /\ b \in a..created /\ Own(t) = a..b
    BY <1>1 DEF PrivateOK, Own
  <2>2. \A n \in a..b : mNext[n] = IF n = b THEN null ELSE n + 1
    BY <1>1, <2>1 DEF PrivateOK
  <2>3. \A n \in a..b : n \in 1..created
    BY <1>1, <2>1
  <2>4. \A n \in a..b : n \in Nodes
    BY <1>1, <2>3, SharedNodes
  <2>5. QED  BY <1>1, <2>1, <2>2, <2>4
<1>5. /\ mNext' = [mNext EXCEPT ![p] = a] /\ mNext[p] = null
      /\ mNext'[p] = a /\ \A n \in Nodes : n # p => mNext'[n] = mNext[n]
  BY <1>1, <1>3 DEF TypeOK
<1>6. m.pc = "move" => m.last = b
  OBVIOUS
<1> HIDE DEF p, a, b
<1>7. Own(t)' = {} /\ \A u \in Threads \ {t} : Own(u)' = Own(u)
  BY <1>2 DEF Own
<1>8. Shared' = Shared \cup (a..b)
  <2>1. ASSUME NEW n \in Shared \cup (a..b) PROVE n \in Shared'
    <3>1. n \in 1..created
      BY <1>1, <1>4, SharedNodes
    <3>2. \A u \in Threads \ {t} : n \notin Own(u)
      <4>1. CASE n \in Shared
        BY <4>1 DEF Shared
      <4>2. CASE n \in a..b
        BY <1>1, <1>4, <4>2 DEF PrivateOK
      <4>3. QED  BY <4>1, <4>2
    <3>3. QED  BY <1>7, <3>1, <3>2 DEF Shared
  <2>2. ASSUME NEW n \in Shared' PROVE n \in Shared \cup (a..b)
    <3>1. n \in 1..created /\ \A u \in Threads \ {t} : n \notin Own(u)
      BY <1>7 DEF Shared
    <3>2. CASE n \in Own(t)
      BY <1>4, <3>2
    <3>3. CASE n \notin Own(t)
      BY <3>1, <3>3 DEF Shared
    <3>4. QED  BY <3>2, <3>3
  <2>3. QED  BY <2>1, <2>2
<1>9. \A n \in a..b : n \notin Shared
  BY <1>4 DEF Shared
<1>10. TypeOK'
  <2>1. mNext' \in [Nodes -> Nodes \cup {null}]
    <3>1. a \in Nodes
      BY <1>4
    <3>2. QED  BY <1>1, <1>5, <3>1 DEF TypeOK
  <2>2. \A u \in Threads : DOMAIN my'[u] = DOMAIN Idle /\ my'[u].pc \in Points
    BY <1>1, <1>2 DEF TypeOK
  <2>3. QED  BY <1>1, <1>2, <1>8, <2>1, <2>2 DEF TypeOK
<1>11. PrivateOK'
  <2>1. ASSUME NEW u \in Threads, my'[u].pc \in Inserting
        PROVE  /\ my'[u].first \in 1..created' /\ my'[u].last \in my'[u].first..created'
               /\ \A n \in Own(u)' : mNext'[n] = IF n = my'[u].last THEN null ELSE n + 1
    <3>1. u # t
      BY <1>2, <2>1
    <3>2. my'[u] = my[u] /\ Own(u)' = Own(u)
      BY <1>2, <1>7, <3>1
    <3>3. /\ my[u].first \in 1..created /\ my[u].last \in my[u].first..created
          /\ \A n \in Own(u) : mNext[n] = IF n = my[u].last THEN null ELSE n + 1
      BY <1>1, <2>1, <3>2 DEF PrivateOK
    <3>4. \A n \in Own(u) : n \in 1..created
      BY <1>1, <3>3 DEF Own
    <3>5. \A n \in Own(u) : n \in Nodes /\ n # p
      BY <1>1, <1>3, <3>4, SharedNodes DEF Shared
    <3>6. QED  BY <1>5, <3>2, <3>3, <3>5
  <2>2. \A u, v \in Threads : u # v => Own(u)' \cap Own(v)' = {}
    BY <1>1, <1>7 DEF PrivateOK
  <2>3. ASSUME NEW n \in Nodes, n > created' PROVE mNext'[n] = null
    <3>1. n # p
      BY <1>1, <1>3, <2>3, SharedNodes
    <3>2. QED  BY <1>1, <1>5, <2>3, <3>1 DEF PrivateOK
  <2>4. QED  BY <2>1, <2>2, <2>3 DEF PrivateOK
<1>12. PICK rank : Ordered(rank)
  BY DEF IInv
<1>13. PICK lifted : lifted = Lifted(rank, p, a, b)
  OBVIOUS
<1>14. rank \in [Nodes -> Int] /\ rank[p] \in Int
  BY <1>3, <1>12 DEF Ordered
<1>15. /\ lifted \in [Nodes -> Int]
       /\ \A n \in a..b : lifted[n] = rank[p] + 1 + (n - a)
       /\ \A n \in Shared : lifted[n] = rank[n]
  <2>1. \A n \in a..b : rank[p] + 1 + (n - a) \in Int
    BY <1>4, <1>14
  <2>2. lifted \in [Nodes -> Int]
    BY <1>14, <1>13, <2>1 DEF Lifted
  <2>3. QED  BY <1>1, <1>4, <1>9, <1>13, <2>2 DEF Lifted
<1>16. ASSUME NEW n \in Shared', mNext'[n] # null
       PROVE  mNext'[n] \in Shared' /\ lifted[n] < lifted[mNext'[n]]
  <2>1. CASE n = p
    <3>1. a \in a..b /\ lifted[a] = rank[p] + 1 + (a - a)
      BY <1>4, <1>15
    <3>2. lifted[p] = rank[p]
      BY <1>3, <1>15
    <3>3. QED  BY <1>4, <1>5, <1>8, <1>14, <2>1, <3>1, <3>2
  <2>2. CASE n \in Shared /\ n # p
    <3>1. mNext'[n] = mNext[n] /\ mNext[n] # null
      BY <1>1, <1>5, <1>16, <2>2
    <3>2. mNext[n] \in Shared /\ rank[n] < rank[mNext[n]]
      BY <1>12, <2>2, <3>1 DEF Ordered
    <3>3. lifted[n] = rank[n] /\ lifted[mNext[n]] = rank[mNext[n]]
      BY <1>15, <2>2, <3>2
    <3>4. QED  BY <1>8, <3>1, <3>2, <3>3
  <2>3. CASE n \in a..b
    <3>1. mNext'[n] = mNext[n] /\ n # p
      BY <1>3, <1>4, <1>5, <1>9, <2>3
    <3>2. mNext[n] = n + 1 /\ n # b
      BY <1>4, <1>16, <2>3, <3>1
    <3>3. n + 1 \in a..b /\ n \in Int
      BY <1>4, <2>3, <3>2
    <3>4. lifted[n] = rank[p] + 1 + (n - a) /\ lifted[n + 1] = rank[p] + 1 + ((n + 1) - a)
      BY <1>15, <2>3, <3>3
    <3>5. lifted[n] < lifted[n + 1]
      BY <1>4, <1>14, <3>3, <3>4
    <3>6. QED  BY <1>8, <3>1, <3>2, <3>3, <3>5
  <2>4. QED  BY <1>8, <2>1, <2>2, <2>3
<1>17. mHead \in Shared /\ lifted[mHead] = rank[mHead]
  BY <1>1, <1>15 DEF TypeOK
<1>18. ASSUME NEW n \in Nodes, mIsOff'[n] PROVE n \in Shared' /\ lifted[n] < lifted[mHead']
  <2>1. n \in Shared /\ rank[n] < rank[mHead]
    BY <1>12, <1>18 DEF Ordered
  <2>2. QED  BY <1>8, <1>15, <1>17, <2>1
<1>19. ASSUME NEW u \in Threads PROVE Standing(my[u], lifted, mHead)'
  <2>1. CASE u = t
    <3>1. m.pc = "move" => m.last \in Shared'
      BY <1>4, <1>6, <1>8
    <3>2. QED  BY <1>2, <2>1, <3>1 DEF Standing
  <2>2. CASE u # t
    <3>1. my'[u] = my[u] /\ Standing(my[u], rank, mHead)
      BY <1>2, <1>12, <2>2 DEF Ordered
    <3>2. \A n \in Shared : n \in Shared' /\ lifted[n] = rank[n]
      BY <1>8, <1>15
    <3>3. QED  BY <1>17, <3>1, <3>2, SMTT(40) DEF Standing
  <2>3. QED  BY <2>1, <2>2
<1>20. Ordered(lifted)'
  BY <1>15, <1>16, <1>18, <1>19 DEF Ordered
<1>21. QED  BY <1>10, <1>11, <1>20 DEF IInv

\* Offer and AddAll link their nodes at the end, or find that it has moved.
LEMMA LinkKeeps == ASSUME IInv, NEW t \in Threads, Link(t) PROVE IInv'
<1>1. my[t].pc = "link" /\ UNCHANGED <<mIsOff, mHead, mTail, created>>
  BY DEF Link, At
<1>2. CASE mNext[my[t].p] = null
  <2>1. mNext' = [mNext EXCEPT ![my[t].p] = my[t].first]
    BY <1>2 DEF Link
  <2>2. PICK pc \in {"return", "move"} : Decides(t, [my[t] EXCEPT !.pc = pc], "true")
    BY <1>2 DEF Link
  <2> DEFINE k == [my[t] EXCEPT !.pc = pc]
  <2>3. DOMAIN k = DOMAIN Idle /\ k.pc = pc /\ k.last = my[t].last
    BY Here
  <2> HIDE DEF k
  <2>4. my' = [my EXCEPT ![t] = Forget(k)]
    BY <2>2 DEF Decides, k
  <2>5. /\ DOMAIN Forget(k) = DOMAIN Idle /\ Forget(k).pc \in {"return", "move"}
        /\ Forget(k).pc = "move" => Forget(k).last = my[t].last
    <3>1. CASE pc = "return"
      BY <2>3, <3>1 DEF Forget, Idle
    <3>2. CASE pc = "move"
      BY <2>3, <3>2 DEF Forget
    <3>3. QED  BY <3>1, <3>2
  <2>6. QED  BY <1>1, <1>2, <2>1, <2>4, <2>5, AppendKeeps
<1>3. CASE mNext[my[t].p] # null
  <2> DEFINE m == [my[t] EXCEPT !.pc = "next"]
  <2>1. Decides(t, m, result[t]) /\ mNext' = mNext
    BY <1>3 DEF Link, Goes
  <2>2. /\ DOMAIN m = DOMAIN Idle /\ m.pc = "next" /\ m.p = my[t].p
        /\ m.first = my[t].first /\ m.last = my[t].last
    BY Here
  <2> HIDE DEF m
  <2>3. Same(m, t)
    BY <1>1, <2>2 DEF Same
  <2>4. ASSUME NEW rank, Ordered(rank) PROVE Standing(m, rank, mHead)
    <3>1. Standing(my[t], rank, mHead)
      BY <2>4, Here
    <3>2. QED  BY <1>1, <2>2, <3>1 DEF Standing
  <2>5. QED  BY <1>1, <2>1, <2>3, <2>4, Here, QuietKeeps
<1>4. QED  BY <1>2, <1>3

-----------------------------------------------------------------------------
(***************************************************************************)
(* The invariant.                                                          *)
(***************************************************************************)
\* The constructor makes a list in the order of its nodes.
LEMMA InitHolds == ASSUME Init PROVE IInv
<1>1. PICK c \in Contents :
        LET n == IF c = <<>> THEN 1 ELSE Len(c) IN
        /\ mItem = [i \in Nodes |-> IF i \in DOMAIN c THEN c[i] ELSE "null"]
        /\ mNext = [i \in Nodes |-> IF i < n THEN i + 1 ELSE null]
        /\ mHead = 1 /\ mTail = n /\ created = n
  BY DEF Init
<1> DEFINE k == IF c = <<>> THEN 1 ELSE Len(c)
<1>2. k \in Nat /\ 1 <= k /\ k <= MaxNodes /\ MaxNodes \in Nat
  <2>1. c \in Seq(Items) /\ Len(c) <= MaxNodes /\ MaxNodes \in Nat \ {0}
    BY QueueAssumption
  <2>2. QED  BY <2>1
<1> HIDE DEF k
<1>3. /\ mNext = [i \in Nodes |-> IF i < k THEN i + 1 ELSE null]
      /\ mHead = 1 /\ mTail = k /\ created = k
  BY <1>1, Zenon DEF k
<1>4. /\ mIsOff = [n \in Nodes |-> FALSE] /\ my = [t \in Threads |-> Idle] /\ Idle.pc = "idle"
  BY DEF Init, Idle
<1>5. (\A t \in Threads : Own(t) = {} /\ my[t] = Idle) /\ Shared = 1..k
  BY <1>3, <1>4 DEF Own, Shared
<1>6. TypeOK
  <2>1. k \in Nodes /\ 1 \in 1..k /\ k \in 1..k
    BY <1>2 DEF Nodes
  <2>2. \A i \in Nodes : i < k => i + 1 \in Nodes
    BY <1>2 DEF Nodes
  <2>3. mNext \in [Nodes -> Nodes \cup {null}]
    BY <1>3, <2>2
  <2>4. mIsOff \in [Nodes -> BOOLEAN]
    BY <1>4
  <2>5. QED  BY <1>3, <1>4, <1>5, <2>1, <2>3, <2>4 DEF TypeOK
<1>7. PrivateOK
  <2>1. \A n \in Nodes : n > created => mNext[n] = null
    BY <1>2, <1>3 DEF Nodes
  <2>2. QED  BY <1>4, <1>5, <2>1 DEF PrivateOK
<1> DEFINE rank == [n \in Nodes |-> n]
<1>8. rank \in [Nodes -> Int] /\ \A n \in Nodes : rank[n] = n
  BY DEF Nodes
<1> HIDE DEF rank
<1>9. ASSUME NEW n \in Shared, mNext[n] # null PROVE mNext[n] \in Shared /\ rank[n] < rank[mNext[n]]
  <2>1. n \in Nodes /\ n \in 1..k
    BY <1>2, <1>5 DEF Nodes
  <2>2. mNext[n] = n + 1 /\ n < k
    BY <1>3, <1>9, <2>1
  <2>3. n + 1 \in 1..k /\ n + 1 \in Nodes
    BY <1>2, <2>1, <2>2 DEF Nodes
  <2>4. QED  BY <1>5, <1>8, <2>1, <2>2, <2>3
<1>10. \A t \in Threads : Standing(my[t], rank, mHead)
  BY <1>4, <1>5 DEF Standing
<1>11. Ordered(rank)
  BY <1>4, <1>8, <1>9, <1>10 DEF Ordered
<1>12. QED  BY <1>6, <1>7, <1>11 DEF IInv

\* Every step keeps the invariant.
LEMMA NextKeeps == ASSUME IInv, [Next]_vars PROVE IInv'
<1>1. ASSUME NEW t \in Threads, Step(t) PROVE IInv'
  BY <1>1, LoadTailKeeps, LoadNextKeeps, LinkKeeps, MoveTailKeeps, ReloadTailKeeps,
     LoadLastNextKeeps, LoadOffKeeps, HopKeeps, LostKeeps, JumpToHeadKeeps, LoadHeadKeeps,
     LoadItemKeeps, TakeItemKeeps, LoadTakenNextKeeps, LoadSuccessorKeeps, CheckOffKeeps,
     CasHeadKeeps, LazySetOffKeeps, VisitKeeps, DropItemKeeps, SuccOffKeeps, SuccKeeps,
     UnlinkKeeps, ReturnKeeps DEF Step
<1>2. ASSUME NEW t \in Threads, NEW c \in Calls, Call(t, c) PROVE IInv'
  BY <1>2, CallKeeps
<1>3. CASE UNCHANGED vars
  BY <1>3 DEF vars, IInv, TypeOK, PrivateOK, Ordered, Standing, Shared, Own
<1>4. QED  BY <1>1, <1>2, <1>3 DEF Next

\* Every call keeps the order of the nodes, whatever the others do in between.
THEOREM QueueInvariant == Spec => []IInv
<1>1. Init => IInv
  BY InitHolds
<1>2. IInv /\ [Next]_vars => IInv'
  BY NextKeeps
<1>3. QED  BY <1>1, <1>2, PTL DEF Spec

\* Links(n) follows the links from n.
LEMMA LinksAre ==
  ASSUME TypeOK, NEW n \in Nodes
  PROVE  /\ Links(n)[1] = n
         /\ \A i \in 2..(MaxNodes + 1) :
               Links(n)[i] = IF Links(n)[i - 1] = null THEN null ELSE mNext[Links(n)[i - 1]]
<1> DEFINE S == Nodes \cup {null}
           st == [z \in S \X (1..MaxNodes) |-> IF z[1] = null THEN null ELSE mNext[z[1]]]
           Eq(f) == f = [i \in 1..(MaxNodes + 1) |->
                           IF i = 1 THEN n ELSE IF f[i - 1] = null THEN null ELSE mNext[f[i - 1]]]
           m == CHOOSE f : Eq(f)
<1>1. MaxNodes \in Nat /\ n \in S
  BY QueueAssumption
<1>2. st \in Steps(S, MaxNodes)
  <2>1. \A z \in S \X (1..MaxNodes) : (IF z[1] = null THEN null ELSE mNext[z[1]]) \in S
    BY DEF TypeOK
  <2>2. QED  BY <2>1 DEF Steps
<1>3. \A x \in S, p \in 1..MaxNodes : st[<<x, p>>] = IF x = null THEN null ELSE mNext[x]
  OBVIOUS
<1>4. PICK g : LoopOf(g, S, MaxNodes, n, st)
  <2> HIDE DEF st, S
  <2>1. QED  BY <1>1, <1>2, Loop
<1>5. /\ g \in [0..MaxNodes -> S] /\ g[0] = n
      /\ \A p \in 1..MaxNodes : g[p] = st[<<g[p - 1], p>>]
  BY <1>4 DEF LoopOf
<1> DEFINE f == [i \in 1..(MaxNodes + 1) |-> g[i - 1]]
<1>6. \A i \in 1..(MaxNodes + 1) : i = 1 \/ (i - 1 \in 1..MaxNodes /\ (i - 1) - 1 \in 0..MaxNodes)
  BY <1>1
<1> HIDE DEF st, S
<1>7. \A p \in 1..MaxNodes : g[p] = IF g[p - 1] = null THEN null ELSE mNext[g[p - 1]]
  <2>1. \A p \in 1..MaxNodes : p - 1 \in 0..MaxNodes
    BY <1>1
  <2>2. \A p \in 1..MaxNodes : g[p - 1] \in S
    BY <1>5, <2>1
  <2>3. QED  BY <1>3, <1>5, <2>2
<1>8. \A i \in 1..(MaxNodes + 1) :
         f[i] = IF i = 1 THEN n ELSE IF f[i - 1] = null THEN null ELSE mNext[f[i - 1]]
  <2>1. ASSUME NEW i \in 1..(MaxNodes + 1), i # 1
        PROVE  f[i] = IF f[i - 1] = null THEN null ELSE mNext[f[i - 1]]
    <3>1. i - 1 \in 1..MaxNodes /\ i - 1 \in 1..(MaxNodes + 1)
      BY <1>1, <2>1
    <3>2. f[i] = g[i - 1] /\ f[i - 1] = g[(i - 1) - 1]
      BY <3>1
    <3>3. QED  BY <1>7, <3>1, <3>2
  <2>2. 1 \in 1..(MaxNodes + 1) /\ 1 - 1 = 0
    BY <1>1
  <2>3. f[1] = n
    BY <1>5, <2>2
  <2>4. QED  BY <2>1, <2>3
<1>9. Eq(f)
  <2>1. f = [i \in 1..(MaxNodes + 1) |-> f[i]]
    OBVIOUS
  <2> HIDE DEF f
  <2>2. QED  BY <1>8, <2>1
<1>10. Eq(m)
  <2> HIDE DEF f
  <2>1. QED  BY <1>9
<1>11. Links(n) = m
  BY DEF Links
<1> HIDE DEF m, f
<1>12. 1 \in 1..(MaxNodes + 1) /\ \A i \in 2..(MaxNodes + 1) : i \in 1..(MaxNodes + 1) /\ i # 1
  BY <1>1
<1>13. QED  BY <1>10, <1>11, <1>12

\* From a node that everybody can reach the links lead to such nodes, and upwards.
LEMMA LinksUp ==
  ASSUME IInv, NEW rank, Ordered(rank), NEW n \in Shared, NEW x \in On(n)
  PROVE  x \in Shared /\ rank[n] <= rank[x]
<1>1. /\ TypeOK /\ Shared \subseteq Nodes /\ null \notin Shared
      /\ MaxNodes \in Nat /\ rank \in [Nodes -> Int]
  BY SharedNodes, QueueAssumption DEF IInv, Ordered
<1> DEFINE f == Links(n)
           Good(y) == y = null \/ (y \in Shared /\ rank[n] <= rank[y])
           Bad == {i \in 1..(MaxNodes + 1) : ~Good(f[i])}
<1>2. /\ f[1] = n
      /\ \A i \in 2..(MaxNodes + 1) : f[i] = IF f[i - 1] = null THEN null ELSE mNext[f[i - 1]]
  BY <1>1, LinksAre
<1> HIDE DEF f
<1>3. ASSUME Bad # {} PROVE FALSE
  <2>1. PICK i \in Bad : \A j \in Bad : i <= j
    <3>1. Bad \in SUBSET Nat
      OBVIOUS
    <3>2. QED  BY <1>3, <3>1, Least
  <2>2. i # 1
    BY <1>1, <1>2, <2>1
  <2>3. i \in 2..(MaxNodes + 1) /\ i - 1 \in 1..(MaxNodes + 1) /\ i - 1 \notin Bad
    BY <1>1, <2>1, <2>2
  <2>4. Good(f[i - 1])
    BY <2>3
  <2>5. f[i] # null /\ f[i - 1] # null /\ f[i] = mNext[f[i - 1]]
    BY <1>2, <2>1, <2>3
  <2>6. f[i - 1] \in Shared /\ rank[n] <= rank[f[i - 1]]
    BY <2>4, <2>5
  <2>7. f[i] \in Shared /\ rank[f[i - 1]] < rank[f[i]]
    BY <2>5, <2>6, LinkUp
  <2>8. rank[n] \in Int /\ rank[f[i - 1]] \in Int /\ rank[f[i]] \in Int
    BY <1>1, <2>6, <2>7
  <2>9. Good(f[i])
    BY <2>6, <2>7, <2>8
  <2>10. QED  BY <2>1, <2>9
<1>4. PICK i \in 1..(MaxNodes + 1) : x = f[i] /\ x # null
  BY DEF On, f
<1>5. QED  BY <1>3, <1>4

\* A node is marked as fallen off only after the head has passed it: no mark is ahead of
\* the head to send Poll, Peek or First back to it for ever.
THEOREM OffCorrect == Spec => []OffBehindHead
<1>1. IInv => OffBehindHead
  <2>1. SUFFICES ASSUME IInv, NEW n \in On(mHead), mIsOff[n] PROVE FALSE
    BY DEF OffBehindHead
  <2>2. PICK rank : Ordered(rank)
    BY <2>1 DEF IInv
  <2>3. mHead \in Shared /\ mHead \in Nodes
    BY <2>1, SharedNodes DEF IInv, TypeOK
  <2>4. n \in Shared /\ rank[mHead] <= rank[n]
    BY <2>1, <2>2, <2>3, LinksUp
  <2>5. n \in Nodes /\ rank[n] < rank[mHead]
    BY <2>1, <2>2, <2>4, SharedNodes DEF IInv, Ordered
  <2>6. rank[n] \in Int /\ rank[mHead] \in Int
    BY <2>2, <2>3, <2>5 DEF Ordered
  <2>7. QED  BY <2>4, <2>5, <2>6
<1>2. QED  BY <1>1, QueueInvariant, PTL
=============================================================================
