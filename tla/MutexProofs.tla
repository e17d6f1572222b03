---------------------------- MODULE MutexProofs ----------------------------
(***************************************************************************)
(* Proofs about the Mutex: for every set of threads, every program they    *)
(* run and every number of spurious wakeups, two threads never hold the    *)
(* mutex at once, mState tells whether it is held, the owner and the       *)
(* recursion count are exact inside every critical section, so are the     *)
(* counts of contenders and waiters, and nobody sleeps on a free mutex     *)
(* with no help on the way.                                                *)
(***************************************************************************)
EXTENDS Mutex, FiniteSetTheorems, TLAPS

USE DEF Goto, mutexVars, condVars, queues, locals

\* The tail of a non-empty sequence of calls is a sequence of calls.
LEMMA Popped ==
  ASSUME TypeOK, NEW t \in Threads, prog[t] # <<>>
  PROVE  [prog EXCEPT ![t] = Tail(@)] \in [Threads -> Seq(Calls)]
<1>1. prog[t] \in Seq(Calls)
  BY DEF TypeOK
<1>2. Tail(prog[t]) \in Seq(Calls)
  BY <1>1
<1>3. QED  BY <1>2 DEF TypeOK

\* A step that leaves mState and the holders alone keeps the mutex exclusive.
LEMMA SameHolders ==
  ASSUME IInv, mState' = mState, \A u \in Threads : Holding(u)' <=> Holding(u)
  PROVE  MutualExclusion' /\ StateMeansHeld'
  BY DEF IInv, MutualExclusion, StateMeansHeld

\* FUTEX_WAKE moves at most one thread, out of the queue and past its wait.
LEMMA WakeMoves ==
  ASSUME TypeOK, NEW q \in SUBSET Threads, NEW w \in WakeOne(q, pc)
  PROVE  /\ w.queue \subseteq q
         /\ w.pcs \in [Threads -> PCs]
         /\ \A u \in Threads : \/ w.pcs[u] = pc[u]
                               \/ u \in q \ w.queue /\ w.pcs[u] = AfterSleep(u)
         /\ \A u \in w.queue : w.pcs[u] = pc[u]
<1>1. CASE q = {}
  BY <1>1 DEF WakeOne, TypeOK
<1>2. CASE q # {}
  <2>1. PICK v \in q : w = [queue |-> q \ {v}, pcs |-> [pc EXCEPT ![v] = AfterSleep(v)]]
    BY <1>2 DEF WakeOne
  <2>2. AfterSleep(v) \in PCs
    BY DEF AfterSleep, PCs
  <2>3. QED  BY <2>1, <2>2 DEF TypeOK
<1>3. QED  BY <1>1, <1>2

\* The thread a FUTEX_WAKE moved held nothing before and holds nothing after.
LEMMA WokenKeeps ==
  ASSUME TypeOK, TypeOK', NEW u \in Threads, OwnerOK(u),
         \/ pc'[u] = pc[u]
         \/ pc[u] \in {"asleep", "cwait"} /\ pc'[u] \in {"uncontend", "load"},
         mExclusiveOwner' = mExclusiveOwner, mRecursionCount' = mRecursionCount,
         depth' = depth
  PROVE  (Holding(u)' <=> Holding(u)) /\ OwnerOK(u)'
<1>1. Holding(u)' <=> Holding(u)
  BY DEF TypeOK, InSection, InCall, Holding
<1>2. OwnerOK(u)'
  BY <1>1 DEF TypeOK, OwnerOK, InSection, InCall, Holding
<1>3. QED  BY <1>1, <1>2


\* Lock keeps the invariant: only the owner counts up, everybody else has depth 0.
LEMMA LockKeeps == ASSUME IInv, NEW t \in Threads, Lock(t) PROVE IInv'
<1>1. TypeOK /\ PlaceOK(t) /\ OwnerOK(t)
  BY DEF IInv
<1>2. TypeOK'
  <2>1. prog' \in [Threads -> Seq(Calls)]
    <3>1. prog' = prog \/ (prog' = [prog EXCEPT ![t] = Tail(@)] /\ prog[t] # <<>>)
      BY <1>1 DEF PlaceOK, Lock, NextCall, Allowed, Return
    <3>2. QED  BY <1>1, <3>1, Popped DEF TypeOK
  <2>2. pc' \in [Threads -> PCs]
    BY <1>1 DEF TypeOK, PCs, Lock, NextCall, Allowed, Return
  <2>3. /\ mState' \in Int /\ mExclusiveOwner' \in Threads \cup {"none"}
        /\ mNumContenders' \in Int /\ mRecursionCount' \in Nat
        /\ mSequence' \in Int /\ mNumWaiters' \in Int
    BY <1>1 DEF TypeOK, PlaceOK, OwnerOK, InSection, InCall, Lock, NextCall, Allowed, Return
  <2>4. /\ mutexQueue' \subseteq Threads /\ condQueue' \subseteq Threads
        /\ inWait' \in [Threads -> BOOLEAN]
    BY <1>1 DEF TypeOK, Lock, NextCall, Allowed, Return
  <2>5. /\ saved' \in [Threads -> Nat] /\ seen' \in [Threads -> Int]
        /\ depth' \in [Threads -> Nat]
    BY <1>1 DEF TypeOK, PlaceOK, OwnerOK, InSection, InCall, Lock, NextCall, Allowed, Return
  <2>6. ready' \in BOOLEAN /\ spurious' \in 0..MaxSpurious
    BY <1>1, MutexAssumption DEF TypeOK, Lock, NextCall, Allowed, Return
  <2>7. QED  BY <2>1, <2>2, <2>3, <2>4, <2>5, <2>6 DEF TypeOK
<1>3. \A u \in Threads : PlaceOK(u)'
  BY <1>1, SMTT(40) DEF IInv, TypeOK, PlaceOK, OwnerOK, InSection, InCall, Holding, Acquiring, Lock,
     NextCall, Allowed, Return
<1>4. \A u \in Threads : Holding(u)' <=> Holding(u)
  BY <1>1, SMTT(40) DEF TypeOK, PlaceOK, OwnerOK, InSection, InCall, Holding, Acquiring, Lock, NextCall,
     Allowed, Return
<1>5. MutualExclusion' /\ StateMeansHeld'
  <2>1. mState' = mState  BY DEF Lock, NextCall, Allowed, Return
  <2>2. QED  BY <1>4, <2>1, SameHolders
<1>6. FreeOK'
  BY <1>1 DEF IInv, TypeOK, FreeOK, StateMeansHeld, Holding, InSection, InCall, PlaceOK,
     OwnerOK, Lock, NextCall, Allowed, Return
<1>7. \A u \in Threads : OwnerOK(u)'
  BY <1>1, MutexAssumption DEF IInv, TypeOK, PlaceOK, OwnerOK, InSection, InCall, Holding,
     Acquiring, MutualExclusion, StateMeansHeld, FreeOK, Lock, NextCall, Allowed, Return
<1>8. QED  BY <1>2, <1>3, <1>5, <1>6, <1>7 DEF IInv

\* LockLoad keeps the invariant: a thread moves inside Lock.
LEMMA LockLoadKeeps == ASSUME IInv, NEW t \in Threads, LockLoad(t) PROVE IInv'
<1>1. TypeOK /\ PlaceOK(t) /\ OwnerOK(t)
  BY DEF IInv
<1>2. TypeOK'
  <2>1. prog' \in [Threads -> Seq(Calls)]
    BY <1>1, Popped DEF TypeOK, PlaceOK, LockLoad
  <2>2. pc' \in [Threads -> PCs]
    BY <1>1 DEF TypeOK, PCs, LockLoad
  <2>3. QED
    BY <1>1, <2>1, <2>2, MutexAssumption DEF TypeOK, PlaceOK, OwnerOK, InSection, InCall, LockLoad
<1>3. \A u \in Threads : PlaceOK(u)'
  BY <1>1 DEF IInv, TypeOK, PlaceOK, OwnerOK, InSection, InCall, Holding, Acquiring, LockLoad
<1>4. \A u \in Threads : Holding(u)' <=> Holding(u)
  BY <1>1 DEF TypeOK, PlaceOK, OwnerOK, InSection, InCall, Holding, Acquiring, LockLoad
<1>5. MutualExclusion' /\ StateMeansHeld'
  <2>1. mState' = mState  BY DEF LockLoad
  <2>2. QED  BY <1>4, <2>1, SameHolders
<1>6. FreeOK'
  BY <1>1 DEF IInv, TypeOK, FreeOK, StateMeansHeld, Holding, InSection, InCall, PlaceOK,
     OwnerOK, LockLoad
<1>7. \A u \in Threads : OwnerOK(u)'
  BY <1>1, MutexAssumption DEF IInv, TypeOK, PlaceOK, OwnerOK, InSection, InCall, Holding,
     Acquiring, MutualExclusion, StateMeansHeld, FreeOK, LockLoad
<1>8. QED  BY <1>2, <1>3, <1>5, <1>6, <1>7 DEF IInv

\* LockCas keeps the invariant: nobody held the mutex when its state was 0.
LEMMA LockCasKeeps == ASSUME IInv, NEW t \in Threads, LockCas(t) PROVE IInv'
<1>1. TypeOK /\ PlaceOK(t) /\ OwnerOK(t)
  BY DEF IInv
<1>2. TypeOK'
  <2>1. prog' \in [Threads -> Seq(Calls)]
    BY <1>1, Popped DEF TypeOK, PlaceOK, LockCas
  <2>2. pc' \in [Threads -> PCs]
    BY <1>1 DEF TypeOK, PCs, LockCas
  <2>3. QED
    BY <1>1, <2>1, <2>2, MutexAssumption DEF TypeOK, PlaceOK, OwnerOK, InSection, InCall, LockCas
<1>3. \A u \in Threads : PlaceOK(u)'
  BY <1>1 DEF IInv, TypeOK, PlaceOK, OwnerOK, InSection, InCall, Holding, Acquiring, LockCas
<1>5. MutualExclusion' /\ StateMeansHeld'
  <2>1. CASE mState = 0
    <3>1. \A u \in Threads : ~Holding(u)
      BY <2>1 DEF IInv, StateMeansHeld
    <3>2. /\ \A u \in Threads : Holding(u)' <=> u = t
          /\ mState' = 1
      BY <1>1, <2>1, <3>1 DEF TypeOK, Holding, InSection, InCall, LockCas
    <3>3. QED  BY <3>2 DEF MutualExclusion, StateMeansHeld
  <2>2. CASE mState # 0
    <3>1. /\ \A u \in Threads : Holding(u)' <=> Holding(u)
          /\ mState' = mState
      BY <1>1, <2>2 DEF TypeOK, Holding, InSection, InCall, LockCas
    <3>2. QED  BY <3>1, SameHolders
  <2>3. QED  BY <2>1, <2>2
<1>6. FreeOK'
  BY <1>1 DEF IInv, TypeOK, FreeOK, StateMeansHeld, Holding, InSection, InCall, PlaceOK,
     OwnerOK, LockCas
<1>7. \A u \in Threads : OwnerOK(u)'
  BY <1>1, MutexAssumption DEF IInv, TypeOK, PlaceOK, OwnerOK, InSection, InCall, Holding,
     Acquiring, MutualExclusion, StateMeansHeld, FreeOK, LockCas
<1>8. QED  BY <1>2, <1>3, <1>5, <1>6, <1>7 DEF IInv

\* LockContend keeps the invariant: a thread moves inside Lock.
LEMMA LockContendKeeps == ASSUME IInv, NEW t \in Threads, LockContend(t) PROVE IInv'
<1>1. TypeOK /\ PlaceOK(t) /\ OwnerOK(t)
  BY DEF IInv
<1>2. TypeOK'
  <2>1. prog' \in [Threads -> Seq(Calls)]
    BY <1>1, Popped DEF TypeOK, PlaceOK, LockContend
  <2>2. pc' \in [Threads -> PCs]
    BY <1>1 DEF TypeOK, PCs, LockContend
  <2>3. QED
    BY <1>1, <2>1, <2>2, MutexAssumption DEF TypeOK, PlaceOK, OwnerOK, InSection, InCall,
       LockContend
<1>3. \A u \in Threads : PlaceOK(u)'
  BY <1>1 DEF IInv, TypeOK, PlaceOK, OwnerOK, InSection, InCall, Holding, Acquiring, LockContend
<1>4. \A u \in Threads : Holding(u)' <=> Holding(u)
  BY <1>1 DEF TypeOK, PlaceOK, OwnerOK, InSection, InCall, Holding, Acquiring, LockContend
<1>5. MutualExclusion' /\ StateMeansHeld'
  <2>1. mState' = mState  BY DEF LockContend
  <2>2. QED  BY <1>4, <2>1, SameHolders
<1>6. FreeOK'
  BY <1>1 DEF IInv, TypeOK, FreeOK, StateMeansHeld, Holding, InSection, InCall, PlaceOK,
     OwnerOK, LockContend
<1>7. \A u \in Threads : OwnerOK(u)'
  BY <1>1, MutexAssumption DEF IInv, TypeOK, PlaceOK, OwnerOK, InSection, InCall, Holding,
     Acquiring, MutualExclusion, StateMeansHeld, FreeOK, LockContend
<1>8. QED  BY <1>2, <1>3, <1>5, <1>6, <1>7 DEF IInv

\* LockFutexWait keeps the invariant: a contender falls asleep or goes back.
LEMMA LockFutexWaitKeeps == ASSUME IInv, NEW t \in Threads, LockFutexWait(t) PROVE IInv'
<1>1. TypeOK /\ PlaceOK(t) /\ OwnerOK(t)
  BY DEF IInv
<1>2. TypeOK'
  <2>1. prog' \in [Threads -> Seq(Calls)]
    BY <1>1, Popped DEF TypeOK, PlaceOK, LockFutexWait
  <2>2. pc' \in [Threads -> PCs]
    BY <1>1 DEF TypeOK, PCs, LockFutexWait
  <2>3. QED
    BY <1>1, <2>1, <2>2, MutexAssumption DEF TypeOK, PlaceOK, OwnerOK, InSection, InCall,
       LockFutexWait
<1>3. \A u \in Threads : PlaceOK(u)'
  BY <1>1, SMTT(40) DEF IInv, TypeOK, PlaceOK, OwnerOK, InSection, InCall, Holding, Acquiring, LockFutexWait
<1>4. \A u \in Threads : Holding(u)' <=> Holding(u)
  BY <1>1 DEF TypeOK, PlaceOK, OwnerOK, InSection, InCall, Holding, Acquiring, LockFutexWait
<1>5. MutualExclusion' /\ StateMeansHeld'
  <2>1. mState' = mState  BY DEF LockFutexWait
  <2>2. QED  BY <1>4, <2>1, SameHolders
<1>6. FreeOK'
  BY <1>1 DEF IInv, TypeOK, FreeOK, StateMeansHeld, Holding, InSection, InCall, PlaceOK,
     OwnerOK, LockFutexWait
<1>7. \A u \in Threads : OwnerOK(u)'
  BY <1>1, MutexAssumption DEF IInv, TypeOK, PlaceOK, OwnerOK, InSection, InCall, Holding,
     Acquiring, MutualExclusion, StateMeansHeld, FreeOK, LockFutexWait
<1>8. QED  BY <1>2, <1>3, <1>5, <1>6, <1>7 DEF IInv

\* LockUncontend keeps the invariant: a thread moves inside Lock.
LEMMA LockUncontendKeeps == ASSUME IInv, NEW t \in Threads, LockUncontend(t) PROVE IInv'
<1>1. TypeOK /\ PlaceOK(t) /\ OwnerOK(t)
  BY DEF IInv
<1>2. TypeOK'
  <2>1. prog' \in [Threads -> Seq(Calls)]
    BY <1>1, Popped DEF TypeOK, PlaceOK, LockUncontend
  <2>2. pc' \in [Threads -> PCs]
    BY <1>1 DEF TypeOK, PCs, LockUncontend
  <2>3. QED
    BY <1>1, <2>1, <2>2, MutexAssumption DEF TypeOK, PlaceOK, OwnerOK, InSection, InCall,
       LockUncontend
<1>3. \A u \in Threads : PlaceOK(u)'
  BY <1>1 DEF IInv, TypeOK, PlaceOK, OwnerOK, InSection, InCall, Holding, Acquiring, LockUncontend
<1>4. \A u \in Threads : Holding(u)' <=> Holding(u)
  BY <1>1 DEF TypeOK, PlaceOK, OwnerOK, InSection, InCall, Holding, Acquiring, LockUncontend
<1>5. MutualExclusion' /\ StateMeansHeld'
  <2>1. mState' = mState  BY DEF LockUncontend
  <2>2. QED  BY <1>4, <2>1, SameHolders
<1>6. FreeOK'
  BY <1>1 DEF IInv, TypeOK, FreeOK, StateMeansHeld, Holding, InSection, InCall, PlaceOK,
     OwnerOK, LockUncontend
<1>7. \A u \in Threads : OwnerOK(u)'
  BY <1>1, MutexAssumption DEF IInv, TypeOK, PlaceOK, OwnerOK, InSection, InCall, Holding,
     Acquiring, MutualExclusion, StateMeansHeld, FreeOK, LockUncontend
<1>8. QED  BY <1>2, <1>3, <1>5, <1>6, <1>7 DEF IInv

\* LockOwn keeps the invariant: the count was 0, so it becomes 1, or is about to be restored.
LEMMA LockOwnKeeps == ASSUME IInv, NEW t \in Threads, LockOwn(t) PROVE IInv'
<1>1. TypeOK /\ PlaceOK(t) /\ OwnerOK(t)
  BY DEF IInv
<1>2. TypeOK'
  <2>1. prog' \in [Threads -> Seq(Calls)]
    <3>1. prog' = prog \/ (prog' = [prog EXCEPT ![t] = Tail(@)] /\ prog[t] # <<>>)
      BY <1>1 DEF PlaceOK, LockOwn, Return
    <3>2. QED  BY <1>1, <3>1, Popped DEF TypeOK
  <2>2. pc' \in [Threads -> PCs]
    BY <1>1 DEF TypeOK, PCs, LockOwn, Return
  <2>3. /\ mState' \in Int /\ mExclusiveOwner' \in Threads \cup {"none"}
        /\ mNumContenders' \in Int /\ mRecursionCount' \in Nat
        /\ mSequence' \in Int /\ mNumWaiters' \in Int
    BY <1>1 DEF TypeOK, PlaceOK, OwnerOK, InSection, InCall, LockOwn, Return
  <2>4. /\ mutexQueue' \subseteq Threads /\ condQueue' \subseteq Threads
        /\ inWait' \in [Threads -> BOOLEAN]
    BY <1>1 DEF TypeOK, LockOwn, Return
  <2>5. /\ saved' \in [Threads -> Nat] /\ seen' \in [Threads -> Int]
        /\ depth' \in [Threads -> Nat]
    BY <1>1, SMTT(40) DEF TypeOK, PlaceOK, OwnerOK, InSection, InCall, LockOwn, Return
  <2>6. ready' \in BOOLEAN /\ spurious' \in 0..MaxSpurious
    BY <1>1, MutexAssumption DEF TypeOK, LockOwn, Return
  <2>7. QED  BY <2>1, <2>2, <2>3, <2>4, <2>5, <2>6 DEF TypeOK
<1>3. \A u \in Threads : PlaceOK(u)'
  BY <1>1 DEF IInv, TypeOK, PlaceOK, OwnerOK, InSection, InCall, Holding, Acquiring, LockOwn,
     Return
<1>4. \A u \in Threads : Holding(u)' <=> Holding(u)
  BY <1>1 DEF TypeOK, PlaceOK, OwnerOK, InSection, InCall, Holding, Acquiring, LockOwn, Return
<1>5. MutualExclusion' /\ StateMeansHeld'
  <2>1. mState' = mState  BY DEF LockOwn, Return
  <2>2. QED  BY <1>4, <2>1, SameHolders
<1>6. FreeOK'
  BY <1>1 DEF IInv, TypeOK, FreeOK, StateMeansHeld, Holding, InSection, InCall, PlaceOK,
     OwnerOK, LockOwn, Return
<1>7. \A u \in Threads : OwnerOK(u)'
  BY <1>1, MutexAssumption DEF IInv, TypeOK, PlaceOK, OwnerOK, InSection, InCall, Holding,
     Acquiring, MutualExclusion, StateMeansHeld, FreeOK, LockOwn, Return
<1>8. QED  BY <1>2, <1>3, <1>5, <1>6, <1>7 DEF IInv

\* Unlock keeps the invariant: only the last Unlock starts to release.
LEMMA UnlockKeeps == ASSUME IInv, NEW t \in Threads, Unlock(t) PROVE IInv'
<1>1. TypeOK /\ PlaceOK(t) /\ OwnerOK(t)
  BY DEF IInv
<1>2. TypeOK'
  <2>1. prog' \in [Threads -> Seq(Calls)]
    <3>1. prog' = prog \/ (prog' = [prog EXCEPT ![t] = Tail(@)] /\ prog[t] # <<>>)
      BY <1>1 DEF PlaceOK, Unlock, NextCall, Allowed, Return
    <3>2. QED  BY <1>1, <3>1, Popped DEF TypeOK
  <2>2. pc' \in [Threads -> PCs]
    BY <1>1 DEF TypeOK, PCs, Unlock, NextCall, Allowed, Return
  <2>3. /\ mState' \in Int /\ mExclusiveOwner' \in Threads \cup {"none"}
        /\ mNumContenders' \in Int /\ mRecursionCount' \in Nat
        /\ mSequence' \in Int /\ mNumWaiters' \in Int
    BY <1>1 DEF TypeOK, PlaceOK, OwnerOK, InSection, InCall, Unlock, NextCall, Allowed, Return
  <2>4. /\ mutexQueue' \subseteq Threads /\ condQueue' \subseteq Threads
        /\ inWait' \in [Threads -> BOOLEAN]
    BY <1>1 DEF TypeOK, Unlock, NextCall, Allowed, Return
  <2>8. depth[t] \in Nat /\ depth[t] > 0 /\ depth[t] - 1 \in Nat
    BY <1>1 DEF TypeOK, Unlock, NextCall, Allowed
  <2>9. depth' = depth \/ depth' = [depth EXCEPT ![t] = @ - 1]
    BY DEF Unlock
  <2>5. /\ saved' \in [Threads -> Nat] /\ seen' \in [Threads -> Int]
        /\ depth' \in [Threads -> Nat]
    BY <2>8, <2>9, <1>1 DEF TypeOK, PlaceOK, OwnerOK, InSection, InCall, Unlock, NextCall,
       Allowed, Return
  <2>6. ready' \in BOOLEAN /\ spurious' \in 0..MaxSpurious
    BY <1>1, MutexAssumption DEF TypeOK, Unlock, NextCall, Allowed, Return
  <2>7. QED  BY <2>1, <2>2, <2>3, <2>4, <2>5, <2>6 DEF TypeOK
<1>3. \A u \in Threads : PlaceOK(u)'
  BY <1>1 DEF IInv, TypeOK, PlaceOK, OwnerOK, InSection, InCall, Holding, Acquiring, Unlock,
     NextCall, Allowed, Return
<1>4. \A u \in Threads : Holding(u)' <=> Holding(u)
  BY <1>1 DEF TypeOK, PlaceOK, OwnerOK, InSection, InCall, Holding, Acquiring, Unlock, NextCall,
     Allowed, Return
<1>5. MutualExclusion' /\ StateMeansHeld'
  <2>1. mState' = mState  BY DEF Unlock, NextCall, Allowed, Return
  <2>2. QED  BY <1>4, <2>1, SameHolders
<1>6. FreeOK'
  BY <1>1 DEF IInv, TypeOK, FreeOK, StateMeansHeld, Holding, InSection, InCall, PlaceOK,
     OwnerOK, Unlock, NextCall, Allowed, Return
<1>7. \A u \in Threads : OwnerOK(u)'
  BY <1>1, MutexAssumption DEF IInv, TypeOK, PlaceOK, OwnerOK, InSection, InCall, Holding,
     Acquiring, MutualExclusion, StateMeansHeld, FreeOK, Unlock, NextCall, Allowed, Return
<1>8. QED  BY <1>2, <1>3, <1>5, <1>6, <1>7 DEF IInv

\* UnlockLoad keeps the invariant: the releasing thread is still the only holder.
LEMMA UnlockLoadKeeps == ASSUME IInv, NEW t \in Threads, UnlockLoad(t) PROVE IInv'
<1>1. TypeOK /\ PlaceOK(t) /\ OwnerOK(t)
  BY DEF IInv
<1>2. TypeOK'
  <2>1. prog' \in [Threads -> Seq(Calls)]
    BY <1>1, Popped DEF TypeOK, PlaceOK, UnlockLoad
  <2>2. pc' \in [Threads -> PCs]
    BY <1>1 DEF TypeOK, PCs, UnlockLoad
  <2>3. QED
    BY <1>1, <2>1, <2>2, MutexAssumption DEF TypeOK, PlaceOK, OwnerOK, InSection, InCall,
       UnlockLoad
<1>3. \A u \in Threads : PlaceOK(u)'
  BY <1>1 DEF IInv, TypeOK, PlaceOK, OwnerOK, InSection, InCall, Holding, Acquiring, UnlockLoad
<1>4. \A u \in Threads : Holding(u)' <=> Holding(u)
  BY <1>1 DEF TypeOK, PlaceOK, OwnerOK, InSection, InCall, Holding, Acquiring, UnlockLoad
<1>5. MutualExclusion' /\ StateMeansHeld'
  <2>1. mState' = mState  BY DEF UnlockLoad
  <2>2. QED  BY <1>4, <2>1, SameHolders
<1>6. FreeOK'
  BY <1>1 DEF IInv, TypeOK, FreeOK, StateMeansHeld, Holding, InSection, InCall, PlaceOK,
     OwnerOK, UnlockLoad
<1>7. \A u \in Threads : OwnerOK(u)'
  BY <1>1, MutexAssumption DEF IInv, TypeOK, PlaceOK, OwnerOK, InSection, InCall, Holding,
     Acquiring, MutualExclusion, StateMeansHeld, FreeOK, UnlockLoad
<1>8. QED  BY <1>2, <1>3, <1>5, <1>6, <1>7 DEF IInv

\* UnlockCas keeps the invariant: the only holder lets go.
LEMMA UnlockCasKeeps == ASSUME IInv, NEW t \in Threads, UnlockCas(t) PROVE IInv'
<1>1. TypeOK /\ PlaceOK(t) /\ OwnerOK(t)
  BY DEF IInv
<1>2. TypeOK'
  <2>1. prog' \in [Threads -> Seq(Calls)]
    <3>1. prog' = prog \/ (prog' = [prog EXCEPT ![t] = Tail(@)] /\ prog[t] # <<>>)
      BY <1>1 DEF PlaceOK, UnlockCas
    <3>2. QED  BY <1>1, <3>1, Popped DEF TypeOK
  <2>2. pc' \in [Threads -> PCs]
    BY <1>1 DEF TypeOK, PCs, UnlockCas
  <2>3. /\ mState' \in Int /\ mExclusiveOwner' \in Threads \cup {"none"}
        /\ mNumContenders' \in Int /\ mRecursionCount' \in Nat
        /\ mSequence' \in Int /\ mNumWaiters' \in Int
    BY <1>1 DEF TypeOK, PlaceOK, OwnerOK, InSection, InCall, UnlockCas
  <2>4. /\ mutexQueue' \subseteq Threads /\ condQueue' \subseteq Threads
        /\ inWait' \in [Threads -> BOOLEAN]
    BY <1>1 DEF TypeOK, UnlockCas
  <2>5. /\ saved' \in [Threads -> Nat] /\ seen' \in [Threads -> Int]
        /\ depth' \in [Threads -> Nat]
    BY <1>1 DEF TypeOK, PlaceOK, OwnerOK, InSection, InCall, UnlockCas
  <2>6. ready' \in BOOLEAN /\ spurious' \in 0..MaxSpurious
    BY <1>1, MutexAssumption DEF TypeOK, UnlockCas
  <2>7. QED  BY <2>1, <2>2, <2>3, <2>4, <2>5, <2>6 DEF TypeOK
<1>3. \A u \in Threads : PlaceOK(u)'
  BY <1>1 DEF IInv, TypeOK, PlaceOK, OwnerOK, InSection, InCall, Holding, Acquiring, UnlockCas
<1>4. mState = 1 /\ \A u \in Threads : Holding(u) => u = t
  BY <1>1 DEF IInv, MutualExclusion, StateMeansHeld, Holding, UnlockCas
<1>9. /\ \A u \in Threads : ~Holding(u)'
       /\ mState' = 0
  BY <1>1, <1>4 DEF TypeOK, PlaceOK, Holding, InSection, InCall, UnlockCas
<1>5. MutualExclusion' /\ StateMeansHeld'
  BY <1>9 DEF MutualExclusion, StateMeansHeld
<1>6. FreeOK'
  BY <1>1 DEF IInv, TypeOK, FreeOK, StateMeansHeld, Holding, InSection, InCall, PlaceOK,
     OwnerOK, UnlockCas
<1>7. \A u \in Threads : OwnerOK(u)'
  BY <1>1, MutexAssumption DEF IInv, TypeOK, PlaceOK, OwnerOK, InSection, InCall, Holding,
     Acquiring, MutualExclusion, StateMeansHeld, FreeOK, UnlockCas
<1>8. QED  BY <1>2, <1>3, <1>5, <1>6, <1>7 DEF IInv

\* UnlockCheck keeps the invariant: a thread that holds nothing moves.
LEMMA UnlockCheckKeeps == ASSUME IInv, NEW t \in Threads, UnlockCheck(t) PROVE IInv'
<1>1. TypeOK /\ PlaceOK(t) /\ OwnerOK(t)
  BY DEF IInv
<1>2. TypeOK'
  <2>1. prog' \in [Threads -> Seq(Calls)]
    <3>1. prog' = prog \/ (prog' = [prog EXCEPT ![t] = Tail(@)] /\ prog[t] # <<>>)
      BY <1>1 DEF PlaceOK, UnlockCheck, UnlockReturn
    <3>2. QED  BY <1>1, <3>1, Popped DEF TypeOK
  <2>2. pc' \in [Threads -> PCs]
    BY <1>1 DEF TypeOK, PCs, UnlockCheck, UnlockReturn
  <2>3. QED
    BY <1>1, <2>1, <2>2, MutexAssumption DEF TypeOK, PlaceOK, OwnerOK, InSection, InCall,
       UnlockCheck, UnlockReturn
<1>3. \A u \in Threads : PlaceOK(u)'
  BY <1>1 DEF IInv, TypeOK, PlaceOK, OwnerOK, InSection, InCall, Holding, Acquiring,
     UnlockCheck, UnlockReturn
<1>4. \A u \in Threads : Holding(u)' <=> Holding(u)
  BY <1>1 DEF TypeOK, PlaceOK, OwnerOK, InSection, InCall, Holding, Acquiring, UnlockCheck,
     UnlockReturn
<1>5. MutualExclusion' /\ StateMeansHeld'
  <2>1. mState' = mState  BY DEF UnlockCheck, UnlockReturn
  <2>2. QED  BY <1>4, <2>1, SameHolders
<1>6. FreeOK'
  BY <1>1 DEF IInv, TypeOK, FreeOK, StateMeansHeld, Holding, InSection, InCall, PlaceOK,
     OwnerOK, UnlockCheck, UnlockReturn
<1>7. \A u \in Threads : OwnerOK(u)'
  BY <1>1, MutexAssumption, SMTT(40) DEF IInv, TypeOK, PlaceOK, OwnerOK, InSection, InCall, Holding,
     Acquiring, MutualExclusion, StateMeansHeld, FreeOK, UnlockCheck, UnlockReturn
<1>8. QED  BY <1>2, <1>3, <1>5, <1>6, <1>7 DEF IInv

\* UnlockWake keeps the invariant: neither the waker nor the woken thread holds the mutex.
LEMMA UnlockWakeKeeps == ASSUME IInv, NEW t \in Threads, UnlockWake(t) PROVE IInv'
<1>1. TypeOK /\ PlaceOK(t) /\ OwnerOK(t)
  BY DEF IInv
<1>10. PICK w \in WakeOne(mutexQueue, pc) : mutexQueue' = w.queue /\ UnlockReturn(t, w.pcs)
  BY DEF UnlockWake
<1>11. /\ w.queue \subseteq mutexQueue
       /\ w.pcs \in [Threads -> PCs]
       /\ \A u \in Threads : \/ w.pcs[u] = pc[u]
                             \/ u \in mutexQueue \ w.queue /\ w.pcs[u] = AfterSleep(u)
       /\ \A u \in w.queue : w.pcs[u] = pc[u]
  <2>1. mutexQueue \in SUBSET Threads  BY <1>1 DEF TypeOK
  <2>2. QED  BY <1>1, <2>1, WakeMoves
<1>12. \A u \in mutexQueue : pc[u] \in {"asleep", "cwait"} /\ u # t
  BY <1>1 DEF IInv, PlaceOK, TypeOK, UnlockWake
<1>13. /\ \A u \in Threads \ {t} : pc'[u] = w.pcs[u]
       /\ pc'[t] \in {"cwait", "run"}
       /\ pc'[t] = "cwait" <=> inWait[t]
       /\ \A u \in Threads : \/ pc'[u] = pc[u]
                             \/ u = t
                             \/ pc[u] \in {"asleep", "cwait"} /\ pc'[u] \in {"uncontend", "load"}
  BY <1>10, <1>11, <1>12, <1>1 DEF IInv, TypeOK, PlaceOK, InCall, UnlockWake, UnlockReturn,
     AfterSleep
<1>14. pc[t] = "uwake" /\ UNCHANGED <<mState, mExclusiveOwner, mRecursionCount, depth>>
  BY DEF UnlockWake
<1>2. TypeOK'
  <2>1. prog' \in [Threads -> Seq(Calls)]
    <3>1. prog' = prog \/ (prog' = [prog EXCEPT ![t] = Tail(@)] /\ prog[t] # <<>>)
      BY <1>10, <1>11, <1>12, <1>13, <1>1 DEF PlaceOK, UnlockWake, UnlockReturn, AfterSleep
    <3>2. QED  BY <1>1, <3>1, Popped DEF TypeOK
  <2>2. pc' \in [Threads -> PCs]
    BY <1>10, <1>11, <1>1, ZenonT(60) DEF TypeOK, PCs, UnlockReturn
  <2>3. /\ mState' \in Int /\ mExclusiveOwner' \in Threads \cup {"none"}
        /\ mNumContenders' \in Int /\ mRecursionCount' \in Nat
        /\ mSequence' \in Int /\ mNumWaiters' \in Int
    BY <1>10, <1>11, <1>12, <1>13, <1>1 DEF TypeOK, PlaceOK, OwnerOK, InSection, InCall,
       UnlockWake, UnlockReturn, AfterSleep
  <2>4. /\ mutexQueue' \subseteq Threads /\ condQueue' \subseteq Threads
        /\ inWait' \in [Threads -> BOOLEAN]
    BY <1>10, <1>11, <1>12, <1>13, <1>1 DEF TypeOK, UnlockWake, UnlockReturn, AfterSleep
  <2>5. /\ saved' \in [Threads -> Nat] /\ seen' \in [Threads -> Int]
        /\ depth' \in [Threads -> Nat]
    BY <1>10, <1>11, <1>12, <1>13, <1>1 DEF TypeOK, PlaceOK, OwnerOK, InSection, InCall,
       UnlockWake, UnlockReturn, AfterSleep
  <2>6. ready' \in BOOLEAN /\ spurious' \in 0..MaxSpurious
    BY <1>10, <1>11, <1>12, <1>13, <1>1, MutexAssumption DEF TypeOK, UnlockWake, UnlockReturn,
       AfterSleep
  <2>7. QED  BY <2>1, <2>2, <2>3, <2>4, <2>5, <2>6 DEF TypeOK
<1>3. \A u \in Threads : PlaceOK(u)'
  BY <1>10, <1>11, <1>12, <1>13, <1>1, SMTT(40) DEF IInv, TypeOK, PlaceOK, OwnerOK, InSection, InCall,
     Holding, Acquiring, UnlockWake, UnlockReturn, AfterSleep
<1>15. \A u \in Threads : (Holding(u)' <=> Holding(u)) /\ OwnerOK(u)'
  <2> TAKE u \in Threads
  <2>1. OwnerOK(u)  BY DEF IInv
  <2>2. CASE u = t
    <3>1. Holding(t)' <=> Holding(t)
      BY <1>13, <1>14, <1>1, SMTT(40) DEF TypeOK, PlaceOK, InSection, InCall, Holding
    <3>2. OwnerOK(t)'
      BY <1>13, <1>14, <1>1, <3>1 DEF TypeOK, PlaceOK, OwnerOK, InSection, InCall, Holding
    <3>3. QED  BY <2>2, <3>1, <3>2
  <2>3. CASE u # t
    <3>1. \/ pc'[u] = pc[u]
          \/ pc[u] \in {"asleep", "cwait"} /\ pc'[u] \in {"uncontend", "load"}
      BY <1>13, <2>3
    <3>2. QED  BY <1>1, <1>2, <1>14, <2>1, <3>1, WokenKeeps
  <2>4. QED  BY <2>2, <2>3
<1>4. \A u \in Threads : Holding(u)' <=> Holding(u)
  BY <1>15
<1>5. MutualExclusion' /\ StateMeansHeld'
  <2>1. mState' = mState  BY DEF UnlockWake, UnlockReturn, AfterSleep
  <2>2. QED  BY <1>4, <2>1, SameHolders
<1>6. FreeOK'
  BY <1>10, <1>11, <1>12, <1>13, <1>1 DEF IInv, TypeOK, FreeOK, StateMeansHeld, Holding,
     InSection, InCall, PlaceOK, OwnerOK, UnlockWake, UnlockReturn, AfterSleep
<1>7. \A u \in Threads : OwnerOK(u)'
  BY <1>15
<1>8. QED  BY <1>2, <1>3, <1>5, <1>6, <1>7 DEF IInv

\* AwaitDone keeps the invariant: the call returns in the critical section.
LEMMA AwaitDoneKeeps == ASSUME IInv, NEW t \in Threads, AwaitDone(t) PROVE IInv'
<1>1. TypeOK /\ PlaceOK(t) /\ OwnerOK(t)
  BY DEF IInv
<1>2. TypeOK'
  <2>1. prog' \in [Threads -> Seq(Calls)]
    BY <1>1, Popped DEF TypeOK, PlaceOK, AwaitDone, NextCall, Allowed, Return
  <2>2. pc' \in [Threads -> PCs]
    BY <1>1 DEF TypeOK, PCs, AwaitDone, NextCall, Allowed, Return
  <2>3. QED
    BY <1>1, <2>1, <2>2, MutexAssumption DEF TypeOK, PlaceOK, OwnerOK, InSection, InCall,
       AwaitDone, NextCall, Allowed, Return
<1>3. \A u \in Threads : PlaceOK(u)'
  BY <1>1 DEF IInv, TypeOK, PlaceOK, OwnerOK, InSection, InCall, Holding, Acquiring, AwaitDone,
     NextCall, Allowed, Return
<1>4. \A u \in Threads : Holding(u)' <=> Holding(u)
  BY <1>1 DEF TypeOK, PlaceOK, OwnerOK, InSection, InCall, Holding, Acquiring, AwaitDone,
     NextCall, Allowed, Return
<1>5. MutualExclusion' /\ StateMeansHeld'
  <2>1. mState' = mState  BY DEF AwaitDone, NextCall, Allowed, Return
  <2>2. QED  BY <1>4, <2>1, SameHolders
<1>6. FreeOK'
  BY <1>1 DEF IInv, TypeOK, FreeOK, StateMeansHeld, Holding, InSection, InCall, PlaceOK,
     OwnerOK, AwaitDone, NextCall, Allowed, Return
<1>7. \A u \in Threads : OwnerOK(u)'
  BY <1>1, MutexAssumption DEF IInv, TypeOK, PlaceOK, OwnerOK, InSection, InCall, Holding,
     Acquiring, MutualExclusion, StateMeansHeld, FreeOK, AwaitDone, NextCall, Allowed, Return
<1>8. QED  BY <1>2, <1>3, <1>5, <1>6, <1>7 DEF IInv

\* Wait keeps the invariant: the depth is saved, the count becomes 1.
LEMMA WaitKeeps == ASSUME IInv, NEW t \in Threads, Wait(t) PROVE IInv'
<1>1. TypeOK /\ PlaceOK(t) /\ OwnerOK(t)
  BY DEF IInv
<1>2. TypeOK'
  <2>1. prog' \in [Threads -> Seq(Calls)]
    BY <1>1, Popped DEF TypeOK, PlaceOK, Wait, NextCall, Allowed
  <2>2. pc' \in [Threads -> PCs]
    BY <1>1 DEF TypeOK, PCs, Wait, NextCall, Allowed
  <2>3. QED
    BY <1>1, <2>1, <2>2, MutexAssumption DEF TypeOK, PlaceOK, OwnerOK, InSection, InCall,
       Wait, NextCall, Allowed
<1>3. \A u \in Threads : PlaceOK(u)'
  BY <1>1 DEF IInv, TypeOK, PlaceOK, OwnerOK, InSection, InCall, Holding, Acquiring, Wait,
     NextCall, Allowed
<1>4. \A u \in Threads : Holding(u)' <=> Holding(u)
  BY <1>1 DEF TypeOK, PlaceOK, OwnerOK, InSection, InCall, Holding, Acquiring, Wait, NextCall,
     Allowed
<1>5. MutualExclusion' /\ StateMeansHeld'
  <2>1. mState' = mState  BY DEF Wait, NextCall, Allowed
  <2>2. QED  BY <1>4, <2>1, SameHolders
<1>6. FreeOK'
  BY <1>1 DEF IInv, TypeOK, FreeOK, StateMeansHeld, Holding, InSection, InCall, PlaceOK,
     OwnerOK, Wait, NextCall, Allowed
<1>7. \A u \in Threads : OwnerOK(u)'
  BY <1>1, MutexAssumption DEF IInv, TypeOK, PlaceOK, OwnerOK, InSection, InCall, Holding,
     Acquiring, MutualExclusion, StateMeansHeld, FreeOK, Wait, NextCall, Allowed
<1>8. QED  BY <1>2, <1>3, <1>5, <1>6, <1>7 DEF IInv

\* WaitSequence keeps the invariant: with a count of 1 the Unlock of Wait always releases.
LEMMA WaitSequenceKeeps == ASSUME IInv, NEW t \in Threads, WaitSequence(t) PROVE IInv'
<1>1. TypeOK /\ PlaceOK(t) /\ OwnerOK(t)
  BY DEF IInv
<1>2. TypeOK'
  <2>1. prog' \in [Threads -> Seq(Calls)]
    BY <1>1, Popped DEF TypeOK, PlaceOK, WaitSequence
  <2>2. pc' \in [Threads -> PCs]
    BY <1>1 DEF TypeOK, PCs, WaitSequence
  <2>3. QED
    BY <1>1, <2>1, <2>2, MutexAssumption DEF TypeOK, PlaceOK, OwnerOK, InSection, InCall,
       WaitSequence
<1>3. \A u \in Threads : PlaceOK(u)'
  BY <1>1 DEF IInv, TypeOK, PlaceOK, OwnerOK, InSection, InCall, Holding, Acquiring, WaitSequence
<1>4. \A u \in Threads : Holding(u)' <=> Holding(u)
  BY <1>1 DEF TypeOK, PlaceOK, OwnerOK, InSection, InCall, Holding, Acquiring, WaitSequence
<1>5. MutualExclusion' /\ StateMeansHeld'
  <2>1. mState' = mState  BY DEF WaitSequence
  <2>2. QED  BY <1>4, <2>1, SameHolders
<1>6. FreeOK'
  BY <1>1 DEF IInv, TypeOK, FreeOK, StateMeansHeld, Holding, InSection, InCall, PlaceOK,
     OwnerOK, WaitSequence
<1>7. \A u \in Threads : OwnerOK(u)'
  BY <1>1, MutexAssumption DEF IInv, TypeOK, PlaceOK, OwnerOK, InSection, InCall, Holding,
     Acquiring, MutualExclusion, StateMeansHeld, FreeOK, WaitSequence
<1>8. QED  BY <1>2, <1>3, <1>5, <1>6, <1>7 DEF IInv

\* WaitFutex keeps the invariant: a waiter falls asleep or starts to lock.
LEMMA WaitFutexKeeps == ASSUME IInv, NEW t \in Threads, WaitFutex(t) PROVE IInv'
<1>1. TypeOK /\ PlaceOK(t) /\ OwnerOK(t)
  BY DEF IInv
<1>2. TypeOK'
  <2>1. prog' \in [Threads -> Seq(Calls)]
    BY <1>1, Popped DEF TypeOK, PlaceOK, WaitFutex
  <2>2. pc' \in [Threads -> PCs]
    BY <1>1 DEF TypeOK, PCs, WaitFutex
  <2>3. QED
    BY <1>1, <2>1, <2>2, MutexAssumption DEF TypeOK, PlaceOK, OwnerOK, InSection, InCall,
       WaitFutex
<1>3. \A u \in Threads : PlaceOK(u)'
  BY <1>1 DEF IInv, TypeOK, PlaceOK, OwnerOK, InSection, InCall, Holding, Acquiring, WaitFutex
<1>4. \A u \in Threads : Holding(u)' <=> Holding(u)
  BY <1>1 DEF TypeOK, PlaceOK, OwnerOK, InSection, InCall, Holding, Acquiring, WaitFutex
<1>5. MutualExclusion' /\ StateMeansHeld'
  <2>1. mState' = mState  BY DEF WaitFutex
  <2>2. QED  BY <1>4, <2>1, SameHolders
<1>6. FreeOK'
  BY <1>1 DEF IInv, TypeOK, FreeOK, StateMeansHeld, Holding, InSection, InCall, PlaceOK,
     OwnerOK, WaitFutex
<1>7. \A u \in Threads : OwnerOK(u)'
  BY <1>1, MutexAssumption DEF IInv, TypeOK, PlaceOK, OwnerOK, InSection, InCall, Holding,
     Acquiring, MutualExclusion, StateMeansHeld, FreeOK, WaitFutex
<1>8. QED  BY <1>2, <1>3, <1>5, <1>6, <1>7 DEF IInv

\* WaitReturn keeps the invariant: the saved count is the depth.
LEMMA WaitReturnKeeps == ASSUME IInv, NEW t \in Threads, WaitReturn(t) PROVE IInv'
<1>1. TypeOK /\ PlaceOK(t) /\ OwnerOK(t)
  BY DEF IInv
<1>2. TypeOK'
  <2>1. prog' \in [Threads -> Seq(Calls)]
    BY <1>1, Popped DEF TypeOK, PlaceOK, WaitReturn
  <2>2. pc' \in [Threads -> PCs]
    BY <1>1 DEF TypeOK, PCs, WaitReturn
  <2>3. QED
    BY <1>1, <2>1, <2>2, MutexAssumption DEF TypeOK, PlaceOK, OwnerOK, InSection, InCall,
       WaitReturn
<1>3. \A u \in Threads : PlaceOK(u)'
  BY <1>1 DEF IInv, TypeOK, PlaceOK, OwnerOK, InSection, InCall, Holding, Acquiring, WaitReturn
<1>4. \A u \in Threads : Holding(u)' <=> Holding(u)
  BY <1>1 DEF TypeOK, PlaceOK, OwnerOK, InSection, InCall, Holding, Acquiring, WaitReturn
<1>5. MutualExclusion' /\ StateMeansHeld'
  <2>1. mState' = mState  BY DEF WaitReturn
  <2>2. QED  BY <1>4, <2>1, SameHolders
<1>6. FreeOK'
  BY <1>1 DEF IInv, TypeOK, FreeOK, StateMeansHeld, Holding, InSection, InCall, PlaceOK,
     OwnerOK, WaitReturn
<1>7. \A u \in Threads : OwnerOK(u)'
  BY <1>1, MutexAssumption DEF IInv, TypeOK, PlaceOK, OwnerOK, InSection, InCall, Holding,
     Acquiring, MutualExclusion, StateMeansHeld, FreeOK, WaitReturn
<1>8. QED  BY <1>2, <1>3, <1>5, <1>6, <1>7 DEF IInv

\* Signal keeps the invariant: a call inside or outside the critical section begins.
LEMMA SignalKeeps == ASSUME IInv, NEW t \in Threads, Signal(t) PROVE IInv'
<1>1. TypeOK /\ PlaceOK(t) /\ OwnerOK(t)
  BY DEF IInv
<1>2. TypeOK'
  <2>1. prog' \in [Threads -> Seq(Calls)]
    BY <1>1, Popped DEF TypeOK, PlaceOK, Signal, TestWaiters, NextCall, Allowed, Return
  <2>2. pc' \in [Threads -> PCs]
    BY <1>1 DEF TypeOK, PCs, Signal, TestWaiters, NextCall, Allowed, Return
  <2>3. QED
    BY <1>1, <2>1, <2>2, MutexAssumption DEF TypeOK, PlaceOK, OwnerOK, InSection, InCall,
       Signal, TestWaiters, NextCall, Allowed, Return
<1>3. \A u \in Threads : PlaceOK(u)'
  BY <1>1 DEF IInv, TypeOK, PlaceOK, OwnerOK, InSection, InCall, Holding, Acquiring, Signal,
     TestWaiters, NextCall, Allowed, Return
<1>4. \A u \in Threads : Holding(u)' <=> Holding(u)
  BY <1>1 DEF TypeOK, PlaceOK, OwnerOK, InSection, InCall, Holding, Acquiring, Signal,
     TestWaiters, NextCall, Allowed, Return
<1>5. MutualExclusion' /\ StateMeansHeld'
  <2>1. mState' = mState  BY DEF Signal, TestWaiters, NextCall, Allowed, Return
  <2>2. QED  BY <1>4, <2>1, SameHolders
<1>6. FreeOK'
  BY <1>1 DEF IInv, TypeOK, FreeOK, StateMeansHeld, Holding, InSection, InCall, PlaceOK,
     OwnerOK, Signal, TestWaiters, NextCall, Allowed, Return
<1>7. \A u \in Threads : OwnerOK(u)'
  BY <1>1, MutexAssumption, SMTT(40) DEF IInv, TypeOK, PlaceOK, OwnerOK, InSection, InCall, Holding,
     Acquiring, MutualExclusion, StateMeansHeld, FreeOK, Signal, TestWaiters, NextCall, Allowed,
     Return
<1>8. QED  BY <1>2, <1>3, <1>5, <1>6, <1>7 DEF IInv

\* SignalAdvance keeps the invariant: only the sequence changes.
LEMMA SignalAdvanceKeeps == ASSUME IInv, NEW t \in Threads, SignalAdvance(t) PROVE IInv'
<1>1. TypeOK /\ PlaceOK(t) /\ OwnerOK(t)
  BY DEF IInv
<1>2. TypeOK'
  <2>1. prog' \in [Threads -> Seq(Calls)]
    BY <1>1, Popped DEF TypeOK, PlaceOK, SignalAdvance, Advance
  <2>2. pc' \in [Threads -> PCs]
    BY <1>1 DEF TypeOK, PCs, SignalAdvance, Advance
  <2>3. QED
    BY <1>1, <2>1, <2>2, MutexAssumption DEF TypeOK, PlaceOK, OwnerOK, InSection, InCall,
       SignalAdvance, Advance
<1>3. \A u \in Threads : PlaceOK(u)'
  BY <1>1 DEF IInv, TypeOK, PlaceOK, OwnerOK, InSection, InCall, Holding, Acquiring,
     SignalAdvance, Advance
<1>4. \A u \in Threads : Holding(u)' <=> Holding(u)
  BY <1>1 DEF TypeOK, PlaceOK, OwnerOK, InSection, InCall, Holding, Acquiring, SignalAdvance,
     Advance
<1>5. MutualExclusion' /\ StateMeansHeld'
  <2>1. mState' = mState  BY DEF SignalAdvance, Advance
  <2>2. QED  BY <1>4, <2>1, SameHolders
<1>6. FreeOK'
  BY <1>1 DEF IInv, TypeOK, FreeOK, StateMeansHeld, Holding, InSection, InCall, PlaceOK,
     OwnerOK, SignalAdvance, Advance
<1>7. \A u \in Threads : OwnerOK(u)'
  BY <1>1, MutexAssumption DEF IInv, TypeOK, PlaceOK, OwnerOK, InSection, InCall, Holding,
     Acquiring, MutualExclusion, StateMeansHeld, FreeOK, SignalAdvance, Advance
<1>8. QED  BY <1>2, <1>3, <1>5, <1>6, <1>7 DEF IInv

\* SignalWake keeps the invariant: the woken thread starts to lock.
LEMMA SignalWakeKeeps == ASSUME IInv, NEW t \in Threads, SignalWake(t) PROVE IInv'
<1>1. TypeOK /\ PlaceOK(t) /\ OwnerOK(t)
  BY DEF IInv
<1>10. PICK w \in WakeOne(condQueue, pc) : condQueue' = w.queue /\ pc' = [w.pcs EXCEPT ![t] = "run"]
  BY DEF SignalWake
<1>11. /\ w.queue \subseteq condQueue
       /\ w.pcs \in [Threads -> PCs]
       /\ \A u \in Threads : \/ w.pcs[u] = pc[u]
                             \/ u \in condQueue \ w.queue /\ w.pcs[u] = AfterSleep(u)
       /\ \A u \in w.queue : w.pcs[u] = pc[u]
  <2>1. condQueue \in SUBSET Threads  BY <1>1 DEF TypeOK
  <2>2. QED  BY <1>1, <2>1, WakeMoves
<1>12. \A u \in condQueue : pc[u] \in {"asleep", "cwait"} /\ u # t
  BY <1>1 DEF IInv, PlaceOK, TypeOK, SignalWake
<1>13. /\ \A u \in Threads \ {t} : pc'[u] = w.pcs[u]
       /\ pc'[t] \in {"run"}
       /\ pc'[t] = "cwait" <=> inWait[t]
       /\ \A u \in Threads : \/ pc'[u] = pc[u]
                             \/ u = t
                             \/ pc[u] \in {"asleep", "cwait"} /\ pc'[u] \in {"uncontend", "load"}
  BY <1>10, <1>11, <1>12, <1>1 DEF IInv, TypeOK, PlaceOK, InCall, SignalWake, AfterSleep
<1>14. pc[t] = "swake" /\ UNCHANGED <<mState, mExclusiveOwner, mRecursionCount, depth>>
  BY DEF SignalWake
<1>2. TypeOK'
  <2>1. prog' \in [Threads -> Seq(Calls)]
    BY <1>10, <1>11, <1>12, <1>13, <1>1, Popped DEF TypeOK, PlaceOK, SignalWake, AfterSleep
  <2>2. pc' \in [Threads -> PCs]
    BY <1>10, <1>11, <1>12, <1>13, <1>1 DEF TypeOK, PCs, SignalWake, AfterSleep
  <2>3. QED
    BY <1>10, <1>11, <1>12, <1>13, <1>1, <2>1, <2>2, MutexAssumption DEF TypeOK, PlaceOK,
       OwnerOK, InSection, InCall, SignalWake, AfterSleep
<1>3. \A u \in Threads : PlaceOK(u)'
  BY <1>10, <1>11, <1>12, <1>13, <1>1 DEF IInv, TypeOK, PlaceOK, OwnerOK, InSection, InCall,
     Holding, Acquiring, SignalWake, AfterSleep
<1>15. \A u \in Threads : (Holding(u)' <=> Holding(u)) /\ OwnerOK(u)'
  <2> TAKE u \in Threads
  <2>1. OwnerOK(u)  BY DEF IInv
  <2>2. CASE u = t
    <3>1. Holding(t)' <=> Holding(t)
      BY <1>13, <1>14, <1>1 DEF TypeOK, PlaceOK, InSection, InCall, Holding
    <3>2. OwnerOK(t)'
      BY <1>13, <1>14, <1>1, <3>1 DEF TypeOK, PlaceOK, OwnerOK, InSection, InCall, Holding
    <3>3. QED  BY <2>2, <3>1, <3>2
  <2>3. CASE u # t
    <3>1. \/ pc'[u] = pc[u]
          \/ pc[u] \in {"asleep", "cwait"} /\ pc'[u] \in {"uncontend", "load"}
      BY <1>13, <2>3
    <3>2. QED  BY <1>1, <1>2, <1>14, <2>1, <3>1, WokenKeeps
  <2>4. QED  BY <2>2, <2>3
<1>4. \A u \in Threads : Holding(u)' <=> Holding(u)
  BY <1>15
<1>5. MutualExclusion' /\ StateMeansHeld'
  <2>1. mState' = mState  BY DEF SignalWake, AfterSleep
  <2>2. QED  BY <1>4, <2>1, SameHolders
<1>6. FreeOK'
  BY <1>10, <1>11, <1>12, <1>13, <1>1 DEF IInv, TypeOK, FreeOK, StateMeansHeld, Holding,
     InSection, InCall, PlaceOK, OwnerOK, SignalWake, AfterSleep
<1>7. \A u \in Threads : OwnerOK(u)'
  BY <1>15
<1>8. QED  BY <1>2, <1>3, <1>5, <1>6, <1>7 DEF IInv

\* SignalAll keeps the invariant: a call inside or outside the critical section begins.
LEMMA SignalAllKeeps == ASSUME IInv, NEW t \in Threads, SignalAll(t) PROVE IInv'
<1>1. TypeOK /\ PlaceOK(t) /\ OwnerOK(t)
  BY DEF IInv
<1>2. TypeOK'
  <2>1. prog' \in [Threads -> Seq(Calls)]
    BY <1>1, Popped DEF TypeOK, PlaceOK, SignalAll, TestWaiters, NextCall, Allowed, Return
  <2>2. pc' \in [Threads -> PCs]
    BY <1>1 DEF TypeOK, PCs, SignalAll, TestWaiters, NextCall, Allowed, Return
  <2>3. QED
    BY <1>1, <2>1, <2>2, MutexAssumption DEF TypeOK, PlaceOK, OwnerOK, InSection, InCall,
       SignalAll, TestWaiters, NextCall, Allowed, Return
<1>3. \A u \in Threads : PlaceOK(u)'
  BY <1>1 DEF IInv, TypeOK, PlaceOK, OwnerOK, InSection, InCall, Holding, Acquiring, SignalAll,
     TestWaiters, NextCall, Allowed, Return
<1>4. \A u \in Threads : Holding(u)' <=> Holding(u)
  BY <1>1 DEF TypeOK, PlaceOK, OwnerOK, InSection, InCall, Holding, Acquiring, SignalAll,
     TestWaiters, NextCall, Allowed, Return
<1>5. MutualExclusion' /\ StateMeansHeld'
  <2>1. mState' = mState  BY DEF SignalAll, TestWaiters, NextCall, Allowed, Return
  <2>2. QED  BY <1>4, <2>1, SameHolders
<1>6. FreeOK'
  BY <1>1 DEF IInv, TypeOK, FreeOK, StateMeansHeld, Holding, InSection, InCall, PlaceOK,
     OwnerOK, SignalAll, TestWaiters, NextCall, Allowed, Return
<1>7. \A u \in Threads : OwnerOK(u)'
  BY <1>1, MutexAssumption, SMTT(40) DEF IInv, TypeOK, PlaceOK, OwnerOK, InSection, InCall, Holding,
     Acquiring, MutualExclusion, StateMeansHeld, FreeOK, SignalAll, TestWaiters, NextCall,
     Allowed, Return
<1>8. QED  BY <1>2, <1>3, <1>5, <1>6, <1>7 DEF IInv

\* SignalAllAdvance keeps the invariant: only the sequence changes.
LEMMA SignalAllAdvanceKeeps == ASSUME IInv, NEW t \in Threads, SignalAllAdvance(t) PROVE IInv'
<1>1. TypeOK /\ PlaceOK(t) /\ OwnerOK(t)
  BY DEF IInv
<1>2. TypeOK'
  <2>1. prog' \in [Threads -> Seq(Calls)]
    BY <1>1, Popped DEF TypeOK, PlaceOK, SignalAllAdvance, Advance
  <2>2. pc' \in [Threads -> PCs]
    BY <1>1 DEF TypeOK, PCs, SignalAllAdvance, Advance
  <2>3. QED
    BY <1>1, <2>1, <2>2, MutexAssumption DEF TypeOK, PlaceOK, OwnerOK, InSection, InCall,
       SignalAllAdvance, Advance
<1>3. \A u \in Threads : PlaceOK(u)'
  BY <1>1 DEF IInv, TypeOK, PlaceOK, OwnerOK, InSection, InCall, Holding, Acquiring,
     SignalAllAdvance, Advance
<1>4. \A u \in Threads : Holding(u)' <=> Holding(u)
  BY <1>1 DEF TypeOK, PlaceOK, OwnerOK, InSection, InCall, Holding, Acquiring, SignalAllAdvance,
     Advance
<1>5. MutualExclusion' /\ StateMeansHeld'
  <2>1. mState' = mState  BY DEF SignalAllAdvance, Advance
  <2>2. QED  BY <1>4, <2>1, SameHolders
<1>6. FreeOK'
  BY <1>1 DEF IInv, TypeOK, FreeOK, StateMeansHeld, Holding, InSection, InCall, PlaceOK,
     OwnerOK, SignalAllAdvance, Advance
<1>7. \A u \in Threads : OwnerOK(u)'
  BY <1>1, MutexAssumption DEF IInv, TypeOK, PlaceOK, OwnerOK, InSection, InCall, Holding,
     Acquiring, MutualExclusion, StateMeansHeld, FreeOK, SignalAllAdvance, Advance
<1>8. QED  BY <1>2, <1>3, <1>5, <1>6, <1>7 DEF IInv

\* SignalAllLoad keeps the invariant: only a local changes.
LEMMA SignalAllLoadKeeps == ASSUME IInv, NEW t \in Threads, SignalAllLoad(t) PROVE IInv'
<1>1. TypeOK /\ PlaceOK(t) /\ OwnerOK(t)
  BY DEF IInv
<1>2. TypeOK'
  <2>1. prog' \in [Threads -> Seq(Calls)]
    BY <1>1, Popped DEF TypeOK, PlaceOK, SignalAllLoad
  <2>2. pc' \in [Threads -> PCs]
    BY <1>1 DEF TypeOK, PCs, SignalAllLoad
  <2>3. QED
    BY <1>1, <2>1, <2>2, MutexAssumption DEF TypeOK, PlaceOK, OwnerOK, InSection, InCall,
       SignalAllLoad
<1>3. \A u \in Threads : PlaceOK(u)'
  BY <1>1 DEF IInv, TypeOK, PlaceOK, OwnerOK, InSection, InCall, Holding, Acquiring, SignalAllLoad
<1>4. \A u \in Threads : Holding(u)' <=> Holding(u)
  BY <1>1 DEF TypeOK, PlaceOK, OwnerOK, InSection, InCall, Holding, Acquiring, SignalAllLoad
<1>5. MutualExclusion' /\ StateMeansHeld'
  <2>1. mState' = mState  BY DEF SignalAllLoad
  <2>2. QED  BY <1>4, <2>1, SameHolders
<1>6. FreeOK'
  BY <1>1 DEF IInv, TypeOK, FreeOK, StateMeansHeld, Holding, InSection, InCall, PlaceOK,
     OwnerOK, SignalAllLoad
<1>7. \A u \in Threads : OwnerOK(u)'
  BY <1>1, MutexAssumption DEF IInv, TypeOK, PlaceOK, OwnerOK, InSection, InCall, Holding,
     Acquiring, MutualExclusion, StateMeansHeld, FreeOK, SignalAllLoad
<1>8. QED  BY <1>2, <1>3, <1>5, <1>6, <1>7 DEF IInv

\* SignalAllRequeue keeps the invariant: waiters change queues.
LEMMA SignalAllRequeueKeeps == ASSUME IInv, NEW t \in Threads, SignalAllRequeue(t) PROVE IInv'
<1>1. TypeOK /\ PlaceOK(t) /\ OwnerOK(t)
  BY DEF IInv
<1>2. TypeOK'
  <2>1. prog' \in [Threads -> Seq(Calls)]
    <3>1. prog' = prog \/ (prog' = [prog EXCEPT ![t] = Tail(@)] /\ prog[t] # <<>>)
      BY <1>1 DEF PlaceOK, SignalAllRequeue, Return
    <3>2. QED  BY <1>1, <3>1, Popped DEF TypeOK
  <2>2. pc' \in [Threads -> PCs]
    BY <1>1 DEF TypeOK, PCs, SignalAllRequeue, Return
  <2>3. QED
    BY <1>1, <2>1, <2>2, MutexAssumption DEF TypeOK, PlaceOK, OwnerOK, InSection, InCall,
       SignalAllRequeue, Return
<1>3. \A u \in Threads : PlaceOK(u)'
  BY <1>1 DEF IInv, TypeOK, PlaceOK, OwnerOK, InSection, InCall, Holding, Acquiring,
     SignalAllRequeue, Return
<1>4. \A u \in Threads : Holding(u)' <=> Holding(u)
  BY <1>1 DEF TypeOK, PlaceOK, OwnerOK, InSection, InCall, Holding, Acquiring, SignalAllRequeue,
     Return
<1>5. MutualExclusion' /\ StateMeansHeld'
  <2>1. mState' = mState  BY DEF SignalAllRequeue, Return
  <2>2. QED  BY <1>4, <2>1, SameHolders
<1>6. FreeOK'
  BY <1>1 DEF IInv, TypeOK, FreeOK, StateMeansHeld, Holding, InSection, InCall, PlaceOK,
     OwnerOK, SignalAllRequeue, Return
<1>7. \A u \in Threads : OwnerOK(u)'
  BY <1>1, MutexAssumption, SMTT(40) DEF IInv, TypeOK, PlaceOK, OwnerOK, InSection, InCall, Holding,
     Acquiring, MutualExclusion, StateMeansHeld, FreeOK, SignalAllRequeue, Return
<1>8. QED  BY <1>2, <1>3, <1>5, <1>6, <1>7 DEF IInv

\* Set keeps the invariant: only the client condition changes.
LEMMA SetKeeps == ASSUME IInv, NEW t \in Threads, Set(t) PROVE IInv'
<1>1. TypeOK /\ PlaceOK(t) /\ OwnerOK(t)
  BY DEF IInv
<1>2. TypeOK'
  <2>1. prog' \in [Threads -> Seq(Calls)]
    BY <1>1, Popped DEF TypeOK, PlaceOK, Set, NextCall, Allowed, Return
  <2>2. pc' \in [Threads -> PCs]
    BY <1>1 DEF TypeOK, PCs, Set, NextCall, Allowed, Return
  <2>3. QED
    BY <1>1, <2>1, <2>2, MutexAssumption DEF TypeOK, PlaceOK, OwnerOK, InSection, InCall, Set,
       NextCall, Allowed, Return
<1>3. \A u \in Threads : PlaceOK(u)'
  BY <1>1 DEF IInv, TypeOK, PlaceOK, OwnerOK, InSection, InCall, Holding, Acquiring, Set,
     NextCall, Allowed, Return
<1>4. \A u \in Threads : Holding(u)' <=> Holding(u)
  BY <1>1 DEF TypeOK, PlaceOK, OwnerOK, InSection, InCall, Holding, Acquiring, Set, NextCall,
     Allowed, Return
<1>5. MutualExclusion' /\ StateMeansHeld'
  <2>1. mState' = mState  BY DEF Set, NextCall, Allowed, Return
  <2>2. QED  BY <1>4, <2>1, SameHolders
<1>6. FreeOK'
  BY <1>1 DEF IInv, TypeOK, FreeOK, StateMeansHeld, Holding, InSection, InCall, PlaceOK,
     OwnerOK, Set, NextCall, Allowed, Return
<1>7. \A u \in Threads : OwnerOK(u)'
  BY <1>1, MutexAssumption DEF IInv, TypeOK, PlaceOK, OwnerOK, InSection, InCall, Holding,
     Acquiring, MutualExclusion, StateMeansHeld, FreeOK, Set, NextCall, Allowed, Return
<1>8. QED  BY <1>2, <1>3, <1>5, <1>6, <1>7 DEF IInv

\* Timeout keeps the invariant: a waiter leaves its queue and starts to lock.
LEMMA TimeoutKeeps == ASSUME IInv, NEW t \in Threads, Timeout(t) PROVE IInv'
<1>1. TypeOK /\ PlaceOK(t) /\ OwnerOK(t)
  BY DEF IInv
<1>2. TypeOK'
  <2>1. prog' \in [Threads -> Seq(Calls)]
    BY <1>1, Popped DEF TypeOK, PlaceOK, Timeout, LeaveQueue, AfterSleep
  <2>2. pc' \in [Threads -> PCs]
    BY <1>1 DEF TypeOK, PCs, Timeout, LeaveQueue, AfterSleep
  <2>3. QED
    BY <1>1, <2>1, <2>2, MutexAssumption DEF TypeOK, PlaceOK, OwnerOK, InSection, InCall,
       Timeout, LeaveQueue, AfterSleep
<1>3. \A u \in Threads : PlaceOK(u)'
  BY <1>1 DEF IInv, TypeOK, PlaceOK, OwnerOK, InSection, InCall, Holding, Acquiring, Timeout,
     LeaveQueue, AfterSleep
<1>4. \A u \in Threads : Holding(u)' <=> Holding(u)
  BY <1>1 DEF TypeOK, PlaceOK, OwnerOK, InSection, InCall, Holding, Acquiring, Timeout,
     LeaveQueue, AfterSleep
<1>5. MutualExclusion' /\ StateMeansHeld'
  <2>1. mState' = mState  BY DEF Timeout, LeaveQueue, AfterSleep
  <2>2. QED  BY <1>4, <2>1, SameHolders
<1>6. FreeOK'
  BY <1>1 DEF IInv, TypeOK, FreeOK, StateMeansHeld, Holding, InSection, InCall, PlaceOK,
     OwnerOK, Timeout, LeaveQueue, AfterSleep
<1>7. \A u \in Threads : OwnerOK(u)'
  BY <1>1, MutexAssumption DEF IInv, TypeOK, PlaceOK, OwnerOK, InSection, InCall, Holding,
     Acquiring, MutualExclusion, StateMeansHeld, FreeOK, Timeout, LeaveQueue, AfterSleep
<1>8. QED  BY <1>2, <1>3, <1>5, <1>6, <1>7 DEF IInv

\* Interrupted keeps the invariant: a sleeper leaves its queue.
LEMMA InterruptedKeeps == ASSUME IInv, NEW t \in Threads, Interrupted(t) PROVE IInv'
<1>1. TypeOK /\ PlaceOK(t) /\ OwnerOK(t)
  BY DEF IInv
<1>2. TypeOK'
  <2>1. prog' \in [Threads -> Seq(Calls)]
    BY <1>1, Popped DEF TypeOK, PlaceOK, Interrupted, LeaveQueue, AfterSleep
  <2>2. pc' \in [Threads -> PCs]
    BY <1>1 DEF TypeOK, PCs, Interrupted, LeaveQueue, AfterSleep
  <2>3. QED
    BY <1>1, <2>1, <2>2, MutexAssumption DEF TypeOK, PlaceOK, OwnerOK, InSection, InCall,
       Interrupted, LeaveQueue, AfterSleep
<1>3. \A u \in Threads : PlaceOK(u)'
  BY <1>1 DEF IInv, TypeOK, PlaceOK, OwnerOK, InSection, InCall, Holding, Acquiring,
     Interrupted, LeaveQueue, AfterSleep
<1>4. \A u \in Threads : Holding(u)' <=> Holding(u)
  BY <1>1 DEF TypeOK, PlaceOK, OwnerOK, InSection, InCall, Holding, Acquiring, Interrupted,
     LeaveQueue, AfterSleep
<1>5. MutualExclusion' /\ StateMeansHeld'
  <2>1. mState' = mState  BY DEF Interrupted, LeaveQueue, AfterSleep
  <2>2. QED  BY <1>4, <2>1, SameHolders
<1>6. FreeOK'
  BY <1>1 DEF IInv, TypeOK, FreeOK, StateMeansHeld, Holding, InSection, InCall, PlaceOK,
     OwnerOK, Interrupted, LeaveQueue, AfterSleep
<1>7. \A u \in Threads : OwnerOK(u)'
  BY <1>1, MutexAssumption DEF IInv, TypeOK, PlaceOK, OwnerOK, InSection, InCall, Holding,
     Acquiring, MutualExclusion, StateMeansHeld, FreeOK, Interrupted, LeaveQueue, AfterSleep
<1>8. QED  BY <1>2, <1>3, <1>5, <1>6, <1>7 DEF IInv

\* CasFails keeps the invariant: the thread retries.
LEMMA CasFailsKeeps == ASSUME IInv, NEW t \in Threads, CasFails(t) PROVE IInv'
<1>1. TypeOK /\ PlaceOK(t) /\ OwnerOK(t)
  BY DEF IInv
<1>2. TypeOK'
  <2>1. prog' \in [Threads -> Seq(Calls)]
    BY <1>1, Popped DEF TypeOK, PlaceOK, CasFails
  <2>2. pc' \in [Threads -> PCs]
    BY <1>1 DEF TypeOK, PCs, CasFails
  <2>3. QED
    BY <1>1, <2>1, <2>2, MutexAssumption DEF TypeOK, PlaceOK, OwnerOK, InSection, InCall, CasFails
<1>3. \A u \in Threads : PlaceOK(u)'
  BY <1>1 DEF IInv, TypeOK, PlaceOK, OwnerOK, InSection, InCall, Holding, Acquiring, CasFails
<1>4. \A u \in Threads : Holding(u)' <=> Holding(u)
  BY <1>1 DEF TypeOK, PlaceOK, OwnerOK, InSection, InCall, Holding, Acquiring, CasFails
<1>5. MutualExclusion' /\ StateMeansHeld'
  <2>1. mState' = mState  BY DEF CasFails
  <2>2. QED  BY <1>4, <2>1, SameHolders
<1>6. FreeOK'
  BY <1>1 DEF IInv, TypeOK, FreeOK, StateMeansHeld, Holding, InSection, InCall, PlaceOK,
     OwnerOK, CasFails
<1>7. \A u \in Threads : OwnerOK(u)'
  BY <1>1, MutexAssumption DEF IInv, TypeOK, PlaceOK, OwnerOK, InSection, InCall, Holding,
     Acquiring, MutualExclusion, StateMeansHeld, FreeOK, CasFails
<1>8. QED  BY <1>2, <1>3, <1>5, <1>6, <1>7 DEF IInv

-----------------------------------------------------------------------------
\* Init establishes the invariant when the atomics start at zero.
LEMMA InitHolds == InitialValues = {0} /\ Init => IInv
<1> SUFFICES ASSUME InitialValues = {0}, Init PROVE IInv
  OBVIOUS
<1>1. TypeOK
  <2>1. prog \in [Threads -> Seq(Calls)]
    BY MutexAssumption DEF Init
  <2>2. mState = 0 /\ mNumContenders = 0 /\ mSequence = 0
    BY DEF Init
  <2>3. pc \in [Threads -> PCs] /\ spurious \in 0..MaxSpurious
    BY MutexAssumption DEF Init, PCs
  <2>4. /\ mExclusiveOwner = "none" /\ mRecursionCount = 0 /\ mNumWaiters = 0
        /\ mutexQueue = {} /\ condQueue = {}
    BY DEF Init
  <2>5. /\ inWait \in [Threads -> BOOLEAN] /\ saved \in [Threads -> Nat]
        /\ seen \in [Threads -> Int] /\ depth \in [Threads -> Nat]
    BY DEF Init
  <2>6. ready \in BOOLEAN
    BY Zenon DEF Init
  <2>7. QED  BY <2>1, <2>2, <2>3, <2>4, <2>5, <2>6 DEF TypeOK
<1>2. \A t \in Threads : ~Holding(t)
  BY DEF Init, Holding, InSection, InCall
<1>3. MutualExclusion /\ StateMeansHeld /\ FreeOK
  BY <1>2 DEF Init, MutualExclusion, StateMeansHeld, FreeOK
<1>4. \A t \in Threads : PlaceOK(t) /\ OwnerOK(t)
  BY <1>1, <1>2, MutexAssumption DEF Init, TypeOK, PlaceOK, OwnerOK, Holding, InSection, InCall,
     Acquiring
<1>5. QED  BY <1>1, <1>3, <1>4 DEF IInv

\* Every step of the specification keeps the invariant: one lemma per action.
LEMMA NextKeeps == IInv /\ [Next]_vars => IInv'
<1> SUFFICES ASSUME IInv, [Next]_vars PROVE IInv'
  OBVIOUS
<1>1. CASE UNCHANGED vars
  BY <1>1 DEF IInv, TypeOK, MutualExclusion, StateMeansHeld, FreeOK, PlaceOK, OwnerOK, Holding,
     InSection, vars
<1>2. ASSUME NEW t \in Threads, Step(t) \/ Timeout(t) \/ Interrupted(t) \/ CasFails(t)
      PROVE  IInv'
  BY <1>2, LockKeeps, LockLoadKeeps, LockCasKeeps, LockContendKeeps, LockFutexWaitKeeps,
     LockUncontendKeeps, LockOwnKeeps, UnlockKeeps, UnlockLoadKeeps, UnlockCasKeeps,
     UnlockCheckKeeps, UnlockWakeKeeps, AwaitDoneKeeps, WaitKeeps, WaitSequenceKeeps,
     WaitFutexKeeps, WaitReturnKeeps, SignalKeeps, SignalAdvanceKeeps, SignalWakeKeeps,
     SignalAllKeeps, SignalAllAdvanceKeeps, SignalAllLoadKeeps, SignalAllRequeueKeeps, SetKeeps,
     TimeoutKeeps, InterruptedKeeps, CasFailsKeeps DEF Step
<1>3. QED  BY <1>1, <1>2 DEF Next

-----------------------------------------------------------------------------
(***************************************************************************)
(* The counts of contenders and waiters, and the sleepers they stand for.  *)
(***************************************************************************)
\* A finite set with one element more, or one less.
LEMMA OneMore ==
  ASSUME NEW S, NEW x, IsFiniteSet(S), x \notin S
  PROVE  IsFiniteSet(S \cup {x}) /\ Cardinality(S \cup {x}) = Cardinality(S) + 1
  BY FS_AddElement

LEMMA OneLess ==
  ASSUME NEW S, NEW x, IsFiniteSet(S), x \in S
  PROVE  IsFiniteSet(S \ {x}) /\ Cardinality(S \ {x}) = Cardinality(S) - 1
  BY FS_RemoveElement

\* The places of the contended path.
Contends(l) == l \in {"fwait", "asleep", "uncontend"}

\* What a FUTEX_WAKE leaves of the contenders: the woken one is still counted.
LEMMA WakeCounts ==
  ASSUME IInv, NEW q \in SUBSET (mutexQueue \cup condQueue), NEW w \in WakeOne(q, pc), NEW u \in Threads
  PROVE  /\ Contends(w.pcs[u]) <=> Contends(pc[u])
         /\ pc[u] \in Helping => w.pcs[u] \in Helping
<1>1. TypeOK /\ q \in SUBSET Threads /\ PlaceOK(u)
  BY DEF IInv, TypeOK
<1>2. \/ w.pcs[u] = pc[u]
      \/ u \in q /\ w.pcs[u] = AfterSleep(u)
  BY <1>1, WakeMoves
<1>3. u \in q => pc[u] \in {"asleep", "cwait"}
  BY <1>1 DEF PlaceOK
<1>4. QED  BY <1>2, <1>3 DEF AfterSleep, Contends, Helping

\* Where no thread enters or leaves the contended path or Wait, the counts stay.
LEMMA SameCounts ==
  ASSUME CountOK, UNCHANGED <<mNumContenders, mNumWaiters, inWait>>,
         \A u \in Threads : Contends(pc'[u]) <=> Contends(pc[u])
  PROVE  CountOK'
<1>1. Contending' = Contending /\ Waiting' = Waiting
  BY DEF Contends, Contending, Waiting
<1>2. QED  BY <1>1 DEF CountOK, CountsExact

\* LockContend counts the thread that enters the contended path.
LEMMA LockContendCounts ==
  ASSUME IInv, CountOK, NEW t \in Threads, LockContend(t)
  PROVE  CountOK'
<1>1. TypeOK
  BY DEF IInv
<1>2. t \notin Contending /\ Contending' = Contending \cup {t} /\ Waiting' = Waiting
  BY <1>1 DEF TypeOK, Contending, Waiting, LockContend
<1>3. IsFiniteSet(Contending') /\ Cardinality(Contending') = Cardinality(Contending) + 1
  BY <1>2, OneMore DEF CountOK
<1>4. mNumContenders' = mNumContenders + 1 /\ mNumWaiters' = mNumWaiters
  BY DEF LockContend
<1>5. Cardinality(Contending) \in Nat /\ Cardinality(Waiting) \in Nat
  BY FS_CardinalityType DEF CountOK
<1>6. QED  BY <1>2, <1>3, <1>4, <1>5 DEF CountOK, CountsExact

\* LockUncontend no longer counts the one that leaves it.
LEMMA LockUncontendCounts ==
  ASSUME IInv, CountOK, NEW t \in Threads, LockUncontend(t)
  PROVE  CountOK'
<1>1. TypeOK
  BY DEF IInv
<1>2. t \in Contending /\ Contending' = Contending \ {t} /\ Waiting' = Waiting
  BY <1>1 DEF TypeOK, Contending, Waiting, LockUncontend
<1>3. IsFiniteSet(Contending') /\ Cardinality(Contending') = Cardinality(Contending) - 1
  BY <1>2, OneLess DEF CountOK
<1>4. mNumContenders' = mNumContenders - 1 /\ mNumWaiters' = mNumWaiters
  BY DEF LockUncontend
<1>5. Cardinality(Contending) \in Nat /\ Cardinality(Waiting) \in Nat
  BY FS_CardinalityType DEF CountOK
<1>6. QED  BY <1>2, <1>3, <1>4, <1>5 DEF CountOK, CountsExact

\* Wait counts its thread twice, as a waiter and as a contender.
LEMMA WaitCounts ==
  ASSUME IInv, CountOK, NEW t \in Threads, Wait(t)
  PROVE  CountOK'
<1>1. TypeOK /\ PlaceOK(t)
  BY DEF IInv
<1>2. /\ t \notin Waiting /\ Waiting' = Waiting \cup {t}
  BY <1>1 DEF TypeOK, PlaceOK, InCall, Waiting, Wait, NextCall
<1>3. Contending' = Contending
  BY <1>1 DEF TypeOK, Contending, Wait, NextCall
<1>4. IsFiniteSet(Waiting') /\ Cardinality(Waiting') = Cardinality(Waiting) + 1
  BY <1>2, OneMore DEF CountOK
<1>5. mNumContenders' = mNumContenders + 1 /\ mNumWaiters' = mNumWaiters + 1
  BY DEF Wait
<1>6. Cardinality(Contending) \in Nat /\ Cardinality(Waiting) \in Nat
  BY FS_CardinalityType DEF CountOK
<1>7. QED  BY <1>3, <1>4, <1>5, <1>6 DEF CountOK, CountsExact

\* WaitReturn takes both back.
LEMMA WaitReturnCounts ==
  ASSUME IInv, CountOK, NEW t \in Threads, WaitReturn(t)
  PROVE  CountOK'
<1>1. TypeOK /\ PlaceOK(t)
  BY DEF IInv
<1>2. /\ t \in Waiting /\ Waiting' = Waiting \ {t}
  BY <1>1 DEF TypeOK, PlaceOK, Waiting, WaitReturn
<1>3. Contending' = Contending
  BY <1>1 DEF TypeOK, Contending, WaitReturn
<1>4. IsFiniteSet(Waiting') /\ Cardinality(Waiting') = Cardinality(Waiting) - 1
  BY <1>2, OneLess DEF CountOK
<1>5. mNumContenders' = mNumContenders - 1 /\ mNumWaiters' = mNumWaiters - 1
  BY DEF WaitReturn
<1>6. Cardinality(Contending) \in Nat /\ Cardinality(Waiting) \in Nat
  BY FS_CardinalityType DEF CountOK
<1>7. QED  BY <1>3, <1>4, <1>5, <1>6 DEF CountOK, CountsExact

\* Every step keeps the counts exact.
LEMMA NextCounts == IInv /\ CountOK /\ [Next]_vars => CountOK'
<1> SUFFICES ASSUME IInv, CountOK, [Next]_vars PROVE CountOK'
  OBVIOUS
<1>1. CASE UNCHANGED vars
  BY <1>1, SameCounts DEF vars
<1>2. ASSUME NEW t \in Threads, Step(t) \/ Timeout(t) \/ Interrupted(t) \/ CasFails(t)
      PROVE  CountOK'
  <2>1. TypeOK /\ PlaceOK(t)
    BY DEF IInv
  <2> DEFINE Same == /\ UNCHANGED <<mNumContenders, mNumWaiters, inWait>>
                     /\ \A u \in Threads : Contends(pc'[u]) <=> Contends(pc[u])
  <2>2. CASE Lock(t)
    <3>1. Same
      BY <2>1, <2>2 DEF TypeOK, PlaceOK, Contends, Lock, NextCall, Allowed, Return
    <3>2. QED  BY <3>1, SameCounts
  <2>3. CASE LockLoad(t)
    <3>1. Same
      BY <2>1, <2>3 DEF TypeOK, PlaceOK, Contends, LockLoad
    <3>2. QED  BY <3>1, SameCounts
  <2>4. CASE LockCas(t)
    <3>1. Same
      BY <2>1, <2>4 DEF TypeOK, PlaceOK, Contends, LockCas
    <3>2. QED  BY <3>1, SameCounts
  <2>5. CASE LockFutexWait(t)
    <3>1. Same
      BY <2>1, <2>5 DEF TypeOK, PlaceOK, Contends, LockFutexWait
    <3>2. QED  BY <3>1, SameCounts
  <2>6. CASE LockOwn(t)
    <3>1. Same
      BY <2>1, <2>6 DEF TypeOK, PlaceOK, Contends, LockOwn, Return
    <3>2. QED  BY <3>1, SameCounts
  <2>7. CASE Unlock(t)
    <3>1. Same
      BY <2>1, <2>7 DEF TypeOK, PlaceOK, Contends, Unlock, NextCall, Allowed, Return
    <3>2. QED  BY <3>1, SameCounts
  <2>8. CASE UnlockLoad(t)
    <3>1. Same
      BY <2>1, <2>8 DEF TypeOK, PlaceOK, Contends, UnlockLoad
    <3>2. QED  BY <3>1, SameCounts
  <2>9. CASE UnlockCas(t)
    <3>1. Same
      BY <2>1, <2>9 DEF TypeOK, PlaceOK, Contends, UnlockCas
    <3>2. QED  BY <3>1, SameCounts
  <2>10. CASE UnlockCheck(t)
    <3>1. Same
      BY <2>1, <2>10 DEF TypeOK, PlaceOK, Contends, UnlockCheck, UnlockReturn
    <3>2. QED  BY <3>1, SameCounts
  <2>11. CASE UnlockWake(t)
    <3>1. PICK w \in WakeOne(mutexQueue, pc) : UnlockReturn(t, w.pcs)
      BY <2>11 DEF UnlockWake
    <3>2. \A u \in Threads : Contends(w.pcs[u]) <=> Contends(pc[u])
      BY WakeCounts
    <3>3. w.pcs \in [Threads -> PCs]
      BY <2>1, WakeMoves DEF TypeOK
    <3>4. Same
      BY <2>11, <3>1, <3>2, <3>3 DEF Contends, UnlockReturn, UnlockWake
    <3>5. QED  BY <3>4, SameCounts
  <2>12. CASE AwaitDone(t)
    <3>1. Same
      BY <2>1, <2>12 DEF TypeOK, PlaceOK, Contends, AwaitDone, NextCall, Allowed, Return
    <3>2. QED  BY <3>1, SameCounts
  <2>13. CASE WaitSequence(t)
    <3>1. Same
      BY <2>1, <2>13 DEF TypeOK, PlaceOK, Contends, WaitSequence
    <3>2. QED  BY <3>1, SameCounts
  <2>14. CASE WaitFutex(t)
    <3>1. Same
      BY <2>1, <2>14 DEF TypeOK, PlaceOK, Contends, WaitFutex
    <3>2. QED  BY <3>1, SameCounts
  <2>15. CASE Signal(t)
    <3>1. Same
      BY <2>1, <2>15 DEF TypeOK, PlaceOK, Contends, Signal, TestWaiters, NextCall, Allowed, Return
    <3>2. QED  BY <3>1, SameCounts
  <2>16. CASE SignalAdvance(t)
    <3>1. Same
      BY <2>1, <2>16 DEF TypeOK, PlaceOK, Contends, SignalAdvance, Advance
    <3>2. QED  BY <3>1, SameCounts
  <2>17. CASE SignalWake(t)
    <3>1. PICK w \in WakeOne(condQueue, pc) : pc' = [w.pcs EXCEPT ![t] = "run"]
      BY <2>17 DEF SignalWake
    <3>2. \A u \in Threads : Contends(w.pcs[u]) <=> Contends(pc[u])
      BY WakeCounts
    <3>3. w.pcs \in [Threads -> PCs]
      BY <2>1, WakeMoves DEF TypeOK
    <3>4. Same
      BY <2>17, <3>1, <3>2, <3>3 DEF Contends, SignalWake
    <3>5. QED  BY <3>4, SameCounts
  <2>18. CASE SignalAll(t)
    <3>1. Same
      BY <2>1, <2>18 DEF TypeOK, PlaceOK, Contends, SignalAll, TestWaiters, NextCall, Allowed, Return
    <3>2. QED  BY <3>1, SameCounts
  <2>19. CASE SignalAllAdvance(t)
    <3>1. Same
      BY <2>1, <2>19 DEF TypeOK, PlaceOK, Contends, SignalAllAdvance, Advance
    <3>2. QED  BY <3>1, SameCounts
  <2>20. CASE SignalAllLoad(t)
    <3>1. Same
      BY <2>1, <2>20 DEF TypeOK, PlaceOK, Contends, SignalAllLoad
    <3>2. QED  BY <3>1, SameCounts
  <2>21. CASE SignalAllRequeue(t)
    <3>1. Same
      BY <2>1, <2>21 DEF TypeOK, PlaceOK, Contends, SignalAllRequeue, Return
    <3>2. QED  BY <3>1, SameCounts
  <2>22. CASE Set(t)
    <3>1. Same
      BY <2>1, <2>22 DEF TypeOK, PlaceOK, Contends, Set, NextCall, Allowed, Return
    <3>2. QED  BY <3>1, SameCounts
  <2>23. CASE Timeout(t)
    <3>1. Same
      BY <2>1, <2>23 DEF TypeOK, PlaceOK, Contends, Timeout, LeaveQueue, AfterSleep
    <3>2. QED  BY <3>1, SameCounts
  <2>24. CASE Interrupted(t)
    <3>1. Same
      BY <2>1, <2>24 DEF TypeOK, PlaceOK, Contends, Interrupted, LeaveQueue, AfterSleep
    <3>2. QED  BY <3>1, SameCounts
  <2>25. CASE CasFails(t)
    <3>1. Same
      BY <2>1, <2>25 DEF TypeOK, PlaceOK, Contends, CasFails
    <3>2. QED  BY <3>1, SameCounts
  <2>26. QED
    BY <1>2, <2>2, <2>3, <2>4, <2>5, <2>6, <2>7, <2>8, <2>9, <2>10, <2>11, <2>12, <2>13,
       <2>14, <2>15, <2>16, <2>17, <2>18, <2>19, <2>20, <2>21, <2>22, <2>23, <2>24, <2>25,
       LockContendCounts, LockUncontendCounts, WaitCounts, WaitReturnCounts DEF Step
<1>3. QED  BY <1>1, <1>2 DEF Next

\* Where the helpers stay helpers and no thread falls asleep on the mutex, nobody is stranded.
LEMMA HelpersStay ==
  ASSUME NoStrandedSleeper, mState' = mState, mutexQueue' \subseteq mutexQueue,
         \A u \in Threads : pc[u] \in Helping => pc'[u] \in Helping
  PROVE  NoStrandedSleeper'
  BY DEF NoStrandedSleeper

\* UnlockCheck finds no contender only when nobody sleeps.
LEMMA UnlockCheckServes ==
  ASSUME IInv, CountOK, NoStrandedSleeper, NEW t \in Threads, UnlockCheck(t)
  PROVE  NoStrandedSleeper'
<1>1. TypeOK /\ \A u \in Threads : PlaceOK(u)
  BY DEF IInv
<1>2. CASE mNumContenders > 0
  <2>1. t \in Threads /\ pc'[t] \in Helping
    BY <1>1, <1>2 DEF TypeOK, UnlockCheck, Helping
  <2>2. QED  BY <2>1 DEF NoStrandedSleeper
<1>3. CASE ~(mNumContenders > 0)
  <2>1. Cardinality(Contending) \in Nat /\ Cardinality(Waiting) \in Nat
    BY FS_CardinalityType DEF CountOK
  <2>2. Cardinality(Contending) = 0 /\ Cardinality(Waiting) = 0
    BY <1>3, <2>1 DEF CountOK, CountsExact
  <2>3. Contending = {} /\ Waiting = {}
    BY <2>2, FS_EmptySet DEF CountOK
  <2>4. \A u \in mutexQueue : u \in Contending \cup Waiting
    BY <1>1 DEF TypeOK, PlaceOK, Contending, Waiting
  <2>5. mutexQueue' = {}
    BY <2>3, <2>4 DEF UnlockCheck
  <2>6. QED  BY <2>5 DEF NoStrandedSleeper
<1>4. QED  BY <1>2, <1>3

\* UnlockWake wakes a sleeper if there is one, and that one goes on to lock.
LEMMA UnlockWakeServes ==
  ASSUME IInv, NoStrandedSleeper, NEW t \in Threads, UnlockWake(t)
  PROVE  NoStrandedSleeper'
<1>1. TypeOK /\ \A u \in Threads : PlaceOK(u)
  BY DEF IInv
<1>2. CASE mutexQueue = {}
  <2>1. mutexQueue' = {}
    BY <1>2 DEF UnlockWake, WakeOne
  <2>2. QED  BY <2>1 DEF NoStrandedSleeper
<1>3. CASE mutexQueue # {}
  <2>1. PICK w \in WakeOne(mutexQueue, pc) : UnlockReturn(t, w.pcs)
    BY DEF UnlockWake
  <2>2. PICK u \in mutexQueue : w = [queue |-> mutexQueue \ {u}, pcs |-> [pc EXCEPT ![u] = AfterSleep(u)]]
    BY <1>3 DEF WakeOne
  <2>3. u \in Threads /\ u # t
    BY <1>1 DEF TypeOK, PlaceOK, UnlockWake
  <2>4. w.pcs[u] = AfterSleep(u) /\ w.pcs \in [Threads -> PCs]
    <3>1. AfterSleep(u) \in PCs
      BY DEF AfterSleep, PCs
    <3>2. QED  BY <1>1, <2>2, <2>3, <3>1 DEF TypeOK
  <2>5. pc'[u] = AfterSleep(u)
    BY <2>1, <2>3, <2>4 DEF UnlockReturn
  <2>6. pc'[u] \in Helping
    BY <2>5 DEF AfterSleep, Helping
  <2>7. QED  BY <2>3, <2>6 DEF NoStrandedSleeper
<1>4. QED  BY <1>2, <1>3

\* Every step of threads that broadcast inside the lock leaves nobody stranded.
LEMMA NextServes ==
  IInv /\ CountOK /\ NoStrandedSleeper /\ BroadcastsInside /\ [Next]_vars => NoStrandedSleeper'
<1> SUFFICES ASSUME IInv, CountOK, NoStrandedSleeper, BroadcastsInside, [Next]_vars PROVE NoStrandedSleeper'
  OBVIOUS
<1>1. CASE UNCHANGED vars
  BY <1>1, HelpersStay DEF vars
<1>2. ASSUME NEW t \in Threads, Step(t) \/ Timeout(t) \/ Interrupted(t) \/ CasFails(t)
      PROVE  NoStrandedSleeper'
  <2>1. TypeOK /\ PlaceOK(t) /\ StateMeansHeld
    BY DEF IInv
  <2> DEFINE Stay == /\ mState' = mState /\ mutexQueue' \subseteq mutexQueue
                     /\ \A u \in Threads : pc[u] \in Helping => pc'[u] \in Helping
  <2>2. CASE Lock(t)
    <3>1. Stay
      BY <2>1, <2>2 DEF TypeOK, PlaceOK, Helping, Lock, NextCall, Allowed, Return
    <3>2. QED  BY <3>1, HelpersStay
  <2>3. CASE LockLoad(t)
    <3>1. Stay
      BY <2>1, <2>3 DEF TypeOK, PlaceOK, Helping, LockLoad
    <3>2. QED  BY <3>1, HelpersStay
  <2>4. CASE LockCas(t)
    <3>1. mState' = 1 \/ pc'[t] \in Helping
      BY <2>1, <2>4 DEF TypeOK, LockCas, Helping
    <3>2. QED  BY <3>1 DEF NoStrandedSleeper
  <2>5. CASE LockContend(t)
    <3>1. Stay
      BY <2>1, <2>5 DEF TypeOK, PlaceOK, Helping, LockContend
    <3>2. QED  BY <3>1, HelpersStay
  <2>6. CASE LockFutexWait(t)
    <3>1. mState' = 1 \/ pc'[t] \in Helping
      BY <2>1, <2>6 DEF TypeOK, LockFutexWait, Helping
    <3>2. QED  BY <3>1 DEF NoStrandedSleeper
  <2>7. CASE LockUncontend(t)
    <3>1. Stay
      BY <2>1, <2>7 DEF TypeOK, PlaceOK, Helping, LockUncontend
    <3>2. QED  BY <3>1, HelpersStay
  <2>8. CASE LockOwn(t)
    <3>1. Stay
      BY <2>1, <2>8 DEF TypeOK, PlaceOK, Helping, LockOwn, Return
    <3>2. QED  BY <3>1, HelpersStay
  <2>9. CASE Unlock(t)
    <3>1. Stay
      BY <2>1, <2>9 DEF TypeOK, PlaceOK, Helping, Unlock, NextCall, Allowed, Return
    <3>2. QED  BY <3>1, HelpersStay
  <2>10. CASE UnlockLoad(t)
    <3>1. Stay
      BY <2>1, <2>10 DEF TypeOK, PlaceOK, Helping, UnlockLoad
    <3>2. QED  BY <3>1, HelpersStay
  <2>11. CASE UnlockCas(t)
    <3>1. mState = 1
      BY <2>1, <2>11 DEF StateMeansHeld, Holding, UnlockCas
    <3>2. pc'[t] \in Helping
      BY <2>1, <2>11, <3>1 DEF TypeOK, UnlockCas, Helping
    <3>3. QED  BY <3>2 DEF NoStrandedSleeper
  <2>12. CASE AwaitDone(t)
    <3>1. Stay
      BY <2>1, <2>12 DEF TypeOK, PlaceOK, Helping, AwaitDone, NextCall, Allowed, Return
    <3>2. QED  BY <3>1, HelpersStay
  <2>13. CASE Wait(t)
    <3>1. Stay
      BY <2>1, <2>13 DEF TypeOK, PlaceOK, Helping, Wait, NextCall, Allowed
    <3>2. QED  BY <3>1, HelpersStay
  <2>14. CASE WaitSequence(t)
    <3>1. Stay
      BY <2>1, <2>14 DEF TypeOK, PlaceOK, Helping, WaitSequence
    <3>2. QED  BY <3>1, HelpersStay
  <2>15. CASE WaitFutex(t)
    <3>1. Stay
      BY <2>1, <2>15 DEF TypeOK, PlaceOK, Helping, WaitFutex
    <3>2. QED  BY <3>1, HelpersStay
  <2>16. CASE WaitReturn(t)
    <3>1. Stay
      BY <2>1, <2>16 DEF TypeOK, PlaceOK, Helping, WaitReturn
    <3>2. QED  BY <3>1, HelpersStay
  <2>17. CASE Signal(t)
    <3>1. Stay
      BY <2>1, <2>17 DEF TypeOK, PlaceOK, Helping, Signal, TestWaiters, NextCall, Allowed, Return
    <3>2. QED  BY <3>1, HelpersStay
  <2>18. CASE SignalAdvance(t)
    <3>1. Stay
      BY <2>1, <2>18 DEF TypeOK, PlaceOK, Helping, SignalAdvance, Advance
    <3>2. QED  BY <3>1, HelpersStay
  <2>19. CASE SignalWake(t)
    <3>1. PICK w \in WakeOne(condQueue, pc) : pc' = [w.pcs EXCEPT ![t] = "run"]
      BY <2>19 DEF SignalWake
    <3>2. \A u \in Threads : pc[u] \in Helping => w.pcs[u] \in Helping
      BY WakeCounts
    <3>3. w.pcs \in [Threads -> PCs]
      BY <2>1, WakeMoves DEF TypeOK
    <3>4. Stay
      BY <2>19, <3>1, <3>2, <3>3 DEF SignalWake, Helping
    <3>5. QED  BY <3>4, HelpersStay
  <2>20. CASE SignalAll(t)
    <3>1. Stay
      BY <2>1, <2>20 DEF TypeOK, PlaceOK, Helping, SignalAll, TestWaiters, NextCall, Allowed, Return
    <3>2. QED  BY <3>1, HelpersStay
  <2>21. CASE SignalAllAdvance(t)
    <3>1. Stay
      BY <2>1, <2>21 DEF TypeOK, PlaceOK, Helping, SignalAllAdvance, Advance
    <3>2. QED  BY <3>1, HelpersStay
  <2>22. CASE SignalAllLoad(t)
    <3>1. Stay
      BY <2>1, <2>22 DEF TypeOK, PlaceOK, Helping, SignalAllLoad
    <3>2. QED  BY <3>1, HelpersStay
  <2>23. CASE SignalAllRequeue(t)
    <3>1. InSection(t)
      BY <2>1, <2>23 DEF BroadcastsInside, InSection, InCall, SignalAllRequeue
    <3>2. mState' = 1
      BY <2>1, <2>23, <3>1 DEF StateMeansHeld, Holding, SignalAllRequeue
    <3>3. QED  BY <3>2 DEF NoStrandedSleeper
  <2>24. CASE Set(t)
    <3>1. Stay
      BY <2>1, <2>24 DEF TypeOK, PlaceOK, Helping, Set, NextCall, Allowed, Return
    <3>2. QED  BY <3>1, HelpersStay
  <2>25. CASE Timeout(t)
    <3>1. Stay
      BY <2>1, <2>25 DEF TypeOK, PlaceOK, Helping, Timeout, LeaveQueue, AfterSleep
    <3>2. QED  BY <3>1, HelpersStay
  <2>26. CASE Interrupted(t)
    <3>1. Stay
      BY <2>1, <2>26 DEF TypeOK, PlaceOK, Helping, Interrupted, LeaveQueue, AfterSleep
    <3>2. QED  BY <3>1, HelpersStay
  <2>27. CASE CasFails(t)
    <3>1. Stay
      BY <2>1, <2>27 DEF TypeOK, PlaceOK, Helping, CasFails
    <3>2. QED  BY <3>1, HelpersStay
  <2>28. QED
    BY <1>2, <2>2, <2>3, <2>4, <2>5, <2>6, <2>7, <2>8, <2>9, <2>10, <2>11, <2>12, <2>13,
       <2>14, <2>15, <2>16, <2>17, <2>18, <2>19, <2>20, <2>21, <2>22, <2>23, <2>24, <2>25, <2>26, <2>27,
       UnlockCheckServes, UnlockWakeServes DEF Step
<1>3. QED  BY <1>1, <1>2 DEF Next

-----------------------------------------------------------------------------
\* The invariant holds in every reachable state, for every set of threads,
\* whatever they call and however often their waits are interrupted.
THEOREM Invariance == InitialValues = {0} => (Spec => []IInv)
<1>1. InitialValues = {0} /\ Init => IInv
  BY InitHolds
<1>2. IInv /\ [Next]_vars => IInv'
  BY NextKeeps
<1>3. QED  BY <1>1, <1>2, PTL DEF Spec

\* The variables keep their types; mRecursionCount never underflows.
THEOREM TypeCorrect == InitialValues = {0} => (Spec => []TypeOK)
<1>1. IInv => TypeOK
  BY DEF IInv
<1>2. QED  BY <1>1, Invariance, PTL

\* Mutex::Lock and Condition::Wait give the mutex to one thread at a time.
THEOREM Exclusion == InitialValues = {0} => (Spec => []MutualExclusion)
<1>1. IInv => MutualExclusion
  BY DEF IInv
<1>2. QED  BY <1>1, Invariance, PTL

\* mState is 0 exactly when nobody holds the mutex, 1 exactly when somebody does.
THEOREM StateCorrect == InitialValues = {0} => (Spec => []StateMeansHeld)
<1>1. IInv => StateMeansHeld
  BY DEF IInv
<1>2. QED  BY <1>1, Invariance, PTL

\* The owner and the recursion count are exact in every critical section, also
\* after a Wait that gave up and took back a mutex locked several times.
THEOREM RecursionCorrect == InitialValues = {0} => (Spec => []RecursionExact)
<1>1. IInv => RecursionExact
  BY DEF IInv, OwnerOK, RecursionExact
<1>2. QED  BY <1>1, Invariance, PTL

\* mNumContenders and mNumWaiters are exact, whatever is signalled, requeued,
\* interrupted or timed out in between.
THEOREM CountsCorrect == InitialValues = {0} => (Spec => []CountsExact)
<1>1. InitialValues = {0} /\ Init => CountOK
  <2> SUFFICES ASSUME InitialValues = {0}, Init PROVE CountOK
    OBVIOUS
  <2>1. Contending = {} /\ Waiting = {}
    BY DEF Init, Contending, Waiting
  <2>2. IsFiniteSet({}) /\ Cardinality({}) = 0
    BY FS_EmptySet
  <2>3. mNumContenders = 0 /\ mNumWaiters = 0
    BY DEF Init
  <2>4. QED  BY <2>1, <2>2, <2>3 DEF CountOK, CountsExact
<1>2. IInv /\ CountOK /\ [Next]_vars => CountOK'
  BY NextCounts
<1>3. CountOK => CountsExact
  BY DEF CountOK
<1>4. QED  BY <1>1, <1>2, <1>3, Invariance, PTL DEF Spec

\* Unlock leaves no sleeper behind on a free mutex, as long as SignalAll is called
\* with the mutex held: the contender count it reads after the release covers
\* whoever may still fall asleep or was requeued.
THEOREM SleepersServed ==
  InitialValues = {0} => (Spec /\ []BroadcastsInside => []NoStrandedSleeper)
<1>1. InitialValues = {0} /\ Init => CountOK /\ NoStrandedSleeper
  <2> SUFFICES ASSUME InitialValues = {0}, Init PROVE CountOK /\ NoStrandedSleeper
    OBVIOUS
  <2>1. Contending = {} /\ Waiting = {}
    BY DEF Init, Contending, Waiting
  <2>2. IsFiniteSet({}) /\ Cardinality({}) = 0
    BY FS_EmptySet
  <2>3. mNumContenders = 0 /\ mNumWaiters = 0 /\ mutexQueue = {}
    BY DEF Init
  <2>4. QED  BY <2>1, <2>2, <2>3 DEF CountOK, CountsExact, NoStrandedSleeper
<1>2. IInv /\ CountOK /\ [Next]_vars => CountOK'
  BY NextCounts
<1>3. IInv /\ CountOK /\ NoStrandedSleeper /\ BroadcastsInside /\ [Next]_vars => NoStrandedSleeper'
  BY NextServes
<1>4. QED  BY <1>1, <1>2, <1>3, Invariance, PTL DEF Spec
=============================================================================
