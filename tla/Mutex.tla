-------------------------------- MODULE Mutex --------------------------------
(***************************************************************************)
(* The runtime's futex-based Mutex and Condition (runtime/util/mutex.cpp): *)
(* one Mutex, one Condition on it, and a set of threads that each run a    *)
(* program of calls.  Every access to a shared atomic and every futex      *)
(* system call is a step of its own.                                       *)
(***************************************************************************)
EXTENDS Integers, Sequences, FiniteSets

CONSTANTS
    Threads,
    Programs,      \* the calls each thread makes, in order: functions on Threads
    Recursive,     \* Mutex::mRecursive
    InitialValues, \* what the memory of the atomics the constructors do not set holds
    MaxSpurious    \* bound on EINTR of futex waits and on spurious failures of
                   \* compare_exchange_weak

\* A call of the client: Await is while (!ready) Wait(), TimedWait one timed
\* wait whose result is ignored, Set makes the awaited condition true.
Calls == {"Lock", "Unlock", "Await", "TimedWait", "Set", "Signal", "SignalAll"}

ASSUME MutexAssumption ==
    /\ "none" \notin Threads
    /\ Programs \subseteq [Threads -> Seq(Calls)]
    /\ Recursive \in BOOLEAN
    /\ InitialValues \subseteq Int
    /\ MaxSpurious \in Nat

VARIABLES
    mState, mExclusiveOwner, mNumContenders, mRecursionCount,   \* Mutex
    mSequence, mNumWaiters,                                     \* Condition
    mutexQueue,   \* threads asleep in the kernel on &mState
    condQueue,    \* threads asleep in the kernel on &mSequence
    pc, prog,     \* where each thread is, and the calls it has left
    inWait,       \* the thread's Lock and Unlock are those of Wait or TimedWait
    saved,        \* oldRecursionCount of Wait
    seen,         \* curSequence of Wait and SignalAll
    depth,        \* history: how often the client has locked
    ready,        \* the condition the clients wait for
    spurious      \* history: EINTR wakeups and spurious failures so far

mutexVars == <<mState, mExclusiveOwner, mNumContenders, mRecursionCount>>
condVars  == <<mSequence, mNumWaiters>>
queues    == <<mutexQueue, condQueue>>
locals    == <<inWait, saved, seen>>
vars == <<mState, mExclusiveOwner, mNumContenders, mRecursionCount, mSequence, mNumWaiters,
          mutexQueue, condQueue, pc, prog, inWait, saved, seen, depth, ready, spurious>>

PCs == {"run", "load", "cas", "contend", "fwait", "asleep", "uncontend", "own",
        "uload", "ucas", "ucheck", "uwake", "wseq", "cwait", "reacquired",
        "sinc", "swake", "ainc", "rqload", "requeue"}

Goto(t, l) == pc' = [pc EXCEPT ![t] = l]

\* The client's side of the contract: what a caller must hold for each call.
Allowed(t, c) ==
    /\ c = "Lock" => Recursive \/ depth[t] = 0
    /\ c \in {"Unlock", "Await", "TimedWait"} => depth[t] > 0
NextCall(t, c) ==
    pc[t] = "run" /\ prog[t] # <<>> /\ Head(prog[t]) = c /\ Allowed(t, c)
Return(t) == Goto(t, "run") /\ prog' = [prog EXCEPT ![t] = Tail(@)]

\* Where a thread goes on that leaves FUTEX_WAIT: a contender drops its count
\* and retries, a waiter of the condition starts to lock the mutex.
AfterSleep(t) == IF pc[t] = "asleep" THEN "uncontend" ELSE "load"

\* FUTEX_WAKE of one thread of queue q; nothing happens when it is empty.
WakeOne(q, p) ==
    IF q = {} THEN {[queue |-> q, pcs |-> p]}
    ELSE {[queue |-> q \ {u}, pcs |-> [p EXCEPT ![u] = AfterSleep(u)]] : u \in q}

Init ==
    /\ mState \in InitialValues
    /\ mExclusiveOwner = "none"
    /\ mNumContenders \in InitialValues
    /\ mRecursionCount = 0
    /\ mSequence \in InitialValues
    /\ mNumWaiters = 0
    /\ mutexQueue = {}
    /\ condQueue = {}
    /\ pc = [t \in Threads |-> "run"]
    /\ prog \in Programs
    /\ inWait = [t \in Threads |-> FALSE]
    /\ saved = [t \in Threads |-> 0]
    /\ seen = [t \in Threads |-> 0]
    /\ depth = [t \in Threads |-> 0]
    /\ ready = FALSE
    /\ spurious = 0

-----------------------------------------------------------------------------
(***************************************************************************)
(* Mutex::Lock.                                                            *)
(***************************************************************************)
Lock(t) ==
    /\ NextCall(t, "Lock")
    /\ IF Recursive /\ mExclusiveOwner = t
       THEN /\ mRecursionCount' = mRecursionCount + 1
            /\ depth' = [depth EXCEPT ![t] = @ + 1]
            /\ Return(t)
       ELSE Goto(t, "load") /\ UNCHANGED <<mRecursionCount, depth, prog>>
    /\ UNCHANGED <<mState, mExclusiveOwner, mNumContenders, condVars, queues, locals, ready, spurious>>

LockLoad(t) ==
    /\ pc[t] = "load"
    /\ Goto(t, IF mState = 0 THEN "cas" ELSE "contend")
    /\ UNCHANGED <<mutexVars, condVars, queues, prog, locals, depth, ready, spurious>>

\* compare_exchange_weak; a failure starts over.
LockCas_NoCompare(t) ==
    /\ pc[t] = "cas"
    /\ mState' = 1 /\ Goto(t, "own")
    /\ UNCHANGED <<mExclusiveOwner, mNumContenders, mRecursionCount, condVars, queues, prog,
                   locals, depth, ready, spurious>>

LockCas(t) ==
    /\ pc[t] = "cas"
    /\ IF mState = 0 THEN mState' = 1 /\ Goto(t, "own")
                     ELSE Goto(t, "load") /\ UNCHANGED mState
    /\ UNCHANGED <<mExclusiveOwner, mNumContenders, mRecursionCount, condVars, queues, prog,
                   locals, depth, ready, spurious>>

LockContend(t) ==
    /\ pc[t] = "contend"
    /\ mNumContenders' = mNumContenders + 1
    /\ Goto(t, "fwait")
    /\ UNCHANGED <<mState, mExclusiveOwner, mRecursionCount, condVars, queues, prog, locals,
                   depth, ready, spurious>>

\* FUTEX_WAIT(&mState, 1): EAGAIN when the state is not 1.
LockFutexWait(t) ==
    /\ pc[t] = "fwait"
    /\ IF mState = 1 THEN mutexQueue' = mutexQueue \cup {t} /\ Goto(t, "asleep")
                     ELSE Goto(t, "uncontend") /\ UNCHANGED mutexQueue
    /\ UNCHANGED <<mutexVars, condVars, condQueue, prog, locals, depth, ready, spurious>>

LockUncontend(t) ==
    /\ pc[t] = "uncontend"
    /\ mNumContenders' = mNumContenders - 1
    /\ Goto(t, "load")
    /\ UNCHANGED <<mState, mExclusiveOwner, mRecursionCount, condVars, queues, prog, locals,
                   depth, ready, spurious>>

\* The end of Lock: the owner and the recursion count.
LockOwn(t) ==
    /\ pc[t] = "own"
    /\ mExclusiveOwner' = t
    /\ mRecursionCount' = mRecursionCount + 1
    /\ IF inWait[t] THEN Goto(t, "reacquired") /\ UNCHANGED <<prog, depth>>
       ELSE Return(t) /\ depth' = [depth EXCEPT ![t] = @ + 1]
    /\ UNCHANGED <<mState, mNumContenders, condVars, queues, locals, ready, spurious>>

-----------------------------------------------------------------------------
(***************************************************************************)
(* Mutex::Unlock.                                                          *)
(***************************************************************************)
Unlock(t) ==
    /\ NextCall(t, "Unlock")
    /\ mRecursionCount' = mRecursionCount - 1
    /\ IF ~Recursive \/ mRecursionCount = 1
       THEN Goto(t, "uload") /\ UNCHANGED <<prog, depth>>
       ELSE Return(t) /\ depth' = [depth EXCEPT ![t] = @ - 1]
    /\ UNCHANGED <<mState, mExclusiveOwner, mNumContenders, condVars, queues, locals, ready, spurious>>

\* The load of the release loop, which logs and spins on any state but 1.
UnlockLoad(t) ==
    /\ pc[t] = "uload"
    /\ mState = 1
    /\ mExclusiveOwner' = "none"
    /\ Goto(t, "ucas")
    /\ UNCHANGED <<mState, mNumContenders, mRecursionCount, condVars, queues, prog, locals,
                   depth, ready, spurious>>

UnlockCas(t) ==
    /\ pc[t] = "ucas"
    /\ IF mState = 1
       THEN /\ mState' = 0
            /\ Goto(t, "ucheck")
            /\ depth' = IF inWait[t] THEN depth ELSE [depth EXCEPT ![t] = @ - 1]
       ELSE Goto(t, "uload") /\ UNCHANGED <<mState, depth>>
    /\ UNCHANGED <<mExclusiveOwner, mNumContenders, mRecursionCount, condVars, queues, prog,
                   locals, ready, spurious>>

\* Unlock returns to the client, or to Wait.
UnlockReturn(t, p) ==
    IF inWait[t] THEN pc' = [p EXCEPT ![t] = "cwait"] /\ UNCHANGED prog
    ELSE pc' = [p EXCEPT ![t] = "run"] /\ prog' = [prog EXCEPT ![t] = Tail(@)]

\* The load of mNumContenders that decides whether to wake anybody.
UnlockCheck_OffByOne(t) ==
    /\ pc[t] = "ucheck"
    /\ IF mNumContenders > 1 THEN Goto(t, "uwake") /\ UNCHANGED prog
                             ELSE UnlockReturn(t, pc)
    /\ UNCHANGED <<mutexVars, condVars, queues, locals, depth, ready, spurious>>

UnlockCheck(t) ==
    /\ pc[t] = "ucheck"
    /\ IF mNumContenders > 0 THEN Goto(t, "uwake") /\ UNCHANGED prog
                             ELSE UnlockReturn(t, pc)
    /\ UNCHANGED <<mutexVars, condVars, queues, locals, depth, ready, spurious>>

\* FUTEX_WAKE(&mState, 1).
UnlockWake(t) ==
    /\ pc[t] = "uwake"
    /\ \E w \in WakeOne(mutexQueue, pc) :
          mutexQueue' = w.queue /\ UnlockReturn(t, w.pcs)
    /\ UNCHANGED <<mutexVars, condVars, condQueue, locals, depth, ready, spurious>>

-----------------------------------------------------------------------------
(***************************************************************************)
(* Condition::Wait and Condition::TimedWait.                               *)
(***************************************************************************)
\* Await finds its condition true.
AwaitDone(t) ==
    /\ NextCall(t, "Await")
    /\ ready
    /\ Return(t)
    /\ UNCHANGED <<mutexVars, condVars, queues, locals, depth, ready, spurious>>

\* Wait up to the load of mSequence.
Wait(t) ==
    /\ (NextCall(t, "Await") /\ ~ready) \/ NextCall(t, "TimedWait")
    /\ saved' = [saved EXCEPT ![t] = mRecursionCount]
    /\ mNumWaiters' = mNumWaiters + 1
    /\ mNumContenders' = mNumContenders + 1
    /\ mRecursionCount' = 1
    /\ inWait' = [inWait EXCEPT ![t] = TRUE]
    /\ Goto(t, "wseq")
    /\ UNCHANGED <<mState, mExclusiveOwner, mSequence, queues, prog, seen, depth, ready, spurious>>

\* The load of mSequence, and the start of the Unlock that follows it.
WaitSequence(t) ==
    /\ pc[t] = "wseq"
    /\ seen' = [seen EXCEPT ![t] = mSequence]
    /\ mRecursionCount' = mRecursionCount - 1
    /\ Goto(t, IF ~Recursive \/ mRecursionCount = 1 THEN "uload" ELSE "cwait")
    /\ UNCHANGED <<mState, mExclusiveOwner, mNumContenders, condVars, queues, prog, inWait,
                   saved, depth, ready, spurious>>

\* FUTEX_WAIT(&mSequence, curSequence): EAGAIN when a signal came in between.
WaitFutex_NoCompare(t) ==
    /\ pc[t] = "cwait"
    /\ condQueue' = condQueue \cup {t} /\ UNCHANGED pc
    /\ t \notin condQueue \cup mutexQueue
    /\ UNCHANGED <<mutexVars, condVars, mutexQueue, prog, locals, depth, ready, spurious>>

WaitFutex(t) ==
    /\ pc[t] = "cwait"
    /\ IF mSequence = seen[t] THEN condQueue' = condQueue \cup {t} /\ UNCHANGED pc
                              ELSE Goto(t, "load") /\ UNCHANGED condQueue
    /\ t \notin condQueue \cup mutexQueue
    /\ UNCHANGED <<mutexVars, condVars, mutexQueue, prog, locals, depth, ready, spurious>>

\* The end of Wait, the mutex held again.
WaitReturn_KeepsContender(t) ==
    /\ pc[t] = "reacquired"
    /\ mNumWaiters' = mNumWaiters - 1
    /\ mRecursionCount' = saved[t]
    /\ inWait' = [inWait EXCEPT ![t] = FALSE]
    /\ Goto(t, "run")
    /\ prog' = IF Head(prog[t]) = "TimedWait" THEN [prog EXCEPT ![t] = Tail(@)] ELSE prog
    /\ UNCHANGED <<mState, mExclusiveOwner, mNumContenders, mSequence, queues, saved, seen, depth, ready, spurious>>

WaitReturn_NoRestore(t) ==
    /\ pc[t] = "reacquired"
    /\ mNumWaiters' = mNumWaiters - 1
    /\ mNumContenders' = mNumContenders - 1
    /\ inWait' = [inWait EXCEPT ![t] = FALSE]
    /\ Goto(t, "run")
    /\ prog' = IF Head(prog[t]) = "TimedWait" THEN [prog EXCEPT ![t] = Tail(@)] ELSE prog
    /\ UNCHANGED <<mState, mExclusiveOwner, mRecursionCount, mSequence, queues, saved, seen, depth, ready, spurious>>

WaitReturn(t) ==
    /\ pc[t] = "reacquired"
    /\ mNumWaiters' = mNumWaiters - 1
    /\ mNumContenders' = mNumContenders - 1
    /\ mRecursionCount' = saved[t]
    /\ inWait' = [inWait EXCEPT ![t] = FALSE]
    /\ Goto(t, "run")
    /\ prog' = IF Head(prog[t]) = "TimedWait" THEN [prog EXCEPT ![t] = Tail(@)] ELSE prog
    /\ UNCHANGED <<mState, mExclusiveOwner, mSequence, queues, saved, seen, depth, ready, spurious>>

\* A sleeper leaves its queue without having been woken.
LeaveQueue(t) ==
    /\ t \in condQueue \cup mutexQueue
    /\ condQueue' = condQueue \ {t}
    /\ mutexQueue' = mutexQueue \ {t}
    /\ Goto(t, AfterSleep(t))
    /\ UNCHANGED <<mutexVars, condVars, prog, locals, depth, ready>>

\* ETIMEDOUT of a TimedWait, also after it was requeued to the mutex.
Timeout(t) ==
    /\ pc[t] = "cwait" /\ Head(prog[t]) = "TimedWait"
    /\ LeaveQueue(t)
    /\ UNCHANGED spurious

\* compare_exchange_weak fails although the value is the expected one.
CasFails(t) ==
    /\ spurious < MaxSpurious
    /\ pc[t] \in {"cas", "ucas"}
    /\ Goto(t, IF pc[t] = "cas" THEN "load" ELSE "uload")
    /\ spurious' = spurious + 1
    /\ UNCHANGED <<mutexVars, condVars, queues, prog, locals, depth, ready>>

\* EINTR of any futex wait.
Interrupted(t) ==
    /\ spurious < MaxSpurious
    /\ LeaveQueue(t)
    /\ spurious' = spurious + 1

-----------------------------------------------------------------------------
(***************************************************************************)
(* Condition::Signal and Condition::SignalAll.                             *)
(***************************************************************************)
\* The test of mNumWaiters that both begin with.
TestWaiters(t, l) ==
    /\ IF mNumWaiters > 0 THEN Goto(t, l) /\ UNCHANGED prog ELSE Return(t)
    /\ UNCHANGED <<mutexVars, condVars, queues, locals, depth, ready, spurious>>

\* mSequence++.
Advance(t, from, to) ==
    /\ pc[t] = from
    /\ mSequence' = mSequence + 1
    /\ Goto(t, to)
    /\ UNCHANGED <<mutexVars, mNumWaiters, queues, prog, locals, depth, ready, spurious>>

Signal(t) == NextCall(t, "Signal") /\ TestWaiters(t, "sinc")
SignalAdvance(t) == Advance(t, "sinc", "swake")

\* FUTEX_WAKE(&mSequence, 1).
SignalWake(t) ==
    /\ pc[t] = "swake"
    /\ \E w \in WakeOne(condQueue, pc) :
          /\ condQueue' = w.queue
          /\ pc' = [w.pcs EXCEPT ![t] = "run"]
    /\ prog' = [prog EXCEPT ![t] = Tail(@)]
    /\ UNCHANGED <<mutexVars, condVars, mutexQueue, locals, depth, ready, spurious>>

SignalAll(t) == NextCall(t, "SignalAll") /\ TestWaiters(t, "ainc")
SignalAllAdvance(t) == Advance(t, "ainc", "rqload")

SignalAllLoad(t) ==
    /\ pc[t] = "rqload"
    /\ seen' = [seen EXCEPT ![t] = mSequence]
    /\ Goto(t, "requeue")
    /\ UNCHANGED <<mutexVars, condVars, queues, prog, inWait, saved, depth, ready, spurious>>

\* FUTEX_CMP_REQUEUE(&mSequence, 0, &mState, curSequence): nobody is woken, all
\* sleepers move to the mutex; EAGAIN when the sequence changed meanwhile.
SignalAllRequeue(t) ==
    /\ pc[t] = "requeue"
    /\ IF mSequence = seen[t]
       THEN /\ mutexQueue' = mutexQueue \cup condQueue
            /\ condQueue' = {}
            /\ Return(t)
       ELSE Goto(t, "rqload") /\ UNCHANGED <<queues, prog>>
    /\ UNCHANGED <<mutexVars, condVars, locals, depth, ready, spurious>>

\* The client makes the condition true.
Set(t) ==
    /\ NextCall(t, "Set")
    /\ ready' = TRUE
    /\ Return(t)
    /\ UNCHANGED <<mutexVars, condVars, queues, locals, depth, spurious>>

-----------------------------------------------------------------------------
\* What thread t does when it is scheduled.
Step(t) ==
    \/ Lock(t) \/ LockLoad(t) \/ LockCas(t) \/ LockContend(t) \/ LockFutexWait(t)
    \/ LockUncontend(t) \/ LockOwn(t)
    \/ Unlock(t) \/ UnlockLoad(t) \/ UnlockCas(t) \/ UnlockCheck(t) \/ UnlockWake(t)
    \/ AwaitDone(t) \/ Wait(t) \/ WaitSequence(t) \/ WaitFutex(t) \/ WaitReturn(t)
    \/ Signal(t) \/ SignalAdvance(t) \/ SignalWake(t)
    \/ SignalAll(t) \/ SignalAllAdvance(t) \/ SignalAllLoad(t) \/ SignalAllRequeue(t)
    \/ Set(t)

Done == \A t \in Threads : pc[t] = "run" /\ prog[t] = <<>>

Next == \E t \in Threads : Step(t) \/ Timeout(t) \/ Interrupted(t) \/ CasFails(t)

\* The kernel schedules every runnable thread and lets timeouts expire.
Fairness == \A t \in Threads : WF_vars(Step(t)) /\ WF_vars(Timeout(t))

Spec == Init /\ [][Next]_vars /\ Fairness

-----------------------------------------------------------------------------
(***************************************************************************)
(* Properties.                                                             *)
(***************************************************************************)
\* Inside a client's critical section, calls on the condition included.
InCall == {"run", "sinc", "swake", "ainc", "rqload", "requeue"}
InSection(t) == pc[t] \in InCall /\ depth[t] > 0
Holding(t) == InSection(t) \/ pc[t] \in {"own", "wseq", "uload", "ucas", "reacquired"}

\* Every variable has its type; the unsigned mRecursionCount never falls below
\* zero.
TypeOK ==
    /\ mState \in Int /\ mExclusiveOwner \in Threads \cup {"none"}
    /\ mNumContenders \in Int /\ mRecursionCount \in Nat
    /\ mSequence \in Int /\ mNumWaiters \in Int
    /\ mutexQueue \subseteq Threads /\ condQueue \subseteq Threads
    /\ pc \in [Threads -> PCs]
    /\ prog \in [Threads -> Seq(Calls)]
    /\ inWait \in [Threads -> BOOLEAN]
    /\ saved \in [Threads -> Nat] /\ seen \in [Threads -> Int]
    /\ depth \in [Threads -> Nat]
    /\ ready \in BOOLEAN /\ spurious \in 0..MaxSpurious

\* Two threads are never both between Lock and Unlock, with Wait giving the
\* mutex up and taking it again in the middle of a critical section.
MutualExclusion ==
    \A t, u \in Threads : Holding(t) /\ Holding(u) => t = u

\* mutex.h: "0 is unheld, 1 is held."
StateMeansHeld ==
    /\ mState \in {0, 1}
    /\ mState = 1 <=> \E t \in Threads : Holding(t)

\* In its critical section a thread is the recorded owner and the recursion
\* count is the number of its Locks, after a Wait too: Wait saves and restores it.
RecursionExact ==
    \A t \in Threads : InSection(t) => mExclusiveOwner = t /\ mRecursionCount = depth[t]

\* mNumContenders counts the threads that may be asleep on the mutex: those in
\* the contended path of Lock, and the waiters, whom SignalAll may requeue.
Contending == {t \in Threads : pc[t] \in {"fwait", "asleep", "uncontend"}}
Waiting == {t \in Threads : inWait[t]}
CountsExact ==
    /\ mNumContenders = Cardinality(Contending) + Cardinality(Waiting)
    /\ mNumWaiters = Cardinality(Waiting)

\* A free mutex never has sleepers with nobody on the way to wake them: some
\* awake thread is about to wake one, or to take the mutex and release it later.
Helping == {"load", "cas", "contend", "fwait", "uncontend", "ucheck", "uwake"}
NoStrandedSleeper ==
    mState = 0 /\ mutexQueue # {} => \E t \in Threads : pc[t] \in Helping

(***************************************************************************)
(* The inductive invariant behind the safety properties: how a thread's    *)
(* place in the code determines what it holds, and what the owner and the  *)
(* recursion count then are.                                               *)
(***************************************************************************)
Acquiring == {"load", "cas", "contend", "fwait", "asleep", "uncontend", "own"}

PlaceOK(t) ==
    /\ pc[t] # "run" => prog[t] # <<>>
    /\ pc[t] \in {"wseq", "cwait", "reacquired"} => inWait[t]
    /\ pc[t] \in InCall => ~inWait[t]
    /\ inWait[t] => saved[t] = depth[t] /\ depth[t] > 0
    /\ pc[t] \in Acquiring /\ ~inWait[t] => depth[t] = 0
    /\ pc[t] \in {"uload", "ucas"} /\ ~inWait[t] => depth[t] = 1
    /\ pc[t] \in {"ucheck", "uwake"} /\ ~inWait[t] => depth[t] = 0
    /\ ~Recursive => depth[t] <= 1
    /\ t \in mutexQueue => pc[t] \in {"asleep", "cwait"}
    /\ t \in condQueue => pc[t] = "cwait" /\ t \notin mutexQueue

OwnerOK(t) ==
    /\ InSection(t) => mExclusiveOwner = t /\ mRecursionCount = depth[t]
    /\ pc[t] = "wseq" => mExclusiveOwner = t /\ mRecursionCount = 1
    /\ pc[t] = "reacquired" => mExclusiveOwner = t
    /\ pc[t] \in {"own", "uload", "ucas"} => mRecursionCount = 0
    /\ mExclusiveOwner = t => Holding(t) /\ pc[t] \notin {"own", "ucas"}

FreeOK == mState = 0 => mRecursionCount = 0

IInv ==
    /\ TypeOK
    /\ MutualExclusion
    /\ StateMeansHeld
    /\ FreeOK
    /\ \A t \in Threads : PlaceOK(t)
    /\ \A t \in Threads : OwnerOK(t)

\* The counts, with the finiteness they need.
CountOK == IsFiniteSet(Contending) /\ IsFiniteSet(Waiting) /\ CountsExact

\* The caller of SignalAll holds the mutex, as mutex.h says of what it changes
\* ("Modified while holding guard_"): requeued to a free mutex, the waiters would
\* be stranded.
BroadcastsInside ==
    \A t \in Threads : pc[t] \in {"ainc", "rqload", "requeue"} => depth[t] > 0

\* Every thread finishes its program: no wakeup is lost, nobody waits for ever
\* for a mutex that is free.
Termination == <>Done
=============================================================================
