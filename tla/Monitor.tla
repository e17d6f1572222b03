------------------------------- MODULE Monitor -------------------------------
(***************************************************************************)
(* The monitor of a libcore object (NativeMonitor.cpp): a thin lock in the *)
(* object's lock word that is inflated into a NativeMonitor by Wait or by  *)
(* deep recursion, the wait set linked through the waiting threads, Notify, *)
(* and interruption.  Clients are the sections of AutoLock objects, whose  *)
(* constructor calls SyncObject::Lock and ignores what it returns.         *)
(* NativeMutex and NativeConditionVariable are the Mutex and Condition of  *)
(* module Mutex: a block under mMonitorLock or a wait mutex is one step.   *)
(***************************************************************************)
EXTENDS Integers, Sequences, FiniteSets

CONSTANTS
    Threads,
    kThinLockMaxCount,   \* largest recursion count of a thin lock: 4095
    MaxDepth,            \* bound on nested AutoLocks of a thread
    MaxCalls,            \* bound on the calls of Lock and Wait of each thread
    MaxInterrupts        \* bound on the calls of Interrupt

ASSUME MonitorAssumption ==
    /\ IsFiniteSet(Threads) /\ "null" \notin Threads
    /\ kThinLockMaxCount \in Nat /\ MaxDepth \in Nat
    /\ MaxCalls \in [Threads -> Nat] /\ MaxInterrupts \in Nat

VARIABLES
    word,           \* NativeObject::mMonitor, decoded
    mOwner, mLockCount, mWaitSet,     \* of the NativeMonitor
    mWaitNext, mWaitMonitor, mInterrupted,   \* of each NativeThread
    pc,             \* where each thread is
    depth,          \* AutoLocks a thread is inside of
    prevLockCount,  \* local of Wait
    wasInterrupted, \* local of Wait
    held,           \* history: locks a thread acquired and did not release
    calls,          \* history: calls of Lock and Wait so far
    interrupts      \* history: calls of Interrupt so far

monitorVars == <<mOwner, mLockCount, mWaitSet>>
threadVars == <<mWaitNext, mWaitMonitor, mInterrupted>>
vars == <<word, mOwner, mLockCount, mWaitSet, mWaitNext, mWaitMonitor, mInterrupted,
          pc, depth, prevLockCount, wasInterrupted, held, calls, interrupts>>

-----------------------------------------------------------------------------
(***************************************************************************)
(* Lock words: unlocked, thin with an owner and a count, or fat.           *)
(***************************************************************************)
Default == [state |-> "unlocked", owner |-> "null", count |-> 0]
FromThinLockId(t, n) == [state |-> "thin", owner |-> t, count |-> n]
Fat == [state |-> "fat", owner |-> "null", count |-> 0]

OwnsThin(t) == word.state = "thin" /\ word.owner = t
OwnsFat(t) == word.state = "fat" /\ mOwner = t

Init ==
    /\ word = Default
    /\ mOwner = "null" /\ mLockCount = 0 /\ mWaitSet = "null"
    /\ mWaitNext = [t \in Threads |-> "null"]
    /\ mWaitMonitor = [t \in Threads |-> FALSE]
    /\ mInterrupted = [t \in Threads |-> FALSE]
    /\ pc = [t \in Threads |-> "run"]
    /\ depth = [t \in Threads |-> 0]
    /\ prevLockCount = [t \in Threads |-> 0]
    /\ wasInterrupted = [t \in Threads |-> FALSE]
    /\ held = [t \in Threads |-> 0]
    /\ calls = [t \in Threads |-> 0]
    /\ interrupts = 0

-----------------------------------------------------------------------------
(***************************************************************************)
(* Inflation by the owner of a thin lock: a new monitor takes over owner   *)
(* and count, and a weak compare-exchange publishes it.  When that fails   *)
(* the monitor goes back to the pool and the caller tries again.           *)
(***************************************************************************)
Install_NoCount(t) ==
    /\ mOwner' = t /\ mLockCount' = 0 /\ mWaitSet' = "null"
    /\ word' = Fat

Install(t) ==
    /\ mOwner' = t /\ mLockCount' = word.count /\ mWaitSet' = "null"
    /\ word' = Fat

Inflate(t) == Install(t) \/ UNCHANGED <<word, monitorVars>>

-----------------------------------------------------------------------------
(***************************************************************************)
(* MonitorEnter, which NativeObject::MonitorEnter calls with trylock.      *)
(***************************************************************************)
Lock(t) ==
    /\ pc[t] = "run" /\ depth[t] < MaxDepth /\ calls[t] < MaxCalls[t]
    /\ pc' = [pc EXCEPT ![t] = "enter"]
    /\ calls' = [calls EXCEPT ![t] = @ + 1]
    /\ UNCHANGED <<word, monitorVars, threadVars, depth, prevLockCount, wasInterrupted, held, interrupts>>

\* AutoLock's section begins, whether the lock was acquired or not.
Section(t, acquired) ==
    /\ pc' = [pc EXCEPT ![t] = "run"]
    /\ depth' = [depth EXCEPT ![t] = @ + 1]
    /\ held' = [held EXCEPT ![t] = IF acquired THEN @ + 1 ELSE @]

\* The word is unlocked: a weak compare-exchange follows.
EnterUnlocked(t) ==
    /\ pc[t] = "enter" /\ word.state = "unlocked"
    /\ pc' = [pc EXCEPT ![t] = "cas"]
    /\ UNCHANGED <<word, monitorVars, threadVars, depth, prevLockCount, wasInterrupted, held, calls, interrupts>>

EnterCas(t) ==
    /\ pc[t] = "cas"
    /\ \/ /\ word = Default
          /\ word' = FromThinLockId(t, 0)
          /\ Section(t, TRUE)
       \/ /\ pc' = [pc EXCEPT ![t] = "enter"]
          /\ UNCHANGED <<word, depth, held>>
    /\ UNCHANGED <<monitorVars, threadVars, prevLockCount, wasInterrupted, calls, interrupts>>

\* A thin lock is taken again by its owner, up to the largest count, and
\* inflated there; another thread gives up.
EnterThin(t) ==
    /\ pc[t] = "enter" /\ word.state = "thin"
    /\ IF word.owner # t THEN Section(t, FALSE) /\ UNCHANGED <<word, monitorVars>>
       ELSE IF word.count + 1 <= kThinLockMaxCount
       THEN /\ word' = FromThinLockId(t, word.count + 1)
            /\ Section(t, TRUE)
            /\ UNCHANGED monitorVars
       ELSE Inflate(t) /\ UNCHANGED <<pc, depth, held>>
    /\ UNCHANGED <<threadVars, prevLockCount, wasInterrupted, calls, interrupts>>

\* TryLockLocked: whether t now holds the monitor, and its new state.
Acquirable_OwnOnly(t) == mOwner = t

Acquirable(t) == mOwner \in {"null", t}

TryLockLocked(t) ==
    /\ mOwner' = IF Acquirable(t) THEN t ELSE mOwner
    /\ mLockCount' = IF mOwner = t THEN mLockCount + 1 ELSE mLockCount

EnterFat(t) ==
    /\ pc[t] = "enter" /\ word.state = "fat"
    /\ TryLockLocked(t)
    /\ Section(t, Acquirable(t))
    /\ UNCHANGED <<word, mWaitSet, threadVars, prevLockCount, wasInterrupted, calls, interrupts>>

-----------------------------------------------------------------------------
(***************************************************************************)
(* MonitorExit, from the destructor of AutoLock.                           *)
(***************************************************************************)
\* pc after mMonitorContenders.Signal: one sleeping contender, if any, wakes.
SignalContender(after) ==
    LET asleep == {c \in Threads : after[c] = "contending"}
    IN IF asleep = {} THEN pc' = after
       ELSE \E c \in asleep : pc' = [after EXCEPT ![c] = "relock"]

\* The section ends; released says whether MonitorExit did not fail.
Leave(t, released) ==
    /\ depth' = [depth EXCEPT ![t] = @ - 1]
    /\ held' = [held EXCEPT ![t] = IF released THEN @ - 1 ELSE @]

ExitThin(t) ==
    /\ word' = IF word.count # 0 THEN FromThinLockId(t, word.count - 1) ELSE Default
    /\ UNCHANGED <<pc, monitorVars>>

ExitFat(t) ==
    /\ IF mLockCount = 0
       THEN mOwner' = "null" /\ SignalContender(pc) /\ UNCHANGED mLockCount
       ELSE mLockCount' = mLockCount - 1 /\ UNCHANGED <<mOwner, pc>>
    /\ UNCHANGED <<word, mWaitSet>>

Unlock(t) ==
    /\ pc[t] = "run" /\ depth[t] > 0
    /\ \/ OwnsThin(t) /\ ExitThin(t)
       \/ OwnsFat(t) /\ ExitFat(t)
       \/ ~OwnsThin(t) /\ ~OwnsFat(t) /\ UNCHANGED <<word, pc, monitorVars>>
    /\ Leave(t, OwnsThin(t) \/ OwnsFat(t))
    /\ UNCHANGED <<threadVars, prevLockCount, wasInterrupted, calls, interrupts>>

-----------------------------------------------------------------------------
(***************************************************************************)
(* The wait set.                                                           *)
(***************************************************************************)
\* The threads met along mWaitNext, "null" from the end of the list on.
Link ==
    LET link[i \in 1..(Cardinality(Threads) + 1)] ==
            IF i = 1 THEN mWaitSet
            ELSE IF link[i - 1] = "null" THEN "null" ELSE mWaitNext[link[i - 1]]
    IN link

WaitLength == Cardinality({i \in DOMAIN Link : Link[i] # "null"})
WaitList == SubSeq(Link, 1, WaitLength)
Waiters == {Link[i] : i \in DOMAIN Link} \ {"null"}

\* push_back
AppendToWaitSet(t) ==
    IF mWaitSet = "null" THEN mWaitSet' = t /\ UNCHANGED mWaitNext
    ELSE /\ mWaitNext' = [mWaitNext EXCEPT ![WaitList[Len(WaitList)]] = t]
         /\ UNCHANGED mWaitSet

\* t may have been removed by Notify already.
RemoveFromWaitSet_KeepsNext(t) ==
    IF mWaitSet = t
    THEN mWaitSet' = mWaitNext[t] /\ UNCHANGED mWaitNext
    ELSE IF t \in Waiters
    THEN LET p == CHOOSE p \in Waiters : mWaitNext[p] = t
         IN mWaitNext' = [mWaitNext EXCEPT ![p] = mWaitNext[t]] /\ UNCHANGED mWaitSet
    ELSE UNCHANGED <<mWaitSet, mWaitNext>>

RemoveFromWaitSet(t) ==
    IF mWaitSet = t
    THEN mWaitSet' = mWaitNext[t] /\ mWaitNext' = [mWaitNext EXCEPT ![t] = "null"]
    ELSE IF t \in Waiters
    THEN LET p == CHOOSE p \in Waiters : mWaitNext[p] = t
         IN mWaitNext' = [mWaitNext EXCEPT ![p] = mWaitNext[t], ![t] = "null"]
            /\ UNCHANGED mWaitSet
    ELSE UNCHANGED <<mWaitSet, mWaitNext>>

-----------------------------------------------------------------------------
(***************************************************************************)
(* Wait.                                                                   *)
(***************************************************************************)
Wait(t) ==
    /\ pc[t] = "run" /\ depth[t] > 0 /\ calls[t] < MaxCalls[t]
    /\ pc' = [pc EXCEPT ![t] = "wait"]
    /\ calls' = [calls EXCEPT ![t] = @ + 1]
    /\ UNCHANGED <<word, monitorVars, threadVars, depth, prevLockCount, wasInterrupted, held, interrupts>>

\* E_ILLEGAL_MONITOR_STATE_EXCEPTION: the caller does not hold the lock.
WaitFails(t) ==
    /\ pc[t] = "wait" /\ ~OwnsThin(t) /\ ~OwnsFat(t)
    /\ pc' = [pc EXCEPT ![t] = "run"]
    /\ UNCHANGED <<word, monitorVars, threadVars, depth, prevLockCount, wasInterrupted, held, calls, interrupts>>

WaitInflate(t) ==
    /\ pc[t] = "wait" /\ OwnsThin(t)
    /\ Inflate(t)
    /\ UNCHANGED <<threadVars, pc, depth, prevLockCount, wasInterrupted, held, calls, interrupts>>

\* Under both locks: the monitor is given up however often it is held, and the
\* thread sleeps unless it was interrupted before.
WaitRelease_NoCheck(t) ==
    /\ pc[t] = "wait" /\ OwnsFat(t)
    /\ AppendToWaitSet(t)
    /\ mWaitMonitor' = [mWaitMonitor EXCEPT ![t] = TRUE]
    /\ prevLockCount' = [prevLockCount EXCEPT ![t] = mLockCount]
    /\ mLockCount' = 0 /\ mOwner' = "null"
    /\ SignalContender([pc EXCEPT ![t] = "sleeping"])
    /\ UNCHANGED <<word, mInterrupted, depth, wasInterrupted, held, calls, interrupts>>

WaitRelease(t) ==
    /\ pc[t] = "wait" /\ OwnsFat(t)
    /\ AppendToWaitSet(t)
    /\ mWaitMonitor' = [mWaitMonitor EXCEPT ![t] = TRUE]
    /\ prevLockCount' = [prevLockCount EXCEPT ![t] = mLockCount]
    /\ mLockCount' = 0 /\ mOwner' = "null"
    /\ wasInterrupted' = [wasInterrupted EXCEPT ![t] = mInterrupted[t]]
    /\ SignalContender([pc EXCEPT ![t] = IF mInterrupted[t] THEN "clear" ELSE "sleeping"])
    /\ UNCHANGED <<word, mInterrupted, depth, held, calls, interrupts>>

\* The timeout, or a signal to the process, ends a sleep on either condition.
Elapse(t) ==
    /\ pc[t] \in {"sleeping", "contending"}
    /\ pc' = [pc EXCEPT ![t] = IF @ = "sleeping" THEN "woken" ELSE "relock"]
    /\ UNCHANGED <<word, monitorVars, threadVars, depth, prevLockCount, wasInterrupted, held, calls, interrupts>>

\* The condition's Wait returns with the wait mutex.
ReadInterrupted(t) ==
    /\ pc[t] = "woken"
    /\ wasInterrupted' = [wasInterrupted EXCEPT ![t] = mInterrupted[t]]
    /\ pc' = [pc EXCEPT ![t] = "clear"]
    /\ UNCHANGED <<word, monitorVars, threadVars, depth, prevLockCount, held, calls, interrupts>>

\* The wait mutex was released in between.
ClearWaitMonitor(t) ==
    /\ pc[t] = "clear"
    /\ mWaitMonitor' = [mWaitMonitor EXCEPT ![t] = FALSE]
    /\ pc' = [pc EXCEPT ![t] = IF wasInterrupted[t] THEN "throw" ELSE "relock"]
    /\ UNCHANGED <<word, monitorVars, mWaitNext, mInterrupted, depth, prevLockCount, wasInterrupted, held, calls, interrupts>>

ClearInterrupted(t) ==
    /\ pc[t] = "throw"
    /\ mInterrupted' = [mInterrupted EXCEPT ![t] = FALSE]
    /\ pc' = [pc EXCEPT ![t] = "relock"]
    /\ UNCHANGED <<word, monitorVars, mWaitNext, mWaitMonitor, depth, prevLockCount, wasInterrupted, held, calls, interrupts>>

\* NativeMonitor::Lock: try, and sleep if there still is an owner a moment later.
Relock(t) ==
    /\ pc[t] = "relock"
    /\ TryLockLocked(t)
    /\ pc' = [pc EXCEPT ![t] = IF Acquirable(t) THEN "relocked" ELSE "contend"]
    /\ UNCHANGED <<word, mWaitSet, threadVars, depth, prevLockCount, wasInterrupted, held, calls, interrupts>>

Contend_NoRecheck(t) ==
    /\ pc[t] = "contend"
    /\ pc' = [pc EXCEPT ![t] = "contending"]
    /\ UNCHANGED <<word, monitorVars, threadVars, depth, prevLockCount, wasInterrupted, held, calls, interrupts>>

Contend(t) ==
    /\ pc[t] = "contend"
    /\ pc' = [pc EXCEPT ![t] = IF mOwner # "null" THEN "contending" ELSE "relock"]
    /\ UNCHANGED <<word, monitorVars, threadVars, depth, prevLockCount, wasInterrupted, held, calls, interrupts>>

Restore(t) ==
    /\ pc[t] = "relocked"
    /\ mOwner' = t /\ mLockCount' = prevLockCount[t]
    /\ RemoveFromWaitSet(t)
    /\ pc' = [pc EXCEPT ![t] = "run"]
    /\ UNCHANGED <<word, mWaitMonitor, mInterrupted, depth, prevLockCount, wasInterrupted, held, calls, interrupts>>

-----------------------------------------------------------------------------
(***************************************************************************)
(* Notify and NotifyAll, by the owner of a fat lock: a thin lock has no    *)
(* waiters, and for everyone else they fail.                               *)
(***************************************************************************)
\* Those of the threads that sleep wake up.
Wake(s) == [u \in Threads |-> IF u \in s /\ pc[u] = "sleeping" THEN "woken" ELSE pc[u]]

\* The threads that Notify takes off: up to the first whose mWaitMonitor is set.
NotifyCount ==
    LET set == {i \in DOMAIN WaitList : mWaitMonitor[WaitList[i]]}
    IN IF set = {} THEN Len(WaitList) ELSE CHOOSE i \in set : \A j \in set : i <= j

\* The first n threads leave the wait set, and those whose mWaitMonitor is set
\* are signalled.
TakeOff(n) ==
    LET off == {WaitList[i] : i \in 1..n}
    IN /\ mWaitSet' = Link[n + 1]
       /\ mWaitNext' = [u \in Threads |-> IF u \in off THEN "null" ELSE mWaitNext[u]]
       /\ pc' = Wake({u \in off : mWaitMonitor[u]})

Notify(t) ==
    /\ pc[t] = "run" /\ depth[t] > 0 /\ OwnsFat(t)
    /\ TakeOff(NotifyCount)
    /\ UNCHANGED <<word, mOwner, mLockCount, mWaitMonitor, mInterrupted, depth, prevLockCount, wasInterrupted, held, calls, interrupts>>

NotifyAll(t) ==
    /\ pc[t] = "run" /\ depth[t] > 0 /\ OwnsFat(t)
    /\ TakeOff(Len(WaitList))
    /\ UNCHANGED <<word, mOwner, mLockCount, mWaitMonitor, mInterrupted, depth, prevLockCount, wasInterrupted, held, calls, interrupts>>

\* NativeThread::Interrupt of thread u, under its wait mutex.
Interrupt(u) ==
    /\ ~mInterrupted[u] /\ interrupts < MaxInterrupts
    /\ interrupts' = interrupts + 1
    /\ mInterrupted' = [mInterrupted EXCEPT ![u] = TRUE]
    /\ pc' = IF mWaitMonitor[u] THEN Wake({u}) ELSE pc
    /\ UNCHANGED <<word, monitorVars, mWaitNext, mWaitMonitor, depth, prevLockCount, wasInterrupted, held, calls>>

\* NativeThread::Interrupted: t asks and resets.
Interrupted(t) ==
    /\ pc[t] = "run" /\ mInterrupted[t]
    /\ mInterrupted' = [mInterrupted EXCEPT ![t] = FALSE]
    /\ UNCHANGED <<word, monitorVars, mWaitNext, mWaitMonitor, pc, depth, prevLockCount, wasInterrupted, held, calls, interrupts>>

-----------------------------------------------------------------------------
EnterStep(t) == EnterUnlocked(t) \/ EnterCas(t) \/ EnterThin(t) \/ EnterFat(t)
WaitStep(t) ==
    \/ WaitFails(t) \/ WaitInflate(t) \/ WaitRelease(t) \/ ReadInterrupted(t)
    \/ ClearWaitMonitor(t) \/ ClearInterrupted(t) \/ Relock(t) \/ Contend(t) \/ Restore(t)

Next == \E t \in Threads :
    \/ Lock(t) \/ EnterStep(t) \/ Unlock(t) \/ Wait(t) \/ WaitStep(t) \/ Elapse(t)
    \/ Notify(t) \/ NotifyAll(t) \/ Interrupt(t) \/ Interrupted(t)

\* Threads are scheduled and leave their sections.  Nobody need notify,
\* interrupt or time out.
Fairness == \A t \in Threads : WF_vars(EnterStep(t) \/ WaitStep(t) \/ Unlock(t))

Spec == Init /\ [][Next]_vars /\ Fairness

-----------------------------------------------------------------------------
(***************************************************************************)
(* Properties.                                                             *)
(***************************************************************************)
\* Where a thread inside Wait has given the monitor up.
InWait(t) == pc[t] \in {"sleeping", "woken", "clear", "throw", "relock", "contend", "contending"}

\* Whoever holds the lock, thin or fat, holds it as often as its Lock succeeded
\* without an Unlock, through inflation at any count and any number of Waits;
\* and a thread whose Lock failed, or that is inside Wait, does not hold it.
HoldsExact ==
    \A t \in Threads :
       pc[t] # "relocked" =>
          held[t] = IF OwnsThin(t) THEN word.count + 1
                    ELSE IF OwnsFat(t) THEN mLockCount + 1
                    ELSE IF InWait(t) THEN prevLockCount[t] + 1
                    ELSE 0

\* The links of the wait set end, every thread that sleeps in Wait is on it, so
\* that Notify can find it, and nobody else keeps a link or a place in it.
WaitSetExact ==
    /\ Link[Cardinality(Threads) + 1] = "null"
    /\ \A t \in Threads :
          /\ pc[t] = "sleeping" => t \in Waiters /\ mWaitMonitor[t]
          /\ t \in Waiters => InWait(t) \/ pc[t] = "relocked"
          /\ t \notin Waiters => mWaitNext[t] = "null"

\* No thread sleeps in Wait with its interrupt pending, whichever of Interrupt
\* and Wait took the wait mutex first.
NoInterruptedSleeper == \A t \in Threads : mInterrupted[t] => pc[t] # "sleeping"

\* A monitor that is free while threads sleep on mMonitorContenders has a thread
\* on its way to take it, whose Unlock will wake the next.
NoStrandedContender ==
    mOwner = "null" /\ (\E t \in Threads : pc[t] = "contending") =>
       \E t \in Threads : pc[t] \in {"relock", "contend"}

\* A thread that was woken, interrupted or timed out returns from Wait.
WaitReturns == \A t \in Threads : pc[t] = "woken" ~> pc[t] = "run"

-----------------------------------------------------------------------------
(***************************************************************************)
(* The inductive invariant.                                                *)
(***************************************************************************)
PCs == {"run", "enter", "cas", "wait", "sleeping", "woken", "clear", "throw",
        "relock", "contend", "contending", "relocked"}

TypeOK ==
    /\ word \in [state : {"unlocked", "thin", "fat"}, owner : Threads \cup {"null"}, count : Nat]
    /\ mOwner \in Threads \cup {"null"} /\ mLockCount \in Nat
    /\ mWaitSet \in Threads \cup {"null"}
    /\ mWaitNext \in [Threads -> Threads \cup {"null"}]
    /\ mWaitMonitor \in [Threads -> BOOLEAN] /\ mInterrupted \in [Threads -> BOOLEAN]
    /\ pc \in [Threads -> PCs] /\ wasInterrupted \in [Threads -> BOOLEAN]
    /\ depth \in [Threads -> Nat] /\ prevLockCount \in [Threads -> Nat]
    /\ held \in [Threads -> Nat] /\ calls \in [Threads -> Nat] /\ interrupts \in Nat

\* The monitor is nobody's before inflation, and a free one has no count.
MonitorOK ==
    /\ word.state = "unlocked" => word = Default
    /\ word.state # "fat" => mOwner = "null"
    /\ mOwner = "null" => mLockCount = 0

\* A thread inside Wait waits on an inflated monitor that it does not own, is
\* marked as waiting until it clears the mark itself, and comes back with the
\* monitor held once and its old count still to be restored.
PlaceOK(t) ==
    /\ InWait(t) => word.state = "fat" /\ mOwner # t
    /\ pc[t] \in {"sleeping", "woken", "clear"} => mWaitMonitor[t]
    /\ pc[t] = "relocked" =>
          /\ word.state = "fat" /\ mOwner = t /\ mLockCount = 0
          /\ held[t] = prevLockCount[t] + 1

\* Thread s[i] links to s[i + 1], the last of s and the threads not in s to nobody.
LinkedBy(s) ==
    /\ \A i, j \in 1..Len(s) : s[i] = s[j] => i = j
    /\ mWaitSet = IF Len(s) = 0 THEN "null" ELSE s[1]
    /\ \A i \in 1..Len(s) : mWaitNext[s[i]] = IF i = Len(s) THEN "null" ELSE s[i + 1]
    /\ \A t \in Threads : (\A i \in 1..Len(s) : s[i] # t) => mWaitNext[t] = "null"

\* The wait set is a list without repetition of threads inside Wait, all that
\* sleep there among them.
Queued(s) ==
    /\ LinkedBy(s)
    /\ \A i \in 1..Len(s) : InWait(s[i]) \/ pc[s[i]] = "relocked"
    /\ \A t \in Threads : pc[t] = "sleeping" => \E i \in 1..Len(s) : s[i] = t

WaitSetOK == \E s \in Seq(Threads) : Queued(s)

IInv ==
    /\ TypeOK /\ MonitorOK /\ \A t \in Threads : PlaceOK(t)
    /\ HoldsExact /\ NoInterruptedSleeper /\ NoStrandedContender /\ WaitSetOK

\* The section of an AutoLock excludes every other thread's section.
SectionsExclusive ==
    \A t, u \in Threads :
       pc[t] = "run" /\ depth[t] > 0 /\ pc[u] = "run" /\ depth[u] > 0 => t = u
=============================================================================
