------------------------------- MODULE MCMutex -------------------------------
(***************************************************************************)
(* Programs of calls for three threads, after the ways the runtime uses    *)
(* the Condition: the dispatcher that reports its start to the thread that *)
(* waits for it (CDBusChannel), broadcasts to several waiters, timed waits. *)
(***************************************************************************)
EXTENDS Mutex, TLC

CONSTANTS t1, t2, t3

Section(calls) == <<"Lock">> \o calls \o <<"Unlock">>
Joint(a, b, c) == (t1 :> a) @@ (t2 :> b) @@ (t3 :> c)

Waiter == Section(<<"Await">>)
Timed  == Section(<<"TimedWait">>)
Plain  == Section(<<>>)
SignalInside  == Section(<<"Set", "Signal">>)
SignalOutside == Section(<<"Set">>) \o <<"Signal">>
Broadcast     == Section(<<"Set", "SignalAll">>)

FlatPrograms ==
    { Joint(Waiter, Waiter, Broadcast), Joint(Waiter, Timed, Broadcast),
      Joint(Waiter, Plain, SignalOutside), Joint(Waiter, Plain, SignalInside),
      Joint(Timed, Timed, SignalInside), Joint(Waiter, Broadcast, SignalOutside) }

\* The same with nested critical sections, which need a recursive mutex.
NestedPrograms ==
    { Joint(Section(Waiter), Plain, Section(Broadcast)),
      Joint(Section(Waiter), Section(Timed), Broadcast),
      Joint(Section(Waiter), Section(Plain), SignalOutside) }

AllPrograms == FlatPrograms \cup NestedPrograms
=============================================================================
