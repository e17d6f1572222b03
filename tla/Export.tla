------------------------------- MODULE Export -------------------------------
(***************************************************************************)
(* How a process exports objects for remote calls: MarshalInterface        *)
(* (rpc/dbus/CDBusChannelFactory.cpp) looks the object up in the export    *)
(* registry, or creates a stub whose channel starts a service thread, waits *)
(* until that thread listens, and registers the stub.  The registry holds  *)
(* a strong reference to each stub it contains; a stub that loses its last *)
(* strong reference removes itself from the registry.                      *)
(* One lock-protected block is one step, except when a thread blocks in it. *)
(***************************************************************************)
EXTENDS Integers, FiniteSets

CONSTANTS
    Threads,         \* threads that marshal
    Objects,         \* the objects they marshal
    Stubs,           \* stub objects; each has its channel and service thread
    Worlds,          \* what the threads, peers and system around them may do: records of
                     \*   mayFail      pthread_create and the connection to the bus may fail
                     \*   maxReleases  bound on the "Release" messages peers send to a stub
                     \*   proxies      the objects that are proxies of remote objects
                     \*   bare         the objects that are no IObject or have no coclass
                     \*   broken       the objects that lack an interface of their coclass
    MaxMarshals      \* bound on the calls of MarshalInterface

ASSUME ExportAssumption ==
    /\ Worlds \subseteq [mayFail : BOOLEAN, maxReleases : Nat, proxies : SUBSET Objects,
                        bare : SUBSET Objects, broken : SUBSET Objects]
    /\ Threads \cap Stubs = {}
    /\ "none" \notin Threads \cup Objects \cup Stubs
    /\ MaxMarshals \in Nat

\* A service thread is named after its stub.
Actors == Threads \cup Stubs

VARIABLES
    world,      \* the world this process lives in
    registry,   \* sLocalExportRegistry: the stub registered for each object
    lock,       \* who blocks inside sLocalExportRegistryLock
    strong,     \* strong reference count of each stub
    target,     \* CStub::mTarget of a created stub
    deleted,    \* stubs that were deleted
    worker,     \* the service thread of each stub's channel
    mWorkers,   \* ThreadPoolExecutor::mWorkers, by the stub they serve
    mStarted,   \* CDBusChannel::mStarted of each stub's channel
    mName,      \* the channel has its bus name
    pc, arg,    \* where each actor is; the object a thread marshals
    held,       \* the stub in the AutoPtr of a marshalling thread
    dying,      \* the stub whose last reference an actor has dropped
    packs,      \* history: the <<object, stub>> pairs packed
    aborted,    \* the process aborted: an assertion of RefBase failed, or memory was corrupt
    marshals,   \* history: calls of MarshalInterface so far
    known,      \* history: stubs named by a pack that was returned
    released,   \* history: Release messages each stub has handled
    contended   \* history: objects that two threads marshalled at the same time

peerVars == <<world, known, released, contended>>

threadVars == <<pc, arg, held, dying>>
stubVars   == <<strong, target, deleted>>
channelVars == <<worker, mWorkers, mStarted, mName>>
vars == <<world, registry, lock, strong, target, deleted, worker, mWorkers, mStarted, mName,
          pc, arg, held, dying, packs, aborted, marshals, known, released,
          contended>>

Goto(a, l) == pc' = [pc EXCEPT ![a] = l]

Init ==
    /\ world \in Worlds
    /\ registry = [o \in Objects |-> "none"]
    /\ lock = "none"
    /\ strong = [s \in Stubs |-> 0]
    /\ target = [s \in Stubs |-> "none"]
    /\ deleted = {}
    /\ worker = [s \in Stubs |-> "none"]
    /\ mWorkers = {}
    /\ mStarted = [s \in Stubs |-> FALSE]
    /\ mName = [s \in Stubs |-> FALSE]
    /\ pc = [a \in Actors |-> "idle"]
    /\ arg = [t \in Threads |-> "none"]
    /\ held = [t \in Threads |-> "none"]
    /\ dying = [a \in Actors |-> "none"]
    /\ packs = {}
    /\ aborted = FALSE
    /\ marshals = 0
    /\ known = {}
    /\ released = [s \in Stubs |-> 0]
    /\ contended = {}

-----------------------------------------------------------------------------
(***************************************************************************)
(* MarshalInterface, with CoCreateStub and CStub::CreateObject.            *)
(***************************************************************************)
MarshalInterface(t, o) ==
    /\ pc[t] = "idle" /\ marshals < MaxMarshals
    /\ arg' = [arg EXCEPT ![t] = o]
    /\ marshals' = marshals + 1
    /\ contended' = IF \E u \in Threads : pc[u] # "idle" /\ arg[u] = o
                    THEN contended \cup {o} ELSE contended
    /\ Goto(t, "find")
    /\ UNCHANGED <<world, known, released, registry, lock, stubVars, channelVars, held, dying,
                   packs, aborted>>

\* FindExportObject: REFCOUNT_ADD on the stub found, under the lock.  IncStrong
\* asserts that the count was positive.
FindExportObject_NoAddRef(t) ==
    /\ pc[t] = "find" /\ lock = "none"
    /\ IF registry[arg[t]] # "none"
       THEN /\ held' = [held EXCEPT ![t] = registry[arg[t]]]
            /\ aborted' = (strong[registry[arg[t]]] = 0)
            /\ Goto(t, "pack")
            /\ UNCHANGED strong
       ELSE Goto(t, "create") /\ UNCHANGED <<strong, held, aborted>>
    /\ UNCHANGED <<peerVars, registry, lock, target, deleted, channelVars, arg, dying, packs,
                   marshals>>

FindExportObject_Misses(t) ==
    /\ pc[t] = "find" /\ lock = "none"
    /\ Goto(t, "create")
    /\ UNCHANGED <<peerVars, registry, lock, stubVars, channelVars, arg, held, dying, packs,
                   aborted, marshals>>

FindExportObject(t) ==
    /\ pc[t] = "find" /\ lock = "none"
    /\ LET s == registry[arg[t]] IN
       IF s # "none"
       THEN /\ held' = [held EXCEPT ![t] = s]
            /\ strong' = [strong EXCEPT ![s] = @ + 1]
            /\ aborted' = (strong[s] = 0)
            /\ Goto(t, "pack")
       ELSE Goto(t, "create") /\ UNCHANGED <<strong, held, aborted>>
    /\ UNCHANGED <<peerVars, registry, lock, target, deleted, channelVars, arg, dying, packs,
                   marshals>>

\* An object that is not exported itself may be a proxy: its pack names the
\* service the proxy stands for.
MarshalProxy(t) ==
    /\ pc[t] = "create" /\ arg[t] \in world.proxies
    /\ Goto(t, "idle")
    /\ UNCHANGED <<peerVars, registry, lock, stubVars, channelVars, arg, held, dying, packs,
                   aborted, marshals>>

\* CStub::CreateObject finds no IObject or no coclass: MarshalInterface returns the error.
CreateFails(t) ==
    /\ pc[t] = "create" /\ arg[t] \in world.bare \ world.proxies
    /\ Goto(t, "idle")
    /\ UNCHANGED <<peerVars, registry, lock, stubVars, channelVars, arg, held, dying, packs,
                   aborted, marshals>>

\* CStub::CreateObject: the AutoPtr stubObj holds the stub.  When the object lacks an
\* interface the stub is deleted at once; otherwise StartListening is next.
CreateObject(t) ==
    /\ pc[t] = "create" /\ arg[t] \notin world.proxies \cup world.bare
    /\ \E s \in Stubs :
          /\ target[s] = "none"
          /\ target' = [target EXCEPT ![s] = arg[t]]
          /\ strong' = [strong EXCEPT ![s] = 1]
          /\ held' = [held EXCEPT ![t] = s]
          /\ IF arg[t] \in world.broken
             THEN deleted' = deleted \cup {s} /\ Goto(t, "abandon")
             ELSE UNCHANGED deleted /\ Goto(t, "listen")
    /\ UNCHANGED <<peerVars, registry, lock, channelVars, arg, dying, packs, aborted, marshals>>

\* ThreadPoolExecutor::RunTask: a worker for the ServiceRunnable of the stub's
\* channel.  StartListening goes on to wait whatever RunTask returns.
RunTask(t) ==
    /\ pc[t] = "listen"
    /\ \/ /\ worker' = [worker EXCEPT ![held[t]] = "starting"]
          /\ mWorkers' = mWorkers \cup {held[t]}
       \/ /\ world.mayFail
          /\ UNCHANGED <<worker, mWorkers>>
    /\ Goto(t, "await")
    /\ UNCHANGED <<peerVars, registry, lock, stubVars, mStarted, mName, arg, held, dying, packs,
                   aborted, marshals>>

\* The end of StartListening: while (!mStarted) mCond.Wait().
StartListening_NoWait(t) ==
    /\ pc[t] = "await"
    /\ Goto(t, "packnew")
    /\ UNCHANGED <<peerVars, registry, lock, stubVars, channelVars, arg, held, dying, packs,
                   aborted, marshals>>

StartListening(t) ==
    /\ pc[t] = "await"
    /\ mStarted[held[t]]
    /\ Goto(t, "packnew")
    /\ UNCHANGED <<peerVars, registry, lock, stubVars, channelVars, arg, held, dying, packs,
                   aborted, marshals>>

\* The InterfacePack gets the name of the stub's channel.
SetPack(t) ==
    /\ pc[t] \in {"pack", "packnew"}
    /\ packs' = packs \cup {<<arg[t], held[t]>>}
    /\ Goto(t, IF pc[t] = "pack" THEN "release" ELSE "register")
    /\ UNCHANGED <<peerVars, registry, lock, stubVars, channelVars, arg, held, dying, aborted,
                   marshals>>

\* RegisterExportObject: Put takes a reference to the stub and drops the one to
\* the stub it replaces.  When that was its last one, OnLastStrongRef calls
\* UnregisterExportObject, which waits for the lock this thread holds.
RegisterExportObject_Skipped(t) ==
    /\ pc[t] = "register" /\ lock = "none"
    /\ Goto(t, "release")
    /\ UNCHANGED <<peerVars, registry, lock, stubVars, channelVars, arg, held, dying, packs,
                   aborted, marshals>>

RegisterExportObject(t) ==
    /\ pc[t] = "register" /\ lock = "none"
    /\ LET old == registry[arg[t]] IN
       /\ strong' = [s \in Stubs |-> strong[s] + (IF s = held[t] THEN 1 ELSE 0)
                                               - (IF s = old THEN 1 ELSE 0)]
       /\ IF old # "none" /\ strong[old] = 1
          THEN lock' = t /\ dying' = [dying EXCEPT ![t] = old] /\ Goto(t, "blocked")
          ELSE Goto(t, "release") /\ UNCHANGED <<lock, dying>>
    /\ registry' = [registry EXCEPT ![arg[t]] = held[t]]
    /\ UNCHANGED <<peerVars, target, deleted, channelVars, arg, held, packs, aborted, marshals>>

-----------------------------------------------------------------------------
(***************************************************************************)
(* The references of a stub.                                               *)
(***************************************************************************)
\* RefBase::DecStrong of stub s by actor a, who is at label l afterwards.
DecStrong(a, s, l) ==
    /\ strong' = [strong EXCEPT ![s] = @ - 1]
    /\ aborted' = (strong[s] <= 0)
    /\ IF strong[s] = 1
       THEN dying' = [dying EXCEPT ![a] = s] /\ Goto(a, "unregister")
       ELSE Goto(a, l) /\ UNCHANGED dying

\* The AutoPtr of MarshalInterface goes out of scope.
ReleaseStub(t) ==
    /\ pc[t] = "release"
    /\ DecStrong(t, held[t], "idle")
    /\ held' = [held EXCEPT ![t] = "none"]
    /\ known' = known \cup {held[t]}
    /\ UNCHANGED <<world, registry, lock, target, deleted, channelVars, arg, packs, marshals,
                   released, contended>>

\* CreateObject returns the missing interface, and its AutoPtr releases the stub that is
\* deleted already: the count may still be there, or the process aborts.  MarshalInterface
\* returns the error.
AbandonStub(t) ==
    /\ pc[t] = "abandon"
    /\ \/ /\ DecStrong(t, held[t], "idle")
          /\ held' = [held EXCEPT ![t] = "none"]
       \/ aborted' = TRUE /\ UNCHANGED <<pc, strong, dying, held>>
    /\ UNCHANGED <<peerVars, registry, lock, target, deleted, channelVars, arg, packs, marshals>>

\* CStub::OnLastStrongRef: UnregisterExportObject of the stub's target.  The
\* entry's destructor releases the stub registered there; if that is a last
\* reference too, the nested OnLastStrongRef waits for the lock held here.
OnLastStrongRef(a) ==
    /\ pc[a] = "unregister" /\ lock = "none"
    /\ LET v == dying[a]
           r == registry[target[v]]
       IN IF r = "none"
          THEN Goto(a, "delete") /\ UNCHANGED <<peerVars, registry, lock, strong, dying, aborted>>
          ELSE /\ registry' = [registry EXCEPT ![target[v]] = "none"]
               /\ strong' = [strong EXCEPT ![r] = @ - 1]
               /\ aborted' = (strong[r] <= 0)
               /\ IF strong[r] = 1
                  THEN lock' = a /\ Goto(a, "blocked")
                  ELSE UNCHANGED lock /\ Goto(a, "delete")
               /\ UNCHANGED dying
    /\ UNCHANGED <<peerVars, target, deleted, channelVars, arg, held, packs, marshals>>

\* The rest of DecStrong: delete this, which may abort when it is the second delete.
DeleteStub(a) ==
    /\ pc[a] = "delete"
    /\ deleted' = deleted \cup {dying[a]}
    /\ dying' = [dying EXCEPT ![a] = "none"]
    /\ aborted' \in (IF dying[a] \in deleted THEN BOOLEAN ELSE {FALSE})
    /\ Goto(a, "idle")
    /\ UNCHANGED <<peerVars, registry, lock, strong, target, channelVars, arg, held, packs,
                   marshals>>

-----------------------------------------------------------------------------
(***************************************************************************)
(* ServiceRunnable::Run and ThreadEntry: the service thread of stub s.     *)
(***************************************************************************)
\* The connection to the bus and its unique name.
Connect(s) ==
    /\ worker[s] = "starting"
    /\ worker' = [worker EXCEPT ![s] = "connected"]
    /\ mName' = [mName EXCEPT ![s] = TRUE]
    /\ UNCHANGED <<peerVars, registry, lock, stubVars, mWorkers, mStarted, threadVars, packs,
                   aborted, marshals>>

\* Run returns, and ThreadEntry removes the worker from the pool.
ConnectFails(s) ==
    /\ worker[s] = "starting" /\ world.mayFail
    /\ worker' = [worker EXCEPT ![s] = "ended"]
    /\ mWorkers' = mWorkers \ {s}
    /\ UNCHANGED <<peerVars, registry, lock, stubVars, mStarted, mName, threadVars, packs, aborted,
                   marshals>>

\* mStarted is set under the channel's lock, then the condition is signalled,
\* and the dispatch loop begins.
ReportStart_NoFlag(s) ==
    /\ worker[s] = "connected"
    /\ worker' = [worker EXCEPT ![s] = "serving"]
    /\ UNCHANGED <<peerVars, registry, lock, stubVars, mWorkers, mStarted, mName, threadVars,
                   packs, aborted, marshals>>

ReportStart(s) ==
    /\ worker[s] = "connected"
    /\ mStarted' = [mStarted EXCEPT ![s] = TRUE]
    /\ worker' = [worker EXCEPT ![s] = "serving"]
    /\ UNCHANGED <<peerVars, registry, lock, stubVars, mWorkers, mName, threadVars, packs, aborted,
                   marshals>>

\* The dispatch loop ends only for want of memory; mStarted stays set.
DispatchEnds(s) ==
    /\ worker[s] = "serving" /\ pc[s] = "idle" /\ world.mayFail
    /\ worker' = [worker EXCEPT ![s] = "ended"]
    /\ mWorkers' = mWorkers \ {s}
    /\ UNCHANGED <<peerVars, registry, lock, stubVars, mStarted, mName, threadVars, packs, aborted,
                   marshals>>

\* HandleMessage of "Release": mTarget->Release().
HandleRelease(s) ==
    /\ worker[s] = "serving" /\ pc[s] = "idle"
    /\ s \in known \ deleted /\ released[s] < world.maxReleases
    /\ DecStrong(s, s, "idle")
    /\ released' = [released EXCEPT ![s] = @ + 1]
    /\ UNCHANGED <<world, registry, lock, target, deleted, channelVars, arg, held, packs,
                   marshals, known, contended>>

-----------------------------------------------------------------------------
ThreadStep(t) ==
    \/ FindExportObject(t) \/ MarshalProxy(t) \/ CreateFails(t) \/ CreateObject(t)
    \/ RunTask(t) \/ StartListening(t) \/ SetPack(t) \/ RegisterExportObject(t)
    \/ ReleaseStub(t) \/ AbandonStub(t)
ActorStep(a) == OnLastStrongRef(a) \/ DeleteStub(a)
ServiceStep(s) == Connect(s) \/ ReportStart(s)

\* Nothing happens after the process aborted.
Next ==
    /\ ~aborted
    /\ \/ \E t \in Threads : ThreadStep(t) \/ \E o \in Objects : MarshalInterface(t, o)
       \/ \E a \in Actors : ActorStep(a)
       \/ \E s \in Stubs : \/ ServiceStep(s) \/ ConnectFails(s) \/ DispatchEnds(s)
                          \/ HandleRelease(s)

\* Every thread is scheduled, and the bus answers.
Fairness ==
    /\ \A t \in Threads : WF_vars(~aborted /\ ThreadStep(t))
    /\ \A a \in Actors : WF_vars(~aborted /\ ActorStep(a))
    /\ \A s \in Stubs : WF_vars(~aborted /\ (ServiceStep(s) \/ ConnectFails(s)))

Spec == Init /\ [][Next]_vars /\ Fairness

-----------------------------------------------------------------------------
(***************************************************************************)
(* Properties.                                                             *)
(***************************************************************************)
\* A stub's strong count is the number of AutoPtrs of marshalling threads and
\* of registry entries that hold it, less what peers released, whichever
\* threads race.
StubCountsExact ==
    \A s \in Stubs :
       strong[s] = Cardinality({t \in Threads : held[t] = s})
                   + Cardinality({o \in Objects : registry[o] = s})
                   - released[s]

\* Whichever threads race, replace each other's registrations and drop their stubs, and
\* whatever fails: a stub that a thread holds or the registry names is not deleted, nor is
\* anyone about to delete it, unless a peer has released it or its object lacks an interface.
HeldStubAlive ==
    \A s \in Stubs :
       /\ released[s] = 0 /\ target[s] \notin world.broken
       /\ (\E t \in Threads : held[t] = s) \/ (\E o \in Objects : registry[o] = s)
       => s \notin deleted /\ \A a \in Actors : dying[a] # s

\* The process aborts only because a peer released a stub, or because of an object that
\* lacks an interface: no race of marshalling threads violates an assertion of RefBase.
AbortExplained == aborted => \E s \in Stubs : released[s] > 0 \/ target[s] \in world.broken

\* An object none of whose stubs a peer has released, that has all its interfaces, and that
\* no two threads have marshalled at the same time; whatever happens to other objects.
Quiet(o) == /\ o \notin contended \cup world.broken
            /\ \A s \in Stubs : target[s] = o => released[s] = 0

\* The service thread keeps a raw pointer to its stub (ServiceRunnable::mTarget)
\* and dispatches calls to it for ever.  Nobody deletes a served stub, or waits for the
\* registry's lock in order to, but for a race on its own object or a peer's Release.
ServedStubAlive ==
    \A s \in Stubs : worker[s] = "serving" /\ Quiet(target[s])
                     => s \notin deleted /\ \A a \in Actors : dying[a] # s

\* A pack names a stub of the object it was made for, whose channel has its bus name and has
\* begun to listen.
PacksResolve == \A p \in packs : target[p[2]] = p[1] /\ mName[p[2]] /\ mStarted[p[2]]

\* Two services for one object arise only from a race on that object or a peer's Release.
SameStub == \A p, q \in packs : p[1] = q[1] /\ Quiet(p[1]) => p = q

\* MarshalInterface returns where threads and connections start, unless the process aborts
\* or a thread waits in the registry's lock for itself.
MarshalReturns ==
    \A t \in Threads :
       ~world.mayFail /\ pc[t] = "find"
          ~> pc[t] = "idle" \/ aborted \/ \E a \in Actors : pc[a] = "blocked" /\ lock = a

\* StartListening returns, so that its caller sees whether it failed
\* (CStub::CreateObject: "Channel start listening failed").
ListeningReturns == \A t \in Threads : pc[t] = "await" ~> pc[t] # "await"

-----------------------------------------------------------------------------
(***************************************************************************)
(* The inductive invariant: what the properties rest on.                   *)
(***************************************************************************)
\* Where a thread is before it has a stub, and while the AutoPtr holds one.
Creating == {"listen", "await", "packnew", "register"}
Holding  == Creating \cup {"pack", "release", "abandon"}
Ending   == {"unregister", "delete"}

TypeOK ==
    /\ world \in Worlds
    /\ registry \in [Objects -> Stubs \cup {"none"}]
    /\ lock \in Actors \cup {"none"}
    /\ strong \in [Stubs -> Int]
    /\ target \in [Stubs -> Objects \cup {"none"}]
    /\ deleted \subseteq Stubs /\ mWorkers \subseteq Stubs /\ known \subseteq Stubs
    /\ worker \in [Stubs -> {"none", "starting", "connected", "serving", "ended"}]
    /\ mStarted \in [Stubs -> BOOLEAN] /\ mName \in [Stubs -> BOOLEAN]
    /\ pc \in [Actors -> {"idle", "find", "create", "blocked"} \cup Holding \cup Ending]
    /\ arg \in [Threads -> Objects \cup {"none"}]
    /\ held \in [Threads -> Stubs \cup {"none"}]
    /\ dying \in [Actors -> Stubs \cup {"none"}]
    /\ packs \subseteq Objects \X Stubs
    /\ aborted \in BOOLEAN
    /\ marshals \in Nat
    /\ released \in [Stubs -> Nat]
    /\ contended \subseteq Objects

\* A thread holds a stub from CreateObject or FindExportObject to the end of
\* MarshalInterface, and marshals an object all the while.
PlaceOK ==
    /\ \A t \in Threads :
          /\ pc[t] \in {"find", "create"} \cup Holding => arg[t] \in Objects
          /\ pc[t] \in Holding => held[t] \in Stubs
          /\ pc[t] \in {"idle", "find", "create"} \cup Ending => held[t] = "none"
          /\ pc[t] = "abandon" => arg[t] \in world.broken
    /\ \A s \in Stubs : pc[s] \in {"idle", "blocked"} \cup Ending

\* Whatever refers to a stub was created: a stub without a target is not in use.
FreshOK ==
    /\ \A t \in Threads : held[t] # "none" => target[held[t]] \in Objects
    /\ \A o \in Objects : registry[o] # "none" => target[registry[o]] \in Objects
    /\ \A a \in Actors : pc[a] \in Ending => dying[a] \in Stubs /\ target[dying[a]] \in Objects
    /\ \A s \in Stubs : s \in known \/ released[s] # 0 => target[s] \in Objects

\* A channel is named before it starts to listen, and only stubs that listen
\* are registered, found or packed.
ChannelOK ==
    /\ \A s \in Stubs : worker[s] \in {"connected", "serving"} \/ mStarted[s] => mName[s]
    /\ \A t \in Threads :
          pc[t] \in {"packnew", "register", "pack", "release"} => mStarted[held[t]]
    /\ \A o \in Objects : registry[o] # "none" => mStarted[registry[o]]
    /\ \A p \in packs : mStarted[p[2]]

\* The references to stub s that DecStrong and IncStrong count.
Holders(s) == {t \in Threads : held[t] = s}
Entries(s) == {o \in Objects : registry[o] = s}
CountsOK ==
    \A s \in Stubs :
       /\ IsFiniteSet(Holders(s)) /\ IsFiniteSet(Entries(s))
       /\ strong[s] = Cardinality(Holders(s)) + Cardinality(Entries(s)) - released[s]

\* A stub is registered under, and held for, the object it was created for.
HomeOK ==
    /\ \A o \in Objects : registry[o] # "none" => target[registry[o]] = o
    /\ \A t \in Threads : pc[t] \in Holding => target[held[t]] = arg[t]
    /\ \A p \in packs : target[p[2]] = p[1]

\* Whoever drops the last reference to a stub leaves nobody who could find it, and so is the
\* only one to delete it.
Gone(s) == s \in deleted \/ \E a \in Actors : dying[a] = s
GoneOK ==
    \A s \in Stubs :
       /\ Gone(s) => target[s] \in Objects
       /\ released[s] = 0 /\ target[s] \notin world.broken =>
             /\ Gone(s) => Holders(s) = {} /\ Entries(s) = {}
             /\ \A a \in Actors : dying[a] = s =>
                   s \notin deleted /\ \A b \in Actors : dying[b] = s => b = a

\* The stub of a quiet object is created while the registry has none, stays registered, and
\* so is never without a reference.
QuietOK(o) ==
    /\ \A t, u \in Threads :
          pc[t] # "idle" /\ pc[u] # "idle" /\ arg[t] = o /\ arg[u] = o => t = u
    /\ \A s \in Stubs : target[s] = o => s \notin deleted /\ \A a \in Actors : dying[a] # s
    /\ \A t \in Threads : arg[t] = o =>
          /\ pc[t] \in {"create"} \cup Creating => registry[o] = "none"
          /\ pc[t] \in {"pack", "release"} => registry[o] = held[t]
    /\ \A p \in packs : p[1] = o =>
          \/ registry[o] = p[2]
          \/ \E t \in Threads : pc[t] = "register" /\ arg[t] = o /\ held[t] = p[2]

IInv == /\ TypeOK /\ PlaceOK /\ FreshOK /\ ChannelOK /\ CountsOK /\ HomeOK /\ GoneOK
        /\ AbortExplained
        /\ \A o \in Objects : Quiet(o) => QuietOK(o)
=============================================================================
