# A verification of the C++ Component Model runtime

ccm is a component model for C++: a compiler (`ccdl`) turns interface
descriptions into metadata and stubs, a runtime loads components, counts
references and carries calls between processes over D-Bus, a service manager
maps names to remote objects, and `libcore` is a class library on top. This
directory models the parts of it whose correctness depends on interleavings,
failures and long sequences of calls, checks them with TLC on small instances,
and proves the central results with TLAPS for every instance.

Source paths below are relative to the repository. `PROJECT.json` names, for
every definition that models code, the lines it models; for every property, a
plausible bug that it catches; and every hazard of the code with the properties
aimed at it.

## 1. Inventory

| component | state | operations | what is hard | what makes it correct |
|---|---|---|---|---|
| RefBase, WeakRef (`src/runtime/util/ccmrefbase.*`) | `mStrong`, `mWeak`, `mFlags`, the object and its control block | IncStrong, DecStrong, ForceIncStrong, IncWeak, DecWeak, AttemptIncStrong, AttemptIncWeak, ExtendObjectLifetime, the destructor | lock-free: every operation is several atomic accesses, and promotions race with the last release | counts exact, nothing used after it is freed, nothing revived, nothing leaked |
| Mutex, Condition (`src/runtime/util/mutex.*`) | `mState`, owner, contender and recursion counts; `mSequence`, `mNumWaiters`; two futex queues | Lock, Unlock, Wait, TimedWait, Signal, SignalAll | sleeping and waking race; SignalAll requeues sleepers from one futex to another; timeouts and interrupted waits | exclusion, exact recursion, no lost wakeup, nobody asleep on a free mutex |
| RPC export (`src/runtime/rpc`: registry, CStub, CDBusChannel, CDBusChannelFactory, thread pool) | the export registry and its lock, stubs and their references, channels, service threads | MarshalInterface, Find/Register/UnregisterExportObject, CStub::CreateObject, RunTask, StartListening, the service thread, the Release message | lookup and registration are two critical sections; a thread waits for another that may have failed; destructors take locks | one stub per object, stubs outlive their service threads, marshalling returns |
| Service manager (`src/servicemanager`) | the daemon's name map, the requests on the bus, the calls in progress | AddService, GetService, RemoveService on both sides | calls time out while their requests live on; one daemon serves everybody | clients' knowledge is true, replies belong to their calls, the daemon stays up, every call returns |
| HashMap (`src/runtime/util/hashmap.h`) | the array of chains, size, threshold, count, the references to keys and values | Put, Get, ContainsKey, Remove, Clear, GetValues, Rehash | growth, its limit, failed allocation, hashes of either sign | it is a map; references are exact; no index leaves the array |
| RPC calls (CProxy, CStub, CArgumentList and `invoke`, CDBusParcel, CDBusChannel::Invoke and HandleMessage, import registry) | parcels with size, capacity and position; registers and stack words of a call; what the stub allocated; pending calls | ProxyEntry, Marshal/UnmarshalArguments, Invoke, HandleMessage, MarshalResults, UnmarshalResults, the parcel's reads and writes | proxy and stub must agree on a layout neither sends; time-outs; methods that fail | what the method receives is what the caller passed, writes stay in the buffer, the stub frees what it allocated, every call returns |
| Class loader and metadata (`src/runtime/component`, `src/runtime/reflection`) | component maps by id and by path, lazily built maps of classes | LoadComponent, FindComponent, UnloadComponent, LoadCoclass, LoadInterface, BuildAll... | several threads load the same component | each component is loaded once and found under both keys |
| Metadata serializer (`src/runtime/metadata`) | a buffer and offsets | Serialize, Deserialize | address fix-ups | round trip |
| Strings, arrays, shared buffers (`src/runtime/type`) | `SharedBuffer` counts, character data | Acquire, Release, Edit | copy on write by several threads | no owner sees another's edit |
| ccdl (`src/ccdl`) | syntax tree, symbol world | parse, resolve, generate | forward declarations | sequential; resolution is complete |
| libcore monitors and threads (`src/libcore/src/ccm/core/Native*`, `AutoLock`) | lock words, monitors with owner, count and wait set, the interrupt flag and wait links of threads, monitor pool, thread list | Lock, Unlock, Wait, Notify, NotifyAll, Interrupt, Inflate; SuspendAll, Register | the state of a lock moves from a word to a monitor while it is held; notification, interruption and timeouts race | holds are exact, the wait set is exact, nobody sleeps through an interrupt or beside a free monitor |
| ConcurrentLinkedQueue (`src/libcore/src/ccm/util/concurrent`) | nodes with item, next and off mark; head and tail that lag | Offer, AddAll, Poll, Peek, IsEmpty, Contains, Remove, iterators | lock-free: every access of a pointer interleaves | each call takes effect at once on a queue, and returns |
| libcore, the rest | collections, text, io, math | ported Java classes | mostly sequential | as in Java |
| appentry, sample, external | - | a main, examples, vendored code | - | not part of the model |

How they interact. Everything is a `RefBase`, so every component rests on the
first row. The registries, channels, the thread pool and the service manager's
map are each guarded by a `Mutex`; `CDBusChannel::StartListening` is the
runtime's use of `Condition`. A process that calls `AddService` marshals the
object (RPC export), which creates a stub and a service thread, and sends the
resulting pack to the daemon; a process that calls `GetService` gets the pack
and makes a proxy from it. The registries and the class loader store their
objects in `HashMap`, which takes and gives back references, and a stub that
loses its last reference calls back into the registry that is releasing it.
`libcore` has a Mutex and a Condition of its own, with the algorithm of the
runtime's, below its monitors; a remote call is a proxy, a parcel, a channel, a
stub and the reflective call of the method.

## 2. Plan

Done, in this order: `RefBase` with its abstract specification
`ObjectLifetime`; `Mutex`; `Export`; `HashMap` with `MapSpec`; `ServiceManager`;
`Monitor`; `ConcurrentLinkedQueue` with `QueueSpec`; `Parcel` and `RemoteCall`,
which composes the proxy, the parcel, the channel, the stub and the native call;
the proofs.

Next, if the project grows: `ClassLoader` (loading by path and by id, several
threads, unloading); `SharedBuffer` (the counter and copy on write);
`ThreadLocalMap` (`src/libcore/src/ccm/core/ThreadLocal.cpp`) and
`MetaSerializer` as operators against a reference; the suspension of threads;
`ConcurrentHashMap`.

Every safety property of the passing runs is proved except `ImplementsQueue`. It is
the theorem to come: the refinement of `QueueSpec`, whose mapping reads the items
along the links, needs to know at each linearization point which nodes the links
from the head lead to, and not only in which order they stand.

## 3. The modules

### RefBase, ObjectLifetime, MCRefBase, RefBaseProofs

One object and a set of *handles*, each a variable that may hold a strong or a
weak reference. A handle runs one operation at a time; each access to `mStrong`
or `mWeak` is one step, and `pc` says which access comes next. `mFlags`, `base`
and `impl` are the lifetime mode and the existence of the object and of its
`WeakRefImpl`. `raw` is the pointer the creator got from `new` and still uses.
An action is named after the function it begins or the access it makes:
`AttemptIncStrong` (the weak count), `AttemptLoad`, `AttemptRoute` (the branch on
the loaded value), `AttemptCas`, `AttemptInitCas`, `OnIncStrongAttempted`,
`AttemptAdd`, `AttemptFix`. The memory orders are not modelled: on one atomic
at a time they do not change the values read-modify-writes see.

Client contract: an operation starts from a reference that stays in place until
the operation has a count of its own, and nobody gives up what may be the last
reference while the creator still uses its uncounted pointer.

`ObjectLifetime` is the promise without counters: an object is fresh, live,
dying, gone; with the normal lifetime it dies with its last holder and never
comes back.

* Run `refbase` (4 handles, symmetric): `NoAssertion` (no `assert(0)` of the file is
  reached), `ImplNotFreed`, `ObjectAlive`, `CountsExact`, `NoLeak`,
  `HooksBalanced`, `NotRevived`, `ImplementsLifetime`. Four handles are enough for two
  racing promotions, a third party releasing and a fourth holding the source;
  `INITIAL_STRONG_VALUE` 8 stands for 2^28 and only has to exceed the counts.
* Run `refbase_early_release` (violation): the comment in `DecWeak` says that the
  block outlives the object and the code takes care not to free it before the
  first strong reference. It decides so from a load that is not atomic with the
  decrement: if the creator takes the first strong reference between the two,
  `DecWeak` frees the block of a live object.

### Mutex, MCMutex, MutexProofs

One mutex, one condition, and threads that run short programs of calls. Each
atomic access and each futex call is a step. `mutexQueue` and `condQueue` are
the kernel's queues; `WakeOne` is FUTEX_WAKE, and FUTEX_CMP_REQUEUE moves a queue.
`inWait` marks the Lock and Unlock that Wait makes itself. `Timeout` may come at
any time a timed wait sleeps; `Interrupted` and `CasFails` are EINTR and the
spurious failure of a weak compare-exchange, `MaxSpurious` of them.
`Await` is the loop `while (!ready) Wait()` that the runtime uses.

* Run `mutex`: three threads, the nine combinations of programs in `AllPrograms`
  (two waiters and a broadcast, a waiter and a timed waiter and a broadcast,
  signals inside and outside the lock, Wait at depth two, ...). Three threads are
  the least for a waiter, a signaller and a contender at once. The mutex is
  recursive; one whose threads never nest takes the same steps either way
  (the count is 1 at every Unlock), so the six flat programs are also those of an
  ordinary mutex. `MutualExclusion`, `RecursionExact`, `CountsExact`,
  `NoStrandedSleeper`, and `Termination` under weak fairness of every thread and
  every timeout: the kernel schedules runnable threads and timers expire; a woken thread is one that left the queue.
  `Signal` outside the lock, as `CDBusChannel.cpp:72` does although `mutex.h`
  says the condition's fields are modified while holding the guard, is among the
  programs and loses nothing. `SignalAll` outside it would: it requeues waiters to
  a mutex that may already be free, where no Unlock is left to wake them. Nothing in
  the repository calls it so; the programs broadcast inside, and the theorem has
  that as its hypothesis (`BroadcastsInside`).

Everything is for a Mutex in zeroed memory (`InitialValues = {0}`), which static
objects have: the constructors leave `mState`, `mNumContenders` and `mSequence`
unset, so one that is made by plain `new` may start as held by nobody, and
`StateMeansHeld` (`mState` is 1 exactly while a thread holds the mutex; proved, not
listed in the run) then fails in the first state.

`mSequence` is an unbounded integer. In the code it wraps after 2^32 signals, and a
waiter preempted for exactly that many between its load and its sleep would miss
them; that is not modelled.

### Export, MCExport, ExportProofs

Threads that marshal objects, the registry, stubs and their service threads. One
critical section is one step except where a thread blocks inside it: then `lock`
holds the thread for ever, because the mutex is not recursive. `strong` is the
stub's count (each change is one step, which `RefBase` justifies); `dying` is the
stub whose last reference an actor has dropped and whose `OnLastStrongRef` it
runs. `StartListening` is enabled when `mStarted` is set: that a signalled
waiter wakes is what `Mutex` shows. Threads marshal what they like, the same object
at once included; `contended` remembers the objects on which two of them met.
`CreateFails` and `AbandonStub` are the exits of `CStub::CreateObject` for an object
without coclass and for one that lacks an interface, with the error return of
`MarshalInterface`; the second deletes the stub that the AutoPtr still holds, and its
release then works or aborts. A *world*, chosen initially, says what else may happen:
whether thread creation and the bus may fail (`mayFail`), the number of Release
messages (`maxReleases`), and which objects are proxies, without coclass (`bare`) or
lack an interface (`broken`).

* Run `export` (three threads, two objects, three stubs, four worlds):
  - in all circumstances: `StubCountsExact`; `PacksResolve` (a pack names a stub of its
    own object, which listens); `HeldStubAlive` (whoever races, a stub that is held or
    registered is not deleted, unless a peer released it or its object is broken);
    `AbortExplained` (RefBase's assertions fail only after a Release or for a broken
    object).
  - per object: `ServedStubAlive` and `SameStub` hold for every object that is `Quiet`,
    whatever befalls the others: no two threads marshalled *it* at once, no peer
    released *its* stub, and it has its interfaces. They are false for the others,
    as the code is: two threads that marshal one object create two stubs (the lookup
    and the registration are two critical sections), the second registration drops
    the first stub, and its service thread goes on with the raw pointer.
  - `MarshalReturns`, under weak fairness of threads and service threads: where threads
    start and the bus works, MarshalInterface returns, the process aborts, or a thread
    waits for itself in the registry's lock. The last happens: the stub that the
    second registration drops inside the registry's critical section may lose its
    last reference there, and its `OnLastStrongRef` takes the same lock.
* Run `export_start_failure` (violation): `StartListening` waits for a service
  thread that could not start, so its caller never sees the error it logs.

Two objects and three stubs let one object be exported, found again and
exported concurrently while another one is; three threads let two race while a third
finds, registers or releases in between. The run has 529,024 states.

### HashMap, MapSpec, MCHashMap, HashMapProofs

The table with its chains as sequences. `Rehash` gives the table it leaves as a
record so that `Put`, which calls it first, is one action; its two nested loops
are the recursive functions in `MoveChain` and `MoveChains`. `PutBucketIndex` is
the signed remainder of C and `Index` the unsigned one. `corrupt` records an
index outside the array; nothing is said about what follows. `refs` counts the
references `AssignFunc` and `DeleteFunc` take and give back. `MapSpec` is the
abstract map; the refinement maps it to what `Get` returns (`GetValues` only
reads, and is left out).

* Run `hashmap`, for two types of keys. Strings: hashes chosen to share a chain
  before and another one after the growth from 5 to 7 buckets, where 7 stands for
  `MAX_BUCKET_SIZE`; 8 insertions reach the limit and go on. `IndexInBounds` and
  `ImplementsMap`, the refinement, are claimed for these. Objects: hashes of either
  sign and failing allocations. There the table can become corrupt: a negative hash
  is moved to a negative index by the first growth, and a failed allocation leaves a
  size larger than the array. `RefsExact` holds of both, until then.
  `NearestPrime` in the MC module compares `get_lower_bound` with the nearest
  prime for all arguments up to 6200.

`UIntRange` is 2^16 instead of 2^32, because TLC's integers have 32 bits.

### ServiceManager, MCServiceManager, ServiceManagerProofs

Clients in the library, a bus, the daemon. A call connects, sends, and blocks
for its reply or a timeout; the daemon handles one request per step and answers
if the caller still waits. The bus is external: it keeps the order in which it
got the requests, delivers those whose sender gave up, and answers for a daemon
that is gone. `status` and `acked` are what a name's owner knows from the error
codes it got. `seen` collects what was registered under a name during a GetService.

* Run `servicemanager`, in two worlds. With careful clients (an owner adds only names
  it knows to be absent and removes only names it knows to be present) and a
  daemon that lasts: `OwnersViewTrue`, `DaemonRuns`, `PacksOwned`. Both conditions
  matter: RemoveService of an absent name reads through a null pointer and
  AddService of a present one loses a pack. With any clients and a daemon that
  may end, too: `ResultWasRegistered`, and `CallsReturn` under weak fairness of
  clients and daemon, *without* fairness of timeouts: the daemon answers every
  request.

One name, two services and two clients let every pair of calls overlap; with
three calls a client can add, remove and add again around a timeout.

### Monitor, MCMonitor, MonitorProofs

One object with its lock word, the monitor it may be inflated to, and threads
that run nested `AutoLock` sections and call Wait, Notify, NotifyAll and
Interrupt. A block under `mMonitorLock` or under a thread's wait mutex is one
step, since both are what module `Mutex` models; the blocks of `NativeMonitor::Wait`
and `Lock` between which a mutex is released are steps of their own (`WaitRelease`,
`ReadInterrupted`, `ClearWaitMonitor`, `ClearInterrupted`, `Relock`, `Contend`,
`Restore`). The wait set is the list the code keeps, linked through `mWaitNext`.
`held` counts the locks a thread really got, `depth` the sections it is in: they
differ, because `NativeObject::MonitorEnter` passes `trylock` and `AutoLock`
ignores the result. `Inflate` may fail, as its weak compare-exchange may.

* Run `monitor` (three threads; a thin lock of two levels, 1 for
  `kThinLockMaxCount` 4095, so that a third level inflates): `HoldsExact`,
  `WaitSetExact`, `NoInterruptedSleeper`, `NoStrandedContender`, and `WaitReturns`
  under weak fairness of the threads inside calls and of their leaving sections.
  Nobody is assumed to notify or to time out. Three threads are a waiter, another
  waiter behind it in the wait set, and one that notifies, interrupts or holds the
  lock; the bound on calls lets the first wait at depth two.
* Run `monitor_sections` (violation): two `AutoLock` sections of one object overlap.

`mNumWaiters` is never read by this code and is left out, as are inflation by
another thread than the owner (only for callers that do not pass `trylock`, of
which there are none), the monitor pool and the suspension of threads.

### ConcurrentLinkedQueue, QueueSpec, MCConcurrentLinkedQueue, ConcurrentLinkedQueueProofs

The list of nodes; one load, store or compare-exchange of a shared field is one
step, and `my` holds a thread's place and local variables. The Java original links
a node that fell off the list to itself; this port moves the head and then
sets `mIsOff`, so that there is a moment between the two. Offer and AddAll share
their actions, as do the walks of Poll, Peek, IsEmpty and of First inside Contains
and Remove. `QueueSpec` is a queue on which a call takes effect in one step between
its beginning and its end; the refinement maps the queue to the items left in the
nodes from the head on, and the steps that decide a call's `result` are its
linearization points.

* Run `queue` (two threads, one making three calls while the other makes one, on an
  empty queue and on one with two items): `OffBehindHead`, `ImplementsQueue`,
  `CallsReturn` under weak fairness of the threads inside calls. Three calls let
  the tail lag, a node be unlinked and the head pass the node on which the other
  thread stands.

Nodes are never freed in the model: the reference counts of nodes, and the race of
a load with a release, are listed as a hazard and not modelled; nor are iterators,
GetSize and ToArray, which promise less than a linearizable result.

### Parcel, RemoteCall, MCRemoteCall, RemoteCallProofs

`Parcel` is the buffer: bytes are `<<token, k>>`, so that a read at another place or
of another width than the write does not yield the token; position, size and
capacity are those of the code. An array is written by the type that its `mType`
holds. Flat ones are a block; strings are written and read one by one, and reading
stops at the first failure; of arrays of interfaces only the length is written, and
nulls are read; and of an array of *unknown* type the contents are neither written
nor read, without an error. Unknown is the type of every array that was copied or moved
(`ccmarray.h:188`, `ccmarray.cpp:55`), and of arrays whose elements `Type2Kind` does not
know, nested arrays and enumerations among them: the branch for
`CcmTypeKind::Array` is never taken, and a nested array arrives as null.

`RemoteCall` is one call: the proxy finds the arguments in registers and stack words
(`GetLongValue`, `GetDoubleValue`), writes them, sends; the stub reads them into its
argument list, calls the method, writes the results, frees, answers; the proxy stores
results through the addresses it finds (`GetValueAddress`). A value is a sequence of
tokens: one, or the strings of an array, or none for the null array. `heap` has one
member for each allocation of the stub: the variable, the buffer of an array, each
string in it. The placement of parameters by the compiler (`AbiSlot`) is external.
`sig`, the method's parameters, is chosen initially. Registers that the assembly code
overwrites and does not restore may end either process: `RegisterLost` in the service
(`invoke.cpp:119`), `StackReadCrashes` (`GET_STACK`) and `EntryCrashes` (`__entry`) in the
client.

* Run `remotecall` (all methods of up to three parameters over sixteen input
  parameters, all of up to two over inputs and outputs, and methods of up to fifteen
  parameters that reach the stack; 292,585 states): `ArgumentsArrive`,
  `WritesInBounds`, `StubFrees`, `CallReturns`. `ArgumentsArrive` is claimed for what the runtime carries
  (`Supported`). A Float is converted from a Double that is not there, two stack
  arguments arrive in reverse order, interfaces are not written at all, nor are the
  contents of arrays of interfaces and of unknown type, and the model shows each.
  `StubFrees` says exactly what is left when the stub has answered: the strings inside
  [in] arrays, because `Triple::FreeData` gives back only the buffer, and the contents of
  [out, callee] arrays. `CallReturns` is under weak fairness of the client alone: its
  blocking send ends by its own time-out, whatever the service does. It exempts
  [out, callee] parameters, whose results are read through a null parcel, and
  parameters on the stack, for which the client may crash. In `Fairness` the enabling
  condition of an unblocked client is written out (`Running`: it always has a next
  step), because TLC evaluates ENABLED without caching, and the loop over strings
  makes that slow.
* Run `remotecall_out` (violation): a method with an [out] parameter other than Char
  ends the service.

Lengths 0, 3 and 6 and widths 1 and 8 reach the empty value and every alignment; the
array of strings has an empty string between two others.

## 4. Proofs

Each proof module extends its component's module, states one lemma per action
(that it keeps the inductive invariant `IInv` of that module) and ends with the
theorems. An `IInv` was first an invariant of a TLC run, then proved. What is
assumed is what the named `ASSUME`s of the modules say; beyond those, two modules
carry a hypothesis in the theorems, given below.

`RefBaseProofs`, for every finite set of handles with at most `MAX_COUNT` members
and callers that do not release early (`EarlyRelease = FALSE`): `TypeOK`,
`NoAssertion`, `CountsExact`, `ImplNotFreed`, `ObjectAlive`, `HooksBalanced`, `NoLeak`,
the action property `NotRevived`, and that the counters implement `ObjectLifetime`.
None is inductive by itself. `IInv` adds `SourcesHeld` (whoever copies a reference
still has its source), `ModePoints` (which program points belong to which
lifetime), `RawProtects` (nothing was given up while the creator uses its
pointer), `Lifetimes` and `OneDestroyer` (one handle at most is between the last
release and the deletion). The lemmas are one per kind of effect on the counters
(`QuietMove`, `StrongUp`, `FixMove`, `StrongDown`, `WeakUp`, `WeakDown`) and the
steps of the handles instantiate them; the cardinalities come from
`FiniteSetTheorems`. `HooksBalanced` needs to know which handles owe a hook call
(`HooksOK`), `NoLeak` that somebody is left to free what is not freed (`LeakOK`);
both are proved on top of `IInv`.

`MutexProofs`, for any threads, any programs and any number of spurious failures,
with `InitialValues = {0}`: `TypeOK`, `MutualExclusion`, `StateMeansHeld`,
`RecursionExact`, `CountsExact`, `NoStrandedSleeper`. `IInv` adds what each program
point implies about the thread (`PlaceOK`: inside Wait the saved depth is the depth,
...) and about owner and recursion count (`OwnerOK`, `FreeOK`), for the thread that
has just taken or is about to give back the mutex; most actions move one thread
between points that hold the same things (`SameHolders`). `CountOK` carries the
finiteness of the sets it counts, so that the threads may be infinitely many.
`NoStrandedSleeper` follows from it: the count that Unlock reads covers everybody
who may be asleep, provided that `SignalAll` is called with the mutex held; the
hypothesis `[]BroadcastsInside` says so, and is needed (section 3).

`ExportProofs`, for any threads, objects, stubs and worlds, and with no assumption on
who marshals what: `StubCountsExact`, `HeldStubAlive`, `AbortExplained`, `PacksResolve`,
`ServedStubAlive`, `SameStub`. `IInv` says who holds a stub at which place (`PlaceOK`), that
only created stubs are referred to (`FreshOK`), that what is registered or packed
listens (`ChannelOK`), and that a stub is registered under, held for and packed for its
own object only (`HomeOK`), which is why objects do not disturb each other. `GoneOK`
says that whoever drops the last reference leaves no holder and is the only one to
delete; from it come the second and third property. `QuietOK(o)` says that the stub of
a quiet object is created while the registry has none and stays registered; it is
kept for each object separately, while others are raced on, released and broken, and
gives the last two.

`ServiceManagerProofs`, for any clients, names, owners and numbers of calls:
`ResultWasRegistered` in all worlds, and for careful clients `OwnersViewTrue`,
`DaemonRuns`, `PacksOwned`. The core of `IInv` is about requests that outlive their
calls: serials identify them (`BusOK`), at most one request that changes a name is
under way, and while it is, its owner waits for it or has timed out and leaves the
name alone (`ChangesOK`); so what the owner knows is what the daemon has (`ViewOK`).

`MonitorProofs`, for any finite set of threads, any `kThinLockMaxCount`, and any
number of calls and interrupts: `HoldsExact`, `WaitSetExact`,
`NoInterruptedSleeper`, `NoStrandedContender`. `WaitSetOK` says that the list linked
through `mWaitNext` is *some* sequence without repetition that holds all sleepers;
`LinkIs` shows that following the links computes this sequence, and `Appended` and
`Removed` what the code's pointer updates do to it.

`RemoteCallProofs`, for methods with any number of parameters and values of any
length. `RoundTrip`: for a parameter of every kind, what is read from a parcel is what
was written (`Delivered`: the value, and null for an empty string or array, an
interface, the elements of an array of interfaces and an array of unknown type),
wherever it stands, and the reader is then where the writer was. `ArgumentsArrive` rests
on it and on `TravelOK`: the parcel is the `Layout` of the parameters so far, and the
proxy's running counts are those of the calling convention; `SlotsAgree` and
`SlotsDiffer` say that they lead to the register or stack word the argument is in, and
to no other's. `WritesInBounds` and `StubFrees` are for all methods, not only the
supported ones; `HeapOK` says what is allocated for which parameters on the way.

`HashMapProofs`, for any keys, values, hashes and initial sizes: `IndexInBounds`,
`RefsExact`, and that a sound map implements `MapSpec`. Everything is said through
`Count(t, B)`, the number of places of an array with a bucket in `B`: an append adds
one (`AppendAdds`), a removal takes one away (`RemoveTakes`), a replacement swaps
two (`ReplaceSwaps`), and `MoveChainsIs` shows that the loops of `Rehash` change no
count and leave every bucket where `PutBucket` puts it. `Placed` adds that this is where
`Get` looks and that a key is stored once. `KeysAndValuesDiffer` makes references to
a key and to a value that is the same object two counts; `SizesAssumption` says that
the primes of the constructor do not exceed `MAX_BUCKET_SIZE`.

`ConcurrentLinkedQueueProofs`, for any threads, calls, initial contents and numbers
of nodes: `OffBehindHead`. Which nodes are ahead of the head changes with every
`Unlink`, and a thread may stand on a node that nobody else reaches any more, so the
invariant is not about reachability. `IInv` says that *some* `rank` of the shared
nodes exists in which links lead upwards, marked nodes are below the head, and each
thread stands where its place says (`Standing`: h is p or below it, `Unlink` replaces a
link by a longer one, `CasHead` moves the head up). The nodes that `Offer` and `AddAll`
have made and not linked are a chain of their own (`PrivateOK`). All steps keep the
rank but `Link`, which lifts the chain above the node it is linked to (`AppendKeeps`);
`LinksUp` shows that whatever is on the list is at or above the head.

The library's induction theorems cannot be instantiated by the provers. Where a
proof needs induction (the links of `Monitor` and of the queue, the `Layout` of a call,
the loops of `Rehash`) it is an argument about the least counterexample: the indices at which
the claim fails are a set of naturals, which has a least member (`Least`,
`LeastNat`, from the well-foundedness of <), and the step before it contradicts it.

Only model-checked: all liveness (`Termination`, `MarshalReturns`, `CallsReturn`,
`WaitReturns`, `CallReturns`), which is out of this prover's reach, and
`ImplementsQueue` of `ConcurrentLinkedQueue`. That
`get_lower_bound` finds the nearest prime is compared by TLC (`NearestPrime`); the
proofs only need that it is positive. A type invariant is stated where a proof needs
it, as a part of `IInv`.

## 5. Not modelled

The parts marked as not modelled in `PROJECT.json`, with their reasons: those in
the plan above; read-only reflection; the compiler; the contents of messages and
the wording of logs. Allocation failures are modelled only where the code looks
at them (`Rehash`). `ThreadPoolExecutor::StopTask` has no caller in the repository
and is left out of `Export`. The import registry is keyed by the pointer of an
interface pack, so a new pack never finds an entry, and nothing removes one: there
is no sharing to check. Left out because they change no state: the exits of
`NativeMonitor::Wait` for a timeout out of range (`NativeMonitor.cpp:321`) and of
`AddAll` for the queue itself, a null element and an empty collection
(`ConcurrentLinkedQueue.cpp:407`), the daemon's exits for arguments of other types than
its library sends, and the code that `NativeMonitor::TryLock` returns (`:140`, a Boolean,
inverted), which `AutoLock` ignores.

Met while modelling, outside what a property states, and worth knowing:

* `NativeMonitor::Notify` of an empty wait set ends without a `return`
  (`NativeMonitor.cpp:637`); it may also choose a thread that has timed out or been
  interrupted and has not yet reset `mWaitMonitor`, as the Java original may.
* `NativeThread::sResumeCond` is null from its definition on and used by `Resume`
  (`NativeThreadList.cpp:95`); nothing reaches it yet.
* `ConcurrentLinkedQueue::Poll` with a null result pointer never returns (`:218`), and
  its iterator's Remove clears an item without a compare-exchange (`:794`).
* A Float argument is read as a Double and converted (`CProxy.cpp:231`);
  `CDBusChannel::UnmarshalArguments` is empty (`:226`), so results never reach the
  caller, and an [out, callee] result is read through a null parcel; of such an
  array the stub does not free the contents (`CStub.cpp:488`).
* `HashMap::Remove` and `Clear` leave `mCount` as it was (`hashmap.h:209`), so a map
  that is filled and emptied grows without need.

Most of the repository is the sequential class library of `libcore`: calendars,
formatters, big numbers, tree maps, character tables, ported from Java, some 190
thousand lines. They keep no state between threads and processes and meet no
failures; what they compute is data, which a model would transliterate rather than
abstract. The share of lines that the models cover is therefore small and will stay
so; it is the part in which interleavings, failures and protocols decide.
