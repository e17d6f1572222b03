--------------------------- MODULE ServiceManager ---------------------------
(***************************************************************************)
(* The service manager: a daemon that maps names to interface packs        *)
(* (servicemanager/exe) and the library through which processes call it    *)
(* (servicemanager/lib).  A call opens a private connection, sends one     *)
(* request and blocks for the reply or a timeout; the daemon handles one   *)
(* message at a time.  The bus is external: it delivers requests in the    *)
(* order it received them, those of callers that gave up included, and     *)
(* answers for a daemon that is gone.                                      *)
(***************************************************************************)
EXTENDS Integers, Sequences, FiniteSets

CONSTANTS
    Clients,     \* threads that call the library
    Names,       \* service names
    EmptyName,   \* the one of them that is empty
    Services,    \* what an InterfacePack can name
    Owner,       \* the client that adds and removes each name
    Worlds       \* what clients and daemon may do: records of
                 \*   careful   clients add and remove only names they own and know to be
                 \*             absent or present
                 \*   mayStop   the daemon's dispatch loop may run out of memory
                 \*   maxCalls  bound on the calls of each client

ASSUME ServiceManagerAssumption ==
    /\ Owner \in [Names -> Clients]
    /\ EmptyName \in Names
    /\ Worlds \subseteq [careful : BOOLEAN, mayStop : BOOLEAN, maxCalls : [Clients -> Nat]]

VARIABLES
    world,       \* the world the processes live in
    mServices,   \* the daemon's map
    packs,       \* InterfacePacks the daemon has allocated and not deleted
    running,     \* the daemon is up
    bus,         \* requests on their way to the daemon
    pc,          \* where each client is
    request,     \* the request of a client's current call
    reply,       \* the reply that waits on a client's connection
    calls,       \* calls of each client so far; the serial of its request
    status,      \* what the owner of a name knows about it
    acked,       \* the service the owner last added successfully
    seen         \* history: values of the name since a client's call began

clientVars == <<pc, request, reply, calls, status, acked, seen>>
vars == <<world, mServices, packs, running, bus, pc, request, reply, calls, status, acked, seen>>

NoRequest(c) == [op |-> "none", client |-> c, name |-> EmptyName, service |-> "null", serial |-> 0]

NoReply == [ec |-> "none", pack |-> "null"]

Init ==
    /\ world \in Worlds
    /\ mServices = [n \in Names |-> "null"]
    /\ packs = 0
    /\ running = TRUE
    /\ bus = <<>>
    /\ pc = [c \in Clients |-> "idle"]
    /\ request = [c \in Clients |-> NoRequest(c)]
    /\ reply = [c \in Clients |-> NoReply]
    /\ calls = [c \in Clients |-> 0]
    /\ status = [n \in Names |-> "absent"]
    /\ acked = [n \in Names |-> "null"]
    /\ seen = [c \in Clients |-> {}]

-----------------------------------------------------------------------------
(***************************************************************************)
(* The library.                                                            *)
(***************************************************************************)
\* What a careful client may ask for.
Allowed(c, op, n) ==
    ~world.careful \/ CASE op = "AddService"    -> Owner[n] = c /\ status[n] = "absent"
                  [] op = "RemoveService" -> Owner[n] = c /\ status[n] = "present"
                  [] op = "GetService"    -> TRUE

\* The beginning of AddService, GetService and RemoveService, up to the
\* connection; only AddService has a service to send.
Call(c, op, n, s) ==
    /\ pc[c] = "idle" /\ calls[c] < world.maxCalls[c]
    /\ (op = "AddService") = (s # "null")
    /\ Allowed(c, op, n)
    /\ calls' = [calls EXCEPT ![c] = @ + 1]
    /\ request' = [request EXCEPT ![c] = [op |-> op, client |-> c, name |-> n,
                                          service |-> s, serial |-> calls[c] + 1]]
    /\ pc' = [pc EXCEPT ![c] = "connect"]
    /\ seen' = [seen EXCEPT ![c] = IF op = "GetService" THEN {mServices[n]} ELSE {}]
    /\ UNCHANGED <<world, mServices, packs, running, bus, reply, status, acked>>

\* The connection to the bus, or the message, cannot be made.
ConnectFails(c) ==
    /\ pc[c] = "connect"
    /\ pc' = [pc EXCEPT ![c] = "idle"]
    /\ request' = [request EXCEPT ![c] = NoRequest(c)]
    /\ seen' = [seen EXCEPT ![c] = {}]
    /\ UNCHANGED <<world, mServices, packs, running, bus, reply, calls, status, acked>>

\* dbus_connection_send_with_reply_and_block begins.
Send(c) ==
    /\ pc[c] = "connect"
    /\ pc' = [pc EXCEPT ![c] = "blocked"]
    /\ IF running
       THEN bus' = Append(bus, request[c]) /\ UNCHANGED reply
       ELSE reply' = [reply EXCEPT ![c] = [ec |-> "E_REMOTE_EXCEPTION", pack |-> "null"]]
            /\ UNCHANGED bus
    /\ UNCHANGED <<world, mServices, packs, running, request, calls, status, acked, seen>>

\* The call returns ec to its client, who learns what that says about the name.
Returns(c, ec) ==
    LET n == request[c].name
        op == request[c].op
    IN /\ pc' = [pc EXCEPT ![c] = "idle"]
       /\ request' = [request EXCEPT ![c] = NoRequest(c)]
       /\ reply' = [reply EXCEPT ![c] = NoReply]
       /\ seen' = [seen EXCEPT ![c] = {}]
       /\ IF Owner[n] # c \/ op = "GetService" \/ ec = "E_ILLEGAL_ARGUMENT_EXCEPTION"
          THEN UNCHANGED <<status, acked>>
          ELSE /\ status' = [status EXCEPT ![n] =
                               IF ec = "E_REMOTE_EXCEPTION" THEN "unknown"
                               ELSE IF op = "AddService" THEN "present" ELSE "absent"]
               /\ acked' = [acked EXCEPT ![n] =
                               IF ec = "NOERROR" /\ op = "AddService" THEN request[c].service
                               ELSE "null"]

\* The reply is read.
Return(c) ==
    /\ pc[c] = "blocked" /\ reply[c] # NoReply
    /\ Returns(c, reply[c].ec)
    /\ UNCHANGED <<world, mServices, packs, running, bus, calls>>

\* The reply does not come in time; the connection is closed, the request stays.
Timeout_NoError(c) ==
    /\ pc[c] = "blocked" /\ reply[c] = NoReply
    /\ Returns(c, "NOERROR")
    /\ UNCHANGED <<world, mServices, packs, running, bus, calls>>

Timeout_RetriesRemove(c) ==
    /\ pc[c] = "blocked" /\ reply[c] = NoReply /\ request[c].op = "RemoveService"
    /\ bus' = Append(bus, request[c])
    /\ UNCHANGED <<world, mServices, packs, running, clientVars>>

Timeout(c) ==
    /\ pc[c] = "blocked" /\ reply[c] = NoReply
    /\ Returns(c, "E_REMOTE_EXCEPTION")
    /\ UNCHANGED <<world, mServices, packs, running, bus, calls>>

-----------------------------------------------------------------------------
(***************************************************************************)
(* The daemon.                                                             *)
(***************************************************************************)
\* The reply to request r reaches its client if that still waits for it.
Answer_AnyGet(r, ec, pack) ==
    IF /\ pc[r.client] = "blocked"
       /\ \/ request[r.client].serial = r.serial
          \/ r.op = "GetService" /\ request[r.client].op = r.op
    THEN reply' = [reply EXCEPT ![r.client] = [ec |-> ec, pack |-> pack]]
    ELSE UNCHANGED reply

Answer(r, ec, pack) ==
    IF pc[r.client] = "blocked" /\ request[r.client].serial = r.serial
    THEN reply' = [reply EXCEPT ![r.client] = [ec |-> ec, pack |-> pack]]
    ELSE UNCHANGED reply

\* Callers that ask for name n may see value p from now on.
Witness(n, p) ==
    seen' = [c \in Clients |-> IF request[c].op = "GetService" /\ request[c].name = n
                               THEN seen[c] \cup {p} ELSE seen[c]]

\* The dispatch of HandleMessage.  The requests are those of the client library, so that the
\* exits for arguments of other types are not taken.
Handles(op) == running /\ bus # <<>> /\ Head(bus).op = op /\ bus' = Tail(bus)

\* Put replaces the pointer to a pack that nobody deletes.
AddService_SilentError ==
    /\ Handles("AddService")
    /\ LET r == Head(bus) IN
       IF r.name = EmptyName
       THEN UNCHANGED <<mServices, packs, seen, reply>>
       ELSE /\ mServices' = [mServices EXCEPT ![r.name] = r.service]
            /\ packs' = packs + 1
            /\ Answer(r, "NOERROR", "null")
            /\ Witness(r.name, r.service)
    /\ UNCHANGED <<world, running, pc, request, calls, status, acked>>

AddService ==
    /\ Handles("AddService")
    /\ LET r == Head(bus) IN
       IF r.name = EmptyName
       THEN Answer(r, "E_ILLEGAL_ARGUMENT_EXCEPTION", "null")
            /\ UNCHANGED <<mServices, packs, seen>>
       ELSE /\ mServices' = [mServices EXCEPT ![r.name] = r.service]
            /\ packs' = packs + 1
            /\ Answer(r, "NOERROR", "null")
            /\ Witness(r.name, r.service)
    /\ UNCHANGED <<world, running, pc, request, calls, status, acked>>

\* A name that is not there is not an error: the reply holds no pack.
GetService ==
    /\ Handles("GetService")
    /\ LET r == Head(bus) IN
       IF r.name = EmptyName
       THEN Answer(r, "E_ILLEGAL_ARGUMENT_EXCEPTION", "null")
       ELSE Answer(r, "NOERROR", mServices[r.name])
    /\ UNCHANGED <<world, mServices, packs, running, pc, request, calls, status, acked, seen>>

\* The daemon is gone: the bus answers for it.
Gone ==
    /\ running' = FALSE
    /\ bus' = <<>>
    /\ reply' = [c \in Clients |-> IF pc[c] = "blocked" /\ reply[c] = NoReply
                                   THEN [ec |-> "E_REMOTE_EXCEPTION", pack |-> "null"]
                                   ELSE reply[c]]

\* RemoveService of a name that is not there reads through the null pack.
RemoveService_NoDelete ==
    /\ running /\ bus # <<>> /\ Head(bus).op = "RemoveService"
    /\ LET r == Head(bus) IN
       IF r.name = EmptyName
       THEN /\ Answer(r, "E_ILLEGAL_ARGUMENT_EXCEPTION", "null")
            /\ bus' = Tail(bus)
            /\ UNCHANGED <<mServices, packs, running, seen>>
       ELSE IF mServices[r.name] = "null"
       THEN Gone /\ UNCHANGED <<mServices, packs, seen>>
       ELSE /\ mServices' = [mServices EXCEPT ![r.name] = "null"]
            /\ UNCHANGED packs
            /\ Answer(r, "NOERROR", "null")
            /\ Witness(r.name, "null")
            /\ bus' = Tail(bus)
            /\ UNCHANGED running
    /\ UNCHANGED <<world, pc, request, calls, status, acked>>

RemoveService ==
    /\ running /\ bus # <<>> /\ Head(bus).op = "RemoveService"
    /\ LET r == Head(bus) IN
       IF r.name = EmptyName
       THEN /\ Answer(r, "E_ILLEGAL_ARGUMENT_EXCEPTION", "null")
            /\ bus' = Tail(bus)
            /\ UNCHANGED <<mServices, packs, running, seen>>
       ELSE IF mServices[r.name] = "null"
       THEN Gone /\ UNCHANGED <<mServices, packs, seen>>
       ELSE /\ mServices' = [mServices EXCEPT ![r.name] = "null"]
            /\ packs' = packs - 1
            /\ Answer(r, "NOERROR", "null")
            /\ Witness(r.name, "null")
            /\ bus' = Tail(bus)
            /\ UNCHANGED running
    /\ UNCHANGED <<world, pc, request, calls, status, acked>>

\* main: the dispatch loop ends for want of memory.
Stop ==
    /\ running /\ world.mayStop
    /\ Gone
    /\ UNCHANGED <<world, mServices, packs, pc, request, calls, status, acked, seen>>

-----------------------------------------------------------------------------
DaemonStep == AddService \/ GetService \/ RemoveService

Next ==
    \/ \E c \in Clients :
          \/ \E op \in {"AddService", "GetService", "RemoveService"}, n \in Names, s \in Services \cup {"null"} :
                Call(c, op, n, s)
          \/ ConnectFails(c) \/ Send(c) \/ Return(c) \/ Timeout(c)
    \/ DaemonStep \/ Stop

\* Processes are scheduled.  No timeout is assumed to come.
Fairness ==
    /\ \A c \in Clients : WF_vars(Send(c) \/ ConnectFails(c)) /\ WF_vars(Return(c))
    /\ WF_vars(DaemonStep)

Spec == Init /\ [][Next]_vars /\ Fairness

-----------------------------------------------------------------------------
(***************************************************************************)
(* Properties.                                                             *)
(***************************************************************************)
\* Some call of the owner about name n is under way.
OwnerBusy(n) ==
    request[Owner[n]].name = n /\ request[Owner[n]].op \in {"AddService", "RemoveService"}

\* Among careful clients, between its calls an owner's view of a name is the daemon's: what AddService
\* acknowledged is registered and what RemoveService acknowledged is gone, even
\* with requests of calls that timed out still on the bus.
OwnersViewTrue ==
    world.careful => \A n \in Names : running /\ ~OwnerBusy(n) =>
       /\ status[n] = "present" => mServices[n] = acked[n] /\ acked[n] # "null"
       /\ status[n] = "absent" => mServices[n] = "null"

\* Careful clients do not bring the daemon down: no RemoveService finds the
\* name gone.
DaemonRuns == world.careful /\ ~world.mayStop => running

\* Among careful clients the daemon has one pack per registered name: none is lost when AddService
\* finds the name taken.
PacksOwned ==
    world.careful => packs = Cardinality({n \in Names : mServices[n] # "null"})

\* The pack of a reply to GetService was registered under that name at some
\* time during the call, and not just before or for another name.
ResultWasRegistered ==
    \A c \in Clients :
       reply[c] # NoReply /\ request[c].op = "GetService" /\ reply[c].ec = "NOERROR" =>
          reply[c].pack \in seen[c]

\* Every call returns without relying on its timeout: the daemon answers every
\* request, and the bus those the daemon never handles.
CallsReturn == \A c \in Clients : pc[c] = "connect" ~> pc[c] = "idle"

-----------------------------------------------------------------------------
(***************************************************************************)
(* The inductive invariant.                                                *)
(***************************************************************************)
Ops == {"AddService", "GetService", "RemoveService"}
Packs == Services \cup {"null"}
Requests == [op : Ops \cup {"none"}, client : Clients, name : Names, service : Packs, serial : Nat]
Codes == {"none", "NOERROR", "E_ILLEGAL_ARGUMENT_EXCEPTION", "E_REMOTE_EXCEPTION"}

TypeOK ==
    /\ world \in Worlds /\ running \in BOOLEAN
    /\ mServices \in [Names -> Packs] /\ packs \in Int
    /\ bus \in Seq(Requests)
    /\ pc \in [Clients -> {"idle", "connect", "blocked"}]
    /\ request \in [Clients -> Requests] /\ reply \in [Clients -> [ec : Codes, pack : Packs]]
    /\ calls \in [Clients -> Nat]
    /\ status \in [Names -> {"absent", "present", "unknown"}]
    /\ acked \in [Names -> Packs] /\ seen \in [Clients -> SUBSET Packs]

\* The request of a call in progress carries the newest serial, and seen holds
\* what is registered under the name it asks for.
RequestOK(c) ==
    /\ request[c].client = c
    /\ pc[c] = "idle" => request[c] = NoRequest(c)
    /\ pc[c] # "idle" => request[c].op \in Ops /\ request[c].serial = calls[c]
    /\ pc[c] # "blocked" \/ reply[c].ec = "none" => reply[c] = NoReply
    /\ (request[c].op = "AddService") <=> (request[c].service # "null")
    /\ request[c].op = "GetService" => mServices[request[c].name] \in seen[c]

\* A request on the bus is that of the current call of its client, which still
\* waits for the reply, or of an earlier call.
BusOK ==
    /\ ~running => bus = <<>>
    /\ \A i \in 1..Len(bus) :
          /\ (bus[i].op = "AddService") <=> (bus[i].service # "null")
          /\ bus[i].serial <= calls[bus[i].client]
          /\ bus[i].serial = calls[bus[i].client] /\ pc[bus[i].client] # "idle" =>
                /\ pc[bus[i].client] = "blocked" /\ bus[i] = request[bus[i].client]
                /\ reply[bus[i].client] = NoReply
    /\ \A i, j \in 1..Len(bus) :
          bus[i].client = bus[j].client /\ bus[i].serial = bus[j].serial => i = j

Mutates(r) == r.op \in {"AddService", "RemoveService"}
Registered == {n \in Names : mServices[n] # "null"}

\* What the owner of name n knows, or is about to learn, is what the daemon has.
ViewOK(n) ==
    LET r == request[Owner[n]] IN
    IF OwnerBusy(n) /\ reply[Owner[n]].ec = "NOERROR"
    THEN mServices[n] = IF r.op = "AddService" THEN r.service ELSE "null"
    ELSE /\ status[n] = "present" => mServices[n] = acked[n] /\ acked[n] # "null"
         /\ status[n] = "absent" => mServices[n] = "null"

\* Careful clients change only names they own, as they know them to be.
AskOK ==
    \A c \in Clients : Mutates(request[c]) =>
       /\ Owner[request[c].name] = c
       /\ status[request[c].name] = IF request[c].op = "AddService" THEN "absent" ELSE "present"

\* At most one request is under way that changes a name; its owner waits for it, or
\* has timed out and leaves the name alone since; and the daemon will find the
\* name as the request needs it.
ChangesOK ==
    /\ \A i \in 1..Len(bus) : Mutates(bus[i]) =>
          /\ Owner[bus[i].name] = bus[i].client
          /\ \/ status[bus[i].name] = "unknown"
             \/ bus[i].serial = calls[bus[i].client] /\ pc[bus[i].client] = "blocked"
          /\ (bus[i].op = "AddService") <=> (mServices[bus[i].name] = "null")
    /\ \A i, j \in 1..Len(bus) :
          Mutates(bus[i]) /\ Mutates(bus[j]) /\ bus[i].name = bus[j].name => i = j

\* The empty name is never registered, and a pack belongs to each other one.
MapOK ==
    /\ mServices[EmptyName] = "null"
    /\ IsFiniteSet(Registered) /\ packs = Cardinality(Registered)

CarefulOK == AskOK /\ ChangesOK /\ MapOK /\ (running => \A n \in Names : ViewOK(n))

IInv ==
    /\ TypeOK /\ BusOK /\ \A c \in Clients : RequestOK(c)
    /\ ResultWasRegistered /\ (world.careful => CarefulOK) /\ DaemonRuns
=============================================================================
