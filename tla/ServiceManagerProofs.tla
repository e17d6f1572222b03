------------------------ MODULE ServiceManagerProofs ------------------------
(***************************************************************************)
(* Proofs about the service manager: for any clients, names, services and  *)
(* owners, any number of calls, timeouts and stale requests on the bus, a  *)
(* reply to GetService was registered during the call, careful clients'    *)
(* owners know what the daemon has, and never make it read a null pack or  *)
(* lose one.                                                               *)
(***************************************************************************)
EXTENDS ServiceManager, FiniteSetTheorems, TLAPS

\* The parts of the invariant.
LEMMA Parts ==
  ASSUME IInv
  PROVE  /\ TypeOK /\ BusOK /\ \A c \in Clients : RequestOK(c)
         /\ ResultWasRegistered /\ DaemonRuns
         /\ world.careful => AskOK /\ ChangesOK /\ MapOK /\ (running => \A n \in Names : ViewOK(n))
  BY DEF IInv, CarefulOK

\* What a request on the bus is made of.
LEMMA OnBus ==
  ASSUME TypeOK
  PROVE  \A i \in 1..Len(bus) :
            /\ bus[i] \in Requests /\ bus[i].client \in Clients /\ bus[i].name \in Names
            /\ bus[i].serial \in Nat /\ bus[i].service \in Packs
<1>1. ASSUME NEW i \in 1..Len(bus) PROVE bus[i] \in Requests
  BY DEF TypeOK
<1>2. \A r \in Requests : r.client \in Clients /\ r.name \in Names /\ r.serial \in Nat /\ r.service \in Packs
  BY DEF Requests
<1>3. QED  BY <1>1, <1>2

\* What is handled is the first request; the others move up.
LEMMA Handled ==
  ASSUME TypeOK, bus # <<>>, bus' = Tail(bus)
  PROVE  /\ 1 \in 1..Len(bus) /\ Head(bus) = bus[1] /\ bus[1] \in Requests
         /\ Len(bus) \in Nat /\ bus' \in Seq(Requests) /\ Len(bus') = Len(bus) - 1
         /\ \A i \in 1..Len(bus') : i + 1 \in 1..Len(bus) /\ i + 1 # 1 /\ bus'[i] = bus[i + 1]
<1>1. bus \in Seq(Requests) /\ Len(bus) \in Nat /\ Len(bus) # 0
  BY DEF TypeOK
<1>2. 1 \in 1..Len(bus) /\ Head(bus) = bus[1] /\ bus[1] \in Requests
  BY <1>1
<1>3. bus' \in Seq(Requests) /\ Len(bus') = Len(bus) - 1
  BY <1>1
<1>4. \A i \in 1..Len(bus') : bus'[i] = bus[i + 1]
  BY <1>1
<1>5. \A i \in 1..Len(bus') : i + 1 \in 1..Len(bus) /\ i + 1 # 1
  BY <1>1, <1>3
<1>6. QED  BY <1>1, <1>2, <1>3, <1>4, <1>5

\* Call keeps the invariant: the requests on the bus become those of earlier calls.
LEMMA CallKeeps ==
  ASSUME IInv, NEW c \in Clients, NEW op \in Ops, NEW n \in Names, NEW s \in Packs, Call(c, op, n, s)
  PROVE  IInv'
<1>1. /\ TypeOK /\ BusOK /\ \A d \in Clients : RequestOK(d)
      /\ ResultWasRegistered /\ DaemonRuns
      /\ world.careful => AskOK /\ ChangesOK /\ MapOK /\ (running => \A m \in Names : ViewOK(m))
  BY Parts
<1> DEFINE q == [op |-> op, client |-> c, name |-> n, service |-> s, serial |-> calls[c] + 1]
<1>2. /\ calls' \in [Clients -> Nat] /\ calls'[c] = calls[c] + 1
      /\ \A d \in Clients \ {c} : calls'[d] = calls[d]
      /\ request' \in [Clients -> Requests] /\ request'[c] = q
      /\ \A d \in Clients \ {c} : request'[d] = request[d]
      /\ pc' \in [Clients -> {"idle", "connect", "blocked"}] /\ pc[c] = "idle" /\ pc'[c] = "connect"
      /\ \A d \in Clients \ {c} : pc'[d] = pc[d]
      /\ seen' \in [Clients -> SUBSET Packs]
      /\ op = "GetService" => seen'[c] = {mServices[n]}
      /\ \A d \in Clients \ {c} : seen'[d] = seen[d]
      /\ (op = "AddService") = (s # "null")
      /\ UNCHANGED <<world, mServices, packs, running, bus, reply, status, acked>>
  BY <1>1 DEF TypeOK, Requests, Call
<1>3. TypeOK'
  BY <1>1, <1>2 DEF TypeOK
<1>4. /\ request[c] = NoRequest(c) /\ reply[c] = NoReply
  BY <1>1, <1>2 DEF RequestOK
<1>5. \A d \in Clients : RequestOK(d)'
  BY <1>1, <1>2, <1>4 DEF RequestOK, TypeOK, NoRequest, NoReply
<1>6. BusOK'
  <2>1. \A i \in 1..Len(bus) : bus[i].client \in Clients /\ bus[i].serial \in Nat
    BY <1>1, OnBus
  <2>2. calls[c] \in Nat
    BY <1>1 DEF TypeOK
  <2>3. ASSUME NEW i \in 1..Len(bus)
        PROVE  /\ bus[i].serial <= calls'[bus[i].client]
               /\ bus[i].serial = calls'[bus[i].client] /\ pc'[bus[i].client] # "idle" =>
                     /\ pc'[bus[i].client] = "blocked" /\ bus[i] = request'[bus[i].client]
                     /\ reply'[bus[i].client] = NoReply
    <3>1. bus[i].serial <= calls[bus[i].client]
      BY <1>1 DEF BusOK
    <3>2. CASE bus[i].client = c
      BY <1>2, <2>1, <2>2, <3>1, <3>2
    <3>3. CASE bus[i].client # c
      <4> DEFINE d == bus[i].client
      <4>1. d \in Clients \ {c}
        BY <2>1, <3>3
      <4>2. /\ calls'[d] = calls[d] /\ pc'[d] = pc[d] /\ request'[d] = request[d]
            /\ reply'[d] = reply[d]
        BY <1>2, <4>1
      <4>3. bus[i].serial = calls[d] /\ pc[d] # "idle" =>
               pc[d] = "blocked" /\ bus[i] = request[d] /\ reply[d] = NoReply
        BY <1>1 DEF BusOK
      <4>4. QED  BY <3>1, <4>2, <4>3
    <3>4. QED  BY <3>2, <3>3
  <2>4. QED  BY <1>1, <1>2, <2>3 DEF BusOK
<1>7. ResultWasRegistered'
  BY <1>1, <1>2, <1>4 DEF ResultWasRegistered
<1>8. ASSUME world.careful PROVE CarefulOK'
  <2>1. AskOK'
    <3>1. Mutates(q) => Owner[n] = c /\ status[n] = IF op = "AddService" THEN "absent" ELSE "present"
      BY <1>8 DEF Call, Allowed, Mutates
    <3>2. QED  BY <1>1, <1>2, <1>8, <3>1 DEF AskOK, Mutates
  <2>2. ChangesOK'
    <3>1. \A i \in 1..Len(bus) : bus[i].client \in Clients
      BY <1>1, OnBus
    <3>2. QED  BY <1>1, <1>2, <1>8, <3>1 DEF ChangesOK, Mutates
  <2>3. MapOK'
    BY <1>1, <1>2, <1>8 DEF MapOK, Registered
  <2>4. ASSUME running, NEW m \in Names PROVE ViewOK(m)'
    <3>1. ViewOK(m) /\ Owner[m] \in Clients
      BY <1>1, <1>8, <2>4, ServiceManagerAssumption
    <3>2. CASE Owner[m] = c
      BY <1>2, <1>4, <3>1, <3>2 DEF ViewOK, OwnerBusy, NoReply
    <3>3. CASE Owner[m] # c
      BY <1>2, <3>1, <3>3 DEF ViewOK, OwnerBusy
    <3>4. QED  BY <3>2, <3>3
  <2>5. QED  BY <1>2, <2>1, <2>2, <2>3, <2>4 DEF CarefulOK
<1>9. DaemonRuns'
  BY <1>1, <1>2 DEF DaemonRuns
<1>10. QED  BY <1>2, <1>3, <1>5, <1>6, <1>7, <1>8, <1>9 DEF IInv

-----------------------------------------------------------------------------
\* A call that returns keeps the invariant: one that was answered has nothing left
\* on the bus, and after a timeout the owner does not know about the name.
LEMMA ReturnsKeeps ==
  ASSUME IInv, NEW c \in Clients, NEW ec \in Codes, pc[c] = "blocked", Returns(c, ec),
         UNCHANGED <<world, mServices, packs, running, bus, calls>>,
         \/ reply[c] # NoReply /\ ec = reply[c].ec
         \/ ec = "E_REMOTE_EXCEPTION"
  PROVE  IInv'
<1> DEFINE n == request[c].name
           op == request[c].op
           learns == Owner[n] = c /\ op # "GetService" /\ ec # "E_ILLEGAL_ARGUMENT_EXCEPTION"
<1>1. /\ TypeOK /\ BusOK /\ \A d \in Clients : RequestOK(d)
      /\ ResultWasRegistered /\ DaemonRuns
      /\ world.careful => AskOK /\ ChangesOK /\ MapOK /\ (running => \A m \in Names : ViewOK(m))
  BY Parts
<1>2. /\ request[c] \in Requests /\ n \in Names /\ request[c].service \in Packs /\ op \in Ops
  <2>1. request[c] \in Requests
    BY <1>1 DEF TypeOK
  <2>2. QED  BY <1>1, <2>1 DEF RequestOK, Requests
<1>3. /\ pc' \in [Clients -> {"idle", "connect", "blocked"}] /\ pc'[c] = "idle"
      /\ \A d \in Clients \ {c} : pc'[d] = pc[d]
  BY <1>1 DEF TypeOK, Returns
<1>4. /\ request' \in [Clients -> Requests] /\ request'[c] = NoRequest(c)
      /\ \A d \in Clients \ {c} : request'[d] = request[d]
  <2>1. NoRequest(c) \in Requests
    BY ServiceManagerAssumption DEF NoRequest, Requests, Packs
  <2>2. QED  BY <1>1, <2>1 DEF TypeOK, Returns
<1>5. /\ reply' \in [Clients -> [ec : Codes, pack : Packs]] /\ reply'[c] = NoReply
      /\ \A d \in Clients \ {c} : reply'[d] = reply[d]
  <2>1. NoReply \in [ec : Codes, pack : Packs]
    BY DEF NoReply, Codes, Packs
  <2>2. QED  BY <1>1, <2>1 DEF TypeOK, Returns
<1>6. /\ seen' \in [Clients -> SUBSET Packs]
      /\ \A d \in Clients \ {c} : seen'[d] = seen[d]
  BY <1>1 DEF TypeOK, Returns
<1>7. /\ \A m \in Names : m # n \/ ~learns => status'[m] = status[m] /\ acked'[m] = acked[m]
      /\ learns => status'[n] = (IF ec = "E_REMOTE_EXCEPTION" THEN "unknown"
                                 ELSE IF op = "AddService" THEN "present" ELSE "absent")
      /\ learns => acked'[n] = (IF ec = "NOERROR" /\ op = "AddService" THEN request[c].service
                                ELSE "null")
      /\ status' \in [Names -> {"absent", "present", "unknown"}] /\ acked' \in [Names -> Packs]
  BY <1>1, <1>2, ZenonT(60) DEF TypeOK, Returns, Packs
<1>8. TypeOK'
  BY <1>1, <1>3, <1>4, <1>5, <1>6, <1>7 DEF TypeOK
<1>9. \A d \in Clients : RequestOK(d)'
  <2>1. RequestOK(c)'
    <3>1. request'[c].op = "none" /\ request'[c].client = c /\ request'[c].service = "null"
      BY <1>4 DEF NoRequest
    <3>2. QED  BY <1>3, <1>4, <1>5, <3>1 DEF RequestOK, NoRequest
  <2>2. ASSUME NEW d \in Clients \ {c} PROVE RequestOK(d)'
    <3>1. /\ pc'[d] = pc[d] /\ request'[d] = request[d] /\ reply'[d] = reply[d]
          /\ seen'[d] = seen[d]
      BY <1>3, <1>4, <1>5, <1>6
    <3>2. QED  BY <1>1, <3>1 DEF RequestOK, NoRequest, NoReply
  <2>3. QED  BY <2>1, <2>2
<1>10. BusOK'
  <2>1. ASSUME NEW i \in 1..Len(bus)
        PROVE  bus[i].serial = calls[bus[i].client] /\ pc'[bus[i].client] # "idle" =>
                  /\ pc'[bus[i].client] = "blocked" /\ bus[i] = request'[bus[i].client]
                  /\ reply'[bus[i].client] = NoReply
    <3> DEFINE d == bus[i].client
    <3>1. d \in Clients
      BY <1>1, OnBus
    <3>2. bus[i].serial = calls[d] /\ pc[d] # "idle" =>
             pc[d] = "blocked" /\ bus[i] = request[d] /\ reply[d] = NoReply
      BY <1>1 DEF BusOK
    <3>3. QED  BY <1>3, <1>4, <1>5, <3>1, <3>2
  <2>2. QED  BY <1>1, <2>1 DEF BusOK
<1>11. ResultWasRegistered'
  BY <1>1, <1>4, <1>5, <1>6 DEF ResultWasRegistered
<1>12. ASSUME world.careful PROVE CarefulOK'
  <2>1. learns => Mutates(request[c])
    BY <1>2 DEF Mutates, Ops
  <2>2. AskOK'
    <3>1. ~Mutates(request'[c])
      BY <1>4 DEF NoRequest, Mutates
    <3>2. ASSUME NEW d \in Clients \ {c}, Mutates(request[d])
          PROVE  /\ Owner[request[d].name] = d
                 /\ status'[request[d].name] = IF request[d].op = "AddService" THEN "absent" ELSE "present"
      <4>1. Owner[request[d].name] = d
            /\ status[request[d].name] = IF request[d].op = "AddService" THEN "absent" ELSE "present"
        BY <1>1, <1>12, <3>2 DEF AskOK
      <4>2. request[d].name \in Names
        BY <1>1 DEF TypeOK, Requests
      <4>3. QED  BY <1>7, <4>1, <4>2
    <3>3. QED  BY <1>4, <3>1, <3>2 DEF AskOK
  <2>3. ChangesOK'
    <3>1. ASSUME NEW i \in 1..Len(bus), Mutates(bus[i])
          PROVE  status'[bus[i].name] = "unknown" \/ (bus[i].serial = calls[bus[i].client] /\ pc'[bus[i].client] = "blocked")
      <4> DEFINE d == bus[i].client
                 m == bus[i].name
      <4>1. d \in Clients /\ m \in Names /\ Owner[m] = d
        BY <1>1, <1>12, <3>1, OnBus DEF ChangesOK
      <4>2. status[m] = "unknown" \/ (bus[i].serial = calls[d] /\ pc[d] = "blocked")
        BY <1>1, <1>12, <3>1 DEF ChangesOK
      <4>3. bus[i].serial = calls[c] /\ d = c => bus[i] = request[c] /\ reply[c] = NoReply
        BY <1>1 DEF BusOK
      <4>4. CASE learns /\ m = n
        <5>1. status[m] # "unknown"
          BY <1>1, <1>12, <2>1, <4>4 DEF AskOK
        <5>2. d = c /\ reply[c] = NoReply
          BY <4>1, <4>2, <4>3, <4>4, <5>1
        <5>3. QED  BY <1>7, <4>4, <5>2
      <4>5. CASE ~(learns /\ m = n)
        <5>1. status'[m] = status[m]
          BY <1>7, <4>1, <4>5
        <5>2. CASE d = c /\ status[m] # "unknown"
          <6>1. bus[i] = request[c] /\ reply[c] = NoReply
            BY <4>2, <4>3, <5>2
          <6>2. Mutates(request[c]) /\ m = n /\ Owner[n] = c
            BY <3>1, <4>1, <5>2, <6>1
          <6>3. ec = "E_REMOTE_EXCEPTION" /\ op # "GetService"
            BY <6>1, <6>2 DEF Mutates
          <6>4. QED  BY <4>5, <6>2, <6>3
        <5>3. CASE ~(d = c /\ status[m] # "unknown")
          BY <1>3, <4>1, <4>2, <5>1, <5>3
        <5>4. QED  BY <5>2, <5>3
      <4>6. QED  BY <4>4, <4>5
    <3>2. QED  BY <1>1, <1>12, <3>1 DEF ChangesOK
  <2>4. MapOK'
    BY <1>1, <1>12 DEF MapOK, Registered
  <2>5. ASSUME running, NEW m \in Names PROVE ViewOK(m)'
    <3>1. ViewOK(m) /\ Owner[m] \in Clients
      BY <1>1, <1>12, <2>5, ServiceManagerAssumption
    <3>2. CASE learns /\ m = n
      <4>1. ~OwnerBusy(m)'
        BY <1>4, <3>2 DEF OwnerBusy, NoRequest
      <4>2. CASE ec = "E_REMOTE_EXCEPTION"
        BY <1>7, <3>2, <4>1, <4>2 DEF ViewOK
      <4>3. CASE ec # "E_REMOTE_EXCEPTION"
        <5>1. ec = "NOERROR" /\ reply[c].ec = "NOERROR"
          <6>1. reply[c].ec # "none"
            BY <1>1, <4>3 DEF RequestOK
          <6>2. QED  BY <3>2, <4>3, <6>1 DEF Codes
        <5>2. OwnerBusy(m)
          BY <2>1, <3>2 DEF OwnerBusy, Mutates
        <5>3. mServices[m] = IF op = "AddService" THEN request[c].service ELSE "null"
          BY <3>1, <3>2, <5>1, <5>2 DEF ViewOK
        <5>4. op = "AddService" => request[c].service # "null"
          BY <1>1 DEF RequestOK
        <5>5. QED  BY <1>7, <3>2, <4>1, <5>1, <5>3, <5>4 DEF ViewOK
      <4>4. QED  BY <4>2, <4>3
    <3>3. CASE ~(learns /\ m = n)
      <4>1. status'[m] = status[m] /\ acked'[m] = acked[m]
        BY <1>7, <3>3
      <4>2. CASE Owner[m] = c
        <5>1. ~OwnerBusy(m)'
          BY <1>4, <4>2 DEF OwnerBusy, NoRequest
        <5>2. ~(OwnerBusy(m) /\ reply[c].ec = "NOERROR") \/ ec = "E_REMOTE_EXCEPTION"
          BY <3>3, <4>2 DEF OwnerBusy
        <5>3. ~(OwnerBusy(m) /\ reply[c].ec = "NOERROR")
          BY <3>3, <4>2, <5>2 DEF OwnerBusy
        <5>4. QED  BY <3>1, <4>1, <4>2, <5>1, <5>3 DEF ViewOK
      <4>3. CASE Owner[m] # c
        BY <1>4, <1>5, <3>1, <4>1, <4>3 DEF ViewOK, OwnerBusy
      <4>4. QED  BY <4>2, <4>3
    <3>4. QED  BY <3>2, <3>3
  <2>6. QED  BY <2>2, <2>3, <2>4, <2>5 DEF CarefulOK
<1>13. DaemonRuns'
  BY <1>1 DEF DaemonRuns
<1>14. QED  BY <1>8, <1>9, <1>10, <1>11, <1>12, <1>13 DEF IInv

\* ConnectFails keeps the invariant: nothing of the call reached the bus.
LEMMA ConnectFailsKeeps == ASSUME IInv, NEW c \in Clients, ConnectFails(c) PROVE IInv'
<1>1. /\ TypeOK /\ BusOK /\ \A d \in Clients : RequestOK(d)
      /\ ResultWasRegistered /\ DaemonRuns
      /\ world.careful => AskOK /\ ChangesOK /\ MapOK /\ (running => \A m \in Names : ViewOK(m))
  BY Parts
<1>2. /\ pc[c] = "connect" /\ reply[c] = NoReply
      /\ UNCHANGED <<world, mServices, packs, running, bus, reply, calls, status, acked>>
  BY <1>1 DEF ConnectFails, RequestOK
<1>3. /\ pc' \in [Clients -> {"idle", "connect", "blocked"}] /\ pc'[c] = "idle"
      /\ \A d \in Clients \ {c} : pc'[d] = pc[d]
  BY <1>1 DEF TypeOK, ConnectFails
<1>4. /\ request' \in [Clients -> Requests] /\ request'[c] = NoRequest(c)
      /\ \A d \in Clients \ {c} : request'[d] = request[d]
  <2>1. NoRequest(c) \in Requests
    BY ServiceManagerAssumption DEF NoRequest, Requests, Packs
  <2>2. QED  BY <1>1, <2>1 DEF TypeOK, ConnectFails
<1>5. /\ seen' \in [Clients -> SUBSET Packs]
      /\ \A d \in Clients \ {c} : seen'[d] = seen[d]
  BY <1>1 DEF TypeOK, ConnectFails
<1>6. TypeOK'
  BY <1>1, <1>2, <1>3, <1>4, <1>5 DEF TypeOK
<1>7. \A d \in Clients : RequestOK(d)'
  <2>1. RequestOK(c)'
    <3>1. request'[c].op = "none" /\ request'[c].client = c /\ request'[c].service = "null"
      BY <1>4 DEF NoRequest
    <3>2. QED  BY <1>2, <1>3, <1>4, <3>1 DEF RequestOK, NoRequest
  <2>2. ASSUME NEW d \in Clients \ {c} PROVE RequestOK(d)'
    <3>1. /\ pc'[d] = pc[d] /\ request'[d] = request[d] /\ reply'[d] = reply[d]
          /\ seen'[d] = seen[d]
      BY <1>2, <1>3, <1>4, <1>5
    <3>2. QED  BY <1>1, <1>2, <3>1 DEF RequestOK, NoRequest, NoReply
  <2>3. QED  BY <2>1, <2>2
<1>8. BusOK'
  <2>1. ASSUME NEW i \in 1..Len(bus)
        PROVE  bus[i].serial = calls[bus[i].client] /\ pc'[bus[i].client] # "idle" =>
                  /\ pc'[bus[i].client] = "blocked" /\ bus[i] = request'[bus[i].client]
                  /\ reply[bus[i].client] = NoReply
    <3> DEFINE d == bus[i].client
    <3>1. d \in Clients
      BY <1>1, OnBus
    <3>2. bus[i].serial = calls[d] /\ pc[d] # "idle" =>
             pc[d] = "blocked" /\ bus[i] = request[d] /\ reply[d] = NoReply
      BY <1>1 DEF BusOK
    <3>3. QED  BY <1>3, <1>4, <3>1, <3>2
  <2>2. QED  BY <1>1, <1>2, <2>1 DEF BusOK
<1>9. ResultWasRegistered'
  BY <1>1, <1>2, <1>4, <1>5 DEF ResultWasRegistered
<1>10. ASSUME world.careful PROVE CarefulOK'
  <2>1. AskOK'
    <3>1. ~Mutates(request'[c])
      BY <1>4 DEF NoRequest, Mutates
    <3>2. QED  BY <1>1, <1>2, <1>4, <1>10, <3>1 DEF AskOK
  <2>2. ChangesOK'
    <3>1. \A i \in 1..Len(bus) : bus[i].client \in Clients
      BY <1>1, OnBus
    <3>2. QED  BY <1>1, <1>2, <1>3, <1>10, <3>1 DEF ChangesOK
  <2>3. MapOK'
    BY <1>1, <1>2, <1>10 DEF MapOK, Registered
  <2>4. ASSUME running, NEW m \in Names PROVE ViewOK(m)'
    <3>1. ViewOK(m) /\ Owner[m] \in Clients
      BY <1>1, <1>10, <2>4, ServiceManagerAssumption
    <3>2. CASE Owner[m] = c
      BY <1>2, <3>1, <3>2 DEF ViewOK, NoReply
    <3>3. CASE Owner[m] # c
      BY <1>2, <1>4, <3>1, <3>3 DEF ViewOK, OwnerBusy
    <3>4. QED  BY <3>2, <3>3
  <2>5. QED  BY <1>2, <2>1, <2>2, <2>3, <2>4 DEF CarefulOK
<1>11. DaemonRuns'
  BY <1>1, <1>2 DEF DaemonRuns
<1>12. QED  BY <1>2, <1>6, <1>7, <1>8, <1>9, <1>10, <1>11 DEF IInv
\* Send keeps the invariant: the request is its client's newest, no other one about
\* the name is on the bus, and the name is as the owner knows it.
LEMMA SendKeeps == ASSUME IInv, NEW c \in Clients, Send(c) PROVE IInv'
<1>1. /\ TypeOK /\ BusOK /\ \A d \in Clients : RequestOK(d)
      /\ ResultWasRegistered /\ DaemonRuns
      /\ world.careful => AskOK /\ ChangesOK /\ MapOK /\ (running => \A m \in Names : ViewOK(m))
  BY Parts
<1>2. /\ pc[c] = "connect" /\ reply[c] = NoReply
      /\ request[c].op \in Ops /\ request[c].serial = calls[c] /\ request[c].client = c
      /\ UNCHANGED <<world, mServices, packs, running, request, calls, status, acked, seen>>
  BY <1>1 DEF Send, RequestOK
<1>3. /\ pc' \in [Clients -> {"idle", "connect", "blocked"}] /\ pc'[c] = "blocked"
      /\ \A d \in Clients \ {c} : pc'[d] = pc[d]
  BY <1>1 DEF TypeOK, Send
<1>4. /\ reply' \in [Clients -> [ec : Codes, pack : Packs]]
      /\ running => reply' = reply
      /\ ~running => reply'[c].ec = "E_REMOTE_EXCEPTION"
      /\ \A d \in Clients \ {c} : reply'[d] = reply[d]
  <2>1. [ec |-> "E_REMOTE_EXCEPTION", pack |-> "null"] \in [ec : Codes, pack : Packs]
    BY DEF Codes, Packs
  <2>2. CASE running
    BY <1>1, <2>2 DEF TypeOK, Send
  <2>3. CASE ~running
    <3>1. reply' = [reply EXCEPT ![c] = [ec |-> "E_REMOTE_EXCEPTION", pack |-> "null"]]
      BY <2>3 DEF Send
    <3>2. QED  BY <1>1, <2>1, <2>3, <3>1 DEF TypeOK
  <2>4. QED  BY <2>2, <2>3
<1>5. request[c] \in Requests /\ request[c].name \in Names /\ calls[c] \in Nat
  <2>1. request[c] \in Requests /\ calls[c] \in Nat
    BY <1>1 DEF TypeOK
  <2>2. QED  BY <2>1 DEF Requests
<1>6. \A d \in Clients : RequestOK(d)'
  <2>1. RequestOK(c)'
    BY <1>1, <1>2, <1>3, <1>4 DEF RequestOK, NoReply
  <2>2. ASSUME NEW d \in Clients \ {c} PROVE RequestOK(d)'
    <3>1. pc'[d] = pc[d] /\ request'[d] = request[d] /\ reply'[d] = reply[d] /\ seen'[d] = seen[d]
      BY <1>2, <1>3, <1>4
    <3>2. QED  BY <1>1, <1>2, <3>1 DEF RequestOK, NoRequest, NoReply
  <2>3. QED  BY <2>1, <2>2
<1>7. ResultWasRegistered'
  BY <1>1, <1>2, <1>4 DEF ResultWasRegistered
<1>8. DaemonRuns'
  BY <1>1, <1>2 DEF DaemonRuns
<1>9. \A i \in 1..Len(bus) : bus[i].client \in Clients /\ bus[i].serial \in Nat
                           /\ (bus[i].client = c => bus[i].serial # calls[c])
  BY <1>1, <1>2, OnBus DEF BusOK
<1>10. CASE ~running
  <2>1. bus = <<>> /\ bus' = bus
    BY <1>1, <1>10 DEF BusOK, Send
  <2>2. TypeOK'
    BY <1>1, <1>2, <1>3, <1>4, <2>1 DEF TypeOK
  <2>3. BusOK'
    BY <2>1 DEF BusOK
  <2>4. ASSUME world.careful PROVE CarefulOK'
    <3>1. AskOK' /\ MapOK'
      BY <1>1, <1>2, <2>4 DEF AskOK, MapOK, Registered
    <3>2. ChangesOK'
      BY <2>1 DEF ChangesOK
    <3>3. QED  BY <1>2, <1>10, <3>1, <3>2 DEF CarefulOK
  <2>5. QED  BY <1>2, <1>6, <1>7, <1>8, <2>2, <2>3, <2>4 DEF IInv
<1>11. CASE running
  <2>1. bus' = Append(bus, request[c]) /\ reply' = reply
    BY <1>4, <1>11 DEF Send
  <2>2. /\ bus \in Seq(Requests) /\ Len(bus) \in Nat /\ bus' \in Seq(Requests)
        /\ Len(bus') = Len(bus) + 1 /\ bus'[Len(bus) + 1] = request[c]
        /\ \A i \in 1..Len(bus) : bus'[i] = bus[i]
    BY <1>1, <1>5, <2>1 DEF TypeOK
  <2>3. \A i \in 1..Len(bus') : i \in 1..Len(bus) \/ i = Len(bus) + 1
    BY <2>2
  <2>4. TypeOK'
    BY <1>1, <1>2, <1>3, <1>4, <2>2 DEF TypeOK
  <2>5. BusOK'
    <3>1. ASSUME NEW i \in 1..Len(bus')
          PROVE  /\ (bus'[i].op = "AddService") <=> (bus'[i].service # "null")
                 /\ bus'[i].serial <= calls[bus'[i].client]
                 /\ bus'[i].serial = calls[bus'[i].client] /\ pc'[bus'[i].client] # "idle" =>
                       /\ pc'[bus'[i].client] = "blocked" /\ bus'[i] = request[bus'[i].client]
                       /\ reply[bus'[i].client] = NoReply
      <4>1. CASE i = Len(bus) + 1
        <5>1. bus'[i] = request[c] /\ bus'[i].client = c /\ bus'[i].serial = calls[c]
          BY <1>2, <2>2, <4>1
        <5>2. (request[c].op = "AddService") <=> (request[c].service # "null")
          BY <1>1 DEF RequestOK
        <5>3. QED  BY <1>2, <1>3, <1>5, <5>1, <5>2
      <4>2. CASE i \in 1..Len(bus)
        <5> DEFINE d == bus[i].client
        <5>1. bus'[i] = bus[i] /\ d \in Clients
          BY <1>9, <2>2, <4>2
        <5>2. /\ (bus[i].op = "AddService") <=> (bus[i].service # "null")
              /\ bus[i].serial <= calls[d]
              /\ bus[i].serial = calls[d] /\ pc[d] # "idle" =>
                    pc[d] = "blocked" /\ bus[i] = request[d] /\ reply[d] = NoReply
          BY <1>1, <4>2 DEF BusOK
        <5>3. bus[i].serial = calls[d] => d # c
          BY <1>9, <4>2
        <5>4. QED  BY <1>3, <5>1, <5>2, <5>3
      <4>3. QED  BY <2>3, <4>1, <4>2
    <3>2. ASSUME NEW i \in 1..Len(bus'), NEW j \in 1..Len(bus'),
                 bus'[i].client = bus'[j].client, bus'[i].serial = bus'[j].serial
          PROVE  i = j
      <4>1. CASE i \in 1..Len(bus) /\ j \in 1..Len(bus)
        BY <1>1, <2>2, <3>2, <4>1 DEF BusOK
      <4>2. CASE ~(i \in 1..Len(bus) /\ j \in 1..Len(bus))
        BY <1>2, <1>9, <2>2, <2>3, <3>2, <4>2
      <4>3. QED  BY <4>1, <4>2
    <3>3. QED  BY <1>2, <1>11, <2>1, <3>1, <3>2 DEF BusOK
  <2>6. ASSUME world.careful PROVE CarefulOK'
    <3>1. AskOK' /\ MapOK'
      BY <1>1, <1>2, <2>6 DEF AskOK, MapOK, Registered
    <3>2. \A n \in Names : ViewOK(n)'
      BY <1>1, <1>2, <1>11, <2>1, <2>6 DEF ViewOK, OwnerBusy
    <3>3. ASSUME Mutates(request[c])
          PROVE  /\ Owner[request[c].name] = c /\ status[request[c].name] # "unknown"
                 /\ (request[c].op = "AddService") <=> (mServices[request[c].name] = "null")
      <4>1. /\ Owner[request[c].name] = c
            /\ status[request[c].name] = IF request[c].op = "AddService" THEN "absent" ELSE "present"
        BY <1>1, <2>6, <3>3 DEF AskOK
      <4>2. ViewOK(request[c].name)
        BY <1>1, <1>5, <1>11, <2>6
      <4>3. QED  BY <1>2, <4>1, <4>2 DEF ViewOK, NoReply
    <3>4. \A i \in 1..Len(bus) : Mutates(bus[i]) =>
             /\ Owner[bus[i].name] = bus[i].client
             /\ (bus[i].op = "AddService") <=> (mServices[bus[i].name] = "null")
             /\ \/ status[bus[i].name] = "unknown"
                \/ bus[i].serial = calls[bus[i].client] /\ pc[bus[i].client] = "blocked"
      BY <1>1, <2>6 DEF ChangesOK
    <3>5. ASSUME NEW i \in 1..Len(bus'), Mutates(bus'[i])
          PROVE  /\ Owner[bus'[i].name] = bus'[i].client
                 /\ \/ status[bus'[i].name] = "unknown"
                    \/ bus'[i].serial = calls[bus'[i].client] /\ pc'[bus'[i].client] = "blocked"
                 /\ (bus'[i].op = "AddService") <=> (mServices[bus'[i].name] = "null")
      <4>1. CASE i = Len(bus) + 1
        <5>1. bus'[i] = request[c]
          BY <2>2, <4>1
        <5>2. QED  BY <1>2, <1>3, <3>3, <3>5, <5>1
      <4>2. CASE i \in 1..Len(bus)
        <5>1. bus'[i] = bus[i]
          BY <2>2, <4>2
        <5>2. /\ Owner[bus[i].name] = bus[i].client
              /\ (bus[i].op = "AddService") <=> (mServices[bus[i].name] = "null")
              /\ \/ status[bus[i].name] = "unknown"
                 \/ bus[i].serial = calls[bus[i].client] /\ pc[bus[i].client] = "blocked"
          BY <3>4, <3>5, <4>2, <5>1
        <5>3. pc[bus[i].client] = "blocked" => pc'[bus[i].client] = "blocked"
          BY <1>2, <1>3, <1>9, <4>2
        <5>4. QED  BY <5>1, <5>2, <5>3
      <4>3. QED  BY <2>3, <4>1, <4>2
    <3>6. ASSUME NEW i \in 1..Len(bus), Mutates(bus[i]), Mutates(request[c]), bus[i].name = request[c].name
          PROVE  FALSE
      <4>1. Owner[bus[i].name] = c /\ status[bus[i].name] # "unknown"
        BY <3>3, <3>6
      <4>2. bus[i].client = c /\ pc[c] = "blocked"
        BY <3>4, <3>6, <4>1
      <4>3. QED  BY <1>2, <4>2
    <3>7. ASSUME NEW i \in 1..Len(bus'), NEW j \in 1..Len(bus'),
                 Mutates(bus'[i]), Mutates(bus'[j]), bus'[i].name = bus'[j].name
          PROVE  i = j
      <4>1. CASE i \in 1..Len(bus) /\ j \in 1..Len(bus)
        <5>1. bus'[i] = bus[i] /\ bus'[j] = bus[j]
          BY <2>2, <4>1
        <5>2. QED  BY <1>1, <2>6, <3>7, <4>1, <5>1 DEF ChangesOK
      <4>2. CASE i = Len(bus) + 1 /\ j \in 1..Len(bus)
        BY <2>2, <3>6, <3>7, <4>2
      <4>3. CASE j = Len(bus) + 1 /\ i \in 1..Len(bus)
        BY <2>2, <3>6, <3>7, <4>3
      <4>4. QED  BY <2>3, <4>1, <4>2, <4>3
    <3>8. ChangesOK'
      BY <1>2, <3>5, <3>7 DEF ChangesOK, Mutates
    <3>9. QED  BY <3>1, <3>2, <3>8 DEF CarefulOK
  <2>7. QED  BY <1>2, <1>6, <1>7, <1>8, <2>4, <2>5, <2>6 DEF IInv
<1>12. QED  BY <1>1, <1>10, <1>11 DEF TypeOK

-----------------------------------------------------------------------------
\* A reply goes to the call it belongs to, which was still without one, or nowhere.
LEMMA Answered ==
  ASSUME TypeOK, BusOK, \A d \in Clients : RequestOK(d), NEW k \in 1..Len(bus),
         NEW ec \in Codes \ {"none"}, NEW pack \in Packs, Answer(bus[k], ec, pack)
  PROVE  /\ bus[k].client \in Clients /\ bus[k].name \in Names
         /\ reply' \in [Clients -> [ec : Codes, pack : Packs]]
         /\ \A d \in Clients \ {bus[k].client} : reply'[d] = reply[d]
         /\ \/ /\ reply' = reply
               /\ ~(bus[k].serial = calls[bus[k].client] /\ pc[bus[k].client] = "blocked")
            \/ /\ reply'[bus[k].client] = [ec |-> ec, pack |-> pack]
               /\ reply[bus[k].client] = NoReply /\ pc[bus[k].client] = "blocked"
               /\ request[bus[k].client] = bus[k] /\ bus[k].serial = calls[bus[k].client]
<1> DEFINE c == bus[k].client
<1>1. c \in Clients /\ bus[k].name \in Names
  BY OnBus
<1>2. pc[c] = "blocked" => request[c].serial = calls[c]
  BY <1>1 DEF RequestOK
<1>3. bus[k].serial = calls[c] /\ pc[c] # "idle" => bus[k] = request[c] /\ reply[c] = NoReply
  BY DEF BusOK
<1>4. [ec |-> ec, pack |-> pack] \in [ec : Codes, pack : Packs]
  OBVIOUS
<1>5. CASE pc[c] = "blocked" /\ request[c].serial = bus[k].serial
  <2>1. reply' = [reply EXCEPT ![c] = [ec |-> ec, pack |-> pack]]
    BY <1>5 DEF Answer
  <2>2. QED  BY <1>1, <1>2, <1>3, <1>4, <1>5, <2>1 DEF TypeOK
<1>6. CASE ~(pc[c] = "blocked" /\ request[c].serial = bus[k].serial)
  <2>1. reply' = reply
    BY <1>6 DEF Answer
  <2>2. QED  BY <1>1, <1>2, <1>6, <2>1 DEF TypeOK
<1>7. QED  BY <1>5, <1>6

\* Taking the first request off the bus and answering it leaves the bus in order.
LEMMA HandledBus ==
  ASSUME TypeOK, BusOK, \A d \in Clients : RequestOK(d), bus # <<>>, bus' = Tail(bus),
         NEW ec \in Codes \ {"none"}, NEW pack \in Packs, Answer(bus[1], ec, pack), running,
         UNCHANGED <<running, pc, request, calls>>
  PROVE  BusOK'
<1>1. /\ 1 \in 1..Len(bus) /\ Len(bus) \in Nat
      /\ \A i \in 1..Len(bus') : i + 1 \in 1..Len(bus) /\ i + 1 # 1 /\ bus'[i] = bus[i + 1]
  BY Handled
<1> DEFINE c == bus[1].client
<1>2. /\ \A d \in Clients \ {c} : reply'[d] = reply[d]
      /\ reply' = reply \/ bus[1].serial = calls[c]
  BY <1>1, Answered
<1>3. ASSUME NEW i \in 1..Len(bus')
      PROVE  /\ (bus'[i].op = "AddService") <=> (bus'[i].service # "null")
             /\ bus'[i].serial <= calls[bus'[i].client]
             /\ bus'[i].serial = calls[bus'[i].client] /\ pc[bus'[i].client] # "idle" =>
                   /\ pc[bus'[i].client] = "blocked" /\ bus'[i] = request[bus'[i].client]
                   /\ reply'[bus'[i].client] = NoReply
  <2> DEFINE r == bus[i + 1]
             d == r.client
  <2>1. i + 1 \in 1..Len(bus) /\ i + 1 # 1 /\ bus'[i] = r /\ d \in Clients
    BY <1>1, OnBus
  <2>2. /\ (r.op = "AddService") <=> (r.service # "null")
        /\ r.serial <= calls[d]
        /\ r.serial = calls[d] /\ pc[d] # "idle" => pc[d] = "blocked" /\ r = request[d] /\ reply[d] = NoReply
    BY <2>1 DEF BusOK
  <2>3. r.serial = calls[d] => reply'[d] = reply[d]
    <3>1. CASE d = c
      <4>1. r.serial = calls[d] /\ bus[1].serial = calls[c] => i + 1 = 1
        BY <1>1, <2>1, <3>1 DEF BusOK
      <4>2. QED  BY <1>2, <2>1, <4>1
    <3>2. CASE d # c
      BY <1>2, <2>1, <3>2
    <3>3. QED  BY <3>1, <3>2
  <2>4. QED  BY <2>1, <2>2, <2>3
<1>4. ASSUME NEW i \in 1..Len(bus'), NEW j \in 1..Len(bus'),
             bus'[i].client = bus'[j].client, bus'[i].serial = bus'[j].serial
      PROVE  i = j
  <2>1. i + 1 \in 1..Len(bus) /\ j + 1 \in 1..Len(bus) /\ bus'[i] = bus[i + 1] /\ bus'[j] = bus[j + 1]
    BY <1>1
  <2>2. i + 1 = j + 1
    BY <1>4, <2>1 DEF BusOK
  <2>3. QED  BY <2>2
<1>5. QED  BY <1>3, <1>4 DEF BusOK
\* A request that changes no name keeps the invariant: GetService reports what is
\* registered now, and an error tells the owner nothing new.
LEMMA AnswerKeeps ==
  ASSUME IInv, running, bus # <<>>, bus' = Tail(bus),
         NEW ec \in Codes \ {"none"}, NEW pack \in Packs, Answer(bus[1], ec, pack),
         Mutates(bus[1]) => ec # "NOERROR",
         ec = "NOERROR" => pack = mServices[bus[1].name],
         UNCHANGED <<world, mServices, packs, running, pc, request, calls, status, acked, seen>>
  PROVE  IInv'
<1>1. /\ TypeOK /\ BusOK /\ \A d \in Clients : RequestOK(d)
      /\ ResultWasRegistered /\ DaemonRuns
      /\ world.careful => AskOK /\ ChangesOK /\ MapOK /\ (running => \A m \in Names : ViewOK(m))
  BY Parts
<1> DEFINE r == bus[1]
           c == r.client
<1>2. /\ 1 \in 1..Len(bus) /\ bus' \in Seq(Requests)
      /\ \A i \in 1..Len(bus') : i + 1 \in 1..Len(bus) /\ i + 1 # 1 /\ bus'[i] = bus[i + 1]
  BY <1>1, Handled
<1>3. /\ c \in Clients /\ r.name \in Names
      /\ reply' \in [Clients -> [ec : Codes, pack : Packs]]
      /\ \A d \in Clients \ {c} : reply'[d] = reply[d]
      /\ \/ reply' = reply
         \/ /\ reply'[c] = [ec |-> ec, pack |-> pack]
            /\ reply[c] = NoReply /\ pc[c] = "blocked" /\ request[c] = r
  BY <1>1, <1>2, Answered
<1>4. TypeOK'
  BY <1>1, <1>2, <1>3 DEF TypeOK
<1>5. BusOK'
  BY <1>1, HandledBus
<1>6. \A d \in Clients : RequestOK(d)'
  BY <1>1, <1>3 DEF RequestOK, NoRequest, NoReply
<1>7. ResultWasRegistered'
  <2>1. ASSUME NEW d \in Clients, reply'[d] # NoReply, request[d].op = "GetService", reply'[d].ec = "NOERROR"
        PROVE  reply'[d].pack \in seen[d]
    <3>1. CASE reply'[d] = reply[d]
      BY <1>1, <2>1, <3>1 DEF ResultWasRegistered
    <3>2. CASE reply'[d] # reply[d]
      <4>1. d = c /\ reply'[c] = [ec |-> ec, pack |-> pack] /\ request[c] = r
        BY <1>3, <3>2
      <4>2. pack = mServices[request[c].name]
        BY <2>1, <4>1
      <4>3. QED  BY <1>1, <2>1, <4>1, <4>2 DEF RequestOK
    <3>3. QED  BY <3>1, <3>2
  <2>2. QED  BY <2>1 DEF ResultWasRegistered, NoReply
<1>8. ASSUME world.careful PROVE CarefulOK'
  <2>1. AskOK' /\ MapOK'
    BY <1>1, <1>8 DEF AskOK, MapOK, Registered
  <2>2. ChangesOK'
    BY <1>1, <1>2, <1>8 DEF ChangesOK, Mutates
  <2>3. ASSUME NEW m \in Names PROVE ViewOK(m)'
    <3>1. ViewOK(m) /\ Owner[m] \in Clients
      BY <1>1, <1>8, ServiceManagerAssumption
    <3>2. CASE reply'[Owner[m]] = reply[Owner[m]]
      BY <3>1, <3>2 DEF ViewOK, OwnerBusy
    <3>3. CASE reply'[Owner[m]] # reply[Owner[m]]
      <4>1. /\ Owner[m] = c /\ reply'[c] = [ec |-> ec, pack |-> pack]
            /\ reply[c] = NoReply /\ request[c] = r
        BY <1>3, <3>1, <3>3
      <4>2. ~(OwnerBusy(m)' /\ reply'[c].ec = "NOERROR")
        BY <4>1 DEF OwnerBusy, Mutates
      <4>3. QED  BY <3>1, <4>1, <4>2 DEF ViewOK, OwnerBusy, NoReply
    <3>4. QED  BY <3>2, <3>3
  <2>4. QED  BY <2>1, <2>2, <2>3 DEF CarefulOK
<1>9. DaemonRuns'
  BY <1>1 DEF DaemonRuns
<1>10. QED  BY <1>4, <1>5, <1>6, <1>7, <1>8, <1>9 DEF IInv

\* A request that changes its name keeps the invariant: the callers that ask for the
\* name see the new value, no other request about it is on the bus, and its owner
\* learns of the change or has given up.
LEMMA ChangeKeeps ==
  ASSUME IInv, running, bus # <<>>, bus' = Tail(bus),
         Mutates(bus[1]), bus[1].name # EmptyName, Answer(bus[1], "NOERROR", "null"),
         mServices' = [mServices EXCEPT ![bus[1].name] = bus[1].service],
         packs' = IF bus[1].op = "AddService" THEN packs + 1 ELSE packs - 1,
         Witness(bus[1].name, bus[1].service),
         UNCHANGED <<world, running, pc, request, calls, status, acked>>
  PROVE  IInv'
<1>1. /\ TypeOK /\ BusOK /\ \A d \in Clients : RequestOK(d)
      /\ ResultWasRegistered /\ DaemonRuns
      /\ world.careful => AskOK /\ ChangesOK /\ MapOK /\ (running => \A m \in Names : ViewOK(m))
  BY Parts
<1> DEFINE r == bus[1]
           c == r.client
           n == r.name
           p == r.service
<1>2. /\ 1 \in 1..Len(bus) /\ bus' \in Seq(Requests)
      /\ \A i \in 1..Len(bus') : i + 1 \in 1..Len(bus) /\ i + 1 # 1 /\ bus'[i] = bus[i + 1]
  BY <1>1, Handled
<1>3. "NOERROR" \in Codes \ {"none"} /\ "null" \in Packs
  BY DEF Codes, Packs
<1>4. /\ c \in Clients /\ n \in Names
      /\ reply' \in [Clients -> [ec : Codes, pack : Packs]]
      /\ \A d \in Clients \ {c} : reply'[d] = reply[d]
      /\ \/ reply' = reply /\ ~(r.serial = calls[c] /\ pc[c] = "blocked")
         \/ /\ reply'[c] = [ec |-> "NOERROR", pack |-> "null"]
            /\ reply[c] = NoReply /\ pc[c] = "blocked" /\ request[c] = r
  BY <1>1, <1>2, <1>3, Answered
<1>5. p \in Packs /\ ((r.op = "AddService") <=> (p # "null"))
  BY <1>1, <1>2, OnBus DEF BusOK
<1>6. /\ mServices' \in [Names -> Packs] /\ mServices'[n] = p
      /\ \A m \in Names \ {n} : mServices'[m] = mServices[m]
  BY <1>1, <1>4, <1>5 DEF TypeOK
<1>7. /\ seen' \in [Clients -> SUBSET Packs]
      /\ \A d \in Clients : seen[d] \subseteq seen'[d]
      /\ \A d \in Clients : request[d].op = "GetService" /\ request[d].name = n => p \in seen'[d]
  BY <1>1, <1>5 DEF TypeOK, Witness
<1>8. TypeOK'
  BY <1>1, <1>2, <1>4, <1>6, <1>7 DEF TypeOK
<1>9. BusOK'
  BY <1>1, <1>3, HandledBus
<1>10. \A d \in Clients : RequestOK(d)'
  <2>1. ASSUME NEW d \in Clients PROVE RequestOK(d)'
    <3>1. request[d].name \in Names
      BY <1>1 DEF TypeOK, Requests
    <3>2. request[d].op = "GetService" => mServices'[request[d].name] \in seen'[d]
      BY <1>1, <1>6, <1>7, <3>1 DEF RequestOK
    <3>3. pc[d] # "blocked" \/ reply'[d].ec = "none" => reply'[d] = NoReply
      BY <1>1, <1>4 DEF RequestOK
    <3>4. QED  BY <1>1, <3>2, <3>3 DEF RequestOK, NoRequest, NoReply
  <2>2. QED  BY <2>1
<1>11. ResultWasRegistered'
  <2>1. ASSUME NEW d \in Clients, reply'[d] # NoReply, request[d].op = "GetService", reply'[d].ec = "NOERROR"
        PROVE  reply'[d].pack \in seen'[d]
    <3>1. reply'[d] = reply[d]
      BY <1>4, <2>1 DEF Mutates
    <3>2. QED  BY <1>1, <1>7, <2>1, <3>1 DEF ResultWasRegistered
  <2>2. QED  BY <2>1 DEF ResultWasRegistered, NoReply
<1>12. ASSUME world.careful PROVE CarefulOK'
  <2>1. AskOK'
    BY <1>1, <1>12 DEF AskOK
  <2>2. /\ Owner[n] = c /\ ((r.op = "AddService") <=> (mServices[n] = "null"))
        /\ status[n] = "unknown" \/ (r.serial = calls[c] /\ pc[c] = "blocked")
    BY <1>1, <1>2, <1>12 DEF ChangesOK
  <2>3. ChangesOK'
    <3>1. ASSUME NEW i \in 1..Len(bus'), Mutates(bus'[i])
          PROVE  /\ Owner[bus'[i].name] = bus'[i].client
                 /\ \/ status[bus'[i].name] = "unknown"
                    \/ bus'[i].serial = calls[bus'[i].client] /\ pc[bus'[i].client] = "blocked"
                 /\ (bus'[i].op = "AddService") <=> (mServices'[bus'[i].name] = "null")
      <4> DEFINE q == bus[i + 1]
      <4>1. i + 1 \in 1..Len(bus) /\ i + 1 # 1 /\ bus'[i] = q /\ q.name \in Names
        BY <1>1, <1>2, OnBus
      <4>2. q.name # n
        BY <1>1, <1>2, <1>12, <3>1, <4>1 DEF ChangesOK
      <4>3. /\ Owner[q.name] = q.client
            /\ \/ status[q.name] = "unknown"
               \/ q.serial = calls[q.client] /\ pc[q.client] = "blocked"
            /\ (q.op = "AddService") <=> (mServices[q.name] = "null")
        BY <1>1, <1>12, <3>1, <4>1 DEF ChangesOK
      <4>4. QED  BY <1>6, <4>1, <4>2, <4>3
    <3>2. ASSUME NEW i \in 1..Len(bus'), NEW j \in 1..Len(bus'),
                 Mutates(bus'[i]), Mutates(bus'[j]), bus'[i].name = bus'[j].name
          PROVE  i = j
      <4>1. i + 1 \in 1..Len(bus) /\ j + 1 \in 1..Len(bus) /\ bus'[i] = bus[i + 1] /\ bus'[j] = bus[j + 1]
        BY <1>2
      <4>2. i + 1 = j + 1
        BY <1>1, <1>12, <3>2, <4>1 DEF ChangesOK
      <4>3. QED  BY <4>2
    <3>3. QED  BY <3>1, <3>2 DEF ChangesOK, Mutates
  <2>4. MapOK'
    <3>1. IsFiniteSet(Registered) /\ packs = Cardinality(Registered) /\ mServices[EmptyName] = "null"
      BY <1>1, <1>12 DEF MapOK
    <3>2. mServices'[EmptyName] = "null"
      BY <1>6, <3>1, ServiceManagerAssumption
    <3>3. CASE r.op = "AddService"
      <4>1. Registered' = Registered \cup {n} /\ n \notin Registered
        BY <1>4, <1>5, <1>6, <2>2, <3>3 DEF Registered
      <4>2. IsFiniteSet(Registered') /\ Cardinality(Registered') = Cardinality(Registered) + 1
        BY <3>1, <4>1, FS_AddElement
      <4>3. QED  BY <3>1, <3>2, <3>3, <4>2 DEF MapOK
    <3>4. CASE r.op # "AddService"
      <4>1. Registered' = Registered \ {n} /\ n \in Registered
        BY <1>4, <1>5, <1>6, <2>2, <3>4 DEF Registered
      <4>2. IsFiniteSet(Registered') /\ Cardinality(Registered') = Cardinality(Registered) - 1
        BY <3>1, <4>1, FS_RemoveElement
      <4>3. QED  BY <3>1, <3>2, <3>4, <4>2 DEF MapOK
    <3>5. QED  BY <3>3, <3>4
  <2>5. ASSUME NEW m \in Names PROVE ViewOK(m)'
    <3>1. ViewOK(m) /\ Owner[m] \in Clients
      BY <1>1, <1>12, ServiceManagerAssumption
    <3>2. CASE m = n
      <4>1. CASE status[n] = "unknown"
        <5>1. ~OwnerBusy(m)
          BY <1>1, <1>4, <1>12, <2>2, <3>2, <4>1 DEF OwnerBusy, AskOK, Mutates
        <5>2. ~OwnerBusy(m)'
          BY <5>1 DEF OwnerBusy
        <5>3. QED  BY <3>2, <4>1, <5>2 DEF ViewOK
      <4>2. CASE status[n] # "unknown"
        <5>1. reply'[c].ec = "NOERROR" /\ request[c] = r /\ Owner[m] = c
          BY <1>4, <2>2, <3>2, <4>2
        <5>2. OwnerBusy(m)'
          BY <3>2, <5>1 DEF OwnerBusy, Mutates
        <5>3. mServices'[m] = IF request[c].op = "AddService" THEN request[c].service ELSE "null"
          BY <1>5, <1>6, <3>2, <5>1
        <5>4. reply'[Owner[m]].ec = "NOERROR" /\ request'[Owner[m]] = request[c]
          BY <5>1
        <5>5. QED  BY <5>2, <5>3, <5>4 DEF ViewOK
      <4>3. QED  BY <4>1, <4>2
    <3>3. CASE m # n
      <4>1. mServices'[m] = mServices[m]
        BY <1>6, <3>3
      <4>2. CASE reply'[Owner[m]] = reply[Owner[m]]
        BY <3>1, <4>1, <4>2 DEF ViewOK, OwnerBusy
      <4>3. CASE reply'[Owner[m]] # reply[Owner[m]]
        <5>1. Owner[m] = c /\ request[c] = r
          BY <1>4, <3>1, <4>3
        <5>2. ~OwnerBusy(m) /\ ~OwnerBusy(m)'
          BY <3>3, <5>1 DEF OwnerBusy
        <5>3. QED  BY <3>1, <4>1, <5>2 DEF ViewOK
      <4>4. QED  BY <4>2, <4>3
    <3>4. QED  BY <3>2, <3>3
  <2>6. QED  BY <2>1, <2>3, <2>4, <2>5 DEF CarefulOK
<1>13. DaemonRuns'
  BY <1>1 DEF DaemonRuns
<1>14. QED  BY <1>8, <1>9, <1>10, <1>11, <1>12, <1>13 DEF IInv

\* The end of the daemon keeps the invariant when the world allows it.
LEMMA GoneKeeps ==
  ASSUME IInv, Gone, world.careful => world.mayStop,
         UNCHANGED <<world, mServices, packs, pc, request, calls, status, acked, seen>>
  PROVE  IInv'
<1>1. /\ TypeOK /\ BusOK /\ \A d \in Clients : RequestOK(d)
      /\ ResultWasRegistered /\ DaemonRuns
      /\ world.careful => AskOK /\ ChangesOK /\ MapOK /\ (running => \A m \in Names : ViewOK(m))
  BY Parts
<1>2. bus' = <<>> /\ running' = FALSE
  BY DEF Gone
<1>3. /\ reply' \in [Clients -> [ec : Codes, pack : Packs]]
      /\ \A d \in Clients : \/ reply'[d] = reply[d]
                            \/ pc[d] = "blocked" /\ reply'[d].ec = "E_REMOTE_EXCEPTION"
  <2>1. [ec |-> "E_REMOTE_EXCEPTION", pack |-> "null"] \in [ec : Codes, pack : Packs]
    BY DEF Codes, Packs
  <2>2. \A d \in Clients : reply[d] \in [ec : Codes, pack : Packs]
    BY <1>1 DEF TypeOK
  <2>3. /\ reply' = [d \in Clients |-> reply'[d]]
        /\ \A d \in Clients : reply'[d] = IF pc[d] = "blocked" /\ reply[d] = NoReply
                                          THEN [ec |-> "E_REMOTE_EXCEPTION", pack |-> "null"]
                                          ELSE reply[d]
    BY DEF Gone
  <2>4. \A d \in Clients : reply'[d] \in [ec : Codes, pack : Packs]
    BY <2>1, <2>2, <2>3
  <2>5. QED  BY <2>3, <2>4
<1>4. TypeOK'
  <2>1. <<>> \in Seq(Requests)
    OBVIOUS
  <2>2. QED  BY <1>1, <1>2, <1>3, <2>1 DEF TypeOK
<1>5. BusOK' /\ ChangesOK'
  BY <1>2 DEF BusOK, ChangesOK
<1>6. \A d \in Clients : RequestOK(d)'
  BY <1>1, <1>3 DEF RequestOK, NoRequest, NoReply
<1>7. ResultWasRegistered'
  BY <1>1, <1>3 DEF ResultWasRegistered
<1>8. ASSUME world.careful PROVE CarefulOK'
  <2>1. AskOK' /\ MapOK'
    BY <1>1, <1>8 DEF AskOK, MapOK, Registered
  <2>2. QED  BY <1>2, <1>5, <2>1 DEF CarefulOK
<1>9. DaemonRuns'
  BY DEF DaemonRuns
<1>10. QED  BY <1>4, <1>5, <1>6, <1>7, <1>8, <1>9 DEF IInv

\* The daemon's handlers keep the invariant.
LEMMA DaemonStepKeeps == ASSUME IInv, DaemonStep PROVE IInv'
<1>1. TypeOK /\ BusOK /\ (world.careful => ChangesOK)
  BY Parts
<1>2. running /\ bus # <<>>
  BY DEF DaemonStep, AddService, GetService, RemoveService, Handles
<1>3. Head(bus) = bus[1] /\ 1 \in 1..Len(bus) /\ bus[1].name \in Names
  <2>1. bus \in Seq(Requests) /\ Len(bus) \in Nat /\ Len(bus) # 0
    BY <1>1, <1>2 DEF TypeOK
  <2>2. QED  BY <1>1, <2>1, OnBus
<1>4. "null" \in Packs /\ mServices[bus[1].name] \in Packs
      /\ "NOERROR" \in Codes \ {"none"} /\ "E_ILLEGAL_ARGUMENT_EXCEPTION" \in Codes \ {"none"}
  BY <1>1, <1>3 DEF TypeOK, Packs, Codes
<1>5. (bus[1].op = "AddService") <=> (bus[1].service # "null")
  BY <1>1, <1>3 DEF BusOK
<1>6. CASE AddService
  <2>1. bus' = Tail(bus) /\ bus[1].op = "AddService" /\ Mutates(bus[1])
    BY <1>3, <1>6 DEF AddService, Handles, Mutates
  <2>2. CASE bus[1].name = EmptyName
    BY <1>2, <1>3, <1>4, <1>6, <2>1, <2>2, AnswerKeeps DEF AddService
  <2>3. CASE bus[1].name # EmptyName
    BY <1>2, <1>3, <1>6, <2>1, <2>3, ChangeKeeps DEF AddService
  <2>4. QED  BY <2>2, <2>3
<1>7. CASE GetService
  <2>1. bus' = Tail(bus) /\ ~Mutates(bus[1])
    BY <1>3, <1>7 DEF GetService, Handles, Mutates
  <2>2. CASE bus[1].name = EmptyName
    BY <1>2, <1>3, <1>4, <1>7, <2>1, <2>2, AnswerKeeps DEF GetService
  <2>3. CASE bus[1].name # EmptyName
    BY <1>2, <1>3, <1>4, <1>7, <2>1, <2>3, AnswerKeeps DEF GetService
  <2>4. QED  BY <2>2, <2>3
<1>8. CASE RemoveService
  <2>1. bus[1].op = "RemoveService" /\ Mutates(bus[1])
    BY <1>3, <1>8 DEF RemoveService, Mutates
  <2>2. CASE bus[1].name = EmptyName
    BY <1>2, <1>3, <1>4, <1>8, <2>1, <2>2, AnswerKeeps DEF RemoveService
  <2>3. CASE bus[1].name # EmptyName /\ mServices[bus[1].name] = "null"
    <3>1. ~world.careful
      BY <1>1, <1>3, <2>1, <2>3 DEF ChangesOK
    <3>2. Gone /\ UNCHANGED <<world, mServices, packs, pc, request, calls, status, acked, seen>>
      BY <1>3, <1>8, <2>3 DEF RemoveService
    <3>3. QED  BY <3>1, <3>2, GoneKeeps
  <2>4. CASE bus[1].name # EmptyName /\ mServices[bus[1].name] # "null"
    <3>1. bus[1].service = "null" /\ bus[1].op # "AddService"
      BY <1>5, <2>1
    <3>2. /\ bus' = Tail(bus) /\ Answer(bus[1], "NOERROR", "null")
          /\ mServices' = [mServices EXCEPT ![bus[1].name] = "null"] /\ packs' = packs - 1
          /\ Witness(bus[1].name, "null")
          /\ UNCHANGED <<world, running, pc, request, calls, status, acked>>
      BY <1>3, <1>8, <2>4 DEF RemoveService
    <3>3. QED  BY <1>2, <2>1, <2>4, <3>1, <3>2, ChangeKeeps
  <2>5. QED  BY <2>2, <2>3, <2>4
<1>9. QED  BY <1>6, <1>7, <1>8 DEF DaemonStep

-----------------------------------------------------------------------------
\* At first nothing is registered and nobody calls.
LEMMA InitHolds == ASSUME Init PROVE IInv
<1>1. TypeOK
  <2>1. <<>> \in Seq(Requests)
    OBVIOUS
  <2>2. /\ request \in [Clients -> Requests]
        /\ reply \in [Clients -> [ec : Codes, pack : Packs]]
    BY ServiceManagerAssumption DEF Init, NoRequest, NoReply, Requests, Codes, Packs
  <2>3. QED  BY <2>1, <2>2 DEF Init, TypeOK, Packs
<1>2. BusOK /\ ChangesOK
  BY DEF Init, BusOK, ChangesOK
<1>3. \A c \in Clients : RequestOK(c)
  BY DEF Init, RequestOK, NoRequest, NoReply
<1>4. ResultWasRegistered /\ DaemonRuns
  BY DEF Init, ResultWasRegistered, DaemonRuns
<1>5. AskOK
  BY DEF Init, AskOK, Mutates, NoRequest
<1>6. \A n \in Names : ViewOK(n)
  BY ServiceManagerAssumption DEF Init, ViewOK, OwnerBusy, NoRequest
<1>7. MapOK
  <2>1. Registered = {}
    BY DEF Init, Registered
  <2>2. IsFiniteSet(Registered) /\ Cardinality(Registered) = 0
    BY <2>1, FS_EmptySet
  <2>3. QED  BY <2>2, ServiceManagerAssumption DEF Init, MapOK
<1>8. QED  BY <1>1, <1>2, <1>3, <1>4, <1>5, <1>6, <1>7 DEF IInv, CarefulOK

\* Every step keeps the invariant.
LEMMA NextKeeps == ASSUME IInv, [Next]_vars PROVE IInv'
<1>1. CASE UNCHANGED vars
  BY <1>1 DEF vars, IInv, TypeOK, BusOK, RequestOK, ResultWasRegistered, DaemonRuns, CarefulOK,
     AskOK, ChangesOK, MapOK, Registered, ViewOK, OwnerBusy, Mutates, NoRequest, NoReply
<1>2. ASSUME NEW c \in Clients, NEW op \in Ops, NEW n \in Names, NEW s \in Packs, Call(c, op, n, s)
      PROVE  IInv'
  BY <1>2, CallKeeps
<1>3. ASSUME NEW c \in Clients, Return(c) PROVE IInv'
  <2>1. reply[c].ec \in Codes
    BY DEF IInv, TypeOK
  <2>2. QED  BY <1>3, <2>1, ReturnsKeeps DEF Return
<1>4. ASSUME NEW c \in Clients, Timeout(c) PROVE IInv'
  <2>1. "E_REMOTE_EXCEPTION" \in Codes
    BY DEF Codes
  <2>2. QED  BY <1>4, <2>1, ReturnsKeeps DEF Timeout
<1>5. ASSUME Stop PROVE IInv'
  BY <1>5, GoneKeeps DEF Stop
<1>6. CASE Next
  BY <1>2, <1>3, <1>4, <1>5, <1>6, ConnectFailsKeeps, SendKeeps, DaemonStepKeeps
     DEF Next, Ops, Packs
<1>7. QED  BY <1>1, <1>6

\* The invariant holds in every reachable state.
THEOREM ServiceManagerInvariant == Spec => []IInv
<1>1. Init => IInv
  BY InitHolds
<1>2. IInv /\ [Next]_vars => IInv'
  BY NextKeeps
<1>3. QED  BY <1>1, <1>2, PTL DEF Spec

\* A reply never belongs to another call: what GetService returns was registered
\* under the name during the call, whatever requests of timed out calls the daemon
\* still answers.
THEOREM ResultsCorrect == Spec => []ResultWasRegistered
<1>1. IInv => ResultWasRegistered
  BY DEF IInv
<1>2. QED  BY <1>1, ServiceManagerInvariant, PTL

\* Owners that add and remove only their own names, and ask no more about a name
\* after a timeout, know what the daemon has.
THEOREM OwnersViewCorrect == Spec => []OwnersViewTrue
<1>1. IInv => OwnersViewTrue
  BY DEF IInv, CarefulOK, OwnersViewTrue, ViewOK, OwnerBusy
<1>2. QED  BY <1>1, ServiceManagerInvariant, PTL

\* RemoveService never reads through a null pack on behalf of careful clients.
THEOREM DaemonStaysUp == Spec => []DaemonRuns
<1>1. IInv => DaemonRuns
  BY DEF IInv
<1>2. QED  BY <1>1, ServiceManagerInvariant, PTL

\* AddService never drops a registered pack on behalf of careful clients.
THEOREM NoPackLost == Spec => []PacksOwned
<1>1. IInv => PacksOwned
  BY DEF IInv, CarefulOK, MapOK, Registered, PacksOwned
<1>2. QED  BY <1>1, ServiceManagerInvariant, PTL
=============================================================================
